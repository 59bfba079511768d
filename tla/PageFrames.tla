----------------------------- MODULE PageFrames -----------------------------
(***************************************************************************)
(* The page frames the kernel hands out, numbered by address / 4096.       *)
(* linker.ld aligns __kernel_end to 4096, so the memory between            *)
(* __kernel_end and the end of RAM is a whole number of frames, and every  *)
(* address the allocator computes is the base of a frame.                  *)
(***************************************************************************)
EXTENDS Integers

CONSTANTS
    FirstPage,   \* number of the frame at __kernel_end
    NumPages     \* frames between __kernel_end and the end of memory

ASSUME PageFramesAssumption ==
    /\ FirstPage \in Nat \ {0}
    /\ NumPages \in Nat \ {0}

\* The null pointer; address 0 lies below __kernel_end.
NULL == 0

Pages == FirstPage .. FirstPage + NumPages - 1

\* The frames of a run of n frames that starts at frame b.
Run(b, n) == b .. b + n - 1
=============================================================================
