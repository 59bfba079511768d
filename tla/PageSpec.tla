------------------------------ MODULE PageSpec ------------------------------
(***************************************************************************)
(* What pmm.h promises to those who call it: allocPage hands out a run of  *)
(* frames nobody holds, freePage takes one back.  The state is the map of  *)
(* the blocks callers hold: block[b] is the number of frames of the block  *)
(* at b, 0 when no block starts there.                                     *)
(***************************************************************************)
EXTENDS PageFrames

VARIABLE block

Held == UNION {Run(b, block[b]) : b \in Pages}

Init == block = [b \in Pages |-> 0]

\* A caller receives n frames that nobody holds.
Grab(b, n) ==
    /\ Run(b, n) \subseteq Pages
    /\ Run(b, n) \cap Held = {}
    /\ block' = [block EXCEPT ![b] = n]

\* A caller gives back a block it holds, whole.
Release(b) ==
    /\ block[b] > 0
    /\ block' = [block EXCEPT ![b] = 0]

Next ==
    \E b \in Pages :
        \/ Release(b)
        \/ \E n \in 1 .. NumPages : Grab(b, n)

Spec == Init /\ [][Next]_block
=============================================================================
