------------------------------ MODULE HeapSpec ------------------------------
(***************************************************************************)
(* What malloc and free promise: every block handed out has room for the   *)
(* size asked for and for a tag before it, apart from every other block    *)
(* and its tag, and stays as it is until it is freed.  live maps the       *)
(* address of each block handed out to its size.                           *)
(***************************************************************************)
EXTENDS Integers

CONSTANTS
    Addresses,   \* addresses of memory
    TagSize      \* bytes of the tag malloc puts before a block

VARIABLE live

\* The bytes of a block of n bytes at p and of its tag.
Bytes(p, n) == p - TagSize .. p + n - 1

Init == live = [p \in {} |-> 0]

Malloc(p, n) ==
    /\ Bytes(p, n) \subseteq Addresses
    /\ \A q \in DOMAIN live : Bytes(p, n) \cap Bytes(q, live[q]) = {}
    /\ live' = [q \in DOMAIN live \cup {p} |-> IF q = p THEN n ELSE live[q]]

Free(p) == live' = [q \in DOMAIN live \ {p} |-> live[q]]

\* malloc: the blocks grow by one, which fits; free: they shrink by one.
Next ==
    \/ \E p \in DOMAIN live : Free(p)
    \/ \E p \in DOMAIN live' \ DOMAIN live : Malloc(p, live'[p])

Spec == Init /\ [][Next]_live
=============================================================================
