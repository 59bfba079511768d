------------------------------- MODULE MCVfs -------------------------------
(***************************************************************************)
(* Two descriptors and two slots for two files and two directories, one of *)
(* them the root, so that a table fills up, a file is opened twice and a   *)
(* place is used again.  Three addresses, of which each directory opened   *)
(* uses one up for good, so that files meet every mix of live and closed   *)
(* directories.  The files are two units and one unit long; the root has   *)
(* one entry.                                                              *)
(***************************************************************************)
EXTENDS Vfs, TLC

TwoFiles  == {"rom", "txt"}
OneDir    == {"roms"}
BufferOf  == [f \in TwoFiles \cup {"other"} |-> IF f = "rom" THEN 2 ELSE 1]
EntriesOf == [d \in OneDir \cup {"/", "other"} |-> IF d = "/" THEN 1 ELSE 0]

\* Addresses are compared and nothing else.
AddressesAlike == Permutations(Addresses)
=============================================================================
