----------------------------- MODULE MCNesCart -----------------------------
(***************************************************************************)
(* A file for each way the header can go: one bank, two, none, a mapper    *)
(* the emulator does not have, a header that is not iNES, and no ROM at    *)
(* all.  Blocks for five images and mappers that leak besides a cartridge; *)
(* files that stay open use up the two descriptors.  Other sectors may     *)
(* begin with the header of any of these files.                            *)
(***************************************************************************)
EXTENDS NesCart

Ines(id, banks) == [ident |-> TRUE, ines |-> TRUE, mapper |-> id, prg |-> banks]

Cartridges ==
    [nrom |-> Ines(0, 1), big |-> Ines(0, 2), empty |-> Ines(0, 0), mmc |-> Ines(1, 1),
     nes2 |-> [Ines(0, 1) EXCEPT !.ines = FALSE], text |-> [Ines(0, 1) EXCEPT !.ident = FALSE]]

Names == DOMAIN Cartridges

FoundHeaders == {Cartridges[r] : r \in Names}

\* The first free block: one that was freed is used again before a new one.
First(S) == CHOOSE b \in S : \A c \in S : b <= c
=============================================================================
