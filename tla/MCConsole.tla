----------------------------- MODULE MCConsole -----------------------------
(***************************************************************************)
(* A screen of five lines and four columns, glyphs of two rows.  Strings   *)
(* are written between lines, over the end of a row and off the bottom.    *)
(***************************************************************************)
EXTENDS Console

Place(x, y, s) == [x |-> x, y |-> y, str |-> s]

Written == {Place(1, 3, <<"a", "b">>), Place(3, 6, <<"b", "a">>), Place(0, 9, <<"a">>)}
=============================================================================
