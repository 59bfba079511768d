------------------------------ MODULE MCPl181 ------------------------------
(***************************************************************************)
(* Two blocks of three words behind a FIFO of two, so that a block does    *)
(* not fit, can overrun it and can arrive late, and so that a read of two  *)
(* blocks can begin before the first has come; two tries of the            *)
(* application command, so that the second may succeed or fail.            *)
(***************************************************************************)
EXTENDS Pl181
=============================================================================
