----------------------------- MODULE MCLibAlloc -----------------------------
(***************************************************************************)
(* Runs of two frames of eight bytes, tags of one byte, size classes from  *)
(* 2 bytes on, five frames, and one whole run that may stand by in each    *)
(* class.  Of the sizes, 0 and 4 split a run, 8 leaves too little to split *)
(* off, and 17 needs three frames, so that the frames run out.             *)
(***************************************************************************)
EXTENDS LibAlloc
=============================================================================
