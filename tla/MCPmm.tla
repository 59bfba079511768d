------------------------------- MODULE MCPmm -------------------------------
(***************************************************************************)
(* Five frames; requests up to one more than there are, so that chunks are *)
(* split, used up, found too small and rebuilt.  Word is small enough for  *)
(* MemUsed to wrap at init_pmm and again while pages are handed out.       *)
(***************************************************************************)
EXTENDS Pmm

\* Caller data read as a chunk header: a count no header has.
CallerData == [pageCount |-> 0, prev |-> NULL, next |-> NULL]
=============================================================================
