--------------------------- MODULE MCEditJournal ---------------------------
(* A ring of three blocks.                                                 *)
EXTENDS EditJournal
=============================================================================
