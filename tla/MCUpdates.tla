------------------------------ MODULE MCUpdates ------------------------------
(* Small instances of Updates: two sources that nobody edits, or one with  *)
(* a user at work.                                                         *)
EXTENDS Updates, TLC

CONSTANTS l1, l2

MCMaxSources == (FALSE :> 2) @@ (TRUE :> 1)
=============================================================================
