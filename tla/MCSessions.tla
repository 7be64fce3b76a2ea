------------------------------ MODULE MCSessions ------------------------------
(* Small instances of Sessions. *)
EXTENDS Sessions

CONSTANTS a1, a2, l1, l2, b1, t1, t2
=============================================================================
