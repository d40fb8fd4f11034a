------------------------------ MODULE MCRundown -------------------------------
(* The rundown with small sets of handles and waiters. *)
EXTENDS Rundown

CONSTANTS c1, c2, i1, w1, w2
=============================================================================
