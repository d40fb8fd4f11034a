---------------------------- MODULE MCConnection -----------------------------
(* The connection with a peer stream, one fault and one more handle or waiter. *)
EXTENDS Connection
=============================================================================
