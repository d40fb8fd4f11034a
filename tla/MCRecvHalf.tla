------------------------------ MODULE MCRecvHalf ------------------------------
(* The receive half with the values its cfg files give the budget and bounds. *)
EXTENDS RecvHalf
=============================================================================
