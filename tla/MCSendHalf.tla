------------------------------ MODULE MCSendHalf ------------------------------
(* The send half with the values its cfg files give the bounds. *)
EXTENDS SendHalf
=============================================================================
