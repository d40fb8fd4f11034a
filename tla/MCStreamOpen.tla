---------------------------- MODULE MCStreamOpen -----------------------------
(* An opener that opens one stream after another. *)
EXTENDS StreamOpen
=============================================================================
