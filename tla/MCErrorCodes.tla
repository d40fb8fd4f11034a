---------------------------- MODULE MCErrorCodes -----------------------------
(* Codes around the varint bound: below it, at it, and just past it. *)
EXTENDS ErrorCodes
=============================================================================
