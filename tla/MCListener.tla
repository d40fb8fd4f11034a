----------------------------- MODULE MCListener ------------------------------
(* Two offered connections and two shutdown callers. *)
EXTENDS Listener
=============================================================================
