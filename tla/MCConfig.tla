------------------------------ MODULE MCConfig -------------------------------
(* The boundaries of a u32 of three bits: zero, the default, the largest ceiling *)
(* below u32::MAX, u32::MAX itself and 2^32, at which lengths wrap to zero.      *)
EXTENDS Config, TLC
Defaults == [send |-> 2, bytes |-> 3, units |-> 2]
ConnSymmetry == Permutations(Conns)
=============================================================================
