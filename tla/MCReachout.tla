----------------------------- MODULE MCReachout -----------------------------
(* A small instance of Reachout for TLC. *)
EXTENDS Reachout, TLC

CONSTANTS p1, p2, p3, i1, i2, gen1, gen2, gen3

Symmetry == Permutations(Callers) \cup Permutations(Instances) \cup Permutations(Maps)
=============================================================================
