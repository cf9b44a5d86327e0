------------------------------- MODULE MCSend -------------------------------
(* A small instance of Send for TLC. *)
EXTENDS Send, TLC

CONSTANTS c1, c2, wa, i1, mia, bob

Symmetry == Permutations(Calls)
=============================================================================
