----------------------------- MODULE MCSession -----------------------------
(* A small instance of Session for TLC. *)
EXTENDS Session, TLC

CONSTANTS r1, r2, c1, c2

Symmetry == Permutations(Callers) \cup Permutations(Clients)
=============================================================================
