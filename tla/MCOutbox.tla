------------------------------ MODULE MCOutbox ------------------------------
(* A small instance of Outbox for TLC: the messages share an instance. *)
EXTENDS Outbox

CONSTANTS m1, m2, i1, w1, w2

OneInstance == [m \in Msgs |-> i1]
=============================================================================
