------------------------------ MODULE KeyClaim ------------------------------
(***************************************************************************)
(* What the idempotency guard promises about a key, with the storage taken *)
(* away: a key is free, held by the one request that is running under it,  *)
(* or settled with that request's result.  Only the holder gives a key up  *)
(* or settles it; otherwise a key becomes free only when its time is over. *)
(* Idempotency.tla implements this with separate SQL statements that carry *)
(* no owner token.                                                         *)
(***************************************************************************)

CONSTANTS Requests,   \* the POSTs that carry a key
          Keys,       \* (instance, Idempotency-Key) pairs
          NoRequest   \* holder of a free key

VARIABLES claim,      \* claim[k]: phase of the key and the request that holds it
          verdict     \* verdict[r]: what the guard decided about the request

vars == <<claim, verdict>>

Free == [phase |-> "free", by |-> NoRequest]

Init == /\ claim = [k \in Keys |-> Free]
        /\ verdict = [r \in Requests |-> "none"]

\* The request becomes the holder of a free key.
Grant(r, k) == /\ verdict[r] = "none"
               /\ claim[k] = Free
               /\ claim' = [claim EXCEPT ![k] = [phase |-> "held", by |-> r]]
               /\ verdict' = [verdict EXCEPT ![r] = "owner"]

\* The key is taken: the request is told so, or is given the stored result.
Refer(r, k) == /\ verdict[r] = "none"
               /\ \/ /\ claim[k].phase = "held"
                     /\ verdict' = [verdict EXCEPT ![r] = "busy"]
                  \/ /\ claim[k].phase = "settled"
                     /\ \E v \in {"replay", "mismatch"} :
                           verdict' = [verdict EXCEPT ![r] = v]
               /\ UNCHANGED claim

\* The guard steps aside (no key, no store) or refuses the key itself.
Bypass(r) == /\ verdict[r] = "none"
             /\ \E v \in {"unprotected", "rejected"} :
                   verdict' = [verdict EXCEPT ![r] = v]
             /\ UNCHANGED claim

\* The holder gives the key back: its request may be repeated.
Surrender(r, k) == /\ claim[k] = [phase |-> "held", by |-> r]
                   /\ claim' = [claim EXCEPT ![k] = Free]
                   /\ UNCHANGED verdict

\* The holder stores its result under the key.
Settle(r, k) == /\ claim[k] = [phase |-> "held", by |-> r]
                /\ claim' = [claim EXCEPT ![k].phase = "settled"]
                /\ UNCHANGED verdict

\* The key's time is over; a sweep frees any number of them at once.
Lapse(K) == /\ claim' = [k \in Keys |-> IF k \in K THEN Free ELSE claim[k]]
            /\ UNCHANGED verdict

Next == \/ \E r \in Requests, k \in Keys :
              Grant(r, k) \/ Refer(r, k) \/ Surrender(r, k) \/ Settle(r, k)
        \/ \E r \in Requests : Bypass(r)
        \/ \E K \in SUBSET Keys : Lapse(K)

Spec == Init /\ [][Next]_vars
=============================================================================
