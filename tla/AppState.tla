------------------------------ MODULE AppState ------------------------------
(***************************************************************************)
(* The repair of an app state collection of an instance (ResyncAppState in *)
(* session/whatsmeow/appstate.go), asked for by an API call or, in         *)
(* events.go, by an error of a patch.  A full sync drops the stored        *)
(* version first, and a failed one does not put it back.                   *)
(***************************************************************************)
EXTENDS Naturals

CONSTANTS Callers,  \* API requests and goroutines of handleEvent
          MaxErrors \* bound: patches that fail

VARIABLES online,  \* IsConnected and IsLoggedIn
          marked,  \* appStateResync: a resync has begun in the last fifteen minutes
          pc,      \* pc[p]: "idle", "auto", "mark" (the client was online), "fetch"
          base,    \* the collection: "good", "diverged", "dropped"
          errors,  \* patches that have failed
          autos    \* goroutines that were started for one

vars == <<online, marked, pc, base, errors, autos>>

Init ==
    /\ online \in BOOLEAN /\ marked = FALSE
    /\ pc = [p \in Callers |-> "idle"]
    /\ base = "good" /\ errors = 0 /\ autos = 0

Goto(p, l) == pc' = [pc EXCEPT ![p] = l]

\* AppStateSyncError of a patch: the collection has diverged.
PatchFails(p) ==
    /\ online /\ base # "dropped" /\ errors < MaxErrors
    /\ pc[p] = "idle" /\ Goto(p, "auto")
    /\ base' = "diverged"
    /\ errors' = errors + 1 /\ autos' = autos + 1
    /\ UNCHANGED <<online, marked>>

\* ResyncAppState as far as the connection check.
Begin(p) ==
    /\ Goto(p, IF online THEN "mark" ELSE "idle")
    /\ UNCHANGED <<online, marked, base, errors, autos>>

\* A well-formed request for an instance; its answer, "skipped" included, changes nothing.
Request(p) == pc[p] = "idle" /\ Begin(p)

\* The goroutine of handleEvent.
Repair(p) == pc[p] = "auto" /\ Begin(p)

\* Slip: the mark is set when the sync is over.
MarkLate(p) ==
    /\ pc[p] = "mark"
    /\ IF marked THEN Goto(p, "idle") /\ UNCHANGED base
                 ELSE Goto(p, "fetch") /\ base' = "dropped"
    /\ UNCHANGED <<online, marked, errors, autos>>

\* markAppStateResync, under m.mu: a collection in cool-down is skipped.
Mark(p) ==
    /\ pc[p] = "mark"
    /\ marked' = TRUE
    /\ IF marked THEN Goto(p, "idle") /\ UNCHANGED base
                 ELSE Goto(p, "fetch") /\ base' = "dropped"
    /\ UNCHANGED <<online, errors, autos>>

Fetched(p) ==
    /\ pc[p] = "fetch" /\ online
    /\ Goto(p, "idle")
    /\ base' = "good"
    /\ UNCHANGED <<online, marked, errors, autos>>

\* The mark is dropped; the AppStateSyncError of a full sync starts nothing.
FetchFails(p) ==
    /\ pc[p] = "fetch"
    /\ Goto(p, "idle")
    /\ marked' = FALSE
    /\ UNCHANGED <<online, base, errors, autos>>

\* Fifteen minutes since the mark: no sync takes that long (the goroutine's is given two
\* minutes, a request's as long as its caller waits).
Expire ==
    /\ marked /\ \A p \in Callers : pc[p] # "fetch"
    /\ marked' = FALSE
    /\ UNCHANGED <<online, pc, base, errors, autos>>

Network ==
    /\ online' = ~online
    /\ UNCHANGED <<marked, pc, base, errors, autos>>

Next ==
    \/ \E p \in Callers : 
        \/ PatchFails(p) \/ Request(p) \/ Repair(p)
        \/ Mark(p) \/ Fetched(p) \/ FetchFails(p)
    \/ Expire \/ Network

Spec == Init /\ [][Next]_vars
-----------------------------------------------------------------------------
TypeOK ==
    /\ {online, marked} \subseteq BOOLEAN
    /\ pc \in [Callers -> {"idle", "auto", "mark", "fetch"}]
    /\ base \in {"good", "diverged", "dropped"}
    /\ errors <= MaxErrors

\* Full syncs of a collection do not pile up: one at a time, however many ask for it, and
\* none that another one's failure has started.
NoResyncStorm ==
    /\ \A p, q \in Callers : pc[p] = "fetch" /\ pc[q] = "fetch" => p = q
    /\ autos <= errors
=============================================================================
