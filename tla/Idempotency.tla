---------------------------- MODULE Idempotency -----------------------------
(***************************************************************************)
(* The Idempotency-Key guard of the send routes: the middleware            *)
(* (internal/api/middleware/idempotency.go), the idempotency_keys table    *)
(* behind it (internal/storage/{sqlite,postgres}/idempotency_repo.go) and  *)
(* the hourly sweep (internal/service/idempotency/cleaner.go).             *)
(*                                                                         *)
(* TryAcquire is three SQL statements and is modelled as three steps, so   *)
(* requests interleave between them.  The guarded handler is abstracted to *)
(* what the guard can see of it (the answer) and what it must protect (the *)
(* message reached WhatsApp, or, on the route that only enqueues, a row    *)
(* was queued); Send.tla models the send path itself.                      *)
(***************************************************************************)
EXTENDS Naturals, FiniteSets

CONSTANTS Requests,        \* HTTP POSTs to a send route
          Keys,            \* (instance, Idempotency-Key) pairs: the primary key
          Hashes,          \* request fingerprints (hashRequest)
          NoRequest, NoKey, NoHash,
          StoreMayFail,    \* a statement on idempotency_keys may return an error
          ProcessMayCrash  \* the process may die and be restarted

ASSUME ConstantsAssumption ==
    /\ NoRequest \notin Requests
    /\ NoKey \notin Keys
    /\ NoHash \notin Hashes
    /\ StoreMayFail \in BOOLEAN
    /\ ProcessMayCrash \in BOOLEAN

VARIABLES pc,       \* pc[r]: the step the request is at
          req,      \* req[r]: the key and the fingerprint it arrived with
          mode,     \* mode[r]: what the guard decided about it
          answer,   \* answer[r]: status class, and the request whose result it carries
          reached,  \* reached[r]: its message reached WhatsApp (or was queued)
          row,      \* row[k]: the row of idempotency_keys, Absent if there is none
          life,     \* life[k]: how many rows of k have been dropped as expired
          lifeOf    \* lifeOf[r]: life of its key when r inserted the row

vars == <<pc, req, mode, answer, reached, row, life, lifeOf>>

Steps == {"idle", "delete", "insert", "select", "handler", "record", "done", "dead"}
Modes == {"none", "owner", "unprotected", "busy", "mismatch", "replay", "rejected"}

\* Status classes: what the handler writes, and what the guard itself writes.
HandlerStatus == {"2xx", "4xx", "503", "500"}
Answers == HandlerStatus \cup {"none", "400", "409", "422"}

NoAnswer == [status |-> "none", of |-> NoRequest]
Absent == [status |-> "absent", hash |-> NoHash, by |-> NoRequest, expired |-> FALSE]

RowType == [status : {"absent", "started", "completed"},
            hash : Hashes \cup {NoHash},
            by : Requests \cup {NoRequest},  \* whose response the row stores: the row has no owner column
            expired : BOOLEAN]

Init == /\ pc = [r \in Requests |-> "idle"]
        /\ req = [r \in Requests |-> [key |-> NoKey, hash |-> NoHash]]
        /\ mode = [r \in Requests |-> "none"]
        /\ answer = [r \in Requests |-> NoAnswer]
        /\ reached = [r \in Requests |-> FALSE]
        /\ row = [k \in Keys |-> Absent]
        /\ life = [k \in Keys |-> 0]
        /\ lifeOf = [r \in Requests |-> 0]

Key(r) == req[r].key
-----------------------------------------------------------------------------
\* A request arrives.  Without a key it goes straight to the handler.
ArriveBare(r) ==
    /\ pc[r] = "idle"
    /\ pc' = [pc EXCEPT ![r] = "handler"]
    /\ mode' = [mode EXCEPT ![r] = "unprotected"]
    /\ UNCHANGED <<req, answer, reached, row, life, lifeOf>>

\* An oversized key or an unreadable body is answered at once.
Reject(r) ==
    /\ pc[r] = "idle"
    /\ pc' = [pc EXCEPT ![r] = "done"]
    /\ mode' = [mode EXCEPT ![r] = "rejected"]
    /\ answer' = [answer EXCEPT ![r] = [status |-> "400", of |-> r]]
    /\ UNCHANGED <<req, reached, row, life, lifeOf>>

Arrive(r, k, h) ==
    /\ pc[r] = "idle"
    /\ pc' = [pc EXCEPT ![r] = "delete"]
    /\ req' = [req EXCEPT ![r] = [key |-> k, hash |-> h]]
    /\ UNCHANGED <<mode, answer, reached, row, life, lifeOf>>

\* TryAcquire returned an error: the request runs without protection.
Unprotect(r) ==
    /\ pc' = [pc EXCEPT ![r] = "handler"]
    /\ mode' = [mode EXCEPT ![r] = "unprotected"]
    /\ UNCHANGED <<req, answer, reached, row, life, lifeOf>>

StoreError(r) ==
    /\ StoreMayFail
    /\ pc[r] \in {"delete", "insert", "select"}
    /\ Unprotect(r)

\* TryAcquire, statement 1: an expired row of this key is dropped.
DeleteIfExpired(r) ==
    /\ pc[r] = "delete"
    /\ pc' = [pc EXCEPT ![r] = "insert"]
    /\ IF row[Key(r)].expired
       THEN /\ row' = [row EXCEPT ![Key(r)] = Absent]
            /\ life' = [life EXCEPT ![Key(r)] = @ + 1]
       ELSE UNCHANGED <<row, life>>
    /\ UNCHANGED <<req, mode, answer, reached, lifeOf>>

\* Slip: a SELECT decides, and the INSERT overwrites whatever came in between.
InsertUnchecked(r) ==
    /\ pc[r] = "insert"
    /\ row' = [row EXCEPT ![Key(r)] = [status |-> "started", hash |-> req[r].hash,
                                       by |-> r, expired |-> FALSE]]
    /\ lifeOf' = [lifeOf EXCEPT ![r] = life[Key(r)]]
    /\ mode' = [mode EXCEPT ![r] = "owner"]
    /\ pc' = [pc EXCEPT ![r] = "handler"]
    /\ UNCHANGED <<req, answer, reached, life>>

\* TryAcquire, statement 2: INSERT ... ON CONFLICT DO NOTHING.
Insert(r) ==
    /\ pc[r] = "insert"
    /\ \/ /\ row[Key(r)] = Absent
          /\ row' = [row EXCEPT ![Key(r)] = [status |-> "started", hash |-> req[r].hash,
                                             by |-> r, expired |-> FALSE]]
          /\ lifeOf' = [lifeOf EXCEPT ![r] = life[Key(r)]]
          /\ mode' = [mode EXCEPT ![r] = "owner"]
          /\ pc' = [pc EXCEPT ![r] = "handler"]
       \/ /\ row[Key(r)] # Absent
          /\ pc' = [pc EXCEPT ![r] = "select"]
          /\ UNCHANGED <<row, lifeOf, mode>>
    /\ UNCHANGED <<req, answer, reached, life>>

\* Slip: the stored answer is replayed without comparing the fingerprints.
SelectUnhashed(r) ==
    /\ pc[r] = "select"
    /\ IF row[Key(r)].status = "completed"
       THEN /\ pc' = [pc EXCEPT ![r] = "done"]
            /\ mode' = [mode EXCEPT ![r] = "replay"]
            /\ answer' = [answer EXCEPT ![r] = [status |-> answer[row[Key(r)].by].status,
                                                 of |-> row[Key(r)].by]]
       ELSE /\ pc' = [pc EXCEPT ![r] = "handler"]
            /\ mode' = [mode EXCEPT ![r] = "unprotected"]
            /\ UNCHANGED answer
    /\ UNCHANGED <<req, reached, row, life, lifeOf>>

\* TryAcquire, statement 3, and replay: the row may be gone by now, which the
\* repository reports as an error.
Select(r) ==
    LET found == row[Key(r)]
        Answer(m, s, o) ==
            /\ pc' = [pc EXCEPT ![r] = "done"]
            /\ mode' = [mode EXCEPT ![r] = m]
            /\ answer' = [answer EXCEPT ![r] = [status |-> s, of |-> o]]
            /\ UNCHANGED <<req, reached, row, life, lifeOf>>
    IN  /\ pc[r] = "select"
        /\ \/ found = Absent /\ Unprotect(r)
           \/ found.status = "started" /\ Answer("busy", "409", r)
           \/ /\ found.status = "completed"
              /\ found.hash # req[r].hash
              /\ Answer("mismatch", "422", r)
           \/ /\ found.status = "completed"
              /\ found.hash = req[r].hash
              /\ Answer("replay", answer[found.by].status, found.by)
-----------------------------------------------------------------------------
\* The handler hands the message over: WhatsApp has it, or the row is queued.
\* One send uses one message id, so a second attempt adds no second message.
Transmit(r) ==
    /\ pc[r] = "handler"
    /\ ~reached[r]
    /\ reached' = [reached EXCEPT ![r] = TRUE]
    /\ UNCHANGED <<pc, req, mode, answer, row, life, lifeOf>>

\* The statuses the handler can write.  Nothing handed over: refused payload or
\* recipient, instance not connected, session not ready, any other error, or the
\* stored result of an earlier send under the same whatsappId (2xx).
\* Handed over: success, an unconfirmed attempt (500), or an unconfirmed attempt
\* whose retry was refused (400 not on WhatsApp, 422 reach-out lock).
StatusesAfter(r) == IF reached[r] THEN {"2xx", "500", "4xx"} ELSE HandlerStatus

HandlerAnswers(r) ==
    /\ pc[r] = "handler"
    /\ \E s \in StatusesAfter(r) : answer' = [answer EXCEPT ![r] = [status |-> s, of |-> r]]
    /\ pc' = [pc EXCEPT ![r] = IF mode[r] = "owner" THEN "record" ELSE "done"]
    /\ UNCHANGED <<req, mode, reached, row, life, lifeOf>>

\* Slip: the result is recorded after the handler returns, not in a deferred call.
PanicUnrecorded(r) ==
    /\ pc[r] = "handler"
    /\ pc' = [pc EXCEPT ![r] = "done"]
    /\ UNCHANGED <<req, mode, answer, reached, row, life, lifeOf>>

\* The handler panics before it has written anything.
HandlerPanics(r) ==
    /\ pc[r] = "handler"
    /\ pc' = [pc EXCEPT ![r] = IF mode[r] = "owner" THEN "record" ELSE "done"]
    /\ UNCHANGED <<req, mode, answer, reached, row, life, lifeOf>>

\* Slip: every failure frees the key, the ambiguous 500 included.
FreesOnAnyError(status) == status # "2xx"

\* Nothing written, a 4xx or a 503 frees the key.
FreesKey(status) == status \in {"none", "4xx", "503"}

\* Slip: a released row is marked, not deleted.
ReleaseMarks(k) == row' = [row EXCEPT ![k].status = "released"]

\* Both statements name the row by its key alone: they do not check whose it is.
Release(k) == row' = [row EXCEPT ![k] = Absent]

Complete(k, r) ==
    row' = IF row[k] = Absent THEN row
           ELSE [row EXCEPT ![k].status = "completed", ![k].by = r]

\* The deferred function of the middleware.  A store error is only logged.
Record(r) ==
    /\ pc[r] = "record"
    /\ \/ FreesKey(answer[r].status) /\ Release(Key(r))
       \/ ~FreesKey(answer[r].status) /\ Complete(Key(r), r)
       \/ StoreMayFail /\ UNCHANGED row
    /\ pc' = [pc EXCEPT ![r] = "done"]
    /\ UNCHANGED <<req, mode, answer, reached, life, lifeOf>>
-----------------------------------------------------------------------------
Running(r) == pc[r] \in {"handler", "record"}

\* IdempotencyTTL passes for a row.  It is 24 hours, and no request runs for so
\* long: the row of a running owner does not expire.
Expire(k) ==
    /\ row[k] # Absent
    /\ ~row[k].expired
    /\ ~Running(row[k].by)
    /\ row' = [row EXCEPT ![k].expired = TRUE]
    /\ UNCHANGED <<pc, req, mode, answer, reached, life, lifeOf>>

\* Slip: only completed rows are swept.
SweepCompleted ==
    /\ \E k \in Keys : row[k].expired /\ row[k].status = "completed"
    /\ row' = [k \in Keys |-> IF row[k].expired /\ row[k].status = "completed"
                              THEN Absent ELSE row[k]]
    /\ life' = [k \in Keys |-> IF row[k].expired /\ row[k].status = "completed"
                               THEN life[k] + 1 ELSE life[k]]
    /\ UNCHANGED <<pc, req, mode, answer, reached, lifeOf>>

\* The cleaner drops every expired row.
Sweep ==
    /\ \E k \in Keys : row[k].expired
    /\ row' = [k \in Keys |-> IF row[k].expired THEN Absent ELSE row[k]]
    /\ life' = [k \in Keys |-> IF row[k].expired THEN life[k] + 1 ELSE life[k]]
    /\ UNCHANGED <<pc, req, mode, answer, reached, lifeOf>>

\* The process dies: its requests are gone, the table stays.
Crash ==
    /\ ProcessMayCrash
    /\ \E r \in Requests : pc[r] \notin {"idle", "done", "dead"}
    /\ pc' = [r \in Requests |-> IF pc[r] \in {"idle", "done"} THEN pc[r] ELSE "dead"]
    /\ UNCHANGED <<req, mode, answer, reached, row, life, lifeOf>>

Acquire(r) == DeleteIfExpired(r) \/ Insert(r) \/ Select(r) \/ StoreError(r)
Handle(r) == Transmit(r) \/ HandlerAnswers(r) \/ HandlerPanics(r)

Next ==
    \/ \E r \in Requests :
          \/ ArriveBare(r)
          \/ Reject(r)
          \/ \E k \in Keys, h \in Hashes : Arrive(r, k, h)
          \/ Acquire(r)
          \/ Handle(r)
          \/ Record(r)
    \/ \E k \in Keys : Expire(k)
    \/ Sweep
    \/ Crash

Spec == Init /\ [][Next]_vars

\* A goroutine that serves a request keeps running.
RequestFairness == \A r \in Requests : WF_vars(Acquire(r) \/ Handle(r) \/ Record(r))

HandlingSpec == Spec /\ RequestFairness

\* Time passes, and the cleaner's ticker fires every hour.
TimePasses == (\A k \in Keys : WF_vars(Expire(k))) /\ WF_vars(Sweep)
-----------------------------------------------------------------------------
\* Every variable keeps its type.
TypeOK ==
    /\ pc \in [Requests -> Steps]
    /\ req \in [Requests -> [key : Keys \cup {NoKey}, hash : Hashes \cup {NoHash}]]
    /\ mode \in [Requests -> Modes]
    /\ answer \in [Requests -> [status : Answers, of : Requests \cup {NoRequest}]]
    /\ reached \in [Requests -> BOOLEAN]
    /\ row \in [Keys -> RowType]
    /\ life \in [Keys -> Nat]
    /\ lifeOf \in [Requests -> Nat]

\* The request was guarded by its key, and it used the same row's lifetime.
SameClaim(r, s) ==
    /\ mode[r] = "owner" /\ mode[s] = "owner"
    /\ Key(r) = Key(s) /\ lifeOf[r] = lifeOf[s]

\* Two guarded requests never run under one key at the same time: the primary
\* key settles the race between concurrent TryAcquire calls, and neither
\* Release nor Complete, which name no owner, can take the row from a running
\* request.
OneOwner ==
    \A r, s \in Requests :
        r # s /\ SameClaim(r, s) => ~(Running(r) /\ Running(s))

\* While a key lives, at most one of the requests guarded by it hands its
\* message over, whatever crashes and store errors come in between.  The one
\* exception is a request that freed the key after handing the message over: it
\* answered 4xx, or panicked before it wrote an answer.
FreedAfterReach(r) == pc[r] = "done" /\ answer[r].status \in {"4xx", "none"}

AtMostOnce ==
    \A r, s \in Requests :
        /\ r # s /\ SameClaim(r, s)
        /\ reached[r] /\ reached[s]
        => FreedAfterReach(r) \/ FreedAfterReach(s)

\* A replayed answer is the final answer of the request that owned the key, was
\* sent with the same fingerprint, and is never one of the answers that free
\* the key.
ReplayIsOriginal ==
    \A r \in Requests : mode[r] = "replay" =>
        LET o == answer[r].of
        IN  /\ o \in Requests \ {r}
            /\ mode[o] = "owner" /\ pc[o] = "done"
            /\ req[o] = req[r]
            /\ answer[o] = [status |-> answer[r].status, of |-> o]
            /\ answer[r].status \in {"2xx", "500"}

\* docs/idempotency.md: a repeated call with the same key replays the stored
\* result and the message goes out once.  Stated for requests with one key and
\* one fingerprint that neither freed the key after handing the message over
\* nor outlived it.
SentOnce ==
    \A r, s \in Requests :
        /\ r # s /\ req[r] = req[s] /\ Key(r) # NoKey
        /\ reached[r] /\ reached[s]
        => FreedAfterReach(r) \/ FreedAfterReach(s) \/ life[Key(r)] > 0

\* With a store that answers, a guarded request does not leave its key "started",
\* not even by a panic: the key is completed or freed when the handler is over,
\* without waiting for the TTL, unless the process dies first.
HandledKeySettles ==
    \A k \in Keys, r \in Requests :
        row[k].by = r /\ row[k].status = "started"
            ~> ~(row[k].by = r /\ row[k].status = "started") \/ pc[r] = "dead"

\* After a crash, or when the result could not be stored, a key still does not
\* answer 409 for ever: its row expires and is dropped.
StartedKeyEnds ==
    TimePasses => \A k \in Keys : row[k].status = "started" ~> row[k].status # "started"

\* The three statements of TryAcquire and the two updates that name no owner
\* implement the abstract claim: only the request that inserted a row ever frees
\* or completes it.
PhaseOf(status) ==
    IF status = "absent" THEN "free" ELSE IF status = "started" THEN "held" ELSE "settled"

claimed == [k \in Keys |-> [phase |-> PhaseOf(row[k].status), by |-> row[k].by]]

Claim == INSTANCE KeyClaim WITH claim <- claimed, verdict <- mode

ImplementsClaim == Claim!Spec
=============================================================================
