-------------------------------- MODULE Send --------------------------------
(***************************************************************************)
(* The send path: Service.Send (internal/service/message/send.go) run by   *)
(* concurrent calls, from HTTP handlers and from outbox workers.  A call   *)
(* takes its instance's lock, checks the session, resolves the recipient,  *)
(* opens the typing indicator, prepares the message, stores its row as     *)
(* "sending", tries to send it a bounded number of times and records the   *)
(* outcome.  The HTTP status is the one the handlers map the error to      *)
(* (internal/api/handler/message_handler.go).                              *)
(*                                                                         *)
(* External: the whatsmeow client.  SendMessage is modelled by the errors  *)
(* Send tells apart, and by whether a frame left the process and whether   *)
(* WhatsApp accepted the message, which Send cannot always know.           *)
(***************************************************************************)
EXTENDS Naturals, FiniteSets

CONSTANTS Calls,          \* invocations of Send
          Instances,      \* WhatsApp connections
          Contacts,       \* recipients with their own chat
          OnWhatsApp,     \* the contacts whose number is registered
          Variants,       \* of them, those registered under the other 9-digit spelling
          WaIds,          \* caller-chosen message ids (whatsappId)
          NoId, NoCall,
          MaxRetries,     \* retries after the first attempt: maxRetries, 3 in the code
          StoreMayFail,   \* a write of a row may return an error
          LookupMayFail   \* so may the reads of alreadySent and of the instance

ASSUME ConstantsAssumption ==
    /\ OnWhatsApp \subseteq Contacts
    /\ Variants \subseteq OnWhatsApp
    /\ NoId \notin WaIds
    /\ NoCall \notin Calls
    /\ MaxRetries \in Nat
    /\ StoreMayFail \in BOOLEAN
    /\ LookupMayFail \in BOOLEAN

VARIABLES pc,         \* pc[c]: the step the call is at
          job,        \* job[c]: instance, recipient, caller id, queued row
          attempt,    \* attempt[c]: retries made so far
          err,        \* err[c]: the error of the last attempt
          onlyDown,   \* onlyDown[c]: onlySocketDown
          left,       \* left[c]: a frame of the message left the process
          wire,       \* wire[c]: the ids under which WhatsApp accepted it
          msgRow,     \* msgRow[c]: status and whatsapp_id of the message row
          result,     \* result[c]: HTTP status, "none" while the call runs
          lock,       \* lock[i]: the call that holds the instance's lock
          sock,       \* sock[i]: the whatsmeow client
          status,     \* status[i]: instances.status
          held,       \* m.mu, the session manager's mutex, is held by a restore of any session
          blocked,    \* (instance, contact) pairs in reachoutNegCache
          negative,   \* contacts recorded as not on WhatsApp (contacts.jid = "")
          composing,  \* (instance, contact) pairs marked in composingAt
          typing      \* (instance, contact) pairs where the contact sees "typing"

callVars == <<pc, job, attempt, err, onlyDown, left, wire, result>>
envVars == <<sock, status, held>>
chatVars == <<composing, typing>>
vars == <<pc, job, attempt, err, onlyDown, left, wire, msgRow, result, lock, sock, status, held,
          blocked, negative, composing, typing>>

Steps == {"idle", "lock", "replay", "session", "ready", "resolve", "presence", "build",
          "attempt", "wait", "close", "done", "dead"}
Sockets == {"up", "down", "out", "none"}  \* connected, socket lost, logged out, no client
Statuses == {"active", "inactive"}  \* error, disconnected, pending: Send treats them alike
RowStatuses == {"none", "queued", "sending", "sent", "failed"}
Results == {"none", "2xx", "400", "422", "503", "500"}

NoRow == [status |-> "none", id |-> NoId]
NoJob == [inst |-> NoId, to |-> NoId, id |-> NoId, queued |-> FALSE]

Init == /\ pc = [c \in Calls |-> "idle"]
        /\ job = [c \in Calls |-> NoJob]
        /\ attempt = [c \in Calls |-> 0]
        /\ err = [c \in Calls |-> "none"]
        /\ onlyDown = [c \in Calls |-> TRUE]
        /\ left = [c \in Calls |-> FALSE]
        /\ wire = [c \in Calls |-> {}]
        /\ msgRow = [c \in Calls |-> NoRow]
        /\ result = [c \in Calls |-> "none"]
        /\ lock = [i \in Instances |-> NoCall]
        /\ sock = [i \in Instances |-> "up"]
        /\ status = [i \in Instances |-> "active"]
        /\ held = FALSE
        /\ blocked = {}
        /\ negative = {}
        /\ composing = {}
        /\ typing = {}

Inst(c) == job[c].inst
Chat(c) == <<job[c].inst, job[c].to>>

\* A call returns: its locals are gone and the deferred unlock runs.
Return(c, r) ==
    /\ pc' = [pc EXCEPT ![c] = "done"]
    /\ result' = [result EXCEPT ![c] = r]
    /\ lock' = [lock EXCEPT ![Inst(c)] = NoCall]
    /\ attempt' = [attempt EXCEPT ![c] = 0]
    /\ err' = [err EXCEPT ![c] = "none"]
    /\ onlyDown' = [onlyDown EXCEPT ![c] = TRUE]
    /\ UNCHANGED <<job, left, wire>>

Goto(c, step) ==
    /\ pc' = [pc EXCEPT ![c] = step]
    /\ UNCHANGED <<job, attempt, err, onlyDown, left, wire, result, lock>>
-----------------------------------------------------------------------------
\* A handler or an outbox worker calls Send; the worker names its queued row and
\* never a caller id.  Invalid input returns at once.
Call(c, i, t, w, q) ==
    /\ pc[c] = "idle"
    /\ q => w = NoId
    /\ job' = [job EXCEPT ![c] = [inst |-> i, to |-> t, id |-> w, queued |-> q]]
    /\ msgRow' = IF q THEN [msgRow EXCEPT ![c].status = "queued"] ELSE msgRow
    /\ \/ pc' = [pc EXCEPT ![c] = "lock"] /\ UNCHANGED result
       \/ /\ pc' = [pc EXCEPT ![c] = "done"]
          /\ \E r \in {"400", "500"} : result' = [result EXCEPT ![c] = r]
    /\ UNCHANGED <<attempt, err, onlyDown, left, wire, lock, envVars, blocked, negative, chatVars>>

\* Slip: the lock is taken per call, not per instance.
AcquireShared(c) ==
    /\ pc[c] = "lock"
    /\ lock' = [lock EXCEPT ![Inst(c)] = c]
    /\ pc' = [pc EXCEPT ![c] = "replay"]
    /\ UNCHANGED <<job, attempt, err, onlyDown, left, wire, msgRow, result, envVars, blocked,
                   negative, chatVars>>

Acquire(c) ==
    /\ pc[c] = "lock"
    /\ lock[Inst(c)] = NoCall
    /\ lock' = [lock EXCEPT ![Inst(c)] = c]
    /\ pc' = [pc EXCEPT ![c] = "replay"]
    /\ UNCHANGED <<job, attempt, err, onlyDown, left, wire, msgRow, result, envVars, blocked,
                   negative, chatVars>>

\* alreadySent: a row of this instance went out under the caller's id.
SentUnder(i, w) ==
    /\ w # NoId
    /\ \E d \in Calls : /\ Inst(d) = i
                        /\ msgRow[d].id = w
                        /\ msgRow[d].status \notin {"queued", "sending", "failed"}

\* A lookup that fails counts as nothing found.
AlreadySent(c) ==
    /\ pc[c] = "replay"
    /\ \/ SentUnder(Inst(c), job[c].id) /\ Return(c, "2xx")
       \/ ~SentUnder(Inst(c), job[c].id) /\ Goto(c, "session")
       \/ LookupMayFail /\ Goto(c, "session")
    /\ UNCHANGED <<msgRow, envVars, blocked, negative, chatVars>>

\* A stored status other than active yields to a live session; an active one is
\* corrected when there is no client or the client is logged out.  GetClient reads
\* the manager's maps under m.mu: it waits, without a deadline, for who holds it.
CheckSession(c) ==
    LET i == Inst(c)
        Set(s) == \/ status' = [status EXCEPT ![i] = s]
                  \/ StoreMayFail /\ UNCHANGED status
    IN  /\ pc[c] = "session"
        /\ ~held
        /\ \/ LookupMayFail /\ UNCHANGED status /\ Return(c, "500")
           \/ status[i] # "active" /\ sock[i] # "up" /\ UNCHANGED status /\ Return(c, "400")
           \/ sock[i] = "up" /\ Set("active") /\ Goto(c, "ready")
           \/ status[i] = "active" /\ sock[i] = "down" /\ UNCHANGED status /\ Goto(c, "ready")
           \/ status[i] = "active" /\ sock[i] = "none" /\ Set("inactive") /\ Return(c, "500")
           \/ status[i] = "active" /\ sock[i] = "out" /\ Set("inactive") /\ Return(c, "400")
        /\ UNCHANGED <<msgRow, sock, held, blocked, negative, chatVars>>

\* The readiness loop (30 s), the cold-start wait, and the client refreshed after
\* it: GetClient's error leaves the old client in place.  Each look is under m.mu.
AwaitReady(c) ==
    /\ pc[c] = "ready"
    /\ ~held
    /\ \/ Return(c, "503")
       \/ sock[Inst(c)] = "out" /\ Return(c, "400")
       \/ sock[Inst(c)] # "out" /\ Goto(c, "resolve")
    /\ UNCHANGED <<msgRow, envVars, blocked, negative, chatVars>>

\* IsOnWhatsApp finds neither the number nor its variant, or knows the contact by
\* the variant and the variant's lookup failed, which is only logged.
NotFound(t) == t \notin OnWhatsApp \/ t \in Variants

\* Slip: the reach-out guard is left out.
ResolveUnguarded(c) ==
    /\ pc[c] = "resolve"
    /\ Goto(c, "presence")
    /\ UNCHANGED <<msgRow, negative, envVars, blocked, chatVars>>

\* ResolveJID: a recorded negative answers for the number; otherwise it is known,
\* is looked up, or cannot be looked up.  Then the reach-out guard.
Resolve(c) ==
    LET t == job[c].to
        Keep == UNCHANGED <<msgRow, negative>>
    IN  /\ pc[c] = "resolve"
        /\ \/ t \in negative /\ Return(c, "400") /\ Keep
           \/ /\ t \notin negative
              /\ \/ Return(c, "503") /\ Keep  \* socket down during the lookup
                 \/ Return(c, "500") /\ Keep
                 \/ /\ NotFound(t)
                    /\ negative' = negative \cup {t}
                    /\ Return(c, "400")
                    /\ UNCHANGED msgRow
                 \/ Chat(c) \notin blocked /\ Goto(c, "presence") /\ Keep
                 \/ /\ Chat(c) \in blocked
                    /\ msgRow' = IF job[c].queued THEN [msgRow EXCEPT ![c].status = "failed"]
                                                  ELSE msgRow
                    /\ Return(c, "422")
                    /\ UNCHANGED negative
        /\ UNCHANGED <<envVars, blocked, chatVars>>

\* Whether the contact sees what is signalled depends on the socket.
Signalled(c, seen) == IF sock[Inst(c)] = "up" THEN seen ELSE typing

\* The indicator is opened unless the cache says it already is, and the
\* simulated typing starts.  HasSession looks the client up under m.mu first.
OpenIndicator(c) ==
    /\ pc[c] = "presence"
    /\ ~held
    /\ composing' = composing \cup {Chat(c)}
    /\ typing' = IF Chat(c) \in composing THEN typing
                 ELSE Signalled(c, typing \cup {Chat(c)})
    /\ Goto(c, "build")
    /\ UNCHANGED <<msgRow, envVars, blocked, negative>>

\* Slip: stopPresence only cancels the simulation.
StopPresenceKeepsMark(c) == UNCHANGED <<composing, typing>>

\* stopPresence, on a return between the indicator and the send: the simulation
\* is cancelled, possibly in one of its pauses, and the mark is dropped.
StopPresence(c) ==
    /\ composing' = composing \ {Chat(c)}
    /\ typing' \in {typing, Signalled(c, typing \ {Chat(c)})}

\* The message is prepared and its row stored as "sending".
Build(c) ==
    /\ pc[c] = "build"
    /\ \/ /\ \E r \in {"400", "500"} : Return(c, r)  \* invalid payload, failed upload
          /\ StopPresence(c)
          /\ UNCHANGED msgRow
       \/ /\ StoreMayFail
          /\ Return(c, "500")
          /\ StopPresence(c)
          /\ UNCHANGED msgRow
       \/ /\ msgRow' = [msgRow EXCEPT ![c] = [status |-> "sending", id |-> NoId]]
          /\ Goto(c, "attempt")
          /\ UNCHANGED chatVars
    /\ UNCHANGED <<envVars, blocked, negative>>
-----------------------------------------------------------------------------
\* The error classes Send tells apart.
Transient == {"down", "dropped", "refused", "untrusted", "nosession", "463", "loggedout"}
NonTransient == {"empty", "timedout", "unregistered"}
Errors == Transient \cup NonTransient

\* Errors that end the loop; "down" ends it only by the outage deadline.
Final == {"unregistered", "463", "loggedout"}

\* SendMessage, by what happened to the message: no frame left (no socket, logged
\* out, no crypto session, recipient without LID), WhatsApp refused it, or it is
\* unknown (timed out, connection dropped while waiting for the answer).
Outcomes(c) ==
    LET Out(e, l, a) == [err |-> e, left |-> l, accepted |-> a]
    IN  IF sock[Inst(c)] # "up"
        THEN {Out("down", FALSE, FALSE)} \cup
             (IF sock[Inst(c)] = "down" THEN {} ELSE {Out("loggedout", FALSE, FALSE)})
        ELSE IF job[c].to \in OnWhatsApp
        THEN {Out("ok", TRUE, TRUE), Out("empty", TRUE, FALSE), Out("463", TRUE, FALSE),
              Out("refused", TRUE, FALSE), Out("untrusted", FALSE, FALSE),
              Out("nosession", FALSE, FALSE)}
             \cup {Out(e, TRUE, a) : e \in {"timedout", "dropped"}, a \in BOOLEAN}
        ELSE {Out("unregistered", FALSE, FALSE), Out("refused", TRUE, FALSE)}

\* Slip: a fresh id for every attempt.
SendIdPerAttempt(c) == <<job[c].id, attempt[c]>>

\* resolveSendID, chosen once before the loop: the caller's id or a generated one.
SendId(c) == <<job[c].id, 0>>

\* Slip: an empty id is not counted as something that left.
StillOnlyDownButEmpty(c, e) == onlyDown[c] /\ e \in {"down", "empty"}

StillOnlyDown(c, e) == onlyDown[c] /\ e = "down"

\* Slip: off by one.
MayRetryOnceMore(c) == attempt[c] <= MaxRetries

MayRetry(c) == attempt[c] < MaxRetries

\* One attempt.  From the second on, the indicator is reopened first.
Attempt(c) ==
    /\ pc[c] = "attempt"
    /\ \E o \in Outcomes(c) :
          /\ err' = [err EXCEPT ![c] = o.err]
          /\ left' = [left EXCEPT ![c] = @ \/ o.left]
          /\ wire' = [wire EXCEPT ![c] = IF o.accepted THEN @ \cup {SendId(c)} ELSE @]
          /\ onlyDown' = [onlyDown EXCEPT ![c] =
                             IF o.err = "ok" THEN @ ELSE StillOnlyDown(c, o.err)]
          /\ blocked' = IF o.err = "463" THEN blocked \cup {Chat(c)} ELSE blocked
          /\ status' = IF o.err = "loggedout"
                       THEN [status EXCEPT ![Inst(c)] = "inactive"] ELSE status
          /\ LET next == IF o.err = "ok" \/ o.err \in Final \/ ~MayRetry(c) THEN "close"
                         ELSE IF o.err = "down" THEN "wait" ELSE "attempt"
             IN  /\ pc' = [pc EXCEPT ![c] = next]
                 /\ attempt' = [attempt EXCEPT ![c] = IF next = "attempt" THEN @ + 1 ELSE @]
    /\ typing' = IF attempt[c] = 0 THEN typing ELSE Signalled(c, typing \cup {Chat(c)})
    /\ UNCHANGED <<job, msgRow, result, lock, sock, held, negative, composing>>

\* waitUntilConnected, which asks the manager for the client each time it looks,
\* sees the socket back: the next attempt.
SocketBack(c) ==
    /\ pc[c] = "wait"
    /\ ~held
    /\ sock[Inst(c)] = "up"
    /\ attempt' = [attempt EXCEPT ![c] = @ + 1]
    /\ pc' = [pc EXCEPT ![c] = "attempt"]
    /\ UNCHANGED <<job, err, onlyDown, left, wire, msgRow, result, lock, envVars, blocked,
                   negative, chatVars>>

\* Slip: the wait knows no deadline.
WaitForever(c) == FALSE /\ UNCHANGED vars

\* The outage's deadline passes, or the caller hangs up, even as the socket returns.
\* Only a look that came back can be the last one, but the caller may hang up at any time.
GiveUp(c) ==
    /\ pc[c] = "wait"
    /\ Goto(c, "close")
    /\ UNCHANGED <<msgRow, envVars, blocked, negative, chatVars>>

\* The HTTP status of a failed send.
StatusOf(c) ==
    IF err[c] = "loggedout" THEN "500"
    ELSE IF err[c] = "unregistered" THEN "400"
    ELSE IF err[c] = "463" THEN "422"
    ELSE IF onlyDown[c] /\ err[c] = "down" THEN "503"
    ELSE "500"

\* Slip: the row counts as sent whenever a frame left.
RowAfterFrame(c) ==
    IF left[c] THEN [status |-> "sent", id |-> job[c].id]
               ELSE [status |-> "failed", id |-> NoId]

\* The row after the send: "sent" with its id, or "failed".  A generated id is of
\* no caller, so it stays NoId here.
RowAfter(c) ==
    IF err[c] = "ok" THEN [status |-> "sent", id |-> job[c].id]
                     ELSE [status |-> "failed", id |-> NoId]

\* closeComposing, the negative record of a non-transient error, the row, and the
\* answer.  A failed write of the row is only logged.
Close(c) ==
    /\ pc[c] = "close"
    /\ composing' = composing \ {Chat(c)}
    /\ typing' = Signalled(c, typing \ {Chat(c)})
    /\ negative' = IF err[c] \in NonTransient THEN negative \cup {job[c].to} ELSE negative
    /\ \/ msgRow' = [msgRow EXCEPT ![c] = RowAfter(c)]
       \/ StoreMayFail /\ UNCHANGED msgRow
    /\ Return(c, IF err[c] = "ok" THEN "2xx" ELSE StatusOf(c))
    /\ UNCHANGED <<envVars, blocked>>
-----------------------------------------------------------------------------
\* The session connects, drops, is logged out or removed; its handlers store the
\* status, at once or later (a drop is debounced).  The contact's side forgets an
\* indicator whose connection is gone, composingAt does not.
SessionEvent(i, s, st) ==
    /\ s # sock[i]
    /\ st \in {status[i], IF s = "up" THEN "active" ELSE "inactive"}
    /\ sock' = [sock EXCEPT ![i] = s]
    /\ status' = [status EXCEPT ![i] = st]
    /\ typing' = {p \in typing : p[1] # i}
    /\ UNCHANGED held
    /\ UNCHANGED <<callVars, msgRow, lock, blocked, negative, composing>>

\* A restore takes m.mu and keeps it while it connects.  It need not give it up: one
\* that removes the engine of a running call waits for itself (module Calls, Stuck).
ManagerMutex ==
    /\ held' = ~held
    /\ UNCHANGED <<callVars, msgRow, lock, sock, status, blocked, negative, chatVars>>

\* The contact writes to the instance: its number is confirmed (ConfirmJID) and
\* its reach-out block on this connection released.
Inbound(i, t) ==
    /\ t \in OnWhatsApp
    /\ t \in negative \/ <<i, t>> \in blocked
    /\ negative' = negative \ {t}
    /\ blocked' = blocked \ {<<i, t>>}
    /\ UNCHANGED <<callVars, msgRow, lock, envVars, chatVars>>

\* A block (6 hours), a negative record (days) or a composing mark (8 s) expires,
\* or the indicator the contact sees dissolves, which takes longer than the mark.
Forget(i, t) ==
    /\ \/ t \in negative /\ negative' = negative \ {t} /\ UNCHANGED <<blocked, chatVars>>
       \/ /\ <<i, t>> \in blocked
          /\ blocked' = blocked \ {<<i, t>>}
          /\ UNCHANGED <<negative, chatVars>>
       \/ /\ <<i, t>> \in composing
          /\ composing' = composing \ {<<i, t>>}
          /\ UNCHANGED <<negative, blocked, typing>>
       \/ /\ <<i, t>> \in typing \ composing
          /\ typing' = typing \ {<<i, t>>}
          /\ UNCHANGED <<negative, blocked, composing>>
    /\ UNCHANGED <<callVars, msgRow, lock, envVars>>

\* The process dies: calls, locks and in-memory caches are gone, rows stay.
Crash ==
    /\ \E c \in Calls : pc[c] \notin {"idle", "done", "dead"}
    /\ pc' = [c \in Calls |-> IF pc[c] \in {"idle", "done"} THEN pc[c] ELSE "dead"]
    /\ lock' = [i \in Instances |-> NoCall]
    /\ attempt' = [c \in Calls |-> 0]
    /\ err' = [c \in Calls |-> "none"]
    /\ onlyDown' = [c \in Calls |-> TRUE]
    /\ held' = FALSE
    /\ blocked' = {}
    /\ composing' = {}
    /\ UNCHANGED <<job, left, wire, msgRow, result, sock, status, negative, typing>>

\* The steps that ask the session manager, and those that do not.
AsksManager(c) ==
    CheckSession(c) \/ AwaitReady(c) \/ OpenIndicator(c) \/ SocketBack(c) \/ GiveUp(c)
OnItsOwn(c) ==
    Acquire(c) \/ AlreadySent(c) \/ Resolve(c) \/ Build(c) \/ Attempt(c) \/ Close(c)

Step(c) == AsksManager(c) \/ OnItsOwn(c)

Next ==
    \/ \E c \in Calls : Step(c)
    \/ \E c \in Calls, i \in Instances, t \in Contacts, w \in WaIds \cup {NoId}, q \in BOOLEAN :
          Call(c, i, t, w, q)
    \/ \E i \in Instances, s \in Sockets, st \in Statuses : SessionEvent(i, s, st)
    \/ \E i \in Instances, t \in Contacts : Inbound(i, t) \/ Forget(i, t)
    \/ ManagerMutex
    \/ Crash

Spec == Init /\ [][Next]_vars

\* A call keeps running.  Where it waits for m.mu it goes on only when the mutex is
\* free: in the end, since a Go mutex starves nobody, if it is free again and again.
\* That it is, is not assumed.
FairSpec == /\ Spec
            /\ \A c \in Calls : WF_vars(OnItsOwn(c)) /\ SF_vars(~held /\ AsksManager(c))
-----------------------------------------------------------------------------
\* Every variable keeps its type; the attempts stay within their budget.
TypeOK ==
    /\ pc \in [Calls -> Steps]
    /\ job \in [Calls -> [inst : Instances, to : Contacts, id : WaIds \cup {NoId},
                          queued : BOOLEAN] \cup {NoJob}]
    /\ attempt \in [Calls -> 0..MaxRetries]
    /\ err \in [Calls -> Errors \cup {"none", "ok"}]
    /\ onlyDown \in [Calls -> BOOLEAN]
    /\ left \in [Calls -> BOOLEAN]
    /\ wire \in [Calls -> SUBSET ((WaIds \cup {NoId}) \X (0..MaxRetries))]
    /\ msgRow \in [Calls -> [status : RowStatuses, id : WaIds \cup {NoId}]]
    /\ result \in [Calls -> Results]
    /\ lock \in [Instances -> Calls \cup {NoCall}]
    /\ sock \in [Instances -> Sockets]
    /\ status \in [Instances -> Statuses]
    /\ held \in BOOLEAN
    /\ blocked \subseteq Instances \X Contacts
    /\ negative \subseteq Contacts
    /\ composing \subseteq Instances \X Contacts
    /\ typing \subseteq Instances \X Contacts

\* A 503 tells the client to send the message again under the same key, so
\* nothing of it may have left the process: "Stays true only while every failed
\* attempt was a socket-down error, i.e. nothing ever left the process" (send.go).
UnavailableNeverLeft == \A c \in Calls : result[c] = "503" => ~left[c]

\* However many attempts were accepted, WhatsApp knows the message by one id, so
\* the recipient has one message: "a retry after a send that did reach WhatsApp
\* must not create a second message" (send.go).
OneMessagePerCall == \A c \in Calls : Cardinality(wire[c]) <= 1

\* A contact blocked by a 463 is not written to, even by a call that was waiting
\* for the lock when the block was recorded.
BlockedNotSent ==
    [][\A c \in Calls : pc[c] = "attempt" /\ Chat(c) \in blocked => wire'[c] = wire[c]]_vars

\* While a call sends under a caller's id, no row of its instance says that the id went
\* out: what is on record is replayed, not sent again, although the call may have waited
\* for the lock since (~LookupMayFail: a failed lookup resends).  What went out and is
\* not on record, for want of an answer or of the last write, is sent again
\* (CallerIdSentOnce).
ReplayBeforeResend ==
    \A c \in Calls : pc[c] \in {"attempt", "wait"} => ~SentUnder(Inst(c), job[c].id)

\* A 2xx is never an empty promise: WhatsApp accepted the message of this call, or
\* of an earlier call of the instance under the same caller id.
SuccessWasSent ==
    \A c \in Calls : result[c] = "2xx" =>
        \E d \in Calls : /\ Inst(d) = Inst(c) /\ wire[d] # {}
                         /\ d = c \/ (job[d].id = job[c].id /\ job[c].id # NoId)

\* The typing simulation starts with an indicator the contact sees: the cache never
\* vouches for one that is closed ("otherwise the next send would trust a typing
\* that is no longer open", send.go).
IndicatorSeen ==
    [][\A c \in Calls : pc[c] = "presence" /\ pc'[c] = "build" /\ sock[Inst(c)] = "up"
                        => Chat(c) \in typing']_vars

\* As long as restores give m.mu back, every call that is waiting for its instance's
\* lock is eventually answered, however long the outage, unless the process dies: all
\* other waits of the calls before it have deadlines.  (One restore that hangs stops
\* the call that asks the manager, and with it every call of the instance.)
CallsReturn ==
    []<>~held => \A c \in Calls : pc[c] = "lock" ~> pc[c] \in {"done", "dead"}
-----------------------------------------------------------------------------
\* What the comments say and the code does not do.

\* "A 4xx means the message never left" (middleware/idempotency.go), which is why
\* a 4xx gives the idempotency key back.
RefusedNeverLeft == \A c \in Calls : result[c] \in {"400", "422"} => wire[c] = {}

\* A send that timed out records no "not on WhatsApp": a timeout "does NOT prove
\* the number does not exist" (send.go).
TimeoutProvesNothing ==
    [][\A c \in Calls : pc[c] = "close" /\ err[c] = "timedout"
                        => (negative' \ negative) \cap OnWhatsApp = {}]_vars

\* A lookup is recorded as "not on WhatsApp" only for a number that is not: one
\* that "could not be checked" "was not rejected" (jid_resolver.go).
LookupProvesAbsence ==
    [][\A c \in Calls : pc[c] = "resolve" => (negative' \ negative) \cap OnWhatsApp = {}]_vars

\* On an early return, "cancel the simulation and close the indicator" (send.go).
IndicatorClosed ==
    [][\A c \in Calls : pc[c] = "build" /\ pc'[c] = "done" /\ sock[Inst(c)] = "up"
                        => Chat(c) \notin typing']_vars

\* "A retried request with an id that already went out replays the stored result:
\* sending it again would make WhatsApp deliver a second copy" (send.go).
CallerIdSentOnce ==
    \A c, d \in Calls : c # d /\ wire[c] # {} /\ wire[d] # {} /\ Inst(c) = Inst(d)
                        => job[c].id # job[d].id \/ job[c].id = NoId
=============================================================================
