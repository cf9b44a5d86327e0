------------------------------ MODULE MCBridge ------------------------------
(* Small instances, for TLC, of the parts of the bridge between WhatsApp and *)
(* its consumer that share no variable.  A behaviour is one of `part', which *)
(* is chosen at the start; the other parts stay as they are.                 *)
EXTENDS Naturals, FiniteSets

CONSTANTS Clients, NoClient, MaxTimers, Calls, NoCall, Callers, MaxErrors, MaxCycles,
          Messages, Contacts, Shared, MaxReceipts, Me,
          Workers, MaxEvents, QueueSize, MaxRetries, m1, m2, c1, list1

\* Receipts, Normalizer: who the account writes to; its chat with itself is not one with a
\* contact.
ASSUME RecipientsAssumption == c1 \in Contacts /\ list1 \in Shared /\ Me \notin Contacts

ASSUME BoundsAssumption ==
    {MaxTimers, MaxErrors, MaxCycles, MaxEvents, QueueSize, MaxRetries} \subseteq Nat

\* Webhook: the pool has a number of workers, and one more goroutine, the dispatcher.
ASSUME WorkersAssumption == IsFiniteSet(Workers) /\ "dispatcher" \notin Workers

\* One message to a contact, one to a broadcast list.
To == [m \in Messages |-> IF m = m1 THEN c1 ELSE list1]

VARIABLES part,
          cur, sock, auto, restoring, expected, debounce, fired, telling, doubts,
          check, cooling, status,
          enabled, voip, phase, dir, mine, tracked, active, localEnd, hint, answering, ending,
          detach, hang, own, onAir, cut, accepted, ends, reason, answered,
          online, marked, pc, base, errors, autos,
          state, wire, old, buried, given, handlers, uptime, list, todo, mark, reset,
          known, webhook, blocked, replied, inbound, confirmed, event, out,
          redis, arrived, queue, held, tasks, job, attempt, pool, gone, settled,
          exists, row, op, read, engine, workers, cycles, lost

Con == INSTANCE Connection
Cal == INSTANCE Calls
App == INSTANCE AppState
Rec == INSTANCE Receipts
Nor == INSTANCE Normalizer
Web == INSTANCE Webhook
Ins == INSTANCE Instances

conVars == <<cur, sock, auto, restoring, expected, debounce, fired, telling, doubts,
             check, cooling, status>>
calVars == <<enabled, voip, phase, dir, mine, tracked, active, localEnd, hint, answering, ending,
             detach, hang, own, onAir, cut, accepted, ends, reason, answered>>
appVars == <<online, marked, pc, base, errors, autos>>
recVars == <<state, wire, old, buried, given, handlers, uptime, list, todo, mark, reset>>
norVars == <<known, webhook, blocked, replied, inbound, confirmed, event, out>>
webVars == <<redis, arrived, queue, held, tasks, job, attempt, pool, gone, settled>>
insVars == <<exists, row, op, read, engine, workers, cycles, lost>>
vars == <<part, conVars, calVars, appVars, recVars, norVars, webVars, insVars>>

\* The parts at rest start in one state.
BridgeInit ==
    /\ part \in {"connection", "calls", "appstate", "receipts", "normalizer", "webhook", "instances"}
    /\ Con!Init /\ Cal!Init /\ App!Init /\ Rec!Init /\ Nor!Init /\ Web!Init /\ Ins!Init
    /\ part # "connection" => status = "pending"
    /\ part # "calls" => enabled
    /\ part # "appstate" => online
    /\ part # "normalizer" => webhook
    /\ part # "webhook" => redis

BridgeNext ==
    /\ UNCHANGED part
    /\ IF part = "connection" THEN Con!Next ELSE UNCHANGED conVars
    /\ IF part = "calls" THEN Cal!Next ELSE UNCHANGED calVars
    /\ IF part = "appstate" THEN App!Next ELSE UNCHANGED appVars
    /\ IF part = "receipts" THEN Rec!Next ELSE UNCHANGED recVars
    /\ IF part = "normalizer" THEN Nor!Next ELSE UNCHANGED norVars
    /\ IF part = "webhook" THEN Web!Next ELSE UNCHANGED webVars
    /\ IF part = "instances" THEN Ins!Next ELSE UNCHANGED insVars

\* The fairness of each part, as its module has it, while it is the part that runs.
ConFairness ==
    /\ WF_conVars(part = "connection" /\ Con!DebounceFires)
    /\ SF_conVars(part = "connection" /\ Con!DebounceEnds)
    /\ WF_conVars(part = "connection" /\ Con!DebounceTells)
    /\ \A c \in Clients :
           SF_conVars(part = "connection" /\ sock[c] = "closing" /\ Con!OnDisconnected(c))

CalFairness ==
    /\ \A k \in Calls : /\ SF_calVars(part = "calls" /\ Cal!TellEnd(k))
                        /\ WF_calVars(part = "calls" /\ Cal!Answered(k))
                        /\ WF_calVars(part = "calls" /\ Cal!HangUp(k))
    /\ WF_calVars(part = "calls" /\ \E on \in BOOLEAN : Cal!Attach(on))

RecFairness ==
    /\ WF_recVars(part = "receipts" /\ Rec!StartPass)
    /\ \A m \in Messages : /\ WF_recVars(part = "receipts" /\ Rec!Judge(m))
                           /\ WF_recVars(part = "receipts" /\ Rec!RowAges(m))
    /\ \A c \in Contacts : WF_recVars(part = "receipts" /\ Rec!MarkAges(c))

WebFairness ==
    /\ WF_webVars(part = "webhook" /\ Web!Dequeue)
    /\ WF_webVars(part = "webhook" /\ Web!Dispatch)
    /\ WF_webVars(part = "webhook" /\ Web!Discard)
    /\ WF_webVars(part = "webhook" /\ Web!DispatcherStops)
    /\ \A w \in Workers : /\ WF_webVars(part = "webhook" /\ Web!Take(w))
                          /\ WF_webVars(part = "webhook" /\ Web!Attempt(w))
                          /\ WF_webVars(part = "webhook" /\ Web!WorkerStops(w))
    /\ WF_webVars(part = "webhook" /\ Web!Stopped)

BridgeSpec == /\ BridgeInit /\ [][BridgeNext]_vars
              /\ ConFairness /\ CalFairness /\ RecFairness /\ WebFairness
-----------------------------------------------------------------------------
\* Each part's variables keep their types; a session that is reset is a contact's, never
\* a group's or a list's, which would lose its sender keys (events.go).
TypeOK ==
    /\ Con!TypeOK /\ Cal!TypeOK /\ App!TypeOK /\ Rec!TypeOK /\ Nor!TypeOK /\ Web!TypeOK
    /\ Ins!TypeOK

\* Connection: the client of the instance has auto-reconnect, or a timer is to turn it on.
ReconnectIsOwed == Con!ReconnectIsOwed

\* Connection: the row follows the connection in the end.
StatusFollows == Con!StatusFollows

\* Calls: the end of a call, and its answer, are told once.
EndedOnce == Cal!EndedOnce

\* Calls: a call told as answered is not told missed or cancelled afterwards.
ReasonFits == Cal!ReasonFits

\* Calls: the end of a call the engine has seen is told.
EndIsTold == Cal!EndIsTold

\* AppState: full syncs of a collection do not pile up.
NoResyncStorm == App!NoResyncStorm

\* Receipts: a message to a contact does not stay unacknowledged for ever.
StuckIsFlagged == Rec!StuckIsFlagged

\* Normalizer: an event of a contact goes to the contact's conversation.
ThreadIsContacts == Nor!ThreadIsContacts

\* Normalizer: who has answered is not barred.
ReplyReleases == Nor!ReplyReleases

\* Normalizer: edits and answers are told whole.
NothingHalf == Nor!NothingHalf

\* Webhook: every event settles, and a stop of the pool ends.
EventsSettle == Web!EventsSettle

\* Instances: the client has a call engine if and only if the row says so.
EngineFollows == Ins!EngineFollows

\* Instances: a history sync shown as running is one.
RunningHasWorker == Ins!RunningHasWorker
=============================================================================
