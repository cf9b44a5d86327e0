------------------------------ MODULE Receipts ------------------------------
(***************************************************************************)
(* What becomes of a message after it was sent: its receipts, each handled *)
(* in a goroutine of its own (EventHandler.Handle), the session reset that *)
(* a retry receipt asks for (events.go), and the detector that gives up on *)
(* messages nobody acknowledges (MessageStuckDetector).                    *)
(*                                                                         *)
(* A delivery receipt of whatsmeow has the empty type, and that is what    *)
(* the row's status becomes.  The detector reads the hundred newest rows   *)
(* of an instance (ListByInstance): the messages here are some among       *)
(* others, and an older row leaves its sight.                              *)
(***************************************************************************)
EXTENDS Naturals, FiniteSets

CONSTANTS Messages,
          Contacts, Shared, \* recipients: persons; groups and broadcast lists
          To,               \* To[m]: the recipient of a message
          MaxReceipts       \* bound: the receipts of a behaviour

VARIABLES state,    \* state[m]: the status of its row, "none" before whatsapp_id is stored
          wire,     \* messages WhatsApp has accepted
          old,      \* rows older than stuckTimeout
          buried,   \* rows that a hundred newer ones hide from the detector
          given,    \* receipts WhatsApp has sent
          handlers, \* receipts whose goroutine has yet to write the row
          uptime,   \* connectedAt: "new" for five minutes
          list,     \* the rows the detector has yet to look at, as it has read them
          todo,     \* which those are
          mark,     \* resetAttempts: "new" for five minutes, "mid" for an hour, "none"
          reset     \* whose Signal session was deleted last

vars == <<state, wire, old, buried, given, handlers, uptime, list, todo, mark, reset>>

Types == {"", "read", "retry"}
Statuses == Types \cup {"none", "sent", "failed_stuck"}
Nobody == "nobody"

Init ==
    /\ state = [m \in Messages |-> "none"] /\ list = state
    /\ wire = {} /\ old = {} /\ buried = {} /\ given = {} /\ handlers = {} /\ todo = {}
    /\ uptime = "new"
    /\ mark = [c \in Contacts |-> "none"]
    /\ reset = Nobody

\* SendMessage returns with an id.
Accepted(m) ==
    /\ m \notin wire
    /\ wire' = wire \cup {m}
    /\ UNCHANGED <<state, old, buried, given, handlers, uptime, list, todo, mark, reset>>

\* The row gets the id and the status.
Stored(m) ==
    /\ m \in wire /\ state[m] = "none"
    /\ state' = [state EXCEPT ![m] = "sent"]
    /\ UNCHANGED <<wire, old, buried, given, handlers, uptime, list, todo, mark, reset>>

\* ResetContactSession deletes the Signal session and the identity of c (a contact stays to
\* be asked anew for its keys); without a logged-in client, or for a group, it does nothing.
ResetSession(c) == reset' \in {c, reset}

\* Slip: the session that is reset is that of the chat.
OnReceiptChat(m, t, sender) ==
    /\ m \in wire /\ <<m, t>> \notin given /\ Cardinality(given) < MaxReceipts
    /\ To[m] \in Contacts => sender = To[m]
    /\ given' = given \cup {<<m, t>>}
    /\ handlers' = handlers \cup {<<m, t>>}
    /\ IF t = "retry" THEN ResetSession(To[m]) ELSE UNCHANGED reset
    /\ UNCHANGED <<state, wire, old, buried, uptime, list, todo, mark>>

\* handleEvent: a retry receipt resets the contact's session, or that of the member who
\* asked.  (A receipt of a device has its session reset as well.)
OnReceipt(m, t, sender) ==
    /\ m \in wire /\ <<m, t>> \notin given /\ Cardinality(given) < MaxReceipts
    /\ To[m] \in Contacts => sender = To[m]
    /\ given' = given \cup {<<m, t>>}
    /\ handlers' = handlers \cup {<<m, t>>}
    /\ IF t = "retry" THEN ResetSession(sender) ELSE UNCHANGED reset
    /\ UNCHANGED <<state, wire, old, buried, uptime, list, todo, mark>>

\* UpdateStatusByWhatsAppID: a row without the id is not found.
Handle(m, t) ==
    /\ <<m, t>> \in handlers
    /\ handlers' = handlers \ {<<m, t>>}
    /\ state' = IF state[m] = "none" THEN state ELSE [state EXCEPT ![m] = t]
    /\ UNCHANGED <<wire, old, buried, given, uptime, list, todo, mark, reset>>

\* The newest rows; those of groups and broadcast lists are passed over.
Listed == {m \in Messages \ buried : state[m] # "none" /\ To[m] \notin Shared}

\* Slip: the instance is looked at only while it is young.
StartPassYoung ==
    /\ uptime = "new" /\ todo = {}
    /\ todo' = Listed
    /\ list' = [m \in Messages |-> IF m \in Listed THEN state[m] ELSE "none"]
    /\ UNCHANGED <<state, wire, old, buried, given, handlers, uptime, mark, reset>>

\* checkStuckMessages, once a minute: the rows of an instance connected for five minutes.
StartPass ==
    /\ uptime = "old" /\ todo = {}
    /\ todo' = Listed
    /\ list' = [m \in Messages |-> IF m \in Listed THEN state[m] ELSE "none"]
    /\ UNCHANGED <<state, wire, old, buried, given, handlers, uptime, mark, reset>>

Retrying(m) == list[m] = "retry"
Stuck(m) == list[m] \in {"sent", "retry", "delivered"} /\ m \in old
Debounced(m) == mark[To[m]] = "new" \/ (mark[To[m]] = "mid" /\ ~Retrying(m))

\* One row: the contact's session is reset, once in an hour, or in five minutes for a
\* retry, and the row fails, whatever came in since it was read.
Judge(m) ==
    /\ m \in todo
    /\ todo' = todo \ {m}
    /\ list' = [list EXCEPT ![m] = "none"]
    /\ IF ~(Stuck(m) \/ Retrying(m)) THEN UNCHANGED <<state, mark, reset>>
       ELSE IF Debounced(m)
            THEN /\ state' = IF Retrying(m) THEN state ELSE [state EXCEPT ![m] = "failed_stuck"]
                 /\ UNCHANGED <<mark, reset>>
            ELSE /\ state' = [state EXCEPT ![m] = "failed_stuck"]
                 /\ mark' = [mark EXCEPT ![To[m]] = "new"]
                 /\ ResetSession(To[m])
    /\ UNCHANGED <<wire, old, buried, given, handlers, uptime>>

\* Time passes for a row the detector would look at, for a mark, for the connection.
RowAges(m) ==
    /\ state[m] # "none" /\ m \notin old /\ To[m] \notin Shared
    /\ old' = old \cup {m}
    /\ UNCHANGED <<state, wire, buried, given, handlers, uptime, list, todo, mark, reset>>

\* The instance has sent a hundred messages since.
NewerRows(m) ==
    /\ m \notin buried /\ To[m] \notin Shared
    /\ buried' = buried \cup {m}
    /\ UNCHANGED <<state, wire, old, given, handlers, uptime, list, todo, mark, reset>>

MarkAges(c) ==
    /\ mark[c] # "none"
    /\ mark' = [mark EXCEPT ![c] = IF @ = "new" THEN "mid" ELSE "none"]
    /\ UNCHANGED <<state, wire, old, buried, given, handlers, uptime, list, todo, reset>>

UptimeAges ==
    /\ uptime = "new" /\ uptime' = "old"
    /\ UNCHANGED <<state, wire, old, buried, given, handlers, list, todo, mark, reset>>

Reconnect ==
    /\ uptime = "old" /\ uptime' = "new"
    /\ UNCHANGED <<state, wire, old, buried, given, handlers, list, todo, mark, reset>>

\* What is not in the database is gone.
Restart ==
    /\ uptime' = "new" /\ handlers' = {} /\ todo' = {}
    /\ list' = [m \in Messages |-> "none"]
    /\ mark' = [c \in Contacts |-> "none"]
    /\ UNCHANGED <<state, wire, old, buried, given, reset>>

Next ==
    \/ \E m \in Messages :
        \/ Accepted(m) \/ Stored(m) \/ Judge(m) \/ RowAges(m) \/ NewerRows(m)
        \/ \E t \in Types : Handle(m, t) \/ \E c \in Contacts : OnReceipt(m, t, c)
    \/ \E c \in Contacts : MarkAges(c)
    \/ StartPass \/ UptimeAges \/ Reconnect \/ Restart

Spec == Init /\ [][Next]_vars

\* The detector's ticker runs, its passes go on, and time passes.
Fairness == /\ WF_vars(StartPass)
            /\ \A m \in Messages : WF_vars(Judge(m)) /\ WF_vars(RowAges(m))
            /\ \A c \in Contacts : WF_vars(MarkAges(c))

FairSpec == Spec /\ Fairness
-----------------------------------------------------------------------------
TypeOK ==
    /\ {state[m] : m \in Messages} \cup {list[m] : m \in Messages} \subseteq Statuses
    /\ wire \cup old \cup buried \cup todo \subseteq Messages
    /\ handlers \subseteq given /\ given \subseteq Messages \X Types
    /\ mark \in [Contacts -> {"new", "mid", "none"}]
    /\ reset \in Contacts \cup {Nobody}  \* never a group: it would lose its sender keys

\* A message to a contact does not stay "sent", or asked for again, for ever: while the
\* instance stays connected, a receipt or the detector moves it on, unless a hundred newer
\* rows come first.
StuckIsFlagged ==
    <>[](uptime = "old") =>
        \A m \in Messages : To[m] \in Contacts =>
            (state[m] \in {"sent", "retry"} ~> state[m] \notin {"sent", "retry"} \/ m \in buried)
=============================================================================
