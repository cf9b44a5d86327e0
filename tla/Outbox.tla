------------------------------- MODULE Outbox -------------------------------
(***************************************************************************)
(* The outbox: messages posted to the asynchronous route are stored as     *)
(* "queued" rows, put on an event queue and sent by a pool of workers      *)
(* (enqueue.go, worker.go), while a recovery loop puts the rows that are   *)
(* still "queued" on the queue again.  The queue is in memory and bounded, *)
(* or in Redis (internal/pkg/queue).  Send is the one of module Send, with *)
(* only what it does to the row, the instance lock and the wire.           *)
(***************************************************************************)
EXTENDS Naturals, Sequences, FiniteSets

CONSTANTS Msgs,           \* messages posted, each with its own row
          Instances,
          InstOf,         \* InstOf[m]: the instance the message is sent from
          Workers,        \* outbox workers of the process
          NoMsg, NoWorker,
          QueueCap,       \* capacity of the memory queue, and a bound on the Redis one
          RecoveryLimit,  \* rows one recovery reads: 50 in the code
          Durable,        \* the queue is in Redis: it survives a restart
          MaxRestarts     \* bound on the restarts of the process

ASSUME ConstantsAssumption ==
    /\ InstOf \in [Msgs -> Instances]
    /\ NoMsg \notin Msgs
    /\ NoWorker \notin Workers
    /\ QueueCap \in Nat \ {0}
    /\ RecoveryLimit \in Nat \ {0}
    /\ Durable \in BOOLEAN
    /\ MaxRestarts \in Nat

VARIABLES post,      \* post[m]: the handler's call of Enqueue
          row,       \* row[m]: message_queue.status
          created,   \* the rows in the order of created_at
          queue,     \* the outbox queue, oldest event first
          working,   \* working[w]: the message of the worker's current event
          at,        \* at[w]: where the worker is in Send
          lock,      \* lock[i]: the worker that holds the instance's lock
          pending,   \* rows the recovery loop has read and not yet put on the queue
          stopping,  \* the process was told to stop: the workers' context is cancelled
          sends,     \* sends[m]: transmissions WhatsApp accepted, 2 standing for more
          unwritten, \* history: the messages whose last outcome did not reach the row
          requeued,  \* the messages the recovery loop has picked up
          restarts   \* restarts so far

workVars == <<working, at, lock>>
histVars == <<unwritten, requeued>>
vars == <<post, row, created, queue, working, at, lock, pending, stopping, sends, unwritten,
          requeued, restarts>>

Init == /\ post = [m \in Msgs |-> "idle"]
        /\ row = [m \in Msgs |-> "none"]
        /\ created = <<>>
        /\ queue = <<>>
        /\ working = [w \in Workers |-> NoMsg]
        /\ at = [w \in Workers |-> "idle"]
        /\ lock = [i \in Instances |-> NoWorker]
        /\ pending = {}
        /\ stopping = FALSE
        /\ sends = [m \in Msgs |-> 0]
        /\ unwritten = {}
        /\ requeued = {}
        /\ restarts = 0

InstOfWorker(w) == InstOf[working[w]]

\* Slip: off by one.
HasRoomForOneMore == Len(queue) <= QueueCap

\* Enqueue refuses an event when the channel is full, or Redis fails.
HasRoom == Len(queue) < QueueCap
Enqueued(m) == IF HasRoom THEN Append(queue, m) ELSE queue
-----------------------------------------------------------------------------
\* Service.Enqueue stores the row ...
CreateRow(m) ==
    /\ post[m] = "idle"
    /\ post' = [post EXCEPT ![m] = "created"]
    /\ row' = [row EXCEPT ![m] = "queued"]
    /\ created' = Append(created, m)
    /\ UNCHANGED <<queue, workVars, pending, stopping, sends, histVars, restarts>>

\* ... and puts the event on the queue; a refused event is only logged.
EnqueueEvent(m) ==
    /\ post[m] = "created"
    /\ post' = [post EXCEPT ![m] = "accepted"]
    /\ queue' = Enqueued(m)
    /\ UNCHANGED <<row, created, workVars, pending, stopping, sends, histVars, restarts>>

\* Slip: the event is read and stays on the queue.
DequeuePeek(w) ==
    /\ at[w] = "idle"
    /\ queue # <<>>
    /\ working' = [working EXCEPT ![w] = Head(queue)]
    /\ at' = [at EXCEPT ![w] = "lock"]
    /\ UNCHANGED <<post, row, created, queue, lock, pending, stopping, sends, histVars, restarts>>

\* A worker takes an event and calls Send.  A cancelled context does not rule an
\* event out: the select of Dequeue picks either.
Dequeue(w) ==
    /\ at[w] = "idle"
    /\ queue # <<>>
    /\ working' = [working EXCEPT ![w] = Head(queue)]
    /\ at' = [at EXCEPT ![w] = "lock"]
    /\ queue' = Tail(queue)
    /\ UNCHANGED <<post, row, created, lock, pending, stopping, sends, histVars, restarts>>

\* Slip: the workers do not take the lock.
AcquireAnyway(w) ==
    /\ at[w] = "lock"
    /\ lock' = [lock EXCEPT ![InstOfWorker(w)] = w]
    /\ at' = [at EXCEPT ![w] = "check"]
    /\ UNCHANGED <<post, row, created, queue, working, pending, stopping, sends, histVars, restarts>>

Acquire(w) ==
    /\ at[w] = "lock"
    /\ lock[InstOfWorker(w)] = NoWorker
    /\ lock' = [lock EXCEPT ![InstOfWorker(w)] = w]
    /\ at' = [at EXCEPT ![w] = "check"]
    /\ UNCHANGED <<post, row, created, queue, working, pending, stopping, sends, histVars, restarts>>

\* Send returns: the lock is released and the worker takes its next event.
Finish(w) ==
    /\ working' = [working EXCEPT ![w] = NoMsg]
    /\ at' = [at EXCEPT ![w] = "idle"]
    /\ lock' = [lock EXCEPT ![InstOfWorker(w)] = NoWorker]

SetRow(m, s) == row' = [row EXCEPT ![m] = s]

\* Send refuses before it touches the row: no live session, an invalid number or
\* payload, a cancelled context.
Refuse(w) ==
    /\ at[w] = "check"
    /\ Finish(w)
    /\ UNCHANGED <<post, row, created, queue, pending, stopping, sends, histVars, restarts>>

\* The recipient is blocked by a 463: the row is marked so that recovery leaves it
\* alone; a mark that cannot be written is forgotten, and with a cancelled context
\* it cannot.
Block(w) ==
    /\ at[w] = "check"
    /\ UNCHANGED row \/ (~stopping /\ SetRow(working[w], "failed"))
    /\ Finish(w)
    /\ UNCHANGED <<post, created, queue, pending, stopping, sends, histVars, restarts>>

\* The row is written as "sending", whatever its status is.  A failed write is
\* answered by Refuse.
Persist(w) ==
    /\ at[w] = "check"
    /\ ~stopping
    /\ SetRow(working[w], "sending")
    /\ at' = [at EXCEPT ![w] = "send"]
    /\ unwritten' = unwritten \ {working[w]}
    /\ UNCHANGED <<post, created, queue, working, lock, pending, stopping, sends, requeued, restarts>>

\* Slip: only a success is written back.
RowIfSent(ok) == IF ok THEN "sent" ELSE "sending"

RowAfter(ok) == IF ok THEN "sent" ELSE "failed"

\* The attempts end.  WhatsApp may have accepted a message whose send failed for
\* want of an answer.  The outcome is written to the row, or not: the error of that
\* write is ignored (failed) or logged (sent), and with a cancelled context it fails.
Attempt(w) ==
    LET m == working[w]
    IN  /\ at[w] = "send"
        /\ \E ok, accepted \in BOOLEAN :
              /\ ok => accepted
              /\ sends' = [sends EXCEPT ![m] = IF accepted /\ @ < 2 THEN @ + 1 ELSE @]
              /\ \/ ~stopping /\ SetRow(m, RowAfter(ok)) /\ UNCHANGED unwritten
                 \/ UNCHANGED row /\ unwritten' = unwritten \cup {m}
        /\ Finish(w)
        /\ UNCHANGED <<post, created, queue, pending, stopping, requeued, restarts>>
-----------------------------------------------------------------------------
\* GetPendingMessages: the oldest rows whose status is "queued".
QueuedRows == {m \in Msgs : row[m] = "queued"}
Before(m, n) == \E i, j \in 1..Len(created) : i < j /\ created[i] = m /\ created[j] = n
Oldest(S) == {m \in S : Cardinality({n \in S : Before(n, m)}) < RecoveryLimit}

\* A tick of runStuckRecovery reads the rows ...
ReadPending ==
    /\ ~stopping
    /\ pending = {}
    /\ QueuedRows # {}
    /\ pending' = Oldest(QueuedRows)
    /\ UNCHANGED <<post, row, created, queue, workVars, stopping, sends, histVars, restarts>>

FirstOfPending(m) == m \in pending /\ \A n \in pending : ~Before(n, m)

\* Slip: the loop ends after its first row.
RequeueFirst ==
    /\ \E m \in Msgs : /\ FirstOfPending(m)
                       /\ queue' = Enqueued(m)
                       /\ requeued' = requeued \cup {m}
                       /\ pending' = {}
    /\ UNCHANGED <<post, row, created, workVars, stopping, sends, unwritten, restarts>>

\* ... and puts them on the queue one by one; a refused event is ignored.
Requeue ==
    /\ \E m \in Msgs : /\ FirstOfPending(m)
                       /\ queue' = Enqueued(m)
                       /\ requeued' = requeued \cup {m}
                       /\ pending' = pending \ {m}
    /\ UNCHANGED <<post, row, created, workVars, stopping, sends, unwritten, restarts>>
-----------------------------------------------------------------------------
\* OutboxWorker.Stop cancels the context; the process goes on until the workers
\* and the recovery loop are out of the call they are in.
Stop ==
    /\ ~stopping
    /\ restarts < MaxRestarts
    /\ stopping' = TRUE
    /\ UNCHANGED <<post, row, created, queue, workVars, pending, sends, histVars, restarts>>

\* The process ends, after Stop or killed at any point, and another one starts.
Restart ==
    /\ restarts < MaxRestarts
    /\ restarts' = restarts + 1
    /\ queue' = IF Durable THEN queue ELSE <<>>
    /\ working' = [w \in Workers |-> NoMsg]
    /\ at' = [w \in Workers |-> "idle"]
    /\ lock' = [i \in Instances |-> NoWorker]
    /\ pending' = {}
    /\ stopping' = FALSE
    /\ post' = [m \in Msgs |-> IF post[m] = "created" THEN "dead" ELSE post[m]]
    /\ unwritten' = unwritten \cup {working[w] : w \in {v \in Workers : at[v] = "send"}}
    /\ UNCHANGED <<row, created, sends, requeued>>

Work(w) == Dequeue(w) \/ Acquire(w) \/ Refuse(w) \/ Block(w) \/ Persist(w) \/ Attempt(w)
Recovery == ReadPending \/ Requeue

Next == \/ \E m \in Msgs : CreateRow(m) \/ EnqueueEvent(m)
        \/ \E w \in Workers : Work(w)
        \/ Recovery
        \/ Stop
        \/ Restart

Spec == Init /\ [][Next]_vars

\* The handler, the workers and the recovery loop keep running, and a process that
\* was told to stop ends and is started again.
FairSpec == /\ Spec
            /\ \A m \in Msgs : WF_vars(EnqueueEvent(m))
            /\ \A w \in Workers : WF_vars(Work(w))
            /\ WF_vars(Recovery)
            /\ WF_vars(stopping /\ Restart)
-----------------------------------------------------------------------------
\* Every variable keeps its type; the queue stays within its capacity.
TypeOK ==
    /\ post \in [Msgs -> {"idle", "created", "accepted", "dead"}]
    /\ row \in [Msgs -> {"none", "queued", "sending", "sent", "failed"}]
    /\ created \in Seq(Msgs)
    /\ queue \in Seq(Msgs) /\ Len(queue) <= QueueCap
    /\ working \in [Workers -> Msgs \cup {NoMsg}]
    /\ at \in [Workers -> {"idle", "lock", "check", "send"}]
    /\ \A w \in Workers : working[w] = NoMsg <=> at[w] = "idle"
    /\ lock \in [Instances -> Workers \cup {NoWorker}]
    /\ pending \subseteq Msgs
    /\ stopping \in BOOLEAN
    /\ sends \in [Msgs -> 0..2]
    /\ unwritten \subseteq Msgs
    /\ requeued \subseteq Msgs
    /\ restarts \in 0..MaxRestarts

\* While a worker is transmitting a message its row says so, whatever other copies
\* of the message are doing: the instance's lock covers the row too.
InFlightIsSending == \A w \in Workers : at[w] = "send" => row[working[w]] = "sending"

\* A "sending" row has a worker that is transmitting the message, or has lost the
\* outcome of its last transmission: the update failed, a stop had cancelled its
\* context, or the process ended first.  Nothing else abandons a row, whatever other
\* copies of the message are refused, blocked or sent, and an abandoned one is nobody's,
\* since recovery reads "queued" rows only.
SendingHasWorker ==
    \A m \in Msgs \ unwritten :
        row[m] = "sending" => \E w \in Workers : working[w] = m /\ at[w] = "send"

\* The copies of a message that recovery never picked up, on the queue, at a worker
\* or accepted by WhatsApp, are at most one: only recovery duplicates.
Copies(m) == Cardinality({n \in 1..Len(queue) : queue[n] = m})
             + Cardinality({w \in Workers : working[w] = m}) + sends[m]
OnlyRecoveryDuplicates == \A m \in Msgs \ requeued : Copies(m) <= 1

\* The recovery keeps up with the workers: as long as rows are queued, some of its
\* ticks find an empty queue.
KeepsUp == []<>(QueuedRows # {}) => []<><<ReadPending /\ queue = <<>>>>_vars

\* A queued row reaches a worker, although its event was refused by a full queue or
\* lost with the process, and although older rows keep being refused.
QueuedIsServed ==
    KeepsUp => \A m \in Msgs : row[m] = "queued"
                                 ~> (row[m] # "queued" \/ \E w \in Workers : working[w] = m)
-----------------------------------------------------------------------------
\* What the documentation says and the code does not do.

\* "The message goes out once" (docs/idempotency.md, of a guarded request, which
\* the asynchronous route is).
SentOnce == \A m \in Msgs : sends[m] <= 1
=============================================================================
