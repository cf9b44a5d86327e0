------------------------------ MODULE Webhook ------------------------------
(***************************************************************************)
(* The way of an event to the webhook of its instance: the handler         *)
(* (webhook/event_handler.go) puts it into the queue (pkg/queue, in memory *)
(* or in Redis), the dispatcher of the pool (webhook/pool.go) moves it to  *)
(* the task channel, a worker takes it from there and delivers it          *)
(* (webhook/delivery).  Events arrive as 1, 2, ...; what they say is the   *)
(* normaliser's subject.  The consumer is external: it takes a request or  *)
(* not, and its answer may get lost.                                       *)
(***************************************************************************)
EXTENDS Naturals, Sequences, FiniteSets

CONSTANTS Workers,
          MaxEvents,  \* bound: events that arrive
          QueueSize,  \* the memory queue's buffer
          MaxRetries  \* Delivery.maxRetries

Events == 1..MaxEvents

VARIABLES redis,     \* the queue is in Redis: without a bound, and it outlives the process
          arrived,   \* events so far
          queue,
          held,      \* the event the dispatcher holds, or 0
          tasks,     \* taskChan
          job,       \* job[w]: the event of a worker, or 0
          attempt,   \* attempt[w]: of Deliver's loop
          pool,      \* "running", "stopping" (cancelled, not yet waited for), "stopped"
          gone,      \* workers and dispatcher that have returned
          settled    \* events delivered, given up or dropped

vars == <<redis, arrived, queue, held, tasks, job, attempt, pool, gone, settled>>

Dispatcher == "dispatcher"
ChanSize == 2 * Cardinality(Workers)

Init ==
    /\ redis \in BOOLEAN
    /\ arrived = 0 /\ queue = <<>> /\ held = 0 /\ tasks = <<>>
    /\ job = [w \in Workers |-> 0] /\ attempt = [w \in Workers |-> 0]
    /\ pool = "running" /\ gone = {}
    /\ settled = {}

Cancelled == pool # "running"

Settle(e) == settled' = settled \cup {e}

\* Handle: an event that needs no webhook, or finds the queue full, is dropped.
Enqueue ==
    /\ arrived < MaxEvents
    /\ arrived' = arrived + 1
    /\ \/ /\ redis \/ Len(queue) < QueueSize
          /\ queue' = Append(queue, arrived + 1)
          /\ UNCHANGED settled
       \/ Settle(arrived + 1) /\ UNCHANGED queue
    /\ UNCHANGED <<redis, held, tasks, job, attempt, pool, gone>>

Dequeue ==
    /\ Dispatcher \notin gone /\ held = 0
    /\ queue # <<>>
    /\ held' = Head(queue)
    /\ queue' = Tail(queue)
    /\ UNCHANGED <<redis, arrived, tasks, job, attempt, pool, gone, settled>>

Dispatch ==
    /\ held # 0 /\ Len(tasks) < ChanSize
    /\ tasks' = Append(tasks, held)
    /\ held' = 0
    /\ UNCHANGED <<redis, arrived, queue, job, attempt, pool, gone, settled>>

\* Five seconds with a full channel.
Discard ==
    /\ held # 0 /\ Len(tasks) = ChanSize
    /\ Settle(held)
    /\ held' = 0
    /\ UNCHANGED <<redis, arrived, queue, tasks, job, attempt, pool, gone>>

\* The context is done: the event in hand is lost.
DispatcherStops ==
    /\ Cancelled /\ Dispatcher \notin gone
    /\ gone' = gone \cup {Dispatcher}
    /\ held' = 0
    /\ settled' = IF held = 0 THEN settled ELSE settled \cup {held}
    /\ UNCHANGED <<redis, arrived, queue, tasks, job, attempt, pool>>

\* runWorker; processEvent drops the event of an instance without a webhook.
Take(w) ==
    /\ w \notin gone /\ job[w] = 0
    /\ tasks # <<>>
    /\ tasks' = Tail(tasks)
    /\ \/ job' = [job EXCEPT ![w] = Head(tasks)] /\ UNCHANGED settled
       \/ Settle(Head(tasks)) /\ UNCHANGED job
    /\ attempt' = [attempt EXCEPT ![w] = 0]
    /\ UNCHANGED <<redis, arrived, queue, held, pool, gone>>

Finish(w) ==
    /\ Settle(job[w])
    /\ job' = [job EXCEPT ![w] = 0]
    /\ UNCHANGED attempt

\* Slip: an event that nobody took starts over.
AttemptWraps(w) ==
    /\ job[w] # 0
    /\ \/ Finish(w)
       \/ /\ attempt' = [attempt EXCEPT ![w] = IF @ < MaxRetries THEN @ + 1 ELSE 0]
          /\ UNCHANGED <<job, settled>>
    /\ UNCHANGED <<redis, arrived, queue, held, tasks, pool, gone>>

\* One round of Deliver's loop: a 2xx ends it; another status, or no answer (even to a
\* request the consumer took), is tried again after a pause that no cancellation ends.
Attempt(w) ==
    /\ job[w] # 0
    /\ \/ Finish(w)
       \/ /\ attempt[w] < MaxRetries
          /\ attempt' = [attempt EXCEPT ![w] = @ + 1]
          /\ UNCHANGED <<job, settled>>
    /\ UNCHANGED <<redis, arrived, queue, held, tasks, pool, gone>>

\* Between two events only; select may also take one more.
WorkerStops(w) ==
    /\ Cancelled /\ w \notin gone
    /\ job[w] = 0
    /\ gone' = gone \cup {w}
    /\ UNCHANGED <<redis, arrived, queue, held, tasks, job, attempt, pool, settled>>

Stop ==
    /\ pool = "running"
    /\ pool' = "stopping"
    /\ UNCHANGED <<redis, arrived, queue, held, tasks, job, attempt, gone, settled>>

\* wg.Wait: what is left in the channel, or in the memory queue, is lost.
Stopped ==
    /\ pool = "stopping"
    /\ gone = Workers \cup {Dispatcher}
    /\ pool' = "stopped"
    /\ UNCHANGED <<redis, arrived, queue, held, tasks, job, attempt, gone, settled>>

\* The process ends, with or without Stop, and another starts.
Restart ==
    /\ \/ pool = "stopped"
       \/ pool = "running"
    /\ pool' = "running" /\ gone' = {}
    /\ held' = 0 /\ tasks' = <<>> /\ job' = [w \in Workers |-> 0]
    /\ attempt' = [w \in Workers |-> 0]
    /\ queue' = IF redis THEN queue ELSE <<>>
    /\ settled' = 1..arrived \ (IF redis THEN {queue[i] : i \in DOMAIN queue} ELSE {})
    /\ UNCHANGED <<redis, arrived>>

Next ==
    \/ Enqueue \/ Dequeue \/ Dispatch \/ Discard \/ DispatcherStops
    \/ \E w \in Workers : Take(w) \/ Attempt(w) \/ WorkerStops(w)
    \/ Stop \/ Stopped \/ Restart

Spec == Init /\ [][Next]_vars

\* The goroutines of the pool run, and a request ends: its timeout is thirty seconds.
Fairness ==
    /\ WF_vars(Dequeue) /\ WF_vars(Dispatch) /\ WF_vars(Discard) /\ WF_vars(DispatcherStops)
    /\ \A w \in Workers : WF_vars(Take(w)) /\ WF_vars(Attempt(w)) /\ WF_vars(WorkerStops(w))
    /\ WF_vars(Stopped)

FairSpec == Spec /\ Fairness
-----------------------------------------------------------------------------
TypeOK ==
    /\ redis \in BOOLEAN
    /\ arrived \in 0..MaxEvents /\ held \in 0..MaxEvents
    /\ {queue[i] : i \in DOMAIN queue} \cup {tasks[i] : i \in DOMAIN tasks} \cup settled \subseteq Events
    /\ Len(tasks) <= ChanSize
    /\ ~redis => Len(queue) <= QueueSize
    /\ job \in [Workers -> 0..MaxEvents]
    /\ attempt \in [Workers -> 0..MaxRetries]
    /\ gone \subseteq Workers \cup {Dispatcher}

\* The pool always comes to rest again: every event that has arrived is delivered, given up
\* or dropped, or, if it is stopped, Stop returns, however full the queue and the channel are.
EventsSettle == []<>((pool = "running" /\ settled = 1..arrived) \/ pool = "stopped")
=============================================================================
