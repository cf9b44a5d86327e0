---------------------------- MODULE OutboxProofs ----------------------------
(***************************************************************************)
(* Proofs about Outbox, for any number of messages, instances and workers: *)
(* its types, and the three safety properties of the run MCOutbox.         *)
(***************************************************************************)
EXTENDS Outbox, SequenceTheorems, FiniteSetTheorems, TLAPS

\* A worker that is past Acquire holds the lock of its message's instance.
HoldsLock ==
    \A w \in Workers : at[w] \in {"check", "send"} => lock[InstOfWorker(w)] = w

\* A message is on the queue; a worker has it.
OnQueue(m) == \E i \in 1..Len(queue) : queue[i] = m
AtWorker(m) == \E w \in Workers : working[w] = m

\* Of a message that has not been posted there is no trace.
Unposted(m) == row[m] = "none" /\ ~OnQueue(m) /\ ~AtWorker(m) /\ m \notin pending
IdleIsUnposted == \A m \in Msgs : post[m] = "idle" => Unposted(m)

\* A message recovery has not picked up is in one place at a time, and nowhere
\* until its handler has put it on the queue.
OnePlace(m) ==
    /\ \A i, j \in 1..Len(queue) : queue[i] = m /\ queue[j] = m => i = j
    /\ \A w, v \in Workers : working[w] = m /\ working[v] = m => w = v
    /\ OnQueue(m) => ~AtWorker(m) /\ sends[m] = 0
    /\ AtWorker(m) => sends[m] = 0
    /\ sends[m] <= 1
    /\ post[m] \in {"idle", "created"} => ~OnQueue(m) /\ ~AtWorker(m) /\ sends[m] = 0

OnePlaceEach == \A m \in Msgs \ requeued : OnePlace(m)

IInv == TypeOK /\ IdleIsUnposted /\ HoldsLock /\ InFlightIsSending /\ SendingHasWorker /\ OnePlaceEach
-----------------------------------------------------------------------------
\* What Enqueued does to the queue: nothing, or it adds the message at the end.
LEMMA EnqueuedProperties ==
    ASSUME NEW m \in Msgs, queue \in Seq(Msgs), Len(queue) <= QueueCap
    PROVE  /\ Enqueued(m) \in Seq(Msgs)
           /\ Len(Enqueued(m)) <= QueueCap
           /\ \/ Enqueued(m) = queue
              \/ /\ Len(Enqueued(m)) = Len(queue) + 1
                 /\ \A i \in 1..Len(queue) : Enqueued(m)[i] = queue[i]
                 /\ Enqueued(m)[Len(queue) + 1] = m
  <1>1. CASE HasRoom
    <2>1. Enqueued(m) = Append(queue, m)
      BY <1>1 DEF Enqueued
    <2>2. /\ Append(queue, m) \in Seq(Msgs)
          /\ Len(Append(queue, m)) = Len(queue) + 1
          /\ \A i \in 1..Len(queue) : Append(queue, m)[i] = queue[i]
          /\ Append(queue, m)[Len(queue) + 1] = m
      BY AppendProperties
    <2>3. Len(queue) + 1 <= QueueCap
      BY <1>1, ConstantsAssumption, LenProperties DEF HasRoom
    <2> QED BY <2>1, <2>2, <2>3
  <1>2. CASE ~HasRoom
    BY <1>2 DEF Enqueued
  <1> QED BY <1>1, <1>2

\* The types are inductive.
LEMMA TypeInductive == TypeOK /\ [Next]_vars => TypeOK'
  <1> SUFFICES ASSUME TypeOK, [Next]_vars PROVE TypeOK'
    OBVIOUS
  <1> USE ConstantsAssumption DEF TypeOK, vars, workVars, histVars
  <1>1. ASSUME NEW m \in Msgs, CreateRow(m) PROVE TypeOK'
    <2>1. created' \in Seq(Msgs)
      BY <1>1, AppendProperties DEF CreateRow
    <2> QED BY <1>1, <2>1 DEF CreateRow
  <1>2. ASSUME NEW m \in Msgs, EnqueueEvent(m) PROVE TypeOK'
    <2>1. queue' \in Seq(Msgs) /\ Len(queue') <= QueueCap
      BY <1>2, EnqueuedProperties DEF EnqueueEvent
    <2> QED BY <1>2, <2>1 DEF EnqueueEvent
  <1>3. ASSUME NEW w \in Workers, Dequeue(w) PROVE TypeOK'
    <2>1. queue' \in Seq(Msgs) /\ Len(queue') <= QueueCap /\ Head(queue) \in Msgs
      BY <1>3, HeadTailProperties, LenProperties DEF Dequeue
    <2>2. /\ working' \in [Workers -> Msgs \cup {NoMsg}]
          /\ at' \in [Workers -> {"idle", "lock", "check", "send"}]
          /\ \A v \in Workers : working'[v] = NoMsg <=> at'[v] = "idle"
      BY <1>3, <2>1 DEF Dequeue
    <2> QED BY <1>3, <2>1, <2>2 DEF Dequeue
  <1>4. ASSUME NEW w \in Workers, Acquire(w) PROVE TypeOK'
    BY <1>4 DEF Acquire
  <1>5. ASSUME NEW w \in Workers, Refuse(w) PROVE TypeOK'
    BY <1>5 DEF Refuse, Finish
  <1>6. ASSUME NEW w \in Workers, Block(w) PROVE TypeOK'
    BY <1>6 DEF Block, Finish, SetRow
  <1>7. ASSUME NEW w \in Workers, Persist(w) PROVE TypeOK'
    BY <1>7 DEF Persist, SetRow
  <1>8. ASSUME NEW w \in Workers, Attempt(w) PROVE TypeOK'
    <2>1. working[w] \in Msgs
      BY <1>8 DEF Attempt
    <2>2. row' \in [Msgs -> {"none", "queued", "sending", "sent", "failed"}]
      BY <1>8, <2>1 DEF Attempt, SetRow, RowAfter
    <2>3. sends' \in [Msgs -> 0..2] /\ unwritten' \subseteq Msgs
      BY <1>8, <2>1 DEF Attempt
    <2> QED BY <1>8, <2>2, <2>3 DEF Attempt, Finish
  <1>9. CASE ReadPending
    BY <1>9 DEF ReadPending, Oldest, QueuedRows
  <1>10. CASE Requeue
    <2>1. PICK m \in Msgs : /\ queue' = Enqueued(m)
                            /\ requeued' = requeued \cup {m}
                            /\ pending' = pending \ {m}
      BY <1>10 DEF Requeue
    <2>2. queue' \in Seq(Msgs) /\ Len(queue') <= QueueCap
      BY <2>1, EnqueuedProperties
    <2> QED BY <1>10, <2>1, <2>2 DEF Requeue
  <1>11. CASE Stop
    BY <1>11 DEF Stop
  <1>12. CASE Restart
    <2>1. queue' \in Seq(Msgs) /\ Len(queue') <= QueueCap
      BY <1>12, EmptySeq, LenProperties DEF Restart
    <2>2. post' \in [Msgs -> {"idle", "created", "accepted", "dead"}]
      BY <1>12 DEF Restart
    <2>3. /\ working' \in [Workers -> Msgs \cup {NoMsg}]
          /\ at' \in [Workers -> {"idle", "lock", "check", "send"}]
          /\ \A w \in Workers : working'[w] = NoMsg <=> at'[w] = "idle"
          /\ lock' \in [Instances -> Workers \cup {NoWorker}]
      BY <1>12 DEF Restart
    <2>4. restarts' \in 0..MaxRestarts /\ unwritten' \subseteq Msgs
      BY <1>12 DEF Restart
    <2> QED BY <1>12, <2>1, <2>2, <2>3, <2>4 DEF Restart
  <1>13. CASE UNCHANGED vars
    BY <1>13
  <1> QED
    BY <1>1, <1>2, <1>3, <1>4, <1>5, <1>6, <1>7, <1>8, <1>9, <1>10, <1>11, <1>12, <1>13
       DEF Next, Work, Recovery

\* A message comes onto the queue from its handler or from recovery, and to a worker
\* from the queue.
LEMMA UnpostedInductive == TypeOK /\ IdleIsUnposted /\ [Next]_vars => IdleIsUnposted'
  <1> SUFFICES ASSUME TypeOK, IdleIsUnposted, [Next]_vars,
                      NEW n \in Msgs, (post[n] = "idle")'
               PROVE  Unposted(n)'
    BY DEF IdleIsUnposted
  <1> USE ConstantsAssumption
  <1>a. post[n] = "idle"
    BY DEF Next, Work, Recovery, CreateRow, EnqueueEvent, Dequeue, Acquire, Refuse, Block,
           Persist, Attempt, ReadPending, Requeue, Stop, Restart, vars, TypeOK
  <1>b. Unposted(n)
    BY <1>a DEF IdleIsUnposted
  <1> USE DEF Unposted, OnQueue, AtWorker
  <1>c. ASSUME NEW m \in Msgs \ {n}, queue' = Enqueued(m) PROVE ~OnQueue(n)'
    <2>1. queue \in Seq(Msgs) /\ Len(queue) <= QueueCap /\ Len(queue) \in Nat
      BY LenProperties DEF TypeOK
    <2>2. \/ queue' = queue
          \/ /\ Len(queue') = Len(queue) + 1
             /\ \A i \in 1..Len(queue) : queue'[i] = queue[i]
             /\ queue'[Len(queue) + 1] = m
      BY <1>c, <2>1, EnqueuedProperties
    <2>3. \A i \in 1..(Len(queue) + 1) : i \in 1..Len(queue) \/ i = Len(queue) + 1
      BY <2>1
    <2> QED BY <1>b, <2>1, <2>2, <2>3
  <1>1. ASSUME NEW m \in Msgs, CreateRow(m) PROVE Unposted(n)'
    BY <1>1, <1>a, <1>b DEF CreateRow, workVars, TypeOK
  <1>2. ASSUME NEW m \in Msgs, EnqueueEvent(m) PROVE Unposted(n)'
    BY <1>2, <1>a, <1>b, <1>c DEF EnqueueEvent, workVars, TypeOK
  <1>3. ASSUME NEW w \in Workers, Dequeue(w) PROVE Unposted(n)'
    <2>1. /\ Len(queue) \in Nat \ {0}
          /\ Head(queue) = queue[1]
          /\ Len(Tail(queue)) = Len(queue) - 1
          /\ \A i \in 1..Len(Tail(queue)) : Tail(queue)[i] = queue[i + 1]
      BY <1>3, HeadTailProperties, EmptySeq DEF Dequeue, TypeOK
    <2>2. ~OnQueue(n)' /\ Head(queue) # n
      BY <1>3, <1>b, <2>1 DEF Dequeue
    <2>3. ~AtWorker(n)'
      BY <1>3, <1>b, <2>2 DEF Dequeue, TypeOK
    <2> QED BY <1>3, <1>b, <2>2, <2>3 DEF Dequeue
  <1>4. ASSUME NEW w \in Workers, Finish(w), at[w] \in {"check", "send"},
               UNCHANGED <<queue, pending>>,
               \A m \in Msgs : row'[m] # row[m] => m = working[w]
        PROVE  Unposted(n)'
    BY <1>4, <1>b DEF Finish, TypeOK
  <1>5. ASSUME NEW w \in Workers, Acquire(w) PROVE Unposted(n)'
    BY <1>5, <1>b DEF Acquire
  <1>6. ASSUME NEW w \in Workers, Refuse(w) \/ Block(w) \/ Attempt(w) PROVE Unposted(n)'
    <2>1. \A m \in Msgs : row'[m] # row[m] => m = working[w]
      BY <1>6 DEF Refuse, Block, Attempt, SetRow, TypeOK
    <2> QED BY <1>6, <1>4, <2>1 DEF Refuse, Block, Attempt
  <1>7. ASSUME NEW w \in Workers, Persist(w) PROVE Unposted(n)'
    BY <1>7, <1>b DEF Persist, SetRow, TypeOK
  <1>8. CASE ReadPending
    BY <1>8, <1>b DEF ReadPending, Oldest, QueuedRows, workVars
  <1>9. CASE Requeue
    <2>1. PICK m \in pending : queue' = Enqueued(m) /\ pending' = pending \ {m}
      BY <1>9 DEF Requeue, FirstOfPending
    <2>2. m \in Msgs \ {n}
      BY <2>1, <1>b DEF TypeOK
    <2> QED BY <1>9, <1>b, <1>c, <2>1, <2>2 DEF Requeue, workVars
  <1>10. CASE Stop
    BY <1>10, <1>b DEF Stop, workVars
  <1>11. CASE Restart
    <2>1. ~OnQueue(n)'
      BY <1>11, <1>b, EmptySeq DEF Restart
    <2>2. n # NoMsg
      OBVIOUS
    <2> QED BY <1>11, <1>b, <2>1, <2>2 DEF Restart
  <1>12. CASE UNCHANGED vars
    BY <1>12, <1>b DEF vars, workVars
  <1> QED
    BY <1>1, <1>2, <1>3, <1>5, <1>6, <1>7, <1>8, <1>9, <1>10, <1>11, <1>12
       DEF Next, Work, Recovery

\* So is the lock, and with it the row of a message that is being transmitted: what
\* a step writes to a lock or a row, it writes as the holder of the instance.
LEMMA LockInductive ==
    TypeOK /\ IdleIsUnposted /\ HoldsLock /\ InFlightIsSending /\ [Next]_vars
        => HoldsLock' /\ InFlightIsSending'
  <1> SUFFICES ASSUME TypeOK, IdleIsUnposted, HoldsLock, InFlightIsSending, [Next]_vars
               PROVE  HoldsLock' /\ InFlightIsSending'
    OBVIOUS
  <1> USE ConstantsAssumption DEF HoldsLock, InFlightIsSending, InstOfWorker
  <1>a. \A w \in Workers : at[w] # "idle" => working[w] \in Msgs /\ InstOf[working[w]] \in Instances
    BY DEF TypeOK
  <1>b. \A w, v \in Workers :
            at[w] \in {"check", "send"} /\ at[v] \in {"check", "send"}
            /\ InstOf[working[w]] = InstOf[working[v]] => w = v
    OBVIOUS
  <1>1. ASSUME NEW m \in Msgs, CreateRow(m) PROVE HoldsLock' /\ InFlightIsSending'
    BY <1>1, <1>a DEF CreateRow, workVars, TypeOK, IdleIsUnposted, Unposted
  <1>2. ASSUME NEW w \in Workers, Dequeue(w) PROVE HoldsLock' /\ InFlightIsSending'
    <2>1. /\ at'[w] = "lock" /\ UNCHANGED <<row, lock>>
          /\ \A v \in Workers \ {w} : at'[v] = at[v] /\ working'[v] = working[v]
      BY <1>2 DEF Dequeue, TypeOK
    <2> QED BY <2>1
  <1>3. ASSUME NEW w \in Workers, Acquire(w) PROVE HoldsLock' /\ InFlightIsSending'
    <2>1. /\ at'[w] = "check" /\ UNCHANGED <<row, working>>
          /\ \A v \in Workers \ {w} : at'[v] = at[v]
      BY <1>3 DEF Acquire, TypeOK
    <2>2. lock[InstOf[working[w]]] = NoWorker /\ lock'[InstOf[working[w]]] = w
      BY <1>3, <1>a DEF Acquire, TypeOK
    <2>3. \A v \in Workers \ {w} : at[v] \in {"check", "send"} => lock'[InstOf[working[v]]] = v
      BY <1>3, <1>a, <2>2 DEF Acquire, TypeOK
    <2> QED BY <2>1, <2>2, <2>3
  <1>4. ASSUME NEW w \in Workers, at[w] \in {"check", "send"}, Finish(w),
               \A m \in Msgs : row'[m] # row[m] => m = working[w]
        PROVE  HoldsLock' /\ InFlightIsSending'
    <2>1. \A v \in Workers \ {w} : at'[v] = at[v] /\ working'[v] = working[v]
      BY <1>4 DEF Finish, TypeOK
    <2>2. at'[w] = "idle"
      BY <1>4 DEF Finish, TypeOK
    <2>3. \A v \in Workers \ {w} : at[v] \in {"check", "send"} =>
              /\ lock'[InstOf[working[v]]] = v
              /\ working[v] # working[w]
      BY <1>4, <1>a, <1>b DEF Finish, TypeOK
    <2>4. \A v \in Workers \ {w} : at[v] = "send" => row'[working[v]] = "sending"
      BY <1>4, <1>a, <2>3
    <2> QED BY <2>1, <2>2, <2>3, <2>4
  <1>5. ASSUME NEW w \in Workers, Refuse(w) PROVE HoldsLock' /\ InFlightIsSending'
    BY <1>5, <1>4 DEF Refuse
  <1>6. ASSUME NEW w \in Workers, Block(w) PROVE HoldsLock' /\ InFlightIsSending'
    <2>1. \A m \in Msgs : row'[m] # row[m] => m = working[w]
      BY <1>6 DEF Block, SetRow, TypeOK
    <2> QED BY <1>6, <1>4, <2>1 DEF Block
  <1>7. ASSUME NEW w \in Workers, Persist(w) PROVE HoldsLock' /\ InFlightIsSending'
    BY <1>7, <1>a DEF Persist, SetRow, TypeOK
  <1>8. ASSUME NEW w \in Workers, Attempt(w) PROVE HoldsLock' /\ InFlightIsSending'
    <2>1. \A m \in Msgs : row'[m] # row[m] => m = working[w]
      BY <1>8 DEF Attempt, SetRow, TypeOK
    <2> QED BY <1>8, <1>4, <2>1 DEF Attempt
  <1>9. CASE Restart
    BY <1>9 DEF Restart
  <1>10. CASE UNCHANGED <<row, workVars>>
    BY <1>10 DEF workVars
  <1> QED
    BY <1>1, <1>2, <1>3, <1>5, <1>6, <1>7, <1>8, <1>9, <1>10
       DEF Next, Work, Recovery, EnqueueEvent, ReadPending, Requeue, Stop, vars

\* A row becomes "sending" only when its worker starts to transmit; when that worker
\* stops, it is so no more or the outcome was lost.
LEMMA SettledInductive ==
    TypeOK /\ SendingHasWorker /\ [Next]_vars => SendingHasWorker'
  <1> SUFFICES ASSUME TypeOK, SendingHasWorker, [Next]_vars PROVE SendingHasWorker'
    OBVIOUS
  <1> USE ConstantsAssumption DEF SendingHasWorker
  <1>1. CASE Restart
    <2>1. row' = row /\ unwritten \subseteq unwritten'
      BY <1>1 DEF Restart
    <2>2. ASSUME NEW w \in Workers, at[w] = "send" PROVE working[w] \in unwritten'
      BY <1>1, <2>2 DEF Restart
    <2> QED BY <2>1, <2>2
  <1>2. ASSUME NEW m \in Msgs, CreateRow(m) PROVE SendingHasWorker'
    BY <1>2 DEF CreateRow, workVars, histVars, TypeOK
  <1>3. ASSUME NEW w \in Workers, at[w] \in {"idle", "lock"}, UNCHANGED <<row, unwritten>>,
               \A v \in Workers \ {w} : at'[v] = at[v] /\ working'[v] = working[v]
        PROVE  SendingHasWorker'
    BY <1>3
  <1>4. ASSUME NEW w \in Workers, Dequeue(w) PROVE SendingHasWorker'
    BY <1>4, <1>3 DEF Dequeue, histVars, TypeOK
  <1>5. ASSUME NEW w \in Workers, Acquire(w) PROVE SendingHasWorker'
    BY <1>5, <1>3 DEF Acquire, histVars, TypeOK
  <1>6. ASSUME NEW w \in Workers, Refuse(w) \/ Block(w) PROVE SendingHasWorker'
    <2>1. \A v \in Workers \ {w} : at'[v] = at[v] /\ working'[v] = working[v]
      BY <1>6 DEF Refuse, Block, Finish, TypeOK
    <2>2. at[w] = "check" /\ UNCHANGED unwritten
      BY <1>6 DEF Refuse, Block, histVars
    <2>3. \A m \in Msgs : row'[m] = "sending" => row[m] = "sending"
      BY <1>6 DEF Refuse, Block, SetRow, TypeOK
    <2> QED BY <2>1, <2>2, <2>3
  <1>7. ASSUME NEW w \in Workers, Persist(w) PROVE SendingHasWorker'
    <2>1. /\ \A v \in Workers \ {w} : at'[v] = at[v]
          /\ working' = working /\ at'[w] = "send" /\ at[w] = "check"
          /\ unwritten' = unwritten \ {working[w]}
      BY <1>7 DEF Persist, TypeOK
    <2>2. \A m \in Msgs : row'[m] = "sending" => row[m] = "sending" \/ m = working[w]
      BY <1>7 DEF Persist, SetRow, TypeOK
    <2> QED BY <2>1, <2>2
  <1>8. ASSUME NEW w \in Workers, Attempt(w) PROVE SendingHasWorker'
    <2>1. \A v \in Workers \ {w} : at'[v] = at[v] /\ working'[v] = working[v]
      BY <1>8 DEF Attempt, Finish, TypeOK
    <2>2. CASE UNCHANGED row /\ unwritten' = unwritten \cup {working[w]}
      BY <2>1, <2>2
    <2>3. CASE UNCHANGED unwritten /\ \E ok \in BOOLEAN : SetRow(working[w], RowAfter(ok))
      <3>1. \A m \in Msgs : row'[m] = "sending" => row[m] = "sending" /\ m # working[w]
        BY <2>3 DEF SetRow, RowAfter, TypeOK
      <3> QED BY <2>1, <2>3, <3>1
    <2> QED BY <1>8, <2>2, <2>3 DEF Attempt
  <1>9. CASE UNCHANGED <<row, workVars, unwritten>>
    BY <1>9 DEF workVars
  <1> QED
    BY <1>1, <1>2, <1>4, <1>5, <1>6, <1>7, <1>8, <1>9
       DEF Next, Work, Recovery, EnqueueEvent, ReadPending, Requeue, Stop, vars, histVars

\* The queue after an append of another message, or of one that is not on it.
LEMMA AppendKeepsPlace ==
    ASSUME TypeOK, NEW m \in Msgs, NEW n \in Msgs, queue' = Enqueued(m)
    PROVE  /\ m # n => (OnQueue(n)' <=> OnQueue(n))
           /\ /\ m # n \/ ~OnQueue(n)
              /\ \A i, j \in 1..Len(queue) : queue[i] = n /\ queue[j] = n => i = j
              => (\A i, j \in 1..Len(queue') : queue'[i] = n /\ queue'[j] = n => i = j)
  <1>1. queue \in Seq(Msgs) /\ Len(queue) <= QueueCap /\ Len(queue) \in Nat
    BY LenProperties DEF TypeOK
  <1>2. CASE queue' = queue
    BY <1>2 DEF OnQueue
  <1>3. CASE /\ Len(queue') = Len(queue) + 1
             /\ \A i \in 1..Len(queue) : queue'[i] = queue[i]
             /\ queue'[Len(queue) + 1] = m
    <2>1. \A i \in 1..Len(queue') : i \in 1..Len(queue) \/ i = Len(queue) + 1
      BY <1>1, <1>3
    <2>2. \A i \in 1..Len(queue) : i \in 1..Len(queue')
      BY <1>1, <1>3
    <2>3. ASSUME m # n PROVE OnQueue(n)' <=> OnQueue(n)
      BY <1>3, <2>1, <2>2, <2>3 DEF OnQueue
    <2>4. ASSUME m # n \/ ~OnQueue(n),
                 \A i, j \in 1..Len(queue) : queue[i] = n /\ queue[j] = n => i = j,
                 NEW i \in 1..Len(queue'), NEW j \in 1..Len(queue'),
                 queue'[i] = n, queue'[j] = n
          PROVE  i = j
      BY <1>3, <2>1, <2>4 DEF OnQueue
    <2> QED BY <2>3, <2>4
  <1> QED BY <1>1, <1>2, <1>3, EnqueuedProperties

\* A message recovery has not picked up goes from its handler to the queue, from
\* the queue to one worker, and from that worker to WhatsApp.
LEMMA PlaceInductive == TypeOK /\ OnePlaceEach /\ [Next]_vars => OnePlaceEach'
  <1> SUFFICES ASSUME TypeOK, OnePlaceEach, [Next]_vars, NEW n \in Msgs, n \notin requeued'
               PROVE  OnePlace(n)'
    BY DEF OnePlaceEach
  <1> USE ConstantsAssumption
  <1>a. requeued \subseteq requeued'
    BY DEF Next, Work, Recovery, CreateRow, EnqueueEvent, Dequeue, Acquire, Refuse, Block,
           Persist, Attempt, ReadPending, Requeue, Stop, Restart, vars, histVars
  <1>b. OnePlace(n)
    BY <1>a DEF OnePlaceEach
  <1>c. n # NoMsg /\ Len(queue) \in Nat /\ queue \in Seq(Msgs)
    BY LenProperties DEF TypeOK
  <1>1. ASSUME NEW m \in Msgs, CreateRow(m) PROVE OnePlace(n)'
    BY <1>1, <1>b DEF CreateRow, workVars, TypeOK, OnePlace, OnQueue, AtWorker
  <1>2. ASSUME NEW m \in Msgs, EnqueueEvent(m) PROVE OnePlace(n)'
    <2>1. /\ queue' = Enqueued(m) /\ UNCHANGED <<working, sends>>
          /\ m = n => post'[n] = "accepted" /\ post[n] = "created"
          /\ m # n => post'[n] = post[n]
      BY <1>2 DEF EnqueueEvent, workVars, TypeOK
    <2>2. m = n => ~OnQueue(n) /\ ~AtWorker(n) /\ sends[n] = 0
      BY <1>b, <2>1 DEF OnePlace
    <2>3. AtWorker(n)' <=> AtWorker(n)
      BY <2>1 DEF AtWorker
    <2>4. /\ \A i, j \in 1..Len(queue) : queue[i] = n /\ queue[j] = n => i = j
          /\ \A w, v \in Workers : working[w] = n /\ working[v] = n => w = v
      BY <1>b DEF OnePlace
    <2>5. /\ \A i, j \in 1..Len(queue') : queue'[i] = n /\ queue'[j] = n => i = j
          /\ m # n => (OnQueue(n)' <=> OnQueue(n))
      BY <2>1, <2>2, <2>4, AppendKeepsPlace
    <2>6. m # n => OnePlace(n)'
      BY <1>b, <2>1, <2>3, <2>4, <2>5 DEF OnePlace
    <2>7. m = n => OnePlace(n)'
      BY <2>1, <2>2, <2>3, <2>4, <2>5 DEF OnePlace
    <2> QED BY <2>6, <2>7
  <1>3. ASSUME NEW w \in Workers, Dequeue(w) PROVE OnePlace(n)'
    <2>1. /\ Len(queue) \in Nat \ {0}
          /\ Head(queue) = queue[1]
          /\ Len(queue') = Len(queue) - 1
          /\ \A i \in 1..Len(queue') : queue'[i] = queue[i + 1]
      BY <1>3, HeadTailProperties, EmptySeq DEF Dequeue, TypeOK
    <2>2. \A i \in 1..Len(queue') : i \in Nat /\ i + 1 \in 2..Len(queue)
      BY <2>1
    <2>3. \A i, j \in 1..Len(queue') : queue'[i] = n /\ queue'[j] = n => i = j
      <3>1. SUFFICES ASSUME NEW i \in 1..Len(queue'), NEW j \in 1..Len(queue'),
                            queue'[i] = n, queue'[j] = n
                     PROVE  i = j
        OBVIOUS
      <3>2. i + 1 \in 1..Len(queue) /\ j + 1 \in 1..Len(queue)
            /\ queue[i + 1] = n /\ queue[j + 1] = n
        BY <2>1, <2>2, <3>1
      <3>3. i + 1 = j + 1
        BY <1>b, <3>2 DEF OnePlace
      <3> QED BY <2>2, <3>3
    <2>4. OnQueue(n)' => OnQueue(n) /\ Head(queue) # n
      <3>1. SUFFICES ASSUME NEW i \in 1..Len(queue'), queue'[i] = n
                     PROVE  OnQueue(n) /\ Head(queue) # n
        BY DEF OnQueue
      <3>2. i + 1 \in 2..Len(queue) /\ queue[i + 1] = n /\ 1 \in 1..Len(queue)
        BY <2>1, <2>2, <3>1
      <3>3. i + 1 \in 1..Len(queue) /\ i + 1 # 1
        BY <3>2
      <3> QED BY <1>b, <2>1, <3>2, <3>3 DEF OnQueue, OnePlace
    <2>5. Head(queue) = n => OnQueue(n)
      BY <2>1 DEF OnQueue
    <2>6. /\ working' = [working EXCEPT ![w] = Head(queue)] /\ working[w] = NoMsg
          /\ UNCHANGED <<post, sends>>
      BY <1>3 DEF Dequeue, TypeOK
    <2>7. CASE Head(queue) = n
      <3>1. ~AtWorker(n) /\ sends[n] = 0 /\ post[n] \notin {"idle", "created"}
        BY <1>b, <2>5, <2>7 DEF OnePlace
      <3>2. \A v \in Workers : working'[v] = n => v = w
        BY <2>6, <3>1 DEF AtWorker, TypeOK
      <3> QED BY <2>3, <2>4, <2>6, <2>7, <3>1, <3>2 DEF OnePlace
    <2>8. CASE Head(queue) # n
      <3>1. \A v \in Workers : working'[v] = n <=> working[v] = n
        BY <1>c, <2>6, <2>8 DEF TypeOK
      <3> QED BY <1>b, <2>3, <2>4, <2>6, <3>1 DEF OnePlace, AtWorker
    <2> QED BY <2>7, <2>8
  <1>4. ASSUME NEW w \in Workers, Acquire(w) \/ Persist(w) PROVE OnePlace(n)'
    BY <1>4, <1>b DEF Acquire, Persist, OnePlace, OnQueue, AtWorker
  <1>5. ASSUME NEW w \in Workers, Refuse(w) \/ Block(w) \/ Attempt(w) PROVE OnePlace(n)'
    <2>1. /\ UNCHANGED <<post, queue>>
          /\ working' = [working EXCEPT ![w] = NoMsg]
          /\ working[w] \in Msgs
      BY <1>5 DEF Refuse, Block, Attempt, Finish, TypeOK
    <2>2. /\ sends'[n] = sends[n] \/ working[w] = n
          /\ sends'[n] <= sends[n] + 1
          /\ sends'[n] \in 0..2
      BY <1>5, <2>1 DEF Refuse, Block, Attempt, TypeOK
    <2>3. \A v \in Workers : working'[v] = n <=> working[v] = n /\ v # w
      BY <1>c, <2>1 DEF TypeOK
    <2>4. OnQueue(n)' <=> OnQueue(n)
      BY <2>1 DEF OnQueue
    <2>5. CASE working[w] = n
      <3>1. ~AtWorker(n)' /\ AtWorker(n)
        BY <1>b, <2>3, <2>5 DEF OnePlace, AtWorker
      <3>2. ~OnQueue(n) /\ sends[n] = 0 /\ post[n] \notin {"idle", "created"}
        BY <1>b, <3>1 DEF OnePlace
      <3>3. sends'[n] <= 1
        BY <2>2, <3>2
      <3>4. \A v, u \in Workers : working'[v] = n /\ working'[u] = n => v = u
        BY <3>1 DEF AtWorker
      <3>5. \A i, j \in 1..Len(queue') : queue'[i] = n /\ queue'[j] = n => i = j
        BY <2>1, <3>2 DEF OnQueue
      <3> QED BY <2>1, <2>4, <3>1, <3>2, <3>3, <3>4, <3>5 DEF OnePlace
    <2>6. CASE working[w] # n
      <3>1. sends'[n] = sends[n] /\ (AtWorker(n)' <=> AtWorker(n))
        BY <2>2, <2>3, <2>6 DEF AtWorker
      <3> QED BY <1>b, <2>1, <2>3, <2>4, <3>1 DEF OnePlace
    <2> QED BY <2>5, <2>6
  <1>6. CASE Requeue
    <2>1. PICK m \in Msgs : queue' = Enqueued(m) /\ requeued' = requeued \cup {m}
      BY <1>6 DEF Requeue
    <2>2. m # n
      BY <2>1
    <2>3. UNCHANGED <<working, sends, post>>
      BY <1>6 DEF Requeue, workVars
    <2>4. AtWorker(n)' <=> AtWorker(n)
      BY <2>3 DEF AtWorker
    <2> QED BY <1>b, <2>1, <2>2, <2>3, <2>4, AppendKeepsPlace DEF OnePlace
  <1>7. CASE Restart
    <2>0. queue' = queue \/ (queue' = <<>> /\ Len(queue') = 0)
      BY <1>7, EmptySeq DEF Restart
    <2>1. /\ \A w \in Workers : working'[w] # n
          /\ post'[n] \in {"idle", "created"} => post[n] = "idle"
          /\ UNCHANGED sends
      BY <1>7, <1>c DEF Restart, TypeOK
    <2>2. OnQueue(n)' => OnQueue(n)
      BY <2>0 DEF OnQueue
    <2>3. \A i, j \in 1..Len(queue') : queue'[i] = n /\ queue'[j] = n => i = j
      BY <1>b, <2>0 DEF OnePlace
    <2> QED BY <1>b, <2>1, <2>2, <2>3 DEF OnePlace, AtWorker
  <1>8. CASE UNCHANGED <<post, queue, working, sends>>
    BY <1>b, <1>8 DEF OnePlace, OnQueue, AtWorker
  <1> QED
    BY <1>1, <1>2, <1>3, <1>4, <1>5, <1>6, <1>7, <1>8
       DEF Next, Work, Recovery, ReadPending, Stop, vars, workVars

\* In one place at a time means one copy.
LEMMA OnePlaceOneCopy ==
    ASSUME TypeOK, NEW m \in Msgs, OnePlace(m) PROVE Copies(m) <= 1
  <1> DEFINE Q == {i \in 1..Len(queue) : queue[i] = m}
             W == {w \in Workers : working[w] = m}
  <1>1. Q = {} \/ \E i : Q = {i}
    <2>1. \A i, j \in Q : i = j
      BY DEF OnePlace
    <2> QED BY <2>1
  <1>2. W = {} \/ \E w : W = {w}
    <2>1. \A w, v \in W : w = v
      BY DEF OnePlace
    <2> QED BY <2>1
  <1>3. Cardinality({}) = 0 /\ \A x : Cardinality({x}) = 1
    BY FS_EmptySet, FS_Singleton
  <1>4. /\ Cardinality(Q) = IF OnQueue(m) THEN 1 ELSE 0
        /\ Cardinality(W) = IF AtWorker(m) THEN 1 ELSE 0
    <2>1. (Q = {} <=> ~OnQueue(m)) /\ (W = {} <=> ~AtWorker(m))
      BY DEF OnQueue, AtWorker
    <2> QED BY <1>1, <1>2, <1>3, <2>1
  <1>5. sends[m] \in Nat
    BY DEF TypeOK
  <1>6. Copies(m) = Cardinality(Q) + Cardinality(W) + sends[m]
    BY DEF Copies
  <1> QED BY <1>4, <1>5, <1>6 DEF OnePlace
-----------------------------------------------------------------------------
\* The invariant of the outbox: types, no trace of unposted messages, locks held by
\* the workers that use them, rows that say what is in flight, and one place for a
\* message recovery has not picked up.
THEOREM Invariance == Spec => []IInv
  <1>1. Init => IInv
    <2> SUFFICES ASSUME Init PROVE IInv
      OBVIOUS
    <2> USE ConstantsAssumption
    <2>1. <<>> \in Seq(Msgs) /\ Len(<<>>) = 0
      BY EmptySeq
    <2>2. TypeOK
      <3>1. 0 <= QueueCap /\ 0 \in 0..MaxRestarts
        BY DEF Init
      <3>2. /\ post \in [Msgs -> {"idle", "created", "accepted", "dead"}]
            /\ row \in [Msgs -> {"none", "queued", "sending", "sent", "failed"}]
            /\ sends \in [Msgs -> 0..2]
        BY DEF Init
      <3>3. /\ working \in [Workers -> Msgs \cup {NoMsg}]
            /\ at \in [Workers -> {"idle", "lock", "check", "send"}]
            /\ \A w \in Workers : working[w] = NoMsg <=> at[w] = "idle"
            /\ lock \in [Instances -> Workers \cup {NoWorker}]
        BY DEF Init
      <3> QED BY <2>1, <3>1, <3>2, <3>3 DEF Init, TypeOK
    <2>3. queue = <<>> /\ \A m \in Msgs : ~OnQueue(m) /\ ~AtWorker(m)
      BY <2>1 DEF Init, OnQueue, AtWorker
    <2>4. IdleIsUnposted /\ OnePlaceEach
      BY <2>1, <2>3 DEF Init, IdleIsUnposted, Unposted, OnePlaceEach, OnePlace, AtWorker
    <2>5. HoldsLock /\ InFlightIsSending /\ SendingHasWorker
      BY DEF Init, HoldsLock, InFlightIsSending, SendingHasWorker
    <2> QED BY <2>2, <2>4, <2>5 DEF IInv
  <1>2. IInv /\ [Next]_vars => IInv'
    BY TypeInductive, UnpostedInductive, LockInductive, SettledInductive, PlaceInductive DEF IInv
  <1> QED BY <1>1, <1>2, PTL DEF Spec

\* Every variable keeps its type and the queue its capacity.
THEOREM TypeCorrect == Spec => []TypeOK
  <1>1. IInv => TypeOK
    BY DEF IInv
  <1> QED BY <1>1, Invariance, PTL

\* While a worker transmits a message, the message's row says "sending", whatever
\* the workers with other copies of it do.
THEOREM RowCoversSend == Spec => []InFlightIsSending
  <1>1. IInv => InFlightIsSending
    BY DEF IInv
  <1> QED BY <1>1, Invariance, PTL

\* A row that says "sending" has a worker that is transmitting its message, unless the
\* outcome of the last transmission was lost on its way to the row.
THEOREM SendingIsWorkedOn == Spec => []SendingHasWorker
  <1>1. IInv => SendingHasWorker
    BY DEF IInv
  <1> QED BY <1>1, Invariance, PTL

\* A message that recovery has not picked up is on the queue, at a worker or
\* accepted by WhatsApp at most once.
THEOREM NoOtherDuplicates == Spec => []OnlyRecoveryDuplicates
  <1>1. IInv => OnlyRecoveryDuplicates
    BY OnePlaceOneCopy DEF IInv, OnePlaceEach, OnlyRecoveryDuplicates
  <1> QED BY <1>1, Invariance, PTL
=============================================================================
