----------------------------- MODULE SendProofs -----------------------------
(***************************************************************************)
(* Proofs about Send, for any number of calls, instances, contacts and     *)
(* retries.  Most of the argument is about one call at a time (Own); what  *)
(* calls share is protected by the lock of their instance (Locked).        *)
(***************************************************************************)
EXTENDS Send, FiniteSetTheorems, TLAPS

\* The steps taken with the lock held; the ones at which the message is not yet
\* being sent.
Inside == {"replay", "session", "ready", "resolve", "presence", "build", "attempt", "wait", "close"}
Before == {"idle", "lock", "replay", "session", "ready", "resolve", "presence", "build"}

JobType == [inst : Instances, to : Contacts, id : WaIds \cup {NoId}, queued : BOOLEAN]

\* What a call's own variables say of one another.
JobKnown(c) == pc[c] # "idle" => job[c] \in JobType
NothingYet(c) == pc[c] \in Before => wire[c] = {} /\ ~left[c] /\ result[c] = "none"
                                     /\ err[c] # "ok"
OneId(c) == wire[c] \subseteq {SendId(c)}
OnlyDownMeans(c) ==
    pc[c] \notin {"done", "dead"} /\ onlyDown[c] /\ err[c] # "ok" => ~left[c]
OkMeans(c) == err[c] = "ok" => wire[c] # {} /\ pc[c] = "close"
SentRow(c) == msgRow[c].id # NoId \/ msgRow[c].status = "sent" =>
                 /\ msgRow[c].status = "sent" /\ wire[c] # {} /\ msgRow[c].id = job[c].id
                 /\ pc[c] \in {"done", "dead"}
Answered(c) == /\ result[c] # "none" => pc[c] = "done"
               /\ result[c] = "503" => ~left[c]

MayWait(c) == pc[c] = "wait" => MayRetry(c)

Own(c) == /\ JobKnown(c) /\ NothingYet(c) /\ OneId(c) /\ OnlyDownMeans(c) /\ OkMeans(c)
          /\ SentRow(c) /\ Answered(c) /\ MayWait(c)

\* What SentRow asks of the row that a step leaves.
RowKept(c) == msgRow'[c].id # NoId \/ msgRow'[c].status = "sent" =>
                 /\ msgRow'[c].status = "sent" /\ wire[c] # {} /\ msgRow'[c].id = job[c].id

\* A call past Acquire holds its instance's lock.
Locked == \A c \in Calls : pc[c] \in Inside => lock[Inst(c)] = c

\* Past the reach-out guard the chat is not blocked.
NotBlocked == \A c \in Calls :
    pc[c] \in {"presence", "build", "attempt", "wait"} => Chat(c) \notin blocked

\* A composing mark belongs to a call that opened the indicator and has not returned.
Marked == \A p \in composing : \E c \in Calls :
    pc[c] \in {"build", "attempt", "wait", "close"} /\ p = Chat(c)

IInv == /\ TypeOK
        /\ \A c \in Calls : Own(c)
        /\ Locked
        /\ NotBlocked
        /\ Marked
        /\ SuccessWasSent
-----------------------------------------------------------------------------
\* The variables of a call that nobody but the call writes.
Same(c) == /\ pc'[c] = pc[c] /\ job'[c] = job[c] /\ attempt'[c] = attempt[c]
           /\ err'[c] = err[c] /\ onlyDown'[c] = onlyDown[c] /\ left'[c] = left[c]
           /\ wire'[c] = wire[c] /\ msgRow'[c] = msgRow[c] /\ result'[c] = result[c]

Calling(c) == \E i \in Instances, t \in Contacts, w \in WaIds \cup {NoId}, q \in BOOLEAN :
                 Call(c, i, t, w, q)

\* A call writes no other call's variables.
LEMMA Frame ==
    ASSUME TypeOK, NEW c \in Calls, Step(c) \/ Calling(c), NEW d \in Calls \ {c}
    PROVE  Same(d)
  <1> USE DEF TypeOK, Same
  <1>1. CASE Calling(c)
    BY <1>1 DEF Calling, Call
  <1>2. ASSUME NEW r, Return(c, r), msgRow'[d] = msgRow[d] PROVE Same(d)
    BY <1>2 DEF Return
  <1>3. ASSUME NEW s, Goto(c, s), msgRow'[d] = msgRow[d] PROVE Same(d)
    BY <1>3 DEF Goto
  <1>4. CASE Acquire(c)
    BY <1>4 DEF Acquire
  <1>5. CASE AlreadySent(c) \/ CheckSession(c) \/ AwaitReady(c)
    BY <1>5, <1>2, <1>3 DEF AlreadySent, CheckSession, AwaitReady
  <1>6. CASE Resolve(c)
    <2>1. msgRow'[d] = msgRow[d]
      BY <1>6 DEF Resolve
    <2> QED BY <1>6, <1>2, <1>3, <2>1 DEF Resolve
  <1>7. CASE OpenIndicator(c) \/ GiveUp(c)
    BY <1>7, <1>3 DEF OpenIndicator, GiveUp
  <1>8. CASE Build(c)
    <2>1. msgRow'[d] = msgRow[d]
      BY <1>8 DEF Build
    <2> QED BY <1>8, <1>2, <1>3, <2>1 DEF Build
  <1>9. CASE Attempt(c)
    BY <1>9 DEF Attempt
  <1>10. CASE SocketBack(c)
    BY <1>10 DEF SocketBack
  <1>11. CASE Close(c)
    <2>1. msgRow'[d] = msgRow[d]
      BY <1>11 DEF Close
    <2> QED BY <1>11, <1>2, <2>1 DEF Close
  <1> QED
    BY <1>1, <1>4, <1>5, <1>6, <1>7, <1>8, <1>9, <1>10, <1>11 DEF Step, AsksManager, OnItsOwn

\* A return, before the message was sent or with the status of a failed send.
LEMMA OwnReturn ==
    ASSUME TypeOK, NEW c \in Calls, Own(c), NEW r \in Results, Return(c, r),
           pc[c] # "idle",
           RowKept(c), r = "503" => ~left[c]
    PROVE  Own(c)'
  <1>1. /\ pc'[c] = "done" /\ result'[c] = r /\ err'[c] = "none" /\ onlyDown'[c]
        /\ attempt'[c] = 0 /\ UNCHANGED <<job, left, wire>>
    BY DEF Return, TypeOK
  <1>2. JobKnown(c)' /\ NothingYet(c)' /\ OneId(c)' /\ OnlyDownMeans(c)' /\ OkMeans(c)'
    BY <1>1 DEF Own, JobKnown, NothingYet, Before, OneId, SendId, OnlyDownMeans, OkMeans
  <1>3. SentRow(c)' /\ Answered(c)' /\ MayWait(c)'
    BY <1>1 DEF Own, SentRow, Answered, MayWait, RowKept
  <1> QED BY <1>2, <1>3 DEF Own

\* A call that goes on to another step, its message not sent yet.
LEMMA OwnGoto ==
    ASSUME TypeOK, NEW c \in Calls, Own(c), NEW s \in Steps, Goto(c, s),
           pc[c] \notin {"idle", "close", "done", "dead"}, s \notin {"idle", "wait", "done", "dead"},
           pc[c] \in Before \/ s \notin Before,
           msgRow'[c] = msgRow[c] \/ (msgRow'[c].id = NoId /\ msgRow'[c].status # "sent")
    PROVE  Own(c)'
  <1>0. err[c] # "ok"
    BY DEF Own, OkMeans
  <1>1. pc'[c] = s /\ UNCHANGED <<job, attempt, err, onlyDown, left, wire, result>>
    BY DEF Goto, TypeOK
  <1>2. JobKnown(c)' /\ NothingYet(c)' /\ OneId(c)' /\ OnlyDownMeans(c)' /\ OkMeans(c)'
    BY <1>0, <1>1 DEF Own, JobKnown, NothingYet, OneId, SendId, OnlyDownMeans, OkMeans
  <1>3. SentRow(c)' /\ Answered(c)' /\ MayWait(c)'
    BY <1>1 DEF Own, SentRow, Answered, MayWait
  <1> QED BY <1>2, <1>3 DEF Own

\* Attempt keeps the message under its one id, and onlyDown until a frame leaves.
LEMMA OwnAttempt ==
    ASSUME TypeOK, NEW c \in Calls, Own(c), Attempt(c)
    PROVE  Own(c)'
  <1>1. PICK o \in Outcomes(c) :
            /\ err' = [err EXCEPT ![c] = o.err]
            /\ left' = [left EXCEPT ![c] = @ \/ o.left]
            /\ wire' = [wire EXCEPT ![c] = IF o.accepted THEN @ \cup {SendId(c)} ELSE @]
            /\ onlyDown' = [onlyDown EXCEPT ![c] = IF o.err = "ok" THEN @ ELSE StillOnlyDown(c, o.err)]
            /\ pc'[c] \in {"close", "wait", "attempt"}
    BY DEF Attempt, TypeOK
  <1>2. /\ o.err = "ok" => o.accepted = TRUE
        /\ o.err = "down" => o.left = FALSE
    <2>1. CASE sock[Inst(c)] # "up"
      BY <2>1 DEF Outcomes
    <2>2. CASE sock[Inst(c)] = "up" /\ job[c].to \in OnWhatsApp
      <3>1. \/ o = [err |-> "ok", left |-> TRUE, accepted |-> TRUE]
            \/ o = [err |-> "empty", left |-> TRUE, accepted |-> FALSE]
            \/ o = [err |-> "463", left |-> TRUE, accepted |-> FALSE]
            \/ o = [err |-> "refused", left |-> TRUE, accepted |-> FALSE]
            \/ o = [err |-> "untrusted", left |-> FALSE, accepted |-> FALSE]
            \/ o = [err |-> "nosession", left |-> FALSE, accepted |-> FALSE]
            \/ \E e \in {"timedout", "dropped"}, b \in BOOLEAN :
                  o = [err |-> e, left |-> TRUE, accepted |-> b]
        BY <2>2 DEF Outcomes
      <3> QED BY <3>1
    <2>3. CASE sock[Inst(c)] = "up" /\ job[c].to \notin OnWhatsApp
      BY <2>3 DEF Outcomes
    <2> QED BY <2>1, <2>2, <2>3
  <1>3. pc[c] = "attempt" /\ UNCHANGED <<job, msgRow, result>>
    BY DEF Attempt
  <1>4. JobKnown(c)' /\ NothingYet(c)'
    BY <1>1, <1>3 DEF Own, JobKnown, NothingYet, Before
  <1>5. OneId(c)' /\ OkMeans(c)'
    <2>1. wire'[c] \subseteq {SendId(c)} /\ (o.err = "ok" => wire'[c] # {})
      BY <1>1, <1>2 DEF Own, OneId, TypeOK
    <2>2. err'[c] = "ok" => o.err = "ok" /\ pc'[c] = "close"
      BY <1>3 , <1>1 DEF Attempt, TypeOK
    <2> QED BY <1>3, <2>1, <2>2 DEF OneId, OkMeans, SendId
  <1>6. OnlyDownMeans(c)'
    <2>1. onlyDown'[c] = (IF o.err = "ok" THEN onlyDown[c] ELSE StillOnlyDown(c, o.err))
          /\ left'[c] = (left[c] \/ o.left) /\ err'[c] = o.err
      BY <1>1 DEF TypeOK
    <2>2. err[c] # "ok"
      BY <1>3 DEF Own, OkMeans
    <2> QED BY <1>2, <1>3, <2>1, <2>2 DEF Own, OnlyDownMeans, StillOnlyDown
  <1>7. SentRow(c)' /\ Answered(c)' /\ MayWait(c)'
    <2>1. pc'[c] = "wait" => MayRetry(c)'
      BY <1>3 DEF Attempt, MayRetry, TypeOK
    <2> QED BY <1>1, <1>3, <2>1 DEF Own, SentRow, Answered, MayWait
  <1> QED BY <1>4, <1>5, <1>6, <1>7 DEF Own

\* Every step of a call keeps what its variables say of one another.
LEMMA OwnStep ==
    ASSUME TypeOK, NEW c \in Calls, Own(c), Step(c) \/ Calling(c)
    PROVE  Own(c)'
  <1>a. /\ pc[c] \in Before => ~left[c] /\ wire[c] = {}
        /\ msgRow'[c] = msgRow[c] => RowKept(c)
        /\ msgRow'[c].id = NoId /\ msgRow'[c].status # "sent" => RowKept(c)
        /\ pc[c] \notin {"done", "dead"} => msgRow[c].id = NoId /\ msgRow[c].status # "sent"
    BY DEF Own, NothingYet, SentRow, RowKept
  <1>1. CASE Calling(c)
    <2>1. PICK i \in Instances, t \in Contacts, w \in WaIds \cup {NoId}, q \in BOOLEAN :
              Call(c, i, t, w, q)
      BY <1>1 DEF Calling
    <2>2. /\ pc[c] = "idle" /\ pc'[c] \in {"lock", "done"} /\ job'[c] \in JobType
          /\ UNCHANGED <<attempt, err, onlyDown, left, wire>>
          /\ result'[c] = result[c] \/ (pc'[c] = "done" /\ result'[c] \in {"400", "500"})
          /\ pc'[c] = "lock" => result'[c] = result[c]
      BY <2>1 DEF Call, TypeOK, JobType
    <2>3. msgRow'[c].id = NoId /\ msgRow'[c].status # "sent"
      BY <1>a, <2>1, <2>2 DEF Call, TypeOK
    <2>4. JobKnown(c)' /\ NothingYet(c)' /\ OneId(c)' /\ OnlyDownMeans(c)' /\ OkMeans(c)'
      BY <2>2 DEF Own, JobKnown, NothingYet, Before, OneId, OnlyDownMeans, OkMeans
    <2>5. SentRow(c)' /\ Answered(c)' /\ MayWait(c)'
      BY <2>2, <2>3 DEF Own, SentRow, Answered, MayWait
    <2> QED BY <2>4, <2>5 DEF Own
  <1>2. CASE Acquire(c)
    BY <1>2 DEF Acquire, TypeOK, Own, JobKnown, NothingYet, Before, OneId, SendId, OnlyDownMeans,
                OkMeans, SentRow, Answered, MayWait
  <1>3. CASE AlreadySent(c) \/ CheckSession(c) \/ AwaitReady(c)
    <2>1. /\ pc[c] \in {"replay", "session", "ready"} /\ msgRow'[c] = msgRow[c]
          /\ \/ \E r \in Results : Return(c, r)
             \/ \E s \in {"session", "ready", "resolve"} : Goto(c, s)
      BY <1>3 DEF AlreadySent, CheckSession, AwaitReady, Results
    <2> QED BY <1>a, <2>1, OwnReturn, OwnGoto DEF Before, Steps
  <1>4. CASE Resolve(c)
    <2>1. /\ pc[c] = "resolve"
          /\ (\E r \in Results : Return(c, r)) \/ Goto(c, "presence")
      BY <1>4 DEF Resolve, Results
    <2>2. msgRow'[c].id = NoId /\ msgRow'[c].status # "sent"
      BY <1>4, <1>a, <2>1 DEF Resolve, TypeOK
    <2> QED BY <1>a, <2>1, <2>2, OwnReturn, OwnGoto DEF Before, Steps
  <1>5. CASE OpenIndicator(c)
    <2>1. pc[c] = "presence" /\ msgRow'[c] = msgRow[c] /\ Goto(c, "build")
      BY <1>5 DEF OpenIndicator
    <2> QED BY <1>a, <2>1, OwnGoto DEF Before, Steps
  <1>6. CASE Build(c)
    <2>1. /\ pc[c] = "build"
          /\ (\E r \in Results : Return(c, r)) \/ Goto(c, "attempt")
      BY <1>6 DEF Build, Results
    <2>2. msgRow'[c].id = NoId /\ msgRow'[c].status # "sent"
      BY <1>6, <1>a, <2>1 DEF Build, TypeOK
    <2> QED BY <1>a, <2>1, <2>2, OwnReturn, OwnGoto DEF Before, Steps
  <1>7. CASE Attempt(c)
    BY <1>7, OwnAttempt
  <1>8. CASE SocketBack(c)
    BY <1>8 DEF SocketBack, TypeOK, Own, JobKnown, NothingYet, Before, OneId, SendId,
                OnlyDownMeans, OkMeans, SentRow, Answered, MayWait
  <1>9. CASE GiveUp(c)
    <2>1. pc[c] = "wait" /\ msgRow'[c] = msgRow[c] /\ Goto(c, "close")
      BY <1>9 DEF GiveUp
    <2> QED BY <1>a, <2>1, OwnGoto DEF Before, Steps
  <1>10. CASE Close(c)
    <2>1. PICK r \in Results : /\ Return(c, r)
                               /\ r = IF err[c] = "ok" THEN "2xx" ELSE StatusOf(c)
      BY <1>10 DEF Close, StatusOf, Results
    <2>2. pc[c] = "close"
      BY <1>10 DEF Close
    <2>3. RowKept(c)
      <3>1. CASE msgRow'[c] = msgRow[c]
        BY <1>a, <3>1
      <3>2. CASE msgRow'[c] = RowAfter(c)
        BY <3>2 DEF RowAfter, RowKept, Own, OkMeans
      <3> QED BY <1>10, <3>1, <3>2 DEF Close, TypeOK
    <2>4. r = "503" => ~left[c]
      BY <2>1, <2>2 DEF StatusOf, Own, OnlyDownMeans
    <2> QED BY <2>1, <2>2, <2>3, <2>4, OwnReturn
  <1> QED
    BY <1>1, <1>2, <1>3, <1>4, <1>5, <1>6, <1>7, <1>8, <1>9, <1>10 DEF Step, AsksManager, OnItsOwn
-----------------------------------------------------------------------------
\* The types of the variables of calls, and of the rest.
CallTypes ==
    /\ pc \in [Calls -> Steps]
    /\ job \in [Calls -> [inst : Instances, to : Contacts, id : WaIds \cup {NoId},
                          queued : BOOLEAN] \cup {NoJob}]
    /\ attempt \in [Calls -> 0..MaxRetries]
    /\ err \in [Calls -> Errors \cup {"none", "ok"}]
    /\ onlyDown \in [Calls -> BOOLEAN]
    /\ left \in [Calls -> BOOLEAN]
    /\ wire \in [Calls -> SUBSET ((WaIds \cup {NoId}) \X (0..MaxRetries))]
    /\ result \in [Calls -> Results]
    /\ lock \in [Instances -> Calls \cup {NoCall}]

RowTypes == msgRow \in [Calls -> [status : RowStatuses, id : WaIds \cup {NoId}]]
SessionTypes == /\ sock \in [Instances -> Sockets] /\ status \in [Instances -> Statuses]
                /\ held \in BOOLEAN
ChatTypes == /\ blocked \subseteq Instances \X Contacts
             /\ negative \subseteq Contacts
             /\ composing \subseteq Instances \X Contacts
             /\ typing \subseteq Instances \X Contacts

LEMMA TypesSplit == TypeOK <=> CallTypes /\ RowTypes /\ SessionTypes /\ ChatTypes
  BY DEF TypeOK, CallTypes, RowTypes, SessionTypes, ChatTypes

\* A call that runs has a known job, so its chat is one.
LEMMA Running ==
    ASSUME NEW c \in Calls, Own(c), pc[c] # "idle"
    PROVE  /\ Inst(c) \in Instances /\ job[c].to \in Contacts /\ job[c].id \in WaIds \cup {NoId}
           /\ Chat(c) \in Instances \X Contacts
  BY DEF Own, JobKnown, JobType, Inst, Chat

\* The two ways a step ends keep the types of the calls' variables.
LEMMA ReturnTypes ==
    ASSUME CallTypes, NEW c \in Calls, NEW r \in Results, Return(c, r)
    PROVE  CallTypes'
  <1> USE ConstantsAssumption DEF CallTypes
  <1>1. "done" \in Steps /\ 0 \in 0..MaxRetries
    BY DEF Steps
  <1> QED BY <1>1 DEF Return

LEMMA GotoTypes ==
    ASSUME CallTypes, NEW c \in Calls, NEW s \in Steps, Goto(c, s)
    PROVE  CallTypes'
  BY DEF Goto, CallTypes

\* Signalled and StopPresence stay within the chats.
LEMMA SignalTypes ==
    ASSUME ChatTypes, NEW c \in Calls, Chat(c) \in Instances \X Contacts
    PROVE  /\ Signalled(c, typing \cup {Chat(c)}) \subseteq Instances \X Contacts
           /\ Signalled(c, typing \ {Chat(c)}) \subseteq Instances \X Contacts
           /\ StopPresence(c) => composing' \subseteq Instances \X Contacts
                                 /\ typing' \subseteq Instances \X Contacts
  <1>1. /\ Signalled(c, typing \cup {Chat(c)}) \subseteq Instances \X Contacts
        /\ Signalled(c, typing \ {Chat(c)}) \subseteq Instances \X Contacts
    BY DEF Signalled, ChatTypes
  <1> QED BY <1>1 DEF StopPresence, ChatTypes

\* Every step of a call keeps the types.
LEMMA StepTypes ==
    ASSUME TypeOK, NEW c \in Calls, Own(c), Step(c)
    PROVE  CallTypes' /\ RowTypes' /\ SessionTypes' /\ ChatTypes'
  <1>a. CallTypes /\ RowTypes /\ SessionTypes /\ ChatTypes
    BY TypesSplit
  <1>b. pc[c] # "idle" => /\ Inst(c) \in Instances /\ Chat(c) \in Instances \X Contacts
                          /\ job[c].to \in Contacts /\ job[c].id \in WaIds \cup {NoId}
    BY Running
  <1>c. pc[c] # "idle"
    BY DEF Step, AsksManager, OnItsOwn, Acquire, AlreadySent, CheckSession, AwaitReady, Resolve, OpenIndicator, Build,
           Attempt, SocketBack, GiveUp, Close
  <1>d. RowStatuses = {"none", "queued", "sending", "sent", "failed"}
    BY DEF RowStatuses
  <1>1. CASE Acquire(c)
    <2>1. CallTypes'
      BY <1>1, <1>a, <1>b DEF Acquire, CallTypes, Steps
    <2>2. RowTypes' /\ SessionTypes' /\ ChatTypes'
      BY <1>1, <1>a DEF Acquire, envVars, chatVars, RowTypes, SessionTypes, ChatTypes
    <2> QED BY <2>1, <2>2
  <1>2. CASE AlreadySent(c) \/ CheckSession(c) \/ AwaitReady(c)
    <2>1. CallTypes'
      BY <1>2, <1>a, ReturnTypes, GotoTypes
         DEF AlreadySent, CheckSession, AwaitReady, Results, Steps
    <2>2. RowTypes' /\ ChatTypes'
      BY <1>2, <1>a DEF AlreadySent, CheckSession, AwaitReady, envVars, chatVars, RowTypes, ChatTypes
    <2>3. SessionTypes'
      BY <1>2, <1>a, <1>b, <1>c
         DEF AlreadySent, CheckSession, AwaitReady, envVars, SessionTypes, Statuses
    <2> QED BY <2>1, <2>2, <2>3
  <1>3. CASE Resolve(c)
    <2>1. CallTypes'
      BY <1>3, <1>a, ReturnTypes, GotoTypes DEF Resolve, Results, Steps
    <2>2. RowTypes'
      BY <1>3, <1>a, <1>d DEF Resolve, RowTypes
    <2>3. SessionTypes' /\ ChatTypes'
      BY <1>3, <1>a, <1>b, <1>c DEF Resolve, envVars, chatVars, SessionTypes, ChatTypes
    <2> QED BY <2>1, <2>2, <2>3
  <1>4. CASE OpenIndicator(c)
    <2>1. CallTypes'
      BY <1>4, <1>a, GotoTypes DEF OpenIndicator, Steps
    <2>2. RowTypes' /\ SessionTypes'
      BY <1>4, <1>a DEF OpenIndicator, envVars, RowTypes, SessionTypes
    <2>3. ChatTypes'
      BY <1>4, <1>a, <1>b, <1>c, SignalTypes DEF OpenIndicator, ChatTypes
    <2> QED BY <2>1, <2>2, <2>3
  <1>5. CASE Build(c)
    <2>1. CallTypes'
      BY <1>5, <1>a, ReturnTypes, GotoTypes DEF Build, Results, Steps
    <2>2. RowTypes' /\ SessionTypes'
      BY <1>5, <1>a, <1>d DEF Build, envVars, RowTypes, SessionTypes
    <2>3. ChatTypes'
      <3>1. UNCHANGED <<blocked, negative>> /\ (StopPresence(c) \/ UNCHANGED <<composing, typing>>)
        BY <1>5 DEF Build, chatVars
      <3> QED BY <1>a, <1>b, <1>c, <3>1, SignalTypes DEF ChatTypes
    <2> QED BY <2>1, <2>2, <2>3
  <1>6. CASE Attempt(c)
    <2>1. PICK o \in Outcomes(c) :
              /\ err' = [err EXCEPT ![c] = o.err]
              /\ left' = [left EXCEPT ![c] = @ \/ o.left]
              /\ wire' = [wire EXCEPT ![c] = IF o.accepted THEN @ \cup {SendId(c)} ELSE @]
              /\ onlyDown' = [onlyDown EXCEPT ![c] = IF o.err = "ok" THEN @ ELSE StillOnlyDown(c, o.err)]
              /\ blocked' = IF o.err = "463" THEN blocked \cup {Chat(c)} ELSE blocked
              /\ status' = IF o.err = "loggedout"
                           THEN [status EXCEPT ![Inst(c)] = "inactive"] ELSE status
      BY <1>6 DEF Attempt
    <2>2. o.err \in Errors \cup {"ok"}
      BY DEF Outcomes, Errors, Transient, NonTransient
    <2>3. /\ pc' \in [Calls -> Steps]
          /\ attempt' \in [Calls -> 0..MaxRetries]
      BY <1>6, <1>a, ConstantsAssumption DEF Attempt, MayRetry, CallTypes, Steps
    <2>4. /\ err' \in [Calls -> Errors \cup {"none", "ok"}]
          /\ UNCHANGED <<job, result, lock>>
      BY <1>6, <1>a, <2>1, <2>2 DEF Attempt, CallTypes
    <2>5. wire' \in [Calls -> SUBSET ((WaIds \cup {NoId}) \X (0..MaxRetries))]
      <3>1. SendId(c) \in (WaIds \cup {NoId}) \X (0..MaxRetries)
        BY <1>b, <1>c, ConstantsAssumption DEF SendId
      <3> QED BY <1>a, <2>1, <3>1 DEF CallTypes
    <2>6. onlyDown' \in [Calls -> BOOLEAN] /\ left' \in [Calls -> BOOLEAN]
      BY <1>a, <2>1 DEF CallTypes, StillOnlyDown
    <2>7. CallTypes'
      BY <1>a, <2>3, <2>4, <2>5, <2>6 DEF CallTypes
    <2>8. RowTypes' /\ SessionTypes'
      BY <1>6, <1>a, <1>b, <1>c, <2>1 DEF Attempt, RowTypes, SessionTypes, Statuses
    <2>9. ChatTypes'
      BY <1>6, <1>a, <1>b, <1>c, <2>1, SignalTypes DEF Attempt, ChatTypes
    <2> QED BY <2>7, <2>8, <2>9
  <1>7. CASE SocketBack(c)
    <2>1. attempt'[c] \in 0..MaxRetries /\ UNCHANGED <<job, err, onlyDown, left, wire, result, lock>>
      BY <1>7, <1>a, ConstantsAssumption DEF SocketBack, Own, MayWait, MayRetry, CallTypes
    <2>2. CallTypes'
      BY <1>7, <1>a, <2>1 DEF SocketBack, CallTypes, Steps
    <2>3. RowTypes' /\ SessionTypes' /\ ChatTypes'
      BY <1>7, <1>a DEF SocketBack, envVars, chatVars, RowTypes, SessionTypes, ChatTypes
    <2> QED BY <2>2, <2>3
  <1>8. CASE GiveUp(c)
    <2>1. CallTypes'
      BY <1>8, <1>a, GotoTypes DEF GiveUp, Steps
    <2>2. RowTypes' /\ SessionTypes' /\ ChatTypes'
      BY <1>8, <1>a DEF GiveUp, envVars, chatVars, RowTypes, SessionTypes, ChatTypes
    <2> QED BY <2>1, <2>2
  <1>9. CASE Close(c)
    <2>1. CallTypes'
      BY <1>9, <1>a, ReturnTypes DEF Close, StatusOf, Results
    <2>2. RowTypes'
      <3>1. RowAfter(c) \in [status : RowStatuses, id : WaIds \cup {NoId}]
        BY <1>b, <1>c, <1>d DEF RowAfter
      <3> QED BY <1>9, <1>a, <3>1 DEF Close, RowTypes
    <2>3. SessionTypes'
      BY <1>9, <1>a DEF Close, envVars, SessionTypes
    <2>4. ChatTypes'
      BY <1>9, <1>a, <1>b, <1>c, SignalTypes DEF Close, ChatTypes
    <2> QED BY <2>1, <2>2, <2>3, <2>4
  <1> QED
    BY <1>1, <1>2, <1>3, <1>4, <1>5, <1>6, <1>7, <1>8, <1>9 DEF Step, AsksManager, OnItsOwn

\* The types are inductive, given what each call's variables say of one another.
LEMMA TypeInductive == TypeOK /\ (\A c \in Calls : Own(c)) /\ [Next]_vars => TypeOK'
  <1> SUFFICES ASSUME TypeOK, \A c \in Calls : Own(c), [Next]_vars
               PROVE  CallTypes' /\ RowTypes' /\ SessionTypes' /\ ChatTypes'
    BY DEF TypeOK, CallTypes, RowTypes, SessionTypes, ChatTypes
  <1>a. CallTypes /\ RowTypes /\ SessionTypes /\ ChatTypes
    BY TypesSplit
  <1>1. ASSUME NEW c \in Calls, Step(c)
        PROVE  CallTypes' /\ RowTypes' /\ SessionTypes' /\ ChatTypes'
    BY <1>1, StepTypes
  <1>2. ASSUME NEW c \in Calls, Calling(c)
        PROVE  CallTypes' /\ RowTypes' /\ SessionTypes' /\ ChatTypes'
    <2>1. PICK i \in Instances, t \in Contacts, w \in WaIds \cup {NoId}, q \in BOOLEAN :
              Call(c, i, t, w, q)
      BY <1>2 DEF Calling
    <2>2. CallTypes'
      BY <1>a, <2>1 DEF Call, CallTypes, Steps, Results
    <2>3. RowTypes'
      BY <1>a, <2>1 DEF Call, RowTypes, RowStatuses
    <2>4. SessionTypes' /\ ChatTypes'
      BY <1>a, <2>1 DEF Call, envVars, chatVars, SessionTypes, ChatTypes
    <2> QED BY <2>2, <2>3, <2>4
  <1>3. ASSUME NEW i \in Instances, NEW x \in Sockets, NEW st \in Statuses, SessionEvent(i, x, st)
        PROVE  CallTypes' /\ RowTypes' /\ SessionTypes' /\ ChatTypes'
    BY <1>3, <1>a DEF SessionEvent, callVars, CallTypes, RowTypes, SessionTypes, ChatTypes
  <1>4. ASSUME NEW i \in Instances, NEW t \in Contacts, Inbound(i, t) \/ Forget(i, t)
        PROVE  CallTypes' /\ RowTypes' /\ SessionTypes' /\ ChatTypes'
    <2>1. CallTypes' /\ RowTypes' /\ SessionTypes'
      BY <1>4, <1>a DEF Inbound, Forget, callVars, envVars, CallTypes, RowTypes, SessionTypes
    <2>2. ChatTypes'
      BY <1>4, <1>a DEF Inbound, Forget, chatVars, ChatTypes
    <2> QED BY <2>1, <2>2
  <1>5. CASE Crash
    <2>1. CallTypes'
      BY <1>5, <1>a, ConstantsAssumption DEF Crash, CallTypes, Steps
    <2>2. RowTypes' /\ SessionTypes' /\ ChatTypes'
      BY <1>5, <1>a DEF Crash, envVars, RowTypes, SessionTypes, ChatTypes
    <2> QED BY <2>1, <2>2
  <1>6. CASE UNCHANGED vars
    BY <1>6, <1>a DEF vars, CallTypes, RowTypes, SessionTypes, ChatTypes
  <1>7. CASE ManagerMutex
    BY <1>7, <1>a DEF ManagerMutex, callVars, chatVars, CallTypes, RowTypes, SessionTypes, ChatTypes
  <1> QED
    BY <1>1, <1>2, <1>3, <1>4, <1>5, <1>6, <1>7 DEF Next, Calling

\* What each call's variables say of one another is inductive.
LEMMA OwnInductive ==
    TypeOK /\ (\A c \in Calls : Own(c)) /\ [Next]_vars => \A c \in Calls : Own(c)'
  <1> SUFFICES ASSUME TypeOK, \A c \in Calls : Own(c), [Next]_vars, NEW d \in Calls
               PROVE  Own(d)'
    OBVIOUS
  <1>1. ASSUME Same(d) PROVE Own(d)'
    BY <1>1 DEF Same, Own, JobKnown, NothingYet, OneId, SendId, OnlyDownMeans, OkMeans, SentRow,
                Answered, MayWait, MayRetry
  <1>2. ASSUME NEW c \in Calls, Step(c) \/ Calling(c) PROVE Own(d)'
    BY <1>1, <1>2, OwnStep, Frame
  <1>4. ASSUME NEW i \in Instances, NEW x \in Sockets, NEW st \in Statuses, SessionEvent(i, x, st)
        PROVE  Own(d)'
    BY <1>1, <1>4 DEF SessionEvent, callVars, Same
  <1>5. ASSUME NEW i \in Instances, NEW t \in Contacts, Inbound(i, t) \/ Forget(i, t)
        PROVE  Own(d)'
    BY <1>1, <1>5 DEF Inbound, Forget, callVars, Same
  <1>6. CASE Crash
    <2>1. /\ pc'[d] = pc[d] \/ pc'[d] = "dead"
          /\ pc[d] = "done" => pc'[d] = "done"
          /\ pc'[d] = "idle" <=> pc[d] = "idle"
          /\ err'[d] = "none" /\ attempt'[d] = 0 /\ onlyDown'[d]
          /\ pc'[d] \in {"idle", "done", "dead"}
          /\ UNCHANGED <<job, left, wire, msgRow, result>>
      BY <1>6 DEF Crash, TypeOK
    <2>2. NothingYet(d)' /\ OnlyDownMeans(d)' /\ OkMeans(d)'
      BY <2>1 DEF Own, NothingYet, Before, OnlyDownMeans, OkMeans
    <2>3. JobKnown(d)' /\ OneId(d)'
      BY <2>1 DEF Own, JobKnown, OneId, SendId
    <2>4. SentRow(d)' /\ Answered(d)' /\ MayWait(d)'
      BY <2>1 DEF Own, SentRow, Answered, MayWait
    <2> QED BY <2>2, <2>3, <2>4 DEF Own
  <1>7. CASE UNCHANGED vars
    BY <1>1, <1>7 DEF vars, Same
  <1>8. CASE ManagerMutex
    BY <1>1, <1>8 DEF ManagerMutex, callVars, Same
  <1> QED
    BY <1>2, <1>4, <1>5, <1>6, <1>7, <1>8 DEF Next, Calling
-----------------------------------------------------------------------------
\* Two calls inside belong to different instances.
LEMMA Exclusive ==
    ASSUME Locked, NEW c \in Calls, NEW d \in Calls \ {c}, pc[c] \in Inside, pc[d] \in Inside
    PROVE  Inst(c) # Inst(d)
  BY DEF Locked

\* A step of a call touches one lock, its instance's, which is free or its own;
\* while the call is inside, the lock is its own.
LEMMA LockStep ==
    ASSUME TypeOK, Locked, NEW c \in Calls, Own(c), Step(c)
    PROVE  /\ pc[c] \in Inside \/ (pc[c] = "lock" /\ lock[Inst(c)] = NoCall)
           /\ \A i \in Instances \ {Inst(c)} : lock'[i] = lock[i]
           /\ UNCHANGED job
           /\ pc'[c] \in Inside => lock'[Inst(c)] = c
  <1>1. pc[c] \in Inside \/ (pc[c] = "lock" /\ lock[Inst(c)] = NoCall)
    BY DEF Step, AsksManager, OnItsOwn, Acquire, AlreadySent, CheckSession, AwaitReady, Resolve, OpenIndicator, Build,
           Attempt, SocketBack, GiveUp, Close, Inside
  <1>2. Inst(c) \in Instances
    BY <1>1, Running DEF Inside
  <1>3. CASE Acquire(c)
    BY <1>1, <1>2, <1>3 DEF Acquire, TypeOK
  <1>4. CASE ~Acquire(c)
    <2>1. (\E r : Return(c, r)) \/ UNCHANGED <<job, lock>>
      BY <1>4 DEF Step, AsksManager, OnItsOwn, AlreadySent, CheckSession, AwaitReady, Resolve, OpenIndicator, Build,
                  Attempt, SocketBack, GiveUp, Close, Goto
    <2>2. pc[c] \in Inside
      BY <1>4 DEF Step, AsksManager, OnItsOwn, AlreadySent, CheckSession, AwaitReady, Resolve, OpenIndicator, Build,
                  Attempt, SocketBack, GiveUp, Close, Inside
    <2>3. ASSUME NEW r, Return(c, r)
          PROVE  /\ \A i \in Instances \ {Inst(c)} : lock'[i] = lock[i]
                 /\ UNCHANGED job /\ pc'[c] = "done"
      BY <2>3 DEF Return, TypeOK
    <2> QED BY <1>1, <1>2, <2>1, <2>2, <2>3 DEF Locked, Inside
  <1> QED BY <1>3, <1>4

\* The lock excludes: whoever is inside holds it, so nobody else can take it.
LEMMA LockInductive ==
    TypeOK /\ (\A c \in Calls : Own(c)) /\ Locked /\ [Next]_vars => Locked'
  <1> SUFFICES ASSUME TypeOK, \A c \in Calls : Own(c), Locked, [Next]_vars,
                      NEW d \in Calls, pc'[d] \in Inside
               PROVE  lock'[Inst(d)'] = d
    BY DEF Locked, Inst
  <1>1. ASSUME UNCHANGED <<pc, job, lock>> PROVE lock'[Inst(d)'] = d
    BY <1>1 DEF Locked, Inst
  <1>2. ASSUME NEW c \in Calls, Step(c) PROVE lock'[Inst(d)'] = d
    <2>1. CASE c = d
      BY <1>2, <2>1, LockStep DEF Inst
    <2>2. CASE c # d
      <3>1. pc[d] \in Inside /\ Inst(d)' = Inst(d) /\ Inst(d) \in Instances
        BY <1>2, <2>2, Frame, Running DEF Same, Inst, Inside
      <3>2. lock[Inst(d)] = d
        BY <3>1 DEF Locked
      <3>3. Inst(c) # Inst(d)
        BY <1>2, <2>2, <3>1, <3>2, LockStep, Exclusive, ConstantsAssumption
      <3> QED BY <1>2, <3>1, <3>2, <3>3, LockStep
    <2> QED BY <2>1, <2>2
  <1>3. ASSUME NEW c \in Calls, Calling(c) PROVE lock'[Inst(d)'] = d
    <2>1. PICK i \in Instances, t \in Contacts, w \in WaIds \cup {NoId}, q \in BOOLEAN :
              Call(c, i, t, w, q)
      BY <1>3 DEF Calling
    <2>2. c # d /\ UNCHANGED lock
      BY <2>1 DEF Call, TypeOK, Inside
    <2>3. Same(d)
      BY <1>3, <2>2, Frame
    <2> QED BY <2>2, <2>3 DEF Same, Inst, Locked
  <1>4. CASE Crash
    BY <1>4 DEF Crash, TypeOK, Inside
  <1> QED
    BY <1>1, <1>2, <1>3, <1>4
       DEF Next, Calling, SessionEvent, ManagerMutex, Inbound, Forget, callVars, vars

\* A block is recorded by the call that holds the lock, which then goes no further.
LEMMA BlockInductive ==
    TypeOK /\ (\A c \in Calls : Own(c)) /\ Locked /\ NotBlocked /\ [Next]_vars => NotBlocked'
  <1> DEFINE Past == {"presence", "build", "attempt", "wait"}
  <1> SUFFICES ASSUME TypeOK, \A c \in Calls : Own(c), Locked, NotBlocked, [Next]_vars,
                      NEW d \in Calls, pc'[d] \in Past
               PROVE  Chat(d)' \notin blocked'
    BY DEF NotBlocked
  <1>1. ASSUME Same(d), pc[d] \in Past, blocked' \subseteq blocked PROVE Chat(d)' \notin blocked'
    BY <1>1 DEF Same, Chat, NotBlocked
  <1>2. ASSUME NEW c \in Calls, Step(c) PROVE Chat(d)' \notin blocked'
    <2>1. CASE c = d
      <3>1. Chat(c)' = Chat(c)
        BY <1>2, LockStep DEF Chat
      <3>2. CASE Attempt(c)
        <4>1. Chat(c) \notin blocked
          BY <3>2 DEF Attempt, NotBlocked
        <4>2. blocked' \subseteq blocked
          BY <2>1, <3>2 DEF Attempt, Final, TypeOK
        <4> QED BY <2>1, <3>1, <4>1, <4>2
      <3>3. CASE Resolve(c)
        BY <2>1, <3>1, <3>3 DEF Resolve, Return, Goto, TypeOK
      <3>4. CASE ~Attempt(c) /\ ~Resolve(c)
        <4>1. blocked' = blocked
          BY <1>2, <3>4 DEF Step, AsksManager, OnItsOwn, Acquire, AlreadySent, CheckSession, AwaitReady, OpenIndicator,
                            Build, SocketBack, GiveUp, Close
        <4>2. pc[c] \in Past
          BY <1>2, <2>1, <3>4 DEF Step, AsksManager, OnItsOwn, Acquire, AlreadySent, CheckSession, AwaitReady,
                            OpenIndicator, Build, SocketBack, GiveUp, Close, Return, Goto, TypeOK
        <4> QED BY <2>1, <3>1, <4>1, <4>2 DEF NotBlocked
      <3> QED BY <3>2, <3>3, <3>4
    <2>2. CASE c # d
      <3>1. Same(d) /\ pc[d] \in Past
        BY <1>2, <2>2, Frame DEF Same
      <3>2. blocked' \subseteq blocked \cup {Chat(c)}
        BY <1>2 DEF Step, AsksManager, OnItsOwn, Acquire, AlreadySent, CheckSession, AwaitReady, Resolve, OpenIndicator,
                    Build, Attempt, SocketBack, GiveUp, Close
      <3>3. Chat(d) # Chat(c) \/ blocked' \subseteq blocked
        <4>1. CASE pc[c] \in Inside
          BY <2>2, <3>1, <4>1, Exclusive DEF Inside, Chat, Inst
        <4>2. CASE pc[c] \notin Inside
          BY <1>2, <4>2 DEF Step, AsksManager, OnItsOwn, Acquire, AlreadySent, CheckSession, AwaitReady, Resolve,
                    OpenIndicator, Build, Attempt, SocketBack, GiveUp, Close, Inside
        <4> QED BY <4>1, <4>2
      <3> QED BY <3>1, <3>2, <3>3 DEF Same, Chat, NotBlocked
    <2> QED BY <2>1, <2>2
  <1>3. ASSUME NEW c \in Calls, Calling(c) PROVE Chat(d)' \notin blocked'
    <2>1. PICK i \in Instances, t \in Contacts, w \in WaIds \cup {NoId}, q \in BOOLEAN :
              Call(c, i, t, w, q)
      BY <1>3 DEF Calling
    <2>2. c # d /\ blocked' = blocked
      BY <2>1 DEF Call, TypeOK
    <2>3. Same(d)
      BY <1>3, <2>2, Frame
    <2> QED BY <1>1, <2>2, <2>3 DEF Same
  <1>4. CASE Crash
    BY <1>4 DEF Crash, TypeOK
  <1>5. ASSUME UNCHANGED callVars, UNCHANGED msgRow, blocked' \subseteq blocked
        PROVE  Chat(d)' \notin blocked'
    BY <1>1, <1>5 DEF callVars, Same
  <1>6. ASSUME NEW i \in Instances, NEW t \in Contacts, Inbound(i, t) \/ Forget(i, t)
        PROVE  Chat(d)' \notin blocked'
    BY <1>5, <1>6 DEF Inbound, Forget
  <1>7. ASSUME NEW i \in Instances, NEW x \in Sockets, NEW st \in Statuses, SessionEvent(i, x, st)
        PROVE  Chat(d)' \notin blocked'
    BY <1>5, <1>7 DEF SessionEvent
  <1>8. CASE UNCHANGED vars
    BY <1>5, <1>8 DEF vars, callVars
  <1>9. CASE ManagerMutex
    BY <1>5, <1>9 DEF ManagerMutex, callVars, chatVars
  <1> QED
    BY <1>2, <1>3, <1>4, <1>6, <1>7, <1>8, <1>9 DEF Next, Calling
-----------------------------------------------------------------------------
\* A step of a call adds no mark but its own, and takes its own with it.
LEMMA MarkStep ==
    ASSUME TypeOK, NEW c \in Calls, Own(c), Step(c), NEW p \in composing'
    PROVE  \/ p = Chat(c) /\ pc'[c] \in {"build", "attempt", "wait", "close"}
           \/ p \in composing /\ (p # Chat(c) \/ pc[c] \notin {"build", "attempt", "wait", "close"})
  <1>1. CASE OpenIndicator(c)
    BY <1>1 DEF OpenIndicator, Goto, TypeOK
  <1>2. CASE Build(c) \/ Close(c)
    BY <1>2 DEF Build, Close, StopPresence, Goto, chatVars, TypeOK
  <1>3. CASE Attempt(c) \/ SocketBack(c) \/ GiveUp(c)
    <2>1. composing' = composing /\ pc'[c] \in {"attempt", "wait", "close"}
      BY <1>3 DEF Attempt, SocketBack, GiveUp, Goto, chatVars, TypeOK
    <2> QED BY <2>1
  <1>4. CASE Acquire(c) \/ AlreadySent(c) \/ CheckSession(c) \/ AwaitReady(c) \/ Resolve(c)
    BY <1>4 DEF Acquire, AlreadySent, CheckSession, AwaitReady, Resolve, chatVars
  <1> QED BY <1>1, <1>2, <1>3, <1>4 DEF Step, AsksManager, OnItsOwn

\* Every way to return takes the mark along, so a mark has a call to vouch for it.
LEMMA MarkedInductive ==
    TypeOK /\ (\A c \in Calls : Own(c)) /\ Locked /\ Marked /\ [Next]_vars => Marked'
  <1> DEFINE Sending == {"build", "attempt", "wait", "close"}
  <1> SUFFICES ASSUME TypeOK, \A c \in Calls : Own(c), Locked, Marked, [Next]_vars,
                      NEW p \in composing'
               PROVE  \E d \in Calls : pc'[d] \in Sending /\ p = Chat(d)'
    BY DEF Marked
  <1>1. ASSUME NEW d \in Calls, Same(d), pc[d] \in Sending, p = Chat(d)
        PROVE  pc'[d] \in Sending /\ p = Chat(d)'
    BY <1>1 DEF Same, Chat
  <1>2. ASSUME NEW c \in Calls, Step(c)
        PROVE  \E d \in Calls : pc'[d] \in Sending /\ p = Chat(d)'
    <2>1. Chat(c)' = Chat(c)
      BY <1>2, LockStep DEF Chat
    <2>2. CASE p = Chat(c) /\ pc'[c] \in Sending
      BY <2>1, <2>2
    <2>3. CASE p \in composing /\ (p # Chat(c) \/ pc[c] \notin Sending)
      <3>1. PICK d \in Calls : pc[d] \in Sending /\ p = Chat(d)
        BY <2>3 DEF Marked
      <3>2. d # c
        BY <2>3, <3>1
      <3> QED BY <1>1, <1>2, <3>1, <3>2, Frame
    <2> QED BY <1>2, <2>2, <2>3, MarkStep
  <1>3. ASSUME NEW c \in Calls, Calling(c)
        PROVE  \E d \in Calls : pc'[d] \in Sending /\ p = Chat(d)'
    <2>1. composing' = composing /\ pc[c] = "idle"
      BY <1>3 DEF Calling, Call, chatVars
    <2>2. PICK d \in Calls : pc[d] \in Sending /\ p = Chat(d)
      BY <2>1 DEF Marked
    <2>3. d # c
      BY <2>1, <2>2
    <2> QED BY <1>1, <1>3, <2>2, <2>3, Frame
  <1>4. CASE Crash
    BY <1>4 DEF Crash
  <1>5. ASSUME UNCHANGED callVars, composing' \subseteq composing
        PROVE  \E d \in Calls : pc'[d] \in Sending /\ p = Chat(d)'
    BY <1>5 DEF callVars, Chat, Marked
  <1>6. ASSUME NEW i \in Instances, NEW t \in Contacts, Inbound(i, t) \/ Forget(i, t)
        PROVE  \E d \in Calls : pc'[d] \in Sending /\ p = Chat(d)'
    BY <1>5, <1>6 DEF Inbound, Forget, chatVars
  <1>7. ASSUME NEW i \in Instances, NEW x \in Sockets, NEW st \in Statuses, SessionEvent(i, x, st)
        PROVE  \E d \in Calls : pc'[d] \in Sending /\ p = Chat(d)'
    BY <1>5, <1>7 DEF SessionEvent
  <1>8. CASE UNCHANGED vars
    BY <1>5, <1>8 DEF vars, callVars
  <1>9. CASE ManagerMutex
    BY <1>5, <1>9 DEF ManagerMutex, callVars, chatVars
  <1> QED
    BY <1>2, <1>3, <1>4, <1>6, <1>7, <1>8, <1>9 DEF Next, Calling

\* What was sent stays sent, under the same job.
LEMMA SentStays ==
    ASSUME TypeOK, \A c \in Calls : Own(c), [Next]_vars, NEW d \in Calls
    PROVE  /\ wire[d] \subseteq wire'[d]
           /\ pc[d] # "idle" => job'[d] = job[d]
  <1>1. ASSUME Same(d) PROVE wire[d] \subseteq wire'[d] /\ job'[d] = job[d]
    BY <1>1 DEF Same
  <1>2. ASSUME NEW c \in Calls, Step(c)
        PROVE  wire[d] \subseteq wire'[d] /\ job'[d] = job[d]
    <2>1. UNCHANGED job
      BY <1>2 DEF Step, AsksManager, OnItsOwn, Acquire, AlreadySent, CheckSession, AwaitReady, Resolve, OpenIndicator,
                  Build, Attempt, SocketBack, GiveUp, Close, Return, Goto
    <2>2. CASE Attempt(c)
      BY <2>1, <2>2 DEF Attempt, TypeOK
    <2>3. CASE ~Attempt(c)
      <3>1. UNCHANGED wire
        BY <1>2, <2>3 DEF Step, AsksManager, OnItsOwn, Acquire, AlreadySent, CheckSession, AwaitReady, Resolve,
                    OpenIndicator, Build, SocketBack, GiveUp, Close, Return, Goto
      <3> QED BY <2>1, <3>1
    <2> QED BY <2>2, <2>3
  <1>3. ASSUME NEW c \in Calls, Calling(c)
        PROVE  /\ wire[d] \subseteq wire'[d]
               /\ pc[d] # "idle" => job'[d] = job[d]
    BY <1>3 DEF Calling, Call, TypeOK
  <1> QED
    BY <1>1, <1>2, <1>3
       DEF Next, Calling, SessionEvent, ManagerMutex, Inbound, Forget, Crash, callVars, vars, Same

\* The two ways a step answers 2xx: a row that went out under the caller's id, or
\* an attempt that WhatsApp accepted.
LEMMA SuccessStep ==
    ASSUME TypeOK, NEW c \in Calls, Own(c), Step(c), result'[c] = "2xx"
    PROVE  SentUnder(Inst(c), job[c].id) \/ err[c] = "ok"
  <1>1. pc[c] # "done" /\ result[c] # "2xx"
    BY DEF Own, Answered, Step, AsksManager, OnItsOwn, Acquire, AlreadySent, CheckSession, AwaitReady, Resolve,
           OpenIndicator, Build, Attempt, SocketBack, GiveUp, Close
  <1>2. ASSUME NEW r, Return(c, r) PROVE r = "2xx"
    BY <1>2 DEF Return, TypeOK
  <1>3. ASSUME NEW s, Goto(c, s) PROVE FALSE
    BY <1>1, <1>3 DEF Goto
  <1>4. CASE Acquire(c) \/ Attempt(c) \/ SocketBack(c)
    BY <1>1, <1>4 DEF Acquire, Attempt, SocketBack
  <1>5. CASE AlreadySent(c)
    BY <1>3, <1>5 DEF AlreadySent
  <1>6. CASE CheckSession(c) \/ AwaitReady(c) \/ Resolve(c)
    BY <1>2, <1>3, <1>6 DEF CheckSession, AwaitReady, Resolve
  <1>7. CASE Build(c) \/ OpenIndicator(c) \/ GiveUp(c)
    BY <1>2, <1>3, <1>7 DEF Build, OpenIndicator, GiveUp
  <1>8. CASE Close(c)
    <2>1. Return(c, IF err[c] = "ok" THEN "2xx" ELSE StatusOf(c))
      BY <1>8 DEF Close
    <2> QED BY <1>2, <2>1 DEF StatusOf
  <1> QED BY <1>4, <1>5, <1>6, <1>7, <1>8 DEF Step, AsksManager, OnItsOwn

\* A 2xx keeps the evidence it was given on.
LEMMA SuccessInductive ==
    TypeOK /\ (\A c \in Calls : Own(c)) /\ SuccessWasSent /\ [Next]_vars => SuccessWasSent'
  <1> DEFINE Evidence(c, d) == /\ Inst(d) = Inst(c) /\ wire[d] # {}
                               /\ d = c \/ (job[d].id = job[c].id /\ job[c].id # NoId)
  <1> SUFFICES ASSUME TypeOK, \A c \in Calls : Own(c), SuccessWasSent, [Next]_vars,
                      NEW c \in Calls, result'[c] = "2xx"
               PROVE  \E d \in Calls : Evidence(c, d)'
    BY DEF SuccessWasSent
  <1>1. ASSUME NEW d \in Calls, Evidence(c, d), pc[c] # "idle" PROVE Evidence(c, d)'
    <2>1. pc[d] # "idle"
      BY <1>1 DEF Own, NothingYet, Before
    <2>2. job'[c] = job[c] /\ job'[d] = job[d] /\ wire[d] \subseteq wire'[d]
      BY <1>1, <2>1, SentStays
    <2> QED BY <1>1, <2>2 DEF Inst
  <1>2. CASE result[c] = "2xx"
    <2>1. PICK d \in Calls : Evidence(c, d)
      BY <1>2 DEF SuccessWasSent
    <2>2. pc[c] = "done"
      BY <1>2 DEF Own, Answered
    <2> QED BY <1>1, <2>1, <2>2
  <1>3. CASE result[c] # "2xx"
    <2>1. Step(c)
      <3>1. ASSUME NEW d \in Calls, d # c, Step(d) \/ Calling(d) PROVE FALSE
        <4>1. Same(c)
          BY <3>1, Frame
        <4> QED BY <1>3, <4>1 DEF Same
      <3>2. ASSUME Calling(c) PROVE FALSE
        BY <1>3, <3>2 DEF Calling, Call, TypeOK
      <3>3. ASSUME UNCHANGED result PROVE FALSE
        BY <1>3, <3>3
      <3> QED BY <3>1, <3>2, <3>3 DEF Next, Calling, SessionEvent, ManagerMutex, Inbound, Forget, Crash, callVars, vars
    <2>2. pc[c] # "idle"
      BY <2>1 DEF Step, AsksManager, OnItsOwn, Acquire, AlreadySent, CheckSession, AwaitReady, Resolve, OpenIndicator,
                  Build, Attempt, SocketBack, GiveUp, Close
    <2>3. CASE err[c] = "ok"
      <3>1. Evidence(c, c)
        BY <2>3 DEF Own, OkMeans
      <3> QED BY <1>1, <2>2, <3>1
    <2>4. CASE SentUnder(Inst(c), job[c].id)
      <3>1. PICK d \in Calls : /\ job[c].id # NoId /\ Inst(d) = Inst(c)
                               /\ msgRow[d].id = job[c].id
        BY <2>4 DEF SentUnder
      <3>2. Evidence(c, d)
        BY <3>1 DEF Own, SentRow
      <3> QED BY <1>1, <2>2, <3>2
    <2> QED BY <2>1, <2>3, <2>4, SuccessStep
  <1> QED BY <1>2, <1>3
-----------------------------------------------------------------------------
\* The parts of the invariant are inductive together.
LEMMA IInvInductive == IInv /\ [Next]_vars => IInv'
  <1> SUFFICES ASSUME IInv, [Next]_vars PROVE IInv'
    OBVIOUS
  <1>1. TypeOK' /\ \A c \in Calls : Own(c)'
    BY TypeInductive, OwnInductive DEF IInv
  <1>2. Locked' /\ NotBlocked'
    BY LockInductive, BlockInductive DEF IInv
  <1>3. Marked' /\ SuccessWasSent'
    BY MarkedInductive, SuccessInductive DEF IInv
  <1> QED BY <1>1, <1>2, <1>3 DEF IInv

\* The invariant of the send path: types, what a call's variables say of one
\* another, the lock, the chats that are blocked or marked, and what a 2xx rests on.
THEOREM Invariance == Spec => []IInv
  <1>1. Init => IInv
    <2> SUFFICES ASSUME Init PROVE IInv
      OBVIOUS
    <2> USE ConstantsAssumption
    <2>1. TypeOK
      <3>1. CallTypes
        BY DEF Init, CallTypes, Steps, Results
      <3>2. RowTypes /\ SessionTypes /\ ChatTypes
        BY DEF Init, RowTypes, SessionTypes, ChatTypes, NoRow, RowStatuses, Sockets, Statuses
      <3> QED BY <3>1, <3>2, TypesSplit
    <2>2. ASSUME NEW c \in Calls PROVE Own(c)
      <3>1. /\ pc[c] = "idle" /\ wire[c] = {} /\ ~left[c] /\ result[c] = "none"
            /\ err[c] = "none" /\ msgRow[c] = NoRow
        BY DEF Init
      <3>2. JobKnown(c) /\ NothingYet(c) /\ OneId(c) /\ OnlyDownMeans(c) /\ OkMeans(c)
        BY <3>1 DEF JobKnown, NothingYet, OneId, OnlyDownMeans, OkMeans
      <3>3. SentRow(c) /\ Answered(c) /\ MayWait(c)
        BY <3>1 DEF SentRow, Answered, MayWait, NoRow
      <3> QED BY <3>2, <3>3 DEF Own
    <2>3. Locked /\ NotBlocked /\ Marked /\ SuccessWasSent
      BY DEF Init, Locked, NotBlocked, Marked, SuccessWasSent, Inside
    <2> QED BY <2>1, <2>2, <2>3 DEF IInv
  <1> QED BY <1>1, IInvInductive, PTL DEF Spec

\* Every variable keeps its type; the attempts stay within their budget.
THEOREM TypeCorrect == Spec => []TypeOK
  <1>1. IInv => TypeOK
    BY DEF IInv
  <1> QED BY <1>1, Invariance, PTL

\* A 503 is only answered when no frame of the message left the process.
THEOREM UnavailableIsHonest == Spec => []UnavailableNeverLeft
  <1>1. IInv => UnavailableNeverLeft
    BY DEF IInv, Own, Answered, UnavailableNeverLeft
  <1> QED BY <1>1, Invariance, PTL

\* The attempts of a call share one id, so the recipient has one message of it.
THEOREM RetriesAreOneMessage == Spec => []OneMessagePerCall
  <1>1. IInv => OneMessagePerCall
    <2> SUFFICES ASSUME IInv, NEW c \in Calls PROVE Cardinality(wire[c]) <= 1
      BY DEF OneMessagePerCall
    <2>1. wire[c] = {} \/ wire[c] = {SendId(c)}
      BY DEF IInv, Own, OneId
    <2>2. Cardinality({}) = 0 /\ Cardinality({SendId(c)}) = 1
      BY FS_EmptySet, FS_Singleton
    <2> QED BY <2>1, <2>2
  <1> QED BY <1>1, Invariance, PTL

\* A 2xx is never an empty promise: this call or an earlier one under the same
\* caller id was accepted by WhatsApp.
THEOREM SuccessIsHonest == Spec => []SuccessWasSent
  <1>1. IInv => SuccessWasSent
    BY DEF IInv
  <1> QED BY <1>1, Invariance, PTL

\* No attempt writes to a chat that a 463 has blocked.
THEOREM BlockIsKept == Spec => BlockedNotSent
  <1>1. IInv /\ [Next]_vars =>
            [\A c \in Calls : pc[c] = "attempt" /\ Chat(c) \in blocked => wire'[c] = wire[c]]_vars
    BY DEF IInv, NotBlocked
  <1> QED BY <1>1, Invariance, PTL DEF Spec, BlockedNotSent

\* A typing simulation starts with an indicator the contact sees: a mark left by an
\* earlier call would be of another instance's chat.
THEOREM IndicatorIsSeen == Spec => IndicatorSeen
  <1> DEFINE Seen == \A c \in Calls :
          pc[c] = "presence" /\ pc'[c] = "build" /\ sock[Inst(c)] = "up" => Chat(c) \in typing'
  <1>1. IInv /\ [Next]_vars => [Seen]_vars
    <2> SUFFICES ASSUME IInv, Next, NEW c \in Calls, pc[c] = "presence", pc'[c] = "build",
                        sock[Inst(c)] = "up"
                 PROVE  Chat(c) \in typing'
      OBVIOUS
    <2>1. TypeOK /\ Own(c) /\ Locked /\ Marked
      BY DEF IInv
    <2>2. Step(c)
      <3>1. ASSUME NEW d \in Calls, d # c, Step(d) \/ Calling(d) PROVE FALSE
        BY <2>1, <3>1, Frame DEF Same
      <3>2. ~Calling(c) /\ ~Crash
        BY <2>1 DEF Calling, Call, Crash, TypeOK
      <3>3. pc' # pc
        BY <2>1
      <3> QED BY <3>1, <3>2, <3>3 DEF Next, Calling, SessionEvent, ManagerMutex, Inbound, Forget, callVars
    <2>3. OpenIndicator(c)
      BY <2>2 DEF Step, AsksManager, OnItsOwn, Acquire, AlreadySent, CheckSession, AwaitReady, Resolve, Build, Attempt,
                  SocketBack, GiveUp, Close
    <2>4. Chat(c) \notin composing
      <3> SUFFICES ASSUME NEW d \in Calls, Chat(c) = Chat(d),
                          pc[d] \in {"build", "attempt", "wait", "close"}
                   PROVE  FALSE
        BY <2>1 DEF Marked
      <3>1. Inst(c) = Inst(d)
        BY DEF Chat, Inst
      <3> QED BY <2>1, <3>1, Exclusive DEF Inside
    <2> QED BY <2>3, <2>4 DEF OpenIndicator, Signalled
  <1> QED BY <1>1, Invariance, PTL DEF Spec, IndicatorSeen
-----------------------------------------------------------------------------
\* From the replay check to the end of the call, no row says that the caller's id
\* went out: nobody else is inside the instance to write one.
NotYetSent == \A c \in Calls :
    pc[c] \in Inside \ {"replay"} => ~SentUnder(Inst(c), job[c].id)

LEMMA ReplayInductive ==
    ASSUME ~LookupMayFail, IInv, NotYetSent, [Next]_vars
    PROVE  NotYetSent'
  <1> SUFFICES ASSUME NEW c \in Calls, pc'[c] \in Inside \ {"replay"},
                      NEW d \in Calls, Inst(d)' = Inst(c)',
                      msgRow'[d].id = job'[c].id, job'[c].id # NoId
               PROVE  FALSE
    BY DEF NotYetSent, SentUnder
  <1>a. TypeOK /\ Locked /\ Own(c) /\ Own(d) /\ Own(d)'
    BY IInvInductive DEF IInv
  <1>b. /\ pc'[d] \in {"done", "dead"} /\ wire'[d] # {} /\ msgRow'[d].status = "sent"
        /\ d # c
    BY <1>a DEF Own, SentRow, Inside
  <1>1. ASSUME Same(d), job'[c] = job[c], ~SentUnder(Inst(c), job[c].id) PROVE FALSE
    BY <1>1, <1>b DEF Same, SentUnder, Inst
  <1>2. ASSUME Same(c), Same(d) PROVE FALSE
    BY <1>1, <1>2 DEF Same, NotYetSent
  <1>3. CASE Step(d)
    <2>1. Same(c) /\ job'[d] = job[d]
      BY <1>3, <1>a, <1>b, Frame, LockStep
    <2>2. pc[c] \in Inside /\ Inst(c) = Inst(d)
      BY <2>1 DEF Same, Inst
    <2>3. pc[d] \in Inside \/ lock[Inst(d)] = NoCall
      BY <1>3, <1>a, LockStep
    <2> QED BY <1>a, <1>b, <2>2, <2>3, Exclusive, ConstantsAssumption DEF Locked
  <1>4. CASE Calling(d)
    BY <1>4, <1>a, <1>b DEF Calling, Call, Own, NothingYet, Before
  <1>5. CASE Step(c)
    <2>1. Same(d) /\ job'[c] = job[c]
      BY <1>5, <1>a, <1>b, Frame, LockStep
    <2>2. CASE pc[c] \in Inside \ {"replay"}
      BY <1>1, <2>1, <2>2 DEF NotYetSent
    <2>3. CASE pc[c] \notin Inside \ {"replay"}
      <3>1. Acquire(c) \/ AlreadySent(c)
        BY <1>5, <2>3 DEF Step, AsksManager, OnItsOwn, CheckSession, AwaitReady, Resolve, OpenIndicator, Build, Attempt,
                    SocketBack, GiveUp, Close, Inside
      <3>2. ~Acquire(c)
        BY <1>a DEF Acquire, TypeOK
      <3>3. ~\E r : Return(c, r)
        BY <1>a DEF Return, TypeOK, Inside
      <3>4. ~SentUnder(Inst(c), job[c].id)
        BY <3>1, <3>2, <3>3 DEF AlreadySent
      <3> QED BY <1>1, <2>1, <3>4
    <2> QED BY <2>2, <2>3
  <1>6. CASE Calling(c)
    BY <1>6, <1>a DEF Calling, Call, TypeOK, Inside
  <1>7. CASE Crash
    BY <1>7, <1>a DEF Crash, TypeOK, Inside
  <1>8. ASSUME NEW e \in Calls \ {c, d}, Step(e) \/ Calling(e) PROVE FALSE
    BY <1>2, <1>8, <1>a, Frame
  <1>9. ASSUME UNCHANGED <<callVars, msgRow>> PROVE FALSE
    BY <1>2, <1>9 DEF callVars, Same
  <1> QED
    BY <1>3, <1>4, <1>5, <1>6, <1>7, <1>8, <1>9
       DEF Next, Calling, SessionEvent, ManagerMutex, Inbound, Forget, vars, callVars

\* With a replay lookup that never fails, no row says sent under a caller's id while a
\* call of its instance is sending under it: a message on record is not sent again.
THEOREM ReplayFirst ==
    ASSUME ~LookupMayFail
    PROVE  Spec => []ReplayBeforeResend
  <1>1. Init => NotYetSent
    BY DEF Init, NotYetSent, Inside
  <1>2. IInv /\ NotYetSent /\ [Next]_vars => NotYetSent'
    BY ReplayInductive
  <1>3. NotYetSent => ReplayBeforeResend
    BY DEF NotYetSent, ReplayBeforeResend, Inside
  <1> QED BY <1>1, <1>2, <1>3, Invariance, PTL DEF Spec
=============================================================================
