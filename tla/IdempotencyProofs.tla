------------------------- MODULE IdempotencyProofs --------------------------
(***************************************************************************)
(* Proofs about Idempotency, for any number of requests, keys and          *)
(* fingerprints, with or without store errors and crashes.                 *)
(*                                                                         *)
(* The safety properties are not inductive: they follow from what ties a   *)
(* row to the request that inserted it.  IInv collects those ties: a       *)
(* running owner's row is present, started, unexpired and of the current   *)
(* life of its key (OwnerHolds); a row belongs to an owner of that life    *)
(* and a completed one stores a final answer (RowHasOwner); and an owner   *)
(* of the current life whose message went out still has its row, unless it *)
(* freed the key itself (ReachedKeepsRow).                                 *)
(***************************************************************************)
EXTENDS Idempotency, TLAPS

\* What a request's step says about its mode and its key.
StepMode ==
    \A r \in Requests :
        /\ pc[r] \in {"idle", "delete", "insert", "select"} =>
               mode[r] = "none" /\ ~reached[r] /\ answer[r] = NoAnswer
        /\ pc[r] = "handler" => mode[r] \in {"owner", "unprotected"} /\ answer[r] = NoAnswer
        /\ pc[r] = "record" => mode[r] = "owner"
        /\ mode[r] = "owner" \/ pc[r] \in {"delete", "insert", "select"} => Key(r) \in Keys
        /\ mode[r] = "owner" /\ answer[r].status = "503" => ~reached[r]
        /\ mode[r] = "owner" =>
               /\ pc[r] \in {"handler", "record", "done", "dead"}
               /\ answer[r].status \in HandlerStatus \cup {"none"}

OwnerHolds ==
    \A r \in Requests :
        mode[r] = "owner" /\ Running(r) =>
            /\ row[Key(r)].by = r
            /\ row[Key(r)].status = "started"
            /\ ~row[Key(r)].expired

RowHasOwner ==
    \A k \in Keys :
        \/ row[k] = Absent
        \/ LET o == row[k].by
           IN  /\ row[k].status \in {"started", "completed"}
               /\ o \in Requests
               /\ mode[o] = "owner"
               /\ Key(o) = k
               /\ lifeOf[o] = life[k]
               /\ row[k].hash = req[o].hash
               /\ row[k].status = "completed" =>
                      /\ pc[o] = "done"
                      /\ answer[o].of = o
                      /\ answer[o].status \in {"2xx", "500"}

ReachedKeepsRow ==
    \A r \in Requests :
        mode[r] = "owner" =>
            /\ lifeOf[r] <= life[Key(r)]
            /\ lifeOf[r] = life[Key(r)] /\ reached[r] /\ ~FreedAfterReach(r)
                   => row[Key(r)].by = r

\* A request past the guard that wrote an answer carries its own result.
AnswerIsOwn ==
    \A r \in Requests :
        /\ mode[r] = "owner" /\ answer[r].status # "none" => answer[r].of = r
        /\ mode[r] = "owner" /\ pc[r] = "record" /\ ~FreesKey(answer[r].status)
               => answer[r].status \in {"2xx", "500"} /\ answer[r].of = r

IInv == /\ TypeOK
        /\ StepMode
        /\ OwnerHolds
        /\ RowHasOwner
        /\ ReachedKeepsRow
        /\ AnswerIsOwn
        /\ AtMostOnce
        /\ ReplayIsOriginal
-----------------------------------------------------------------------------
USE DEF Key

LEMMA AbsentRow == Absent \in RowType /\ Absent.by = NoRequest /\ ~Absent.expired
                   /\ Absent.status = "absent" /\ Absent.hash = NoHash
  BY DEF Absent, RowType

\* Two requests with the same key and fingerprint arrived with the same record.
LEMMA SameRequest ==
    \A a, b \in [key : Keys \cup {NoKey}, hash : Hashes \cup {NoHash}] :
        a.key = b.key /\ a.hash = b.hash => a = b
  OBVIOUS

\* Every step of the table and of a request keeps the types.
LEMMA TypeInductive == TypeOK /\ StepMode /\ RowHasOwner /\ [Next]_vars => TypeOK'
<1> SUFFICES ASSUME TypeOK, StepMode, RowHasOwner, [Next]_vars
             PROVE  TypeOK'
  OBVIOUS
<1> USE DEF TypeOK, Steps, Modes, Answers, HandlerStatus
<1>1. ASSUME NEW r \in Requests, ArriveBare(r) \/ Reject(r)
      PROVE  TypeOK'
  <2>1. CASE ArriveBare(r)
    BY <2>1 DEF ArriveBare
  <2>2. CASE Reject(r)
    BY <2>2 DEF Reject
  <2>3. QED
    BY <1>1, <2>1, <2>2
<1>2. ASSUME NEW r \in Requests, NEW k \in Keys, NEW h \in Hashes, Arrive(r, k, h)
      PROVE  TypeOK'
  BY <1>2 DEF Arrive
<1>3. ASSUME NEW r \in Requests, Acquire(r)
      PROVE  TypeOK'
  <2>0. Key(r) \in Keys \/ pc[r] \notin {"delete", "insert", "select"}
    BY DEF StepMode
  <2>1. CASE DeleteIfExpired(r)
    <3>1. row' \in [Keys -> RowType] /\ life' \in [Keys -> Nat]
      <4>1. CASE row[Key(r)].expired
        BY <2>1, <4>1, AbsentRow DEF DeleteIfExpired
      <4>2. CASE ~row[Key(r)].expired
        BY <2>1, <4>2 DEF DeleteIfExpired
      <4>3. QED
        BY <4>1, <4>2
    <3>2. QED
      BY <2>1, <3>1 DEF DeleteIfExpired
  <2>2. CASE Insert(r)
    <3>1. CASE row[Key(r)] = Absent
      <4>1. [status |-> "started", hash |-> req[r].hash, by |-> r, expired |-> FALSE] \in RowType
        BY DEF RowType
      <4>2. row' \in [Keys -> RowType]
        BY <2>2, <4>1 DEF Insert
      <4>3. /\ lifeOf' = [lifeOf EXCEPT ![r] = life[Key(r)]]
            /\ mode' = [mode EXCEPT ![r] = "owner"]
            /\ pc' = [pc EXCEPT ![r] = "handler"]
            /\ UNCHANGED <<req, answer, reached, life>>
        BY <2>2, <3>1 DEF Insert
      <4>4. life[Key(r)] \in Nat
        BY <2>0, <2>2 DEF Insert
      <4>5. QED
        BY <4>2, <4>3, <4>4
    <3>2. CASE row[Key(r)] # Absent
      BY <2>2, <3>2 DEF Insert
    <3>3. QED
      BY <3>1, <3>2
  <2>3. CASE Select(r)
    <3>1. row[Key(r)].status # "completed" \/ (row[Key(r)].by \in Requests)
      BY <2>0, <2>3 DEF RowHasOwner, Select, Absent
    <3>2. CASE row[Key(r)] = Absent /\ Unprotect(r)
      BY <3>2 DEF Unprotect
    <3>3. CASE ~(row[Key(r)] = Absent /\ Unprotect(r))
      <4>1. /\ UNCHANGED <<req, reached, row, life, lifeOf>>
            /\ pc' = [pc EXCEPT ![r] = "done"]
            /\ \E m \in Modes : mode' = [mode EXCEPT ![r] = m]
            /\ \E s \in Answers, o \in Requests :
                  answer' = [answer EXCEPT ![r] = [status |-> s, of |-> o]]
        BY <2>3, <3>1, <3>3 DEF Select
      <4>2. QED
        BY <4>1
    <3>4. QED
      BY <3>2, <3>3
  <2>4. CASE StoreError(r)
    BY <2>4 DEF StoreError, Unprotect
  <2>5. QED
    BY <1>3, <2>1, <2>2, <2>3, <2>4 DEF Acquire
<1>4. ASSUME NEW r \in Requests, Handle(r)
      PROVE  TypeOK'
  <2>1. CASE Transmit(r)
    BY <2>1 DEF Transmit
  <2>2. CASE HandlerAnswers(r)
    BY <2>2 DEF HandlerAnswers, StatusesAfter
  <2>3. CASE HandlerPanics(r)
    BY <2>3 DEF HandlerPanics
  <2>4. QED
    BY <1>4, <2>1, <2>2, <2>3 DEF Handle
<1>5. ASSUME NEW r \in Requests, Record(r)
      PROVE  TypeOK'
  <2>1. Key(r) \in Keys
    BY <1>5 DEF Record, StepMode
  <2>2. row' \in [Keys -> RowType]
    <3>1. CASE Release(Key(r))
      BY <3>1, AbsentRow DEF Release
    <3>2. CASE Complete(Key(r), r)
      BY <2>1, <3>2 DEF Complete, RowType
    <3>3. CASE UNCHANGED row
      BY <3>3
    <3>4. QED
      BY <1>5, <3>1, <3>2 DEF Record
  <2>3. QED
    BY <1>5, <2>2 DEF Record
<1>6. ASSUME NEW k \in Keys, Expire(k)
      PROVE  TypeOK'
  BY <1>6 DEF Expire, RowType
<1>7. CASE Sweep
  BY <1>7, AbsentRow DEF Sweep
<1>8. CASE Crash
  BY <1>8 DEF Crash
<1>9. CASE UNCHANGED vars
  BY <1>9 DEF vars
<1>10. QED
  BY <1>1, <1>2, <1>3, <1>4, <1>5, <1>6, <1>7, <1>8, <1>9 DEF Next

\* IInv without the type invariant: what remains to be shown of a step.
Ties == /\ StepMode
        /\ OwnerHolds
        /\ RowHasOwner
        /\ ReachedKeepsRow
        /\ AnswerIsOwn
        /\ AtMostOnce
        /\ ReplayIsOriginal

LEMMA TiesInductive == IInv /\ [Next]_vars => Ties'
<1> SUFFICES ASSUME IInv, [Next]_vars
             PROVE  Ties'
  OBVIOUS
<1> USE DEF IInv
<1>0. TypeOK'
  BY TypeInductive
<1>1. ASSUME NEW r \in Requests, ArriveBare(r)
      PROVE  Ties'
  <2>1. StepMode'
    BY <1>1 DEF TypeOK, StepMode, ArriveBare
  <2>2. OwnerHolds'
    BY <1>1 DEF OwnerHolds, StepMode, Running, ArriveBare
  <2>3. RowHasOwner'
    BY <1>1 DEF TypeOK, RowHasOwner, StepMode, ArriveBare
  <2>4. ReachedKeepsRow'
    BY <1>1 DEF ReachedKeepsRow, FreedAfterReach, ArriveBare
  <2>5. AnswerIsOwn'
    BY <1>1 DEF AnswerIsOwn, ArriveBare
  <2>6. AtMostOnce'
    BY <1>1 DEF AtMostOnce, SameClaim, FreedAfterReach, ArriveBare
  <2>7. ReplayIsOriginal'
    BY <1>1 DEF ReplayIsOriginal, ArriveBare
  <2>8. QED
    BY <2>1, <2>2, <2>3, <2>4, <2>5, <2>6, <2>7 DEF Ties
<1>2. ASSUME NEW r \in Requests, Reject(r)
      PROVE  Ties'
  <2>1. StepMode'
    BY <1>2 DEF TypeOK, StepMode, Reject
  <2>2. OwnerHolds'
    BY <1>2 DEF OwnerHolds, Running, Reject
  <2>3. RowHasOwner'
    BY <1>2 DEF TypeOK, RowHasOwner, StepMode, Reject
  <2>4. ReachedKeepsRow'
    BY <1>2 DEF ReachedKeepsRow, FreedAfterReach, Reject
  <2>5. AnswerIsOwn'
    BY <1>2 DEF AnswerIsOwn, Reject
  <2>6. AtMostOnce'
    BY <1>2 DEF AtMostOnce, SameClaim, FreedAfterReach, Reject
  <2>7. ReplayIsOriginal'
    BY <1>2 DEF ReplayIsOriginal, StepMode, Reject
  <2>8. QED
    BY <2>1, <2>2, <2>3, <2>4, <2>5, <2>6, <2>7 DEF Ties
<1>3. ASSUME NEW r \in Requests, NEW k \in Keys, NEW h \in Hashes, Arrive(r, k, h)
      PROVE  Ties'
  <2>1. StepMode'
    BY <1>3 DEF TypeOK, StepMode, Arrive
  <2>2. OwnerHolds'
    BY <1>3 DEF OwnerHolds, Running, Arrive
  <2>3. RowHasOwner'
    BY <1>3 DEF TypeOK, RowHasOwner, StepMode, Arrive
  <2>4. ReachedKeepsRow'
    BY <1>3 DEF ReachedKeepsRow, StepMode, FreedAfterReach, Arrive
  <2>5. AnswerIsOwn'
    BY <1>3 DEF AnswerIsOwn, Arrive
  <2>6. AtMostOnce'
    BY <1>3 DEF AtMostOnce, StepMode, SameClaim, FreedAfterReach, Arrive
  <2>7. ReplayIsOriginal'
    BY <1>3 DEF ReplayIsOriginal, StepMode, Arrive
  <2>8. QED
    BY <2>1, <2>2, <2>3, <2>4, <2>5, <2>6, <2>7 DEF Ties
<1>4. ASSUME NEW r \in Requests, DeleteIfExpired(r)
      PROVE  Ties'
  <2>1. StepMode'
    BY <1>4 DEF StepMode, DeleteIfExpired
  <2>2. OwnerHolds'
    <3>1. CASE row[Key(r)].expired
      <4>1. /\ Key(r) \in Keys /\ mode[r] = "none"
            /\ pc' = [pc EXCEPT ![r] = "insert"]
            /\ UNCHANGED <<req, mode>>
            /\ \A j \in Keys : j # Key(r) => row'[j] = row[j]
        BY <1>4 DEF DeleteIfExpired, StepMode, TypeOK
      <4>2. ASSUME NEW q \in Requests, mode[q] = "owner", Running(q)
            PROVE  Key(q) # Key(r)
        BY <3>1, <4>2 DEF OwnerHolds
      <4>3. QED
        BY <4>1, <4>2 DEF OwnerHolds, Running, StepMode
    <3>2. CASE ~row[Key(r)].expired
      BY <1>4, <3>2 DEF OwnerHolds, Running, DeleteIfExpired
    <3>3. QED
      BY <3>1, <3>2
  <2>3. RowHasOwner'
    BY <1>4 DEF TypeOK, RowHasOwner, StepMode, OwnerHolds, AnswerIsOwn, DeleteIfExpired
  <2>4. ReachedKeepsRow'
    BY <1>4 DEF TypeOK, ReachedKeepsRow, StepMode, OwnerHolds, FreedAfterReach, DeleteIfExpired
  <2>5. AnswerIsOwn'
    BY <1>4 DEF AnswerIsOwn, DeleteIfExpired
  <2>6. AtMostOnce'
    BY <1>4 DEF AtMostOnce, SameClaim, FreedAfterReach, DeleteIfExpired
  <2>7. ReplayIsOriginal'
    BY <1>4 DEF TypeOK, ReplayIsOriginal, DeleteIfExpired
  <2>8. QED
    BY <2>1, <2>2, <2>3, <2>4, <2>5, <2>6, <2>7 DEF Ties
<1>5. ASSUME NEW r \in Requests, Insert(r)
      PROVE  Ties'
  <2>1. StepMode'
    <3>1. CASE row[Key(r)] = Absent
      BY <1>5 DEF TypeOK, StepMode, Insert, NoAnswer
    <3>2. CASE row[Key(r)] # Absent
      BY <1>5, <3>2 DEF TypeOK, StepMode, Insert
    <3>3. QED
      BY <3>1, <3>2
  <2>2. OwnerHolds'
    <3>1. CASE row[Key(r)] = Absent
      <4>1. /\ Key(r) \in Keys
            /\ mode' = [mode EXCEPT ![r] = "owner"]
            /\ pc' = [pc EXCEPT ![r] = "handler"]
            /\ req' = req
            /\ \A j \in Keys : j # Key(r) => row'[j] = row[j]
            /\ row'[Key(r)].by = r
            /\ row'[Key(r)].status = "started"
            /\ ~row'[Key(r)].expired
        BY <1>5, <3>1 DEF Insert, StepMode, TypeOK
      <4>2. ASSUME NEW q \in Requests, q # r, mode[q] = "owner", Running(q)
            PROVE  Key(q) # Key(r)
        BY <3>1, <4>2, AbsentRow DEF OwnerHolds
      <4>3. QED
        BY <4>1, <4>2 DEF OwnerHolds, Running, StepMode
    <3>2. CASE row[Key(r)] # Absent
      BY <1>5, <3>2 DEF TypeOK, OwnerHolds, Running, Insert
    <3>3. QED
      BY <3>1, <3>2
  <2>3. RowHasOwner'
    BY <1>5 DEF TypeOK, RowHasOwner, StepMode, OwnerHolds, AnswerIsOwn, Running, Insert
  <2>4. ReachedKeepsRow'
    <3>1. CASE row[Key(r)] = Absent
      <4>1. /\ Key(r) \in Keys /\ ~reached[r]
            /\ lifeOf' = [lifeOf EXCEPT ![r] = life[Key(r)]]
            /\ mode' = [mode EXCEPT ![r] = "owner"]
            /\ pc' = [pc EXCEPT ![r] = "handler"]
            /\ UNCHANGED <<req, answer, reached, life>>
            /\ \A j \in Keys : j # Key(r) => row'[j] = row[j]
        BY <1>5, <3>1 DEF Insert, StepMode, TypeOK
      <4>2. ASSUME NEW q \in Requests, q # r, mode[q] = "owner", lifeOf[q] = life[Key(q)],
                   reached[q], ~FreedAfterReach(q)
            PROVE  Key(q) # Key(r)
        BY <3>1, <4>2, AbsentRow, ConstantsAssumption DEF ReachedKeepsRow
      <4>3. life[Key(r)] <= life[Key(r)]
        BY <4>1 DEF TypeOK
      <4>4. QED
        BY <4>1, <4>2 DEF ReachedKeepsRow, FreedAfterReach, TypeOK, StepMode
    <3>2. CASE row[Key(r)] # Absent
      BY <1>5, <3>2 DEF TypeOK, ReachedKeepsRow, FreedAfterReach, Insert
    <3>3. QED
      BY <3>1, <3>2
  <2>5. AnswerIsOwn'
    <3>1. CASE row[Key(r)] = Absent
      BY <1>5 DEF TypeOK, AnswerIsOwn, StepMode, Insert, NoAnswer
    <3>2. CASE row[Key(r)] # Absent
      BY <1>5, <3>2 DEF AnswerIsOwn, StepMode, FreesKey, Insert, HandlerStatus
    <3>3. QED
      BY <3>1, <3>2
  <2>6. AtMostOnce'
    BY <1>5 DEF TypeOK, AtMostOnce, StepMode, SameClaim, FreedAfterReach, Insert
  <2>7. ReplayIsOriginal'
    <3>1. CASE row[Key(r)] = Absent
      BY <1>5 DEF TypeOK, ReplayIsOriginal, Insert
    <3>2. CASE row[Key(r)] # Absent
      BY <1>5 DEF TypeOK, ReplayIsOriginal, Insert
    <3>3. QED
      BY <3>1, <3>2
  <2>8. QED
    BY <2>1, <2>2, <2>3, <2>4, <2>5, <2>6, <2>7 DEF Ties
<1>6. ASSUME NEW r \in Requests, Select(r)
      PROVE  Ties'
  <2>1. StepMode'
    BY <1>6 DEF TypeOK, StepMode, Select, Unprotect
  <2>2. OwnerHolds'
    BY <1>0, <1>6 DEF TypeOK, OwnerHolds, Running, Select, Unprotect
  <2>3. RowHasOwner'
    BY <1>6 DEF TypeOK, RowHasOwner, StepMode, Select, Unprotect
  <2>4. ReachedKeepsRow'
    <3>1. /\ mode'[r] # "owner"
          /\ \A q \in Requests : q # r => mode'[q] = mode[q] /\ pc'[q] = pc[q] /\ answer'[q] = answer[q]
          /\ UNCHANGED <<req, reached, row, life, lifeOf>>
      BY <1>6 DEF TypeOK, Select, Unprotect
    <3>2. QED
      BY <3>1 DEF ReachedKeepsRow, FreedAfterReach
  <2>5. AnswerIsOwn'
    BY <1>6 DEF TypeOK, AnswerIsOwn, Select, Unprotect
  <2>6. AtMostOnce'
    <3>1. CASE row[Key(r)] = Absent
      BY <1>6, <3>1, AbsentRow DEF TypeOK, AtMostOnce, StepMode, SameClaim, FreedAfterReach,
         Select, Unprotect
    <3>2. CASE row[Key(r)].status = "started" /\ row[Key(r)] # Absent
      <4>1. /\ mode' = [mode EXCEPT ![r] = "busy"]
            /\ UNCHANGED <<req, reached, row, life, lifeOf>>
            /\ mode[r] = "none"
            /\ \A q \in Requests : q # r => pc'[q] = pc[q] /\ answer'[q] = answer[q]
        BY <1>6, <3>2 DEF Select, StepMode, TypeOK
      <4>2. \A q \in Requests : mode'[q] = "owner" => mode[q] = "owner" /\ q # r
        BY <4>1
      <4>3. QED
        BY <4>1 DEF AtMostOnce, SameClaim, FreedAfterReach
    <3>3. CASE row[Key(r)].status = "completed" /\ row[Key(r)] # Absent
      BY <1>0, <1>6, <3>3, AbsentRow DEF TypeOK, AtMostOnce, StepMode, ReachedKeepsRow, SameClaim,
         FreedAfterReach, Select, HandlerStatus, NoAnswer
    <3>4. QED
      BY <3>1, <3>2, <3>3, <1>6 DEF Select
  <2>7. ReplayIsOriginal'
    <3>1. CASE row[Key(r)] = Absent
      BY <1>6, <3>1, AbsentRow DEF TypeOK, ReplayIsOriginal, Select, Unprotect
    <3>2. CASE row[Key(r)].status = "started" /\ row[Key(r)] # Absent
      BY <1>0, <1>6, <3>2, AbsentRow DEF TypeOK, ReplayIsOriginal, StepMode, Select, Unprotect,
         HandlerStatus, RowType
    <3>3. CASE row[Key(r)].status = "completed" /\ row[Key(r)] # Absent
      <4>1. /\ Key(r) \in Keys /\ mode[r] = "none"
            /\ pc' = [pc EXCEPT ![r] = "done"]
            /\ UNCHANGED <<req, reached, row, life, lifeOf>>
        BY <1>6, <3>3 DEF Select, StepMode
      <4>2. /\ row[Key(r)].by \in Requests \ {r}
            /\ mode[row[Key(r)].by] = "owner"
            /\ Key(row[Key(r)].by) = Key(r)
            /\ row[Key(r)].hash = req[row[Key(r)].by].hash
            /\ pc[row[Key(r)].by] = "done"
            /\ answer[row[Key(r)].by].of = row[Key(r)].by
            /\ answer[row[Key(r)].by].status \in {"2xx", "500"}
        BY <3>3, <4>1 DEF RowHasOwner
      <4>3. CASE row[Key(r)].hash # req[r].hash
        <5>1. /\ mode' = [mode EXCEPT ![r] = "mismatch"]
              /\ answer' = [answer EXCEPT ![r] = [status |-> "422", of |-> r]]
          BY <1>6, <3>3, <4>3 DEF Select
        <5>2. QED
          BY <4>1, <5>1 DEF ReplayIsOriginal
      <4>4. CASE row[Key(r)].hash = req[r].hash
        <5>1. /\ mode' = [mode EXCEPT ![r] = "replay"]
              /\ answer' = [answer EXCEPT ![r] = [status |-> answer[row[Key(r)].by].status,
                                                   of |-> row[Key(r)].by]]
          BY <1>6, <3>3, <4>4 DEF Select
        <5>2. req[row[Key(r)].by] = req[r]
          <6>1. req[row[Key(r)].by].hash = req[r].hash /\ req[row[Key(r)].by].key = req[r].key
            BY <4>2, <4>4
          <6>2. QED
            BY <4>2, <6>1, SameRequest DEF TypeOK
        <5>3. answer[row[Key(r)].by] = [status |-> answer[row[Key(r)].by].status,
                                        of |-> row[Key(r)].by]
          BY <4>2 DEF TypeOK
        <5>4. QED
          BY <4>1, <4>2, <5>1, <5>2, <5>3 DEF ReplayIsOriginal, TypeOK
      <4>5. QED
        BY <4>3, <4>4
    <3>4. QED
      BY <3>1, <3>2, <3>3, <1>6 DEF Select
  <2>8. QED
    BY <2>1, <2>2, <2>3, <2>4, <2>5, <2>6, <2>7 DEF Ties
<1>7. ASSUME NEW r \in Requests, StoreError(r)
      PROVE  Ties'
  <2>1. StepMode'
    BY <1>7 DEF TypeOK, StepMode, StoreError, Unprotect
  <2>2. OwnerHolds'
    BY <1>7 DEF OwnerHolds, StepMode, Running, StoreError, Unprotect
  <2>3. RowHasOwner'
    BY <1>7 DEF TypeOK, RowHasOwner, StepMode, StoreError, Unprotect
  <2>4. ReachedKeepsRow'
    BY <1>7 DEF ReachedKeepsRow, FreedAfterReach, StoreError, Unprotect
  <2>5. AnswerIsOwn'
    BY <1>7 DEF AnswerIsOwn, StoreError, Unprotect
  <2>6. AtMostOnce'
    BY <1>7 DEF AtMostOnce, SameClaim, FreedAfterReach, StoreError, Unprotect
  <2>7. ReplayIsOriginal'
    BY <1>7 DEF ReplayIsOriginal, StoreError, Unprotect
  <2>8. QED
    BY <2>1, <2>2, <2>3, <2>4, <2>5, <2>6, <2>7 DEF Ties
<1>8. ASSUME NEW r \in Requests, Transmit(r)
      PROVE  Ties'
  <2>1. StepMode'
    BY <1>8 DEF StepMode, Transmit, NoAnswer
  <2>2. OwnerHolds'
    BY <1>8 DEF OwnerHolds, Running, Transmit
  <2>3. RowHasOwner'
    BY <1>8 DEF TypeOK, RowHasOwner, Transmit
  <2>4. ReachedKeepsRow'
    BY <1>8 DEF ReachedKeepsRow, OwnerHolds, Running, FreedAfterReach, Transmit
  <2>5. AnswerIsOwn'
    BY <1>8 DEF AnswerIsOwn, Transmit
  <2>6. AtMostOnce'
    <3>1. /\ pc[r] = "handler" /\ ~reached[r]
          /\ reached' = [reached EXCEPT ![r] = TRUE]
          /\ UNCHANGED <<pc, req, mode, answer, row, life, lifeOf>>
      BY <1>8 DEF Transmit
    <3>2. ASSUME NEW q \in Requests, q # r, SameClaim(q, r), reached[q]
          PROVE  FreedAfterReach(q)
      <4>1. mode[r] = "owner" /\ row[Key(r)].by = r
        BY <3>1, <3>2 DEF SameClaim, OwnerHolds, Running
      <4>2. lifeOf[r] = life[Key(r)]
        BY <4>1, AbsentRow, ConstantsAssumption DEF RowHasOwner, StepMode
      <4>3. QED
        BY <3>2, <4>1, <4>2 DEF ReachedKeepsRow, SameClaim
    <3>3. \A p, q \in Requests : p # q /\ SameClaim(p, q) /\ reached[p] /\ reached'[q]
              => FreedAfterReach(p) \/ FreedAfterReach(q)
      BY <3>1, <3>2 DEF AtMostOnce
    <3>4. \A p, q \in Requests : p # q /\ SameClaim(p, q) /\ reached'[p] /\ reached'[q]
              => FreedAfterReach(p) \/ FreedAfterReach(q)
      BY <3>1, <3>3 DEF SameClaim
    <3>5. \A p, q \in Requests : /\ SameClaim(p, q)' <=> SameClaim(p, q)
                                 /\ FreedAfterReach(p)' <=> FreedAfterReach(p)
      BY <3>1 DEF SameClaim, FreedAfterReach
    <3>6. QED
      BY <3>4, <3>5 DEF AtMostOnce
  <2>7. ReplayIsOriginal'
    BY <1>8 DEF ReplayIsOriginal, Transmit
  <2>8. QED
    BY <2>1, <2>2, <2>3, <2>4, <2>5, <2>6, <2>7 DEF Ties
<1>9. ASSUME NEW r \in Requests, HandlerAnswers(r)
      PROVE  Ties'
  <2>1. StepMode'
    BY <1>9 DEF TypeOK, StepMode, HandlerAnswers, StatusesAfter, HandlerStatus
  <2>2. OwnerHolds'
    BY <1>9 DEF OwnerHolds, Running, HandlerAnswers
  <2>3. RowHasOwner'
    BY <1>9 DEF TypeOK, RowHasOwner, HandlerAnswers
  <2>4. ReachedKeepsRow'
    BY <1>9 DEF ReachedKeepsRow, FreedAfterReach, HandlerAnswers
  <2>5. AnswerIsOwn'
    BY <1>9 DEF AnswerIsOwn, StepMode, FreesKey, HandlerAnswers, StatusesAfter, HandlerStatus
  <2>6. AtMostOnce'
    <3>1. /\ pc[r] # "done"
          /\ \A q \in Requests : q # r => pc'[q] = pc[q] /\ answer'[q] = answer[q]
          /\ UNCHANGED <<req, mode, reached, lifeOf>>
      BY <1>9 DEF HandlerAnswers
    <3>2. \A p, q \in Requests : /\ SameClaim(p, q)' <=> SameClaim(p, q)
                                 /\ FreedAfterReach(p) => FreedAfterReach(p)'
      BY <3>1 DEF SameClaim, FreedAfterReach
    <3>3. QED
      BY <3>1, <3>2 DEF AtMostOnce
  <2>7. ReplayIsOriginal'
    BY <1>9 DEF ReplayIsOriginal, StepMode, HandlerAnswers
  <2>8. QED
    BY <2>1, <2>2, <2>3, <2>4, <2>5, <2>6, <2>7 DEF Ties
<1>10. ASSUME NEW r \in Requests, HandlerPanics(r)
      PROVE  Ties'
  <2>1. StepMode'
    BY <1>10 DEF StepMode, HandlerPanics
  <2>2. OwnerHolds'
    BY <1>10 DEF OwnerHolds, Running, HandlerPanics
  <2>3. RowHasOwner'
    BY <1>10 DEF TypeOK, RowHasOwner, HandlerPanics
  <2>4. ReachedKeepsRow'
    BY <1>10 DEF ReachedKeepsRow, FreedAfterReach, HandlerPanics
  <2>5. AnswerIsOwn'
    BY <1>10 DEF AnswerIsOwn, StepMode, FreesKey, HandlerPanics, NoAnswer
  <2>6. AtMostOnce'
    BY <1>10 DEF AtMostOnce, SameClaim, FreedAfterReach, HandlerPanics
  <2>7. ReplayIsOriginal'
    BY <1>10 DEF ReplayIsOriginal, HandlerPanics
  <2>8. QED
    BY <2>1, <2>2, <2>3, <2>4, <2>5, <2>6, <2>7 DEF Ties
<1>11. ASSUME NEW r \in Requests, Record(r)
      PROVE  Ties'
  <2>1. StepMode'
    BY <1>11 DEF StepMode, Record
  <2>2. OwnerHolds'
    BY <1>11 DEF TypeOK, OwnerHolds, StepMode, RowHasOwner, Running, Record, Release, Complete
  <2>3. RowHasOwner'
    <3>1. CASE FreesKey(answer[r].status) /\ Release(Key(r))
      <4>1. /\ Key(r) \in Keys
            /\ row' = [row EXCEPT ![Key(r)] = Absent]
            /\ pc' = [pc EXCEPT ![r] = "done"]
            /\ UNCHANGED <<req, mode, answer, reached, life, lifeOf>>
        BY <1>11, <3>1 DEF Record, Release, StepMode
      <4>2. \A q \in Requests : pc[q] = "done" => pc'[q] = "done"
        BY <4>1
      <4>3. \A j \in Keys : row'[j] = IF j = Key(r) THEN Absent ELSE row[j]
        BY <4>1 DEF TypeOK
      <4>4. QED
        BY <4>1 DEF RowHasOwner
    <3>2. CASE ~FreesKey(answer[r].status) /\ Complete(Key(r), r)
      <4>1. /\ Key(r) \in Keys /\ mode[r] = "owner" /\ pc[r] = "record"
            /\ pc' = [pc EXCEPT ![r] = "done"]
            /\ UNCHANGED <<req, mode, answer, reached, life, lifeOf>>
        BY <1>11 DEF Record, StepMode
      <4>2. row[Key(r)].by = r /\ row[Key(r)].status = "started" /\ row[Key(r)] # Absent
        BY <4>1, AbsentRow DEF OwnerHolds, Running
      <4>3. /\ \A j \in Keys : j # Key(r) => row'[j] = row[j]
            /\ row'[Key(r)].status = "completed"
            /\ row'[Key(r)].by = r
            /\ row'[Key(r)].hash = row[Key(r)].hash
        BY <3>2, <4>1, <4>2 DEF Complete, TypeOK
      <4>4. answer[r].status \in {"2xx", "500"} /\ answer[r].of = r /\ pc'[r] = "done"
        BY <3>2, <4>1 DEF AnswerIsOwn, TypeOK
      <4>5. \A q \in Requests : pc[q] = "done" => pc'[q] = "done"
        BY <4>1
      <4>6. QED
        BY <4>1, <4>2, <4>3, <4>4 DEF RowHasOwner
    <3>3. CASE UNCHANGED row
      BY <1>11, <3>3 DEF TypeOK, RowHasOwner, Record
    <3>4. QED
      BY <3>1, <3>2, <3>3, <1>11 DEF Record
  <2>4. ReachedKeepsRow'
    <3>1. CASE FreesKey(answer[r].status) /\ Release(Key(r))
      <4>1. /\ Key(r) \in Keys /\ mode[r] = "owner" /\ pc[r] = "record"
            /\ row' = [row EXCEPT ![Key(r)] = Absent]
            /\ pc' = [pc EXCEPT ![r] = "done"]
            /\ UNCHANGED <<req, mode, answer, reached, life, lifeOf>>
        BY <1>11, <3>1 DEF Record, Release, StepMode
      <4>2. reached[r] => FreedAfterReach(r)'
        BY <3>1, <4>1 DEF FreesKey, FreedAfterReach, StepMode, TypeOK
      <4>3. row[Key(r)].by = r
        BY <4>1 DEF OwnerHolds, Running
      <4>4. ASSUME NEW q \in Requests, q # r, mode[q] = "owner", lifeOf[q] = life[Key(q)],
                   reached[q], ~FreedAfterReach(q)'
            PROVE  row'[Key(q)].by = q
        <5>1. row[Key(q)].by = q
          BY <4>1, <4>4 DEF ReachedKeepsRow, FreedAfterReach
        <5>2. Key(q) # Key(r)
          BY <4>3, <4>4, <5>1
        <5>3. QED
          BY <4>1, <5>1, <5>2
      <4>5. QED
        BY <4>1, <4>2, <4>4 DEF ReachedKeepsRow
    <3>2. CASE ~FreesKey(answer[r].status) /\ Complete(Key(r), r)
      BY <1>11, <3>2 DEF TypeOK, ReachedKeepsRow, StepMode, FreedAfterReach, Record, Complete,
         RowType
    <3>3. CASE UNCHANGED row
      BY <1>11, <3>3 DEF ReachedKeepsRow, FreedAfterReach, Record
    <3>4. QED
      BY <3>1, <3>2, <3>3, <1>11 DEF Record
  <2>5. AnswerIsOwn'
    BY <1>11 DEF AnswerIsOwn, Record
  <2>6. AtMostOnce'
    BY <1>11 DEF AtMostOnce, SameClaim, FreedAfterReach, Record
  <2>7. ReplayIsOriginal'
    BY <1>11 DEF TypeOK, ReplayIsOriginal, Record
  <2>8. QED
    BY <2>1, <2>2, <2>3, <2>4, <2>5, <2>6, <2>7 DEF Ties
<1>12. ASSUME NEW k \in Keys, Expire(k)
      PROVE  Ties'
  <2>1. StepMode'
    BY <1>12 DEF StepMode, Expire
  <2>2. OwnerHolds'
    BY <1>12 DEF OwnerHolds, Running, Expire
  <2>3. RowHasOwner'
    <3>1. /\ UNCHANGED <<pc, req, mode, answer, life, lifeOf>>
          /\ row[k] # Absent
          /\ \A j \in Keys : j # k => row'[j] = row[j]
          /\ row'[k] = [row[k] EXCEPT !.expired = TRUE]
      BY <1>12 DEF Expire, TypeOK
    <3>2. /\ row'[k].status = row[k].status
          /\ row'[k].hash = row[k].hash
          /\ row'[k].by = row[k].by
      BY <3>1
    <3>3. row'[k] # Absent /\ row[k] # Absent
      BY <3>1, AbsentRow DEF RowType
    <3>4. ASSUME NEW j \in Keys
          PROVE  /\ row'[j] = Absent <=> row[j] = Absent
                 /\ row'[j].status = row[j].status
                 /\ row'[j].hash = row[j].hash
                 /\ row'[j].by = row[j].by
      BY <3>1, <3>2, <3>3
    <3>5. QED
      BY <3>1, <3>4 DEF RowHasOwner
  <2>4. ReachedKeepsRow'
    BY <1>12 DEF ReachedKeepsRow, FreedAfterReach, Expire
  <2>5. AnswerIsOwn'
    BY <1>12 DEF AnswerIsOwn, Expire
  <2>6. AtMostOnce'
    BY <1>12 DEF AtMostOnce, SameClaim, FreedAfterReach, Expire
  <2>7. ReplayIsOriginal'
    BY <1>12 DEF ReplayIsOriginal, Expire
  <2>8. QED
    BY <2>1, <2>2, <2>3, <2>4, <2>5, <2>6, <2>7 DEF Ties
<1>13. CASE Sweep
  <2>1. StepMode'
    BY <1>13 DEF StepMode, Sweep
  <2>2. OwnerHolds'
    BY <1>13 DEF OwnerHolds, StepMode, Running, Sweep
  <2>3. RowHasOwner'
    <3>1. \A k \in Keys : row'[k] = Absent \/ (row'[k] = row[k] /\ life'[k] = life[k])
      BY <1>13 DEF TypeOK, Sweep
    <3>2. UNCHANGED <<pc, req, mode, answer, lifeOf>>
      BY <1>13 DEF Sweep
    <3>3. QED
      BY <3>1, <3>2 DEF RowHasOwner
  <2>4. ReachedKeepsRow'
    BY <1>13 DEF TypeOK, ReachedKeepsRow, StepMode, FreedAfterReach, Sweep
  <2>5. AnswerIsOwn'
    BY <1>13 DEF AnswerIsOwn, Sweep
  <2>6. AtMostOnce'
    BY <1>13 DEF AtMostOnce, SameClaim, FreedAfterReach, Sweep
  <2>7. ReplayIsOriginal'
    BY <1>13 DEF ReplayIsOriginal, Sweep
  <2>8. QED
    BY <2>1, <2>2, <2>3, <2>4, <2>5, <2>6, <2>7 DEF Ties
<1>14. CASE Crash
  <2>1. StepMode'
    BY <1>14 DEF StepMode, Crash
  <2>2. OwnerHolds'
    BY <1>14 DEF OwnerHolds, Running, Crash
  <2>3. RowHasOwner'
    BY <1>14 DEF RowHasOwner, StepMode, Crash
  <2>4. ReachedKeepsRow'
    BY <1>14 DEF ReachedKeepsRow, FreedAfterReach, Crash
  <2>5. AnswerIsOwn'
    BY <1>14 DEF AnswerIsOwn, Crash
  <2>6. AtMostOnce'
    BY <1>14 DEF AtMostOnce, SameClaim, FreedAfterReach, Crash
  <2>7. ReplayIsOriginal'
    BY <1>14 DEF ReplayIsOriginal, Crash
  <2>8. QED
    BY <2>1, <2>2, <2>3, <2>4, <2>5, <2>6, <2>7 DEF Ties
<1>15. CASE UNCHANGED vars
  <2>1. StepMode'
    BY <1>15 DEF StepMode, vars
  <2>2. OwnerHolds'
    BY <1>15 DEF OwnerHolds, Running, vars
  <2>3. RowHasOwner'
    BY <1>15 DEF RowHasOwner, StepMode, vars
  <2>4. ReachedKeepsRow'
    BY <1>15 DEF ReachedKeepsRow, FreedAfterReach, vars
  <2>5. AnswerIsOwn'
    BY <1>15 DEF AnswerIsOwn, vars
  <2>6. AtMostOnce'
    BY <1>15 DEF AtMostOnce, SameClaim, FreedAfterReach, vars
  <2>7. ReplayIsOriginal'
    BY <1>15 DEF ReplayIsOriginal, vars
  <2>8. QED
    BY <2>1, <2>2, <2>3, <2>4, <2>5, <2>6, <2>7 DEF Ties
<1>16. QED
  BY <1>1, <1>2, <1>3, <1>4, <1>5, <1>6, <1>7, <1>8, <1>9, <1>10, <1>11, <1>12, <1>13, <1>14,
     <1>15 DEF Next, Acquire, Handle

\* IInv is an invariant: it holds initially and every step keeps it.
THEOREM Invariance == Spec => []IInv
<1>1. Init => IInv
  <2> SUFFICES ASSUME Init
               PROVE  IInv
    OBVIOUS
  <2>1. TypeOK
    BY AbsentRow DEF Init, TypeOK, Steps, Modes, NoAnswer, Answers
  <2>2. StepMode /\ OwnerHolds /\ ReachedKeepsRow /\ AnswerIsOwn
    BY DEF Init, StepMode, OwnerHolds, ReachedKeepsRow, AnswerIsOwn
  <2>3. RowHasOwner
    BY DEF Init, RowHasOwner
  <2>4. AtMostOnce /\ ReplayIsOriginal
    BY DEF Init, AtMostOnce, ReplayIsOriginal
  <2>5. QED
    BY <2>1, <2>2, <2>3, <2>4 DEF IInv
<1>2. IInv /\ [Next]_vars => IInv'
  BY TypeInductive, TiesInductive DEF IInv, Ties
<1>3. QED
  BY <1>1, <1>2, PTL DEF Spec

\* Every variable keeps its type in every behaviour of the guard.
THEOREM TypeCorrect == Spec => []TypeOK
<1>1. IInv => TypeOK
  BY DEF IInv
<1>2. QED
  BY <1>1, Invariance, PTL

\* Concurrent requests with one key never run their handlers at the same time
\* under it, although TryAcquire is three statements and Release and Complete
\* name no owner.
THEOREM OwnersExclude == Spec => []OneOwner
<1>1. IInv => OneOwner
  BY DEF IInv, OneOwner, OwnerHolds, SameClaim
<1>2. QED
  BY <1>1, Invariance, PTL

\* Within a key's life at most one guarded request hands its message over and
\* keeps the key, for any interleaving, crash and store error.
THEOREM GuardedOnce == Spec => []AtMostOnce
<1>1. IInv => AtMostOnce
  BY DEF IInv
<1>2. QED
  BY <1>1, Invariance, PTL

\* What a replay answers is what the request that sent the message answered.
THEOREM ReplayFaithful == Spec => []ReplayIsOriginal
<1>1. IInv => ReplayIsOriginal
  BY DEF IInv
<1>2. QED
  BY <1>1, Invariance, PTL
-----------------------------------------------------------------------------
\* What the refinement needs of a state: claimed is a function on Keys whose
\* free keys are the absent rows.
LEMMA ClaimedOf ==
    ASSUME IInv, NEW k \in Keys
    PROVE  /\ claimed[k] = [phase |-> PhaseOf(row[k].status), by |-> row[k].by]
           /\ row[k] = Absent => claimed[k] = Claim!Free
           /\ row[k] # Absent => row[k].status \in {"started", "completed"}
BY AbsentRow DEF claimed, Claim!Free, PhaseOf, IInv, RowHasOwner

\* Every step of the guard is a step of the abstract claim or leaves it alone.
LEMMA StepRefines == IInv /\ IInv' /\ [Next]_vars => [Claim!Next]_(Claim!vars)
<1> SUFFICES ASSUME IInv, IInv', [Next]_vars
             PROVE  [Claim!Next]_(Claim!vars)
  OBVIOUS
<1> USE DEF IInv
<1> claimed = [k \in Keys |-> claimed[k]] /\ claimed' = [k \in Keys |-> claimed'[k]]
  BY DEF claimed
<1>0. ASSUME UNCHANGED <<row, mode>>
      PROVE  [Claim!Next]_(Claim!vars)
  BY <1>0 DEF claimed, Claim!vars
<1>1. ASSUME NEW r \in Requests, ArriveBare(r) \/ Reject(r) \/ StoreError(r)
      PROVE  Claim!Bypass(r)
  <2>1. /\ mode[r] = "none"
        /\ row' = row
        /\ \E v \in {"unprotected", "rejected"} : mode' = [mode EXCEPT ![r] = v]
    BY <1>1 DEF ArriveBare, Reject, StoreError, Unprotect, StepMode
  <2>2. QED
    BY <2>1 DEF Claim!Bypass, claimed
<1>2. ASSUME NEW r \in Requests, DeleteIfExpired(r)
      PROVE  [Claim!Next]_(Claim!vars)
  <2>1. Key(r) \in Keys /\ mode' = mode
    BY <1>2 DEF DeleteIfExpired, StepMode
  <2>2. CASE row[Key(r)].expired
    <3>1. row' = [row EXCEPT ![Key(r)] = Absent]
      BY <1>2, <2>2 DEF DeleteIfExpired
    <3>2. \A k \in Keys : claimed'[k] = IF k \in {Key(r)} THEN Claim!Free ELSE claimed[k]
      BY <3>1, AbsentRow DEF claimed, Claim!Free, PhaseOf, TypeOK
    <3>3. Claim!Lapse({Key(r)})
      BY <2>1, <3>2 DEF Claim!Lapse
    <3>4. QED
      BY <2>1, <3>3 DEF Claim!Next
  <2>3. CASE ~row[Key(r)].expired
    BY <1>0, <1>2, <2>3 DEF DeleteIfExpired
  <2>4. QED
    BY <2>2, <2>3
<1>3. ASSUME NEW r \in Requests, Insert(r)
      PROVE  [Claim!Next]_(Claim!vars)
  <2>1. Key(r) \in Keys /\ mode[r] = "none"
    BY <1>3 DEF Insert, StepMode
  <2>2. CASE row[Key(r)] = Absent
    <3>1. /\ mode' = [mode EXCEPT ![r] = "owner"]
          /\ \A k \in Keys : k # Key(r) => row'[k] = row[k]
          /\ row'[Key(r)].status = "started" /\ row'[Key(r)].by = r
      BY <1>3, <2>1, <2>2 DEF Insert, TypeOK
    <3>2. claimed[Key(r)] = Claim!Free
      BY <2>1, <2>2, ClaimedOf
    <3>3. claimed' = [claimed EXCEPT ![Key(r)] = [phase |-> "held", by |-> r]]
      BY <3>1 DEF claimed, PhaseOf
    <3>4. Claim!Grant(r, Key(r))
      BY <2>1, <3>1, <3>2, <3>3 DEF Claim!Grant
    <3>5. QED
      BY <2>1, <3>4 DEF Claim!Next
  <2>3. CASE row[Key(r)] # Absent
    BY <1>0, <1>3, <2>3 DEF Insert
  <2>4. QED
    BY <2>2, <2>3
<1>4. ASSUME NEW r \in Requests, Select(r)
      PROVE  [Claim!Next]_(Claim!vars)
  <2>1. Key(r) \in Keys /\ mode[r] = "none"
    BY <1>4 DEF Select, StepMode
  <2>2. row' = row /\ claimed' = claimed
    BY <1>4 DEF Select, Unprotect, claimed
  <2>3. CASE mode' = [mode EXCEPT ![r] = "unprotected"]
    <3>1. Claim!Bypass(r)
      BY <2>1, <2>2, <2>3 DEF Claim!Bypass
    <3>2. QED
      BY <3>1 DEF Claim!Next
  <2>4. CASE row[Key(r)].status = "started" /\ mode' = [mode EXCEPT ![r] = "busy"]
    <3>1. claimed[Key(r)].phase = "held"
      BY <2>1, <2>4, ClaimedOf DEF PhaseOf
    <3>2. Claim!Refer(r, Key(r))
      BY <2>1, <2>2, <2>4, <3>1 DEF Claim!Refer
    <3>3. QED
      BY <2>1, <3>2 DEF Claim!Next
  <2>5. CASE /\ row[Key(r)].status = "completed"
             /\ \E v \in {"replay", "mismatch"} : mode' = [mode EXCEPT ![r] = v]
    <3>1. claimed[Key(r)].phase = "settled"
      BY <2>1, <2>5, ClaimedOf DEF PhaseOf
    <3>2. Claim!Refer(r, Key(r))
      BY <2>1, <2>2, <2>5, <3>1 DEF Claim!Refer
    <3>3. QED
      BY <2>1, <3>2 DEF Claim!Next
  <2>6. QED
    BY <1>4, <2>3, <2>4, <2>5 DEF Select, Unprotect
<1>5. ASSUME NEW r \in Requests, Record(r)
      PROVE  [Claim!Next]_(Claim!vars)
  <2>1. /\ Key(r) \in Keys /\ mode[r] = "owner" /\ pc[r] = "record" /\ mode' = mode
        /\ row[Key(r)].by = r /\ row[Key(r)].status = "started"
    BY <1>5 DEF Record, StepMode, OwnerHolds, Running
  <2>2. claimed[Key(r)] = [phase |-> "held", by |-> r]
    BY <2>1, ClaimedOf DEF PhaseOf
  <2>3. CASE Release(Key(r))
    <3>1. claimed' = [claimed EXCEPT ![Key(r)] = Claim!Free]
      BY <2>3, AbsentRow DEF Release, claimed, PhaseOf, Claim!Free, TypeOK
    <3>2. Claim!Surrender(r, Key(r))
      BY <2>1, <2>2, <3>1 DEF Claim!Surrender
    <3>3. QED
      BY <2>1, <3>2 DEF Claim!Next
  <2>4. CASE Complete(Key(r), r)
    <3>1. /\ \A k \in Keys : k # Key(r) => row'[k] = row[k]
          /\ row'[Key(r)].status = "completed" /\ row'[Key(r)].by = r
      BY <2>1, <2>4, AbsentRow DEF Complete, TypeOK
    <3>2. claimed' = [claimed EXCEPT ![Key(r)] = [phase |-> "settled", by |-> r]]
      BY <3>1 DEF claimed, PhaseOf
    <3>3. claimed' = [claimed EXCEPT ![Key(r)].phase = "settled"]
      BY <2>2, <3>2
    <3>4. Claim!Settle(r, Key(r))
      BY <2>1, <2>2, <3>3 DEF Claim!Settle
    <3>5. QED
      BY <2>1, <3>4 DEF Claim!Next
  <2>5. CASE UNCHANGED row
    BY <1>0, <2>1, <2>5
  <2>6. QED
    BY <1>5, <2>3, <2>4, <2>5 DEF Record
<1>6. ASSUME NEW k \in Keys, Expire(k)
      PROVE  [Claim!Next]_(Claim!vars)
  <2>1. \A j \in Keys : row'[j].status = row[j].status /\ row'[j].by = row[j].by
    BY <1>6 DEF Expire
  <2>2. claimed' = claimed /\ mode' = mode
    BY <1>6 DEF claimed, Expire
  <2>3. QED
    BY <2>2 DEF Claim!vars
<1>7. ASSUME Sweep
      PROVE  [Claim!Next]_(Claim!vars)
  <2>1. \A k \in Keys : claimed'[k] = IF k \in {j \in Keys : row[j].expired}
                                     THEN Claim!Free ELSE claimed[k]
    BY <1>7, AbsentRow DEF Sweep, claimed, Claim!Free, PhaseOf
  <2>2. Claim!Lapse({j \in Keys : row[j].expired})
    BY <1>7, <2>1 DEF Claim!Lapse, Sweep
  <2>3. QED
    BY <2>2 DEF Claim!Next
<1>8. ASSUME NEW r \in Requests, Handle(r)
      PROVE  [Claim!Next]_(Claim!vars)
  BY <1>0, <1>8 DEF Handle, Transmit, HandlerAnswers, HandlerPanics
<1>9. ASSUME NEW r \in Requests, NEW k \in Keys, NEW h \in Hashes, Arrive(r, k, h)
      PROVE  [Claim!Next]_(Claim!vars)
  BY <1>0, <1>9 DEF Arrive
<1>10. ASSUME Crash \/ UNCHANGED vars
       PROVE  [Claim!Next]_(Claim!vars)
  BY <1>0, <1>10 DEF Crash, vars
<1>11. ASSUME NEW r \in Requests, Claim!Bypass(r)
       PROVE  [Claim!Next]_(Claim!vars)
  BY <1>11 DEF Claim!Next
<1>12. QED
  BY <1>1, <1>2, <1>3, <1>4, <1>5, <1>6, <1>7, <1>8, <1>9, <1>10, <1>11 DEF Next, Acquire

\* The guard, with its three statements and its ownerless updates, implements
\* the abstract claim: only the request that was granted a key gives it up or
\* settles it, and otherwise only time frees it.
THEOREM Refinement == Spec => ImplementsClaim
<1>1. Init => Claim!Init
  BY DEF Init, Claim!Init, claimed, PhaseOf, Absent, Claim!Free
<1>2. QED
  BY <1>1, StepRefines, Invariance, PTL DEF Spec, ImplementsClaim, Claim!Spec
=============================================================================
