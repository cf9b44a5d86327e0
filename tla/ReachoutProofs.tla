--------------------------- MODULE ReachoutProofs ---------------------------
(***************************************************************************)
(* Proofs about Reachout, for any number of callers, instances and maps.   *)
(* The type invariant, which says that the map in the cache is not empty,  *)
(* is inductive.  The action properties follow from it and from what the   *)
(* three operations under the mutex have in common: each writes one map,   *)
(* the one its caller looked up, and makes no block fresh.                 *)
(***************************************************************************)
EXTENDS Reachout, TLAPS

Blocks == [Instances -> {Absent, "fresh", "expired"}]

\* What an operation of p may leave of the map c: it drops blocks, but a fresh one only if
\* it is a release, and then exactly that of its own instance.
Drops(p, c, d) ==
    /\ d \in Blocks
    /\ \A i \in Instances :
          /\ d[i] = c[i] \/ d[i] = Absent
          /\ c[i] = "fresh" => (d[i] = "fresh" <=> ~(op[p] = "release" /\ i = inst[p]))

\* An operation of p under the mutex: it drops blocks, or finds nothing to drop.
Operates(p) ==
    /\ op[p] # "none" /\ held[p] \in Maps
    /\ \/ \E d : Drops(p, content[held[p]], d) /\ Keep(held[p], d)
       \/ op[p] = "blocked" /\ UNCHANGED <<content, entry>>
    /\ Return(p)
    /\ UNCHANGED used
    /\ answer' \in [Callers -> BOOLEAN]

\* At the start nobody is barred and no caller is under way.
LEMMA InitType == Init => TypeOK
BY ConstantsAssumption DEF Init, TypeOK, Ops, Absent

LEMMA OperationsOperate ==
    ASSUME TypeOK, NEW p \in Callers, Blocked(p) \/ Release(p) \/ Cleanup(p)
    PROVE  Operates(p)
<1> DEFINE c == content[held[p]]
<1>1. /\ op[p] \in {"blocked", "release", "cleanup"} /\ held[p] \in Maps
      /\ op[p] \in {"blocked", "release"} => inst[p] \in Instances
  BY DEF TypeOK, Blocked, Release, Cleanup
<1>2. c \in Blocks
  BY <1>1 DEF TypeOK, Blocks
<1>3. CASE Blocked(p)
  <2>1. /\ op[p] = "blocked" /\ inst[p] \in Instances
        /\ Return(p) /\ UNCHANGED used /\ answer' \in [Callers -> BOOLEAN]
    BY <1>1, <1>3 DEF Blocked, TypeOK
  <2>2. CASE c[inst[p]] = "expired"
    <3> DEFINE d == [c EXCEPT ![inst[p]] = Absent]
    <3>1. Keep(held[p], d)
      BY <1>3, <2>2 DEF Blocked
    <3>2. Drops(p, c, d)
      BY <1>2, <2>1, <2>2 DEF Drops, Blocks, Absent
    <3> QED BY <1>1, <2>1, <3>1, <3>2 DEF Operates
  <2>3. CASE c[inst[p]] # "expired"
    <3>1. UNCHANGED <<content, entry>>
      BY <1>3, <2>3 DEF Blocked
    <3> QED BY <1>1, <2>1, <3>1 DEF Operates
  <2> QED BY <2>2, <2>3
<1>4. CASE Release(p)
  <2> DEFINE d == [c EXCEPT ![inst[p]] = Absent]
  <2>1. /\ op[p] = "release" /\ inst[p] \in Instances /\ Keep(held[p], d)
        /\ Return(p) /\ UNCHANGED <<used, answer>>
    BY <1>1, <1>4 DEF Release
  <2>2. Drops(p, c, d)
    BY <1>2, <2>1 DEF Drops, Blocks, Absent
  <2> QED BY <1>1, <2>1, <2>2 DEF Operates, TypeOK
<1>5. CASE Cleanup(p)
  <2> DEFINE d == [i \in Instances |-> IF c[i] = "fresh" THEN "fresh" ELSE Absent]
  <2>1. /\ op[p] = "cleanup" /\ Keep(held[p], d)
        /\ Return(p) /\ UNCHANGED <<used, answer>>
    BY <1>5 DEF Cleanup
  <2>2. Drops(p, c, d)
    BY <1>2, <2>1 DEF Drops, Blocks, Absent
  <2> QED BY <1>1, <2>1, <2>2 DEF Operates, TypeOK
<1> QED BY <1>3, <1>4, <1>5

\* A map that is emptied takes the contact's key with it, so the type invariant is kept.
LEMMA OperatesKeepsType ==
    ASSUME TypeOK, NEW p \in Callers, Operates(p)
    PROVE  TypeOK'
<1>1. /\ op' \in [Callers -> Ops] /\ inst' \in [Callers -> Instances \cup {NoInstance}]
      /\ held' \in [Callers -> Maps \cup {NoMap}] /\ used' \subseteq Maps
      /\ answer' \in [Callers -> BOOLEAN]
      /\ \A q \in Callers : /\ op'[q] = "none" <=> held'[q] = NoMap
                            /\ op'[q] \in {"blocked", "release"} => inst'[q] \in Instances
  BY DEF Operates, Return, TypeOK, Ops
<1>2. /\ entry' \in Maps \cup {NoMap}
      /\ content' \in [Maps -> Blocks]
      /\ entry' # NoMap => ~Empty(content'[entry'])
  <2>1. CASE UNCHANGED <<content, entry>>
    BY <2>1 DEF TypeOK, Blocks, Empty
  <2>2. ASSUME NEW d, Drops(p, content[held[p]], d), Keep(held[p], d)
        PROVE  <1>2
    <3>1. d \in Blocks /\ held[p] \in Maps
      BY <2>2 DEF Drops, Operates
    <3>2. content' = [content EXCEPT ![held[p]] = d] /\ entry' = IF Empty(d) THEN NoMap ELSE entry
      BY <2>2 DEF Keep
    <3>3. content \in [Maps -> Blocks] /\ entry \in Maps \cup {NoMap}
      BY DEF TypeOK, Blocks
    <3>4. content' \in [Maps -> Blocks] /\ entry' \in Maps \cup {NoMap}
      BY <3>1, <3>2, <3>3
    <3>5. ASSUME entry' # NoMap PROVE ~Empty(content'[entry'])
      <4>1. entry' = entry /\ ~Empty(d) /\ entry \in Maps /\ ~Empty(content[entry])
        BY <3>2, <3>3, <3>5 DEF TypeOK
      <4>2. content'[entry] = d \/ content'[entry] = content[entry]
        BY <3>1, <3>2, <3>3, <4>1
      <4> QED BY <4>1, <4>2
    <3> QED BY <3>4, <3>5
  <2> QED BY <2>1, <2>2 DEF Operates
<1> QED BY <1>1, <1>2 DEF TypeOK, Blocks

LEMMA NextKeepsType == TypeOK /\ [Next]_vars => TypeOK'
<1> SUFFICES ASSUME TypeOK, [Next]_vars PROVE TypeOK'
  OBVIOUS
<1>1. ASSUME NEW p \in Callers, NEW o \in Ops, NEW i \in Instances \cup {NoInstance}, Load(p, o, i)
      PROVE  TypeOK'
  <2>1. UNCHANGED <<entry, content, used>>
    BY <1>1 DEF Load
  <2>2. CASE entry = NoMap
    <3>1. answer' \in [Callers -> BOOLEAN] /\ UNCHANGED <<op, inst, held>>
      BY <1>1, <2>2 DEF Load, TypeOK
    <3> QED BY <2>1, <3>1 DEF TypeOK, Empty
  <2>3. CASE entry # NoMap
    <3>1. /\ op' = [op EXCEPT ![p] = o] /\ inst' = [inst EXCEPT ![p] = i]
          /\ held' = [held EXCEPT ![p] = entry] /\ UNCHANGED answer
          /\ o # "none" /\ (o # "cleanup" => i \in Instances)
      BY <1>1, <2>3 DEF Load
    <3>2. /\ op' \in [Callers -> Ops] /\ inst' \in [Callers -> Instances \cup {NoInstance}]
          /\ held' \in [Callers -> Maps \cup {NoMap}]
          /\ \A q \in Callers : /\ op'[q] = "none" <=> held'[q] = NoMap
                                /\ op'[q] \in {"blocked", "release"} => inst'[q] \in Instances
      BY <2>3, <3>1 DEF TypeOK
    <3> QED BY <2>1, <3>1, <3>2 DEF TypeOK, Empty
  <2> QED BY <2>2, <2>3
<1>2. ASSUME NEW p \in Callers, Blocked(p) \/ Release(p) \/ Cleanup(p) PROVE TypeOK'
  BY <1>2, OperationsOperate, OperatesKeepsType
<1>3. ASSUME NEW i \in Instances, Store(i) PROVE TypeOK'
  <2>1. PICK m \in Maps : /\ entry' = m /\ used' = used \cup {m}
                          /\ content' = [content EXCEPT ![m][i] = "fresh"]
    BY <1>3 DEF Store
  <2>2. content' \in [Maps -> [Instances -> {Absent, "fresh", "expired"}]] /\ content'[m][i] = "fresh"
    BY <2>1 DEF TypeOK
  <2>3. ~Empty(content'[entry'])
    BY <2>1, <2>2 DEF Empty, Absent
  <2> QED BY <1>3, <2>1, <2>2, <2>3 DEF Store, TypeOK
<1>4. ASSUME NEW m \in Maps, NEW i \in Instances, Expire(m, i) PROVE TypeOK'
  <2>1. /\ content' = [content EXCEPT ![m][i] = "expired"]
        /\ UNCHANGED <<entry, used, op, inst, held, answer>>
    BY <1>4 DEF Expire
  <2>2. /\ content' \in [Maps -> [Instances -> {Absent, "fresh", "expired"}]]
        /\ \A n \in Maps, j \in Instances : content[n][j] # Absent => content'[n][j] # Absent
    BY <2>1 DEF TypeOK, Absent
  <2>3. entry' # NoMap => ~Empty(content'[entry'])
    BY <2>1, <2>2 DEF TypeOK, Empty
  <2> QED BY <2>1, <2>2, <2>3 DEF TypeOK
<1>5. CASE UNCHANGED vars
  BY <1>5 DEF vars, TypeOK, Empty
<1> QED BY <1>1, <1>2, <1>3, <1>4, <1>5 DEF Next

\* Every variable of the cache keeps its type, and the map under the contact's key is never
\* empty, although callers work on maps they looked up before they took the mutex.
THEOREM TypeCorrect == Spec => []TypeOK
<1> QED BY InitType, NextKeepsType, PTL DEF Spec
-----------------------------------------------------------------------------
\* Only reachoutStore records a block, and it does so in the map it leaves in the cache.
LEMMA StepRecords ==
    ASSUME TypeOK, [Next]_vars, NEW m \in Maps, NEW i \in Instances,
           content[m][i] # "fresh", content'[m][i] = "fresh"
    PROVE  Barred(i)'
<1>1. ASSUME NEW j \in Instances, Store(j) PROVE Barred(i)'
  <2>1. PICK n \in Maps : entry' = n /\ content' = [content EXCEPT ![n][j] = "fresh"]
    BY <1>1 DEF Store
  <2>2. n = m
    BY <2>1 DEF TypeOK
  <2> QED BY <2>1, <2>2, ConstantsAssumption DEF Barred
<1>2. ASSUME NEW p \in Callers, Blocked(p) \/ Release(p) \/ Cleanup(p) PROVE FALSE
  <2>1. Operates(p)
    BY <1>2, OperationsOperate
  <2>2. PICK d : Drops(p, content[held[p]], d) /\ Keep(held[p], d)
    BY <2>1 DEF Operates
  <2>3. /\ content' = [content EXCEPT ![held[p]] = d] /\ held[p] \in Maps
        /\ d[i] = content[held[p]][i] \/ d[i] = Absent
    BY <2>1, <2>2 DEF Keep, Drops, Operates
  <2>4. content'[m][i] = content[m][i] \/ content'[m][i] = Absent
    BY <2>3 DEF TypeOK
  <2> QED BY <2>4 DEF Absent
<1>3. ASSUME NEW n \in Maps, NEW j \in Instances, Expire(n, j) PROVE FALSE
  BY <1>3 DEF Expire, TypeOK
<1>4. ASSUME UNCHANGED content PROVE FALSE
  BY <1>4
<1>5. \A p \in Callers, o \in Ops, j \in Instances \cup {NoInstance} : Load(p, o, j) => UNCHANGED content
  BY DEF Load
<1> QED BY <1>1, <1>2, <1>3, <1>4, <1>5 DEF Next, vars

\* A block is never recorded in a map that has left the cache (reachoutStore looks the map
\* up under the mutex; the others, who do not, record nothing).
THEOREM BlockIsRecorded == Spec => RecordedIsFound
<1>1. TypeOK /\ [Next]_vars
      => [\A m \in Maps, i \in Instances :
             content[m][i] # "fresh" /\ content'[m][i] = "fresh" => Barred(i)']_vars
  BY StepRecords
<1> QED BY <1>1, TypeCorrect, PTL DEF Spec, RecordedIsFound
-----------------------------------------------------------------------------
\* A step in which a caller returns is that caller's operation.
LEMMA ReturnIsOwn ==
    ASSUME TypeOK, [Next]_vars, NEW p \in Callers, op[p] # "none", op'[p] = "none"
    PROVE  Blocked(p) \/ Release(p) \/ Cleanup(p)
<1>1. ASSUME NEW q \in Callers, NEW o \in Ops, NEW i \in Instances \cup {NoInstance}, Load(q, o, i)
      PROVE  FALSE
  BY <1>1 DEF Load, TypeOK
<1>2. ASSUME NEW q \in Callers, Blocked(q) \/ Release(q) \/ Cleanup(q) PROVE q = p
  BY <1>2 DEF Blocked, Release, Cleanup, Return, TypeOK
<1>3. ASSUME UNCHANGED op PROVE FALSE
  BY <1>3
<1>4. /\ \A i \in Instances : Store(i) => UNCHANGED op
      /\ \A m \in Maps, i \in Instances : Expire(m, i) => UNCHANGED op
  BY DEF Store, Expire
<1> QED BY <1>1, <1>2, <1>3, <1>4 DEF Next, vars

LEMMA StepIsExact ==
    ASSUME TypeOK, [Next]_vars, NEW p \in Callers, NEW i \in Instances,
           op[p] # "none", op'[p] = "none", held[p] = entry
    PROVE  Barred(i)' <=> Barred(i) /\ ~(op[p] = "release" /\ i = inst[p])
<1>1. Operates(p)
  BY ReturnIsOwn, OperationsOperate
<1>2. entry \in Maps /\ entry # NoMap /\ content \in [Maps -> Blocks]
  BY <1>1, ConstantsAssumption DEF Operates, TypeOK, Blocks
<1>3. CASE op[p] = "blocked" /\ UNCHANGED <<content, entry>>
  BY <1>3 DEF Barred
<1>4. ASSUME NEW d, Drops(p, content[entry], d), Keep(entry, d)
      PROVE  Barred(i)' <=> Barred(i) /\ ~(op[p] = "release" /\ i = inst[p])
  <2>1. content' = [content EXCEPT ![entry] = d] /\ entry' = IF Empty(d) THEN NoMap ELSE entry
    BY <1>4 DEF Keep
  <2>2. content'[entry] = d
    BY <1>2, <2>1
  <2>3. d[i] = "fresh" => ~Empty(d)
    BY DEF Empty, Absent
  <2>4. Barred(i)' <=> d[i] = "fresh"
    BY <1>2, <2>1, <2>2, <2>3 DEF Barred
  <2>5. d[i] = "fresh" <=> content[entry][i] = "fresh" /\ ~(op[p] = "release" /\ i = inst[p])
    BY <1>4 DEF Drops, Absent
  <2> QED BY <1>2, <2>4, <2>5 DEF Barred
<1> QED BY <1>1, <1>3, <1>4 DEF Operates

\* A caller that still holds the contact's map does exactly what it is for (reachoutRelease,
\* reachoutBlocked and the cleanup, each under reachoutNegMu).
THEOREM HolderDoesOneThing == Spec => HolderIsExact
<1>1. TypeOK /\ [Next]_vars
      => [\A p \in Callers, i \in Instances :
             op[p] # "none" /\ op'[p] = "none" /\ held[p] = entry
                => (Barred(i)' <=> Barred(i) /\ ~(op[p] = "release" /\ i = inst[p]))]_vars
  BY StepIsExact
<1> QED BY <1>1, TypeCorrect, PTL DEF Spec, HolderIsExact
=============================================================================
