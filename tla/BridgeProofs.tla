---------------------------- MODULE BridgeProofs ----------------------------
(***************************************************************************)
(* Proofs about the parts MCBridge puts side by side, for any number of    *)
(* clients, calls, callers, messages and workers and any bounds.  Each     *)
(* part has an inductive invariant over its own variables; a step of the   *)
(* bridge is a step of one part and leaves the others' variables alone.    *)
(* What Normalizer keeps is in NormalizerProofs.                           *)
(***************************************************************************)
EXTENDS NormalizerProofs, Sequences, FiniteSetTheorems

-----------------------------------------------------------------------------
(* Connection.  The client a restore is about to hand over has              *)
(* auto-reconnect: a ban's cool-down waits for the restore.                 *)

ConInv ==
    /\ auto \in [Clients -> BOOLEAN]
    /\ cur \in Clients \cup {NoClient}
    /\ restoring \in Clients \cup {NoClient}
    /\ restoring # NoClient => auto[restoring] = TRUE
    /\ cur # NoClient /\ auto[cur] = FALSE => cur \in cooling

LEMMA ConInitInv == Con!Init => ConInv
BY DEF Con!Init, ConInv

LEMMA ConQuiet ==
    ASSUME ConInv, UNCHANGED <<auto, cur, restoring, cooling>>
    PROVE  ConInv'
BY DEF ConInv

LEMMA ConKeeps == ConInv /\ Con!Next => ConInv'
<1> SUFFICES ASSUME ConInv, Con!Next PROVE ConInv'
  OBVIOUS
<1>1. ASSUME NEW c \in Clients,
             \/ Con!OnConnected(c) \/ Con!OnDisconnected(c) \/ Con!OnLoggedOut(c)
             \/ Con!OnStreamError(c) \/ Con!OnFailure(c) \/ Con!OnPaired(c)
      PROVE  ConInv'
  BY <1>1, ConQuiet DEF Con!OnConnected, Con!OnDisconnected, Con!OnLoggedOut, Con!OnStreamError,
                        Con!OnFailure, Con!OnPaired
<1>2. ASSUME NEW c \in Clients, Con!OnTemporaryBan(c) PROVE ConInv'
  BY <1>2 DEF Con!OnTemporaryBan, Con!CoolDown, Con!Unlocked, ConInv
<1>3. ASSUME NEW c \in Clients, Con!CoolDownEnds(c) PROVE ConInv'
  BY <1>3 DEF Con!CoolDownEnds, Con!Unlocked, ConInv
<1>4. ASSUME NEW c \in Clients, Con!Link(c) PROVE ConInv'
  BY <1>4 DEF Con!Link, Con!Unlocked, ConInv
<1>5. ASSUME NEW c \in Clients, Con!Replace(c) PROVE ConInv'
  BY <1>5 DEF Con!Replace, ConInv
<1>6. CASE Con!DebounceFires \/ Con!DebounceEnds \/ Con!DebounceTells \/ Con!PairingCheck
  BY <1>6, ConQuiet DEF Con!DebounceFires, Con!DebounceEnds, Con!DebounceTells, Con!PairingCheck
<1>7. CASE Con!Delete
  BY <1>7 DEF Con!Delete, ConInv
<1>8. CASE Con!RestoreFails \/ Con!Restored \/ Con!RestoredLate
  BY <1>8 DEF Con!RestoreFails, Con!Restored, Con!RestoredLate, ConInv
<1>9. CASE Con!RequestCorrects \/ Con!RequestDoubts \/ Con!RequestMarks
  BY <1>9, ConQuiet DEF Con!RequestCorrects, Con!RequestDoubts, Con!RequestMarks
<1> QED BY <1>1, <1>2, <1>3, <1>4, <1>5, <1>6, <1>7, <1>8, <1>9 DEF Con!Next
-----------------------------------------------------------------------------
(* AppState.  The mark stands as long as a fetch is under way, so a second  *)
(* caller is skipped.                                                       *)

Fetching == {p \in Callers : pc[p] = "fetch"}

AppInv ==
    /\ pc \in [Callers -> {"idle", "auto", "mark", "fetch"}]
    /\ \A p, q \in Fetching : p = q
    /\ \A p \in Fetching : marked = TRUE
    /\ errors \in Nat /\ autos \in Nat /\ autos <= errors

LEMMA AppInitInv == App!Init => AppInv
BY DEF App!Init, AppInv, Fetching

LEMMA AppKeeps == AppInv /\ App!Next => AppInv'
<1> SUFFICES ASSUME AppInv, App!Next PROVE AppInv'
  OBVIOUS
<1>1. ASSUME NEW p \in Callers, App!PatchFails(p) PROVE AppInv'
  BY <1>1 DEF App!PatchFails, App!Goto, AppInv, Fetching
<1>2. ASSUME NEW p \in Callers, App!Request(p) \/ App!Repair(p) PROVE AppInv'
  BY <1>2 DEF App!Request, App!Repair, App!Begin, App!Goto, AppInv, Fetching
<1>3. ASSUME NEW p \in Callers, App!Mark(p) PROVE AppInv'
  BY <1>3 DEF App!Mark, App!Goto, AppInv, Fetching
<1>4. ASSUME NEW p \in Callers, App!Fetched(p) PROVE AppInv'
  BY <1>4 DEF App!Fetched, App!Goto, AppInv, Fetching
<1>5. ASSUME NEW p \in Callers, App!FetchFails(p) PROVE AppInv'
  BY <1>5 DEF App!FetchFails, App!Goto, AppInv, Fetching
<1>6. CASE App!Expire
  BY <1>6 DEF App!Expire, AppInv, Fetching
<1>7. CASE App!Network
  BY <1>7 DEF App!Network, AppInv, Fetching
<1> QED BY <1>1, <1>2, <1>3, <1>4, <1>5, <1>6, <1>7 DEF App!Next

LEMMA AppInvImplies == AppInv => NoResyncStorm
BY DEF AppInv, NoResyncStorm, App!NoResyncStorm, Fetching
-----------------------------------------------------------------------------
(* Instances.  As long as no write has undone another, what a caller        *)
(* writes back is the row it finds, with its own change; and a change of    *)
(* calls_enabled leaves a reload to be done.                                *)

Ops == Ins!Writers \cup {Ins!Idle, [do |-> "reload"], [do |-> "erase"]}

InsInv ==
    /\ exists \in BOOLEAN /\ lost \in BOOLEAN
    /\ row \in Ins!Rows
    /\ read \in [Callers -> Ins!Rows]
    /\ op \in [Callers -> Ops]
    /\ workers \in Nat /\ cycles \in Nat
    /\ (exists /\ ~lost) => (engine = row.calls \/ \E p \in Callers : op[p] = [do |-> "reload"])
    /\ (exists /\ ~lost /\ row.history = "running") => workers > 0

LEMMA NewRowIsRow == Ins!NewRow \in Ins!Rows
BY DEF Ins!NewRow, Ins!Rows

\* What a caller writes is a row, whose history is that of the row it has read.
LEMMA ChangeKeepsHistory ==
    ASSUME NEW r \in Ins!Rows, NEW o \in Ins!Writers
    PROVE  Ins!Change(r, o) \in Ins!Rows /\ Ins!Change(r, o).history = r.history
<1>1. CASE o.do = "put"
  <2>1. Ins!Change(r, o) = Ins!ApplyUpdate(r, o)
    BY <1>1 DEF Ins!Change
  <2>2. o.calls \in {"true", "false", Ins!Keep}
    BY <1>1 DEF Ins!Writers, Ins!RotateToken, Ins!Keep
  <2> QED BY <2>1, <2>2 DEF Ins!ApplyUpdate, Ins!Rows, Ins!Keep
<1>2. CASE o.do # "put"
  BY <1>2 DEF Ins!Change
<1> QED BY <1>1, <1>2

LEMMA InsInitInv == Ins!Init => InsInv
<1> SUFFICES ASSUME Ins!Init PROVE InsInv
  OBVIOUS
<1>1. Ins!Idle \in Ops
  BY DEF Ops
<1>2. engine = row.calls /\ row.history = "pending"
  BY DEF Ins!Init, Ins!NewRow
<1> QED BY <1>1, <1>2, NewRowIsRow DEF Ins!Init, InsInv

LEMMA UpdateKeeps ==
    ASSUME InsInv, NEW p \in Callers, Ins!Update(p)
    PROVE  InsInv'
<1> DEFINE new == Ins!Change(read[p], op[p])
<1>1. op[p] \in Ins!Writers /\ read[p] \in Ins!Rows
  BY DEF Ins!Update, InsInv
<1>2. new \in Ins!Rows /\ new.history = read[p].history
  BY <1>1, ChangeKeepsHistory
<1>3. /\ row' = IF exists THEN new ELSE row
      /\ op' = [op EXCEPT ![p] = Ins!NextStep(p)]
      /\ read' = [read EXCEPT ![p] = Ins!NewRow]
      /\ UNCHANGED <<exists, engine, workers, cycles>>
  BY DEF Ins!Update, Ins!WriteRow
<1>4. lost' \in BOOLEAN /\ (exists /\ ~lost' => ~lost /\ read[p] = row)
  BY DEF Ins!Update, InsInv
<1>5. Ins!NextStep(p) \in {[do |-> "erase"], [do |-> "reload"], Ins!Idle}
  BY DEF Ins!NextStep
<1>6. row' \in Ins!Rows /\ read' \in [Callers -> Ins!Rows] /\ op' \in [Callers -> Ops]
  BY <1>2, <1>3, <1>5, NewRowIsRow DEF InsInv, Ops
<1>7. ASSUME exists, ~lost' PROVE engine' = row'.calls \/ \E q \in Callers : op'[q] = [do |-> "reload"]
  <2>1. ~lost /\ read[p] = row /\ row' = new
    BY <1>3, <1>4, <1>7
  <2>2. op[p] # [do |-> "reload"]
    BY <1>1 DEF Ins!Writers, Ins!RotateToken
  <2>3. CASE row'.calls # row.calls
    <3>1. op[p].do = "put"
      BY <2>1, <2>3 DEF Ins!Change
    <3>2. Ins!NextStep(p) = [do |-> "reload"]
      BY <1>7, <2>1, <2>3, <3>1 DEF Ins!NextStep
    <3>3. op'[p] = [do |-> "reload"]
      BY <1>3, <3>2 DEF InsInv
    <3> QED BY <3>3
  <2>4. CASE row'.calls = row.calls
    <3>1. engine = row.calls \/ \E q \in Callers : op[q] = [do |-> "reload"]
      BY <1>7, <2>1 DEF InsInv
    <3>2. \A q \in Callers : op[q] = [do |-> "reload"] => op'[q] = op[q]
      BY <1>3, <2>2 DEF InsInv
    <3> QED BY <1>3, <2>4, <3>1, <3>2
  <2> QED BY <2>3, <2>4
<1>8. ASSUME exists, ~lost', row'.history = "running" PROVE workers' > 0
  <2>1. row'.history = row.history /\ ~lost
    BY <1>2, <1>3, <1>4, <1>8
  <2> QED BY <1>3, <1>8, <2>1 DEF InsInv
<1> QED BY <1>3, <1>4, <1>6, <1>7, <1>8 DEF InsInv

LEMMA InsKeeps == InsInv /\ Ins!Next => InsInv'
<1> SUFFICES ASSUME InsInv, Ins!Next PROVE InsInv'
  OBVIOUS
<1>1. ASSUME NEW p \in Callers, NEW o \in Ins!Writers, Ins!GetByID(p, o) PROVE InsInv'
  <2>1. op' = [op EXCEPT ![p] = o] /\ read' = [read EXCEPT ![p] = row] /\ op[p] = Ins!Idle
        /\ UNCHANGED <<exists, row, engine, workers, cycles, lost>>
    BY <1>1 DEF Ins!GetByID
  <2>2. op' \in [Callers -> Ops] /\ read' \in [Callers -> Ins!Rows]
    BY <2>1 DEF InsInv, Ops
  <2>3. [do |-> "reload"] # Ins!Idle
    BY DEF Ins!Idle
  <2>4. \A q \in Callers : op[q] = [do |-> "reload"] => op'[q] = op[q]
    BY <2>1, <2>3 DEF InsInv
  <2> QED BY <2>1, <2>2, <2>4 DEF InsInv
<1>2. ASSUME NEW p \in Callers, Ins!Reload(p) PROVE InsInv'
  <2>1. op' = [op EXCEPT ![p] = Ins!Idle] /\ engine' = (exists /\ row.calls)
        /\ UNCHANGED <<exists, row, read, workers, cycles, lost>>
    BY <1>2 DEF Ins!Reload
  <2>2. op' \in [Callers -> Ops]
    BY <2>1 DEF InsInv, Ops
  <2>3. row.calls \in BOOLEAN
    BY DEF InsInv, Ins!Rows
  <2>4. exists => engine' = row.calls
    BY <2>1, <2>3
  <2> QED BY <2>1, <2>2, <2>4 DEF InsInv
<1>3. ASSUME NEW p \in Callers, Ins!Erase(p) PROVE InsInv'
  <2>1. op' = [op EXCEPT ![p] = Ins!Idle] /\ exists' \in {FALSE, exists} /\ op[p].do = "erase"
        /\ UNCHANGED <<row, read, engine, workers, cycles, lost>>
    BY <1>3 DEF Ins!Erase
  <2>2. op' \in [Callers -> Ops] /\ exists' \in BOOLEAN
    BY <2>1 DEF InsInv, Ops
  <2>3. \A q \in Callers : op[q] = [do |-> "reload"] => op'[q] = op[q]
    BY <2>1 DEF InsInv
  <2> QED BY <2>1, <2>2, <2>3 DEF InsInv
<1>4. CASE Ins!StartCycle
  <2>1. /\ row' = IF exists THEN [row EXCEPT !.history = "running"] ELSE row
        /\ UNCHANGED <<exists, op, read, engine, lost>>
        /\ cycles' = cycles + 1 /\ workers' = workers + 1
    BY <1>4 DEF Ins!StartCycle, Ins!WriteHistory, Ins!WriteRow
  <2>2. row' \in Ins!Rows /\ row'.calls = row.calls
    BY <2>1 DEF InsInv, Ins!Rows
  <2>3. workers' \in Nat /\ cycles' \in Nat /\ workers' > 0
    BY <2>1 DEF InsInv
  <2> QED BY <2>1, <2>2, <2>3 DEF InsInv
<1>5. CASE Ins!EndCycle
  <2>1. /\ row' = IF exists THEN [row EXCEPT !.history = "completed"] ELSE row
        /\ UNCHANGED <<exists, op, read, engine, lost, cycles>>
        /\ workers > 0 /\ workers' = workers - 1
    BY <1>5 DEF Ins!EndCycle, Ins!WriteHistory, Ins!WriteRow
  <2>2. row' \in Ins!Rows /\ row'.calls = row.calls /\ (exists => row'.history = "completed")
    BY <2>1 DEF InsInv, Ins!Rows
  <2>3. workers' \in Nat
    BY <2>1 DEF InsInv
  <2> QED BY <2>1, <2>2, <2>3 DEF InsInv
<1> QED BY <1>1, <1>2, <1>3, <1>4, <1>5, UpdateKeeps DEF Ins!Next

LEMMA InsInvImplies == InsInv => EngineFollows /\ RunningHasWorker
<1>1. [do |-> "reload"] # Ins!Idle
  BY DEF Ins!Idle
<1> QED BY <1>1 DEF InsInv, EngineFollows, Ins!EngineFollows, RunningHasWorker, Ins!RunningHasWorker
-----------------------------------------------------------------------------
(* Calls.  Whether an engine has seen a call decides who tells of its end:  *)
(* the engine's OnEnd, once, or WhatsApp's own event, once.                 *)

\* Where a call stands whose engine has not been removed, and what was told of it.
EndOf(k) ==
    /\ k \in tracked => k \in mine /\ ends[k] = 0 /\ ending[k] = ""
    /\ ending[k] # "" => k \in mine /\ ends[k] = 0
    /\ k \in onAir /\ k \notin mine => ends[k] = 0 /\ ending[k] = ""
    /\ ends[k] \in {0, 1}

Begun(k) ==
    phase[k] = "none" => /\ k \notin tracked \cup mine \cup onAir \cup cut \cup hang
                         /\ ends[k] = 0 /\ ending[k] = "" /\ reason[k] = ""

\* An answer is told by who marks the call active; a reason exists once it has ended.
AnswerOf(k) ==
    /\ k \notin active => accepted[k] = 0
    /\ accepted[k] \in {0, 1}
    /\ k \in answered => k \in active
    /\ phase[k] # "ended" => ending[k] = "" /\ reason[k] = ""
    /\ k \in answered => /\ ending[k] \notin {"missed", "cancelled"}
                          /\ reason[k] \notin {"missed", "cancelled"}

\* A step that leaves call j where it is.
Still(j) ==
    /\ phase'[j] = phase[j] /\ ending'[j] = ending[j] /\ reason'[j] = reason[j]
    /\ ends'[j] = ends[j] /\ accepted'[j] = accepted[j]
    /\ (j \in mine' <=> j \in mine) /\ (j \in tracked' <=> j \in tracked)
    /\ (j \in onAir' <=> j \in onAir) /\ (j \in cut' <=> j \in cut)
    /\ (j \in active' <=> j \in active) /\ (j \in answered' <=> j \in answered)
    /\ (j \in hang' <=> j \in hang)

CalTypes ==
    /\ phase \in [Calls -> Cal!Phases]
    /\ ending \in [Calls -> Cal!Reasons] /\ reason \in [Calls -> Cal!Reasons]
    /\ ends \in [Calls -> Nat] /\ accepted \in [Calls -> Nat]
    /\ mine # {} => voip = TRUE
    /\ voip = TRUE => detach = "none"
    /\ answered \subseteq Calls

CallInv(k) == (k \notin cut => EndOf(k)) /\ Begun(k) /\ AnswerOf(k)

CalInv == CalTypes /\ \A k \in Calls : CallInv(k)

LEMMA CalInitInv == Cal!Init => CalInv
<1> SUFFICES ASSUME Cal!Init PROVE CalInv
  OBVIOUS
<1>1. /\ mine = {} /\ tracked = {} /\ onAir = {} /\ cut = {} /\ active = {} /\ answered = {}
      /\ hang = {} /\ voip = FALSE
      /\ phase = [k \in Calls |-> "none"]
      /\ ending = [k \in Calls |-> ""] /\ reason = [k \in Calls |-> ""]
      /\ ends = [k \in Calls |-> 0] /\ accepted = [k \in Calls |-> 0]
  BY DEF Cal!Init
<1>2. CalTypes
  BY <1>1 DEF CalTypes, Cal!Phases, Cal!Reasons
<1>3. ASSUME NEW k \in Calls PROVE CallInv(k)
  <2>1. ending[k] = "" /\ reason[k] = "" /\ ends[k] = 0 /\ accepted[k] = 0
    BY <1>1
  <2>2. k \notin mine \cup tracked \cup onAir \cup cut \cup active \cup answered \cup hang
    BY <1>1
  <2> QED BY <2>1, <2>2 DEF CallInv, EndOf, Begun, AnswerOf
<1> QED BY <1>2, <1>3 DEF CalInv

LEMMA CalInvImplies == CalInv => EndedOnce /\ ReasonFits
<1> SUFFICES ASSUME CalInv PROVE EndedOnce /\ ReasonFits
  OBVIOUS
<1>1. ASSUME NEW k \in Calls PROVE (ends[k] <= 1 \/ k \in cut) /\ accepted[k] <= 1
  <2>1. (ends[k] \in {0, 1} \/ k \in cut) /\ accepted[k] \in {0, 1}
    BY DEF CalInv, CallInv, EndOf, AnswerOf
  <2> QED BY <2>1
<1>2. ASSUME NEW k \in answered
      PROVE  reason[k] \notin {"missed", "cancelled"} /\ ending[k] \notin {"missed", "cancelled"}
  <2>1. k \in Calls
    BY DEF CalInv, CalTypes
  <2> QED BY <2>1 DEF CalInv, CallInv, AnswerOf
<1> QED BY <1>1, <1>2 DEF EndedOnce, Cal!EndedOnce, ReasonFits, Cal!ReasonFits

\* A step that moves one call at most: the invariant of the others stays.
LEMMA OneCall ==
    ASSUME CalInv, NEW k \in Calls, CalTypes', CallInv(k)',
           \A j \in Calls \ {k} : Still(j)
    PROVE  CalInv'
<1>1. ASSUME NEW j \in Calls \ {k} PROVE CallInv(j)'
  <2>1. CallInv(j) /\ Still(j)
    BY DEF CalInv
  <2>3. j \notin cut' => EndOf(j)'
    BY <2>1 DEF Still, EndOf, CallInv
  <2>4. Begun(j)'
    BY <2>1 DEF Still, Begun, CallInv
  <2>5. AnswerOf(j)'
    BY <2>1 DEF Still, AnswerOf, CallInv
  <2> QED BY <2>3, <2>4, <2>5 DEF CallInv
<1> QED BY <1>1 DEF CalInv

LEMMA EndReasonIsReason ==
    ASSUME NEW k \in Calls, NEW raw \in Cal!Raw, NEW local \in BOOLEAN
    PROVE  /\ Cal!EndReason(k, raw, local) \in Cal!Reasons
           /\ k \in active => Cal!EndReason(k, raw, local) \notin {"missed", "cancelled"}
BY DEF Cal!EndReason, Cal!Raw, Cal!Reasons

\* What OnEnd makes of the reason about to be told.
LEMMA OnEndTells ==
    ASSUME CalTypes, NEW k \in Calls, NEW raw \in Cal!Raw, NEW local \in BOOLEAN,
           Cal!OnEnd(k, raw, local)
    PROVE  /\ phase' \in [Calls -> Cal!Phases] /\ phase'[k] = "ended"
           /\ ending' \in [Calls -> Cal!Reasons]
           /\ \A j \in Calls \ {k} : /\ phase'[j] = phase[j] /\ ending'[j] = ending[j]
                                     /\ j \in tracked' <=> j \in tracked
           /\ \/ /\ k \in tracked /\ k \notin tracked' /\ ending[k] = ""
                 /\ k \in active => ending'[k] \notin {"missed", "cancelled"}
              \/ (k \notin tracked \/ ending[k] # "") /\ tracked' = tracked /\ ending' = ending
<1>1. phase' = [phase EXCEPT ![k] = "ended"] /\ "ended" \in Cal!Phases
  BY DEF Cal!OnEnd, Cal!Phase, Cal!Phases
<1>2. phase' \in [Calls -> Cal!Phases] /\ phase'[k] = "ended" /\ \A j \in Calls \ {k} : phase'[j] = phase[j]
  BY <1>1 DEF CalTypes
<1>3. CASE k \in tracked /\ ending[k] = ""
  <2> DEFINE r == Cal!EndReason(k, raw, local)
  <2>1. r \in Cal!Reasons /\ (k \in active => r \notin {"missed", "cancelled"})
    BY EndReasonIsReason
  <2>2. tracked' = tracked \ {k} /\ ending' = [ending EXCEPT ![k] = r]
    BY <1>3 DEF Cal!OnEnd
  <2> HIDE DEF r
  <2>3. ending' \in [Calls -> Cal!Reasons] /\ ending'[k] = r
    BY <2>1, <2>2 DEF CalTypes
  <2>4. \A j \in Calls \ {k} : ending'[j] = ending[j] /\ (j \in tracked' <=> j \in tracked)
    BY <2>2 DEF CalTypes
  <2> QED BY <1>2, <1>3, <2>1, <2>2, <2>3, <2>4
<1>4. CASE ~(k \in tracked /\ ending[k] = "")
  <2>1. tracked' = tracked /\ ending' = ending
    BY <1>4 DEF Cal!OnEnd
  <2> QED BY <1>2, <1>4, <2>1 DEF CalTypes
<1> QED BY <1>3, <1>4

LEMMA OnEndLocal ==
    ASSUME NEW k, NEW raw, Cal!OnEnd(k, raw, k \in localEnd)
    PROVE  \E local \in BOOLEAN : Cal!OnEnd(k, raw, local)
<1>1. CASE k \in localEnd
  <2>1. Cal!OnEnd(k, raw, TRUE)
    BY <1>1 DEF Cal!OnEnd, Cal!EndReason
  <2> QED BY <2>1
<1>2. CASE k \notin localEnd
  <2>1. Cal!OnEnd(k, raw, FALSE)
    BY <1>2 DEF Cal!OnEnd, Cal!EndReason
  <2> QED BY <2>1
<1> QED BY <1>1, <1>2

\* A call that ends, with nothing told of it at once.
LEMMA EndKeeps ==
    ASSUME CalInv, NEW k \in Calls, NEW raw \in Cal!Raw, NEW local \in BOOLEAN,
           Cal!OnEnd(k, raw, local),
           onAir' \in {onAir, onAir \ {k}},
           hang' \in {hang, hang \ {k}},
           UNCHANGED <<voip, mine, cut, active, answered, accepted, detach, ends, reason>>
    PROVE  CalInv'
<1>1. CalTypes /\ CallInv(k)
  BY DEF CalInv
<1>2. /\ phase' \in [Calls -> Cal!Phases] /\ phase'[k] = "ended"
      /\ ending' \in [Calls -> Cal!Reasons]
      /\ \A j \in Calls \ {k} : /\ phase'[j] = phase[j] /\ ending'[j] = ending[j]
                                /\ j \in tracked' <=> j \in tracked
      /\ \/ /\ k \in tracked /\ k \notin tracked' /\ ending[k] = ""
            /\ k \in active => ending'[k] \notin {"missed", "cancelled"}
         \/ (k \notin tracked \/ ending[k] # "") /\ tracked' = tracked /\ ending' = ending
  BY <1>1, OnEndTells
<1>3. CalTypes'
  BY <1>1, <1>2 DEF CalTypes
<1>4. ASSUME NEW j \in Calls \ {k} PROVE Still(j)
  BY <1>2 DEF Still
<1>5. ASSUME k \notin cut PROVE EndOf(k)'
  <2>1. EndOf(k)
    BY <1>1, <1>5 DEF CallInv
  <2> QED BY <1>2, <2>1 DEF EndOf
<1>6. Begun(k)' /\ AnswerOf(k)'
  BY <1>1, <1>2 DEF CallInv, Begun, AnswerOf
<1>7. CallInv(k)'
  BY <1>5, <1>6 DEF CallInv
<1> QED BY <1>3, <1>4, <1>7, OneCall

\* A call that ends without an engine: WhatsApp's own event tells of it.
LEMMA RawEndKeeps ==
    ASSUME CalInv, NEW k \in Calls, NEW raw \in Cal!Raw, NEW local \in BOOLEAN,
           Cal!OnEnd(k, raw, local), Cal!Tell(k, "raw"),
           mine = {}, k \in onAir, onAir' = onAir \ {k},
           UNCHANGED <<voip, mine, cut, active, answered, accepted, detach, hang>>
    PROVE  CalInv'
<1>1. CalTypes /\ CallInv(k)
  BY DEF CalInv
<1>2. /\ phase' \in [Calls -> Cal!Phases] /\ phase'[k] = "ended"
      /\ ending' \in [Calls -> Cal!Reasons]
      /\ \A j \in Calls \ {k} : /\ phase'[j] = phase[j] /\ ending'[j] = ending[j]
                                /\ j \in tracked' <=> j \in tracked
      /\ \/ /\ k \in tracked /\ k \notin tracked' /\ ending[k] = ""
            /\ k \in active => ending'[k] \notin {"missed", "cancelled"}
         \/ (k \notin tracked \/ ending[k] # "") /\ tracked' = tracked /\ ending' = ending
  BY <1>1, OnEndTells
<1>3. ends' = [ends EXCEPT ![k] = ends[k] + 1] /\ reason' = [reason EXCEPT ![k] = "raw"]
  BY DEF Cal!Tell
<1>4. /\ ends' \in [Calls -> Nat] /\ reason' \in [Calls -> Cal!Reasons]
      /\ ends'[k] = ends[k] + 1 /\ reason'[k] = "raw"
  <2>1. ends[k] \in Nat
    BY <1>1 DEF CalTypes
  <2>2. ends[k] + 1 \in Nat
    BY <2>1
  <2>3. "raw" \in Cal!Reasons
    BY DEF Cal!Reasons
  <2> QED BY <1>1, <1>3, <2>2, <2>3 DEF CalTypes
<1>5. CalTypes'
  BY <1>1, <1>2, <1>4 DEF CalTypes
<1>6. ASSUME NEW j \in Calls \ {k} PROVE Still(j)
  <2>1. ends'[j] = ends[j] /\ reason'[j] = reason[j]
    BY <1>1, <1>3 DEF CalTypes
  <2> QED BY <1>2, <2>1 DEF Still
<1>7. ASSUME k \notin cut PROVE EndOf(k)'
  <2>1. EndOf(k)
    BY <1>1, <1>7 DEF CallInv
  <2>2. k \notin tracked /\ ends[k] = 0 /\ ending[k] = ""
    BY <2>1 DEF EndOf
  <2>3. ends'[k] = 0 + 1
    BY <1>4, <2>2
  <2>4. ends'[k] \in {0, 1}
    BY <2>3
  <2>5. k \notin tracked' /\ ending'[k] = "" /\ k \notin onAir'
    BY <1>2, <2>2
  <2> QED BY <2>4, <2>5 DEF EndOf
<1>8. Begun(k)' /\ AnswerOf(k)'
  BY <1>1, <1>2, <1>4 DEF CallInv, Begun, AnswerOf
<1>9. CallInv(k)'
  BY <1>7, <1>8 DEF CallInv
<1> QED BY <1>5, <1>6, <1>9, OneCall

\* A call that begins.
LEMMA TrackKeeps ==
    ASSUME CalInv, NEW k \in Calls, NEW d, Cal!Track(k, d),
           \/ UNCHANGED <<tracked, mine>>
           \/ voip = TRUE /\ tracked' = tracked \cup {k} /\ mine' = mine \cup {k},
           UNCHANGED <<voip, active, ending, cut, accepted, ends, reason, answered, detach, hang>>
    PROVE  CalInv'
<1>1. CalTypes /\ CallInv(k)
  BY DEF CalInv
<1>2. /\ phase[k] = "none" /\ phase' = [phase EXCEPT ![k] = "ringing"] /\ onAir' = onAir \cup {k}
  BY DEF Cal!Track, Cal!Phase
<1>3. phase' \in [Calls -> Cal!Phases] /\ phase'[k] = "ringing"
  BY <1>1, <1>2 DEF CalTypes, Cal!Phases
<1>4. CalTypes'
  BY <1>1, <1>3 DEF CalTypes
<1>5. ASSUME NEW j \in Calls \ {k} PROVE Still(j)
  BY <1>1, <1>2 DEF Still, CalTypes
<1>6. k \notin tracked \cup mine \cup cut /\ ends[k] = 0 /\ ending[k] = "" /\ reason[k] = ""
  BY <1>1, <1>2 DEF CallInv, Begun
<1>7. EndOf(k)' /\ Begun(k)'
  BY <1>3, <1>6 DEF EndOf, Begun
<1>8. AnswerOf(k)'
  BY <1>1, <1>3, <1>6 DEF CallInv, AnswerOf
<1>9. CallInv(k)'
  BY <1>7, <1>8 DEF CallInv
<1> QED BY <1>4, <1>5, <1>9, OneCall

\* A call that goes on, and may be told to have been answered.
LEMMA AcceptKeeps ==
    ASSUME CalInv, NEW k \in Calls, NEW p \in {"connecting", "active"},
           phase' = phase \/ (phase[k] \in {"ringing", "connecting"} /\ Cal!Phase(k, p)),
           \/ Cal!Accept(k)
           \/ active' \in {active, active \cup {k}} /\ UNCHANGED <<accepted, answered>>,
           UNCHANGED <<voip, mine, tracked, ending, onAir, cut, ends, reason, detach, hang>>
    PROVE  CalInv'
<1>1. CalTypes /\ CallInv(k)
  BY DEF CalInv
<1>2. /\ phase' \in [Calls -> Cal!Phases]
      /\ \A j \in Calls \ {k} : phase'[j] = phase[j]
      /\ (phase'[k] = phase[k] \/ (phase[k] \notin {"none", "ended"} /\ phase'[k] # "none"))
  BY <1>1 DEF Cal!Phase, CalTypes, Cal!Phases
<1>3. active' = active \/ active' = active \cup {k}
  BY DEF Cal!Accept
<1>4. \/ UNCHANGED <<accepted, answered>>
      \/ /\ k \notin active /\ k \in active'
         /\ accepted' = [accepted EXCEPT ![k] = accepted[k] + 1]
         /\ (answered' = answered \/ (phase[k] # "ended" /\ answered' = answered \cup {k}))
  <2>1. CASE k \in active \/ ~Cal!Accept(k)
    BY <2>1 DEF Cal!Accept
  <2>2. CASE k \notin active /\ Cal!Accept(k)
    BY <2>2 DEF Cal!Accept
  <2> QED BY <2>1, <2>2
<1>5. accepted' \in [Calls -> Nat] /\ answered' \subseteq Calls
  BY <1>1, <1>4 DEF CalTypes
<1>6. CalTypes'
  BY <1>1, <1>2, <1>5 DEF CalTypes
<1>7. ASSUME NEW j \in Calls \ {k} PROVE Still(j)
  <2>1. accepted'[j] = accepted[j] /\ (j \in answered' <=> j \in answered)
    BY <1>1, <1>4 DEF CalTypes
  <2> QED BY <1>2, <1>3, <2>1 DEF Still
<1>8. (k \notin cut' => EndOf(k)') /\ Begun(k)'
  BY <1>1, <1>2 DEF CallInv, EndOf, Begun
<1>9. AnswerOf(k)'
  <2>1. CASE UNCHANGED <<accepted, answered>>
    BY <1>1, <1>2, <1>3, <2>1 DEF CallInv, AnswerOf
  <2>2. CASE ~UNCHANGED <<accepted, answered>>
    <3>1. accepted'[k] = accepted[k] + 1 /\ accepted[k] = 0 /\ k \in active' /\ k \notin answered
      BY <1>1, <1>4, <2>2 DEF CallInv, AnswerOf, CalTypes
    <3>2. k \in answered' => phase[k] # "ended"
      BY <1>4, <3>1
    <3>3. accepted'[k] \in {0, 1}
      BY <3>1
    <3> QED BY <1>1, <1>2, <3>1, <3>2, <3>3 DEF CallInv, AnswerOf
  <2> QED BY <2>1, <2>2
<1>10. CallInv(k)'
  BY <1>8, <1>9 DEF CallInv
<1> QED BY <1>6, <1>7, <1>10, OneCall

LEMMA CalQuiet ==
    ASSUME CalInv,
           UNCHANGED <<voip, phase, mine, tracked, active, ending, onAir, cut, accepted, ends,
                       reason, answered, detach, hang>>
    PROVE  CalInv'
BY DEF CalInv, CalTypes, CallInv, EndOf, Begun, AnswerOf

LEMMA CalKeeps == CalInv /\ Cal!Next => CalInv'
<1> SUFFICES ASSUME CalInv, Cal!Next PROVE CalInv'
  OBVIOUS
<1>1. ASSUME NEW k \in Calls, Cal!Offer(k) PROVE CalInv'
  BY <1>1, TrackKeeps DEF Cal!Offer
<1>2. ASSUME NEW k \in Calls, Cal!StartCall(k) PROVE CalInv'
  BY <1>2, TrackKeeps DEF Cal!StartCall, CalInv
<1>3. ASSUME NEW k \in Calls, Cal!BecomesActive(k) PROVE CalInv'
  BY <1>3, AcceptKeeps DEF Cal!BecomesActive
<1>4. ASSUME NEW k \in Calls, Cal!AnswerCall(k) PROVE CalInv'
  BY <1>4, AcceptKeeps DEF Cal!AnswerCall
<1>5. ASSUME NEW k \in Calls, Cal!Answered(k) PROVE CalInv'
  <2>1. CASE Cal!Accept(k)
    BY <1>5, <2>1, AcceptKeeps DEF Cal!Answered
  <2>2. CASE ~Cal!Accept(k)
    BY <1>5, <2>2, AcceptKeeps DEF Cal!Answered
  <2> QED BY <2>1, <2>2
<1>6. ASSUME NEW k \in Calls, Cal!HangupCall(k) PROVE CalInv'
  BY <1>6, EndKeeps DEF Cal!HangupCall, Cal!Crossed, Cal!Raw
<1>7. ASSUME NEW k \in Calls, Cal!RejectedOnPhone(k) PROVE CalInv'
  BY <1>7, CalQuiet DEF Cal!RejectedOnPhone
<1>8. ASSUME NEW k \in Calls, NEW raw \in Cal!Raw, Cal!OtherSideEnds(k, raw) PROVE CalInv'
  <2>1. PICK local \in BOOLEAN : Cal!OnEnd(k, raw, local)
    BY <1>8, OnEndLocal DEF Cal!OtherSideEnds
  <2>2. /\ k \in onAir /\ onAir' = onAir \ {k}
        /\ UNCHANGED <<voip, mine, cut, active, answered, accepted, detach, hang>>
    BY <1>8 DEF Cal!OtherSideEnds
  <2>3. CASE UNCHANGED <<ends, reason>>
    BY <2>1, <2>2, <2>3, EndKeeps
  <2>4. CASE Cal!Tell(k, "raw") /\ ~voip
    <3>1. mine = {}
      BY <2>4 DEF CalInv, CalTypes
    <3> QED BY <2>1, <2>2, <2>4, <3>1, RawEndKeeps
  <2>5. UNCHANGED <<ends, reason>> \/ (Cal!Tell(k, "raw") /\ ~voip)
    BY <1>8 DEF Cal!OtherSideEnds
  <2> QED BY <2>3, <2>4, <2>5
<1>9. ASSUME NEW k \in Calls, Cal!TellEnd(k) PROVE CalInv'
  <2>1. CalTypes /\ CallInv(k)
    BY DEF CalInv
  <2>2. /\ ends' = [ends EXCEPT ![k] = ends[k] + 1] /\ reason' = [reason EXCEPT ![k] = ending[k]]
        /\ ending' = [ending EXCEPT ![k] = ""] /\ ending[k] # ""
        /\ UNCHANGED <<voip, phase, mine, tracked, active, onAir, cut, accepted, answered, detach,
                       hang>>
    BY <1>9 DEF Cal!TellEnd, Cal!Tell
  <2>3. /\ ends' \in [Calls -> Nat] /\ reason' \in [Calls -> Cal!Reasons]
        /\ ending' \in [Calls -> Cal!Reasons]
        /\ ends'[k] = ends[k] + 1 /\ reason'[k] = ending[k] /\ ending'[k] = ""
    <3>1. ends[k] \in Nat /\ ending[k] \in Cal!Reasons
      BY <2>1 DEF CalTypes
    <3>2. ends[k] + 1 \in Nat
      BY <3>1
    <3>3. "" \in Cal!Reasons
      BY DEF Cal!Reasons
    <3> QED BY <2>1, <2>2, <3>1, <3>2, <3>3 DEF CalTypes
  <2>4. CalTypes'
    BY <2>1, <2>2, <2>3 DEF CalTypes
  <2>5. ASSUME NEW j \in Calls \ {k} PROVE Still(j)
    BY <2>1, <2>2 DEF Still, CalTypes
  <2>6. ASSUME k \notin cut PROVE EndOf(k)'
    <3>1. k \notin tracked /\ k \in mine /\ ends[k] = 0
      BY <2>1, <2>2, <2>6 DEF CallInv, EndOf
    <3>2. ends'[k] = 0 + 1
      BY <2>3, <3>1
    <3>3. ends'[k] \in {0, 1}
      BY <3>2
    <3> QED BY <2>2, <2>3, <3>1, <3>3 DEF EndOf
  <2>7. phase[k] = "ended" /\ Begun(k)'
    BY <2>1, <2>2 DEF CallInv, Begun, AnswerOf
  <2>8. AnswerOf(k)'
    BY <2>1, <2>2, <2>3, <2>7 DEF CallInv, AnswerOf
  <2>9. CallInv(k)'
    BY <2>2, <2>6, <2>7, <2>8 DEF CallInv
  <2> QED BY <2>4, <2>5, <2>9, OneCall
<1>10. ASSUME NEW k \in Calls, Cal!HangUp(k) PROVE CalInv'
  <2>1. PICK local \in BOOLEAN : Cal!OnEnd(k, "", local)
    BY <1>10, OnEndLocal DEF Cal!HangUp
  <2> QED BY <1>10, <2>1, EndKeeps DEF Cal!HangUp, Cal!Crossed, Cal!Raw
<1>11. ASSUME NEW w, Cal!Detach(w) PROVE CalInv'
  <2>1. /\ mine' = {} /\ cut' = cut \cup mine /\ hang' = mine \cap tracked /\ voip' = FALSE
        /\ UNCHANGED <<phase, tracked, active, ending, onAir, accepted, ends, reason, answered>>
    BY <1>11 DEF Cal!Detach, Cal!Removed
  <2>2. ASSUME NEW k \in Calls PROVE CallInv(k)'
    <3>1. CallInv(k)
      BY DEF CalInv
    <3>2. k \notin cut' => EndOf(k)'
      BY <2>1, <3>1 DEF CallInv, EndOf
    <3>3. Begun(k)'
      BY <2>1, <3>1 DEF CallInv, Begun
    <3>4. AnswerOf(k)'
      BY <2>1, <3>1 DEF CallInv, AnswerOf
    <3> QED BY <3>2, <3>3, <3>4 DEF CallInv
  <2> QED BY <2>1, <2>2 DEF CalInv, CalTypes
<1>12. ASSUME NEW on \in BOOLEAN, Cal!Attach(on) PROVE CalInv'
  <2>1. /\ detach' = "none" /\ mine = {}
        /\ UNCHANGED <<phase, mine, tracked, active, ending, onAir, cut, accepted, ends, reason,
                       answered, hang>>
    BY <1>12 DEF Cal!Attach, CalInv, CalTypes
  <2>2. ASSUME NEW k \in Calls PROVE CallInv(k)'
    <3>1. CallInv(k)
      BY DEF CalInv
    <3> QED BY <2>1, <3>1 DEF CallInv, EndOf, Begun, AnswerOf
  <2> QED BY <2>1, <2>2 DEF CalInv, CalTypes
<1>13. CASE Cal!SetEnabled
  BY <1>13, CalQuiet DEF Cal!SetEnabled
<1> QED BY <1>1, <1>2, <1>3, <1>4, <1>5, <1>6, <1>7, <1>8, <1>9, <1>10, <1>11, <1>12, <1>13 DEF Cal!Next
-----------------------------------------------------------------------------
(* Types.  What the invariants above do not say of the parts' variables.    *)

LEMMA ConTypesKept == Con!TypeOK /\ Con!Next => Con!TypeOK'
<1> SUFFICES ASSUME Con!TypeOK, Con!Next PROVE Con!TypeOK'
  OBVIOUS
<1> USE DEF Con!TypeOK, Con!Socket, Con!Sockets, Con!Statuses, Con!late
<1>1. ASSUME NEW c \in Clients, Con!OnConnected(c) \/ Con!OnDisconnected(c) \/ Con!OnLoggedOut(c)
      PROVE  Con!TypeOK'
  BY <1>1 DEF Con!OnConnected, Con!Connected, Con!OnDisconnected, Con!OnLoggedOut, Con!StatusChange
<1>2. ASSUME NEW c \in Clients, Con!OnTemporaryBan(c) \/ Con!CoolDownEnds(c) PROVE Con!TypeOK'
  BY <1>2 DEF Con!OnTemporaryBan, Con!CoolDown, Con!CoolDownEnds
<1>3. ASSUME NEW c \in Clients, Con!OnStreamError(c) \/ Con!OnFailure(c) \/ Con!OnPaired(c)
      PROVE  Con!TypeOK'
  BY <1>3 DEF Con!OnStreamError, Con!OnFailure, Con!OnPaired
<1>4. ASSUME NEW c \in Clients, Con!Link(c) \/ Con!Replace(c) PROVE Con!TypeOK'
  BY <1>4 DEF Con!Link, Con!Replace
<1>5. CASE Con!DebounceFires \/ Con!DebounceEnds \/ Con!DebounceTells
  <2>1. fired' \in Nat /\ telling' \in Nat
    BY <1>5 DEF Con!DebounceFires, Con!DebounceEnds, Con!DebounceTells
  <2> QED BY <1>5, <2>1 DEF Con!DebounceFires, Con!DebounceEnds, Con!DebounceTells
<1>6. CASE Con!RestoreFails \/ Con!Restored \/ Con!RestoredLate
  BY <1>6 DEF Con!RestoreFails, Con!Restored, Con!Connected, Con!RestoredLate
<1>7. CASE Con!PairingCheck \/ Con!Delete
  BY <1>7 DEF Con!PairingCheck, Con!Delete
<1>8. CASE Con!RequestCorrects \/ Con!RequestDoubts \/ Con!RequestMarks
  BY <1>8 DEF Con!RequestCorrects, Con!RequestDoubts, Con!RequestMarks
<1> QED BY <1>1, <1>2, <1>3, <1>4, <1>5, <1>6, <1>7, <1>8 DEF Con!Next

\* What CalTypes leaves of Calls' types.
CalRest ==
    /\ {enabled, voip} \subseteq BOOLEAN
    /\ dir \in [Calls -> {"", "incoming", "outgoing"}]
    /\ mine \subseteq Calls /\ tracked \subseteq Calls /\ active \subseteq Calls
    /\ localEnd \subseteq Calls /\ hint \subseteq Calls /\ answering \subseteq Calls
    /\ hang \subseteq Calls /\ onAir \subseteq Calls /\ cut \subseteq Calls
    /\ answered \subseteq Calls
    /\ own \in Calls \cup {NoCall}
    /\ detach \in {"none", "free", "locked"}
    /\ hang # {} => detach # "none"

LEMMA CalTypesSplit == CalTypes /\ CalRest => Cal!TypeOK
BY DEF CalTypes, CalRest, Cal!TypeOK

LEMMA OnEndShrinks ==
    ASSUME NEW k, NEW raw, NEW local, Cal!OnEnd(k, raw, local)
    PROVE  tracked' \subseteq tracked /\ hint' \subseteq hint
BY DEF Cal!OnEnd

LEMMA CalRestKept == CalRest /\ Cal!Next => CalRest'
<1> SUFFICES ASSUME CalRest, Cal!Next PROVE CalRest'
  OBVIOUS
<1> USE DEF CalRest
<1>1. ASSUME NEW k \in Calls, Cal!Offer(k) \/ Cal!StartCall(k) PROVE CalRest'
  <2>1. CASE Cal!Offer(k)
    BY <2>1 DEF Cal!Offer, Cal!Track
  <2>2. CASE Cal!StartCall(k)
    BY <2>2 DEF Cal!StartCall, Cal!Track
  <2> QED BY <1>1, <2>1, <2>2
<1>2. ASSUME NEW k \in Calls, Cal!BecomesActive(k) \/ Cal!AnswerCall(k) \/ Cal!Answered(k)
      PROVE  CalRest'
  BY <1>2 DEF Cal!BecomesActive, Cal!AnswerCall, Cal!Answered, Cal!Accept
<1>3. ASSUME NEW k \in Calls, Cal!HangupCall(k) PROVE CalRest'
  <2>1. tracked' \subseteq tracked /\ hint' \subseteq hint
    BY <1>3, OnEndShrinks DEF Cal!HangupCall
  <2> QED BY <1>3, <2>1 DEF Cal!HangupCall, Cal!Crossed
<1>4. ASSUME NEW k \in Calls, Cal!RejectedOnPhone(k) \/ Cal!TellEnd(k) PROVE CalRest'
  <2>1. CASE Cal!RejectedOnPhone(k)
    BY <2>1 DEF Cal!RejectedOnPhone
  <2>2. CASE Cal!TellEnd(k)
    BY <2>2 DEF Cal!TellEnd
  <2> QED BY <1>4, <2>1, <2>2
<1>5. ASSUME NEW k \in Calls, NEW raw \in Cal!Raw, Cal!OtherSideEnds(k, raw) PROVE CalRest'
  <2>1. tracked' \subseteq tracked /\ hint' \subseteq hint /\ onAir' \subseteq onAir
    BY <1>5, OnEndShrinks DEF Cal!OtherSideEnds
  <2> QED BY <1>5, <2>1 DEF Cal!OtherSideEnds
<1>6. ASSUME NEW k \in Calls, Cal!HangUp(k) PROVE CalRest'
  <2>1. tracked' \subseteq tracked /\ hint' \subseteq hint
    BY <1>6, OnEndShrinks DEF Cal!HangUp
  <2> QED BY <1>6, <2>1 DEF Cal!HangUp, Cal!Crossed
<1>7. ASSUME NEW w \in {"free", "locked"}, Cal!Detach(w) PROVE CalRest'
  BY <1>7 DEF Cal!Detach, Cal!Removed
<1>8. CASE Cal!SetEnabled \/ \E on \in BOOLEAN : Cal!Attach(on)
  BY <1>8 DEF Cal!SetEnabled, Cal!Attach
<1> QED BY <1>1, <1>2, <1>3, <1>4, <1>5, <1>6, <1>7, <1>8 DEF Cal!Next

LEMMA AppTypesKept == AppInv /\ App!TypeOK /\ App!Next => App!TypeOK'
<1> SUFFICES ASSUME AppInv, App!TypeOK, App!Next PROVE App!TypeOK'
  OBVIOUS
<1> USE DEF App!TypeOK, App!Goto
<1>1. ASSUME NEW p \in Callers, App!PatchFails(p) PROVE App!TypeOK'
  <2>1. errors \in Nat /\ MaxErrors \in Nat /\ errors < MaxErrors /\ errors' = errors + 1
    BY <1>1, BoundsAssumption DEF App!PatchFails, AppInv
  <2>2. errors' <= MaxErrors
    BY <2>1
  <2> QED BY <1>1, <2>2 DEF App!PatchFails
<1>2. ASSUME NEW p \in Callers,
             App!Request(p) \/ App!Repair(p) \/ App!Mark(p) \/ App!Fetched(p) \/ App!FetchFails(p)
      PROVE  App!TypeOK'
  BY <1>2 DEF App!Request, App!Repair, App!Begin, App!Mark, App!Fetched, App!FetchFails
<1>3. CASE App!Expire \/ App!Network
  BY <1>3 DEF App!Expire, App!Network
<1> QED BY <1>1, <1>2, <1>3 DEF App!Next

LEMMA InsTypesKept == InsInv /\ Ins!TypeOK /\ Ins!Next => Ins!TypeOK'
<1> SUFFICES ASSUME InsInv, Ins!TypeOK, Ins!Next PROVE Ins!TypeOK'
  OBVIOUS
<1>1. InsInv'
  BY InsKeeps
<1>2. engine' \in BOOLEAN
  <2>1. row.calls \in BOOLEAN
    BY DEF InsInv, Ins!Rows
  <2> QED BY <2>1 DEF Ins!TypeOK, InsInv, Ins!Next, Ins!GetByID, Ins!Update, Ins!Reload, Ins!Erase,
                      Ins!StartCycle, Ins!EndCycle
<1>3. workers' <= cycles' /\ cycles' <= MaxCycles
  <2>1. workers \in Nat /\ cycles \in Nat /\ MaxCycles \in Nat
        /\ workers <= cycles /\ cycles <= MaxCycles
    BY BoundsAssumption DEF InsInv, Ins!TypeOK
  <2>2. CASE UNCHANGED <<workers, cycles>>
    BY <2>1, <2>2
  <2>3. CASE Ins!StartCycle
    <3>1. cycles < MaxCycles /\ cycles' = cycles + 1 /\ workers' = workers + 1
      BY <2>3 DEF Ins!StartCycle
    <3> QED BY <2>1, <3>1
  <2>4. CASE Ins!EndCycle
    <3>1. workers > 0 /\ cycles' = cycles /\ workers' = workers - 1
      BY <2>4 DEF Ins!EndCycle
    <3> QED BY <2>1, <3>1
  <2> QED BY <2>2, <2>3, <2>4 DEF Ins!Next, Ins!GetByID, Ins!Update, Ins!Reload, Ins!Erase
<1> QED BY <1>1, <1>2, <1>3 DEF InsInv, Ops, Ins!TypeOK

\* A receipt resets the session of the contact it came from, the detector that of the
\* recipient of a message that is not for a list.
RecTypes ==
    /\ state \in [Messages -> Rec!Statuses] /\ list \in [Messages -> Rec!Statuses]
    /\ wire \cup old \cup buried \cup todo \subseteq Messages
    /\ \A m \in todo : To[m] \notin Shared
    /\ handlers \subseteq given /\ given \subseteq Messages \X Rec!Types
    /\ mark \in [Contacts -> {"new", "mid", "none"}]
    /\ reset \in Contacts \cup {Rec!Nobody}

LEMMA RecTypesImply == RecTypes => Rec!TypeOK
BY DEF RecTypes, Rec!TypeOK

LEMMA RecTypesInit == Rec!Init => RecTypes
BY DEF Rec!Init, RecTypes, Rec!Statuses

LEMMA RecTypesKept == RecTypes /\ Rec!Next => RecTypes'
<1> SUFFICES ASSUME RecTypes, Rec!Next PROVE RecTypes'
  OBVIOUS
<1> USE DEF RecTypes, Rec!Statuses, Rec!Types
<1>1. ASSUME NEW m \in Messages, Rec!Accepted(m) \/ Rec!Stored(m) \/ Rec!RowAges(m) \/ Rec!NewerRows(m)
      PROVE  RecTypes'
  BY <1>1 DEF Rec!Accepted, Rec!Stored, Rec!RowAges, Rec!NewerRows
<1>2. ASSUME NEW m \in Messages, Rec!Judge(m) PROVE RecTypes'
  <2>1. CASE ~(Rec!Stuck(m) \/ Rec!Retrying(m))
    BY <1>2, <2>1 DEF Rec!Judge
  <2>2. CASE Rec!Stuck(m) \/ Rec!Retrying(m)
    <3>1. To[m] = c1 /\ c1 \in Contacts
      BY <1>2, RecipientsAssumption DEF Rec!Judge, To
    <3>2. state' \in [Messages -> Rec!Statuses] /\ list' \in [Messages -> Rec!Statuses]
      BY <1>2, <2>2 DEF Rec!Judge
    <3>3. mark' \in [Contacts -> {"new", "mid", "none"}] /\ reset' \in Contacts \cup {Rec!Nobody}
      BY <1>2, <2>2, <3>1 DEF Rec!Judge, Rec!ResetSession
    <3> QED BY <1>2, <3>2, <3>3 DEF Rec!Judge
  <2> QED BY <2>1, <2>2
<1>3. ASSUME NEW m \in Messages, NEW t \in Rec!Types, Rec!Handle(m, t) PROVE RecTypes'
  <2>1. state' \in [Messages -> Rec!Statuses]
    BY <1>3 DEF Rec!Handle
  <2>2. handlers' \subseteq handlers /\ given' = given
    BY <1>3 DEF Rec!Handle
  <2>3. handlers' \subseteq given' /\ given' \subseteq Messages \X Rec!Types
    <3> HIDE DEF Rec!Types
    <3> QED BY <2>2
  <2> QED BY <1>3, <2>1, <2>3 DEF Rec!Handle
<1>4. ASSUME NEW m \in Messages, NEW t \in Rec!Types, NEW c \in Contacts, Rec!OnReceipt(m, t, c)
      PROVE  RecTypes'
  <2>1. reset' \in Contacts \cup {Rec!Nobody}
    BY <1>4 DEF Rec!OnReceipt, Rec!ResetSession
  <2>2. handlers' \subseteq given' /\ given' \subseteq Messages \X Rec!Types
    <3>1. given' = given \cup {<<m, t>>} /\ handlers' = handlers \cup {<<m, t>>}
      BY <1>4 DEF Rec!OnReceipt
    <3>2. <<m, t>> \in Messages \X Rec!Types
      OBVIOUS
    <3> HIDE DEF Rec!Types
    <3> QED BY <3>1, <3>2
  <2> QED BY <1>4, <2>1, <2>2 DEF Rec!OnReceipt
<1>5. ASSUME NEW c \in Contacts, Rec!MarkAges(c) PROVE RecTypes'
  BY <1>5 DEF Rec!MarkAges
<1>6. CASE Rec!StartPass \/ Rec!UptimeAges \/ Rec!Reconnect
  BY <1>6 DEF Rec!StartPass, Rec!Listed, Rec!UptimeAges, Rec!Reconnect
<1>7. CASE Rec!Restart
  BY <1>7 DEF Rec!Restart
<1> QED BY <1>1, <1>2, <1>3, <1>4, <1>5, <1>6, <1>7 DEF Rec!Next

\* What the status of a row, as it is or as the detector has read it, is taken from.
Backed(r) ==
    \A m \in Messages : /\ r[m] # "none" => m \in wire
                        /\ r[m] \in Rec!Types => <<m, r[m]>> \in given

Flagged ==
    \A m \in Messages : state[m] = "failed_stuck" =>
        m \in wire /\ To[m] \notin Shared /\ (m \in old \/ <<m, "retry">> \in given)

RecInv == RecTypes /\ Backed(state) /\ Backed(list) /\ Flagged

LEMMA RecInvInit == Rec!Init => RecInv
<1> SUFFICES ASSUME Rec!Init PROVE RecInv
  OBVIOUS
<1>1. \A m \in Messages : state[m] = "none" /\ list[m] = "none"
  BY DEF Rec!Init
<1> QED BY <1>1, RecTypesInit DEF RecInv, Backed, Flagged, Rec!Types

LEMMA RecKeeps == RecInv /\ Rec!Next => RecInv'
<1> SUFFICES ASSUME RecInv, Rec!Next PROVE RecInv'
  OBVIOUS
<1>t. RecTypes /\ RecTypes'
  BY RecTypesKept DEF RecInv
<1>s. state \in [Messages -> Rec!Statuses] /\ list \in [Messages -> Rec!Statuses]
      /\ handlers \subseteq given
  BY <1>t DEF RecTypes
<1> USE DEF RecInv
<1>1. ASSUME NEW m \in Messages, Rec!Accepted(m) \/ Rec!RowAges(m) \/ Rec!NewerRows(m)
      PROVE  RecInv'
  BY <1>t, <1>1 DEF Rec!Accepted, Rec!RowAges, Rec!NewerRows, Backed, Flagged
<1>2. ASSUME NEW m \in Messages, Rec!Stored(m) PROVE RecInv'
  <2>1. m \in wire /\ state' = [state EXCEPT ![m] = "sent"] /\ "sent" \notin Rec!Types
        /\ UNCHANGED <<wire, old, given, list>>
    BY <1>2 DEF Rec!Stored, Rec!Types
  <2> QED BY <1>t, <1>s, <2>1 DEF Backed, Flagged
<1>3. ASSUME NEW m \in Messages, Rec!Judge(m) PROVE RecInv'
  <2>1. UNCHANGED <<wire, old, given>> /\ list' = [list EXCEPT ![m] = "none"]
    BY <1>3 DEF Rec!Judge
  <2>2. Backed(list)'
    BY <1>s, <2>1 DEF Backed, Rec!Types
  <2>3. CASE state' = state
    BY <1>t, <2>1, <2>2, <2>3 DEF Backed, Flagged
  <2>4. CASE state' # state
    <3>1. /\ To[m] \notin Shared /\ (Rec!Stuck(m) \/ Rec!Retrying(m))
          /\ state' = [state EXCEPT ![m] = "failed_stuck"]
      BY <1>3, <2>4 DEF Rec!Judge, RecTypes
    <3>2. m \in wire /\ (m \in old \/ <<m, "retry">> \in given)
      BY <3>1 DEF Rec!Stuck, Rec!Retrying, Backed, Rec!Types
    <3>3. "failed_stuck" \notin Rec!Types
      BY DEF Rec!Types
    <3> QED BY <1>t, <1>s, <2>1, <2>2, <3>1, <3>2, <3>3 DEF Backed, Flagged
  <2> QED BY <2>3, <2>4
<1>4. ASSUME NEW m \in Messages, NEW t \in Rec!Types, Rec!Handle(m, t) PROVE RecInv'
  <2>1. /\ UNCHANGED <<wire, old, given, list>> /\ <<m, t>> \in given /\ t # "failed_stuck"
        /\ state' = state \/ (state[m] # "none" /\ state' = [state EXCEPT ![m] = t])
    BY <1>4, <1>s DEF Rec!Handle, Rec!Types
  <2> QED BY <1>t, <1>s, <2>1 DEF Backed, Flagged
<1>5. ASSUME NEW m \in Messages, NEW t \in Rec!Types, NEW c \in Contacts, Rec!OnReceipt(m, t, c)
      PROVE  RecInv'
  <2>1. given \subseteq given' /\ UNCHANGED <<state, list, wire, old>>
    BY <1>5 DEF Rec!OnReceipt
  <2> QED BY <1>t, <2>1 DEF Backed, Flagged
<1>6. CASE Rec!UptimeAges \/ Rec!Reconnect \/ \E c \in Contacts : Rec!MarkAges(c)
  BY <1>t, <1>6 DEF Rec!UptimeAges, Rec!Reconnect, Rec!MarkAges, Backed, Flagged
<1>7. CASE Rec!StartPass
  <2>1. /\ UNCHANGED <<state, wire, old, given>> /\ "none" \notin Rec!Types
        /\ \A m \in Messages : list'[m] = state[m] \/ list'[m] = "none"
    BY <1>7 DEF Rec!StartPass, Rec!Types
  <2> QED BY <1>t, <2>1 DEF Backed, Flagged
<1>8. CASE Rec!Restart
  <2>1. /\ \A m \in Messages : list'[m] = "none"
        /\ UNCHANGED <<state, wire, old, given>> /\ "none" \notin Rec!Types
    BY <1>8 DEF Rec!Restart, Rec!Types
  <2> QED BY <1>t, <2>1 DEF Backed, Flagged
<1> QED BY <1>1, <1>2, <1>3, <1>4, <1>5, <1>6, <1>7, <1>8 DEF Rec!Next

LEMMA ConTypesInit == Con!Init => Con!TypeOK
<1> SUFFICES ASSUME Con!Init PROVE Con!TypeOK
  OBVIOUS
<1>1. {fired, telling} \subseteq Nat
  BY DEF Con!Init
<1> QED BY <1>1 DEF Con!Init, Con!TypeOK, Con!Sockets, Con!Statuses

LEMMA CalRestInit == Cal!Init => CalRest
BY DEF Cal!Init, CalRest

LEMMA Bounds ==
    /\ MaxErrors \in Nat /\ MaxCycles \in Nat /\ MaxEvents \in Nat /\ QueueSize \in Nat
    /\ MaxRetries \in Nat
BY BoundsAssumption DEF BoundsAssumption

LEMMA AppTypesInit == App!Init => App!TypeOK
<1> SUFFICES ASSUME App!Init PROVE App!TypeOK
  OBVIOUS
<1>1. errors <= MaxErrors
  BY Bounds DEF App!Init
<1> QED BY <1>1 DEF App!Init, App!TypeOK

LEMMA InsTypesInit == Ins!Init => Ins!TypeOK
<1> SUFFICES ASSUME Ins!Init PROVE Ins!TypeOK
  OBVIOUS
<1>1. InsInv
  BY InsInitInv
<1>2. engine \in BOOLEAN
  BY DEF Ins!Init, Ins!NewRow
<1>3. workers <= cycles /\ cycles <= MaxCycles
  BY Bounds DEF Ins!Init
<1> QED BY <1>1, <1>2, <1>3 DEF InsInv, Ops, Ins!TypeOK

-----------------------------------------------------------------------------
\* Webhook.  An event is a number up to `arrived'.
Pending(s) == {s[i] : i \in DOMAIN s}

WebTypes ==
    /\ redis \in BOOLEAN
    /\ arrived \in 0..MaxEvents /\ held \in 0..MaxEvents
    /\ queue \in Seq(Web!Events) /\ tasks \in Seq(Web!Events)
    /\ settled \subseteq Web!Events
    /\ Len(tasks) <= Web!ChanSize
    /\ ~redis => Len(queue) <= QueueSize
    /\ job \in [Workers -> 0..MaxEvents]
    /\ attempt \in [Workers -> 0..MaxRetries]
    /\ gone \subseteq Workers \cup {Web!Dispatcher}

LEMMA ChanIsNat == Web!ChanSize \in Nat
<1>1. Cardinality(Workers) \in Nat
  BY WorkersAssumption, FS_CardinalityType DEF WorkersAssumption
<1> QED BY <1>1 DEF Web!ChanSize, Web!Cardinality, Cardinality

LEMMA WebTypesImply == WebTypes => Web!TypeOK
BY DEF WebTypes, Web!TypeOK

LEMMA WebTypesInit == Web!Init => WebTypes
BY ChanIsNat, Bounds DEF Web!Init, WebTypes

LEMMA WebTypesKept == WebTypes /\ Web!Next => WebTypes'
<1> SUFFICES ASSUME WebTypes, Web!Next PROVE WebTypes'
  OBVIOUS
<1> USE ChanIsNat, Bounds DEF WebTypes, Web!Settle, Web!Events
<1>1. CASE Web!Enqueue
  <2>1. arrived + 1 \in 1..MaxEvents
    BY <1>1 DEF Web!Enqueue
  <2>2. settled' \subseteq 1..MaxEvents
    BY <1>1, <2>1 DEF Web!Enqueue
  <2>3. queue' \in Seq(1..MaxEvents) /\ (~redis => Len(queue') <= QueueSize)
    <3>1. CASE UNCHANGED queue
      BY <3>1
    <3>2. CASE queue' = Append(queue, arrived + 1) /\ (redis \/ Len(queue) < QueueSize)
      <4>1. Len(queue') = Len(queue) + 1 /\ Len(queue) \in Nat
        BY <3>2, <2>1
      <4> QED BY <3>2, <2>1, <4>1
    <3> QED BY <1>1, <3>1, <3>2 DEF Web!Enqueue
  <2> QED BY <1>1, <2>1, <2>2, <2>3 DEF Web!Enqueue
<1>2. CASE Web!Dequeue
  <2>1. /\ Head(queue) \in 1..MaxEvents /\ Tail(queue) \in Seq(1..MaxEvents)
        /\ Len(Tail(queue)) <= Len(queue)
    BY <1>2 DEF Web!Dequeue
  <2>2. held' \in 0..MaxEvents
    BY <1>2, <2>1 DEF Web!Dequeue
  <2>3. ~redis => Len(queue') <= QueueSize
    BY <1>2, <2>1 DEF Web!Dequeue
  <2> QED BY <1>2, <2>1, <2>2, <2>3 DEF Web!Dequeue
<1>3. CASE Web!Dispatch
  <2>1. held \in 1..MaxEvents /\ Len(tasks) < Web!ChanSize
    BY <1>3 DEF Web!Dispatch
  <2>2. tasks' \in Seq(1..MaxEvents) /\ Len(tasks') = Len(tasks) + 1
    BY <1>3, <2>1 DEF Web!Dispatch
  <2>3. Len(tasks') <= Web!ChanSize
    BY <2>1, <2>2
  <2> QED BY <1>3, <2>2, <2>3 DEF Web!Dispatch
<1>4. CASE Web!Discard \/ Web!DispatcherStops
  <2>1. /\ held' = 0
        /\ settled' = settled \/ (held # 0 /\ settled' = settled \cup {held})
    BY <1>4 DEF Web!Discard, Web!DispatcherStops
  <2>4. held # 0 => held \in 1..MaxEvents
    OBVIOUS
  <2>5. settled' \subseteq 1..MaxEvents
    BY <2>1, <2>4
  <2>2. UNCHANGED <<redis, arrived, queue, tasks, job, attempt>>
    BY <1>4 DEF Web!Discard, Web!DispatcherStops
  <2>3. gone' \subseteq Workers \cup {Web!Dispatcher}
    BY <1>4 DEF Web!Discard, Web!DispatcherStops
  <2> QED BY <2>1, <2>2, <2>3, <2>5
<1>5. ASSUME NEW w \in Workers, Web!Take(w) PROVE WebTypes'
  <2>1. /\ Head(tasks) \in 1..MaxEvents /\ Tail(tasks) \in Seq(1..MaxEvents)
        /\ Len(Tail(tasks)) <= Len(tasks)
    BY <1>5 DEF Web!Take
  <2>2. settled' \subseteq 1..MaxEvents /\ job' \in [Workers -> 0..MaxEvents]
    <3>1. /\ settled' = settled \/ settled' = settled \cup {Head(tasks)}
          /\ job' = job \/ job' = [job EXCEPT ![w] = Head(tasks)]
      BY <1>5 DEF Web!Take
    <3>2. Head(tasks) \in 0..MaxEvents
      BY <2>1
    <3> QED BY <2>1, <3>1, <3>2
  <2>3. attempt' \in [Workers -> 0..MaxRetries]
    BY <1>5 DEF Web!Take
  <2>4. tasks' \in Seq(1..MaxEvents) /\ Len(tasks') <= Web!ChanSize
    BY <1>5, <2>1 DEF Web!Take
  <2> QED BY <1>5, <2>2, <2>3, <2>4 DEF Web!Take
<1>6. ASSUME NEW w \in Workers, Web!Attempt(w) PROVE WebTypes'
  <2>1. attempt' \in [Workers -> 0..MaxRetries]
    <3>1. \/ attempt' = attempt
          \/ attempt[w] < MaxRetries /\ attempt' = [attempt EXCEPT ![w] = attempt[w] + 1]
      BY <1>6 DEF Web!Attempt, Web!Finish
    <3>2. attempt[w] < MaxRetries => attempt[w] + 1 \in 0..MaxRetries
      OBVIOUS
    <3> QED BY <3>1, <3>2
  <2>2. job' \in [Workers -> 0..MaxEvents] /\ settled' \subseteq 1..MaxEvents
    <3>1. \/ UNCHANGED <<job, settled>>
          \/ job[w] # 0 /\ settled' = settled \cup {job[w]} /\ job' = [job EXCEPT ![w] = 0]
      BY <1>6 DEF Web!Attempt, Web!Finish
    <3>2. job[w] # 0 => job[w] \in 1..MaxEvents
      OBVIOUS
    <3>3. 0 \in 0..MaxEvents
      OBVIOUS
    <3> QED BY <3>1, <3>2, <3>3
  <2> QED BY <1>6, <2>1, <2>2 DEF Web!Attempt
<1>7. CASE Web!Stop \/ Web!Stopped \/ \E w \in Workers : Web!WorkerStops(w)
  BY <1>7 DEF Web!Stop, Web!Stopped, Web!WorkerStops
<1>8. CASE Web!Restart
  <2>1. settled' \subseteq 1..MaxEvents
    BY <1>8 DEF Web!Restart
  <2>2. queue' \in Seq(1..MaxEvents) /\ (~redis => Len(queue') <= QueueSize)
    <3>1. queue' = queue \/ queue' = <<>>
      BY <1>8 DEF Web!Restart
    <3>2. <<>> \in Seq(1..MaxEvents) /\ Len(<<>>) <= QueueSize
      OBVIOUS
    <3> QED BY <3>1, <3>2
  <2>3. tasks' \in Seq(1..MaxEvents) /\ Len(tasks') <= Web!ChanSize
    BY <1>8 DEF Web!Restart
  <2>4. /\ job' \in [Workers -> 0..MaxEvents] /\ attempt' \in [Workers -> 0..MaxRetries]
        /\ held' \in 0..MaxEvents
    BY <1>8 DEF Web!Restart
  <2> QED BY <1>8, <2>1, <2>2, <2>3, <2>4 DEF Web!Restart
<1> QED BY <1>1, <1>2, <1>3, <1>4, <1>5, <1>6, <1>7, <1>8 DEF Web!Next
-----------------------------------------------------------------------------
(* What is in line for the consumer.                                         *)

Increasing(s) == \A i, j \in DOMAIN s : i < j => s[i] < s[j]

Before(A, B) == \A x \in A, y \in B : x < y

Hand == {held} \ {0}
Busy == {job[w] : w \in Workers} \ {0}

\* The workers' events, those in the channel, the dispatcher's and those in the queue.
InOrder ==
    /\ Increasing(tasks) /\ Increasing(queue)
    /\ Before(Busy, Pending(tasks)) /\ Before(Busy, Hand) /\ Before(Busy, Pending(queue))
    /\ Before(Pending(tasks), Hand) /\ Before(Pending(tasks), Pending(queue))
    /\ Before(Hand, Pending(queue))

OneWorkerEach == \A v, w \in Workers : v # w /\ job[v] = job[w] => job[v] = 0

InFlight == Busy \cup Pending(tasks) \cup Hand \cup Pending(queue)

\* An event that has arrived is in flight, or it has settled, never both.
Accounted == InFlight \subseteq 1..arrived /\ settled = (1..arrived) \ InFlight

WebInv == WebTypes /\ InOrder /\ OneWorkerEach /\ Accounted

LEMMA FirstOf ==
    ASSUME NEW S \in SUBSET Int, NEW s \in Seq(S), s # <<>>
    PROVE  /\ Pending(s) = {Head(s)} \cup Pending(Tail(s))
           /\ Increasing(s) => Increasing(Tail(s)) /\ Before({Head(s)}, Pending(Tail(s)))
<1>1. /\ Len(s) \in Nat /\ Len(s) >= 1 /\ DOMAIN s = 1..Len(s) /\ Head(s) = s[1]
      /\ Tail(s) \in Seq(S) /\ Len(Tail(s)) = Len(s) - 1 /\ DOMAIN Tail(s) = 1..(Len(s) - 1)
      /\ \A i \in 1..(Len(s) - 1) : Tail(s)[i] = s[i + 1]
  OBVIOUS
<1>2. \A i \in 1..(Len(s) - 1) : i + 1 \in 1..Len(s) /\ 1 \in 1..Len(s) /\ 1 < i + 1
  BY <1>1
<1>3. \A i \in 1..Len(s) : i = 1 \/ (i - 1 \in 1..(Len(s) - 1) /\ (i - 1) + 1 = i)
  BY <1>1
<1>4. ASSUME Increasing(s) PROVE Increasing(Tail(s))
  BY <1>1, <1>2, <1>4 DEF Increasing
<1>5. ASSUME Increasing(s) PROVE Before({Head(s)}, Pending(Tail(s)))
  BY <1>1, <1>2, <1>5 DEF Increasing, Before, Pending
<1>6. Pending(s) \subseteq {Head(s)} \cup Pending(Tail(s))
  <2> SUFFICES ASSUME NEW i \in 1..Len(s) PROVE s[i] \in {Head(s)} \cup Pending(Tail(s))
    BY <1>1 DEF Pending
  <2>1. CASE i = 1
    BY <1>1, <2>1
  <2>2. CASE i - 1 \in 1..(Len(s) - 1) /\ (i - 1) + 1 = i
    <3>1. Tail(s)[i - 1] = s[i]
      BY <1>1, <2>2
    <3> QED BY <1>1, <2>2, <3>1 DEF Pending
  <2> QED BY <1>3, <2>1, <2>2
<1>7. {Head(s)} \cup Pending(Tail(s)) \subseteq Pending(s)
  BY <1>1, <1>2 DEF Pending
<1> QED BY <1>4, <1>5, <1>6, <1>7

LEMMA LastOf ==
    ASSUME NEW S \in SUBSET Int, NEW s \in Seq(S), NEW e \in Int
    PROVE  /\ Pending(Append(s, e)) = Pending(s) \cup {e}
           /\ Increasing(s) /\ Before(Pending(s), {e}) => Increasing(Append(s, e))
<1>1. /\ Len(s) \in Nat /\ DOMAIN s = 1..Len(s)
      /\ DOMAIN Append(s, e) = 1..(Len(s) + 1)
      /\ \A i \in 1..Len(s) : Append(s, e)[i] = s[i]
      /\ Append(s, e)[Len(s) + 1] = e
  OBVIOUS
<1>2. \A i \in 1..(Len(s) + 1) : i \in 1..Len(s) \/ i = Len(s) + 1
  BY <1>1
<1>3. Len(s) + 1 \in 1..(Len(s) + 1) /\ 1..Len(s) \subseteq 1..(Len(s) + 1)
  BY <1>1
<1>4. Pending(Append(s, e)) = Pending(s) \cup {e}
  BY <1>1, <1>2, <1>3 DEF Pending
<1>5. ASSUME Increasing(s), Before(Pending(s), {e}) PROVE Increasing(Append(s, e))
  <2> SUFFICES ASSUME NEW i \in 1..(Len(s) + 1), NEW j \in 1..(Len(s) + 1), i < j
               PROVE  Append(s, e)[i] < Append(s, e)[j]
    BY <1>1 DEF Increasing
  <2>1. i \in 1..Len(s)
    BY <1>1
  <2>2. CASE j \in 1..Len(s)
    BY <1>1, <1>5, <2>1, <2>2 DEF Increasing
  <2>3. CASE j = Len(s) + 1
    BY <1>1, <1>5, <2>1, <2>3 DEF Before, Pending
  <2> QED BY <1>2, <2>2, <2>3
<1> QED BY <1>4, <1>5

LEMMA Apart ==
    ASSUME NEW A \in SUBSET Int, NEW B \in SUBSET Int, Before(A, B)
    PROVE  A \cap B = {}
<1> SUFFICES ASSUME NEW x \in A, x \in B PROVE FALSE
  OBVIOUS
<1>1. x \in Int /\ x < x
  BY DEF Before
<1> QED BY <1>1

LEMMA FlightTypes ==
    ASSUME WebTypes
    PROVE  /\ Busy \subseteq Web!Events /\ Hand \subseteq Web!Events
           /\ Pending(tasks) \subseteq Web!Events /\ Pending(queue) \subseteq Web!Events
           /\ Web!Events \subseteq Int /\ Web!Events \in SUBSET Int
<1>1. Web!Events = 1..MaxEvents /\ MaxEvents \in Nat
  BY Bounds DEF Web!Events
<1>2. Web!Events \subseteq Int
  BY <1>1
<1>3. \A e \in 0..MaxEvents : e # 0 => e \in Web!Events
  BY <1>1
<1>4. Busy \subseteq Web!Events /\ Hand \subseteq Web!Events
  BY <1>3 DEF WebTypes, Busy, Hand
<1>5. Pending(tasks) \subseteq Web!Events /\ Pending(queue) \subseteq Web!Events
  BY DEF WebTypes, Pending
<1> QED BY <1>2, <1>4, <1>5

LEMMA WebInvInit == Web!Init => WebInv
<1> SUFFICES ASSUME Web!Init PROVE WebInv
  OBVIOUS
<1>1. WebTypes
  BY WebTypesInit
<1>2. Busy = {} /\ Hand = {} /\ Pending(tasks) = {} /\ Pending(queue) = {}
  BY DEF Web!Init, Busy, Hand, Pending
<1>3. Increasing(tasks) /\ Increasing(queue)
  BY DEF Web!Init, Increasing
<1>4. 1..arrived = {} /\ settled = {}
  BY DEF Web!Init
<1>5. OneWorkerEach
  BY DEF Web!Init, OneWorkerEach
<1> QED BY <1>1, <1>2, <1>3, <1>4, <1>5 DEF WebInv, InOrder, Accounted, InFlight, Before

LEMMA WebKeeps == WebInv /\ Web!Next => WebInv'
<1> SUFFICES ASSUME WebInv, Web!Next PROVE WebInv'
  OBVIOUS
<1>t. WebTypes /\ WebTypes'
  BY WebTypesKept DEF WebInv
<1>i. /\ Busy \subseteq Int /\ Hand \subseteq Int
      /\ Pending(tasks) \subseteq Int /\ Pending(queue) \subseteq Int
      /\ arrived \in Nat /\ Web!Events \in SUBSET Int
      /\ queue \in Seq(Web!Events) /\ tasks \in Seq(Web!Events)
  BY <1>t, FlightTypes DEF WebTypes
<1>d. /\ Busy \cap Pending(tasks) = {} /\ Busy \cap Hand = {} /\ Busy \cap Pending(queue) = {}
      /\ Pending(tasks) \cap Hand = {} /\ Pending(tasks) \cap Pending(queue) = {}
      /\ Hand \cap Pending(queue) = {}
  BY <1>i, Apart DEF WebInv, InOrder
<1> USE DEF WebInv
<1>1. CASE Web!Enqueue
  <2>1. arrived' = arrived + 1 /\ UNCHANGED <<tasks, held, job>>
    BY <1>1 DEF Web!Enqueue
  <2>2. 1..(arrived + 1) = 1..arrived \cup {arrived + 1} /\ arrived + 1 \notin 1..arrived
        /\ Before(1..arrived, {arrived + 1}) /\ arrived + 1 \in Int
    BY <1>i DEF Before
  <2>3. OneWorkerEach' /\ Busy' = Busy /\ Hand' = Hand /\ Pending(tasks)' = Pending(tasks)
        /\ Increasing(tasks)'
    BY <2>1 DEF OneWorkerEach, Busy, Hand, Pending, Increasing, InOrder
  <2>4. CASE queue' = Append(queue, arrived + 1) /\ UNCHANGED settled
    <3>1. Before(Pending(queue), {arrived + 1})
      BY <2>2 DEF Accounted, InFlight, Before
    <3>2. Pending(queue)' = Pending(queue) \cup {arrived + 1} /\ Increasing(queue)'
      BY <1>i, <2>2, <2>4, <3>1, LastOf DEF InOrder
    <3>3. InOrder'
      BY <2>2, <2>3, <3>2 DEF InOrder, Accounted, InFlight, Before
    <3>4. Accounted'
      BY <2>1, <2>2, <2>3, <2>4, <3>2 DEF Accounted, InFlight
    <3> QED BY <1>t, <2>3, <3>3, <3>4
  <2>5. CASE settled' = settled \cup {arrived + 1} /\ UNCHANGED queue
    <3>1. Pending(queue)' = Pending(queue) /\ Increasing(queue)'
      BY <2>5 DEF Pending, Increasing, InOrder
    <3>2. InOrder'
      BY <2>3, <3>1 DEF InOrder
    <3>3. Accounted'
      BY <2>1, <2>2, <2>3, <2>5, <3>1 DEF Accounted, InFlight
    <3> QED BY <1>t, <2>3, <3>2, <3>3
  <2> QED BY <1>1, <2>4, <2>5 DEF Web!Enqueue, Web!Settle
<1>2. CASE Web!Dequeue
  <2>1. UNCHANGED <<arrived, tasks, job, settled>> /\ queue # <<>>
        /\ held = 0 /\ held' = Head(queue) /\ queue' = Tail(queue)
    BY <1>2 DEF Web!Dequeue
  <2>2. /\ Pending(queue) = {Head(queue)} \cup Pending(Tail(queue))
        /\ Increasing(Tail(queue)) /\ Before({Head(queue)}, Pending(Tail(queue)))
    BY <1>i, <2>1, FirstOf DEF InOrder
  <2>3. Head(queue) # 0
    BY <2>2 DEF Accounted, InFlight
  <2>4. /\ Hand = {} /\ Hand' = {Head(queue)} /\ Busy' = Busy
        /\ Pending(tasks)' = Pending(tasks) /\ Pending(queue)' = Pending(Tail(queue))
    BY <2>1, <2>3 DEF Hand, Busy, Pending
  <2>5. InOrder'
    <3>1. Increasing(tasks)' /\ Increasing(queue)'
      BY <2>1, <2>2 DEF InOrder, Increasing
    <3> QED BY <2>2, <2>4, <3>1 DEF InOrder, Before
  <2>6. OneWorkerEach' /\ Accounted'
    BY <2>1, <2>2, <2>4 DEF OneWorkerEach, Accounted, InFlight
  <2> QED BY <1>t, <2>5, <2>6
<1>3. CASE Web!Dispatch
  <2>1. UNCHANGED <<arrived, queue, job, settled>> /\ held # 0 /\ held' = 0
        /\ tasks' = Append(tasks, held)
    BY <1>3 DEF Web!Dispatch
  <2>2. Hand = {held} /\ Hand' = {} /\ Busy' = Busy /\ Pending(queue)' = Pending(queue)
    BY <2>1 DEF Hand, Busy, Pending
  <2>3. Pending(tasks)' = Pending(tasks) \cup {held} /\ Increasing(tasks)'
    BY <1>i, <2>1, <2>2, LastOf DEF InOrder
  <2>4. InOrder'
    <3>1. Increasing(queue)'
      BY <2>1 DEF InOrder, Increasing
    <3> QED BY <2>2, <2>3, <3>1 DEF InOrder, Before
  <2>5. OneWorkerEach' /\ Accounted'
    BY <2>1, <2>2, <2>3 DEF OneWorkerEach, Accounted, InFlight
  <2> QED BY <1>t, <2>4, <2>5
<1>4. CASE Web!Discard \/ Web!DispatcherStops
  <2>1. UNCHANGED <<arrived, queue, tasks, job>> /\ held' = 0 /\ settled' = settled \cup Hand
    BY <1>4 DEF Web!Discard, Web!DispatcherStops, Web!Settle, Hand
  <2>2. Hand' = {} /\ Busy' = Busy /\ Pending(queue)' = Pending(queue)
        /\ Pending(tasks)' = Pending(tasks)
    BY <2>1 DEF Hand, Busy, Pending
  <2>3. InOrder'
    <3>1. Increasing(tasks)' /\ Increasing(queue)'
      BY <2>1 DEF InOrder, Increasing
    <3> QED BY <2>2, <3>1 DEF InOrder, Before
  <2>4. Hand \cap (Busy \cup Pending(tasks) \cup Pending(queue)) = {}
    BY <1>d
  <2>5. OneWorkerEach' /\ Accounted'
    BY <2>1, <2>2, <2>4 DEF OneWorkerEach, Accounted, InFlight
  <2> QED BY <1>t, <2>3, <2>5
<1>5. ASSUME NEW w \in Workers, Web!Take(w) PROVE WebInv'
  <2>1. UNCHANGED <<arrived, queue, held>> /\ tasks # <<>> /\ tasks' = Tail(tasks) /\ job[w] = 0
    BY <1>5 DEF Web!Take
  <2>2. /\ Pending(tasks) = {Head(tasks)} \cup Pending(Tail(tasks))
        /\ Increasing(Tail(tasks)) /\ Before({Head(tasks)}, Pending(Tail(tasks)))
    BY <1>i, <2>1, FirstOf DEF InOrder
  <2>3. /\ Hand' = Hand /\ Pending(tasks)' = Pending(Tail(tasks)) /\ Pending(queue)' = Pending(queue)
        /\ Increasing(tasks)' /\ Increasing(queue)'
    BY <2>1, <2>2 DEF Hand, Pending, InOrder, Increasing
  <2>4. CASE job' = [job EXCEPT ![w] = Head(tasks)] /\ UNCHANGED settled
    <3>1. Head(tasks) # 0
      BY <2>2 DEF Accounted, InFlight
    <3>2. Busy' = Busy \cup {Head(tasks)}
      BY <1>t, <2>1, <2>4, <3>1 DEF WebTypes, Busy
    <3>3. InOrder'
      BY <2>2, <2>3, <3>2 DEF InOrder, Before
    <3>4. OneWorkerEach'
      <4>1. Head(tasks) \notin Busy
        BY <1>d, <2>2
      <4> QED BY <1>t, <2>4, <4>1, <3>1 DEF WebTypes, OneWorkerEach, Busy
    <3>5. Accounted'
      BY <2>1, <2>2, <2>3, <2>4, <3>2 DEF Accounted, InFlight
    <3> QED BY <1>t, <3>3, <3>4, <3>5
  <2>5. CASE settled' = settled \cup {Head(tasks)} /\ UNCHANGED job
    <3>1. Busy' = Busy
      BY <2>5 DEF Busy
    <3>2. InOrder'
      BY <2>2, <2>3, <3>1 DEF InOrder, Before
    <3>3. Head(tasks) \notin Busy \cup Hand \cup Pending(Tail(tasks)) \cup Pending(queue)
      <4>1. Head(tasks) \in Int /\ Pending(Tail(tasks)) \subseteq Int
        BY <1>i, <2>2
      <4>2. {Head(tasks)} \cap Pending(Tail(tasks)) = {}
        BY <2>2, <4>1, Apart
      <4> QED BY <1>d, <2>2, <4>2
    <3>4. OneWorkerEach' /\ Accounted'
      BY <2>1, <2>2, <2>3, <2>5, <3>1, <3>3 DEF OneWorkerEach, Accounted, InFlight
    <3> QED BY <1>t, <3>2, <3>4
  <2> QED BY <1>5, <2>4, <2>5 DEF Web!Take, Web!Settle
<1>6. ASSUME NEW w \in Workers, Web!Attempt(w) PROVE WebInv'
  <2>1. UNCHANGED <<arrived, queue, tasks, held>> /\ job[w] # 0
    BY <1>6 DEF Web!Attempt
  <2>2. /\ Hand' = Hand /\ Pending(tasks)' = Pending(tasks) /\ Pending(queue)' = Pending(queue)
        /\ Increasing(tasks)' /\ Increasing(queue)'
    BY <2>1 DEF Hand, Pending, InOrder, Increasing
  <2>3. CASE job' = [job EXCEPT ![w] = 0] /\ settled' = settled \cup {job[w]}
    <3>1. Busy' = Busy \ {job[w]} /\ job[w] \in Busy
      BY <1>t, <2>1, <2>3 DEF WebTypes, OneWorkerEach, Busy
    <3>2. InOrder'
      BY <2>2, <3>1 DEF InOrder, Before
    <3>3. OneWorkerEach'
      BY <1>t, <2>3 DEF WebTypes, OneWorkerEach
    <3>4. job[w] \notin Hand \cup Pending(tasks) \cup Pending(queue)
      BY <1>d, <3>1
    <3>5. Accounted'
      BY <2>1, <2>2, <2>3, <3>1, <3>4 DEF Accounted, InFlight
    <3> QED BY <1>t, <3>2, <3>3, <3>5
  <2>4. CASE UNCHANGED <<job, settled>>
    <3>1. Busy' = Busy
      BY <2>4 DEF Busy
    <3>2. OneWorkerEach' /\ Accounted' /\ InOrder'
      BY <2>1, <2>2, <2>4, <3>1 DEF OneWorkerEach, Accounted, InFlight, InOrder
    <3> QED BY <1>t, <3>2
  <2> QED BY <1>6, <2>3, <2>4 DEF Web!Attempt, Web!Finish, Web!Settle
<1>7. CASE Web!Stop \/ Web!Stopped \/ \E w \in Workers : Web!WorkerStops(w)
  <2>1. UNCHANGED <<arrived, queue, tasks, held, job, settled>>
    BY <1>7 DEF Web!Stop, Web!Stopped, Web!WorkerStops
  <2> QED BY <1>t, <2>1 DEF InOrder, OneWorkerEach, Accounted, InFlight, Busy, Hand, Pending, Increasing
<1>8. CASE Web!Restart
  <2>1. /\ arrived' = arrived /\ held' = 0 /\ tasks' = <<>> /\ job' = [w \in Workers |-> 0]
        /\ \/ queue' = queue /\ settled' = 1..arrived \ Pending(queue)
           \/ queue' = <<>> /\ settled' = 1..arrived
    BY <1>8 DEF Web!Restart, Pending
  <2>2. Busy' = {} /\ Hand' = {} /\ Pending(tasks)' = {} /\ Increasing(tasks)' /\ OneWorkerEach'
    BY <2>1 DEF Busy, Hand, Pending, Increasing, OneWorkerEach
  <2>3. /\ Increasing(queue)'
        /\ \/ Pending(queue)' = Pending(queue) /\ settled' = 1..arrived \ Pending(queue)
           \/ Pending(queue)' = {} /\ settled' = 1..arrived
    BY <2>1 DEF Pending, Increasing, InOrder
  <2>4. InOrder' /\ Accounted'
    BY <2>1, <2>2, <2>3 DEF InOrder, Before, Accounted, InFlight
  <2> QED BY <1>t, <2>2, <2>4
<1> QED BY <1>1, <1>2, <1>3, <1>4, <1>5, <1>6, <1>7, <1>8 DEF Web!Next
\* A goroutine of the pool that has returned left nothing behind.
Returned ==
    /\ \A w \in Workers \cap gone : job[w] = 0
    /\ Web!Dispatcher \in gone => held = 0
    /\ pool = "running" => gone = {}
    /\ pool = "stopped" => gone = Workers \cup {Web!Dispatcher}

AtRest == pool = "stopped" => held = 0 /\ \A w \in Workers : job[w] = 0

LEMMA ReturnedInit == Web!Init => Returned
BY DEF Web!Init, Returned

LEMMA ReturnedKept == WebTypes /\ Returned /\ Web!Next => Returned'
<1> SUFFICES ASSUME WebTypes, Returned, Web!Next PROVE Returned'
  OBVIOUS
<1>j. job \in [Workers -> 0..MaxEvents]
  BY DEF WebTypes
<1>w. Web!Dispatcher \notin Workers
  BY WorkersAssumption DEF WorkersAssumption, Web!Dispatcher
<1> USE DEF Returned
<1>1. CASE Web!Enqueue
  BY <1>1 DEF Web!Enqueue
<1>2. CASE Web!Dequeue \/ Web!Dispatch \/ Web!Discard
  BY <1>2 DEF Web!Dequeue, Web!Dispatch, Web!Discard
<1>3. CASE Web!DispatcherStops
  BY <1>3, <1>w DEF Web!DispatcherStops, Web!Cancelled
<1>4. ASSUME NEW w \in Workers, Web!Take(w) PROVE Returned'
  BY <1>4, <1>j DEF Web!Take
<1>5. ASSUME NEW w \in Workers, Web!Attempt(w) PROVE Returned'
  BY <1>5, <1>j DEF Web!Attempt, Web!Finish
<1>6. ASSUME NEW w \in Workers, Web!WorkerStops(w) PROVE Returned'
  BY <1>6, <1>w DEF Web!WorkerStops, Web!Cancelled
<1>7. CASE Web!Stop \/ Web!Stopped
  BY <1>7 DEF Web!Stop, Web!Stopped
<1>8. CASE Web!Restart
  BY <1>8 DEF Web!Restart
<1> QED BY <1>1, <1>2, <1>3, <1>4, <1>5, <1>6, <1>7, <1>8 DEF Web!Next

LEMMA ReturnedImplies == Returned => AtRest
BY DEF Returned, AtRest
-----------------------------------------------------------------------------
(* The bridge.  A step of it moves the variables of one part.                *)

BridgeInv == ConInv /\ AppInv /\ InsInv /\ CalInv

LEMMA ConInvImplies == ConInv => ReconnectIsOwed
BY DEF ConInv, ReconnectIsOwed, Con!ReconnectIsOwed

LEMMA BridgeInitInv == BridgeInit => BridgeInv
BY ConInitInv, AppInitInv, InsInitInv, CalInitInv DEF BridgeInit, BridgeInv

LEMMA BridgeKeeps == BridgeInv /\ [BridgeNext]_vars => BridgeInv'
<1> SUFFICES ASSUME BridgeInv, [BridgeNext]_vars PROVE BridgeInv'
  OBVIOUS
<1>1. /\ Con!Next \/ UNCHANGED conVars
      /\ App!Next \/ UNCHANGED appVars
      /\ Ins!Next \/ UNCHANGED insVars
      /\ Cal!Next \/ UNCHANGED calVars
  BY DEF BridgeNext, vars
<1>2. ConInv'
  <2>1. CASE UNCHANGED conVars
    BY <2>1, ConQuiet DEF BridgeInv, conVars
  <2> QED BY <1>1, <2>1, ConKeeps DEF BridgeInv
<1>3. AppInv'
  <2>1. CASE UNCHANGED appVars
    BY <2>1 DEF BridgeInv, AppInv, Fetching, appVars
  <2> QED BY <1>1, <2>1, AppKeeps DEF BridgeInv
<1>4. InsInv'
  <2>1. CASE UNCHANGED insVars
    BY <2>1 DEF BridgeInv, InsInv, insVars
  <2> QED BY <1>1, <2>1, InsKeeps DEF BridgeInv
<1>5. CalInv'
  <2>1. CASE UNCHANGED calVars
    BY <2>1, CalQuiet DEF BridgeInv, calVars
  <2> QED BY <1>1, <2>1, CalKeeps DEF BridgeInv
<1> QED BY <1>2, <1>3, <1>4, <1>5 DEF BridgeInv

\* The invariants of the four parts hold together, whatever part runs.
THEOREM BridgeInvariance == BridgeSpec => []BridgeInv
<1> QED BY BridgeInitInv, BridgeKeeps, PTL DEF BridgeSpec

\* The client of an instance has auto-reconnect, or a ban's cool-down is to turn it on
\* again (events.go: cooldownInstance; session.go: restoreSessionIfExists).
THEOREM ReconnectAlwaysOwed == BridgeSpec => []ReconnectIsOwed
<1> QED BY BridgeInvariance, ConInvImplies, PTL DEF BridgeInv

\* Full syncs of a collection run one at a time, however many callers ask for one, and
\* none is started by another's failure (appstate.go: ResyncAppState marks the collection
\* before it fetches).
THEOREM ResyncsDoNotPile == BridgeSpec => []NoResyncStorm
<1> QED BY BridgeInvariance, AppInvImplies, PTL DEF BridgeInv

\* As long as no update of the row has undone another, the client has a call engine if
\* and only if the row says so, or a caller has still to reload it (instance/service.go: Update).
THEOREM EngineFollowsRow == BridgeSpec => []EngineFollows
<1> QED BY BridgeInvariance, InsInvImplies, PTL DEF BridgeInv

\* As long as no update of the row has undone another, a history sync shown as running
\* has a worker (history_sync.go; instance/service.go: Update writes the whole row).
THEOREM RunningIsRun == BridgeSpec => []RunningHasWorker
<1> QED BY BridgeInvariance, InsInvImplies, PTL DEF BridgeInv

\* The consumer is told once of the end of a call whose engine was not removed, and once
\* of the answer of any, for any interleaving of the engine's callbacks, the handlers and
\* WhatsApp's events (calls.go: OnEnd, engineEndsCall, AnswerCall, detachCalls).
THEOREM EndToldOnce == BridgeSpec => []EndedOnce
<1> QED BY BridgeInvariance, CalInvImplies, PTL DEF BridgeInv

\* A call told as answered is not told missed or cancelled afterwards (calls.go:
\* endReason asks whether the call was active before it asks who hung up).
THEOREM ReasonAlwaysFits == BridgeSpec => []ReasonFits
<1> QED BY BridgeInvariance, CalInvImplies, PTL DEF BridgeInv
-----------------------------------------------------------------------------
(* The types of all parts.                                                   *)

Typing == /\ Con!TypeOK /\ CalRest /\ App!TypeOK /\ Ins!TypeOK
          /\ RecInv /\ NorTypes /\ WebInv /\ Returned

LEMMA TypingInit == BridgeInit => Typing
BY ConTypesInit, CalRestInit, AppTypesInit, InsTypesInit, RecInvInit, NorTypesInit, WebInvInit, ReturnedInit
   DEF BridgeInit, Typing

LEMMA TypingImplies == BridgeInv /\ Typing => TypeOK
BY CalTypesSplit, RecTypesImply, NorTypesImply, WebTypesImply
   DEF BridgeInv, CalInv, Typing, RecInv, WebInv, TypeOK

LEMMA TypingKeeps == BridgeInv /\ Typing /\ [BridgeNext]_vars => Typing'
<1> SUFFICES ASSUME BridgeInv, Typing, [BridgeNext]_vars PROVE Typing'
  OBVIOUS
<1>1. /\ Con!Next \/ UNCHANGED conVars
      /\ Cal!Next \/ UNCHANGED calVars
      /\ App!Next \/ UNCHANGED appVars
      /\ Ins!Next \/ UNCHANGED insVars
      /\ Rec!Next \/ UNCHANGED recVars
      /\ Nor!Next \/ UNCHANGED norVars
      /\ Web!Next \/ UNCHANGED webVars
  BY DEF BridgeNext, vars
<1>2. Con!TypeOK'
  <2>1. CASE UNCHANGED conVars
    BY <2>1 DEF Typing, conVars, Con!TypeOK
  <2> QED BY <1>1, <2>1, ConTypesKept DEF Typing
<1>3. CalRest'
  <2>1. CASE UNCHANGED calVars
    BY <2>1 DEF Typing, calVars, CalRest
  <2> QED BY <1>1, <2>1, CalRestKept DEF Typing
<1>4. App!TypeOK'
  <2>1. CASE UNCHANGED appVars
    BY <2>1 DEF Typing, appVars, App!TypeOK
  <2> QED BY <1>1, <2>1, AppTypesKept DEF BridgeInv, Typing
<1>5. Ins!TypeOK'
  <2>1. CASE UNCHANGED insVars
    BY <2>1 DEF Typing, insVars, Ins!TypeOK
  <2> QED BY <1>1, <2>1, InsTypesKept DEF BridgeInv, Typing
<1>6. RecInv'
  <2>1. CASE UNCHANGED recVars
    BY <2>1 DEF Typing, recVars, RecInv, RecTypes, Backed, Flagged
  <2> QED BY <1>1, <2>1, RecKeeps DEF Typing
<1>7. NorTypes'
  <2>1. CASE UNCHANGED norVars
    BY <2>1 DEF Typing, norVars, NorTypes
  <2> QED BY <1>1, <2>1, NorTypesKept DEF Typing
<1>8. WebInv'
  <2>1. CASE UNCHANGED webVars
    BY <2>1 DEF Typing, webVars, WebInv, WebTypes, InOrder, OneWorkerEach, Accounted, InFlight,
                Busy, Hand, Pending, Increasing
  <2> QED BY <1>1, <2>1, WebKeeps DEF Typing
<1>9. Returned'
  <2>1. CASE UNCHANGED webVars
    BY <2>1 DEF Typing, webVars, Returned
  <2> QED BY <1>1, <2>1, ReturnedKept DEF Typing, WebInv
<1> QED BY <1>2, <1>3, <1>4, <1>5, <1>6, <1>7, <1>8, <1>9 DEF Typing

LEMMA TypingInvariance == BridgeSpec => [](BridgeInv /\ Typing)
<1> QED BY BridgeInitInv, BridgeKeeps, TypingInit, TypingKeeps, PTL DEF BridgeSpec

\* The variables of every part keep their types: among them, a session that is reset is a
\* contact's, never a group's (events.go, receipt_handler.go: checkStuckMessages); the task
\* channel and the memory queue keep within their bounds (webhook/pool.go, pkg/queue); and
\* only an engine that is being removed has calls to hang up (calls.go: detachCalls).
THEOREM TypesAreKept == BridgeSpec => []TypeOK
<1> QED BY TypingInvariance, TypingImplies, PTL

\* Every event that has arrived is in one place: settled, or in the queue, with the
\* dispatcher, in the task channel or with one worker; and the workers take events in the
\* order in which they came, however the pool is stopped and the process restarted
\* (webhook/pool.go: runDispatcher, runWorker; event_handler.go: Handle).
THEOREM EventsAreInOnePlace == BridgeSpec => [](Accounted /\ OneWorkerEach /\ InOrder)
<1>1. Typing => Accounted /\ OneWorkerEach /\ InOrder
  BY DEF Typing, WebInv
<1> QED BY <1>1, TypingInvariance, PTL

\* When Stop has returned, no event is with the dispatcher or a worker: what was under way
\* has settled (webhook/pool.go: Stop waits for runDispatcher and every runWorker).
THEOREM StopLeavesNothing == BridgeSpec => []AtRest
<1>1. Typing => AtRest
  BY ReturnedImplies DEF Typing
<1> QED BY <1>1, TypingInvariance, PTL

\* The detector gives up only on a message that WhatsApp took, that went to a person, and
\* whose row is older than the time-out or that was asked for again, although it judges
\* rows as it read them (receipt_handler.go: checkStuckMessages).
THEOREM FlaggedWasStuck == BridgeSpec => []Flagged
<1>1. Typing => Flagged
  BY DEF Typing, RecInv
<1> QED BY <1>1, TypingInvariance, PTL
=============================================================================
