---------------------------- MODULE SessionProofs ----------------------------
(***************************************************************************)
(* Proofs about Session, for any number of callers and clients.  Only a    *)
(* restore takes m.mu and only the end of that restore gives it back;      *)
(* every other section that puts a client into the map or hands one to a   *)
(* caller waits for it, or takes a client nobody has.                      *)
(***************************************************************************)
EXTENDS Session, TLAPS

Ops == {"none", "boot", "getQR", "getClient", "delete", "reload", "create"}
Steps == {"idle", "look", "restore", "joining", "hung", "discard", "check", "dial", "publish", "wait",
          "unpaired", "forget", "recheck", "drop", "unmap", "logout", "clear", "erase"}

Typed ==
    /\ pc \in [Callers -> Steps]
    /\ op \in [Callers -> Ops]

IInv == TypeOK /\ Typed /\ RestoreIsExclusive

\* What of a caller's state a step of it may leave behind: it does not join a restore, and
\* where it uses a client it has one.
Moves(p) ==
    \E l \in Steps \ Restoring, o \in Ops, c \in Clients \cup {NoClient} :
        /\ pc' = [pc EXCEPT ![p] = l]
        /\ op' = [op EXCEPT ![p] = o]
        /\ got' = [got EXCEPT ![p] = c]
        /\ l \in {"publish", "wait", "unpaired", "unmap", "logout"} => c # NoClient

\* The rest of a step that leaves the mutex alone.
Quiet ==
    /\ UNCHANGED mu
    /\ {postgres', saved', qrCtx', code', paired'} \subseteq BOOLEAN
    /\ clients' \in Clients \cup {NoClient}
    /\ cl' \in [Clients -> ClientStates]
    /\ monitor' \in [Clients -> MonitorStates]
    /\ mu # NoCaller => clients' = clients

\* The invariant holds at the start of the process.
LEMMA InitInv == Init => IInv
<1> SUFFICES ASSUME Init PROVE IInv
  OBVIOUS
<1>1. {postgres, saved, qrCtx, code, paired} \subseteq BOOLEAN
  BY DEF Init
<1>2. /\ clients = NoClient /\ mu = NoCaller
      /\ cl \in [Clients -> ClientStates]
      /\ monitor \in [Clients -> MonitorStates]
      /\ got \in [Callers -> Clients \cup {NoClient}]
      /\ pc = [p \in Callers |-> "idle"]
      /\ Typed
  BY DEF Init, ClientStates, MonitorStates, Typed, Ops, Steps
<1> QED BY <1>1, <1>2, ConstantsAssumption DEF IInv, TypeOK, RestoreIsExclusive, Restoring

\* A step that leaves the mutex alone, of one caller who does not hold it, keeps the
\* invariant if the caller gets no client that the holder has.
LEMMA QuietMove ==
    ASSUME IInv, Quiet, NEW p \in Callers, Moves(p), p # mu,
           mu # NoCaller => got'[p] # got[mu]
    PROVE  IInv'
<1>1. TypeOK' /\ Typed'
  BY ConstantsAssumption DEF IInv, TypeOK, Typed, Quiet, Moves, Restoring
<1>2. RestoreIsExclusive'
  BY ConstantsAssumption DEF IInv, TypeOK, Typed, RestoreIsExclusive, Quiet, Moves
<1> QED BY <1>1, <1>2 DEF IInv

\* So does one of no caller at all.
LEMMA QuietStill ==
    ASSUME IInv, Quiet, UNCHANGED <<pc, op, got>>
    PROVE  IInv'
BY ConstantsAssumption DEF IInv, TypeOK, Typed, RestoreIsExclusive, Quiet
-----------------------------------------------------------------------------
(* The ways a caller's state moves.                                         *)

Needy == {"publish", "wait", "unpaired", "unmap", "logout"}

LEMMA GotoMoves ==
    ASSUME IInv, NEW p \in Callers, NEW l \in Steps \ Restoring, Goto(p, l),
           l \in Needy => got[p] # NoClient
    PROVE  Moves(p) /\ got' = got
<1> DEFINE o == op[p]
           c == got[p]
<1>1. o \in Ops /\ c \in Clients \cup {NoClient}
  BY DEF IInv, TypeOK, Typed
<1>2. /\ pc' = [pc EXCEPT ![p] = l]
      /\ op' = [op EXCEPT ![p] = o]
      /\ got' = [got EXCEPT ![p] = c]
  BY DEF Goto, IInv, TypeOK, Typed
<1>3. l \in Needy => c # NoClient
  OBVIOUS
<1> HIDE DEF o, c
<1> QED BY <1>1, <1>2, <1>3 DEF Moves, Needy, Goto

LEMMA HoldingMoves ==
    ASSUME IInv, NEW p \in Callers, NEW c \in Clients \cup {NoClient},
           NEW l \in Steps \ Restoring, Holding(p, c, l), l \in Needy => c # NoClient
    PROVE  Moves(p) /\ got'[p] = c
<1> DEFINE o == op[p]
<1>1. o \in Ops
  BY DEF IInv, Typed
<1>2. op' = [op EXCEPT ![p] = o] /\ got'[p] = c
  BY DEF Holding, IInv, TypeOK, Typed
<1> HIDE DEF o
<1> QED BY <1>1, <1>2 DEF Moves, Needy, Holding

LEMMA ReturnMoves ==
    ASSUME IInv, NEW p \in Callers, Return(p)
    PROVE  Moves(p) /\ got'[p] = NoClient
<1>1. "idle" \in Steps \ Restoring /\ "none" \in Ops /\ "idle" \notin Needy
  BY DEF Steps, Restoring, Ops, Needy
<1> QED BY <1>1 DEF Moves, Needy, Return, IInv, TypeOK

LEMMA ToRestoreMoves ==
    ASSUME IInv, NEW p \in Callers, ToRestore(p)
    PROVE  Moves(p) /\ got'[p] = NoClient
<1>1. "restore" \in Steps \ Restoring /\ "getClient" \in Ops /\ "restore" \notin Needy
  BY DEF Steps, Restoring, Ops, Needy
<1> QED BY <1>1 DEF Moves, Needy, ToRestore, IInv, TypeOK

\* What a caller does with the answer of a restore.
LEMMA RestoredMoves ==
    ASSUME IInv, NEW p \in Callers, NEW c \in Clients \cup {NoClient}, Restored(p, c)
    PROVE  Moves(p)
<1>1. CASE op[p] = "delete"
  <2>1. Holding(p, c, IF c = NoClient THEN "clear" ELSE "unmap")
    BY <1>1 DEF Restored
  <2> QED BY <2>1, HoldingMoves DEF Steps, Restoring, Needy
<1>2. CASE op[p] \in {"getQR", "create"} /\ ~LoggedIn(c)
  <2>1. Holding(p, NoClient, "discard")
    BY <1>2 DEF Restored
  <2> QED BY <2>1, HoldingMoves DEF Steps, Restoring, Needy
<1>3. CASE op[p] # "delete" /\ ~(op[p] \in {"getQR", "create"} /\ ~LoggedIn(c))
  <2>1. Return(p)
    BY <1>3 DEF Restored
  <2> QED BY <2>1, ReturnMoves
<1> QED BY <1>1, <1>2, <1>3
-----------------------------------------------------------------------------
(* Steps of a caller that leave the mutex alone.                            *)

\* A caller's step that is not of a restore.
LEMMA CallerStep ==
    ASSUME IInv, NEW p \in Callers, pc[p] \notin Restoring, Quiet, Moves(p),
           mu # NoCaller => got'[p] \in {got[p], NoClient}
    PROVE  IInv'
<1>1. p # mu
  BY DEF IInv, RestoreIsExclusive
<1>2. mu # NoCaller => got[mu] # NoClient /\ got[p] # got[mu]
  BY <1>1 DEF IInv, TypeOK, RestoreIsExclusive, Restoring
<1> QED BY <1>1, <1>2, QuietMove

\* With m.mu free, one that leaves the map and the clients well-typed.
LEMMA FreeStep ==
    ASSUME IInv, NEW p \in Callers, Free, Moves(p),
           UNCHANGED mu,
           {postgres', saved', qrCtx', code', paired'} \subseteq BOOLEAN,
           clients' \in Clients \cup {NoClient},
           cl' \in [Clients -> ClientStates],
           monitor' \in [Clients -> MonitorStates]
    PROVE  IInv'
<1>1. Quiet /\ p # mu
  BY ConstantsAssumption DEF Quiet, Free
<1> QED BY <1>1, QuietMove DEF Free
-----------------------------------------------------------------------------
(* restoreSessionIfExists.                                                  *)

\* A caller who takes the mutex does so with a client nobody else has.
LEMMA TakesMutex ==
    ASSUME IInv, NEW p \in Callers, NEW c \in Clients, NEW s \in ClientStates,
           NEW l \in Restoring, Free, clients = NoClient, Fresh(c), NewClient(c, s),
           mu' = p, Holding(p, c, l), UNCHANGED <<clients, code, qrCtx, paired, storeVars>>
    PROVE  IInv'
<1>1. l \in Steps
  BY DEF Restoring, Steps
<1>2. TypeOK'
  <2>1. cl' \in [Clients -> ClientStates] /\ monitor' \in [Clients -> MonitorStates]
    BY DEF NewClient, IInv, TypeOK, MonitorStates
  <2>2. {postgres', saved', qrCtx', code', paired'} \subseteq BOOLEAN /\ clients' = NoClient
    BY DEF storeVars, IInv, TypeOK
  <2>3. got' \in [Callers -> Clients \cup {NoClient}]
    BY DEF Holding, IInv, TypeOK
  <2>4. \A q \in Callers : pc'[q] \in {"joining", "hung", "publish", "wait", "unpaired", "unmap", "logout"}
                           => got'[q] # NoClient
    BY ConstantsAssumption DEF Holding, IInv, TypeOK, Typed
  <2> QED BY <2>1, <2>2, <2>3, <2>4 DEF TypeOK
<1>3. Typed'
  BY <1>1 DEF Holding, IInv, Typed
<1>4. RestoreIsExclusive'
  <2>1. \A q \in Callers \ {p} : got'[q] = got[q] /\ got[q] # c /\ got'[p] = c
    BY DEF Fresh, Holding, IInv, TypeOK
  <2>2. \A q \in Callers : pc'[q] \in Restoring <=> q = p
    BY ConstantsAssumption DEF Holding, Free, IInv, Typed, RestoreIsExclusive
  <2> QED BY <2>1, <2>2 DEF RestoreIsExclusive
<1> QED BY <1>2, <1>3, <1>4 DEF IInv

LEMMA RestoreBeginKeeps ==
    ASSUME IInv, NEW p \in Callers, RestoreBegin(p)
    PROVE  IInv'
<1> USE DEF RestoreBegin
<1>1. CASE clients # NoClient
  <2>1. Moves(p)
    BY <1>1, RestoredMoves DEF IInv, TypeOK
  <2> QED BY <1>1, <2>1, FreeStep DEF IInv, TypeOK, storeVars
<1>2. CASE clients = NoClient
  <2>1. PICK c \in Clients :
            /\ Fresh(c) /\ NewClient(c, "joining")
            /\ mu' = p /\ Holding(p, c, "joining")
    BY <1>2
  <2>2. "joining" \in Restoring /\ "joining" \in ClientStates
    BY DEF Restoring, ClientStates
  <2> QED BY <1>2, <2>1, <2>2, TakesMutex
<1> QED BY <1>1, <1>2

LEMMA RestoreHangKeeps ==
    ASSUME IInv, NEW p \in Callers, RestoreHang(p)
    PROVE  IInv'
<1>1. PICK c \in Clients : Fresh(c) /\ NewClient(c, "down") /\ Holding(p, c, "hung")
  BY DEF RestoreHang
<1>2. "hung" \in Restoring /\ "down" \in ClientStates
  BY DEF Restoring, ClientStates
<1> QED BY <1>1, <1>2, TakesMutex DEF RestoreHang

LEMMA RestoreMissKeeps ==
    ASSUME IInv, NEW p \in Callers, RestoreMiss(p)
    PROVE  IInv'
<1>1. Moves(p)
  BY RestoredMoves DEF RestoreMiss
<1> QED BY <1>1, FreeStep DEF RestoreMiss, IInv, TypeOK, pairingVars, storeVars

\* The end of a restore, either way: the mutex is given back.
LEMMA RestoreOver ==
    ASSUME IInv, NEW p \in Callers, pc[p] \in Restoring, Moves(p),
           mu' = NoCaller,
           UNCHANGED <<pairingVars, storeVars>>,
           clients' \in Clients \cup {NoClient},
           cl' \in [Clients -> ClientStates]
    PROVE  IInv'
<1>1. TypeOK' /\ Typed'
  BY DEF IInv, TypeOK, Typed, Moves, Restoring, pairingVars, storeVars
<1>2. p = mu
  BY DEF IInv, RestoreIsExclusive
<1>3. \A q \in Callers : pc'[q] \notin Restoring
  BY <1>2 DEF Moves, IInv, Typed, RestoreIsExclusive
<1>4. RestoreIsExclusive'
  BY <1>3, ConstantsAssumption DEF RestoreIsExclusive
<1> QED BY <1>1, <1>4 DEF IInv

LEMMA RestoreFailKeeps ==
    ASSUME IInv, NEW p \in Callers, RestoreFail(p)
    PROVE  IInv'
<1>1. Moves(p)
  BY RestoredMoves DEF RestoreFail
<1>2. cl' \in [Clients -> ClientStates]
  BY DEF RestoreFail, Down, IInv, TypeOK, ClientStates
<1> QED BY <1>1, <1>2, RestoreOver DEF RestoreFail, Restoring, IInv, TypeOK

LEMMA RestoreEndKeeps ==
    ASSUME IInv, NEW p \in Callers, RestoreEnd(p)
    PROVE  IInv'
<1>1. got[p] \in Clients \cup {NoClient}
  BY DEF IInv, TypeOK
<1>2. Moves(p)
  BY <1>1, RestoredMoves DEF RestoreEnd
<1> QED BY <1>1, <1>2, RestoreOver DEF RestoreEnd, Restoring, IInv, TypeOK
-----------------------------------------------------------------------------
(* createSession.                                                           *)

LEMMA CreateBeginKeeps ==
    ASSUME IInv, NEW p \in Callers, CreateBegin(p)
    PROVE  IInv'
<1> USE DEF CreateBegin
<1>1. Moves(p)
  <2>1. CASE clients # NoClient
    BY <2>1, ReturnMoves
  <2>2. CASE clients = NoClient /\ ~postgres /\ saved
    <3>1. "restore" \in Steps \ Restoring /\ "create" \in Ops /\ "restore" \notin Needy
      BY DEF Steps, Restoring, Ops, Needy
    <3>2. /\ pc' = [pc EXCEPT ![p] = "restore"]
          /\ op' = [op EXCEPT ![p] = "create"]
          /\ UNCHANGED got
      BY <2>2
    <3>3. got[p] \in Clients \cup {NoClient} /\ got' = [got EXCEPT ![p] = got[p]]
      BY <3>2 DEF IInv, TypeOK
    <3> HIDE DEF CreateBegin
    <3> QED BY <3>1, <3>2, <3>3 DEF Moves, Needy
  <2>3. CASE clients = NoClient /\ ~(~postgres /\ saved)
    <3>1. Goto(p, "dial")
      BY <2>3
    <3> QED BY <3>1, GotoMoves DEF Steps, Restoring, Needy
  <2> QED BY <2>1, <2>2, <2>3
<1> QED BY <1>1, FreeStep DEF IInv, TypeOK, pairingVars, storeVars

LEMMA DiscardKeeps ==
    ASSUME IInv, NEW p \in Callers, Discard(p)
    PROVE  IInv'
<1> USE DEF Discard
<1> DEFINE l == IF op[p] = "create" THEN "dial" ELSE "check"
<1>1. l \in Steps \ Restoring /\ l \notin Needy /\ "getQR" \in Ops
  BY DEF Steps, Restoring, Needy, Ops
<1>2. got[p] \in Clients \cup {NoClient} /\ got' = [got EXCEPT ![p] = got[p]]
  BY DEF IInv, TypeOK
<1>3. Moves(p)
  BY <1>1, <1>2 DEF Moves, Needy
<1>4. Quiet
  BY DEF Quiet, IInv, TypeOK, pairingVars
<1> QED BY <1>2, <1>3, <1>4, CallerStep DEF Restoring

LEMMA CreateDialKeeps ==
    ASSUME IInv, NEW p \in Callers, CreateDial(p)
    PROVE  IInv'
<1> USE DEF CreateDial
<1>1. CASE Return(p) /\ UNCHANGED <<cl, monitor>>
  <2>1. Quiet
    BY <1>1 DEF Quiet, IInv, TypeOK, storeVars
  <2> QED BY <1>1, <2>1, ReturnMoves, CallerStep DEF Restoring
<1>2. CASE \E c \in Clients : Fresh(c) /\ NewClient(c, "linking") /\ Holding(p, c, "publish")
  <2>1. PICK c \in Clients : Fresh(c) /\ NewClient(c, "linking") /\ Holding(p, c, "publish")
    BY <1>2
  <2>2. Moves(p) /\ got'[p] = c
    BY <2>1, HoldingMoves, ConstantsAssumption DEF Steps, Restoring
  <2>3. Quiet
    BY <2>1 DEF Quiet, NewClient, IInv, TypeOK, storeVars, ClientStates, MonitorStates
  <2>4. mu # NoCaller => mu \in Callers /\ got[mu] # c
    BY <2>1 DEF Fresh, IInv, TypeOK
  <2>5. p # mu
    BY DEF IInv, RestoreIsExclusive, Restoring
  <2> QED BY <2>2, <2>3, <2>4, <2>5, QuietMove
<1> QED BY <1>1, <1>2

LEMMA CreatePublishKeeps ==
    ASSUME IInv, NEW p \in Callers, CreatePublish(p)
    PROVE  IInv'
<1> USE DEF CreatePublish
<1>1. {postgres', saved', qrCtx', code', paired'} \subseteq BOOLEAN
  BY DEF IInv, TypeOK, storeVars
<1>2. monitor' \in [Clients -> MonitorStates]
  BY DEF IInv, TypeOK, MonitorStates
<1> QED BY <1>1, <1>2, ReturnMoves, FreeStep DEF IInv, TypeOK
-----------------------------------------------------------------------------
(* GetQR.                                                                   *)

LEMMA QrLookKeeps ==
    ASSUME IInv, NEW p \in Callers, QrLook(p)
    PROVE  IInv'
<1> USE DEF QrLook
<1>1. Moves(p)
  <2>1. CASE code \/ LoggedIn(clients)
    <3>1. Return(p)
      BY <2>1 DEF LoggedIn
    <3> QED BY <3>1, ReturnMoves
  <2>2. CASE ~(code \/ LoggedIn(clients)) /\ clients = NoClient
    <3>1. Goto(p, "restore")
      BY <2>2
    <3> QED BY <3>1, GotoMoves DEF Steps, Restoring, Needy
  <2>3. CASE ~(code \/ LoggedIn(clients)) /\ clients # NoClient
    <3>1. Holding(p, clients, IF qrCtx THEN "wait" ELSE "unpaired")
      BY <2>3
    <3> QED BY <2>3, <3>1, HoldingMoves DEF Steps, Restoring, IInv, TypeOK
  <2> QED BY <2>1, <2>2, <2>3
<1> QED BY <1>1, FreeStep DEF IInv, TypeOK, pairingVars, storeVars

LEMMA GiveUpMoves ==
    ASSUME IInv, NEW p \in Callers, GiveUp(p, got[p])
    PROVE  Moves(p) /\ cl' \in [Clients -> ClientStates]
<1>1. cl' \in [Clients -> ClientStates]
  BY DEF GiveUp, Down, IInv, TypeOK, ClientStates
<1>2. Holding(p, NoClient, "forget")
  BY DEF GiveUp
<1> QED BY <1>1, <1>2, HoldingMoves DEF Steps, Restoring, Needy

LEMMA QrWaitKeeps ==
    ASSUME IInv, NEW p \in Callers, QrWait(p)
    PROVE  IInv'
<1> USE DEF QrWait
<1>1. CASE Return(p) /\ UNCHANGED cl
  <2>1. Quiet
    BY <1>1 DEF Quiet, IInv, TypeOK, pairingVars, storeVars
  <2> QED BY <1>1, <2>1, ReturnMoves, CallerStep DEF Restoring
<1>2. CASE Free /\ Goto(p, "check") /\ UNCHANGED cl
  <2>1. Moves(p)
    BY <1>2, GotoMoves DEF Steps, Restoring, Needy
  <2> QED BY <1>2, <2>1, FreeStep DEF IInv, TypeOK, pairingVars, storeVars
<1>3. CASE Free /\ GiveUp(p, got[p])
  BY <1>3, GiveUpMoves, FreeStep DEF IInv, TypeOK, pairingVars, storeVars
<1> QED BY <1>1, <1>2, <1>3

LEMMA QrUnpairedKeeps ==
    ASSUME IInv, NEW p \in Callers, QrUnpaired(p)
    PROVE  IInv'
<1>1. Moves(p) /\ cl' \in [Clients -> ClientStates]
  BY ReturnMoves, GiveUpMoves DEF QrUnpaired, IInv, TypeOK
<1> QED BY <1>1, FreeStep DEF QrUnpaired, IInv, TypeOK, pairingVars, storeVars

LEMMA QrForgetKeeps ==
    ASSUME IInv, NEW p \in Callers, QrForget(p)
    PROVE  IInv'
<1> USE DEF QrForget
<1>1. Moves(p)
  BY GotoMoves DEF Steps, Restoring, Needy
<1>2. {postgres', saved', qrCtx', code', paired'} \subseteq BOOLEAN
  BY DEF IInv, TypeOK, storeVars
<1> QED BY <1>1, <1>2, FreeStep DEF IInv, TypeOK
-----------------------------------------------------------------------------
(* GetClient and ReloadClient.                                              *)

LEMMA ClientLookKeeps ==
    ASSUME IInv, NEW p \in Callers, ClientLook(p)
    PROVE  IInv'
<1> USE DEF ClientLook
<1>1. ToRestore(p) \/ Return(p) \/ Goto(p, "recheck")
  OBVIOUS
<1>2. Moves(p)
  BY <1>1, ToRestoreMoves, ReturnMoves, GotoMoves DEF Steps, Restoring, Needy
<1> QED BY <1>2, FreeStep DEF IInv, TypeOK, pairingVars, storeVars

LEMMA ClientRecheckKeeps ==
    ASSUME IInv, NEW p \in Callers, ClientRecheck(p)
    PROVE  IInv'
<1>1. Moves(p)
  BY ReturnMoves, GotoMoves DEF ClientRecheck, Steps, Restoring, Needy
<1> QED BY <1>1, FreeStep DEF ClientRecheck, IInv, TypeOK, pairingVars, storeVars

LEMMA ClientDropKeeps ==
    ASSUME IInv, NEW p \in Callers, ClientDrop(p)
    PROVE  IInv'
BY ToRestoreMoves, FreeStep DEF ClientDrop, IInv, TypeOK, pairingVars, storeVars

LEMMA ReloadKeeps ==
    ASSUME IInv, NEW p \in Callers, Reload(p)
    PROVE  IInv'
<1>1. Moves(p)
  BY ToRestoreMoves, ReturnMoves DEF Reload
<1>2. cl' \in [Clients -> ClientStates]
  BY DEF Reload, Down, IInv, TypeOK, ClientStates
<1> QED BY <1>1, <1>2, FreeStep DEF Reload, IInv, TypeOK, pairingVars, storeVars
-----------------------------------------------------------------------------
(* DeleteSession.                                                           *)

LEMMA DeleteBeginKeeps ==
    ASSUME IInv, NEW p \in Callers, DeleteBegin(p)
    PROVE  IInv'
<1> USE DEF DeleteBegin
<1>1. Moves(p)
  <2>1. clients \in Clients \cup {NoClient}
    BY DEF IInv, TypeOK
  <2> QED BY <2>1, HoldingMoves DEF Steps, Restoring, Needy
<1>2. {postgres', saved', qrCtx', code', paired'} \subseteq BOOLEAN
  BY DEF IInv, TypeOK, storeVars
<1> QED BY <1>1, <1>2, FreeStep DEF IInv, TypeOK

LEMMA DeleteUnmapKeeps ==
    ASSUME IInv, NEW p \in Callers, DeleteUnmap(p)
    PROVE  IInv'
<1> USE DEF DeleteUnmap
<1>1. got[p] # NoClient
  BY DEF IInv, TypeOK
<1>2. Moves(p)
  BY <1>1, GotoMoves DEF Steps, Restoring
<1> QED BY <1>2, FreeStep DEF IInv, TypeOK, pairingVars, storeVars

LEMMA DeleteLogoutKeeps ==
    ASSUME IInv, NEW p \in Callers, DeleteLogout(p)
    PROVE  IInv'
<1> USE DEF DeleteLogout
<1>1. Moves(p) /\ got'[p] = NoClient
  BY HoldingMoves DEF Steps, Restoring, Needy
<1>2. {postgres', saved', qrCtx', code', paired'} \subseteq BOOLEAN
  BY DEF DeviceDeleted, IInv, TypeOK, pairingVars
<1>3. Quiet
  BY <1>2 DEF Quiet, Down, IInv, TypeOK, ClientStates, pairingVars
<1> QED BY <1>1, <1>3, CallerStep DEF Restoring

LEMMA DeleteClearKeeps ==
    ASSUME IInv, NEW p \in Callers, DeleteClear(p)
    PROVE  IInv'
<1> USE DEF DeleteClear
<1>1. Moves(p) /\ got' = got
  BY GotoMoves DEF Steps, Restoring, Needy
<1>2. Quiet
  BY DEF Quiet, IInv, TypeOK, pairingVars
<1> QED BY <1>1, <1>2, CallerStep DEF Restoring

LEMMA DeleteEraseKeeps ==
    ASSUME IInv, NEW p \in Callers, DeleteErase(p)
    PROVE  IInv'
<1> USE DEF DeleteErase
<1>1. Quiet
  BY DEF Quiet, IInv, TypeOK, pairingVars
<1> QED BY <1>1, ReturnMoves, CallerStep DEF Restoring

\* A request arrives.
LEMMA CallKeeps ==
    ASSUME IInv, NEW p \in Callers,
           NEW o \in {"boot", "getQR", "getClient", "delete", "reload"}, Call(p, o)
    PROVE  IInv'
<1> USE DEF Call
<1>1. Quiet
  BY DEF Quiet, IInv, TypeOK, pairingVars, storeVars
<1>2. CASE o = "boot"
  BY <1>1, <1>2, ToRestoreMoves, CallerStep DEF Restoring
<1>3. CASE o # "boot"
  <2>1. "look" \in Steps \ Restoring /\ "look" \notin Needy /\ o \in Ops
    BY DEF Steps, Restoring, Needy, Ops
  <2>2. got[p] \in Clients \cup {NoClient} /\ got' = [got EXCEPT ![p] = got[p]]
    BY <1>3 DEF IInv, TypeOK
  <2>3. Moves(p)
    BY <1>3, <2>1, <2>2 DEF Moves, Needy
  <2> QED BY <1>1, <2>2, <2>3, CallerStep DEF Restoring
<1> QED BY <1>2, <1>3
-----------------------------------------------------------------------------
(* The monitors of QR channels, and what is outside.                        *)

LEMMA MonitorStepKeeps ==
    ASSUME IInv, NEW c \in Clients, MonitorStep(c)
    PROVE  IInv'
<1>1. UNCHANGED <<mu, pc, op, got>>
  BY DEF MonitorStep, MonitorCode, MonitorTimeout, MonitorSuccess, MonitorSaveRow, MonitorClean,
         MonitorUnmap, callerVars
<1>2. monitor' \in [Clients -> MonitorStates]
  BY DEF MonitorStep, MonitorCode, MonitorTimeout, MonitorSuccess, MonitorSaveRow, MonitorClean,
         MonitorUnmap, Monitor, IInv, TypeOK, MonitorStates
<1>3. clients' \in {clients, NoClient} /\ (~Free => clients' = clients)
  BY DEF MonitorStep, MonitorCode, MonitorTimeout, MonitorSuccess, MonitorSaveRow, MonitorClean,
         MonitorUnmap
<1>4. cl' \in [Clients -> ClientStates]
  BY DEF MonitorStep, MonitorCode, MonitorTimeout, MonitorSuccess, MonitorSaveRow, MonitorClean,
         MonitorUnmap, Down, IInv, TypeOK, ClientStates
<1>5. {postgres', saved', qrCtx', code', paired'} \subseteq BOOLEAN
  <2>1. CASE MonitorCode(c) \/ MonitorTimeout(c) \/ MonitorSuccess(c)
    BY <2>1 DEF MonitorCode, MonitorTimeout, MonitorSuccess, storeVars, IInv, TypeOK
  <2>2. CASE MonitorSaveRow(c)
    BY <2>2 DEF MonitorSaveRow, IInv, TypeOK
  <2>3. CASE MonitorClean(c)
    BY <2>3 DEF MonitorClean, storeVars, IInv, TypeOK
  <2>4. CASE MonitorUnmap(c)
    BY <2>4 DEF MonitorUnmap, IInv, TypeOK
  <2> QED BY <2>1, <2>2, <2>3, <2>4 DEF MonitorStep
<1>6. Quiet
  BY <1>1, <1>2, <1>3, <1>4, <1>5 DEF Quiet, Free, IInv, TypeOK
<1> QED BY <1>1, <1>6, QuietStill

\* WhatsApp logs the device out, and a caller sets about deleting the session.
LEMMA ServerLogsOutKeeps ==
    ASSUME IInv, NEW c \in Clients, ServerLogsOut(c)
    PROVE  IInv'
<1>1. PICK p \in Callers : /\ pc[p] = "idle"
                           /\ pc' = [pc EXCEPT ![p] = "look"]
                           /\ op' = [op EXCEPT ![p] = "delete"]
  BY DEF ServerLogsOut
<1>2. UNCHANGED <<monitor, mu, got, postgres, clients, code, qrCtx, paired>>
  BY DEF ServerLogsOut, Becomes
<1>3. cl' \in [Clients -> ClientStates]
  BY DEF ServerLogsOut, Becomes, IInv, TypeOK, ClientStates
<1>4. saved' \in BOOLEAN
  BY DEF ServerLogsOut, DeviceDeleted, IInv, TypeOK
<1>5. Quiet
  BY <1>2, <1>3, <1>4 DEF Quiet, IInv, TypeOK
<1>6. Moves(p)
  <2>1. "look" \in Steps \ Restoring /\ "look" \notin Needy /\ "delete" \in Ops
    BY DEF Steps, Restoring, Needy, Ops
  <2>2. got[p] \in Clients \cup {NoClient} /\ got' = [got EXCEPT ![p] = got[p]]
    BY <1>2 DEF IInv, TypeOK
  <2> QED BY <1>1, <2>1, <2>2 DEF Moves, Needy
<1> QED BY <1>1, <1>2, <1>5, <1>6, CallerStep DEF Restoring

LEMMA EnvironmentKeeps ==
    ASSUME IInv, Environment
    PROVE  IInv'
<1>1. ASSUME NEW c \in Clients, PhonePairs(c) PROVE IInv'
  <2>1. Quiet
    <3>1. saved' \in BOOLEAN
      BY <1>1 DEF PhonePairs, IInv, TypeOK
    <3>2. cl' \in [Clients -> ClientStates] /\ monitor' \in [Clients -> MonitorStates]
      BY <1>1 DEF PhonePairs, Becomes, Monitor, IInv, TypeOK, ClientStates, MonitorStates
    <3>3. UNCHANGED <<postgres, clients, code, qrCtx, paired, mu>>
      BY <1>1 DEF PhonePairs, Becomes, callerVars
    <3> QED BY <3>1, <3>2, <3>3 DEF Quiet, IInv, TypeOK
  <2> QED BY <1>1, <2>1, QuietStill DEF PhonePairs, callerVars
<1>2. ASSUME NEW c \in Clients, LogsIn(c) \/ Drops(c) PROVE IInv'
  <2>1. Quiet
    BY <1>2 DEF LogsIn, Drops, Becomes, callerVars, Quiet, IInv, TypeOK, ClientStates
  <2> QED BY <1>2, <2>1, QuietStill DEF LogsIn, Drops, callerVars
<1>3. ASSUME NEW c \in Clients, ChannelEnds(c) PROVE IInv'
  <2>1. Quiet
    BY <1>3 DEF ChannelEnds, Monitor, callerVars, storeVars, Quiet, IInv, TypeOK, MonitorStates
  <2> QED BY <1>3, <2>1, QuietStill DEF ChannelEnds, callerVars
<1>4. CASE PairingAges
  <2>1. Quiet
    BY <1>4 DEF PairingAges, callerVars, storeVars, Quiet, IInv, TypeOK
  <2> QED BY <1>4, <2>1, QuietStill DEF PairingAges, callerVars
<1> QED BY <1>1, <1>2, <1>3, <1>4, ServerLogsOutKeeps DEF Environment
-----------------------------------------------------------------------------
LEMMA CallerKeeps ==
    ASSUME IInv, NEW p \in Callers, Step(p)
    PROVE  IInv'
BY RestoreBeginKeeps, RestoreHangKeeps, RestoreMissKeeps, RestoreFailKeeps, RestoreEndKeeps, CreateBeginKeeps,
   DiscardKeeps, CreateDialKeeps, CreatePublishKeeps, QrLookKeeps, QrWaitKeeps, QrUnpairedKeeps,
   QrForgetKeeps, ClientLookKeeps, ClientRecheckKeeps, ClientDropKeeps, ReloadKeeps,
   DeleteBeginKeeps, DeleteUnmapKeeps, DeleteLogoutKeeps, DeleteClearKeeps, DeleteEraseKeeps
   DEF Step, Restore, Create, GetQR, GetClient, Delete

LEMMA NextKeeps == IInv /\ [Next]_vars => IInv'
<1> SUFFICES ASSUME IInv, [Next]_vars PROVE IInv'
  OBVIOUS
<1>1. CASE Next
  BY <1>1, CallKeeps, CallerKeeps, MonitorStepKeeps, EnvironmentKeeps DEF Next
<1>2. CASE UNCHANGED vars
  <2>1. Quiet /\ UNCHANGED <<pc, op, got>>
    BY <1>2 DEF Quiet, vars, IInv, TypeOK
  <2> QED BY <2>1, QuietStill
<1> QED BY <1>1, <1>2

\* The inductive invariant of the session manager: types, what callers hold, and what a
\* restore that holds m.mu keeps to itself.
THEOREM Invariance == Spec => []IInv
BY InitInv, NextKeeps, PTL DEF Spec

\* Every variable of the session manager keeps its type, and a step that uses a client
\* finds one: no caller comes to a connect, a disconnect or a logout with nothing in hand.
THEOREM TypeCorrect == Spec => []TypeOK
<1>1. IInv => TypeOK
  BY DEF IInv
<1> QED BY <1>1, Invariance, PTL

\* While a session is restored the instance has no other client and gets none, and one
\* caller restores at a time (session.go: m.mu is held through the whole attempt).
THEOREM OneRestore == Spec => []RestoreIsExclusive
<1>1. IInv => RestoreIsExclusive
  BY DEF IInv
<1> QED BY <1>1, Invariance, PTL
=============================================================================
