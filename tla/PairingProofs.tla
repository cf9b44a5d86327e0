---------------------------- MODULE PairingProofs ----------------------------
(***************************************************************************)
(* PairingSurvives of Session, for any number of callers and clients: a    *)
(* client that a phone has just paired is not thrown away by requests      *)
(* that look at it too early.  The argument is about a client that alone   *)
(* has a QR channel, and goes through the steps of the callers, of the QR  *)
(* monitors and of the environment.                                        *)
(***************************************************************************)
EXTENDS SessionProofs

-----------------------------------------------------------------------------
(* As long as the instance has had no other QR channel since its client's   *)
(* was opened, the instance's QR context and code are that channel's        *)
(* (Tied), so that a caller who finds the client not logged in waits for    *)
(* the code or sees the pairing, and does not give it up.                   *)

Deleting == {"unmap", "logout", "clear", "erase"}
GivingUp == {"forget", "drop"}

\* The instance's client is c, and its QR channel the only one.
Alone(c) ==
    /\ clients = c
    /\ \A d \in Clients \ {c} : monitor[d] = "none"
    /\ \A p \in Callers : pc[p] # "publish"

Tied(c) ==
    /\ monitor[c] \in {"open", "shown", "success", "saving", "paired"} => qrCtx = TRUE
    /\ monitor[c] \in {"shown", "success", "saving", "paired"} => code = TRUE
    /\ monitor[c] = "done" => qrCtx = FALSE
    /\ monitor[c] = "success" => \A p \in Callers : pc[p] \notin GivingUp \cup {"unpaired"}
    /\ monitor[c] \in {"saving", "paired", "done"} /\ paired = TRUE
           => \A p \in Callers : pc[p] \notin GivingUp

Restores == \A p \in Callers : pc[p] = "joining" => monitor[got[p]] = "none"
Deletes == \A p \in Callers : pc[p] \in Deleting => op[p] = "delete"

\* A client that is about to be published is its caller's alone.
Dials == \A p \in Callers : pc[p] = "publish" =>
             /\ got[p] # clients
             /\ monitor[got[p]] = "none"
             /\ cl[got[p]] \in {"linking", "down"}
             /\ \A q \in Callers \ {p} : got[q] # got[p]

\* A client whose QR channel has not been scanned is not logged in.
Links == \A c \in Clients : monitor[c] \in {"open", "shown", "closed"} => cl[c] \in {"linking", "down"}

Steady == Restores /\ Deletes /\ Dials /\ Links

PInv == Steady /\ \A c \in Clients : Alone(c) => Tied(c)

\* What a step of p leaves alone of the others.
Others(p) ==
    \A q \in Callers \ {p} : pc'[q] = pc[q] /\ op'[q] = op[q] /\ got'[q] = got[q]

LEMMA Shapes ==
    ASSUME IInv, NEW p \in Callers
    PROVE  /\ \A l : Goto(p, l) => Others(p) /\ pc'[p] = l /\ op'[p] = op[p] /\ got'[p] = got[p]
           /\ \A c, l : Holding(p, c, l) => Others(p) /\ pc'[p] = l /\ op'[p] = op[p] /\ got'[p] = c
           /\ Return(p) => Others(p) /\ pc'[p] = "idle" /\ got'[p] = NoClient
           /\ ToRestore(p) => Others(p) /\ pc'[p] = "restore" /\ got'[p] = NoClient
<1>1. /\ pc \in [Callers -> Steps] /\ op \in [Callers -> Ops]
      /\ got \in [Callers -> Clients \cup {NoClient}]
  BY DEF IInv, TypeOK, Typed
<1>2. \A l : Goto(p, l) => Others(p) /\ pc'[p] = l /\ op'[p] = op[p] /\ got'[p] = got[p]
  BY <1>1 DEF Goto, Others
<1>3. \A c, l : Holding(p, c, l) => Others(p) /\ pc'[p] = l /\ op'[p] = op[p] /\ got'[p] = c
  BY <1>1 DEF Holding, Others
<1>4. Return(p) => Others(p) /\ pc'[p] = "idle" /\ got'[p] = NoClient
  BY <1>1 DEF Return, Others
<1>5. ToRestore(p) => Others(p) /\ pc'[p] = "restore" /\ got'[p] = NoClient
  BY <1>1 DEF ToRestore, Others
<1> QED BY <1>2, <1>3, <1>4, <1>5

LEMMA RestoredShape ==
    ASSUME IInv, NEW p \in Callers, NEW c, Restored(p, c)
    PROVE  /\ Others(p) /\ pc'[p] \in {"clear", "unmap", "discard", "idle"} /\ got'[p] \in {NoClient, c}
           /\ pc'[p] \in Deleting => op'[p] = "delete"
<1>1. CASE op[p] = "delete"
  <2>1. Holding(p, c, IF c = NoClient THEN "clear" ELSE "unmap")
    BY <1>1 DEF Restored
  <2> QED BY <1>1, <2>1, Shapes
<1>2. CASE op[p] \in {"getQR", "create"} /\ ~LoggedIn(c)
  <2>1. Holding(p, NoClient, "discard")
    BY <1>2 DEF Restored
  <2> QED BY <2>1, Shapes DEF Deleting
<1>3. CASE op[p] # "delete" /\ ~(op[p] \in {"getQR", "create"} /\ ~LoggedIn(c))
  <2>1. Return(p)
    BY <1>3 DEF Restored
  <2> QED BY <2>1, Shapes DEF Deleting
<1> QED BY <1>1, <1>2, <1>3
-----------------------------------------------------------------------------
(* Steps that leave the QR channels alone.                                  *)

Given(p) ==
    /\ Others(p)
    /\ pc'[p] \notin {"joining", "publish"}
    /\ pc'[p] \in Deleting => op'[p] = "delete"
    /\ got'[p] \in {got[p], clients, NoClient}

\* No client comes up.
Lowers == \A d \in Clients : cl'[d] \in {cl[d], "down"}

LEMMA DownLowers ==
    ASSUME IInv, UNCHANGED cl \/ \E c : cl' = Down(c)
    PROVE  Lowers
BY DEF Lowers, Down, IInv, TypeOK

LEMMA GivenKeeps ==
    ASSUME IInv, PInv, NEW p \in Callers, Given(p), Lowers, UNCHANGED monitor,
           clients' \in {clients, NoClient} \/ (pc[p] = "joining" /\ clients' = got[p])
    PROVE  Steady'
<1>1. Restores' /\ Deletes'
  BY DEF PInv, Steady, Restores, Deletes, Given, Others
<1>2. Links'
  BY DEF PInv, Steady, Links, Lowers
<1>3. ASSUME NEW q \in Callers, pc'[q] = "publish"
      PROVE  /\ got'[q] # clients' /\ monitor'[got'[q]] = "none"
             /\ cl'[got'[q]] \in {"linking", "down"}
             /\ \A r \in Callers \ {q} : got'[r] # got'[q]
  <2>1. q # p /\ pc[q] = "publish" /\ got'[q] = got[q] /\ got[q] \in Clients
    BY <1>3 DEF Given, Others, IInv, TypeOK
  <2>2. /\ got[q] # clients /\ monitor[got[q]] = "none" /\ cl[got[q]] \in {"linking", "down"}
        /\ \A r \in Callers \ {q} : got[r] # got[q]
    BY <2>1 DEF PInv, Steady, Dials
  <2>3. cl'[got[q]] \in {cl[got[q]], "down"}
    BY <2>1 DEF Lowers
  <2>4. \A r \in Callers \ {q} : got'[r] # got[q]
    BY <2>1, <2>2, ConstantsAssumption DEF Given, Others
  <2> QED BY <2>1, <2>2, <2>3, <2>4, ConstantsAssumption
<1> QED BY <1>1, <1>2, <1>3 DEF Steady, Dials

\* A caller's step that changes neither the map nor the pairing.
LEMMA PlainKeeps ==
    ASSUME IInv, PInv, NEW p \in Callers, Given(p), Lowers, pc[p] # "publish",
           UNCHANGED <<clients, pairingVars>>,
           pc'[p] = "unpaired" => ~qrCtx,
           pc'[p] = "forget" => (~code /\ qrCtx) \/ (pc[p] = "unpaired" /\ ~paired),
           pc'[p] = "drop" => ~qrCtx /\ ~paired
    PROVE  PInv'
<1> USE DEF pairingVars
<1>1. Steady'
  BY GivenKeeps
<1>2. ASSUME NEW c \in Clients, Alone(c)' PROVE Tied(c)'
  <2>1. Alone(c)
    BY <1>2 DEF Alone, Given, Others
  <2>2. Tied(c)
    BY <2>1 DEF PInv
  <2>3. ASSUME monitor[c] = "success" PROVE pc'[p] \notin GivingUp \cup {"unpaired"}
    BY <2>2, <2>3 DEF Tied, GivingUp
  <2>4. ASSUME monitor[c] \in {"saving", "paired", "done"}, paired = TRUE PROVE pc'[p] \notin GivingUp
    BY <2>2, <2>4 DEF Tied, GivingUp
  <2> QED BY <2>2, <2>3, <2>4 DEF Tied, Given, Others
<1> QED BY <1>1, <1>2 DEF PInv

\* A caller's step after which the instance has no client.
LEMMA NoneKeeps ==
    ASSUME IInv, PInv, NEW p \in Callers, Given(p), Lowers, clients' = NoClient, UNCHANGED monitor
    PROVE  PInv'
BY GivenKeeps, ConstantsAssumption DEF PInv, Alone

\* A step of no caller.
LEMMA StillKeeps ==
    ASSUME PInv, UNCHANGED <<clients, code, qrCtx, monitor, pc, op, got>>, Steady',
           paired' = paired \/ paired' = FALSE
    PROVE  PInv'
<1>1. ASSUME NEW c \in Clients, Alone(c)' PROVE Tied(c)'
  <2>1. Alone(c)
    BY <1>1 DEF Alone
  <2> QED BY <2>1 DEF PInv, Tied
<1> QED BY <1>1 DEF PInv
-----------------------------------------------------------------------------
(* The steps, one by one.                                                   *)

\* A restore that takes the mutex has a client of its own, without a QR channel.
LEMMA HolderTies ==
    ASSUME IInv, PInv, NEW p \in Callers, NEW c \in Clients, NEW s, NEW l \in Restoring,
           Free, clients = NoClient, clients' = clients, Fresh(c), NewClient(c, s), Holding(p, c, l)
    PROVE  PInv'
<1>1. l \notin Deleting /\ l # "publish"
  BY DEF Restoring, Deleting
<1>2. clients' = NoClient /\ monitor' = [monitor EXCEPT ![c] = "none"]
  BY DEF NewClient
<1>3. Others(p) /\ pc'[p] = l /\ got'[p] = c
  BY Shapes
<1>4. \A d \in Clients \ {c} : monitor'[d] = monitor[d] /\ cl'[d] = cl[d]
  BY DEF NewClient, IInv, TypeOK
<1>5. monitor'[c] = "none" /\ \A q \in Callers : got[q] # c
  BY DEF Fresh, NewClient, IInv, TypeOK
<1>6. \A q \in Callers : pc[q] # "joining"
  BY ConstantsAssumption DEF Free, IInv, RestoreIsExclusive, Restoring
<1>7. Restores' /\ Deletes'
  BY <1>1, <1>3, <1>5, <1>6 DEF PInv, Steady, Restores, Deletes, Others
<1>8. Links'
  BY <1>4, <1>5 DEF PInv, Steady, Links
<1>9. ASSUME NEW q \in Callers, pc'[q] = "publish"
      PROVE  /\ got'[q] # clients' /\ monitor'[got'[q]] = "none"
             /\ cl'[got'[q]] \in {"linking", "down"}
             /\ \A r \in Callers \ {q} : got'[r] # got'[q]
  <2>1. q # p /\ pc[q] = "publish" /\ got'[q] = got[q] /\ got[q] \in Clients \ {c}
    BY <1>1, <1>3, <1>5, <1>9 DEF Others, IInv, TypeOK
  <2>2. /\ monitor[got[q]] = "none" /\ cl[got[q]] \in {"linking", "down"}
        /\ \A r \in Callers \ {q} : got[r] # got[q]
    BY <2>1 DEF PInv, Steady, Dials
  <2> QED BY <1>2, <1>3, <1>4, <1>5, <2>1, <2>2, ConstantsAssumption DEF Others
<1> QED BY <1>2, <1>7, <1>8, <1>9, ConstantsAssumption DEF PInv, Steady, Dials, Alone

LEMMA RestoreTies ==
    ASSUME IInv, PInv, NEW p \in Callers, Restore(p)
    PROVE  PInv'
<1>1. CASE RestoreBegin(p) /\ clients # NoClient
  <2>1. Restored(p, clients) /\ UNCHANGED <<cl, clients, pairingVars>> /\ pc[p] = "restore"
    BY <1>1 DEF RestoreBegin, pairingVars
  <2> QED BY <2>1, RestoredShape, DownLowers, PlainKeeps DEF Given
<1>2. CASE RestoreBegin(p) /\ clients = NoClient
  <2>1. PICK c \in Clients : Fresh(c) /\ NewClient(c, "joining") /\ Holding(p, c, "joining")
    BY <1>2 DEF RestoreBegin
  <2>2. Free /\ clients' = clients /\ "joining" \in Restoring
    BY <1>2 DEF RestoreBegin, Restoring
  <2> QED BY <1>2, <2>1, <2>2, HolderTies
<1>3. CASE RestoreMiss(p)
  <2>1. Restored(p, NoClient) /\ UNCHANGED <<cl, clients, pairingVars>> /\ pc[p] = "restore"
    BY <1>3 DEF RestoreMiss
  <2> QED BY <2>1, RestoredShape, DownLowers, PlainKeeps DEF Given
<1>4. CASE RestoreFail(p)
  <2>1. Restored(p, NoClient) /\ UNCHANGED <<clients, pairingVars>> /\ pc[p] = "joining"
    BY <1>4 DEF RestoreFail
  <2>2. Lowers
    BY <1>4, DownLowers DEF RestoreFail
  <2> QED BY <2>1, <2>2, RestoredShape, PlainKeeps DEF Given
<1>5. CASE RestoreEnd(p)
  <2>1. /\ Restored(p, got[p]) /\ clients' = got[p] /\ UNCHANGED <<cl, pairingVars>>
        /\ pc[p] = "joining"
    BY <1>5 DEF RestoreEnd
  <2>2. Given(p)
    BY <2>1, RestoredShape DEF Given
  <2>3. monitor'[clients'] = "none"
    BY <2>1 DEF PInv, Steady, Restores, pairingVars
  <2>4. \A c \in Clients : Alone(c)' => Tied(c)'
    BY <2>3 DEF Alone, Tied
  <2>5. Steady'
    BY <2>1, <2>2, DownLowers, GivenKeeps DEF pairingVars
  <2> QED BY <2>4, <2>5 DEF PInv
<1>6. CASE RestoreHang(p)
  <2>1. PICK c \in Clients : Fresh(c) /\ NewClient(c, "down") /\ Holding(p, c, "hung")
    BY <1>6 DEF RestoreHang
  <2>2. Free /\ clients = NoClient /\ clients' = clients /\ "hung" \in Restoring
    BY <1>6 DEF RestoreHang, Restoring
  <2> QED BY <2>1, <2>2, HolderTies
<1> QED BY <1>1, <1>2, <1>3, <1>4, <1>5, <1>6 DEF Restore

\* The client of a dial is nobody else's.
LEMMA DialTies ==
    ASSUME IInv, PInv, NEW p \in Callers, NEW c \in Clients, CreateDial(p), Fresh(c),
           NewClient(c, "linking"), Holding(p, c, "publish")
    PROVE  PInv'
<1>1. Others(p) /\ pc'[p] = "publish" /\ got'[p] = c
  BY Shapes
<1>2. clients' = clients /\ clients # c /\ \A q \in Callers : got[q] # c
  BY DEF CreateDial, Fresh
<1>3. monitor'[c] = "none" /\ cl'[c] = "linking"
  BY DEF NewClient, IInv, TypeOK
<1>4. \A d \in Clients \ {c} : monitor'[d] = monitor[d] /\ cl'[d] = cl[d]
  BY DEF NewClient, IInv, TypeOK
<1>5. \A q \in Callers : pc[q] = "joining" => got[q] \in Clients
  BY DEF IInv, TypeOK
<1>6. Restores'
  BY <1>1, <1>2, <1>4, <1>5 DEF PInv, Steady, Restores, Others
<1>7. Deletes' /\ Links'
  BY <1>1, <1>3, <1>4 DEF PInv, Steady, Deletes, Deleting, Links, Others
<1>8. ASSUME NEW q \in Callers \ {p}, pc'[q] = "publish"
      PROVE  /\ got'[q] # clients' /\ monitor'[got'[q]] = "none"
             /\ cl'[got'[q]] \in {"linking", "down"}
             /\ \A r \in Callers \ {q} : got'[r] # got'[q]
  <2>1. pc[q] = "publish" /\ got'[q] = got[q] /\ got[q] \in Clients \ {c}
    BY <1>1, <1>2, <1>8 DEF Others, IInv, TypeOK
  <2>2. /\ got[q] # clients /\ monitor[got[q]] = "none" /\ cl[got[q]] \in {"linking", "down"}
        /\ \A r \in Callers \ {q} : got[r] # got[q]
    BY <2>1 DEF PInv, Steady, Dials
  <2> QED BY <1>1, <1>2, <1>4, <2>1, <2>2 DEF Others
<1>9. Dials'
  BY <1>1, <1>2, <1>3, <1>8 DEF Dials, Others
<1> QED BY <1>1, <1>6, <1>7, <1>9 DEF PInv, Steady, Alone

\* A published client is the instance's, its QR context the only one.
LEMMA PublishTies ==
    ASSUME IInv, PInv, NEW p \in Callers, CreatePublish(p)
    PROVE  PInv'
<1>1. /\ pc[p] = "publish" /\ clients' = got[p] /\ qrCtx' = TRUE /\ Free /\ cl' = cl
      /\ monitor' = [monitor EXCEPT ![got[p]] = "open"] /\ Return(p)
  BY DEF CreatePublish
<1>2. got[p] \in Clients
  BY <1>1 DEF IInv, TypeOK
<1>3. Others(p) /\ pc'[p] = "idle" /\ got'[p] = NoClient
  BY <1>1, Shapes
<1>4. monitor'[got[p]] = "open" /\ \A d \in Clients \ {got[p]} : monitor'[d] = monitor[d]
  BY <1>1, <1>2 DEF IInv, TypeOK
<1>5. cl[got[p]] \in {"linking", "down"} /\ \A q \in Callers \ {p} : got[q] # got[p]
  BY <1>1 DEF PInv, Steady, Dials
<1>6. \A q \in Callers : pc'[q] # "joining"
  BY <1>1, <1>3, ConstantsAssumption DEF Free, Others, IInv, RestoreIsExclusive, Restoring
<1>7. Restores' /\ Deletes'
  BY <1>3, <1>6 DEF PInv, Steady, Restores, Deletes, Deleting, Others
<1>8. Links'
  BY <1>1, <1>4, <1>5 DEF PInv, Steady, Links
<1>9. ASSUME NEW q \in Callers, pc'[q] = "publish"
      PROVE  /\ got'[q] # clients' /\ monitor'[got'[q]] = "none"
             /\ cl'[got'[q]] \in {"linking", "down"}
             /\ \A r \in Callers \ {q} : got'[r] # got'[q]
  <2>1. q # p /\ pc[q] = "publish" /\ got'[q] = got[q] /\ got[q] \in Clients \ {got[p]}
    BY <1>3, <1>5, <1>9 DEF Others, IInv, TypeOK
  <2>2. /\ monitor[got[q]] = "none" /\ cl[got[q]] \in {"linking", "down"}
        /\ \A r \in Callers \ {q} : got[r] # got[q]
    BY <2>1 DEF PInv, Steady, Dials
  <2> QED BY <1>1, <1>3, <1>4, <2>1, <2>2, ConstantsAssumption DEF Others
<1>10. \A c \in Clients : Alone(c)' => Tied(c)'
  BY <1>1, <1>4 DEF Alone, Tied
<1> QED BY <1>7, <1>8, <1>9, <1>10 DEF PInv, Steady, Dials

LEMMA CreateTies ==
    ASSUME IInv, PInv, NEW p \in Callers, Create(p)
    PROVE  PInv'
<1>1. CASE CreateBegin(p)
  <2>1. pc[p] = "check" /\ UNCHANGED <<cl, clients, pairingVars>>
    BY <1>1 DEF CreateBegin
  <2>2. Others(p) /\ pc'[p] \in {"idle", "restore", "dial"} /\ got'[p] \in {got[p], NoClient}
    <3>1. CASE Return(p) \/ Goto(p, "dial")
      BY <3>1, Shapes
    <3>2. CASE /\ op' = [op EXCEPT ![p] = "create"] /\ pc' = [pc EXCEPT ![p] = "restore"]
               /\ UNCHANGED got
      BY <3>2 DEF Others, IInv, Typed
    <3> QED BY <1>1, <3>1, <3>2 DEF CreateBegin
  <2> QED BY <2>1, <2>2, DownLowers, PlainKeeps DEF Given, Deleting
<1>2. CASE Discard(p)
  <2>1. pc[p] = "discard" /\ UNCHANGED <<cl, clients, got, pairingVars>>
    BY <1>2 DEF Discard
  <2>2. Others(p) /\ pc'[p] \in {"dial", "check"}
    BY <1>2 DEF Discard, Others, IInv, Typed
  <2> QED BY <2>1, <2>2, DownLowers, PlainKeeps DEF Given, Deleting
<1>3. CASE CreateDial(p) /\ Return(p) /\ UNCHANGED <<cl, monitor>>
  <2>1. pc[p] = "dial" /\ UNCHANGED <<cl, clients, pairingVars>>
    BY <1>3 DEF CreateDial, pairingVars
  <2> QED BY <1>3, <2>1, Shapes, DownLowers, PlainKeeps DEF Given, Deleting
<1> QED BY <1>1, <1>2, <1>3, DialTies, PublishTies DEF Create, CreateDial

LEMMA GetQRTies ==
    ASSUME IInv, PInv, NEW p \in Callers, GetQR(p)
    PROVE  PInv'
<1>1. CASE QrLook(p)
  <2>1. pc[p] = "look" /\ UNCHANGED <<cl, clients, pairingVars>>
    BY <1>1 DEF QrLook
  <2>2. \/ Return(p) \/ Goto(p, "restore")
        \/ Holding(p, clients, IF qrCtx THEN "wait" ELSE "unpaired")
    BY <1>1 DEF QrLook
  <2>3. /\ Others(p) /\ pc'[p] \in {"idle", "restore", "wait", "unpaired"}
        /\ got'[p] \in {got[p], clients, NoClient} /\ (pc'[p] = "unpaired" => ~qrCtx)
    <3>1. CASE qrCtx
      BY <2>2, <3>1, Shapes
    <3>2. CASE ~qrCtx
      BY <2>2, <3>2, Shapes
    <3> QED BY <3>1, <3>2
  <2> QED BY <2>1, <2>3, DownLowers, PlainKeeps DEF Given, Deleting
<1>2. CASE QrWait(p)
  <2>1. pc[p] = "wait" /\ UNCHANGED <<clients, pairingVars>>
    BY <1>2 DEF QrWait
  <2>2. Return(p) \/ Goto(p, "check") \/ (~code /\ qrCtx /\ Holding(p, NoClient, "forget"))
    BY <1>2 DEF QrWait, GiveUp
  <2>3. /\ Others(p) /\ pc'[p] \in {"idle", "check", "forget"} /\ got'[p] \in {got[p], NoClient}
        /\ pc'[p] = "forget" => ~code /\ qrCtx
    BY <2>2, Shapes
  <2>4. Lowers
    BY <1>2, DownLowers DEF QrWait, GiveUp
  <2> QED BY <2>1, <2>3, <2>4, PlainKeeps DEF Given, Deleting
<1>3. CASE QrUnpaired(p)
  <2>1. pc[p] = "unpaired" /\ UNCHANGED <<clients, pairingVars>>
    BY <1>3 DEF QrUnpaired
  <2>2. Return(p) \/ (~paired /\ Holding(p, NoClient, "forget"))
    BY <1>3 DEF QrUnpaired, GiveUp
  <2>3. /\ Others(p) /\ pc'[p] \in {"idle", "forget"} /\ got'[p] = NoClient
        /\ pc'[p] = "forget" => ~paired
    BY <2>2, Shapes
  <2>4. Lowers
    BY <1>3, DownLowers DEF QrUnpaired, GiveUp
  <2> QED BY <2>1, <2>3, <2>4, PlainKeeps DEF Given, Deleting
<1>4. CASE QrForget(p)
  <2>1. clients' = NoClient /\ UNCHANGED <<cl, monitor>> /\ Goto(p, "discard")
    BY <1>4 DEF QrForget
  <2> QED BY <2>1, Shapes, DownLowers, NoneKeeps DEF Given, Deleting
<1> QED BY <1>1, <1>2, <1>3, <1>4 DEF GetQR

LEMMA GetClientTies ==
    ASSUME IInv, PInv, NEW p \in Callers, GetClient(p) \/ Reload(p)
    PROVE  PInv'
<1>1. CASE ClientLook(p)
  <2>1. pc[p] = "look" /\ UNCHANGED <<cl, clients, pairingVars>>
    BY <1>1 DEF ClientLook
  <2>2. ToRestore(p) \/ Return(p) \/ Goto(p, "recheck")
    BY <1>1 DEF ClientLook
  <2>3. /\ Others(p) /\ pc'[p] \in {"restore", "idle", "recheck"}
        /\ got'[p] \in {got[p], NoClient}
    BY <2>2, Shapes
  <2> QED BY <2>1, <2>3, DownLowers, PlainKeeps DEF Given, Deleting
<1>2. CASE ClientRecheck(p)
  <2>1. pc[p] = "recheck" /\ UNCHANGED <<cl, clients, pairingVars>>
    BY <1>2 DEF ClientRecheck
  <2>2. Return(p) \/ (~qrCtx /\ ~paired /\ Goto(p, "drop"))
    BY <1>2 DEF ClientRecheck
  <2>3. /\ Others(p) /\ pc'[p] \in {"idle", "drop"} /\ got'[p] \in {got[p], NoClient}
        /\ pc'[p] = "drop" => ~qrCtx /\ ~paired
    BY <2>2, Shapes
  <2> QED BY <2>1, <2>3, DownLowers, PlainKeeps DEF Given, Deleting
<1>3. CASE ClientDrop(p)
  <2>1. clients' = NoClient /\ UNCHANGED <<cl, monitor>> /\ ToRestore(p)
    BY <1>3 DEF ClientDrop, pairingVars
  <2> QED BY <2>1, Shapes, DownLowers, NoneKeeps DEF Given, Deleting
<1>4. CASE Reload(p)
  <2>1. clients' = NoClient /\ UNCHANGED monitor /\ (Return(p) \/ ToRestore(p))
    BY <1>4 DEF Reload, pairingVars
  <2>2. Lowers
    BY <1>4, DownLowers DEF Reload
  <2> QED BY <2>1, <2>2, Shapes, NoneKeeps DEF Given, Deleting
<1> QED BY <1>1, <1>2, <1>3, <1>4 DEF GetClient

LEMMA DeleteTies ==
    ASSUME IInv, PInv, NEW p \in Callers, Delete(p)
    PROVE  PInv'
<1>1. CASE DeleteBegin(p)
  <2>1. /\ clients' = NoClient /\ UNCHANGED <<cl, monitor>> /\ op[p] = "delete"
        /\ Holding(p, clients, IF clients = NoClient THEN "restore" ELSE "logout")
    BY <1>1 DEF DeleteBegin
  <2>2. Others(p) /\ pc'[p] \in {"restore", "logout"} /\ op'[p] = "delete" /\ got'[p] = clients
    BY <2>1, Shapes
  <2> QED BY <2>1, <2>2, DownLowers, NoneKeeps DEF Given
<1>2. CASE DeleteUnmap(p)
  <2>1. /\ pc[p] = "unmap" /\ clients' = NoClient /\ UNCHANGED <<cl, monitor>>
        /\ Goto(p, "logout")
    BY <1>2 DEF DeleteUnmap, pairingVars
  <2>2. op[p] = "delete"
    BY <2>1 DEF PInv, Steady, Deletes, Deleting
  <2> QED BY <2>1, <2>2, Shapes, DownLowers, NoneKeeps DEF Given
<1>3. CASE DeleteLogout(p)
  <2>1. pc[p] = "logout" /\ UNCHANGED <<clients, pairingVars>> /\ Holding(p, NoClient, "clear")
    BY <1>3 DEF DeleteLogout
  <2>2. op[p] = "delete"
    BY <2>1 DEF PInv, Steady, Deletes, Deleting
  <2>3. Lowers
    BY <1>3, DownLowers DEF DeleteLogout
  <2> QED BY <2>1, <2>2, <2>3, Shapes, PlainKeeps DEF Given
<1>4. CASE DeleteClear(p)
  <2>1. pc[p] = "clear" /\ UNCHANGED <<cl, clients, pairingVars>> /\ Goto(p, "erase")
    BY <1>4 DEF DeleteClear
  <2>2. op[p] = "delete"
    BY <2>1 DEF PInv, Steady, Deletes, Deleting
  <2> QED BY <2>1, <2>2, Shapes, DownLowers, PlainKeeps DEF Given
<1>5. CASE DeleteErase(p)
  <2>1. pc[p] = "erase" /\ UNCHANGED <<cl, clients, pairingVars>> /\ Return(p)
    BY <1>5 DEF DeleteErase
  <2> QED BY <2>1, Shapes, DownLowers, PlainKeeps DEF Given, Deleting
<1> QED BY <1>1, <1>2, <1>3, <1>4, <1>5 DEF Delete

LEMMA CallTies ==
    ASSUME IInv, PInv, NEW p \in Callers,
           NEW o \in {"boot", "getQR", "getClient", "delete", "reload"}, Call(p, o)
    PROVE  PInv'
<1>1. pc[p] = "idle" /\ UNCHANGED <<cl, clients, pairingVars>>
  BY DEF Call
<1>2. Others(p) /\ pc'[p] \in {"restore", "look"} /\ got'[p] \in {got[p], NoClient}
  <2>1. CASE ToRestore(p)
    BY <2>1, Shapes
  <2>2. CASE pc' = [pc EXCEPT ![p] = "look"] /\ op' = [op EXCEPT ![p] = o] /\ UNCHANGED got
    BY <2>2 DEF Others, IInv, Typed
  <2> QED BY <2>1, <2>2 DEF Call
<1> QED BY <1>1, <1>2, DownLowers, PlainKeeps DEF Given, Deleting
-----------------------------------------------------------------------------
(* The monitors of QR channels, and what is outside.                        *)

\* A monitor's step concerns the instance's client only if no other one has a monitor.
LEMMA MonitorMoves ==
    ASSUME IInv, PInv, NEW c \in Clients, NEW s, NEW t, Monitor(c, s, t),
           s # "none", t \in MonitorStates \ {"none"},
           UNCHANGED <<clients, pc, op, got>>, Lowers,
           t \in {"open", "shown", "closed"} => s \in {"open", "shown", "closed"},
           Alone(c) /\ Tied(c) => Tied(c)'
    PROVE  PInv'
<1>1. monitor'[c] = t /\ monitor[c] = s /\ \A d \in Clients \ {c} : monitor'[d] = monitor[d]
  BY DEF Monitor, IInv, TypeOK
<1>2. Restores' /\ Deletes'
  BY <1>1 DEF PInv, Steady, Restores, Deletes, IInv, TypeOK
<1>3. Links'
  BY <1>1 DEF PInv, Steady, Links, Lowers
<1>4. ASSUME NEW q \in Callers, pc[q] = "publish"
      PROVE  /\ got[q] # clients /\ monitor'[got[q]] = "none"
             /\ cl'[got[q]] \in {"linking", "down"}
             /\ \A r \in Callers \ {q} : got[r] # got[q]
  <2>1. got[q] \in Clients
    BY <1>4 DEF IInv, TypeOK
  <2>2. /\ got[q] # clients /\ monitor[got[q]] = "none" /\ cl[got[q]] \in {"linking", "down"}
        /\ \A r \in Callers \ {q} : got[r] # got[q]
    BY <1>4 DEF PInv, Steady, Dials
  <2> QED BY <1>1, <2>1, <2>2 DEF Lowers
<1>5. Dials'
  BY <1>4 DEF Dials
<1>6. ASSUME NEW d \in Clients, Alone(d)' PROVE Tied(d)'
  <2>1. d = c
    BY <1>1, <1>6 DEF Alone
  <2>2. Alone(c)
    BY <1>1, <1>6, <2>1 DEF Alone
  <2> QED BY <2>1, <2>2 DEF PInv
<1> QED BY <1>2, <1>3, <1>5, <1>6 DEF PInv, Steady

LEMMA MonitorTies ==
    ASSUME IInv, PInv, NEW c \in Clients, MonitorStep(c)
    PROVE  PInv'
<1> USE DEF callerVars, MonitorStates
<1>1. CASE MonitorCode(c)
  <2>1. PICK s \in {"open", "shown"} : Monitor(c, s, "shown")
    BY <1>1 DEF MonitorCode
  <2>2. Alone(c) /\ Tied(c) => Tied(c)'
    BY <1>1, <2>1 DEF MonitorCode, Monitor, Tied, IInv, TypeOK
  <2> QED BY <1>1, <2>1, <2>2, DownLowers, MonitorMoves DEF MonitorCode
<1>2. CASE MonitorTimeout(c)
  <2>1. Alone(c) /\ Tied(c) => Tied(c)'
    BY <1>2 DEF MonitorTimeout, Monitor, Tied, IInv, TypeOK
  <2> QED BY <1>2, <2>1, DownLowers, MonitorMoves DEF MonitorTimeout
<1>3. CASE MonitorSuccess(c)
  <2>1. Alone(c) /\ Tied(c) => Tied(c)'
    BY <1>3 DEF MonitorSuccess, Monitor, Tied, IInv, TypeOK
  <2> QED BY <1>3, <2>1, DownLowers, MonitorMoves DEF MonitorSuccess
<1>4. CASE MonitorSaveRow(c)
  <2>1. Alone(c) /\ Tied(c) => Tied(c)'
    BY <1>4 DEF MonitorSaveRow, Monitor, Tied, IInv, TypeOK
  <2> QED BY <1>4, <2>1, DownLowers, MonitorMoves DEF MonitorSaveRow
<1>5. CASE MonitorClean(c)
  <2>1. /\ qrCtx' = FALSE /\ code' = FALSE
        /\ UNCHANGED <<clients, paired, pc, op, got>>
    BY <1>5 DEF MonitorClean
  <2>2. CASE Monitor(c, "paired", "done") /\ UNCHANGED cl
    <3>1. Alone(c) /\ Tied(c) => Tied(c)'
      BY <2>1, <2>2 DEF Monitor, Tied, IInv, TypeOK
    <3> QED BY <2>1, <2>2, <3>1, DownLowers, MonitorMoves
  <2>3. CASE LoggedIn(c) /\ Monitor(c, "closed", "done")
    BY <2>3 DEF LoggedIn, Monitor, PInv, Steady, Links
  <2>4. CASE Monitor(c, "closed", "unmap") /\ cl' = Down(c)
    <3>1. Alone(c) /\ Tied(c) => Tied(c)'
      BY <2>1, <2>4 DEF Monitor, Tied, IInv, TypeOK
    <3> QED BY <2>1, <2>4, <3>1, DownLowers, MonitorMoves
  <2> QED BY <1>5, <2>2, <2>3, <2>4 DEF MonitorClean
<1>6. CASE MonitorUnmap(c)
  <2>1. UNCHANGED <<pc, op, got, cl>> /\ clients' = NoClient /\ Monitor(c, "unmap", "done")
    BY <1>6 DEF MonitorUnmap
  <2>2. monitor'[c] = "done" /\ monitor[c] = "unmap" /\ \A d \in Clients \ {c} : monitor'[d] = monitor[d]
    BY <2>1 DEF Monitor, IInv, TypeOK
  <2>3. Restores' /\ Deletes' /\ Links'
    BY <2>1, <2>2 DEF PInv, Steady, Restores, Deletes, Links, IInv, TypeOK
  <2>4. Dials'
    BY <2>1, <2>2, ConstantsAssumption DEF PInv, Steady, Dials, IInv, TypeOK
  <2> QED BY <2>1, <2>3, <2>4, ConstantsAssumption DEF PInv, Steady, Alone
<1> QED BY <1>1, <1>2, <1>3, <1>4, <1>5, <1>6 DEF MonitorStep

\* A client with a paired device, whose QR channel was scanned if it had one, logs in or
\* loses its connection.
LEMMA PairedMoves ==
    ASSUME IInv, PInv, NEW c \in Clients, NEW s, cl[c] \in {"joining", "online"},
           cl' = [cl EXCEPT ![c] = s], UNCHANGED <<clients, monitor, pc, op, got>>
    PROVE  Steady'
<1>1. \A d \in Clients \ {c} : cl'[d] = cl[d]
  BY DEF IInv, TypeOK
<1>2. Restores' /\ Deletes' /\ Links'
  BY <1>1 DEF PInv, Steady, Restores, Deletes, Links
<1>3. \A q \in Callers : pc[q] = "publish" => got[q] \in Clients \ {c}
  BY DEF PInv, Steady, Dials, IInv, TypeOK
<1>4. Dials'
  BY <1>1, <1>3 DEF PInv, Steady, Dials
<1> QED BY <1>2, <1>4 DEF Steady

LEMMA EnvironmentTies ==
    ASSUME IInv, PInv, Environment
    PROVE  PInv'
<1>1. ASSUME NEW c \in Clients, PhonePairs(c) PROVE PInv'
  <2>1. /\ cl' = [cl EXCEPT ![c] = "joining"] /\ Monitor(c, "shown", "success")
        /\ UNCHANGED <<clients, code, qrCtx, paired, pc, op, got>>
        /\ \A p \in Callers : pc[p] \notin {"unpaired", "forget", "recheck", "drop"}
    BY <1>1 DEF PhonePairs, Becomes, callerVars
  <2>2. /\ monitor[c] = "shown" /\ monitor'[c] = "success"
        /\ \A d \in Clients \ {c} : monitor'[d] = monitor[d] /\ cl'[d] = cl[d]
    BY <2>1 DEF Monitor, IInv, TypeOK
  <2>3. Restores' /\ Deletes' /\ Links'
    BY <2>1, <2>2 DEF PInv, Steady, Restores, Deletes, Links, IInv, TypeOK
  <2>4. Dials'
    BY <2>1, <2>2 DEF PInv, Steady, Dials, IInv, TypeOK
  <2>5. ASSUME NEW d \in Clients, Alone(d)' PROVE Tied(d)'
    <3>1. d = c /\ Alone(c)
      BY <2>1, <2>2, <2>5 DEF Alone
    <3>2. Tied(c)
      BY <3>1 DEF PInv
    <3> QED BY <2>1, <2>2, <3>1, <3>2 DEF Tied, GivingUp
  <2> QED BY <2>3, <2>4, <2>5 DEF PInv, Steady
<1>2. ASSUME NEW c \in Clients, LogsIn(c) \/ Drops(c) PROVE PInv'
  <2>1. PICK s \in {"joining", "online"} : cl' = [cl EXCEPT ![c] = s]
    BY <1>2 DEF LogsIn, Drops, Becomes
  <2>2. /\ cl[c] \in {"joining", "online"}
        /\ UNCHANGED <<clients, code, qrCtx, paired, monitor, pc, op, got>>
    BY <1>2 DEF LogsIn, Drops, Becomes, callerVars
  <2>3. Steady'
    BY <2>1, <2>2, PairedMoves
  <2> QED BY <2>2, <2>3, StillKeeps
<1>3. ASSUME NEW c \in Clients, ServerLogsOut(c) PROVE PInv'
  <2>1. PICK p \in Callers : /\ pc[p] = "idle"
                             /\ pc' = [pc EXCEPT ![p] = "look"]
                             /\ op' = [op EXCEPT ![p] = "delete"]
    BY <1>3 DEF ServerLogsOut
  <2>2. UNCHANGED <<clients, pairingVars, got>> /\ cl' = Down(c)
    BY <1>3 DEF ServerLogsOut, Becomes, pairingVars, Down
  <2>3. Others(p) /\ pc'[p] = "look"
    BY <2>1, <2>2 DEF Others, IInv, Typed
  <2> QED BY <2>1, <2>2, <2>3, DownLowers, PlainKeeps DEF Given, Deleting
<1>4. ASSUME NEW c \in Clients, ChannelEnds(c) PROVE PInv'
  <2>1. PICK s \in {"open", "shown"} : Monitor(c, s, "closed")
    BY <1>4 DEF ChannelEnds
  <2>2. UNCHANGED <<clients, cl, code, qrCtx, paired, pc, op, got>>
    BY <1>4 DEF ChannelEnds, callerVars
  <2>3. Tied(c)'
    BY <2>1 DEF Monitor, Tied, IInv, TypeOK
  <2> QED BY <2>1, <2>2, <2>3, DownLowers, MonitorMoves DEF MonitorStates
<1>5. CASE PairingAges
  <2>1. UNCHANGED <<clients, cl, code, qrCtx, monitor, pc, op, got>> /\ paired' = FALSE
    BY <1>5 DEF PairingAges, callerVars
  <2>2. Steady'
    BY <2>1 DEF PInv, Steady, Restores, Deletes, Dials, Links
  <2> QED BY <2>1, <2>2, StillKeeps
<1> QED BY <1>1, <1>2, <1>3, <1>4, <1>5 DEF Environment
-----------------------------------------------------------------------------
LEMMA InitTies == Init => PInv
<1> SUFFICES ASSUME Init PROVE PInv
  OBVIOUS
<1>1. Steady
  BY DEF Init, Steady, Restores, Deletes, Deleting, Dials, Links
<1>2. \A c \in Clients : ~Alone(c)
  BY ConstantsAssumption DEF Init, Alone
<1> QED BY <1>1, <1>2 DEF PInv

LEMMA NextTies == IInv /\ PInv /\ [Next]_vars => PInv'
<1> SUFFICES ASSUME IInv, PInv, [Next]_vars PROVE PInv'
  OBVIOUS
<1>1. ASSUME NEW p \in Callers, Step(p) PROVE PInv'
  BY <1>1, RestoreTies, CreateTies, GetQRTies, GetClientTies, DeleteTies DEF Step
<1>2. CASE UNCHANGED vars
  <2>1. Steady'
    BY <1>2 DEF vars, PInv, Steady, Restores, Deletes, Dials, Links
  <2> QED BY <1>2, <2>1, StillKeeps DEF vars
<1> QED BY <1>1, <1>2, CallTies, MonitorTies, EnvironmentTies DEF Next
-----------------------------------------------------------------------------
\* The hypothesis of PairingSurvives: c is the instance's client, just paired, and no other
\* QR channel was opened for the instance or is about to be.
JustPaired(c) ==
    /\ c # NoClient
    /\ \/ monitor[c] = "success"
       \/ monitor[c] \in {"saving", "paired", "done"} /\ paired
    /\ cl[c] \in {"joining", "online"}
    /\ \A d \in Clients \ {c} : monitor[d] = "none"
    /\ \A p \in Callers : pc[p] \notin {"dial", "publish"}

\* A deletion or a reload takes a step.
Removes == \E p \in Callers : /\ pc'[p] # pc[p]
                              /\ {op[p], op'[p]} \cap {"delete", "reload"} # {}

Kept(c) == clients' = c /\ cl'[c] # "down"

\* What the invariant says of a client just paired.
LEMMA PairedFacts ==
    ASSUME IInv, PInv, JustPaired(clients)
    PROVE  /\ clients \in Clients /\ cl[clients] # "down"
           /\ code = TRUE \/ qrCtx = FALSE
           /\ \A p \in Callers : pc[p] \notin GivingUp \cup {"joining", "dial", "publish"}
           /\ \A p \in Callers : pc[p] = "unpaired" => paired = TRUE
<1> DEFINE c == clients
<1>1. c \in Clients /\ Alone(c) /\ paired \in BOOLEAN
  BY DEF JustPaired, Alone, IInv, TypeOK
<1>2. Tied(c)
  BY <1>1 DEF PInv
<1>3. \A p \in Callers : pc[p] # "joining"
  BY ConstantsAssumption DEF JustPaired, IInv, RestoreIsExclusive, Restoring
<1>4. code = TRUE \/ qrCtx = FALSE
  BY <1>2 DEF JustPaired, Tied
<1>5. \A p \in Callers : pc[p] \notin GivingUp
  BY <1>1, <1>2 DEF JustPaired, Tied
<1>6. \A p \in Callers : pc[p] = "unpaired" => paired = TRUE
  BY <1>1, <1>2 DEF JustPaired, Tied
<1> QED BY <1>1, <1>3, <1>4, <1>5, <1>6 DEF JustPaired

LEMMA CallerSpares ==
    ASSUME IInv, PInv, JustPaired(clients), NEW p \in Callers, Step(p)
    PROVE  Kept(clients) \/ Removes
<1>1. UNCHANGED <<clients, cl>> => Kept(clients)
  BY PairedFacts DEF Kept
<1>2. CASE Restore(p)
  BY <1>1, <1>2, PairedFacts, ConstantsAssumption
     DEF Restore, RestoreBegin, RestoreHang, RestoreMiss, RestoreFail, RestoreEnd
<1>3. CASE Create(p)
  BY <1>1, <1>3, PairedFacts DEF Create, CreateBegin, Discard, CreateDial, CreatePublish
<1>4. CASE QrLook(p) \/ QrForget(p)
  BY <1>1, <1>4, PairedFacts DEF QrLook, QrForget, GivingUp
<1>5. CASE QrWait(p)
  BY <1>1, <1>5, PairedFacts DEF QrWait
<1>6. CASE QrUnpaired(p)
  BY <1>1, <1>6, PairedFacts DEF QrUnpaired
<1>7. CASE GetClient(p)
  BY <1>1, <1>7, PairedFacts DEF GetClient, ClientLook, ClientRecheck, ClientDrop, GivingUp
<1>8. CASE Reload(p)
  <2>1. pc[p] = "look" /\ op[p] = "reload" /\ (Return(p) \/ ToRestore(p))
    BY <1>8 DEF Reload
  <2>2. pc'[p] # "look"
    BY <2>1, Shapes
  <2> QED BY <2>1, <2>2 DEF Removes
<1>9. CASE Delete(p)
  <2>1. op[p] = "delete"
    BY <1>9 DEF Delete, DeleteBegin, DeleteUnmap, DeleteLogout, DeleteClear, DeleteErase,
                PInv, Steady, Deletes, Deleting
  <2>2. pc'[p] # pc[p]
    BY <1>9, Shapes DEF Delete, DeleteBegin, DeleteUnmap, DeleteLogout, DeleteClear, DeleteErase
  <2> QED BY <2>1, <2>2 DEF Removes
<1> QED BY <1>2, <1>3, <1>4, <1>5, <1>6, <1>7, <1>8, <1>9, PairedFacts DEF Step, GetQR

LEMMA MonitorSpares ==
    ASSUME IInv, PInv, JustPaired(clients), NEW c \in Clients, MonitorStep(c)
    PROVE  Kept(clients)
<1>1. UNCHANGED <<clients, cl>> => Kept(clients)
  BY PairedFacts DEF Kept
<1>2. monitor[c] \notin {"closed", "unmap"}
  BY DEF JustPaired
<1>3. CASE MonitorClean(c)
  BY <1>1, <1>2, <1>3 DEF MonitorClean, Monitor
<1>4. CASE MonitorUnmap(c)
  BY <1>2, <1>4 DEF MonitorUnmap, Monitor
<1> QED BY <1>1, <1>3, <1>4 DEF MonitorStep, MonitorCode, MonitorTimeout, MonitorSuccess, MonitorSaveRow

LEMMA EnvironmentSpares ==
    ASSUME IInv, PInv, JustPaired(clients), Environment
    PROVE  Kept(clients) \/ Removes
<1>1. clients \in Clients /\ cl[clients] # "down"
  BY PairedFacts
<1>2. ASSUME NEW c \in Clients, PhonePairs(c) \/ LogsIn(c) \/ Drops(c) PROVE Kept(clients)
  <2>1. PICK s \in {"joining", "online"} : cl' = [cl EXCEPT ![c] = s]
    BY <1>2 DEF PhonePairs, LogsIn, Drops, Becomes
  <2>2. UNCHANGED clients
    BY <1>2 DEF PhonePairs, LogsIn, Drops, Becomes
  <2> QED BY <1>1, <2>1, <2>2 DEF Kept, IInv, TypeOK
<1>3. ASSUME NEW c \in Clients, ServerLogsOut(c) PROVE Removes
  <2>1. PICK p \in Callers : /\ pc[p] = "idle"
                             /\ pc' = [pc EXCEPT ![p] = "look"]
                             /\ op' = [op EXCEPT ![p] = "delete"]
    BY <1>3 DEF ServerLogsOut
  <2>2. pc'[p] = "look" /\ op'[p] = "delete"
    BY <2>1 DEF IInv, Typed
  <2> QED BY <2>1, <2>2 DEF Removes
<1>4. ASSUME NEW c \in Clients, ChannelEnds(c) PROVE Kept(clients)
  BY <1>1, <1>4 DEF ChannelEnds, Kept
<1>5. CASE PairingAges
  BY <1>1, <1>5 DEF PairingAges, Kept
<1> QED BY <1>2, <1>3, <1>4, <1>5 DEF Environment

LEMMA NextSpares == IInv /\ PInv /\ [Next]_vars => (JustPaired(clients) => Kept(clients) \/ Removes)
<1> SUFFICES ASSUME IInv, PInv, [Next]_vars, JustPaired(clients) PROVE Kept(clients) \/ Removes
  OBVIOUS
<1>1. UNCHANGED <<clients, cl>> => Kept(clients)
  BY PairedFacts DEF Kept
<1>2. ASSUME NEW p \in Callers, NEW o \in {"boot", "getQR", "getClient", "delete", "reload"}, Call(p, o)
      PROVE  Kept(clients)
  BY <1>1, <1>2 DEF Call
<1>3. CASE UNCHANGED vars
  BY <1>1, <1>3 DEF vars
<1> QED BY <1>2, <1>3, CallerSpares, MonitorSpares, EnvironmentSpares DEF Next

\* A client the phone has just paired is not given up by the API calls that find it not
\* logged in yet (pairing.go, session.go: the QR context, the code on offer and the time
\* of the pairing are looked at under m.mu): as long as no other QR channel was opened for
\* the instance, or is about to be, only a deletion or a reload removes it.
THEOREM PairingIsKept == Spec => PairingSurvives
<1>1. Init => IInv /\ PInv
  BY InitInv, InitTies
<1>2. IInv /\ PInv /\ [Next]_vars => IInv' /\ PInv'
  BY NextKeeps, NextTies
<1>3. IInv /\ PInv /\ [Next]_vars => [JustPaired(clients) => Kept(clients) \/ Removes]_vars
  BY NextSpares
<1>4. (JustPaired(clients) => Kept(clients) \/ Removes)
      <=> LET c == clients
          IN  /\ c # NoClient
              /\ \/ monitor[c] = "success"
                 \/ monitor[c] \in {"saving", "paired", "done"} /\ paired
              /\ cl[c] \in {"joining", "online"}
              /\ \A d \in Clients \ {c} : monitor[d] = "none"
              /\ \A p \in Callers : pc[p] \notin {"dial", "publish"}
              => \/ clients' = c /\ cl'[c] # "down"
                 \/ \E p \in Callers : /\ pc'[p] # pc[p]
                                      /\ {op[p], op'[p]} \cap {"delete", "reload"} # {}
  BY DEF JustPaired, Kept, Removes
<1> QED BY <1>1, <1>2, <1>3, <1>4, PTL DEF Spec, PairingSurvives
=============================================================================
