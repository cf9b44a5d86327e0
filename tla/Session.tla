------------------------------- MODULE Session -------------------------------
(***************************************************************************)
(* The session manager (session/whatsmeow: manager.go, session.go,         *)
(* pairing.go) for one instance: which WhatsApp client is the instance's,  *)
(* who is pairing it by QR code, and which paired device is stored.        *)
(*                                                                         *)
(* Every map of the manager is keyed by instance and guarded by the one    *)
(* mutex m.mu; a section under it is one action.  restoreSessionIfExists   *)
(* is the exception: it keeps m.mu through its whole connection attempt,   *)
(* so mu names the caller that does and every other section waits for it.  *)
(* The network, the phone and whatsmeow's own goroutines are external.     *)
(* sessionReady, connectedAt and the presence sends are left out: nothing  *)
(* here reads them.  What the events write to the instance's status is in  *)
(* Connection, the call engine in Calls.                                   *)
(***************************************************************************)
EXTENDS Naturals, FiniteSets

CONSTANTS Clients,          \* whatsmeow clients in use at a time: a bound
          Callers,          \* goroutines that use the manager: API requests, the
                            \* restore at start-up, what follows a LoggedOut event
          NoClient, NoCaller

ASSUME ConstantsAssumption ==
    /\ NoClient \notin Clients
    /\ NoCaller \notin Callers

VARIABLES postgres, \* the storage driver, fixed by the configuration
          clients,  \* m.clients: the instance's client
          cl,       \* cl[c]: the state of a client
          code,     \* m.currentQRs: a code is on offer
          qrCtx,    \* m.qrContexts: a QR channel can be cancelled
          paired,   \* m.pairingSuccess: within the last thirty seconds
          monitor,  \* monitor[c]: where monitorQRChannel of the client is
          saved,    \* a session can be restored: the SQLite file has a paired device,
                    \* with Postgres the JID of the instance's row names a stored one
          mu,       \* the caller that restores a session under m.mu
          pc, op, got \* a caller's next step, operation and client

vars == <<postgres, clients, cl, code, qrCtx, paired, monitor, saved, mu, pc, op, got>>

callerVars == <<mu, pc, op, got>>
pairingVars == <<code, qrCtx, paired, monitor>>
storeVars == <<postgres, saved>>

\* "linking": connected and showing QR codes; "joining": connecting with a paired
\* device; "online": logged in; "down": disconnected, with no reconnect to come.
ClientStates == {"linking", "joining", "online", "down"}
MonitorStates == {"none", "open", "shown", "success", "saving", "paired",
                  "closed", "unmap", "done"}

\* The process starts: there may be a session to restore.
Init ==
    /\ postgres \in BOOLEAN
    /\ clients = NoClient
    /\ cl = [c \in Clients |-> "down"]
    /\ code = FALSE /\ qrCtx = FALSE /\ paired = FALSE
    /\ monitor = [c \in Clients |-> "none"]
    /\ saved \in BOOLEAN
    /\ mu = NoCaller
    /\ pc = [p \in Callers |-> "idle"]
    /\ op = [p \in Callers |-> "none"]
    /\ got = [p \in Callers |-> NoClient]

Free == mu = NoCaller
Restoring == {"joining", "hung"}
LoggedIn(c) == c # NoClient /\ cl[c] = "online"

\* A client nothing refers to: a new one may take its name.
Fresh(c) == /\ cl[c] = "down"
            /\ monitor[c] \in {"none", "done"}
            /\ c # clients
            /\ \A p \in Callers : got[p] # c

Goto(p, l) == /\ pc' = [pc EXCEPT ![p] = l]
              /\ UNCHANGED <<op, got>>

Holding(p, c, l) == /\ pc' = [pc EXCEPT ![p] = l]
                    /\ got' = [got EXCEPT ![p] = c]
                    /\ UNCHANGED op

\* Whose client comes back from the restore is no longer told apart.
ToRestore(p) == /\ pc' = [pc EXCEPT ![p] = "restore"]
                /\ op' = [op EXCEPT ![p] = "getClient"]
                /\ got' = [got EXCEPT ![p] = NoClient]

Return(p) == /\ pc' = [pc EXCEPT ![p] = "idle"]
             /\ op' = [op EXCEPT ![p] = "none"]
             /\ got' = [got EXCEPT ![p] = NoClient]

NewClient(c, s) == /\ cl' = [cl EXCEPT ![c] = s]
                   /\ monitor' = [monitor EXCEPT ![c] = "none"]

Down(c) == [cl EXCEPT ![c] = "down"]
-----------------------------------------------------------------------------
(* restoreSessionIfExists and what its callers do with its answer.          *)

\* What each caller does with the client it is given, NoClient for an error.
Restored(p, c) ==
    CASE op[p] = "delete" -> Holding(p, c, IF c = NoClient THEN "clear" ELSE "unmap")
      [] op[p] \in {"getQR", "create"} /\ ~LoggedIn(c) -> Holding(p, NoClient, "discard")
      [] OTHER -> Return(p)

\* Slip: m.mu is given up before the client connects.
RestoreBeginUnlocked(p) ==
    /\ pc[p] = "restore"
    /\ Free
    /\ IF clients # NoClient
       THEN Restored(p, clients) /\ UNCHANGED <<cl, monitor, mu>>
       ELSE \E c \in Clients : /\ saved
                               /\ Fresh(c)
                               /\ NewClient(c, "joining")
                               /\ Holding(p, c, "joining")
                               /\ UNCHANGED mu
    /\ UNCHANGED <<clients, code, qrCtx, paired, storeVars>>

\* The client in memory, if there is one; else, with m.mu held from here on, a new
\* client of the saved session connects.
RestoreBegin(p) ==
    /\ pc[p] = "restore"
    /\ Free
    /\ IF clients # NoClient
       THEN Restored(p, clients) /\ UNCHANGED <<cl, monitor, mu>>
       ELSE \E c \in Clients : /\ saved
                               /\ Fresh(c)
                               /\ NewClient(c, "joining")
                               /\ mu' = p
                               /\ Holding(p, c, "joining")
    /\ UNCHANGED <<clients, code, qrCtx, paired, storeVars>>

\* Attaching the calls of the new client hangs up a call the instance still has, and the
\* manager's answer to that waits for m.mu (Calls, Stuck): nobody gives the mutex back.
RestoreHang(p) ==
    /\ pc[p] = "restore"
    /\ Free
    /\ clients = NoClient
    /\ saved
    /\ mu' = p
    /\ \E c \in Clients : /\ Fresh(c)
                         /\ NewClient(c, "down")
                         /\ Holding(p, c, "hung")
    /\ UNCHANGED <<clients, code, qrCtx, paired, storeVars>>

\* There is no saved session, or it cannot be read.
RestoreMiss(p) ==
    /\ pc[p] = "restore"
    /\ Free
    /\ clients = NoClient
    /\ Restored(p, NoClient)
    /\ UNCHANGED <<clients, cl, pairingVars, storeVars, mu>>

\* Three attempts failed, or the client has not logged in after three seconds: it
\* stays connected then, in no map.
RestoreFail(p) ==
    /\ pc[p] = "joining"
    /\ ~LoggedIn(got[p])
    /\ cl' = Down(got[p]) \/ UNCHANGED cl
    /\ mu' = NoCaller
    /\ Restored(p, NoClient)
    /\ UNCHANGED <<clients, pairingVars, storeVars>>

RestoreEnd(p) ==
    /\ pc[p] = "joining"
    /\ LoggedIn(got[p])
    /\ clients' = got[p]
    /\ mu' = NoCaller
    /\ Restored(p, got[p])
    /\ UNCHANGED <<cl, pairingVars, storeVars>>

Restore(p) == \/ RestoreBegin(p) \/ RestoreHang(p) \/ RestoreMiss(p) \/ RestoreFail(p)
              \/ RestoreEnd(p)
-----------------------------------------------------------------------------
(* createSession.                                                           *)

\* A client in memory is refused; a file with a paired device is restored first.
CreateBegin(p) ==
    /\ pc[p] = "check"
    /\ Free
    /\ CASE clients # NoClient -> Return(p)
         [] clients = NoClient /\ ~postgres /\ saved ->
                /\ op' = [op EXCEPT ![p] = "create"]
                /\ pc' = [pc EXCEPT ![p] = "restore"]
                /\ UNCHANGED got
         [] OTHER -> Goto(p, "dial")
    /\ UNCHANGED <<clients, cl, pairingVars, storeVars, mu>>

\* The SQLite file of a session that did not come back is removed.
Discard(p) ==
    /\ pc[p] = "discard"
    /\ saved' = (postgres /\ saved)
    /\ pc' = [pc EXCEPT ![p] = IF op[p] = "create" THEN "dial" ELSE "check"]
    /\ op' = [op EXCEPT ![p] = "getQR"]
    /\ UNCHANGED got
    /\ UNCHANGED <<postgres, clients, cl, pairingVars, mu>>

\* A client with a blank device connects, or fails to; without m.mu.
CreateDial(p) ==
    /\ pc[p] = "dial"
    /\ \/ Return(p) /\ UNCHANGED <<cl, monitor>>
       \/ \E c \in Clients : /\ Fresh(c)
                             /\ NewClient(c, "linking")
                             /\ Holding(p, c, "publish")
    /\ UNCHANGED <<clients, code, qrCtx, paired, storeVars, mu>>

\* The client becomes the instance's and its QR channel is monitored.  The caller
\* then polls for the first code, thirty seconds at most, and changes nothing.
CreatePublish(p) ==
    /\ pc[p] = "publish"
    /\ Free
    /\ clients' = got[p]
    /\ qrCtx' = TRUE
    /\ monitor' = [monitor EXCEPT ![got[p]] = "open"]
    /\ Return(p)
    /\ UNCHANGED <<cl, code, paired, storeVars, mu>>

Create(p) == CreateBegin(p) \/ Discard(p) \/ CreateDial(p) \/ CreatePublish(p)
-----------------------------------------------------------------------------
(* GetQR.                                                                   *)

\* A code on offer is returned; a client that is logged in is an error.
QrLook(p) ==
    /\ pc[p] = "look"
    /\ op[p] = "getQR"
    /\ Free
    /\ CASE code \/ LoggedIn(clients) -> Return(p)
         [] ~code /\ clients = NoClient -> Goto(p, "restore")
         [] OTHER -> Holding(p, clients, IF qrCtx THEN "wait" ELSE "unpaired")
    /\ UNCHANGED <<clients, cl, pairingVars, storeVars, mu>>

\* Disconnected, to be forgotten.
GiveUp(p, c) == /\ cl' = Down(c)
                /\ Holding(p, NoClient, "forget")

\* Five seconds later: a code is returned, as is the error of a request that was
\* cancelled; the client of an open channel without a code is given up.
QrWait(p) ==
    /\ pc[p] = "wait"
    /\ \/ Return(p) /\ UNCHANGED cl
       \/ /\ Free
          /\ ~code
          /\ IF ~qrCtx THEN Goto(p, "check") /\ UNCHANGED cl
                                ELSE GiveUp(p, got[p])
    /\ UNCHANGED <<clients, pairingVars, storeVars, mu>>

\* Slip: only a QR context protects a client that is not logged in.
QrUnpairedAlways(p) ==
    /\ pc[p] = "unpaired"
    /\ Free
    /\ GiveUp(p, got[p])
    /\ UNCHANGED <<clients, pairingVars, storeVars, mu>>

\* No QR channel: a client paired in the last thirty seconds is left to log in.
QrUnpaired(p) ==
    /\ pc[p] = "unpaired"
    /\ Free
    /\ IF paired THEN Return(p) /\ UNCHANGED cl
                            ELSE GiveUp(p, got[p])
    /\ UNCHANGED <<clients, pairingVars, storeVars, mu>>

\* A client given up is forgotten with everything of its pairing.
QrForget(p) ==
    /\ pc[p] = "forget"
    /\ Free
    /\ clients' = NoClient
    /\ code' = FALSE
    /\ paired' = FALSE
    /\ qrCtx' = FALSE
    /\ Goto(p, "discard")
    /\ UNCHANGED <<cl, monitor, storeVars, mu>>

GetQR(p) == QrLook(p) \/ QrWait(p) \/ QrUnpaired(p) \/ QrForget(p)
-----------------------------------------------------------------------------
(* GetClient and ReloadClient.                                              *)

ClientLook(p) ==
    /\ pc[p] = "look"
    /\ op[p] = "getClient"
    /\ Free
    /\ CASE clients = NoClient -> ToRestore(p)
         [] LoggedIn(clients) -> Return(p)
         [] OTHER -> Goto(p, "recheck")
    /\ UNCHANGED <<clients, cl, pairingVars, storeVars, mu>>

\* A client that is pairing, or was paired in the last minute, is returned as it is; which
\* changes nothing, so that the second half of the minute need not be told apart.
ClientRecheck(p) ==
    /\ pc[p] = "recheck"
    /\ Free
    /\ \/ Return(p)
       \/ ~qrCtx /\ ~paired /\ Goto(p, "drop")
    /\ UNCHANGED <<clients, cl, pairingVars, storeVars, mu>>

\* Whatever client is the instance's by now leaves the map, connected as it is.
ClientDrop(p) ==
    /\ pc[p] = "drop"
    /\ Free
    /\ clients' = NoClient
    /\ ToRestore(p)
    /\ UNCHANGED <<cl, pairingVars, storeVars, mu>>

GetClient(p) == ClientLook(p) \/ ClientRecheck(p) \/ ClientDrop(p)

\* The client leaves the map and is disconnected, without its handlers; a fresh one of
\* the saved session takes its place.
Reload(p) ==
    /\ pc[p] = "look"
    /\ op[p] = "reload"
    /\ Free
    /\ clients' = NoClient
    /\ IF clients = NoClient THEN Return(p) /\ UNCHANGED cl
                             ELSE ToRestore(p) /\ cl' = Down(clients)
    /\ UNCHANGED <<pairingVars, storeVars, mu>>
-----------------------------------------------------------------------------
(* DeleteSession: a request (Disconnect, the deletion of the instance), or  *)
(* the goroutine that follows a LoggedOut event by one second.              *)

\* Slip: the client leaves the map, and nobody has it any more.
DeleteBeginForgets(p) ==
    /\ pc[p] = "look"
    /\ op[p] = "delete"
    /\ Free
    /\ clients' = NoClient
    /\ code' = FALSE
    /\ qrCtx' = FALSE
    /\ paired' = FALSE
    /\ Goto(p, IF clients = NoClient THEN "restore" ELSE "logout")
    /\ UNCHANGED <<cl, monitor, storeVars, mu>>

DeleteBegin(p) ==
    /\ pc[p] = "look"
    /\ op[p] = "delete"
    /\ Free
    /\ clients' = NoClient
    /\ code' = FALSE
    /\ qrCtx' = FALSE
    /\ paired' = FALSE
    /\ Holding(p, clients, IF clients = NoClient THEN "restore" ELSE "logout")
    /\ UNCHANGED <<cl, monitor, storeVars, mu>>

\* A client restored for its logout leaves the map again.
DeleteUnmap(p) ==
    /\ pc[p] = "unmap"
    /\ Free
    /\ clients' = NoClient
    /\ Goto(p, "logout")
    /\ UNCHANGED <<cl, pairingVars, storeVars, mu>>

\* The device of a client is deleted, by its logout or by WhatsApp: with Postgres the
\* JID of the row may be that of another one.
DeviceDeleted == saved' \in {FALSE, postgres /\ saved}

\* A logout that succeeds deletes the device; one that fails disconnects.
DeleteLogout(p) ==
    /\ pc[p] = "logout"
    /\ cl' = Down(got[p])
    /\ \/ LoggedIn(got[p]) /\ DeviceDeleted
       \/ UNCHANGED saved
    /\ Holding(p, NoClient, "clear")
    /\ UNCHANGED <<postgres, clients, pairingVars, mu>>

\* The row loses its JID.
DeleteClear(p) ==
    /\ pc[p] = "clear"
    /\ saved' = (saved /\ ~postgres)
    /\ Goto(p, "erase")
    /\ UNCHANGED <<postgres, clients, cl, pairingVars, mu>>

\* The SQLite file is removed; deletePostgresSession reads the row again and deletes
\* the device of its JID, if there is one by now.
DeleteErase(p) ==
    /\ pc[p] = "erase"
    /\ saved' = FALSE
    /\ Return(p)
    /\ UNCHANGED <<postgres, clients, cl, pairingVars, mu>>

Delete(p) == \/ DeleteBegin(p) \/ DeleteUnmap(p) \/ DeleteLogout(p) \/ DeleteClear(p)
             \/ DeleteErase(p)

\* A request arrives.  RestoreAllSessions restores without a look.
Call(p, o) ==
    /\ pc[p] = "idle"
    /\ IF o = "boot" THEN ToRestore(p)
                     ELSE /\ pc' = [pc EXCEPT ![p] = "look"]
                          /\ op' = [op EXCEPT ![p] = o]
                          /\ UNCHANGED got
    /\ UNCHANGED <<clients, cl, pairingVars, storeVars, mu>>

Step(p) == Restore(p) \/ Create(p) \/ GetQR(p) \/ GetClient(p) \/ Reload(p) \/ Delete(p)
-----------------------------------------------------------------------------
(* monitorQRChannel of a client.                                            *)

Monitor(c, from, to) == /\ monitor[c] = from
                        /\ monitor' = [monitor EXCEPT ![c] = to]

\* "code": the code on offer is now this client's.
MonitorCode(c) ==
    /\ Monitor(c, "open", "shown") \/ Monitor(c, "shown", "shown")
    /\ Free
    /\ code' = TRUE
    /\ UNCHANGED <<clients, cl, qrCtx, paired, storeVars, callerVars>>

\* "timeout": the code is withdrawn, the channel stays open.
MonitorTimeout(c) ==
    /\ Monitor(c, "shown", "open")
    /\ Free
    /\ code' = FALSE
    /\ UNCHANGED <<clients, cl, qrCtx, paired, storeVars, callerVars>>

\* "success": the time of the pairing is noted, then the JID is written to the row,
\* unless the device is logged out already.
MonitorSuccess(c) ==
    /\ Monitor(c, "success", "saving")
    /\ Free
    /\ paired' = TRUE
    /\ UNCHANGED <<clients, cl, code, qrCtx, storeVars, callerVars>>

MonitorSaveRow(c) ==
    /\ Monitor(c, "saving", "paired")
    /\ saved' \in (IF postgres /\ cl[c] = "down" THEN {saved, TRUE} ELSE {saved \/ postgres})
    /\ UNCHANGED <<postgres, clients, cl, code, qrCtx, paired, callerVars>>

\* The channel has ended: the instance's code and QR context are withdrawn, whichever
\* client they are of by now; without a pairing, a client not logged in is disconnected.
MonitorClean(c) ==
    /\ Free
    /\ qrCtx' = FALSE
    /\ code' = FALSE
    /\ \/ Monitor(c, "paired", "done") /\ UNCHANGED cl
       \/ LoggedIn(c) /\ Monitor(c, "closed", "done") /\ UNCHANGED cl
       \/ ~LoggedIn(c) /\ Monitor(c, "closed", "unmap") /\ cl' = Down(c)
    /\ UNCHANGED <<clients, paired, storeVars, callerVars>>

\* Then the client in the map, whichever that is by now, leaves it, as does the file.
MonitorUnmap(c) ==
    /\ Monitor(c, "unmap", "done")
    /\ Free
    /\ clients' = NoClient
    /\ saved' = (postgres /\ saved)
    /\ UNCHANGED <<postgres, cl, code, qrCtx, paired, callerVars>>

MonitorStep(c) ==
    \/ MonitorCode(c) \/ MonitorTimeout(c) \/ MonitorSuccess(c) \/ MonitorSaveRow(c)
    \/ MonitorClean(c) \/ MonitorUnmap(c)
-----------------------------------------------------------------------------
(* WhatsApp, the phone and whatsmeow.                                       *)

Becomes(c, s) == /\ cl' = [cl EXCEPT ![c] = s]
                 /\ UNCHANGED <<postgres, clients, code, qrCtx, paired>>

\* The phone scans a code that the client's channel has shown.  That takes seconds: no
\* code is shown and scanned between a caller's decision to give the instance's client
\* up and the sections that do so at once.  (Bound: of the clients in use, the phone has
\* paired one.)
PhonePairs(c) ==
    /\ cl[c] = "linking"
    /\ \A p \in Callers : pc[p] \notin {"unpaired", "forget", "recheck", "drop"}
    /\ \A d \in Clients : monitor[d] \notin {"success", "saving", "paired", "done"}
    /\ Monitor(c, "shown", "success")
    /\ saved' = (saved \/ ~postgres)
    /\ Becomes(c, "joining")
    /\ UNCHANGED callerVars

LogsIn(c) ==
    /\ cl[c] = "joining"
    /\ Becomes(c, "online")
    /\ UNCHANGED <<monitor, saved, callerVars>>

\* The connection is lost; whatsmeow reconnects by itself.
Drops(c) ==
    /\ cl[c] = "online"
    /\ Becomes(c, "joining")
    /\ UNCHANGED <<monitor, saved, callerVars>>

\* The phone removes the device: whatsmeow deletes it from its store, and the
\* LoggedOut event starts a goroutine (when a caller is free: a bound).
ServerLogsOut(c) ==
    /\ cl[c] \in {"joining", "online"}
    /\ DeviceDeleted
    /\ Becomes(c, "down")
    /\ \E p \in Callers : /\ pc[p] = "idle"
                          /\ pc' = [pc EXCEPT ![p] = "look"]
                          /\ op' = [op EXCEPT ![p] = "delete"]
    /\ UNCHANGED <<monitor, mu, got>>

\* The QR channel ends: cancelled, timed out or broken.
ChannelEnds(c) ==
    /\ \E s \in {"open", "shown"} : Monitor(c, s, "closed")
    /\ UNCHANGED <<clients, cl, code, qrCtx, paired, storeVars, callerVars>>

\* Thirty seconds since the pairing.
PairingAges ==
    /\ paired
    /\ paired' = FALSE
    /\ UNCHANGED <<clients, cl, code, qrCtx, monitor, storeVars, callerVars>>

Environment ==
    \/ \E c \in Clients : \/ PhonePairs(c) \/ LogsIn(c) \/ Drops(c) \/ ServerLogsOut(c)
                          \/ ChannelEnds(c)
    \/ PairingAges

Next ==
    \/ \E p \in Callers, o \in {"boot", "getQR", "getClient", "delete", "reload"} : Call(p, o)
    \/ \E p \in Callers : Step(p)
    \/ \E c \in Clients : MonitorStep(c)
    \/ Environment

Spec == Init /\ [][Next]_vars
-----------------------------------------------------------------------------
\* The manager's maps, its clients and its callers keep their types: a step that uses a
\* client finds one.
TypeOK ==
    /\ {postgres, saved, qrCtx, code, paired} \subseteq BOOLEAN
    /\ clients \in Clients \cup {NoClient}
    /\ cl \in [Clients -> ClientStates]
    /\ monitor \in [Clients -> MonitorStates]
    /\ mu \in Callers \cup {NoCaller}
    /\ got \in [Callers -> Clients \cup {NoClient}]
    /\ \A p \in Callers : pc[p] \in {"joining", "hung", "publish", "wait", "unpaired", "unmap", "logout"}
                         => got[p] # NoClient

\* m.mu is held through a restore by one caller, whose new client nobody else has:
\* the instance has no other client then, and gets none before the restore ends, or
\* ever if it never does.
RestoreIsExclusive ==
    /\ mu # NoCaller => clients = NoClient /\ \A p \in Callers \ {mu} : got[p] # got[mu]
    /\ \A p \in Callers : pc[p] \in Restoring <=> p = mu

\* A client the phone has just paired survives the API calls that find it not logged
\* in yet: as long as no other QR channel was opened for the instance, or is about to
\* be, only a deletion or a reload disconnects it or takes it from the map before thirty
\* seconds are over.
PairingSurvives ==
    [][LET c == clients
       IN  /\ c # NoClient
           /\ \/ monitor[c] = "success"
              \/ monitor[c] \in {"saving", "paired", "done"} /\ paired
           /\ cl[c] \in {"joining", "online"}
           /\ \A d \in Clients \ {c} : monitor[d] = "none"
           /\ \A p \in Callers : pc[p] \notin {"dial", "publish"}
           => \/ clients' = c /\ cl'[c] # "down"
              \/ \E p \in Callers : /\ pc'[p] # pc[p]
                                   /\ {op[p], op'[p]} \cap {"delete", "reload"} # {}]_vars
=============================================================================
