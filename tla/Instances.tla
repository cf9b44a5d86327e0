------------------------------ MODULE Instances ------------------------------
(***************************************************************************)
(* The row of one instance and those who write it.  Some read the whole    *)
(* row, change their fields and write it all back: PUT and the rotation of *)
(* the token (service/instance), the monitor of the QR channel and         *)
(* DeleteSession (session/whatsmeow).  The history-sync cycle, like the    *)
(* status of an event, writes its columns only.  Nothing guards the time   *)
(* between a read and its write: `lost' says a write undid another's.      *)
(*                                                                         *)
(* Who may act on the instance (GetByUser) and the validation of a name or *)
(* a URL come before everything here.  A statement of the database does    *)
(* not fail, and the process does not end: the end of a cycle that fails,  *)
(* or a restart in its ten seconds, leaves the row at "running".           *)
(***************************************************************************)
EXTENDS Naturals, FiniteSets

CONSTANTS Callers,   \* requests, monitors and deletions
          MaxCycles  \* bound: history-sync cycles

VARIABLES exists,  \* the row is there
          row,     \* its columns, those that somebody reads here (not name, webhook, token, JID)
          op,      \* op[p]: what a caller is doing
          read,    \* read[p]: the row it has read
          engine,  \* the call engine is installed on the instance's client
          workers, \* the workers of history-sync cycles, asleep
          cycles,
          lost

vars == <<exists, row, op, read, engine, workers, cycles, lost>>

Keep == "keep"
Rows == [calls : BOOLEAN, history : {"pending", "running", "completed"}]
Idle == [do |-> "none"]
\* rotateToken and the pairing's write are, to these columns, a PUT that keeps them.
RotateToken == [do |-> "put", calls |-> Keep]
Writers == [do : {"put"}, calls : {"true", "false"}] \cup {RotateToken} \cup [do : {"delete"}]

NewRow == [calls |-> FALSE, history |-> "pending"]

Init ==
    /\ exists = TRUE
    /\ row = NewRow
    /\ op = [p \in Callers |-> Idle]
    /\ read = [p \in Callers |-> NewRow]
    /\ engine = FALSE
    /\ workers = 0 /\ cycles = 0
    /\ lost = FALSE

\* UPDATE of every column, WHERE the id: nothing if the row is gone.
WriteRow(r) == row' = IF exists THEN r ELSE row

\* UPDATE of the columns of the history sync only.
WriteHistory(s) == WriteRow([row EXCEPT !.history = s])

GetByID(p, o) ==
    /\ op[p] = Idle
    /\ exists
    /\ op' = [op EXCEPT ![p] = o]
    /\ read' = [read EXCEPT ![p] = row]
    /\ UNCHANGED <<exists, row, engine, workers, cycles, lost>>

\* applyUpdate: a field that the request leaves out stays.
ApplyUpdate(r, in) ==
    [r EXCEPT !.calls = IF in.calls = Keep THEN @ ELSE in.calls = "true"]

\* A deletion clears the JID, another column.
Change(r, o) == IF o.do = "put" THEN ApplyUpdate(r, o) ELSE r

\* Slip: calls_enabled is compared after the request was applied.
NextStepApplied(p) ==
    CASE op[p].do = "delete" -> [do |-> "erase"]
      [] op[p].do = "put" /\ exists /\ row'.calls # ApplyUpdate(read[p], op[p]).calls -> [do |-> "reload"]
      [] OTHER -> Idle

\* saveAndReload: the client is swapped when calls_enabled is not what had been read.
NextStep(p) ==
    CASE op[p].do = "delete" -> [do |-> "erase"]
      [] op[p].do = "put" /\ exists /\ row'.calls # read[p].calls -> [do |-> "reload"]
      [] OTHER -> Idle

\* Update: the whole row as the caller has it.  A row that is gone is not written: the
\* request fails, a deletion goes on.
Update(p) ==
    /\ op[p] \in Writers
    /\ WriteRow(Change(read[p], op[p]))
    /\ lost' = (lost \/ (exists /\ read[p] # row))
    /\ op' = [op EXCEPT ![p] = NextStep(p)]
    /\ read' = [read EXCEPT ![p] = NewRow]
    /\ UNCHANGED <<exists, engine, workers, cycles>>

\* ReloadClient: attachCalls reads the row again.
Reload(p) ==
    /\ op[p].do = "reload"
    /\ op' = [op EXCEPT ![p] = Idle]
    /\ engine' = (exists /\ row.calls)
    /\ UNCHANGED <<exists, row, read, workers, cycles, lost>>

\* Delete: the messages and the event logs, then the row.  (A log line of DeleteSession's
\* own goroutine that comes in between makes PostgreSQL refuse.)
Erase(p) ==
    /\ op[p].do = "erase"
    /\ op' = [op EXCEPT ![p] = Idle]
    /\ exists' \in {FALSE, exists}
    /\ UNCHANGED <<row, read, engine, workers, cycles, lost>>

\* initHistorySyncCycle after a pairing: a failed update starts no worker.
StartCycle ==
    /\ exists /\ cycles < MaxCycles
    /\ WriteHistory("running")
    /\ cycles' = cycles + 1
    /\ workers' = workers + 1
    /\ UNCHANGED <<exists, op, read, engine, lost>>

\* Slip: only the worker of the first cycle that ends writes it.
EndCycleOnce ==
    /\ workers > 0
    /\ workers' = workers - 1
    /\ row' = IF exists /\ workers = cycles THEN [row EXCEPT !.history = "completed"] ELSE row
    /\ UNCHANGED <<exists, op, read, engine, cycles, lost>>

\* runHistorySyncWorker: ten seconds later, cancelled or not; finalizeHistorySyncCycle.
EndCycle ==
    /\ workers > 0
    /\ workers' = workers - 1
    /\ WriteHistory("completed")
    /\ UNCHANGED <<exists, op, read, engine, cycles, lost>>

Next ==
    \/ \E p \in Callers :
        \/ \E o \in Writers : GetByID(p, o)
        \/ Update(p) \/ Reload(p) \/ Erase(p)
    \/ StartCycle \/ EndCycle

Spec == Init /\ [][Next]_vars
-----------------------------------------------------------------------------
TypeOK ==
    /\ {exists, engine, lost} \subseteq BOOLEAN
    /\ {row} \cup {read[p] : p \in Callers} \subseteq Rows
    /\ \A p \in Callers : op[p] \in Writers \cup {Idle, [do |-> "reload"], [do |-> "erase"]}
    /\ workers <= cycles /\ cycles <= MaxCycles

\* Once no request runs, the client has a call engine if and only if the row says so,
\* unless a stale row was written over a change.
EngineFollows == (exists /\ ~lost /\ \A p \in Callers : op[p] = Idle) => engine = row.calls

\* A history sync shown as running is one: a worker of its cycle or of a cancelled one is
\* still to end it, unless a stale row was written over its end.
RunningHasWorker == exists /\ ~lost /\ row.history = "running" => workers > 0
=============================================================================
