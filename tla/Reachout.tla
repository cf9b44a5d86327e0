------------------------------ MODULE Reachout ------------------------------
(***************************************************************************)
(* reachout_negcache.go: which instances a contact has refused (error 463) *)
(* and not written to since, for one contact.  The sync.Map holds, per     *)
(* contact, a Go map of instances and expiries.  The maps are changed      *)
(* under reachoutNegMu, but reachoutBlocked, reachoutRelease and the daily *)
(* cleanup look the map up before they take the mutex.  A map that becomes *)
(* empty leaves the sync.Map; a caller that looked it up earlier still     *)
(* holds it.                                                               *)
(***************************************************************************)
EXTENDS Naturals, FiniteSets

CONSTANTS Callers,    \* concurrent callers: sends, inbound messages, the cleanup
          Instances,
          Maps,       \* Go maps the contact may be given: a bound on allocations
          NoMap, NoInstance

ASSUME ConstantsAssumption ==
    /\ NoMap \notin Maps
    /\ NoInstance \notin Instances

VARIABLES entry,   \* entry: the map under the contact's key, NoMap if there is none
          content, \* content[m]: the instances of the map and whether they expired
          used,    \* the maps allocated so far
          op,      \* op[p]: the operation of the caller, "none" between two
          inst,    \* inst[p]: its instance
          held,    \* held[p]: the map it looked up
          answer   \* answer[p]: what its last reachoutBlocked said

vars == <<entry, content, used, op, inst, held, answer>>

Ops == {"none", "blocked", "release", "cleanup"}
Absent == "absent"

Init == /\ entry = NoMap
        /\ content = [m \in Maps |-> [i \in Instances |-> Absent]]
        /\ used = {}
        /\ op = [p \in Callers |-> "none"]
        /\ inst = [p \in Callers |-> NoInstance]
        /\ held = [p \in Callers |-> NoMap]
        /\ answer = [p \in Callers |-> FALSE]

Empty(c) == \A i \in Instances : c[i] = Absent

\* The instance's block, as the next lookup finds it.
Barred(i) == entry # NoMap /\ content[entry][i] = "fresh"
-----------------------------------------------------------------------------
\* A caller looks the contact's map up, without the mutex; there being none is
\* answered at once.
Load(p, o, i) ==
    /\ op[p] = "none"
    /\ o # "none"
    /\ o = "cleanup" <=> i = NoInstance
    /\ IF entry = NoMap
       THEN /\ answer' = [answer EXCEPT ![p] = FALSE]
            /\ UNCHANGED <<op, inst, held>>
       ELSE /\ op' = [op EXCEPT ![p] = o]
            /\ inst' = [inst EXCEPT ![p] = i]
            /\ held' = [held EXCEPT ![p] = entry]
            /\ UNCHANGED answer
    /\ UNCHANGED <<entry, content, used>>

Return(p) ==
    /\ op' = [op EXCEPT ![p] = "none"]
    /\ inst' = [inst EXCEPT ![p] = NoInstance]
    /\ held' = [held EXCEPT ![p] = NoMap]

\* What is left of the map is written back; an empty map takes the contact's key
\* with it, whichever map that holds by now.
Keep(m, c) ==
    /\ content' = [content EXCEPT ![m] = c]
    /\ entry' = IF Empty(c) THEN NoMap ELSE entry

\* reachoutBlocked, under the mutex: an expired block is dropped.
Blocked(p) ==
    LET c == content[held[p]]
        i == inst[p]
    IN  /\ op[p] = "blocked"
        /\ answer' = [answer EXCEPT ![p] = c[i] = "fresh"]
        /\ IF c[i] = "expired" THEN Keep(held[p], [c EXCEPT ![i] = Absent])
                               ELSE UNCHANGED <<content, entry>>
        /\ Return(p)
        /\ UNCHANGED used

\* Slip: an emptied map stays under the contact's key.
ReleaseKeepsKey(p) ==
    /\ op[p] = "release"
    /\ content' = [content EXCEPT ![held[p]][inst[p]] = Absent]
    /\ Return(p)
    /\ UNCHANGED <<entry, used, answer>>

\* Slip: the contact's key goes whatever else its map holds.
ReleaseAll(p) ==
    /\ op[p] = "release"
    /\ Keep(held[p], [i \in Instances |-> Absent])
    /\ Return(p)
    /\ UNCHANGED <<used, answer>>

\* reachoutRelease, under the mutex.
Release(p) ==
    /\ op[p] = "release"
    /\ Keep(held[p], [content[held[p]] EXCEPT ![inst[p]] = Absent])
    /\ Return(p)
    /\ UNCHANGED <<used, answer>>

\* One key of the cleanup, under the mutex.
Cleanup(p) ==
    /\ op[p] = "cleanup"
    /\ Keep(held[p], [i \in Instances |-> IF content[held[p]][i] = "fresh" THEN "fresh"
                                                                          ELSE Absent])
    /\ Return(p)
    /\ UNCHANGED <<used, answer>>

\* Slip: the store, too, uses a map that was looked up before the mutex was taken.
StoreStale(i) ==
    /\ \E m \in Maps :
          /\ entry = NoMap \/ m \in used
          /\ entry' = IF m \in used THEN entry ELSE m
          /\ used' = used \cup {m}
          /\ content' = [content EXCEPT ![m][i] = "fresh"]
    /\ UNCHANGED <<op, inst, held, answer>>

\* reachoutStore, under the mutex from its lookup on: the contact's map, or a new
\* one.
Store(i) ==
    /\ \E m \in Maps :
          /\ IF entry = NoMap THEN m \notin used ELSE m = entry
          /\ entry' = m
          /\ used' = used \cup {m}
          /\ content' = [content EXCEPT ![m][i] = "fresh"]
    /\ UNCHANGED <<op, inst, held, answer>>

\* Six hours pass since a block was recorded.
Expire(m, i) ==
    /\ content[m][i] = "fresh"
    /\ content' = [content EXCEPT ![m][i] = "expired"]
    /\ UNCHANGED <<entry, used, op, inst, held, answer>>

Next == \/ \E p \in Callers, o \in Ops, i \in Instances \cup {NoInstance} : Load(p, o, i)
        \/ \E p \in Callers : Blocked(p) \/ Release(p) \/ Cleanup(p)
        \/ \E i \in Instances : Store(i)
        \/ \E m \in Maps, i \in Instances : Expire(m, i)

Spec == Init /\ [][Next]_vars
-----------------------------------------------------------------------------
\* Every variable keeps its type, and the map under the contact's key is not empty:
\* a contact nobody is barred from takes no memory.
TypeOK ==
    /\ entry \in Maps \cup {NoMap}
    /\ content \in [Maps -> [Instances -> {Absent, "fresh", "expired"}]]
    /\ used \subseteq Maps
    /\ op \in [Callers -> Ops]
    /\ inst \in [Callers -> Instances \cup {NoInstance}]
    /\ held \in [Callers -> Maps \cup {NoMap}]
    /\ answer \in [Callers -> BOOLEAN]
    /\ \A p \in Callers : /\ op[p] = "none" <=> held[p] = NoMap
                          /\ op[p] \in {"blocked", "release"} => inst[p] \in Instances
    /\ entry # NoMap => ~Empty(content[entry])

\* A block is never recorded in a map that has left the cache, where the next lookup
\* would not find it.
RecordedIsFound ==
    [][\A m \in Maps, i \in Instances :
          content[m][i] # "fresh" /\ content'[m][i] = "fresh" => Barred(i)']_vars

\* A caller that still holds the contact's map does exactly what it is for: a release
\* drops its own instance's block, a lookup and the cleanup drop none that has not
\* expired, and no other instance's block is touched.
HolderIsExact ==
    [][\A p \in Callers, i \in Instances :
          op[p] # "none" /\ op'[p] = "none" /\ held[p] = entry
             => (Barred(i)' <=> Barred(i) /\ ~(op[p] = "release" /\ i = inst[p]))]_vars
-----------------------------------------------------------------------------
\* What the comment says and the code does not do: a caller may hold another map.

\* "unblocks ONLY the given instance for the contact ... Other connections stay
\* blocked until the contact talks to them too" (reachout_negcache.go).
ReleaseIsOwn ==
    [][\A p \in Callers, i \in Instances :
          op[p] = "release" /\ op'[p] = "none" /\ i # inst[p] /\ Barred(i) => Barred(i)']_vars
=============================================================================
