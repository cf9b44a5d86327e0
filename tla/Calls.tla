------------------------------- MODULE Calls -------------------------------
(***************************************************************************)
(* The calls of an instance (session/whatsmeow/calls.go): the engine that  *)
(* is installed on a client before it connects and removed before the next *)
(* one, the calls it tracks, and what the consumer is told of each.  The   *)
(* engine (meowcaller) is external: it moves a call through its phases and *)
(* calls OnStateChange and OnEnd, the latter inside Hangup.  With an       *)
(* engine installed, whatsmeow's own events of a call's end are not        *)
(* forwarded (engineEndsCall); without one they are all there is.          *)
(*                                                                         *)
(* emitCallState takes m.mu for reading, and a restore removes the old     *)
(* engine while it holds m.mu: `detach' says who removes it.               *)
(***************************************************************************)
EXTENDS Naturals, FiniteSets

CONSTANTS Calls, NoCall

VARIABLES enabled,   \* instances.calls_enabled
          voip,      \* m.voip[instanceID] # nil
          phase,     \* phase[k]: the engine's, or WhatsApp's for a call no engine has
          dir,       \* dir[k]: trackedCall.direction
          mine,      \* the calls the installed engine has seen
          tracked,   \* eng.calls, of the installed engine or of a removed one
          active,    \* trackedCall.active
          localEnd,  \* trackedCall.localEnd
          hint,      \* eng.endHints: rejected on the phone
          answering, \* the calls whose Answer() returned to an AnswerCall still running
          ending,    \* ending[k]: the reason OnEnd is about to tell
          detach,    \* detachCalls: "none", "free", or "locked" (inside a restore)
          hang,      \* the calls it has still to hang up
          own,       \* the call it is hanging up, its OnEnd still telling
          onAir,     \* the calls the other side takes for running
          cut,       \* the calls whose engine was removed
          accepted,  \* accepted[k]: how often the consumer was told of the answer
          ends,      \* ends[k]: how often it was told of the end
          reason,    \* reason[k]: the reason it was told last
          answered   \* the calls it was told are answered, before they ended

vars == <<enabled, voip, phase, dir, mine, tracked, active, localEnd, hint, answering, ending,
          detach, hang, own, onAir, cut, accepted, ends, reason, answered>>

Phases == {"none", "ringing", "connecting", "active", "ended"}
Raw == {"", "rejected", "accepted_elsewhere"}
Reasons == {"", "rejected", "accepted_elsewhere", "rejected_elsewhere", "hangup", "cancelled",
            "missed", "raw"}

Init ==
    /\ enabled \in BOOLEAN /\ voip = FALSE
    /\ phase = [k \in Calls |-> "none"]
    /\ dir = [k \in Calls |-> ""]
    /\ mine = {} /\ tracked = {} /\ active = {} /\ localEnd = {} /\ hint = {} /\ answering = {}
    /\ ending = [k \in Calls |-> ""]
    /\ detach = "none" /\ hang = {} /\ own = NoCall
    /\ onAir = {} /\ cut = {} /\ answered = {}
    /\ accepted = [k \in Calls |-> 0]
    /\ ends = [k \in Calls |-> 0]
    /\ reason = [k \in Calls |-> ""]

Held == detach = "locked"
Live(k) == phase[k] \in {"ringing", "connecting", "active"}
Phase(k, p) == phase' = [phase EXCEPT ![k] = p]

\* Slip: who hung up is asked before whether the call was answered.
EndReasonLocalFirst(k, raw, local) ==
    IF k \in hint THEN "rejected_elsewhere"
    ELSE IF raw # "" THEN raw
    ELSE IF local THEN "cancelled" ELSE IF k \in active THEN "hangup" ELSE "missed"

\* endReason
EndReason(k, raw, local) ==
    IF k \in hint THEN "rejected_elsewhere"
    ELSE IF raw # "" THEN raw
    ELSE IF k \in active THEN "hangup" ELSE IF local THEN "cancelled" ELSE "missed"

\* OnEnd, once per call: out of eng.calls, and the end is to be told.
OnEnd(k, raw, local) ==
    /\ Phase(k, "ended")
    /\ IF k \in tracked /\ ending[k] = ""
       THEN /\ tracked' = tracked \ {k}
            /\ ending' = [ending EXCEPT ![k] = EndReason(k, raw, local)]
            /\ hint' = hint \ {k}
       ELSE UNCHANGED <<tracked, ending, hint>>

Tell(k, why) ==
    /\ ends' = [ends EXCEPT ![k] = @ + 1]
    /\ reason' = [reason EXCEPT ![k] = why]

\* trackCall, of an offer or of StartCall: it ends with an emitCallState, which waits for m.mu.
Track(k, d) ==
    /\ phase[k] = "none" /\ ~Held
    /\ Phase(k, "ringing")
    /\ dir' = [dir EXCEPT ![k] = d]
    /\ onAir' = onAir \cup {k}

Offer(k) ==
    /\ Track(k, "incoming")
    /\ tracked' = IF voip THEN tracked \cup {k} ELSE tracked
    /\ mine' = IF voip THEN mine \cup {k} ELSE mine
    /\ UNCHANGED <<enabled, voip, active, localEnd, hint, answering, ending, detach, hang, own,
                   cut, accepted, ends, reason, answered>>

StartCall(k) ==
    /\ voip
    /\ Track(k, "outgoing")
    /\ tracked' = tracked \cup {k}
    /\ mine' = mine \cup {k}
    /\ UNCHANGED <<enabled, voip, active, localEnd, hint, answering, ending, detach, hang, own,
                   cut, accepted, ends, reason, answered>>

\* The first of OnStateChange and AnswerCall to find the call not active tells of the answer.
Accept(k) ==
    /\ active' = active \cup {k}
    /\ IF k \in active THEN UNCHANGED <<accepted, answered>>
       ELSE /\ accepted' = [accepted EXCEPT ![k] = @ + 1]
            /\ answered' = IF phase[k] = "ended" THEN answered ELSE answered \cup {k}

\* OnStateChange, active: the other side's audio, after AnswerCall or on a call of ours.
BecomesActive(k) ==
    /\ ~Held
    /\ k \in tracked
    /\ phase[k] = IF dir[k] = "incoming" THEN "connecting" ELSE "ringing"
    /\ Phase(k, "active")
    /\ Accept(k)
    /\ UNCHANGED <<enabled, voip, dir, mine, tracked, localEnd, hint, answering, ending, detach,
                   hang, own, onAir, cut, ends, reason>>

\* lookupCall
Known(k) == voip /\ k \in mine \cap tracked

AnswerCall(k) ==
    /\ Known(k) /\ phase[k] = "ringing" /\ dir[k] = "incoming"
    /\ Phase(k, "connecting")
    /\ answering' = answering \cup {k}
    /\ UNCHANGED <<enabled, voip, dir, mine, tracked, active, localEnd, hint, ending, detach, hang,
                   own, onAir, cut, accepted, ends, reason, answered>>

\* It told of the answer only if an engine, of whichever client, is installed.
Answered(k) ==
    /\ k \in answering /\ ~Held
    /\ answering' = answering \ {k}
    /\ IF voip THEN Accept(k)
               ELSE active' = active \cup {k} /\ UNCHANGED <<accepted, answered>>
    /\ UNCHANGED <<enabled, voip, phase, dir, mine, tracked, localEnd, hint, ending, detach, hang,
                   own, onAir, cut, ends, reason>>

\* HangupCall, RejectCall: the other side may end the call in the meantime (Crossed).
Crossed(k) == onAir' \in {onAir, onAir \ {k}}

HangupCall(k) ==
    /\ Known(k) /\ Live(k)
    /\ localEnd' = localEnd \cup {k}
    /\ OnEnd(k, "", TRUE)
    /\ Crossed(k)
    /\ UNCHANGED <<enabled, voip, dir, mine, active, answering, detach, hang, own, cut, accepted,
                   ends, reason, answered>>

\* A CallReject from the account's own phone: the hint precedes the engine's handler.
RejectedOnPhone(k) ==
    /\ k \in mine \cap tracked /\ voip /\ ~Held
    /\ phase[k] = "ringing" /\ dir[k] = "incoming"
    /\ hint' = hint \cup {k}
    /\ UNCHANGED <<enabled, voip, phase, dir, mine, tracked, active, localEnd, answering, ending,
                   detach, hang, own, onAir, cut, accepted, ends, reason, answered>>

\* Slip: the events of whatsmeow are forwarded whatever engine is installed.
OtherSideEndsBoth(k, raw) ==
    /\ k \in onAir /\ ~Held
    /\ onAir' = onAir \ {k}
    /\ OnEnd(k, raw, k \in localEnd)
    /\ Tell(k, "raw")
    /\ UNCHANGED <<enabled, voip, dir, mine, active, localEnd, answering, detach, hang, own, cut,
                   accepted, answered>>

\* CallTerminate or CallReject: the engine's own OnEnd, or the raw event when none is
\* installed; an engine that never saw the call lets its end go unsaid.
OtherSideEnds(k, raw) ==
    /\ k \in onAir /\ ~Held
    /\ onAir' = onAir \ {k}
    /\ OnEnd(k, raw, k \in localEnd)
    /\ IF voip THEN UNCHANGED <<ends, reason>> ELSE Tell(k, "raw")
    /\ UNCHANGED <<enabled, voip, dir, mine, active, localEnd, answering, detach, hang, own, cut,
                   accepted, answered>>

\* The two emitCallState of OnEnd.
TellEnd(k) ==
    /\ ending[k] # "" /\ ~Held
    /\ Tell(k, ending[k])
    /\ ending' = [ending EXCEPT ![k] = ""]
    /\ own' = IF own = k THEN NoCall ELSE own
    /\ UNCHANGED <<enabled, voip, phase, dir, mine, tracked, active, localEnd, hint, answering,
                   detach, hang, onAir, cut, accepted, answered>>

Removed(w) ==
    /\ detach = "none"
    /\ detach' = w
    /\ voip' = FALSE
    /\ mine' = {}
    /\ cut' = cut \cup mine
    /\ UNCHANGED <<enabled, phase, dir, tracked, active, localEnd, hint, answering, ending, own,
                   onAir, accepted, ends, reason, answered>>

\* Slip: the engine goes, its calls do not.
DetachForgets(w) == Removed(w) /\ hang' = {}

\* detachCalls: "locked" from restoreSessionIfExists, "free" from the rest.
Detach(w) == Removed(w) /\ hang' = mine \cap tracked

HangUp(k) ==
    /\ k \in hang /\ own = NoCall
    /\ hang' = hang \ {k}
    /\ own' = IF k \in tracked THEN k ELSE NoCall
    /\ UNCHANGED localEnd /\ OnEnd(k, "", k \in localEnd)
    /\ Crossed(k)
    /\ UNCHANGED <<enabled, voip, dir, mine, active, answering, detach, cut, accepted, ends,
                   reason, answered>>

\* attachCalls goes on to install an engine; DeleteSession and ReloadClient stop here.
Attach(on) ==
    /\ detach # "none" /\ hang = {} /\ own = NoCall
    /\ on => enabled
    /\ Held => (on = enabled)
    /\ detach' = "none"
    /\ voip' = on
    /\ UNCHANGED <<enabled, phase, dir, mine, tracked, active, localEnd, hint, answering, ending,
                   hang, own, onAir, cut, accepted, ends, reason, answered>>

\* PUT /instances/{id}
SetEnabled ==
    /\ enabled' = ~enabled
    /\ UNCHANGED <<voip, phase, dir, mine, tracked, active, localEnd, hint, answering, ending,
                   detach, hang, own, onAir, cut, accepted, ends, reason, answered>>

Next ==
    \/ \E k \in Calls :
        \/ Offer(k) \/ StartCall(k) \/ BecomesActive(k) \/ AnswerCall(k) \/ Answered(k)
        \/ HangupCall(k) \/ RejectedOnPhone(k) \/ TellEnd(k) \/ HangUp(k)
        \/ \E raw \in Raw : OtherSideEnds(k, raw)
    \/ \E w \in {"free", "locked"} : Detach(w)
    \/ \E on \in BOOLEAN : Attach(on)
    \/ SetEnabled

Spec == Init /\ [][Next]_vars

\* What was begun goes on; whether a call is answered or ended, and when a session is
\* restored or deleted, is left to the others.
Fairness ==
    /\ \A k \in Calls : SF_vars(TellEnd(k)) /\ WF_vars(Answered(k)) /\ WF_vars(HangUp(k))
    /\ WF_vars(\E on \in BOOLEAN : Attach(on))

FairSpec == Spec /\ Fairness
-----------------------------------------------------------------------------
TypeOK ==
    /\ {enabled, voip} \subseteq BOOLEAN
    /\ phase \in [Calls -> Phases]
    /\ dir \in [Calls -> {"", "incoming", "outgoing"}]
    /\ mine \cup tracked \cup active \cup localEnd \cup hint \cup answering \cup hang \cup onAir
       \cup cut \cup answered \subseteq Calls
    /\ own \in Calls \cup {NoCall}
    /\ detach \in {"none", "free", "locked"}
    /\ {ending[k] : k \in Calls} \cup {reason[k] : k \in Calls} \subseteq Reasons
    /\ hang # {} => detach # "none"

\* "once per call" (docs/webhook-payloads.md): the consumer is not told twice of the end of
\* a call, unless its engine was removed while the other side was ending it too; nor twice
\* of its answer.
EndedOnce == \A k \in Calls : (ends[k] <= 1 \/ k \in cut) /\ accepted[k] <= 1

\* A call the consumer was told is answered is not told missed or cancelled afterwards,
\* whoever hangs up and however the two messages race.
ReasonFits ==
    \A k \in answered : reason[k] \notin {"missed", "cancelled"} /\ ending[k] \notin {"missed", "cancelled"}

\* The manager waits for the m.mu it holds: a restore that hangs up a running call.
Stuck == Held /\ own # NoCall

\* Short of that, a call the engine has seen is told to have ended once it has, or once its
\* engine is gone.
EndIsTold ==
    []~Stuck => \A k \in Calls : (k \in cut \/ (k \in mine /\ phase[k] = "ended")) ~> ends[k] > 0
=============================================================================
