----------------------------- MODULE Connection -----------------------------
(***************************************************************************)
(* What the instance's row says of its connection (session/whatsmeow:      *)
(* handleEvent and cooldownInstance in events.go): the status written by   *)
(* the events of whatsmeow, the thirty seconds a lost socket may take to   *)
(* come back unnoticed, the pause after a temporary ban; and by the        *)
(* requests that find the row at odds with the client (send.go,            *)
(* profile.go).                                                            *)
(*                                                                         *)
(* A handler takes milliseconds and is one action, its write of the row    *)
(* included; what it leaves behind (a timer, a goroutine that sleeps) is   *)
(* state.  Nobody looks at what Stop() returns: a timer that has gone off  *)
(* writes the row after the event that stopped it too late.  While a       *)
(* restore holds m.mu, handlers and timers wait.  The events name the      *)
(* instance, not the client: a client that a failed restore left behind    *)
(* connected writes the same row.  Which client is the instance's is       *)
(* Session's subject: here GetClient replaces one not logged in.           *)
(***************************************************************************)
EXTENDS Naturals

CONSTANTS Clients, NoClient,
          MaxTimers  \* bound: the timers of disconnections at once

VARIABLES cur,       \* m.clients: the instance's client
          sock,      \* sock[c]: the socket of a client
          auto,      \* auto[c]: EnableAutoReconnect
          restoring, \* the client restoreSessionIfExists connects, m.mu held
          expected,  \* m.expectedDisconnect
          debounce,  \* m.disconnectDebounce: a timer runs that can be stopped
          fired,     \* how many timers nobody can stop any more, before their turn at m.mu
          telling,   \* how many have had it, and have yet to write the row
          doubts,    \* a request has found the client not logged in, and is to write so
          check,     \* the goroutine that looks ten seconds after a pairing
          cooling,   \* the clients with a cool-down timer
          status     \* the instance's row

vars == <<cur, sock, auto, restoring, expected, debounce, fired, telling, doubts,
          check, cooling, status>>
\* What may write the row late.
late == <<fired, telling, doubts>>

\* "retry": connecting, by whatsmeow's own reconnect or a Connect just called;
\* "closing": the stream has failed, the socket is about to; "off": at rest.
Sockets == {"up", "retry", "closing", "off"}
Statuses == {"pending", "active", "error", "disconnected"}

Init ==
    /\ cur = NoClient /\ restoring = NoClient
    /\ sock = [c \in Clients |-> "off"]
    /\ auto = [c \in Clients |-> TRUE]
    /\ expected = FALSE /\ debounce = FALSE /\ check = FALSE
    /\ fired = 0 /\ telling = 0 /\ doubts = FALSE
    /\ cooling = {}
    /\ status \in Statuses

Socket(c, s) == sock' = [sock EXCEPT ![c] = s]
Unlocked == restoring = NoClient
\* What the callback of main.go makes of the word it is given.
StatusChange(s) == IF s \in {"active", "error"} THEN s ELSE "pending"
Online == cur # NoClient /\ sock[cur] = "up"

\* Connected: a debounce is over, a disconnection is unexpected from here on.
Connected(c) ==
    /\ Socket(c, "up")
    /\ debounce' = FALSE
    /\ expected' = FALSE
    /\ status' = "active"

OnConnected(c) ==
    /\ Unlocked
    /\ sock[c] = "retry"
    /\ Connected(c)
    /\ UNCHANGED <<cur, auto, restoring, check, cooling, late>>

\* Disconnected: an intentional one counts at once, another in thirty seconds, counted
\* from the last.
OnDisconnected(c) ==
    /\ Unlocked
    /\ sock[c] \in {"up", "closing"}
    /\ debounce \/ fired + telling < MaxTimers
    /\ Socket(c, IF auto[c] THEN "retry" ELSE "off")
    /\ expected' = FALSE
    /\ IF expected THEN status' = "error" /\ UNCHANGED debounce
                   ELSE debounce' = TRUE /\ UNCHANGED status
    /\ UNCHANGED <<cur, auto, restoring, check, cooling, late>>

\* The timer goes off: Stop() is too late for it.
DebounceFires ==
    /\ debounce
    /\ debounce' = FALSE
    /\ fired' = fired + 1
    /\ UNCHANGED <<cur, sock, auto, restoring, expected, telling, doubts, check, cooling,
                   status>>

\* Its turn at m.mu: it takes out of the map the timer that is there, its own or a later one,
\* which nobody finds to stop from here on.
DebounceEnds ==
    /\ Unlocked
    /\ fired > 0
    /\ debounce' = FALSE
    /\ fired' = IF debounce THEN fired ELSE fired - 1
    /\ telling' = telling + 1
    /\ UNCHANGED <<cur, sock, auto, restoring, expected, doubts, check, cooling, status>>

\* Slip: the loss is only logged.
DebounceTellsNobody ==
    /\ telling > 0
    /\ telling' = telling - 1
    /\ UNCHANGED <<cur, sock, auto, restoring, expected, debounce, fired, doubts, check,
                   cooling, status>>

\* After the unlock, whatever has happened since.
DebounceTells ==
    /\ telling > 0
    /\ telling' = telling - 1
    /\ status' = "error"
    /\ UNCHANGED <<cur, sock, auto, restoring, expected, debounce, fired, doubts, check,
                   cooling>>

\* LoggedOut: the row is written twice, "disconnected" and then what the callback makes of
\* that word; the session goes a second later (Delete, which may come at any time).
OnLoggedOut(c) ==
    /\ Unlocked
    /\ sock[c] \in {"up", "retry"}
    /\ Socket(c, "off")
    /\ debounce' = FALSE
    /\ status' = StatusChange("disconnected")
    /\ UNCHANGED <<cur, auto, restoring, expected, check, cooling, late>>

\* cooldownInstance: the client in the map is disconnected, for the time of the ban or
\* thirty minutes; a client in no map is left alone.
CoolDown ==
    IF cur = NoClient THEN UNCHANGED <<sock, auto, cooling>>
    ELSE /\ auto' = [auto EXCEPT ![cur] = FALSE]
         /\ Socket(cur, "off")
         /\ cooling' = cooling \cup {cur}

\* TemporaryBan, or a ConnectFailure for that reason; not while m.mu is held.
OnTemporaryBan(c) ==
    /\ Unlocked
    /\ sock[c] \in {"up", "retry"}
    /\ CoolDown
    /\ status' = "error"
    /\ UNCHANGED <<cur, restoring, expected, debounce, check, late>>

\* Slip: auto-reconnect stays off.
CoolDownEndsManual(c) ==
    /\ Unlocked
    /\ c \in cooling
    /\ cooling' = cooling \ {c}
    /\ IF cur = c THEN Socket(c, "retry") \/ UNCHANGED sock
                  ELSE UNCHANGED sock
    /\ UNCHANGED <<cur, auto, restoring, expected, debounce, check, status, late>>

\* The pause is over: the client connects again if it is still the instance's.
CoolDownEnds(c) ==
    /\ Unlocked
    /\ c \in cooling
    /\ cooling' = cooling \ {c}
    /\ IF cur = c
       THEN /\ auto' = [auto EXCEPT ![c] = TRUE]
            /\ Socket(c, "retry") \/ UNCHANGED sock
       ELSE UNCHANGED <<sock, auto>>
    /\ UNCHANGED <<cur, restoring, expected, debounce, check, status, late>>

\* StreamError: the server closes the socket next.
OnStreamError(c) ==
    /\ Unlocked
    /\ sock[c] = "up"
    /\ Socket(c, "closing")
    /\ status' = "error"
    /\ UNCHANGED <<cur, auto, restoring, expected, debounce, check, cooling, late>>

\* ConnectFailure, PairError, ClientOutdated: whatsmeow gives up, or tries again.
OnFailure(c) ==
    /\ Unlocked
    /\ sock[c] = "retry"
    /\ Socket(c, "off") \/ UNCHANGED sock
    /\ status' = "error"
    /\ UNCHANGED <<cur, auto, restoring, expected, debounce, check, cooling, late>>

\* PairSuccess and the "success" of the QR channel; whatsmeow reconnects then.
OnPaired(c) ==
    /\ Unlocked
    /\ cur = c
    /\ sock[c] = "off"
    /\ c \notin cooling
    /\ Socket(c, "retry")
    /\ status' = "active"
    /\ check' = TRUE
    /\ UNCHANGED <<cur, auto, restoring, expected, debounce, cooling, late>>

PairingCheck ==
    /\ Unlocked
    /\ check
    /\ check' = FALSE
    /\ IF ~Online THEN status' = "error" ELSE UNCHANGED status
    /\ UNCHANGED <<cur, sock, auto, restoring, expected, debounce, cooling, late>>

\* createSession: a client that waits for its QR code to be scanned.
Link(c) ==
    /\ Unlocked /\ cur = NoClient
    /\ sock[c] = "off" /\ c \notin cooling
    /\ cur' = c
    /\ auto' = [auto EXCEPT ![c] = TRUE]
    /\ UNCHANGED <<sock, restoring, expected, debounce, check, cooling, status, late>>

\* GetClient: a client that is not logged in leaves the map as it is, and a new one of
\* the saved session connects.
Replace(c) ==
    /\ Unlocked
    /\ ~Online
    /\ sock[c] = "off" /\ c # cur /\ c \notin cooling
    /\ cur' = NoClient
    /\ restoring' = c
    /\ auto' = [auto EXCEPT ![c] = TRUE]
    /\ Socket(c, "retry")
    /\ UNCHANGED <<expected, debounce, check, cooling, status, late>>

\* Three calls of Connect that fail: the client is dropped, the row stays.
RestoreFails ==
    /\ restoring # NoClient
    /\ Socket(restoring, "off")
    /\ restoring' = NoClient
    /\ UNCHANGED <<cur, auto, expected, debounce, check, cooling, status, late>>

\* Logged in: the client is the instance's, and the event that waited for m.mu is handled.
Restored ==
    /\ restoring # NoClient
    /\ cur' = restoring
    /\ restoring' = NoClient
    /\ Connected(restoring)
    /\ UNCHANGED <<auto, check, cooling, late>>

\* Not logged in after three seconds: the row says so, the client stays connected.
RestoredLate ==
    /\ restoring # NoClient
    /\ restoring' = NoClient
    /\ status' = "error"
    /\ UNCHANGED <<cur, sock, auto, expected, debounce, check, cooling, late>>

\* DeleteSession: a request, or the goroutine of a LoggedOut.
Delete ==
    /\ Unlocked
    /\ expected' = TRUE
    /\ cur' = NoClient
    /\ IF cur = NoClient THEN UNCHANGED sock ELSE Socket(cur, "off")
    /\ status' = "disconnected"
    /\ UNCHANGED <<auto, restoring, debounce, check, cooling, late>>

\* A request (a send, a look at the profile) finds the session live and the row not active.
RequestCorrects ==
    /\ Online
    /\ status # "active"
    /\ status' = "active"
    /\ UNCHANGED <<cur, sock, auto, restoring, expected, debounce, check, cooling, late>>

\* A request finds no client, or one that is not logged in; a send may learn it from its
\* last attempt.
RequestDoubts ==
    /\ ~Online
    /\ doubts' = TRUE
    /\ UNCHANGED <<cur, sock, auto, restoring, expected, debounce, check, cooling, fired,
                   telling, status>>

\* It writes the row without another look.
RequestMarks ==
    /\ doubts
    /\ doubts' = FALSE
    /\ status' \in {"error", "disconnected"}
    /\ UNCHANGED <<cur, sock, auto, restoring, expected, debounce, check, cooling, fired,
                   telling>>

Next ==
    \/ \E c \in Clients :
        \/ OnConnected(c) \/ OnDisconnected(c) \/ OnLoggedOut(c) \/ OnTemporaryBan(c)
        \/ CoolDownEnds(c) \/ OnStreamError(c) \/ OnFailure(c) \/ OnPaired(c)
        \/ Link(c) \/ Replace(c)
    \/ DebounceFires \/ DebounceEnds \/ DebounceTells \/ PairingCheck \/ Delete
    \/ RequestCorrects \/ RequestDoubts \/ RequestMarks
    \/ RestoreFails \/ Restored \/ RestoredLate

Spec == Init /\ [][Next]_vars

\* A timer goes off and writes the row (strongly at m.mu: who waits for a Go mutex that is let
\* go of again and again gets it), a closing socket closes; nothing is assumed of the network
\* or of the callers, nor that a restore ends.
Fairness ==
    /\ WF_vars(DebounceFires)
    /\ SF_vars(DebounceEnds)
    /\ WF_vars(DebounceTells)
    /\ \A c \in Clients : SF_vars(sock[c] = "closing" /\ OnDisconnected(c))

FairSpec == Spec /\ Fairness
-----------------------------------------------------------------------------
TypeOK ==
    /\ {cur, restoring} \subseteq Clients \cup {NoClient}
    /\ sock \in [Clients -> Sockets]
    /\ auto \in [Clients -> BOOLEAN]
    /\ {expected, debounce, doubts, check} \subseteq BOOLEAN
    /\ {fired, telling} \subseteq Nat
    /\ cooling \subseteq Clients
    /\ status \in Statuses

Left == {c \in Clients : c \notin {cur, restoring} /\ sock[c] # "off"}

Lost == ~check /\ \A c \in Clients : sock[c] # "up"
\* Nobody is about to write, of a client that is online, that it is not.
NothingLate == Online => fired = 0 /\ telling = 0 /\ ~doubts

\* The row follows the connection in the end.
\*   An instance that was online in this process and has lost its connection for good, and
\* that nobody pairs any more, is not shown as active for ever, if every restore lets go of
\* m.mu: the debounce, the check after a pairing, the failed restore or a request says so.
\* (One that was never online may keep the "active" an earlier process left in the row: a
\* restore that cannot connect writes none.)
\*   If no client is left behind by a failed restore or a replacement, no timer runs while
\* the instance is online, and one that stays online is shown as active: at once if no timer
\* that has gone off and no request is still to write otherwise, and at the next request if
\* one is.
StatusFollows ==
    /\ []<>Unlocked /\ <>Online /\ <>[]Lost => <>[](status # "active")
    /\ [](Left = {}) => [](Online => ~debounce)
    /\ [](Left = {}) /\ <>[]Online /\ ([]NothingLate \/ WF_vars(RequestCorrects))
           => <>[](status = "active")

\* The client of the instance has auto-reconnect, unless a timer is to turn it on again.
ReconnectIsOwed == cur # NoClient /\ ~auto[cur] => cur \in cooling
=============================================================================
