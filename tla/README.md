# A verification project for apime

apime is a WhatsApp gateway written in Go: HTTP clients manage WhatsApp
connections ("instances") and send messages through them, and what happens on
the connections is delivered to webhooks. This directory holds TLA+ modules of
its core, TLC runs over small instances and proofs checked by TLAPS. Everything
is translated from the source; paths below are relative to the repository.

Run the checks here: `tlc -config MCSend.cfg MCSend.tla`, and for the proofs
`tlapm IdempotencyProofs.tla` (likewise `SendProofs`, `OutboxProofs`,
`ReachoutProofs`, `SessionProofs`, `PairingProofs`, `NormalizerProofs` and `BridgeProofs`). `PROJECT.json`
lists the components, runs, hazards, findings and theorems, and maps every
definition that models code to its lines.

## 1. The system

| Component | State | Operations | What is hard |
|---|---|---|---|
| Idempotency guard: `api/middleware/idempotency.go`, `storage/*/idempotency_repo.go`, `service/idempotency` | table `idempotency_keys` (one row per instance and key: status, fingerprint, stored answer, expiry) | `TryAcquire` (three statements), `Complete`, `Release`, hourly sweep | requests racing under one key, crash between acquire and complete |
| Send path: `service/message/send.go` and the files beside it | one lock per instance, the message row, the caches below | `Send`: replay, session checks, readiness, recipient, typing, row, attempts, outcome | ambiguous failures and their retries, concurrent calls, drops of the session |
| Outbox: `service/message/enqueue.go`, `worker.go`, `pkg/queue` | table `message_queue`, the queue (memory or Redis) | enqueue, dequeue, recovery every 30 s, stop | duplicates, lost events, full queue, restart |
| Reach-out cache: `service/message/reachout_negcache.go` | per contact, the instances it refused (error 463) | blocked?, store, release, daily clean-up | lookups made outside the mutex |
| Recipient cache: `jid_resolver.go`, contact repositories | table `contacts`: positive and negative records with a TTL | resolve, confirm by an inbound message | wrong negatives that stand for days |
| Presence: `presence.go`, `presence_state.go`, `inbound_tracker.go` | `composingAt`, `availableAt`, last inbound | simulated typing | caches that outlive what they describe |
| Session manager: `session/whatsmeow/{manager,session}.go` | map of clients under one mutex, device stores | restore, get, reload, delete | a restore that connects under the mutex, sessions that replace one another |
| Pairing: `pairing.go` | QR contexts, codes, pairing marks, global device properties | QR request, monitor of the QR channel, success, timeout | a client looked at, then acted on; a monitor outliving its session |
| Session events: `events.go` | debounce timers, ban cool-downs, `instances.status` | connected, disconnected, logged out, banned | timers against events against restores |
| Calls: `calls.go`, `call_media.go` | an engine per client, its calls | offer, start, answer, hang up, end, install and remove the engine | both sides ending a call, callbacks that need a lock already held |
| History sync: `history_sync.go` | cycle id and status in the instance row, a worker per cycle | start, finish (the code that stores payloads is never called) | an old worker finishing a newer cycle |
| Receipts: `events.go`, `receipt_handler.go`, `presence.go` | delivery status of message rows, reset marks | receipt, session reset, stuck detector | receipts before the id is stored, out of order |
| App state: `appstate.go` | cool-down marks | resync | check-then-mark |
| Webhook pipeline: `webhook/{pool,event_handler}.go`, `delivery`, `pkg/queue` | queue, task channel | enqueue, dispatch, deliver, retry, stop | drops, retries, the end of the process |
| Event normaliser: `webhook/{normalizer,calls,broadcast,edited_text}.go` | none of its own; writes the recipient records, the inbound tracker and the reach-out blocks | one payload per event | contacts under two identities, contents that can be read in part |
| Instances: `service/instance`, repositories | table `instances` | create, update, delete | full-row updates losing one another |
| Rate limits: `pkg/ratelimiter` | counters per window | allow | windows and resets |
| HTTP handlers, middleware, auth, users, tokens, dashboard, media files, migrations | their tables and files | one lookup or call per request | little: data and I/O |

How they meet: a handler passes the idempotency guard and calls `Send`, or
`Enqueue`, whose event an outbox worker later hands to `Send`. `Send` takes the
lock of the instance, asks the session manager for its client and writes the
message row. The client's events come back through `events.go`: they set the
instance's status, reach the webhook pool and, for an inbound message, confirm
the recipient record and release the reach-out block that `Send` reads.

What makes each modelled part correct:

* guard: one running owner per key; at most one guarded hand-over per life of a
  key; a replay is the owner's answer; a key settles or ends.
* send: one message per call however often it is retried; a 503 only if nothing
  left the process; a 2xx only if WhatsApp has the message; a refused contact is
  not written to; every call is answered, as long as restores give `m.mu` back.
* outbox: what is being transmitted is marked as such, a marked row has a
  worker (unless its last write failed), only recovery duplicates, every queued row
  is served.
* sessions: one restore at a time, and nothing else meanwhile; a client that was just
  paired is not thrown away by requests that look at it too early.
* connection: the row's status follows the connection; a ban does not leave the client
  without auto-reconnect for good.
* calls: the consumer is told of an answer and of an end once, with a reason that fits.
* receipts: a message to a contact does not stay unacknowledged for ever; a reset
  deletes the session of a person.
* app state: full syncs of a collection do not pile up.
* normaliser: one conversation per contact (up to the device), replies lift the block under the
  address they are told under, nothing is told by half.
* webhooks: every event settles, whatever the consumer, the queue and the pool do.
* instance row: calls and history sync are what the row says they are.
* reach-out cache: a block that is stored is found, and is dropped by nothing but
  its expiry and its own release.

## 2. Modules

### KeyClaim, Idempotency

`KeyClaim` is the promise without the storage: a key is free, held by the one
request that runs under it, or settled; only the holder surrenders or settles
it. `Idempotency` is the code:

* a request (`pc`, `req`, `mode`, `answer`) goes through the middleware. The
  three statements of `TryAcquire` are the actions `DeleteIfExpired`, `Insert`
  and `Select`, so requests interleave between them; `StoreError` is the path on
  which the guard steps aside;
* the handler is `Transmit` (the message reached WhatsApp or a row was queued),
  `HandlerAnswers`, `HandlerPanics`; `Record` is the middleware's deferred
  function, which frees the key or completes it;
* `Expire`, `Sweep` and `Crash` are time, the cleaner and the end of the process.
  The row has no owner column; `row[k].by` names the request whose answer it
  stores, and `life` counts the rows of a key that expired. Neither is read by a
  guard of the code.

On PostgreSQL the statements are the same ones; SQLite's `get` is `Select`.

### Send

One call of `Service.Send` is a process with a program counter whose values are
the stages of the function: `lock`, `replay`, `session`, `ready`, `resolve`,
`presence`, `build`, `attempt`/`wait`, `close`. Each action is the code between
two points at which another goroutine can matter. Deferred calls are part of the
return: `Return` releases the lock, `StopPresence` and `Close` are the two ways
the indicator is closed. A restore of any session holds `m.mu` while it connects
(`held`, `ManagerMutex`): a call that asks the manager for its client (`AsksManager`)
waits for it, the others go on (`OnItsOwn`). `Outcomes` gives what `SendMessage` may answer and what
really happened (`left`, `wire`), which the code cannot see. `SessionEvent`,
`Inbound`, `Forget` and `Crash` are the environment. Statuses are HTTP statuses:
the errors `Send` returns, as `message_handler.go` translates them.

Abstracted: the kind and content of a message, uploads (they may fail), quoting,
contact saving, and the length of delays.

### Outbox

`CreateRow` and `EnqueueEvent` are the two halves of `Service.Enqueue`; `Dequeue`
to `Attempt` are a worker in `Send`, with only its effect on row, lock and wire;
`ReadPending` and `Requeue` are the recovery loop, whose database read and
enqueues are separate steps; `Stop` cancels the workers' context, `Restart` ends
the process and starts it again. `Durable` selects Redis or memory. The last write of a
row may fail, which the code only logs (`send.go:1032`, `1057`): `unwritten` is a history
variable that names the messages this happened to.

### Reachout

One contact's entry in the `sync.Map`, with the Go maps as allocated objects: an
operation looks the map up (`Load`), then takes the mutex (`Blocked`, `Release`,
`Cleanup`). `Store` looks it up under the mutex and is one step.

### Session

The session manager for one instance: the map of clients, the QR bookkeeping, what can be
restored, and any number of callers. A section under `m.mu` is one action, because that is
what other goroutines can see; `restoreSessionIfExists` alone keeps the mutex while it
connects, so `mu` names its holder and every other section waits for `Free`. `RestoreBegin`,
`RestoreMiss`, `RestoreFail`, `RestoreEnd` are its ways through, `RestoreHang` the one that
never ends (the lock-up of `Calls!Stuck`); `CreateBegin` to
`CreatePublish` are `createSession`; `Qr...` and `Client...` are the looks and second looks of
`GetQR` and `GetClient`; `Delete...` is `DeleteSession`, whose logout may restore a session
first; `Monitor...` is the goroutine of one QR channel, which belongs to a client and writes
to maps keyed by instance. `Environment` is WhatsApp, the phone and the network.

### Connection

What the row says of the connection, event by event (`On...`), with what a handler leaves
behind: the debounce, the look after a pairing (`PairingCheck`), a cool-down per client; the
deletion a second after a `LoggedOut` is a `Delete`, which any request may cause as well. A debounce timer that can still be stopped is
`debounce`; it goes off (`DebounceFires`), waits for `m.mu`, takes the entry of the map, which may by now be a
later timer's (`DebounceEnds`), and writes the row after the unlock (`DebounceTells`), whatever has happened
since: nobody looks at what `Stop()` returns. Requests write the row too: a send or a look at the
profile that finds a live session corrects it (`RequestCorrects`); one that finds none decides
(`RequestDoubts`) and later writes (`RequestMarks`). Restores, replacements and deletions
appear by what they do to the sockets and the row; which client they take is Session's
subject. A handler's section under `m.mu` and its write of the row are one action: a timer's write
falls before or after both, and a handler that stalls for seconds between them is not modelled. `StatusChange` is the callback of `cmd/api/main.go`, which knows two words.

### Calls

One engine at a time and its calls. `Offer`, `StartCall`, `BecomesActive`, `AnswerCall`/
`Answered`, `HangupCall` and `OtherSideEnds` move a call; `OnEnd` and `TellEnd` are the two
halves of its end (the mark, and the telling that needs `m.mu`); `Detach`, `HangUp`, `Attach`
are the change of engine, inside a restore (`Held`) or not.

### Receipts, AppState

`Receipts`: receipts in any order, each in its goroutine (`OnReceipt`, `Handle`), the session
reset of a retry receipt (`ResetSession`), and a pass of the detector over rows it has read
(`StartPass`, `Judge`); the rows are the hundred newest of the instance, so one that a hundred newer ones
follow is not seen any more (`Listed`, `NewerRows`); ages are classes ("new", "mid", "old") that time moves on.
`AppState`: check, mark and fetch of `ResyncAppState`, entered by requests (`Request`) and by
failing patches (`Repair`).

### Normalizer

One event is handled in one action of its kind (`OnMessage`, `OnReaction`, ...) and its payload
forgotten by `Return`. Identities are records (server, user, device), stripped of the device where the code does so (`ToNonAD`); an event has a source as whatsmeow
fills it, with or without the other identity (`Alt`), and the store learns numbers with time
(`Learn`). The content of a message is what the code can tell apart: kinds of media by the order
in which they are tried, button answers (`Clicks`), edits with wrappers (`Edits`).

### Webhook

`Enqueue` (the handler), `Dequeue`/`Dispatch`/`Discard` (the dispatcher and its five seconds),
`Take`, `Attempt`, `Finish` (a worker in `Deliver`), `Stop`, `Stopped`, `Restart`. `redis` selects the
queue at the start of a behaviour.

### Instances

One row, with a column that a PUT replaces and that has an effect of its own
(`calls`) and one that others write alone (`history`); the name, the webhook and the token are
to these two what a PUT that keeps them is (`RotateToken`). `GetByID` and `Update` are the two halves
of every whole-row write; `lost` says that one has undone another.

### MCSession, MCBridge

`MCSession` gives Session its instance and its symmetry. The seven modules from Connection to
Instances share no variable, each being the code between two shared maps, and `MCBridge`
checks them together: `part`, chosen at the start of a behaviour, says which one runs, and
the others keep their initial state. Their reachable states are those of each module alone,
and each part's fairness is its module's (`ConFairness` repeats `Connection!Fairness` under
`part = "connection"`, and so on). Where the parts meet in the code, the shared effect is in both: a
restore is steps of Session and a step of Connection, `Calls!Detach("locked")` is what it does to
the engine, a reset is `Receipts!ResetSession`, a row's `calls_enabled` is `Calls!SetEnabled`.

### Proof modules

`IdempotencyProofs`, `SendProofs`, `OutboxProofs`, `ReachoutProofs` and `SessionProofs` extend the
module they are about, `PairingProofs` extends `SessionProofs`, `NormalizerProofs` extends `MCBridge` (its
theorems are about Normalizer as a part of the bridge) and `BridgeProofs` extends that; see section 4.

## 3. Runs

| Run | Instance | Shows |
|---|---|---|
| `idempotency` | 3 requests, 1 key, 2 fingerprints, store errors, crashes | `OneOwner`, `AtMostOnce`, `ReplayIsOriginal`, and that the guard implements `KeyClaim` |
| `idempotency_live` | 3 requests, 1 key, a store that answers | `HandledKeySettles`, `StartedKeyEnds` |
| `send` | 2 calls, 1 instance, a registered contact (which may also be known by its other spelling) and an unregistered one, 1 caller id, 1 retry | the safety of `Send` |
| `send_returns` | 2 calls, 1 contact | `CallsReturn` |
| `send_refused` | as `send` | a violation: a 4xx after a message that left |
| `outbox` | 2 messages, 2 workers, durable queue of 2, 1 restart, recovery of 1 row a tick | the row, its worker and its copies |
| `outbox_served` | 2 messages, 1 worker, memory queue of 2, 1 restart | `QueuedIsServed` |
| `outbox_sent_once` | as `outbox` | a violation: recovery sends twice |
| `reachout` | 3 callers, 2 instances, 3 maps | what a caller that holds the current map does is exact |
| `reachout_own` | as `reachout` | a violation: a release through an old map drops another instance's block |
| `session` | 2 callers, 2 clients, either storage driver | `RestoreIsExclusive`, `PairingSurvives` and that a step which uses a client finds one (`TypeOK`) |
| `bridge` | 2 clients, 2 timers; 1 call; 2 callers, 2 failing patches; 2 messages (to a contact, to a list), 2 receipts, 1 restart; 1 contact; 1 worker, 4 events, a queue of 2, 1 retry; 2 callers, 2 history cycles | the properties of the seven parts, and their types |

Bounds, and why they are enough. Every race found in the guard needs two requests,
and a third one sees the state they leave; keys do not interact, and two
fingerprints are all that equality tells apart. Two calls of `Send` on one
instance are the holder and the waiter of its lock; `MaxRetries` is 3 in the code,
and with 1 there is a first attempt, a last one, and a step between them. In the
outbox two messages fill the queue, two workers can hold copies of one message,
and `sends` counts to 2 because that is already once too often. The reach-out
cache needs three generations of the map for a caller to hold a map two
generations old. In Session two callers
are the pair that looks and acts (a third one waits for the mutex as the second does), and two
clients are the old one and its replacement; a client that is in no map and at rest is free to be
used again, so the number of sessions over time is not bounded. Two assumptions about time are
in `PhonePairs`: nobody shows and scans a code between a caller's decision to give a client up and the
sections that carry it out at once, and of the two clients the phone has paired one. In the bridge the second client of
Connection is the one a failed restore left, and the second timer one that started after the first went off;
one call is what its two ends race about (calls meet
only in the detach loop, which takes them one by one); a second failing patch or history cycle meets the
first one's repair or worker; four events are one with the worker, two in the task channel
(its size is twice the workers) and one with the dispatcher, and the memory queue of two fills
while the dispatcher waits; `MaxRetries` is again a first attempt and a last one. One contact is
enough for the normaliser, which handles one event at a time and keeps records per contact.
The earlier models have no other bound, except that `life` is bounded by the number of
requests, since only an arriving request inserts a row, and that `MaxRestarts` caps restarts.

Symmetry is used in runs that check safety only (`ImplementsClaim` and the
`[][...]_vars` properties are safety too), over sets whose members the modules
only compare.

`CHECK_DEADLOCK FALSE` is set in every run: requests, calls, messages and events are
finite, and each part of the bridge whose bounds are used up comes to rest. `session` has no such bound,
but a restore that hangs in `attachCalls` keeps `m.mu` for ever, and everybody who needs it waits.

### Fairness

* `RequestFairness`: a goroutine serving a request keeps running. Nothing else:
  clients need not come back.
* `TimePasses` (an assumption of `StartedKeyEnds` only): rows expire and the
  ticker of the cleaner fires.
* `Send!FairSpec`: each call keeps running. Every wait in it has a deadline but two: the
  lock of the instance, and `m.mu` inside `GetClient`. A step that asks the manager is
  strongly fair while nobody holds `m.mu` (a Go mutex is starvation-free), and `CallsReturn` has
  the premise that restores give it back again and again (`[]<>~held`): one restore that hangs
  stops the call that asks the manager, and with it every call of its instance. The session is
  not assumed to recover. Weak fairness at the instance's lock is enough because the calls are finite.
* `Outbox!FairSpec`: handler, workers and recovery loop keep running, and a
  stopped process is started again. `KeepsUp` is a premise of `QueuedIsServed`: while
  rows are queued, some recovery ticks find the queue drained. Without it the
  property fails, rightly: a queue kept full refuses the recovered rows as well. The
  run's `RecoveryLimit` is not below the number of rows: with more than 50 queued
  rows that are refused for good, the code does starve newer ones.
* `Connection!Fairness`: the three steps of the debounce timer and the end of a closing socket. Its turn at
  `m.mu` is strongly fair, because a Go mutex grants it in the end, while each
  further restore disables it for a while. A connection need not come back, no request need come, no timer
  of a ban is assumed to fire, and a restore need not end: the first half of `StatusFollows` has the
  premise that `m.mu` is free again and again. Its second half assumes of the late writers either that there
  are none (`NothingLate`) or that a request comes when the row is wrong (`WF` of `RequestCorrects`).
* `Calls!Fairness`: what was begun goes on (the telling of an end, strongly for the same reason; an
  answer; the detach loop; the installation after it). Nobody need answer or hang up.
* `Receipts!Fairness`: the detector's ticker, its passes, and time for rows and marks. Receipts need
  not arrive. The premise of `StuckIsFlagged` is that the instance stays connected, since the detector
  leaves an instance alone for five minutes after each connection; a row that a hundred newer ones
  hide first is released from it.
* `Webhook!Fairness`: the goroutines of the pool, and that a request ends (the client's timeout is thirty
  seconds). The consumer may refuse everything.

### What the documents say and the code does not do

Three runs find a violation of a statement quoted from the repository:

1. `RefusedNeverLeft`: "A 4xx means the message never left"
   (`middleware/idempotency.go`). An attempt times out although WhatsApp took the
   message; the retry is refused; the call answers a 4xx and the key is freed.
2. `Outbox!SentOnce`: a guarded message "goes out once" (`docs/idempotency.md`).
   Recovery re-enqueues a row whose event is still on its way, and both are sent.
3. `ReleaseIsOwn`: a release "unblocks ONLY the given instance"
   (`reachout_negcache.go`). One through a map that has been replaced drops the
   new map.

More statements of this kind are kept as definitions without a run:
`Idempotency!SentOnce` (fails by a request whose claim could not be read: the
guard lets it through unprotected), and `Send`'s `TimeoutProvesNothing`,
`LookupProvesAbsence`, `IndicatorClosed` and `CallerIdSentOnce`. TLC refutes each
within a few steps.

The other modules have steps that comments or documents do not expect. They are in the models, the
properties above are stated so that they hold beside them, and no run refutes a statement about them:

* Calls: a restore that removes the engine of a running call waits for itself: `attachCalls` runs under
  `m.mu` (`session.go:416`), hangs the call up, and its end read-locks `m.mu` in `emitCallState`.
  The comment at `calls.go:103` ("Hang up outside the lock") counts on another caller. TLC
  reaches `Calls!Stuck`; `EndIsTold`, `CallsReturn` and `StatusFollows` are stated short of it. A call that rings while calls are disabled and
  meets a reload is never told to have ended; a `CallTerminate` that crosses a removal is told
  twice, against "uma vez por ligação" (`docs/webhook-payloads.md:236`).
* Receipts: the status after a delivery receipt is empty, where `docs/webhook-payloads.md:117` names
  "delivered"; statuses go backwards (the code that would prevent it is never called); the detector writes
  over a receipt that came in since its read; marks do not survive a restart. The detector reads the
  hundred newest rows only (`LIMIT 100` in both drivers): on an instance that sends faster than a hundred
  messages per time-out no row is flagged for its age.
* Outbox: a last write that fails leaves the row at "sending" for good, without a stop: recovery reads
  "queued" rows.
* Normalizer: what a linked device of a contact writes under its LID, with the number in `SenderAlt`, is told
  in a chat with the device in it (`normalizer.go:172`, as the comment at `inbound_tracker.go:12` observes), which is
  not the chat of the contact's other messages. A send addressed to a LID that is refused leaves
  its block under the LID (`send.go:254`, `940`), and an answer that is told under the number lifts the number's only,
  against "Contact replied on this connection → release its reach-out (463) block"
  (`normalizer.go:241`). An own message under a LID without the number is told with the contact's number as
  `from`; reactions and undecryptable messages do not ask the store; `ConfirmJID` may be given the
  account's own number; without a webhook nothing of an event is handled, the release of a block
  and the receipts included (`event_handler.go:50`); `NotifyAccountReachoutTimelock` is never forwarded.
* Connection: a timer that has gone off when `Connected` stops it writes "error" over the "active" of a live
  session, and a send's late verdict writes "disconnected" (`send.go:977`, `985`); the row stays so until a request
  corrects it, which is what the comment at `send.go:151` describes. A `GetClient` during a cool-down connects at once; a row left "active" by an earlier process
  whose session cannot connect stays so; one failed `Connect` after a cool-down leaves the instance down;
  a `LoggedOut` leaves "pending", because the callback overwrites "disconnected".
* Session: the monitor of an earlier pairing removes the client of a later one; `GetClient` may drop a
  client that logged in since it looked; a failed restore leaves a connected client in no
  map; the device of a deleted Postgres session is looked up under a JID that was already cleared.
* Webhook: an event the task channel does not take in five seconds is dropped, and so are the channel and
  the memory queue at a stop and what a dispatcher holds in a crash. (A retried delivery reuses a request
  whose body was read, which is below the model.)
* Instances: two whole-row writers undo each other's columns; a restart within the ten seconds of a
  history cycle leaves it "running".
* AppState: a connection lost between the check and the fetch leaves the collection dropped, and
  only a later request repairs it.

`ReplayBeforeResend` is checked with reads that succeed: `alreadySent` treats a
failed read as "not sent", so with `LookupMayFail` the message is sent again.
`send_returns` runs with failing reads.

## 4. Proofs

Assumed: the named `ASSUME` of each module (null values differ from real ones,
bounds are numbers) and nothing about how many requests, keys, messages or
workers there are. `MCBridge` assumes two things more: the account is not one of its own
contacts (`Me \notin Contacts`: its chat with itself is not what `ThreadIsContacts` is about) and the
pool has finitely many workers, none of which is its dispatcher.

`IdempotencyProofs` proves `TypeOK`, `OneOwner`, `AtMostOnce`,
`ReplayIsOriginal` and `ImplementsClaim` of `Spec`. None is inductive: that two
owners do not overlap holds because a running owner's row is in the table,
unexpired, "started" and in its name. The invariant `IInv` states that tie
(`Ties`), that a row names a request that is its owner, that a completed row's
owner is over and answered as stored, and that two owners in one life of a key
are separated by one that freed it. It is proved per action, and the refinement
maps each action to one of `KeyClaim` or a stutter (`StepRefines`).

`SendProofs` proves every safety property of the run `send`: `TypeOK`,
`UnavailableNeverLeft`, `OneMessagePerCall`, `SuccessWasSent`, `BlockedNotSent`,
`IndicatorSeen` and, assuming that reads succeed, `ReplayBeforeResend`. Most of the
argument is about one call: `Own` says what its variables say of one another (for
instance, that `onlyDown` means nothing has left, that an id on the wire is the one
chosen before the loop, that a row is "sent" only after an accepted attempt), and
`Frame` that no other call writes them. What calls share is tied to the lock:
`Locked` (a call past `Acquire` holds its instance's lock, so two calls inside are
of different instances), `NotBlocked` (past the reach-out guard a block for the chat
can only come from the call itself) and `Marked` (a mark in `composingAt` has a
running call behind it). `ReplayFirst` needs one more invariant, `NotYetSent`: from
the replay check to the end of the call no other row can get the caller's id. What it
shows is about the rows: an earlier call that went out without its row saying so, for want of an
answer or of the write, is sent again (`CallerIdSentOnce`).

`OutboxProofs` proves the four properties of the run `outbox`: `TypeOK`,
`InFlightIsSending`, `SendingHasWorker` and `OnlyRecoveryDuplicates`. The invariant
adds that a worker between `Acquire` and the end of its send holds the lock of its
message's instance (two copies of a message have one instance, so no other worker
writes the row; `SendingHasWorker` is about the rows whose last write did not fail), that what was not posted is nowhere, and that a message recovery
never picked up is in one place: in the queue, at a worker, or sent.

`SessionProofs` proves `TypeOK` and `RestoreIsExclusive` of the run `session`. Their conjunction, with the
types of each caller's step, is inductive: only `RestoreBegin` and `RestoreHang` take `m.mu`, and only the
first gives it back. Every action is one of two shapes, and the lemmas are about these: a caller who does not hold the
mutex moves and gets no client the holder has (`Moves`, `Quiet`), or a step no caller makes leaves the
callers alone. `TypeOK` says more than types: a step that connects, disconnects or logs out a client has one.

`PairingProofs` proves `PairingSurvives`, the hardest of the run `session`, from that invariant and a second
one, `PInv`. A request may look at a client before the phone scans the code and act on what it saw after, so the
property needs to know of every caller between its look and its act. `Tied` says it for a client that alone
has a QR channel: its QR context and code are in the maps until the monitor takes them out, the
pairing mark is set before the code goes, and so no caller is at a step that gives the client up
(`forget`, `drop`) while it is being paired. `Tied` holds of the instance's client (`Alone`); that it still does after
a client is published or a monitor ends needs `Steady`: a client about to be published is its caller's alone
(`Dials`) and has no monitor (`Restores`), a client nobody has scanned is not logged in (`Links`), and
who is in the middle of a deletion is deleting (`Deletes`). `Links` also shows that, in the model, the monitor of
a closed channel never finds its client logged in.

`ReachoutProofs` proves the type invariant and the two action properties of the run `reachout`. The type
invariant is inductive, with the part that matters (the map in the cache is not empty: a writer that finds
its map empty takes it out in the same section). For the actions, `Drops` says what the operations under the mutex have in common:
each writes one map, the one its caller looked up, makes no block fresh and drops a fresh
one only in a release, its own instance's.

`NormalizerProofs` proves `ThreadIsContacts`, `ReplyReleases` and `NothingHalf`: the first up to the device that
`SenderAlt` brings along, the second of the address an answer is told under. The argument is about the
event: a source that is neither a group's nor a list's is `Direct`, that is, its chat and the Alt field that goes with
it (the sender's or, of an own message, the recipient's) are identities of one contact (`SourcesAreDirect`). So the chat of the
payload is one, and the number as soon as event or store have it (`ChatIsContacts`, `NumberedChat`), which is also the
key under which a block is released (`AnswerReleases`). What is told stays right because the store
learns numbers, and the send path bars contacts, between two events only, the handler's section being one step of
the model. Bodies are compared field by field for each kind of content.

`BridgeProofs` proves the other safety properties of the run `bridge` with one inductive invariant per part; a
step of the bridge is a step of one part and leaves the variables of the others alone (`BridgeKeeps`).

* `ConInv` (`ReconnectIsOwed`): the client a restore is about to hand over has auto-reconnect, since the
  cool-down of a ban waits for the restore.
* `AppInv` (`NoResyncStorm`): the mark stands as long as a fetch is under way, so a second caller is skipped.
* `InsInv` (`EngineFollows`, `RunningHasWorker`): as long as no write has undone another, what a caller
  writes back is the row it finds with its own change, and a change of `calls_enabled` leaves a reload to
  be done.
* `CalInv` (`EndedOnce`, `ReasonFits`): for a call whose engine was not removed, `EndOf` says who is still to
  tell of its end (the engine, if it has seen the call and tracks it, otherwise WhatsApp's event, if the other
  side has not ended it), and that only one of them can; `AnswerOf` ties what was told of the answer to the
  mark `active`, which `endReason` reads first; `Begun` says nothing is known of a call before it begins. An
  engine that is being removed is not installed, so none can see a call before the old one's are hung up.
* `Typing` (`TypeOK` of all seven parts): what is not a type in it is that a session which is reset is a
  contact's, which needs that the recipient of a message that is not for a list is one; that the task channel
  and the memory queue keep within their bounds; and that only an engine being removed has calls to
  hang up.
* `WebInv` (no property of the run, `EventsAreInOnePlace`): the events with the workers, in the task channel, with the
  dispatcher and in the queue are four sets, each below the next (`InOrder`), no two workers have one event, and
  what has arrived and is in none of them has settled, and nothing else has (`Accounted`). So no event is with
  two workers, taken again after it settled, or overtaken on the way to the workers (which
  worker is done first is open), and the events that are lost are those the model counts as settled: a full queue or
  channel, a stop, the end of the process. It is what `EventsSettle` rests on beside fairness. `Returned` adds that
  goroutines leave nothing behind: after Stop, nothing is under way (`StopLeavesNothing`).
* `RecInv` (no property of the run, `FlaggedWasStuck`): a status in a row, or in the detector's copy of it, comes from a
  receipt that was given (`Backed`), so the detector, late as it is, flags no message that WhatsApp did not take
  or that is neither old nor asked for again.

Only model-checked: liveness (`HandledKeySettles`, `StartedKeyEnds`, `CallsReturn`,
`QueuedIsServed`, `StatusFollows`, `EndIsTold`, `StuckIsFlagged`, `EventsSettle`), which is beyond the
prover, and the refuted statements, which are false. Every other property of the runs is a theorem.

## 5. Not modelled

* Data and I/O, or one lookup per request: media files and their clean-up, stickers and waveforms, the
  dashboard, migrations, authentication, users and tokens, group and contact handlers, validation.
* Rate limits: one counter per key and window, one atomic step per request.
* In the modelled parts: the global device properties of a pairing (the name the phone shows), video and
  the media of calls, `availableAt` and the other presence sends, what `MarkRead` does with the
  inbound tracker, the singleflight and the TTL classes of the recipient cache, the download of media, quoted
  and mentioned contacts, failing statements on the instance row, ownership checks.
* Dead code: `ReceiptHandler`, `shouldUpdateStatus`, the watchdog, `RestoreSession`, `SaveSessionBlob`,
  the payloads of the history sync.
* Length of time: a wait ends or not; that a restore holds up every instance for ten seconds is no
  property of these models.

Composition: `Send` is the detailed form of what `Outbox` (worker) and `Idempotency` (`Transmit`,
`StatusesAfter`) abstract; `Session` and `Connection` are what `Send!SessionEvent` abstracts, `Normalizer` what its
`Inbound` does, and `Reachout` the cache behind `BlockedNotSent`. They are checked apart, each against the
others' effects left free: together they would be out of TLC's reach.

Left for the proofs: the safety the liveness properties rest on where it is not yet stated (that
a queued row is always within reach of a worker or of recovery), and the operators of Normalizer that no property reads (`Recipients`, `NumberOf` of a call).
