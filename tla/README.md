# A verification development for the Sukko Python SDK

The SDK is the client of a real-time messaging service. A program subscribes to
channels and iterates over `messages()`; the SDK keeps the connection, its
credential, its subscriptions and the delivery of messages going across
network failures. The TLA+ modules here model the parts of it that have state
and concurrency. TLC checks them on small instances. The TLA+ proof system proves
the safety properties TLC checks, and the safety that the liveness properties
stand on, for every value of the constants. Source paths below are relative to
`src/src/sukko/`.

`PROJECT.json` is the machine-readable side: the runs, the mutants (a slip the
code could contain, for each property, that TLC must notice), the map from each
definition to the lines it models, the hazards, and the theorems.

## 1. The system

| Component | Code | State | Operations | Talks to |
|---|---|---|---|---|
| Recovery engine | `recovery.py` | per channel: phase, anchor, follow-up, floor and deadline timers; positions; Direct mode; stall flag | `handle_gap`, `note_*`, `handle_replay_complete`, `handle_recovery_failure`, `due`, `handle_disconnect`, `build_reconnect`, `note_backpressure`, `handle_not_available` | called by the pump, the timer and the supervisor; returns lists of actions, does no I/O |
| Connection epoch | `client.py` (`_read_pump`, `_dispatch`, `_recovery_timer`, `_put_delivery`, `_run_actions`) | where each task waits, the wake event | the tasks of one connection, in one task group: when one fails, all end | engine, queue, transport |
| Heartbeat | `client.py` (`_heartbeat`) | `sent_at`, `_last_frame_at` | send, sleep, compare, close | transport, pump |
| Supervisor | `client.py` (`connect`, `close`, `_run`) | connection state, attempt, terminal flag, cursor, bounce and park flags | dial, back off, bounce and park (SSE), give up, stop | everything above, the transport factory |
| Auth manager | `auth.py` | the shared future, the timer task, the token | `refresh`, `escalate`, reactive and proactive refresh, `aclose` | pump (acks, errors), supervisor (disconnect) |
| Subscriptions | `subscriptions.py` | desired and granted sets | subscribe, unsubscribe, acks, escalation delta, resume | pump, supervisor |
| Delivery queue | `backpressure.py` | bounded buffer, drop counter, closed flag | `put`, `get`, `close` | pump (producer), consumers of `messages()` |
| Blocking wrapper | `sync.py` | loop thread, closed flag | every operation as a blocking call, `stream()`, `close()` | the client, from other threads |
| WebSocket transport | `transport/websocket.py` | connection, read gate | `open`, `send`, `recv`, `pause`, `resume`, `close` | the library's socket; pump, heartbeat |
| SSE transport | `transport/sse.py` | response stream, last event id | `open`, `recv`, `close` (`send` always fails) | an HTTP stream; pump, supervisor |
| HTTP calls | `_http.py`, `rest.py`, `push.py` | one HTTP client, open or closed | `publish`, `subscribe`, `unsubscribe`, `get_vapid_key`, `aclose` | the gateway |
| Errors and close codes | `errors.py`, `constants.py` | none | map closes and statuses to typed errors | everything above |
| Everything else | `messages.py`, `_redact.py`, `channels.py`, `_clock.py` | none, or constant | coding, masking, jitter | |

What is hard here, and hard to reach by a unit test:

* the tasks of an epoch share the engine, the queue and the wake event, and give
  the loop up in the middle of what they do: a blocked put, a send;
* an epoch can end at any of those points; what was being put, sent or raised
  is then cancelled, while the engine has already changed;
* three kinds of timer (replay floor, detection deadline, heartbeat) have to
  tell a silent server from a slow consumer;
* frames cross: acks carry no request id, and a late answer meets a newer call;
* close frames cross too: both peers may close at once, the number 4000 means one
  thing from each side, and which close counts decides whether to retry;
* a stream is resumed from a cursor that the transport moves, the supervisor
  harvests and the next transport presents, while the pump may still hold an
  event of the old stream in a blocked put;
* an HTTP request may have been carried out although its answer was lost;
* the supervisor is cancelled by `close()` wherever it waits, possibly while its
  task group fails for a reason of its own;
* asyncio's own rules decide outcomes: waiters wake in order, awaiting a done
  future does not suspend, cancelling a task cancels the future it waits on;
* in `sync.py`, real threads wait without a timeout on a loop that another
  thread stops.

## 2. The modules

An action is what one task does between two suspensions, so an interleaving of
the model is one the event loop can produce; in `SyncClient` it is what a thread
does between two points where another may run. Every module opens with what its
variables stand for. `MC*` modules only give names to the small sets of a run.

| Module | Models | Notes |
|---|---|---|
| `RecoveryEngine` | every state-changing method of the engine | the returned action list is `out'`, a set, since its order is that of a dict; `now` is the injected clock. The environment calls the engine only as the client does: frames only on a live connection and not during a blocked put |
| `RecoveryTiming` | the engine, observed | history variables for what was asked, heard and stalled when; its properties use none of the fields the engine decides by |
| `GapRecovery` | the engine and a Kafka-backed server over a FIFO wire, across connections | positions become numbers of a log; the server (external) drops, replays, completes late or never, resumes. A task carries its list of actions out send by send and put by put (`todo`); a send that raises ends it (`gone`), and channels whose report was in the dropped part are remembered in `abandoned` |
| `ClientEpoch` | pump, timer, user and queue around the engine | extends `RecoveryEngine`; a task that holds the loop is "busy", and no other moves |
| `Heartbeat` | the heartbeat, the stamp of the pump, the buffer under it | discrete time; what is due happens before the clock moves; the resume sends and each heartbeat are sends that may wait for the write buffer, and `waited` is for how long |
| `Supervisor` | `connect`, `close`, `_run`, bounce and park | `sup` is the await the supervisor is suspended in, `closer` the one `close()` is in, `raised` an error no handler of `_run` names, or a cancel, on its way out |
| `AuthManager` | the auth tasks and their shared future | models asyncio's wake-up order and the propagation of a cancel through a future |
| `Subscriptions` | desired and granted sets against the gateway | two FIFO directions lost with the connection |
| `DeliveryQueue` | put, get and close, under both overflow policies, pausable or not | shown to implement `MessageFeed` |
| `MessageFeed` | what `messages()` promises | abstract: in order, no skipped item uncounted, ends once after close |
| `Errors` | the close codes, and the mapping of closes and statuses to errors | operators only |
| `WebSocketTransport` | one WebSocket connection: transport, library, both peers' close frames, pump and heartbeat | extends `Heartbeat` and takes its actions; an exception is the record `outcome` it leaves behind |
| `RestApi` | the HTTP helper with publish and push, and a gateway that acts or not and whose answer may be lost | `made` is what the gateway did for the call, which its caller must not be misled about |
| `SseClient` | the receive-only path: server log, stream, resume cursor, pump, queue, consumer | extends `RestApi`, whose log the stream serves; an event stands for its lines |
| `SyncClient` | the blocking wrapper: threads, jobs on the loop, stop and join | callbacks may call back, or close, on the loop thread; of the calls, some have a timeout of their own (`Timed`) |
| `RecoveryEngine_proofs` | proofs about the engine and `RecoveryTiming` | section 5, as for the rest |
| `ClientRecovery_proofs` | proofs about `GapRecovery` and `ClientEpoch` | on top of those about the engine |
| `WebSocketTransport_proofs` | proofs about the transport and `Heartbeat` | |
| `Supervisor_proofs` | proofs about `Supervisor` and `SyncClient` | who starts and who ends what |
| `AuthManager_proofs`, `Subscriptions_proofs`, `DeliveryQueue_proofs` | proofs about these modules | `DeliveryQueue_proofs` includes the steps of the refinement of `MessageFeed` |
| `SseClient_proofs` | proofs about the SSE path and `RestApi` | |

`GapRecovery`, `RecoveryTiming` and `ClientEpoch` all compose with
`RecoveryEngine`: each takes the engine's actions and conjoins the step of the
other party. `WebSocketTransport` does the same with `Heartbeat`, `SseClient`
with `RestApi`. The remaining modules meet at a boundary that is nondeterministic
in both: `Supervisor` sees an epoch as "live until the wire drops", the others
see a `connected` flag that goes up and down.

Some definitions are named as *wrong* or grouped under "wrong variants". They
occur in no behaviour. Each is a plausible slip, and substituting it for the
definition it imitates makes TLC refute a property, which shows that the
property depends on the code.

## 3. The runs

Bounds are on what would otherwise be infinite; each names its guard.

| Run | Bounds | What it shows |
|---|---|---|
| `recovery_timing` | one channel, one position, floor 3, deadline 2, clock to 6, 2 stalls | `PhasesConsistent`: a channel that waits for something has the timer that ends the wait armed, no further away than the floor or deadline, under any order of calls. `DueMakesProgress`: `due()` leaves nothing expired, so the timer loop cannot freeze the event loop. `FloorPerConnection`: replays of a channel on one connection are a floor apart. `InterruptedAfterSilence`: an interruption is raised only after a full deadline without a frame and without a stall that began in it |
| `gap_recovery` | two channels, logs of 3 messages, clock to 4; Kafka or Direct backend | `NoSilentLoss`: a dropped message is replayed, reported, or still covered by an anchor, a replay in flight or about to be asked for, the next resume or the report at the end of the epoch. `RecoveryWatched`: until then a timer is armed, or the interruption is still to be raised. `DirectLossReported`: messages a Direct backend lost while the client was away are reported, however often it reconnects before the backend has answered. All three name the channels they leave out: those whose report was in a list `abandoned` at a failing send or with the epoch; section 4 shows that it happens |
| `client_epoch` | one channel and position, queue of 1, clock to 4, 2 stalls | `PausedIffBlocked`: the stall flag is up exactly during a blocked put, cancellation included. `NeverSleepsThroughAll`: the timer never sleeps without a deadline when one is armed |
| `websocket` | interval 3, timeout 2, latency 1, clock to 12, 3 unread frames, closes 1001, 4000, 4001 | `SilenceIsNoticed`: a dead connection is closed within an interval and two timeouts, the time that the client's own sends have waited for the write buffer not counted; `EndIsNoticed`: one that has ended is noticed within an interval and a timeout, even if the pump is held. `ClosesWithReason`: a connection is closed only if the server is dead or frames lie unread. `CloseNamesItsAuthor`: over crossing and lost close frames, what is raised names who closed first |
| `sse` | log of 3, queue of 1, 2 events on the wire, one stream that ends or is bounced, one device, one caller | `NothingLostSilently`: every entry is delivered, announced as missed, in hand, or past the point from which the server or the next dial goes on. `InOrderOnce`: in order and once. `EventuallyKnown`: every entry is in the end delivered or announced. `AnswerIsTrue`: what an HTTP call returns or raises does not misreport what the gateway did |
| `supervisor` | 2 channels, 2 callers of `connect`, 2 attempts, one event id | the retry budget, bounce flag and resume cursor are right after any history; the supervisor ends only for a reason, among them an error of the transport or a pump that is not a `SukkoError`; the public state is "connected" only over a running supervisor, inside `close()`, or after such an error or a `close()` cut short in one of its awaits; `connect()` and the first `close()` always end; a parked client wakes |
| `auth_manager` | one task of each kind; no new call while 2 frames are unanswered | nobody waits on a future nothing resolves; every `refresh()` returns unless an escalation holds the loop; the escalated JWT survives until its answer |
| `subscriptions` | 2 channels, 2 frames in flight each way | when everything in flight is dispatched, what the client shows as granted is what the server sends, and what it desires is served; what was given up is not resumed |
| `delivery_queue` | room for 2, 6 items, one consumer | every item is accounted for, the iteration ends, and the queue implements `MessageFeed`: in order, no skipped item uncounted |
| `sync_client` | 2 calling, 2 closing, 1 streaming thread, one callback | a thread's `close()` tears the loop down, whatever races it and even if `client.close()` never returns, as long as the loop itself turns; while the client is open a call that has a timeout returns, however long the others take |
| `escalation_spins`, `empty_redial` | as their passing run, smaller | expected violations: section 4 |

The type invariants of the modules that are not named here hold too (give them
to the configuration as `INVARIANT`); the runs are kept for what could be wrong.

Why these bounds are enough:

* *Recovery.* A record depends on no other channel and the engine never compares
  positions, so one channel and one position reach every record; `GapRecovery`,
  where the server and the properties do compare them, has three. The clock
  bound fits a replay, a floor wait and the deadline of the replay after it,
  with one re-arm. One stall before and one inside a deadline need two episodes.
  `ClientEpoch` leaves the pump in "offer" when the episodes are used up: the
  behaviour stops there instead of continuing wrongly.
* *WebSocket.* 12 time units hold two full rounds of interval and timeout, the
  second one started from any phase of the first. Of the close codes one is the
  number both sides use, one is terminal and one neither.
* *SSE.* Three entries let a replay be truncated between the first and the last
  of them; a queue of one blocks the pump at the second event. One stream that
  ends or is bounced, with gaps, which end epochs too and are bounded by the log,
  gives several resumes; dials fail without a bound. The HTTP side shares only the
  log, so one caller meets every answer.
* *Supervisor.* Two attempts tell "one short", "exact" and "one more" apart; two
  channels let the desired set change without becoming empty; two callers of
  `connect()` share the future.
* *Auth.* Four tasks are the owner, a waiter ahead of it, a waiter behind it and
  the timer. The wire bound holds back only new calls, so no task that has
  started waits for the bound and the liveness property is not an artefact.
* *Queue.* With room for two, drop-oldest and drop-newest differ and a sentinel
  can find the queue full; six items fill it three times.

`CHECK_DEADLOCK FALSE` is used where the modelled system really stops: a closed
client, an ended supervisor, a spent clock or item bound.

### Fairness

* `AuthManager`: weak fairness of every task's step and of waking what a future
  has made ready (the event loop runs what is ready; sleeps, fetches and sends
  end), and of "the server answers or the connection goes". Callers owe nothing.
* `DeliveryQueue`: weak fairness of each consumer's `get` and of a put that
  found room: both are tasks the loop runs.
* `Supervisor`: weak fairness of the supervisor, of `close()` and of a
  `connect()` whose future is resolved. `open()` has a timeout, `sleep()` ends,
  `transport.close()` returns; so do the awaits of `close()` behind the supervisor:
  background tasks that were cancelled, and the HTTP client's `aclose()`. Any of
  them may raise instead. Nothing makes a dial succeed or a connection last.
* `SyncClient`: weak fairness of each thread's own step, of the loop starting a
  call and stopping, and of the end of a call that has a timeout (`Timed`: the
  HTTP ones), or of a stream's call once it has been told that there is no next
  item. None for the others: the wait for an auth ack has no timeout
  (`auth.py:98`), `connect()` with unlimited attempts may dial for ever
  (`client.py:247`), `client.close()` may be wedged, the next item of a stream may
  never come. That the loop turns is assumed: an escalation that holds it for
  itself (`escalation_spins`, section 4) would keep `join()` waiting as well.
* `SseClient`: weak fairness of the client's own steps (a dial ends, a read event
  is handled, a put with room returns), of the server serving an open stream, and
  of the consumer, who keeps iterating; strong fairness of an accepted dial: a
  server dialled for ever sometimes accepts. None for closes or other publishers.
* The other modules state safety only; no fairness is assumed.

## 4. Deviations

While modelling, TLC found statements of the repository that the code does not
keep. Two are checked as runs that must be violated, and are listed as findings:

* `escalation_spins` (`LoopResponsive`, `auth.py:156`): a refresh has claimed
  `_pending` and is still fetching its token when an `auth_error` of the server's
  own settles the shared future. Only the refresh can clear `_pending`, and it is
  suspended. An `escalate()` called now finds the done future in `_pending`, awaits
  it without suspending, and loops for ever; the event loop stands still. (The same
  happens to an escalation that joined the wait before the owner did, and is woken
  before it.)
* `empty_redial` (`NeverRedialsEmpty`, `client.py:484`): the desired set of an SSE
  client is looked at before the back-off only. If the last channel is
  unsubscribed during the back-off, the client builds an SSE transport with no
  channels, whose `ValueError` kills the supervisor with the state left at
  "reconnecting". ADR 0005 says "never dial SSE with an empty set".

For the others the property is stated in the module, under "What the code does
not keep", and the named configuration makes TLC print the counterexample
(`tlc -config <cfg> <MC module>`):

| Property | Configuration | What happens |
|---|---|---|
| `FloorPerChannel` | `RecoveryTimingDeviations.cfg` (`MCRecoveryTiming`) | The replay floor is forgotten when the connection drops: a gap right after a reconnect is replayed at once. |
| `SilenceIsTheServers` | `RecoveryTimingDeviations.cfg` (`MCRecoveryTiming`) | A deadline re-armed during a consumer stall counts the rest of the stall as server silence. |
| `RecoveryWatched` | `GapRecoveryDeviations.cfg` (`MCGapRecovery`) | A server that completes a replay after the client gave it up closes the next cycle of the channel, which then runs without a deadline. |
| `NoSilentLoss` | `GapRecoveryDeviations.cfg` (`MCGapRecovery`) | If the connection then drops, nothing is reported, and the next one resumes after the live messages that have come since: the messages still owed are lost in silence. |
| `DirectLossReported` | `GapRecoveryDeviations.cfg` (`MCGapRecovery`) | Once a client knows its backend is Direct it probes no more, so what is lost in any later outage is never reported. |
| `InterruptionsRaised` | `GapRecoveryDeviations.cfg` (`MCGapRecovery`) | A list of `due()` that starts with a replay whose send raises is dropped with the interruptions after it; the engine has given those channels up already, so nothing reports them any more. |
| `PossibleGapsPut` | `GapRecoveryDeviations.cfg` (`MCGapRecovery`) | `handle_not_available` makes the client sure of a Direct backend before the PossibleGaps are put; if the connection ends before they are, nothing reports the loss any more. |
| `OnlyCancelledCallsCancel` | `AuthDeviations.cfg` (`MCAuthManager`) | A disconnect while the proactive timer's task owns or shares the refresh ends other callers' refresh() in a CancelledError nobody asked for. |
| `EscalatedByOwnAck` | `AuthDeviations.cfg` (`MCAuthManager`) | An escalation can be acknowledged by the answer to an earlier refresh's frame, before the server has read its own. |
| `DeferredJwtPresented` | `AuthDeviations.cfg` (`MCAuthManager`) | A refresh still fetching its token when the escalation is deferred stores it over the deferred JWT. |
| `DesiredIsWanted` | `SubscriptionsDeviations.cfg` (`MCSubscriptions`) | The ack of an unsubscribe that arrives after a new subscribe of the channel removes it from the desired set. |
| `OnlyFilteredReported` | `SubscriptionsDeviations.cfg` (`MCSubscriptions`) | The ack of one subscribe reports as not granted the channels of another subscribe still in flight. |
| `EveryConsumerEnds` | `DeliveryQueueTwo.cfg` (`MCDeliveryQueue`) | With two tasks iterating over messages(), close() ends only one of them. |
| `LiveServesDesired` | `SupervisorDeviations.cfg` (`MCSupervisor`) | A subscribe made while an SSE client is dialing takes no effect until the stream ends for another reason. |
| `RefusedIsFinal` | `SupervisorDeviations.cfg` (`MCSupervisor`) | A 4001 close that the resume frames run into is retried like any other. |
| `ConnectMeansConnected` | `SupervisorDeviations.cfg` (`MCSupervisor`) | A second connect() returns at once, although no connection has succeeded. |
| `ClosedStaysClosed` | `SupervisorDeviations.cfg` (`MCSupervisor`) | A client closed before its first connect() can be connected, and then no close() can stop it. |
| `EveryCloseWaits` | `SupervisorDeviations.cfg` (`MCSupervisor`) | A second `close()` returns while the supervisor is still running. |
| `CloseCompletes` | `SupervisorDeviations.cfg` (`MCSupervisor`) | A `close()` that raises in one of its awaits leaves the state as it was and the queue open, and no later `close()` does any better. |
| `ConnectedMeansRunning` | `SupervisorDeviations.cfg` (`MCSupervisor`) | A pump that dies of an error no handler names ends the supervisor and leaves the state at "connected". |
| `CancelIsRaised` | `SupervisorDeviations.cfg` (`MCSupervisor`) | A close() whose own task is cancelled returns normally. |
| `UnlimitedRetries` | `SupervisorDeviations.cfg` (`MCSupervisor`) | After 1024 failed dials in a row the back-off of a client with unlimited retries overflows, and the supervisor dies of it. |
| `AliveIsKept` | `WebSocketDeviations.cfg` (`MCWebSocketTransport`) | While the pump is blocked in a put the frames of a healthy server stay unread, so the heartbeat closes the connection. |
| `SilenceBounded` | `WebSocketDeviations.cfg` (`MCWebSocketTransport`) | A heartbeat whose send waits for a full write buffer gets no pong timeout, so a dead path is not closed on in time. |
| `TimerOnTime` | `ClientEpochDeviations.cfg` (`MCClientEpoch`) | A ReplayComplete that arms the floor timer does not wake the recovery timer, which sleeps on to the later deadline of the replay that has ended. |
| `NotedIsDelivered` | `ClientEpochDeviations.cfg` (`MCClientEpoch`) | A message whose put is cancelled by the end of the epoch has already moved the resume position past itself. |
| `InterruptionsAreRaised` | `ClientEpochDeviations.cfg` (`MCClientEpoch`) | A replay whose send fails on the dropped connection takes with it the interruptions that due() returned after it. |
| `PausedPumpSeesClose` | `WebSocketPaused.cfg` (`MCWebSocketTransport`) | close() while the pump waits at the gate of a paused transport: the pump then calls recv on the connection close() has let go of, and dies of an AttributeError that no handler expects. |
| `RefusalIsReported` | `WebSocketDeviations.cfg` (`MCWebSocketTransport`) | A 4001 the server has closed with is retried when the heartbeat's own close lets go of the connection before the pump has read it. |
| `CallsReturn` | `SyncDeviations.cfg` (`MCSyncClient`) | A call whose coroutine the loop has not finished when close() stops it waits for ever. |
| `StreamsEnd` | `SyncDeviations.cfg` (`MCSyncClient`) | A stream whose consumer was handling an item when the client closed raises instead of ending. |
| `ClosedIsTornDown` | `SyncDeviations.cfg` (`MCSyncClient`) | close() from a user callback marks the client closed and stops the loop, but its join raises and nothing closes the client or the loop afterwards. |
| `NothingLostSilently` | `SseDeviations.cfg` (`MCSseClient`) | A stream that is cut after the id line of an event resumes after the event, which is then never delivered. |
| `OnlyCloseEnds` | `SseDeviations.cfg` (`MCSseClient`) | A connection that fails while the body of a refusal is read ends the supervisor with httpx's own error. |
| `AnswerIsTrue` | `SseDeviations.cfg` (`MCSseClient`) | A redirect without a body is taken for success: publish returns None although nothing was published. |
| `FailureIsTyped` | `SseDeviations.cfg` (`MCSseClient`) | A call on a closed client raises httpx's RuntimeError instead of a SukkoError. |
| `KeepsOpenStream` | `SseDeviations.cfg` (`MCSseClient`) | A gap on an SSE stream makes the client send a replay on a transport that cannot send, and so tears down a healthy stream. |

A configuration with several properties lists deviations that each fail on their
own: keep one of them at a time.

## 5. Proofs

### The engine, alone and in use

`RecoveryEngine_proofs` proves of `RecoveryEngine`, for any channels, positions,
floor and deadline:

* `TypeCorrect`: `Spec => []TypeOK`;
* `Consistency`: `Spec => []PhasesConsistent`;
* `TimerProgress`: `Spec => DueMakesProgress`.

They use four assumptions of the module: the floor is a natural number
(`FloorAssumption`), the deadline a positive one (`DeadlineAssumption`), `None`
is neither a number nor a position (`NoneAssumption`), the bounds are naturals
(`BoundAssumption`). The bounds only occur in guards and nothing depends on
their values. All four are evaluated by the runs that extend the module.

`PhasesConsistent` is a conjunction over records (`RecordOK`) and history
deadlines. It is inductive together with the types, `IInv ==
PhasesConsistent /\ TypeOK`: that a deadline is at most `now + Deadline` is only
preserved because `arm`, `lastReplay` and the clock are known to be numbers. For
each helper that builds a record (`BeginReplay`, `AwaitFloor`, `Reset`, `Rearm`,
`FollowUp`) a lemma shows that it returns a record that is well typed and
consistent. `OneRecord` and `SameRecords` carry this over to a step: most
actions replace one record by a helper's result, the rest leave the records
alone and let time or the episodes grow. `StepIInv` has one step per action of
`Next`.

`TimerProgress` is an action property proved from the same invariant: after
`Due`, a record in a floor wait has its floor in the future (otherwise it would
have begun its replay), a replaying one a deadline that was not reached or has
been re-armed to `now + Deadline`, and this is later than now because the
deadline is positive: with a zero deadline the timer would spin.

Three modules compose with the engine, and their proofs stand on the engine's:
each first shows that its steps are calls the engine may get, so that `TypeOK`
and `PhasesConsistent` hold there too, and then follows one channel at a time.

`ClientRecovery_proofs` of `GapRecovery`, for any channels, log length, floor and
deadline:

* `EngineImplemented`: `GapSpec => Spec`;
* `NothingForgotten`: `GapSpec => []NoSilentLoss`;
* `AlwaysWatched`: `GapSpec => []RecoveryWatched`;
* `LossReported`: `GapSpec => []DirectLossReported`.

The first holds whatever the server answers, and how late: `GapBase` is the
invariant behind it, whose part `Parted` says that nothing is replayed by a Direct
backend or without a connection, and that no action list outlives one. Its part
`Accounted` follows the action lists through failing sends: what the engine has
given up has its interruption in a list still, or its channel is in `abandoned`.
The two in the middle assume `~StaleReplies` and the last `~LaterLoss`, without
which they are false (section 4); and all three exclude in their statement the
channels in `abandoned`, of which the code loses the report. The invariant of the
middle ones adds `Owed`, which says per phase what the server still has to bring of
what is `Open`, lost and not given up: nothing to an idle channel, only what follows
the anchor to one that waits for the floor, and to one that replays, what the one
replay under way, or about to be asked for, brings, or what follows its follow-up,
unless the epoch is ending and will report the channel. `Requested` says that a
request still in a list is the only one of its channel, across both tasks. It holds
because anchor and follow-up never lie beyond the last message sent.

`RecoveryEngine_proofs` of `RecoveryTiming`, for any channels, floor and deadline:

* `FloorKept`: `TimingSpec => FloorPerConnection`;
* `SilencePrecedes`: `TimingSpec => InterruptedAfterSilence`.

The properties are about what an observer saw, the code decides by its own
fields, and the invariant `Seen` ties them: on the current connection the replay
seen last is the engine's `lastReplay`, and each running deadline lies a full
`Deadline` after the last frame heard and the last stall begun since it was
armed. `EffectStep` reduces every action to one of a few effects on a channel,
over which `SeenStep` then splits.

`ClientRecovery_proofs` of `ClientEpoch`, for any channels, positions, queue size
(`QueueAssumption`: not zero), floor and deadline:

* `EngineUsedRight`: `EpochSpec => Spec`;
* `FlagIsRight`: `EpochSpec => []PausedIffBlocked`;
* `TimerIsWoken`: `EpochSpec => []NeverSleepsThroughAll`;
* `EpochTypesAreRight`: `EpochSpec => []EpochTypeOK`.

The invariant says which tasks exist, what the pump holds, and that a timer
asleep without a deadline has none to miss, has the event set, or is about to be
woken by the pump, which waits for its sends to end before it sets the event.
The types need one thing more, `Loads`: what the pump holds, and what the tasks
have still to do, are actions of the engine.

### The connection

`WebSocketTransport_proofs` of `Heartbeat`, for any interval, latency and any
timeout above it:

* `SilenceNoticed`: `Spec => []SilenceIsNoticed`;
* `CloseHasReason`: `Spec => ClosesWithReason`.

Neither property is inductive. The invariant `IInv` adds to the types that the
clock waits for every running timer and every pong that is due, but for no send
(`ClockWaits`), that the heartbeat sent last is either still to be answered, or its
answer is in the buffer, or a frame was received since, or the server is dead
(`Answered`), and how far each sleep and each send can reach from the last frame,
the time that sends have `waited` since it added (`SleepsBounded`). That time has
to be added: no timeout runs in `conn.send`, and `SilenceBounded` (section 4) fails. At the
end of the wait a pong still due would be due before now, as the latency is
below the timeout; so the buffer is not empty, or the connection is kept. The
assumptions are `IntervalAssumption`, `LatencyAssumption`, `StallsAssumption`
and `HeartbeatBounds`; the bounds only stop the clock and the count of frames.

Of `WebSocketTransport`, for any interval, latency, timeout above it and close
codes:

* `SocketHeartbeat`: both theorems about the heartbeat hold of the transport, which
  takes each of its actions from `Heartbeat`;
* `AuthorNamed`: `WsSpec => []CloseNamesItsAuthor`;
* `EndNoticed`: `WsSpec => []EndIsNoticed`.

`Handshake` says what the library's record can be while close frames travel: the
frame received first is the server's own, and a frame sent without one is the
pong timeout's. `SleepsEndInTime` bounds the heartbeat's sleep from the moment
the connection ended; a send that waits then raises. `CodeAssumption` keeps codes apart from `None`.

### The supervisor and auth

`Supervisor_proofs`, for any channels, callers of `connect()`, event ids and
`reconnect_attempts` (`AttemptsAssumption`, `NoneAssumption`):

* what the run checks: `BudgetKept` (`RetryBudget`), `CursorKept`
  (`CursorCarried`), `BounceForgotten` (`BounceConsumed`), `ReasonsKnown`
  (`StopsForAReason`), `StateTold` (`StateHonest`);
* what its liveness properties stand on. `FutureTold`: the future of `connect()`
  is open only during the first connection, and what it says is true.
  `ConnectTold`: who has waited returns only once there was a connection.
  `WakeupKept`: a parked supervisor has been told of every channel there is.
  `CloseHeard`: as long as `close()` waits, the supervisor has ended, is on its
  way out or is about to be cancelled, whichever handler took the last cancel.
  `ClosingDialsNot`: it does not dial again then. `BounceDone`: a stream marked
  for a bounce is on its way out;
* `StaysClosed` (`ClosedStaysClosed`): nothing runs behind the await of the
  supervisor in the `close()` that found the client open. Of a second `close()`
  it is false (`EveryCloseWaits`, section 4).

Errors that are not `SukkoError`s are in the model (`raised`), as are the awaits of
`close()` behind that of the supervisor, where it may be cancelled or raise. So
`ReasonsKnown` has such an error among its reasons, and `StateTold` says when
"connected" is stale: inside `close()`, after such an error, or after a `close()`
cut short; only one that comes to its end leaves "disconnected".

Three of them assume what they need, and fail without (section 4): `ReasonsKnown`
that `Attempts <= MaxExponent`, as the back-off overflows beyond, `StateTold` and
`StaysClosed` that `~LateConnect`, a closed client is not connected again. None of
the run's five is inductive: `Counting` relates `attempt`, which the code keeps,
to the failures in a row, which it does not (one ahead after a lost connection,
one behind during a back-off); `Carrying` says where the last event id is while a
stream is open and after; `Closing` follows a cancellation from `close()` through
the unwinding of the task group. `Answering` and `Waking` add for the others that
only a client that has connected loses a connection or parks. The invariant has
one step lemma per part, each with one step per action.

The same module proves of `SyncClient`, for any threads that call, stream or close:

* `TeardownKept` (`TeardownInOrder`): a thread in `close()` that waits for the loop
  waits for one that was told to stop;
* `LoopFree` (`OpenLoopTurns`): until somebody closes, the loop turns, and exactly
  the threads that wait have a job on it;
* `ErrorsExplained`: no call or stream raises before the loop is closed, and no
  stream ends before the client is closed;
* `ClosesStoppedLoop`: a loop that runs is never closed.

They are the safety in `TornDown` and `TimedCallsReturn`. `SyncInv` needs two
things more: `client.close()` runs only for a thread that has set `_closed`, and a
callback on the loop thread never blocks there. The second is what `_run`'s check
for the loop thread is for.

`AuthManager_proofs`, for any number of tasks of each kind:

* `WaitersGetAnswer`: `Spec => []WaitersAnswered`;
* `JwtKept`: `Spec => []EscalationKeepsJwt`.

`Owned` says that exactly the task in `_pending` is inside `_run_auth` or an
escalation's exchange, and that an escalation has no token step; `Unanswered`
that the frame of an owner that has sent is on the live wire as long as the
future is open. Most actions only move tasks that do not own the future
(`OwnerStays`), begin one (`OwnerBegins`) or end one (`OwnerGone`).
`TaskAssumption` keeps tasks apart from `None`, and `EscalatorAssumption` the
tasks that call `escalate()` apart from the others, as in the run.

### Subscriptions and delivery

`Subscriptions_proofs`, for any channels and bound on the frames in flight:

* `TypesAreRight` (`TypeOK`), `GrantsAgree` (`GrantedIsServed`), `DesiresAreServed`
  (`DesiredIsServed`), `UnwantedIsForgotten` (`NothingUnwantedResumed`).

`GrantedIsServed` and `DesiredIsServed` speak of the moment nothing is in flight,
and say nothing of the way there; `SubsInv` does. A channel is `Settled` when the
last frame on its way to the client that tells of it says what is true at the
server, or none tells and the client shows it already. This fails only while an
unsubscribe is on its way up, as the client forgets the grant before the server
stops serving, and is regained when the server answers it. A desired channel is
`Attended` when it is served, or something in flight will change that: a
subscribe or unsubscribe, an answer that ends the desire, or the delta of an
escalation, which counts as long as nothing behind it on the wire tells of the
channel. Each operation has lemmas about one channel (`SettledByAnswer`,
`SettledBeside` and so on), and `StepSubsInv` puts them together.

`DeliveryQueue_proofs`, for any non-empty set of consumers, any number of items and
any size above one, under both policies and pausable or not:

* `TypesAreRight`: `Spec => []TypeOK`;
* `AllAccounted`: `Spec => []EveryItemAccountedFor`;
* `EndKept`: `Spec => []EndComes`: from `close()` on the sentinel is the last in the
  buffer until one consumer has taken it, and no put blocks without a consumer;
* `EverythingTold`: `Spec => []NothingLeftBehind`: once the iterations have ended,
  each item was delivered, reported in a marker or given up by a teardown;
* `ImplementsFeed`: the initial states and every step of the queue are those of
  `MessageFeed` under the refinement mapping: the safety half of `FeedSpec`.

`QueueInv` adds that the buffer is in order, each item once, with the sentinel
only behind them; that a blocked item is the last one offered, on a queue that
can pause and is not closed; and `MarkerComes`: if drops are to be reported while
every consumer waits, an item is in the buffer, whose taker gets the marker at
its next call. With a size of one, `close()` would evict the one item and leave
the sentinel alone, and a waiting consumer would end without its marker; so
`SizeAssumption` asks for two places. The constructor requires room for a whole
history and replay (`backpressure.py:50-56`).

### The receive-only path and the HTTP side

`SseClient_proofs`, for any callers, any length of log, and any size of queue and
wire:

* `EntriesInOrder`: `SseSpec => []InOrderOnce`;
* `NothingLost`: `SseSpec => []NothingLostSilently`, assuming `~Cuts`;
* `AnswersTrue`: `SseSpec => []AnswerIsTrue`, assuming `~Redirects`;
* `IdsAndRejectionsHold`: `SseSpec => []IdsAndRejectionsTrue`: what is left of it
  with redirects. An id that is returned is that of what was made for the call,
  and after a rejection nothing was.

Without these two assumptions the properties fail (section 4); order needs
neither. `PathInv` follows an entry from the log to the consumer. `Cursors`: the
supervisor's cursor is the transport's whenever no stream is open, so what is
harvested is the last id seen, and the first id seen lies at or below it.
`Ordering`: the ids in the queue, then the one in the blocked put, then those on
the wire ascend, the first lot up to the cursor and the last from it to where the
server is. `Coverage`: every entry up to the cursor is known, queued or in the
blocked put; every entry up to a message on the wire is that or on the wire no
further back than the message; and every entry up to where the server is, is one
of these. The middle clause is what makes reading a message safe: the cursor
jumps to its id, and all below must be accounted for without the rest of the
wire. Each action is then one of few things to coverage: it leaves the cursor and
the wire (`CoverageKept`), empties the wire (`CoverageOffWire`), adds to it
(`SendCovers`), reads from it (`ReadCovers`) or begins a stream (`DialCovers`).

`RestInv` says what has been done for a call in each of its phases;
`OutcomeIsTruthful` goes through the answers the gateway can give, per status,
body and operation.

### What is only model-checked

Liveness (`RefreshReturns`, `ConnectAnswered`, `CloseAnswered`, `ParkWakes`,
`EveryConsumerEnds`, `EventuallyKnown`, `TornDown`, `TimedCallsReturn`, and the
fairness half of `FeedSpec`) needs `ENABLED`, which the prover does not handle, and
stays with TLC. What is proved is that the states in which they could hang are
not reachable: `WaitersGetAnswer`, `FutureTold`, `CloseHeard`, `WakeupKept`,
`EndKept`, `TeardownKept` and `LoopFree`, and, for the entries of an SSE stream,
`NothingLost`. These say that a step towards the end is
always still to come; that it is taken is the fairness of section 3. The expected
violations and the deviations of section 4 are counterexamples and stay with TLC
too. Every invariant and every other action property of the passing runs is a
theorem.

## 6. What is not modelled

* `messages.py`, `channels.py`, `_redact.py`: data and text without behaviour.
  Frames arrive decoded. Of `errors.py` the classes' texts and the mapping of
  server error frames, whose result goes to a callback and nowhere else.
* `_clock.py`: the jitter is a random draw in floating point. The back-off is a
  state that ends, or an overflow that ends the supervisor.
* Headers, URLs and credentials of the transports and of the HTTP helper.
* `drain_nowait` of the queue and the sizing check of its constructor.
* The client always builds its queue as pausable (`client.py:190`), although an
  SSE transport is not. `SseClient` models that queue; `DeliveryQueue` checks both
  kinds. `pause` and `resume` of the WebSocket transport are modelled although the
  client never calls them: they are the transport's to offer.
* Connecting a client that was closed: `LateConnect` is FALSE in the passing run,
  as the properties speak of a client used in the order the docs give.
* A token provider that raises something other than a `SukkoError`:
  `reactive_refresh` catches those only (`auth.py:137-140`), so its background task
  ends in an error nobody looks at. `AuthManager` has one kind of failure; the
  shared future is settled the same way by both.
* The keepalive of the websockets library (its own pings, close 1011): it is the
  library's default and closes like the network's failing, which is modelled.
* Reports in an action list cut short by a failing send: `NoSilentLoss`,
  `RecoveryWatched` and `DirectLossReported` leave the channels in `abandoned` out by
  name. `InterruptionsRaised` and `PossibleGapsPut` state what they leave out, and
  section 4 what happens.
* `StaleReplies` and `LaterLoss` are FALSE in the passing run of `GapRecovery`: the
  server does not complete a replay the client has already given up, and a Direct
  backend loses messages only until the client knows it is one. `Cuts` and
  `Redirects` are FALSE in that of `SseClient`: a stream ends between two events,
  and nothing in front of the gateway redirects. The table above shows what the
  code does otherwise.
* An SSE client that has seen no event id has no cursor; what is lost on its first
  stream before that is ADR-0006's quiet-channel hole, and `Owed` leaves it out.
* The gap an SSE stream reports counts as announced when the consumer takes it, or
  when the interrupted recovery is reported; the jitter before the next dial, and
  the engine's timers on a stream, are those of the other modules.

## 7. Plan

Done so far, in this order: the engine and its proofs, its timing and its
composition with the server, auth, subscriptions, queue, supervisor, the epoch
that ties pump, timer and queue to the engine, the heartbeat and its proofs, the
blocking wrapper; then the transports, the HTTP side and the SSE path to the
consumer, the Direct backend; the proofs of the transport, the supervisor, the
epoch, auth and the two compositions with the engine; then those of the
subscriptions, the queue with its refinement, the SSE path and the HTTP side; last,
the safety that the liveness of supervisor, queue and blocking wrapper stands on.

Models to come:

1. The mapping of server error frames, if it ever decides a state.
2. `RecoveryEngine` with `Subscriptions`, once the server says what it makes of
   the position of a channel that is not resumed.

Proofs to come: more of the weaker statements that hold where a deviation makes
the strong one fail, as `IdsAndRejectionsHold` does for redirects. With `StaleReplies`, for instance, one
expects a message to be lost only on a channel on which a replay was given up
before.
