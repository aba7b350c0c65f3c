----------------------------- MODULE Supervisor -----------------------------
(***************************************************************************)
(* The connection supervisor of src/sukko/client.py (_run) with the calls  *)
(* that start, steer and stop it: connect, close, subscribe, unsubscribe,  *)
(* and the SSE bounce.                                                     *)
(*                                                                         *)
(* One action is what a task does between two suspensions, so whatever     *)
(* _run does on waking up to its next await is one step: the end of a      *)
(* back-off and the call of the transport factory are never apart.         *)
(* `sup' says where the supervisor is suspended:                           *)
(*   starting  created, not run yet     leaving  in transport.close()      *)
(*   dialing   in transport.open()      backoff  in clock.sleep()          *)
(*   resuming  in _on_connected         parked   in _desired_changed.wait  *)
(*   live      in the task group        done     the task has ended        *)
(* and _transport is set exactly while it is resuming or live.  A cancel   *)
(* is delivered where the supervisor is suspended; a task group that is    *)
(* already failing may absorb it, which is what _running() is for.         *)
(*                                                                         *)
(* Errors are of two kinds: the SukkoErrors _run handles, and any other    *)
(* (an httpx.ReadError out of open(), an AttributeError out of recv()),    *)
(* which leaves _run through its finally and ends the task.                *)
(*                                                                         *)
(* `closer' is the call of close() that found _closed unset; every later   *)
(* one returns at once, and changes nothing.                               *)
(*                                                                         *)
(* The transport and the server are external: a dial succeeds or fails, a  *)
(* connection drops, is refused (4001) or closed by the client, an SSE     *)
(* stream carries event ids; the SSE transport refuses to be built without *)
(* channels, with an error that is not a SukkoError.                       *)
(***************************************************************************)
EXTENDS Naturals, FiniteSets

CONSTANTS
    Channel,      \* channel names
    Connector,    \* tasks that call connect()
    None,         \* Python's None
    Attempts,     \* reconnect_attempts; 0 means unlimited
    MaxExponent,  \* the least n whose 2.0**n is no float: 1024
    MaxId,        \* bound on the SSE event ids
    LateConnect   \* may a caller connect a client it has already closed?

ASSUME AttemptsAssumption == {Attempts, MaxExponent, MaxId} \subseteq Nat
ASSUME NoneAssumption     == None \notin Nat
ASSUME LateAssumption     == LateConnect \in BOOLEAN

VARIABLES
    sse,          \* the transport is receive-only (chosen at construction)
    reconnect,    \* _reconnect (chosen at construction)
    sup,          \* where the supervisor is suspended
    state,        \* _state
    attempt,      \* the loop's attempt
    terminal,     \* the loop's terminal
    cursor,       \* the loop's resume_cursor
    cancelling,   \* the supervisor was cancelled and does not know yet
    raised,       \* what is leaving, or has left, _run: a CancelledError, or an
                  \* error that is not a SukkoError
    wire,         \* what the pump will find on the connection
    dialed,       \* the channels the current transport was built with
    seen,         \* the transport's last_event_id
    desired,      \* the subscriptions' desired set
    bounce,       \* _bounce_pending
    changed,      \* _desired_changed is set
    shouldRun,    \* _should_run
    connectedOnce,\* _connected_once
    result,       \* _connect_result
    connector,    \* where each caller of connect() is
    closer,       \* where close() is: in the await of the supervisor (waiting),
                  \* in those that follow (cleaning), at its end (done: the state
                  \* is reset and the queue closed), or left before (cutshort)
    failures,     \* history: dials that failed since the last success
    lastId,       \* history: the last event id received on any stream
    refused,      \* history: the server closed with 4001 (auth failed)
    crashed,      \* history: the factory raised, and killed the supervisor
    interrupted,  \* history: close()'s own task was cancelled, at most once
    early         \* history: another call of close() has returned

setup   == <<sse, reconnect>>
retry   == <<attempt, terminal, cursor>>
cancel  == <<cancelling, raised>>
stream  == <<wire, dialed, seen>>
wish    == <<desired, bounce, changed>>
calls   == <<connector, closer, interrupted, early>>
vars    == <<setup, sup, state, retry, cancel, stream, wish, shouldRun,
             connectedOnce, result, calls, failures, lastId, refused, crashed>>

Id == 0 .. MaxId
LastAttempt == IF Attempts > 0 THEN Attempts ELSE MaxExponent

TypeOK ==
    /\ {sse, reconnect, terminal, cancelling, bounce, changed, shouldRun,
        connectedOnce, refused, crashed, interrupted, early} \subseteq BOOLEAN
    /\ raised \in {"none", "cancelled", "error"}
    /\ sup \in {"none", "starting", "dialing", "resuming", "live", "leaving",
                "backoff", "parked", "done"}
    /\ state \in {"disconnected", "connected", "reconnecting", "error"}
    /\ attempt \in 0 .. LastAttempt
    /\ {cursor, seen, lastId} \subseteq Id \cup {None}
    /\ wire \in {"down", "open", "local", "remote", "refused"}
    /\ {dialed, desired} \subseteq SUBSET Channel
    /\ result \in {"none", "pending", "ok", "error", "cancelled"}
    /\ connector \in [Connector -> {"idle", "waiting", "returned", "failed"}]
    /\ closer \in {"idle", "waiting", "cleaning", "done", "cutshort"}
    /\ failures \in 0 .. LastAttempt + 1

Init ==
    /\ sse \in BOOLEAN /\ reconnect \in BOOLEAN
    /\ sup = "none" /\ state = "disconnected"
    /\ attempt = 0 /\ terminal = FALSE /\ cursor = None
    /\ cancelling = FALSE /\ raised = "none"
    /\ wire = "down" /\ dialed = {} /\ seen = None
    /\ desired = {} /\ bounce = FALSE /\ changed = FALSE
    /\ shouldRun = FALSE /\ connectedOnce = FALSE /\ result = "none"
    /\ connector = [k \in Connector |-> "idle"] /\ closer = "idle"
    /\ failures = 0 /\ lastId = None
    /\ refused = FALSE /\ crashed = FALSE /\ interrupted = FALSE /\ early = FALSE

-----------------------------------------------------------------------------
(* Helpers of the supervisor.                                              *)

\* _transport is set and _state is CONNECTED: a call finds the client live.
Live == sup \in {"resuming", "live"} /\ state = "connected"

\* Wrong variants, each a slip the code could contain.
ShouldRetryOneShort == reconnect /\ (Attempts = 0 \/ attempt + 1 < Attempts)
EmptySetStops == ~shouldRun \/ terminal \/ (sse /\ desired = {})  \* not parked
Unanswered(how) == result                       \* no done callback
HarvestOnDropOnly == IF bounce THEN cursor ELSE seen
StopsOnTerminal == terminal                     \* close() is not looked at
BounceKept == UNCHANGED bounce                  \* the flag is not cleared
SubscribesSilently == UNCHANGED changed         \* a parked loop is not woken
LeavesState == UNCHANGED state                  \* close() forgets the state

ShouldRetry == reconnect /\ (Attempts = 0 \/ attempt < Attempts)

\* full_jitter_backoff raises OverflowError: 2.0**attempt is no float.
BackoffFails == attempt >= MaxExponent

\* What connect() gets from a supervisor that ends before it has answered.
Backstop(how) == IF result = "pending" THEN how ELSE result

\* The cursor the next dial presents.
Harvest == IF seen # None THEN seen ELSE cursor

Stops == ~shouldRun \/ terminal

ClearBounce == bounce' = FALSE

Ends(st, how) ==
    /\ sup' = "done" /\ state' = st
    /\ result' = Backstop(how)

\* The top of the loop: build a transport and open it.
Dial ==
    \/ /\ ~(sse /\ desired = {})
       /\ sup' = "dialing" /\ state' = IF sup = "leaving" THEN "reconnecting" ELSE state
       /\ dialed' = desired /\ terminal' = FALSE
       /\ UNCHANGED <<result, crashed>>
    \/ /\ sse /\ desired = {}
       /\ Ends(IF sup = "leaving" THEN "reconnecting" ELSE state, "error")
       /\ crashed' = TRUE
       /\ UNCHANGED <<dialed, terminal>>

\* The epoch is over: the pumps are gone, the cursor is harvested.
Leave(isTerminal, raising) ==
    /\ sup' = "leaving"
    /\ terminal' = isTerminal /\ raised' = raising
    /\ cursor' = Harvest
    /\ UNCHANGED <<setup, state, attempt, stream, wish, shouldRun, connectedOnce,
                   result, calls, failures, lastId, refused, crashed>>

-----------------------------------------------------------------------------
(* The supervisor.                                                         *)

Start ==
    /\ sup = "starting" /\ ~cancelling
    /\ Dial
    /\ UNCHANGED <<setup, attempt, cursor, cancel, wire, seen, wish, shouldRun,
                   connectedOnce, calls, failures, lastId, refused>>

\* Connected.  On WebSocket the resume frames are sent first, if there are
\* any: a reconnect probe from the second connection on, the desired set.
DialSucceeds ==
    /\ sup = "dialing" /\ ~cancelling
    /\ sup' \in IF sse THEN {"live"}
                ELSE IF desired # {} THEN {"resuming"}
                ELSE IF connectedOnce THEN {"resuming", "live"} ELSE {"live"}
    /\ state' = "connected" /\ wire' = "open"
    /\ seen' = IF sse THEN cursor ELSE None
    /\ connectedOnce' = TRUE /\ attempt' = 0 /\ failures' = 0
    /\ result' = IF connectedOnce THEN result ELSE Backstop("ok")
    /\ UNCHANGED <<setup, terminal, cursor, cancel, dialed, wish, shouldRun, calls,
                   lastId, refused, crashed>>

\* A retry backs off first; an OverflowError from that ends the supervisor
\* where it stands.
DialFails ==
    /\ sup = "dialing" /\ ~cancelling
    /\ failures' = failures + 1
    /\ \/ /\ ShouldRetry /\ ~BackoffFails
          /\ sup' = "backoff" /\ state' = "reconnecting"
          /\ UNCHANGED result
       \/ /\ ShouldRetry /\ BackoffFails
          /\ Ends("reconnecting", "error")
       \/ /\ ~ShouldRetry
          /\ Ends("error", "error")
    /\ UNCHANGED <<setup, retry, cancel, stream, wish, shouldRun, connectedOnce, calls,
                   lastId, refused, crashed>>

BackoffEnds ==
    /\ sup = "backoff" /\ ~cancelling
    /\ attempt' = attempt + 1
    /\ Dial
    /\ UNCHANGED <<setup, cursor, cancel, wire, seen, wish, shouldRun, connectedOnce,
                   calls, failures, lastId, refused>>

\* The resume frames are sent (a closed connection may go unnoticed).
Resumed ==
    /\ sup = "resuming" /\ ~cancelling
    /\ sup' = "live"
    /\ UNCHANGED <<setup, state, retry, cancel, stream, wish, shouldRun, connectedOnce,
                   result, calls, failures, lastId, refused, crashed>>

\* A resume frame could not be sent: whatever closed it, not terminal.
ResumeFails ==
    /\ sup = "resuming" /\ ~cancelling /\ wire # "open"
    /\ Leave(FALSE, "none")
    /\ UNCHANGED cancelling

\* A pump raises, and the task group with it.
PumpsEnd ==
    /\ sup = "live" /\ ~cancelling /\ wire # "open"
    /\ Leave(wire = "refused", "none")
    /\ UNCHANGED cancelling

\* A pump, or the heartbeat, raises an error the loop does not handle.
PumpBreaks ==
    /\ sup = "live" /\ ~cancelling
    /\ Leave(FALSE, "error")
    /\ UNCHANGED cancelling

\* transport.open() does, or transport.close().
TransportBreaks ==
    /\ sup \in {"dialing", "leaving"} /\ ~cancelling
    /\ raised' = "error"
    /\ Ends(state, "error")
    /\ failures' = IF sup = "dialing" THEN failures + 1 ELSE failures
    /\ wire' = "down"
    /\ UNCHANGED <<setup, retry, cancelling, dialed, seen, wish, shouldRun,
                   connectedOnce, calls, lastId, refused, crashed>>

\* The transport is closed: stop, redial, park or back off.
Left ==
    /\ sup = "leaving" /\ ~cancelling /\ raised = "none"
    /\ wire' = "down"
    /\ \/ /\ Stops
          /\ Ends("disconnected", "error")
          /\ UNCHANGED <<terminal, dialed, bounce, changed, crashed>>
       \/ /\ ~Stops /\ sse /\ desired = {}
          /\ ClearBounce /\ changed' = FALSE
          /\ sup' = "parked" /\ state' = "reconnecting"
          /\ UNCHANGED <<terminal, dialed, result, crashed>>
       \/ /\ ~Stops /\ bounce /\ desired # {}
          /\ ClearBounce
          /\ Dial
          /\ UNCHANGED changed
       \/ /\ ~Stops /\ ~bounce /\ ~(sse /\ desired = {}) /\ ~reconnect
          /\ Ends("disconnected", "error")
          /\ UNCHANGED <<terminal, dialed, bounce, changed, crashed>>
       \/ /\ ~Stops /\ ~bounce /\ ~(sse /\ desired = {}) /\ reconnect
          /\ sup' = "backoff" /\ state' = "reconnecting"
          /\ UNCHANGED <<terminal, dialed, bounce, changed, result, crashed>>
    /\ UNCHANGED <<setup, attempt, cursor, cancel, seen, desired, shouldRun,
                   connectedOnce, calls, failures, lastId, refused>>

\* A parked supervisor wakes; it parks again if the set is still empty.
Unpark ==
    /\ sup = "parked" /\ ~cancelling /\ changed
    /\ \/ /\ desired = {}
          /\ changed' = FALSE
          /\ UNCHANGED <<sup, state, dialed, terminal, result, crashed>>
       \/ /\ desired # {}
          /\ Dial
          /\ UNCHANGED changed
    /\ UNCHANGED <<setup, attempt, cursor, cancel, wire, seen, desired, bounce,
                   shouldRun, connectedOnce, calls, failures, lastId, refused>>

\* The cancel reaches the supervisor, or its task group absorbs it.
Cancelled ==
    /\ cancelling /\ cancelling' = FALSE
    /\ \/ /\ sup \in {"starting", "dialing", "leaving", "backoff", "parked"}
          /\ Ends(state, "cancelled") /\ raised' = "cancelled"
          /\ UNCHANGED <<setup, retry, stream, wish, shouldRun, connectedOnce, calls,
                         failures, lastId, refused, crashed>>
       \/ /\ sup \in {"resuming", "live"}
          /\ Leave(FALSE, "cancelled")
       \/ /\ sup = "live" /\ wire # "open"
          /\ Leave(wire = "refused", "none")
       \/ /\ sup = "live"
          /\ Leave(FALSE, "error")

\* Its finally is over, and the error it could not handle leaves the task.
Unwound ==
    /\ sup = "leaving" /\ ~cancelling /\ raised # "none"
    /\ wire' = "down"
    /\ Ends(state, raised)
    /\ UNCHANGED <<setup, retry, cancel, dialed, seen, wish, shouldRun, connectedOnce,
                   calls, failures, lastId, refused, crashed>>

-----------------------------------------------------------------------------
(* The callers.                                                            *)

\* connect: only the first call starts, and waits for, a supervisor.
Connect(k) ==
    /\ connector[k] = "idle"
    /\ closer # "idle" => LateConnect
    /\ \/ /\ sup # "none"
          /\ connector' = [connector EXCEPT ![k] = "returned"]
          /\ UNCHANGED <<sup, shouldRun, result>>
       \/ /\ sup = "none"
          /\ connector' = [connector EXCEPT ![k] = "waiting"]
          /\ sup' = "starting" /\ shouldRun' = TRUE /\ result' = "pending"
    /\ UNCHANGED <<setup, state, retry, cancel, stream, wish, connectedOnce, closer,
                   interrupted, early, failures, lastId, refused, crashed>>

ConnectReturns(k) ==
    /\ connector[k] = "waiting" /\ result # "pending"
    /\ connector' = [connector EXCEPT ![k] = IF result = "ok" THEN "returned" ELSE "failed"]
    /\ UNCHANGED <<setup, sup, state, retry, cancel, stream, wish, shouldRun,
                   connectedOnce, result, closer, interrupted, early, failures, lastId,
                   refused, crashed>>

\* The caller gives up waiting: the future it awaits is cancelled.
ConnectCancelled(k) ==
    /\ connector[k] = "waiting" /\ result = "pending"
    /\ connector' = [connector EXCEPT ![k] = "failed"]
    /\ result' = "cancelled"
    /\ UNCHANGED <<setup, sup, state, retry, cancel, stream, wish, shouldRun,
                   connectedOnce, closer, interrupted, early, failures, lastId, refused, crashed>>

\* On a live SSE stream: mark the close as deliberate, and close.
Bounce == bounce' = TRUE /\ wire' = IF wire = "open" THEN "local" ELSE wire

NoBounce == UNCHANGED <<bounce, wire>>

WakePark == changed' = TRUE

Subscribe(c) ==
    /\ desired' = desired \cup {c}
    /\ WakePark
    /\ IF sse /\ Live THEN Bounce ELSE NoBounce
    /\ UNCHANGED <<setup, sup, state, retry, cancel, dialed, seen, shouldRun,
                   connectedOnce, result, calls, failures, lastId, refused, crashed>>

\* On a live WebSocket the frame is sent first, and may not go through.
Unsubscribe(c) ==
    /\ \/ /\ ~sse /\ Live
          /\ \/ desired' = desired \ {c}
             \/ wire # "open" /\ UNCHANGED desired
          /\ NoBounce /\ UNCHANGED changed
       \/ /\ sse /\ Live
          /\ desired' = desired \ {c} /\ changed' = TRUE
          /\ Bounce
       \/ /\ ~Live
          /\ desired' = desired \ {c} /\ changed' = TRUE
          /\ NoBounce
    /\ UNCHANGED <<setup, sup, state, retry, cancel, dialed, seen, shouldRun,
                   connectedOnce, result, calls, failures, lastId, refused, crashed>>

ResetState == state' = "disconnected"

\* close: stop, cancel the supervisor and wait for it.
Close ==
    /\ closer = "idle"
    /\ shouldRun' = FALSE
    /\ \/ /\ sup \in {"none", "done"}
          /\ closer' = "cleaning"
          /\ UNCHANGED cancelling
       \/ /\ sup \notin {"none", "done"}
          /\ closer' = "waiting" /\ cancelling' = TRUE
    /\ UNCHANGED <<setup, sup, state, retry, raised, stream, wish, connectedOnce, result,
                   connector, interrupted, early, failures, lastId, refused, crashed>>

\* The supervisor has ended.  An error it ended with is raised here again,
\* unless a cancel of close() itself comes first, and is suppressed.
CloseReturns ==
    /\ closer = "waiting" /\ sup = "done"
    /\ \/ closer' = "cleaning" /\ (raised = "error" => interrupted)
       \/ closer' = "cutshort" /\ raised = "error"
    /\ UNCHANGED <<setup, sup, state, retry, cancel, stream, wish, shouldRun,
                   connectedOnce, result, connector, interrupted, early, failures,
                   lastId, refused, crashed>>

\* The background tasks are cancelled and awaited, the auth manager and the
\* HTTP client closed: reset the state and close the queue.
CloseCleans ==
    /\ closer = "cleaning"
    /\ closer' = "done" /\ ResetState
    /\ UNCHANGED <<setup, sup, retry, cancel, stream, wish, shouldRun, connectedOnce,
                   result, connector, interrupted, early, failures, lastId, refused,
                   crashed>>

\* ... or one of these raises.
CloseBreaks ==
    /\ closer = "cleaning"
    /\ closer' = "cutshort"
    /\ UNCHANGED <<setup, sup, state, retry, cancel, stream, wish, shouldRun,
                   connectedOnce, result, connector, interrupted, early, failures,
                   lastId, refused, crashed>>

\* The task in close() is itself cancelled.  It passes the cancel on to the
\* supervisor or the background task it awaits, and suppresses the error that
\* comes back; in the other awaits the cancel ends close().
CloseCancelled ==
    /\ ~interrupted /\ interrupted' = TRUE
    /\ \/ closer = "waiting" /\ cancelling' = (sup # "done") /\ UNCHANGED closer
       \/ closer = "cleaning" /\ closer' \in {"cleaning", "cutshort"} /\ UNCHANGED cancelling
    /\ UNCHANGED <<setup, sup, state, retry, raised, stream, wish, shouldRun,
                   connectedOnce, result, connector, early, failures, lastId, refused,
                   crashed>>

\* Another call of close() finds _closed set (a call that comes after the end
\* of the first one is a no-op as well, and left out).
CloseAgain ==
    /\ closer \in {"waiting", "cleaning"}
    /\ early' = TRUE
    /\ UNCHANGED <<setup, sup, state, retry, cancel, stream, wish, shouldRun,
                   connectedOnce, result, connector, closer, interrupted, failures,
                   lastId, refused, crashed>>

-----------------------------------------------------------------------------
(* The connection.                                                         *)

\* The server closes or refuses, the network drops.
Drop ==
    /\ wire = "open"
    /\ \/ wire' = "remote" /\ UNCHANGED refused
       \/ wire' = "refused" /\ refused' = TRUE
    /\ UNCHANGED <<setup, sup, state, retry, cancel, dialed, seen, wish, shouldRun,
                   connectedOnce, result, calls, failures, lastId, crashed>>

\* The heartbeat's pong is late: it closes the transport.
HeartbeatTimeout ==
    /\ ~sse /\ sup = "live" /\ wire = "open"
    /\ wire' = "local"
    /\ UNCHANGED <<setup, sup, state, retry, cancel, dialed, seen, wish, shouldRun,
                   connectedOnce, result, calls, failures, lastId, refused, crashed>>

\* The stream carries the next event id.
EventId ==
    /\ sse /\ sup = "live" /\ wire = "open" /\ lastId # MaxId
    /\ lastId' = IF lastId = None THEN 0 ELSE lastId + 1
    /\ seen' = lastId'
    /\ UNCHANGED <<setup, sup, state, retry, cancel, wire, dialed, wish, shouldRun,
                   connectedOnce, result, calls, failures, refused, crashed>>

SupervisorRuns ==
    \/ Start \/ DialSucceeds \/ DialFails \/ BackoffEnds
    \/ Resumed \/ ResumeFails \/ PumpsEnd \/ Left \/ Unpark
    \/ PumpBreaks \/ TransportBreaks \/ Cancelled \/ Unwound

Next ==
    \/ SupervisorRuns
    \/ \E k \in Connector : Connect(k) \/ ConnectReturns(k) \/ ConnectCancelled(k)
    \/ \E c \in Channel : Subscribe(c) \/ Unsubscribe(c)
    \/ Close \/ CloseReturns \/ CloseCleans \/ CloseBreaks \/ CloseCancelled \/ CloseAgain
    \/ Drop \/ HeartbeatTimeout \/ EventId

\* open() has a timeout, sleep() and transport.close() end, a ready task
\* runs; a background task that is cancelled ends, and so does the HTTP client.
\* Nothing makes a connection succeed, drop or stay up.
Spec ==
    /\ Init /\ [][Next]_vars
    /\ WF_vars(SupervisorRuns)
    /\ WF_vars(CloseReturns) /\ WF_vars(CloseCleans)
    /\ \A k \in Connector : WF_vars(ConnectReturns(k))

-----------------------------------------------------------------------------
(* Properties.                                                             *)

\* A deliberate close is forgotten with the epoch it ended: a flag left
\* over would turn the next failure into a redial without back-off that
\* ignores reconnect=False (_bounce, _run).
BounceConsumed == bounce => sse /\ sup \in {"live", "leaving", "done"}

\* reconnect_attempts N means N reconnects: the loop makes no more than one
\* dial and N retries in a row, and gives up no earlier (_should_retry).
RetryBudget ==
    /\ reconnect /\ Attempts > 0 => failures <= Attempts + 1
    /\ ~reconnect => failures <= 1
    /\ state = "error" => sup \in {"done", "none"}
    /\ (sup = "done" /\ state = "error" /\ reconnect) => Attempts > 0 /\ failures >= Attempts

\* Whatever ended the epochs before, and however many, a dial resumes from
\* the last event id any of them saw (_run, resume_cursor).
CursorCarried == sup \in {"dialing", "backoff", "parked"} => cursor = lastId

\* The supervisor ends only for a reason: a close, a refusal, no reconnection
\* wanted, attempts exhausted (or, if unlimited, the back-off's range), a bad
\* factory, or an error of the transport or a pump that is not a SukkoError,
\* which _run lets through (_run, except SukkoError).
StopsForAReason ==
    sup = "done" =>
        \/ ~shouldRun \/ refused \/ ~reconnect \/ crashed \/ raised = "error"
        \/ failures >= IF Attempts = 0 THEN MaxExponent ELSE Attempts

\* The public state is "connected" only over a running supervisor, while
\* close() is in one of its awaits, or for good if an error nobody handles
\* ended the supervisor or close() itself; a close() that comes to its end
\* leaves it at "disconnected" (_run, close).
StateHonest ==
    /\ state = "connected" =>
          \/ sup \in {"resuming", "live", "leaving"}
          \/ closer \in {"waiting", "cleaning", "cutshort"}
          \/ raised = "error"
    /\ closer = "done" => state = "disconnected"

\* connect() is answered, whatever becomes of the supervisor: success,
\* failure, crash or close (_on_supervisor_done).
ConnectAnswered == \A k \in Connector : connector[k] = "waiting" ~> connector[k] # "waiting"

\* close() ends, whatever the supervisor was doing (_run's _running()
\* checks: a cancel absorbed by a failing task group must still stop it).
CloseAnswered == closer = "waiting" ~> closer \in {"done", "cutshort"}

\* A parked supervisor never misses the subscribe that repopulates its set.
ParkWakes == (sup = "parked" /\ desired # {}) ~> (sup # "parked" \/ desired = {})

-----------------------------------------------------------------------------
(* What the code does not keep (README, Deviations).                       *)

\* reconnect_attempts: "0 = unlimited" (constants.py:68): a supervisor that may
\* retry for ever ends only by a close, a refusal or a bad factory.
UnlimitedRetries ==
    sup = "done" /\ Attempts = 0 =>
        ~shouldRun \/ refused \/ ~reconnect \/ crashed \/ raised = "error"

\* "never dial SSE with an empty set" (docs/adr/0005, line 33): only the
\* first connect() may be made with one, and fails.
NeverRedialsEmpty == crashed => ~connectedOnce

\* "SSE subscribe/unsubscribe take effect immediately and losslessly" (docs/
\* adr/0005, line 38): a live stream serves the desired set or is on its way
\* out.
LiveServesDesired == (sse /\ sup = "live" /\ wire = "open") => dialed = desired

\* "Terminal close codes that MUST NOT trigger a tight reconnect loop (auth
\* failed -> stop retrying)" (constants.py): once refused, never dial again.
RefusedIsFinal == [][refused => ~(sup # "dialing" /\ sup' = "dialing")]_vars

\* connect "wait[s] until the first connection succeeds (or fails
\* terminally)" (client.py:237): when it returns normally, it has succeeded.
ConnectMeansConnected ==
    \A k \in Connector : connector[k] = "returned" => connectedOnce

\* close "cancel[s] the supervisor, await[s] it (no orphaned tasks)"
\* (client.py:250): once it has, no supervisor runs.
ClosedStaysClosed ==
    closer \in {"cleaning", "done", "cutshort"} => sup \in {"none", "done"}

\* The same, of a call of close() that found _closed set.
EveryCloseWaits == early => sup \in {"none", "done"}

\* ... "and end[s] messages()" (client.py:250-251): a close() does not end
\* with the state as it was and the queue open.
CloseCompletes == closer # "cutshort"

\* "CancelledError is always re-raised - never swallowed" (docs/engineering-
\* principles.md:81): a cancelled close() does not return normally.
CancelIsRaised == closer = "done" => ~interrupted

\* Connected means connected (client.py, state): over a client that is not
\* being closed there is a supervisor.
ConnectedMeansRunning ==
    state = "connected" =>
        sup \in {"resuming", "live", "leaving"} \/ closer \in {"waiting", "cleaning"}
=============================================================================
