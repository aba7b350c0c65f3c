----------------------------- MODULE Heartbeat -----------------------------
(***************************************************************************)
(* The liveness check of one WebSocket connection: the heartbeat task and  *)
(* the read pump of src/sukko/client.py, and the buffer between the socket *)
(* and the pump (websocket.py opens it unbounded, max_queue=None).         *)
(*                                                                         *)
(* Time is discrete.  What is due now happens before the clock moves, in   *)
(* any order: a frame the pump could read, a timer that has expired, the   *)
(* pong of a server that is alive.  A send may take any time: it waits for *)
(* the write buffer to drain, which a slow or dead path may never let it.  *)
(* The server is external: alive, it answers every heartbeat within        *)
(* Latency of the send's return and may send data at any moment.           *)
(***************************************************************************)
EXTENDS Integers

CONSTANTS
    Interval,   \* heartbeat_interval: time between a check and the next send
    Timeout,    \* heartbeat_timeout: how long the pong may take
    Latency,    \* how long it takes when the server is alive
    Stalls,     \* can the queue be full, and the pump blocked in a put?
    MaxTime,    \* bound on the clock
    MaxUnread   \* bound on the count of frames buffered under the pump

ASSUME IntervalAssumption == Interval \in Nat /\ Timeout \in Nat \ {0}
ASSUME LatencyAssumption  == Latency \in Nat /\ Latency < Timeout
ASSUME StallsAssumption   == Stalls \in BOOLEAN
ASSUME HeartbeatBounds    == MaxTime \in Nat /\ MaxUnread \in Nat \ {0}

VARIABLES
    now,        \* the monotonic clock
    task,       \* the heartbeat task: not started before the resume sends are
                \* through, asleep, in its send, or returned
    wakeAt,     \* when its sleep ends
    sentAt,     \* sent_at
    lastFrame,  \* _last_frame_at
    waited,     \* history: how long sends have waited since that frame
    blocked,    \* the pump is blocked in a put
    closed,     \* the transport has been closed with HEARTBEAT_TIMEOUT
    ended,      \* the pump has seen the close: the epoch is over
    alive,      \* the server is
    pongDue,    \* the times by which it will have answered the heartbeats
    unread      \* frames received by the socket and not yet by the pump

client == <<task, wakeAt, sentAt, lastFrame, waited, blocked, closed, ended>>
server == <<alive, pongDue, unread>>
vars   == <<now, client, server>>

TypeOK ==
    /\ now \in Nat
    /\ task \in {"resuming", "interval", "sending", "pong", "returned"}
    /\ wakeAt \in Nat /\ sentAt \in Nat /\ lastFrame \in Nat /\ waited \in Nat
    /\ blocked \in BOOLEAN /\ closed \in BOOLEAN /\ ended \in BOOLEAN
    /\ alive \in BOOLEAN
    /\ pongDue \subseteq Nat
    /\ unread \in 0 .. MaxUnread

\* The connection has just been opened: _last_frame_at is set, and the
\* resume sends of _on_connected come before the tasks.
Init ==
    /\ now = 0
    /\ task = "resuming" /\ wakeAt = 0
    /\ sentAt = 0 /\ lastFrame = 0 /\ waited = 0
    /\ blocked = FALSE /\ closed = FALSE /\ ended = FALSE
    /\ alive = TRUE /\ pongDue = {} /\ unread = 0

-----------------------------------------------------------------------------
(* Wrong variants, each a slip the code could contain.                     *)
NothingSinceInclusive(frame, sent) == frame <= sent   \* the same instant
NothingForACycle(frame, sent) == frame < sent - Interval - Timeout

\* No frame has been received since the heartbeat was sent.
NothingSince(frame, sent) == frame < sent

\* The time the pump records for a frame it has just received.
Stamp == now

\* The buffer grows by a frame; beyond MaxUnread the count stands still.
Buffered == IF unread < MaxUnread THEN unread + 1 ELSE unread

\* The resume sends are through: the pump and the heartbeat task start.
StartTasks ==
    /\ task = "resuming" /\ ~ended
    /\ task' = "interval" /\ wakeAt' = now + Interval
    /\ blocked' \in IF Stalls THEN BOOLEAN ELSE {FALSE}
    /\ UNCHANGED <<now, sentAt, lastFrame, waited, closed, ended, server>>

\* The interval is over: stamp the time, then send.
SendHeartbeat ==
    /\ task = "interval" /\ wakeAt <= now /\ ~ended
    /\ sentAt' = now
    /\ task' = "sending"
    /\ UNCHANGED <<now, wakeAt, lastFrame, waited, blocked, closed, ended, server>>

\* The send returns, at once or when the buffer has drained: wait for the pong.
HeartbeatOut ==
    /\ task = "sending" /\ ~ended
    /\ task' = "pong" /\ wakeAt' = now + Timeout
    /\ pongDue' = IF alive THEN pongDue \cup {now + Latency} ELSE pongDue
    /\ UNCHANGED <<now, sentAt, lastFrame, waited, blocked, closed, ended, alive, unread>>

\* The wait is over, and some frame has been received since the heartbeat.
KeepConnection ==
    /\ task = "pong" /\ wakeAt <= now /\ ~ended
    /\ ~NothingSince(lastFrame, sentAt)
    /\ task' = "interval" /\ wakeAt' = now + Interval
    /\ UNCHANGED <<now, sentAt, lastFrame, waited, blocked, closed, ended, server>>

\* None has: close the transport, which throws its buffer away.
CloseConnection ==
    /\ task = "pong" /\ wakeAt <= now /\ ~ended
    /\ NothingSince(lastFrame, sentAt)
    /\ closed' = TRUE /\ task' = "returned"
    /\ UNCHANGED <<now, wakeAt, sentAt, lastFrame, waited, blocked, ended, server>>

\* The pump receives a frame.  Its put may find the queue full.
Receive ==
    /\ unread > 0 /\ task # "resuming" /\ ~blocked /\ ~closed
    /\ unread' = unread - 1
    /\ lastFrame' = Stamp /\ waited' = 0
    /\ blocked' \in IF Stalls THEN BOOLEAN ELSE {FALSE}
    /\ UNCHANGED <<now, task, wakeAt, sentAt, closed, ended, alive, pongDue>>

\* The consumer takes an item from the full queue.
Consume ==
    /\ blocked
    /\ blocked' = FALSE
    /\ UNCHANGED <<now, task, wakeAt, sentAt, lastFrame, waited, closed, ended, server>>

\* recv() raises on the closed transport, once the pump is back in it.
EndEpoch ==
    /\ closed /\ ~blocked /\ ~ended
    /\ ended' = TRUE
    /\ UNCHANGED <<now, task, wakeAt, sentAt, lastFrame, waited, blocked, closed, server>>

-----------------------------------------------------------------------------
(* The server and the clock.                                               *)

Data ==
    /\ alive /\ ~closed
    /\ unread' = Buffered
    /\ UNCHANGED <<now, client, alive, pongDue>>

Pong ==
    /\ alive /\ ~closed
    /\ \E t \in pongDue : pongDue' = pongDue \ {t}
    /\ unread' = Buffered
    /\ UNCHANGED <<now, client, alive>>

\* The server, or the path to it, falls silent without closing.
FallSilent ==
    /\ alive /\ ~closed
    /\ alive' = FALSE /\ pongDue' = {}
    /\ UNCHANGED <<now, client, unread>>

InSend == task \in {"resuming", "sending"}
TaskDue == task \in {"interval", "pong"} /\ wakeAt <= now
PumpCanRun == task # "resuming" /\ ~blocked /\ (unread > 0 \/ closed)
PongLate == \E t \in pongDue : t <= now

Tick ==
    /\ now < MaxTime /\ ~ended
    /\ ~TaskDue /\ ~PumpCanRun /\ ~PongLate
    /\ now' = now + 1
    /\ waited' = IF InSend THEN waited + 1 ELSE waited
    /\ UNCHANGED <<task, wakeAt, sentAt, lastFrame, blocked, closed, ended, server>>

Next ==
    \/ StartTasks \/ SendHeartbeat \/ HeartbeatOut \/ KeepConnection \/ CloseConnection
    \/ Receive \/ Consume \/ EndEpoch
    \/ Data \/ Pong \/ FallSilent
    \/ Tick

Spec == Init /\ [][Next]_vars

-----------------------------------------------------------------------------
(* Properties.                                                             *)

\* The heartbeat closes a connection only if the server is silent, or frames
\* it has sent are still unread under a pump that could not take them
\* (client.py, _heartbeat): an answered heartbeat never closes a connection
\* whose pump is free, however the reads and the two sleeps interleave.
ClosesWithReason == [][closed' # closed => ~alive \/ unread > 0]_vars

\* A dead connection is noticed: no connection stays open longer than an
\* interval and two timeouts after the last frame the pump received
\* (constants.py: heartbeat_interval between sends, heartbeat_timeout for the
\* pong), whether or not the consumer stalls.  The time the client's own
\* sends have waited for the buffer to drain since that frame does not count:
\* no timeout runs there (client.py, _heartbeat; websocket.py, send).
SilenceIsNoticed == ~closed => now <= lastFrame + Interval + 2 * Timeout + waited

-----------------------------------------------------------------------------
(* What the code does not keep (README, Deviations).                       *)

\* "a slow consumer is not mistaken for server silence" (client.py:678), and
\* "any received message (not only pong) clears the pong timer"
\* (messages.py:141): a server that answers every heartbeat is never closed on.
AliveIsKept == closed => ~alive

\* HEARTBEAT_TIMEOUT is the "pong wait before local close" (constants.py:72):
\* the same bound for a heartbeat whose send is held up, counted from sent_at.
SilenceBounded == ~closed => now <= lastFrame + Interval + 2 * Timeout
=============================================================================
