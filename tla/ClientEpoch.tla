---------------------------- MODULE ClientEpoch ----------------------------
(***************************************************************************)
(* One connection epoch after another of src/sukko/client.py, as the       *)
(* recovery engine sees it: the read pump, the recovery timer, the user's  *)
(* calls and the bounded delivery queue, interleaved on one event loop.    *)
(*                                                                         *)
(* A task gives the loop up only where it waits: the pump in recv() and in *)
(* a put to a full queue, the timer in its sleep, both in a send.  Between *)
(* two waits a task is `busy' and no other task moves, so that one dispatch *)
(* of the code is the chain of engine steps it is made of.                 *)
(*                                                                         *)
(* The transport is a pausable one (WebSocket).  The heartbeat task is     *)
(* here only as one more sender that may find the connection dropped; its  *)
(* timing is in Heartbeat.  Time passes while nobody is busy.              *)
(***************************************************************************)
EXTENDS RecoveryEngine, FiniteSetsExt

CONSTANT QMax    \* queue_maxsize

ASSUME QueueAssumption == QMax \in Nat \ {0}

VARIABLES
    wire,       \* the connection of this epoch is still there
    pump,       \* where the read pump is
    holding,    \* what it is putting in the queue
    pumpTodo,   \* the actions it still has to run
    pumpWakes,  \* it will set the wake event after them (a Gap dispatch)
    timer,      \* where the recovery timer is
    until,      \* when its sleep ends
    timerTodo,  \* the actions it still has to run
    wake,       \* _recovery_wake
    qlen,       \* items in the queue
    missed,     \* history: positions of messages received and never queued
    unraised    \* history: interruptions decided on and never raised

pumpVars  == <<pump, holding, pumpTodo, pumpWakes>>
timerVars == <<timer, until, timerTodo>>
lostVars  == <<missed, unraised>>
epochVars == <<vars, wire, pumpVars, timerVars, wake, qlen, lostVars>>

Nothing     == [kind |-> "nothing"]
Item(c, p)  == [kind |-> "message", channel |-> c, at |-> p]
GapAt(c, p) == [kind |-> "gap", channel |-> c, at |-> p]
Marker      == [kind |-> "possible_gap"]

Held ==
    {Nothing, Marker} \cup {Item(c, p) : c \in Channel, p \in Pos}
                      \cup {GapAt(c, p) : c \in Channel, p \in Pos}

EpochTypeOK ==
    /\ TypeOK
    /\ wire \in BOOLEAN /\ wake \in BOOLEAN /\ pumpWakes \in BOOLEAN
    /\ pump \in {"resume", "recv", "offer", "put", "gap", "act", "send", "gone"}
    /\ timer \in {"check", "sleep", "act", "send", "gone"}
    /\ holding \in Held /\ (holding # Nothing <=> pump \in {"offer", "put", "gap"})
    /\ pumpTodo \subseteq Action /\ timerTodo \subseteq Action
    /\ until \in Time \cup {None}
    /\ qlen \in 0 .. QMax
    /\ missed \subseteq Channel \X Pos
    /\ unraised \subseteq Action

EpochInit ==
    /\ Init
    /\ wire = FALSE /\ wake = FALSE /\ qlen = 0
    /\ pump = "gone" /\ holding = Nothing /\ pumpTodo = {} /\ pumpWakes = FALSE
    /\ timer = "gone" /\ until = None /\ timerTodo = {}
    /\ missed = {} /\ unraised = {}

-----------------------------------------------------------------------------
PumpBusy  == pump \in {"offer", "gap", "act"}
TimerBusy == timer \in {"check", "act"}
LoopFree  == ~PumpBusy /\ ~TimerBusy

Interruptions(todo) == {x \in todo : x.do = "raise"}

(* Wrong variants, each a slip the code could contain.                     *)
PutCancelledNoFinally == UNCHANGED vars               \* no `finally'
WakeNever(wakes) == wake                               \* a Gap wakes nobody
RoomUnchecked == TRUE                                  \* never blocks

\* A put that is cancelled still reports the end of the back-pressure.
PutCancelled == NoteBackpressure(FALSE)

\* The wake event after a dispatch that was to set it, or was not.
WakeAfter(wakes) == wake \/ wakes

\* is_full says no.
Room == qlen < QMax

-----------------------------------------------------------------------------
(* The supervisor: epochs start and end.                                   *)

\* The transport is open: _on_connected starts, and its sends suspend.
EpochStarts ==
    /\ Resume
    /\ wire' = TRUE /\ pump' = "resume"
    /\ UNCHANGED <<holding, pumpTodo, pumpWakes, timerVars, wake, qlen, lostVars>>

\* They succeed, and the tasks start; or they fail, and none does.
ResumeSent ==
    /\ pump = "resume" /\ wire
    /\ pump' = "recv" /\ timer' = "check"
    /\ UNCHANGED <<vars, wire, holding, pumpTodo, pumpWakes, until, timerTodo, wake, qlen, lostVars>>

ResumeFails ==
    /\ pump = "resume" /\ ~wire
    /\ pump' = "gone"
    /\ UNCHANGED <<vars, wire, holding, pumpTodo, pumpWakes, timerVars, wake, qlen, lostVars>>

\* The peer or the network ends the connection.
WireDrops ==
    /\ wire /\ LoopFree
    /\ wire' = FALSE
    /\ UNCHANGED <<vars, pumpVars, timerVars, wake, qlen, lostVars>>

\* A task has raised a SukkoError: the TaskGroup cancels the others where
\* they wait.  What they held, and what they still had to do, is gone.
GroupFails ==
    /\ pump' = "gone" /\ holding' = Nothing /\ pumpTodo' = {} /\ pumpWakes' = FALSE
    /\ timer' = "gone" /\ until' = None /\ timerTodo' = {}
    /\ IF paused THEN PutCancelled ELSE UNCHANGED vars
    /\ missed' = IF holding.kind = "message"
                 THEN missed \cup {<<holding.channel, holding.at>>} ELSE missed
    /\ unraised' = unraised \cup Interruptions(pumpTodo \cup timerTodo)
    /\ UNCHANGED <<wire, wake, qlen>>

RecvFails == pump = "recv" /\ ~wire /\ LoopFree /\ GroupFails

HeartbeatSendFails == timer # "gone" /\ ~wire /\ LoopFree /\ GroupFails

\* _on_disconnected, once every task is gone.
EpochEnds ==
    /\ pump = "gone"
    /\ HandleDisconnect
    /\ wake' = TRUE
    /\ UNCHANGED <<wire, pumpVars, timerVars, qlen, lostVars>>

-----------------------------------------------------------------------------
(* The read pump.                                                          *)

\* It has something to enqueue, or actions to run, before it receives again.
Offering(item) == pump' = "offer" /\ holding' = item /\ UNCHANGED <<pumpTodo, pumpWakes>>

Acting(wakes) ==
    /\ pump' = "act" /\ holding' = Nothing
    /\ pumpTodo' = out' /\ pumpWakes' = wakes

Receiving == pump = "recv" /\ wire /\ LoopFree

\* A live, replayed or history message: its position is noted, then it is
\* offered to the queue.
PumpMessage(c, p) ==
    /\ Receiving /\ ~direct
    /\ NotePos(c, p) \/ NoteReplayMessage(c, p) \/ NoteHistoryMessage(c, p)
    /\ Offering(Item(c, p))
    /\ UNCHANGED <<wire, timerVars, wake, qlen, lostVars>>

\* A Gap is surfaced to the consumer before the engine hears of it.
PumpGap(c, p) ==
    /\ Receiving /\ ~direct
    /\ Offering(GapAt(c, p))
    /\ UNCHANGED <<vars, wire, timerVars, wake, qlen, lostVars>>

PumpHandlesGap ==
    /\ pump = "gap"
    /\ HandleGap(holding.channel, holding.at)
    /\ Acting(TRUE)
    /\ UNCHANGED <<wire, timerVars, wake, qlen, lostVars>>

PumpReplayComplete(c) ==
    /\ Receiving /\ ~direct
    /\ HandleReplayComplete(c)
    /\ Acting(FALSE)
    /\ UNCHANGED <<wire, timerVars, wake, qlen, lostVars>>

PumpReplayError(c) ==
    /\ Receiving /\ ~direct
    /\ HandleRecoveryFailure(c)
    /\ Acting(FALSE)
    /\ UNCHANGED <<wire, timerVars, wake, qlen, lostVars>>

PumpNotAvailable ==
    /\ Receiving /\ ~direct
    /\ \E chans \in SUBSET Channel : HandleNotAvailable(chans)
    /\ Acting(FALSE)
    /\ UNCHANGED <<wire, timerVars, wake, qlen, lostVars>>

PumpHistoryEnd(c) ==
    /\ Receiving
    /\ HandleHistoryComplete(c)
    /\ UNCHANGED <<wire, pumpVars, timerVars, wake, qlen, lostVars>>

\* Where the pump goes with its item queued: a Gap goes on to the engine.
Queued ==
    /\ pump' = IF holding.kind = "gap" THEN "gap"
               ELSE IF holding = Marker THEN "act" ELSE "recv"
    /\ holding' = IF holding.kind = "gap" THEN holding ELSE Nothing
    /\ UNCHANGED <<pumpTodo, pumpWakes>>

\* _put_delivery: at once if there is room, else the pump blocks.
PutAtOnce ==
    /\ pump = "offer" /\ Room
    /\ qlen' = qlen + 1
    /\ Queued
    /\ UNCHANGED <<vars, wire, timerVars, wake, lostVars>>

PutBlocks ==
    /\ pump = "offer" /\ ~Room /\ episodes < MaxEpisodes
    /\ NoteBackpressure(TRUE)
    /\ pump' = "put"
    /\ UNCHANGED <<wire, holding, pumpTodo, pumpWakes, timerVars, wake, qlen, lostVars>>

PutReturns ==
    /\ pump = "put" /\ LoopFree /\ Room
    /\ NoteBackpressure(FALSE)
    /\ qlen' = qlen + 1
    /\ Queued
    /\ UNCHANGED <<wire, timerVars, wake, lostVars>>

\* _run_actions on the pump: one action of the list.
PumpActs ==
    /\ pump = "act"
    /\ \E x \in pumpTodo :
          /\ pumpTodo' = pumpTodo \ {x}
          /\ \/ x.do = "raise" /\ UNCHANGED <<pump, holding>>
             \/ x.do = "possible_gap" /\ pump' = "offer" /\ holding' = Marker
             \/ x.do = "replay" /\ wire /\ pump' = "send" /\ UNCHANGED holding
    /\ UNCHANGED <<vars, wire, pumpWakes, timerVars, wake, qlen, lostVars>>

PumpActsDone ==
    /\ pump = "act" /\ pumpTodo = {}
    /\ pump' = "recv" /\ pumpWakes' = FALSE
    /\ wake' = WakeAfter(pumpWakes)
    /\ UNCHANGED <<vars, wire, holding, pumpTodo, timerVars, qlen, lostVars>>

PumpSendFails ==
    /\ ~wire
    /\ \/ pump = "act" /\ \E x \in pumpTodo : x.do = "replay"
       \/ pump = "send" /\ LoopFree
    /\ GroupFails

PumpSent ==
    /\ pump = "send" /\ LoopFree /\ wire
    /\ pump' = "act"
    /\ UNCHANGED <<vars, wire, holding, pumpTodo, pumpWakes, timerVars, wake, qlen, lostVars>>

Pump ==
    \/ \E c \in Channel : \/ \E p \in Pos : PumpMessage(c, p) \/ PumpGap(c, p)
                          \/ PumpReplayComplete(c)
                          \/ PumpReplayError(c)
                          \/ PumpHistoryEnd(c)
    \/ PumpHandlesGap \/ PumpNotAvailable
    \/ PutAtOnce \/ PutBlocks \/ PutReturns
    \/ PumpActs \/ PumpActsDone \/ PumpSendFails \/ PumpSent

-----------------------------------------------------------------------------
(* The recovery timer.                                                     *)

\* next_deadline() is in the future, or None: clear the event and sleep.
TimerSleeps ==
    /\ timer = "check" /\ ~WakeReached
    /\ timer' = "sleep" /\ wake' = FALSE
    /\ until' = IF Wakes = {} THEN None ELSE Min(Wakes)
    /\ UNCHANGED <<vars, wire, pumpVars, timerTodo, qlen, lostVars>>

TimerWakes ==
    /\ timer = "sleep" /\ LoopFree
    /\ wake \/ (until # None /\ until <= now)
    /\ timer' = "check" /\ until' = None
    /\ UNCHANGED <<vars, wire, pumpVars, timerTodo, wake, qlen, lostVars>>

TimerDue ==
    /\ timer = "check" /\ TimerFires
    /\ timer' = "act" /\ timerTodo' = out'
    /\ UNCHANGED <<wire, pumpVars, until, wake, qlen, lostVars>>

TimerActs ==
    /\ timer = "act"
    /\ \E x \in timerTodo :
          /\ timerTodo' = timerTodo \ {x}
          /\ \/ x.do = "raise" /\ UNCHANGED timer
             \/ x.do = "replay" /\ wire /\ timer' = "send"
    /\ UNCHANGED <<vars, wire, pumpVars, until, wake, qlen, lostVars>>

TimerActsDone ==
    /\ timer = "act" /\ timerTodo = {}
    /\ timer' = "check"
    /\ UNCHANGED <<vars, wire, pumpVars, until, timerTodo, wake, qlen, lostVars>>

TimerSendFails ==
    /\ ~wire
    /\ \/ timer = "act" /\ \E x \in timerTodo : x.do = "replay"
       \/ timer = "send" /\ LoopFree
    /\ GroupFails

TimerSent ==
    /\ timer = "send" /\ LoopFree /\ wire
    /\ timer' = "act"
    /\ UNCHANGED <<vars, wire, pumpVars, until, timerTodo, wake, qlen, lostVars>>

TimerTask ==
    \/ TimerSleeps \/ TimerWakes \/ TimerDue
    \/ TimerActs \/ TimerActsDone \/ TimerSendFails \/ TimerSent

-----------------------------------------------------------------------------
(* The user and the clock.                                                 *)

\* messages() takes an item.
Consume ==
    /\ qlen > 0 /\ LoopFree
    /\ qlen' = qlen - 1
    /\ UNCHANGED <<vars, wire, pumpVars, timerVars, wake, lostVars>>

\* history(): the deadline is armed and the timer woken before the send, and
\* stay so if the send raises to the caller.
History(c) ==
    /\ connected /\ pump # "gone" /\ LoopFree
    /\ NoteHistoryRequest(c)
    /\ wake' = TRUE
    /\ UNCHANGED <<wire, pumpVars, timerVars, qlen, lostVars>>

\* recv() and the resume sends raise the moment the connection is gone.
ClockTicks ==
    /\ LoopFree /\ Tick
    /\ ~wire => pump \notin {"recv", "resume"}
    /\ UNCHANGED <<wire, pumpVars, timerVars, wake, qlen, lostVars>>

EpochNext ==
    \/ EpochStarts \/ ResumeSent \/ ResumeFails
    \/ WireDrops \/ RecvFails \/ HeartbeatSendFails \/ EpochEnds
    \/ Pump
    \/ TimerTask
    \/ Consume
    \/ \E c \in Channel : History(c)
    \/ ClockTicks

EpochSpec == EpochInit /\ [][EpochNext]_epochVars

-----------------------------------------------------------------------------
(* Properties.                                                             *)

\* The engine believes the consumer is stalled exactly while the pump is
\* blocked in a put (client.py, _put_delivery: the flag is not refcounted),
\* also when the put ends by cancellation because another task failed.
PausedIffBlocked == paused <=> pump = "put"

\* The recovery timer never sleeps without a deadline while something is
\* armed: whoever arms a first timer sets the wake event
\* (client.py, _dispatch, history, _recovery_timer).
NeverSleepsThroughAll ==
    timer = "sleep" /\ until = None /\ ~wake /\ ~PumpBusy /\ pump # "send" => Wakes = {}

-----------------------------------------------------------------------------
(* What the code does not keep (README, Deviations).                       *)

\* next_deadline is the "earliest absolute time due needs to run"
\* (recovery.py:258): a sleeping timer never sleeps past it.
TimerOnTime ==
    timer = "sleep" /\ ~wake /\ LoopFree /\ pump # "send" =>
        \A t \in Wakes : until # None /\ until <= t

\* "at-least-once within the replay window" (README.md:87): the position the
\* client will resume after is never that of a message it did not queue.
NotedIsDelivered == \A c \in Channel : <<c, pos[c]>> \notin missed

\* "A truncated recovery raises RecoveryInterruptedError, never a bare
\* disconnect" (docs/engineering-principles.md:51): every interruption the
\* engine decides on is raised.
InterruptionsAreRaised == unraised = {}
=============================================================================
