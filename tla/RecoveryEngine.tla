--------------------------- MODULE RecoveryEngine ---------------------------
(***************************************************************************)
(* The per-channel recovery state machine of src/sukko/recovery.py.        *)
(*                                                                         *)
(* The engine performs no I/O: each method is one action here, and the     *)
(* list of Actions the method returns is the new value of `out'.  The      *)
(* order of that list is the insertion order of a dict, which depends on   *)
(* the whole history of the channels, so `out' is a set and whoever        *)
(* executes it may take any order.                                         *)
(*                                                                         *)
(* The injected clock is the variable `now'; time passes only in Tick.     *)
(* The methods that handle a server frame run on the read pump, hence only *)
(* on a live connection and never while the pump is blocked in a put       *)
(* (client.py, _put_delivery); `connected' and `paused' carry that.        *)
(* A channel the engine holds no record of behaves as one with a Fresh     *)
(* record, so the dict _channels is a total function.                      *)
(***************************************************************************)
EXTENDS Integers

CONSTANTS
    Channel,      \* channel names
    Pos,          \* positions: opaque, the engine never compares two of them
    None,         \* Python's None
    Floor,        \* replay_floor: least time between two replays of a channel
    Deadline,     \* recovery_deadline: how long the server may be silent
    MaxTime,      \* bound on the clock
    MaxEpisodes   \* bound on the number of back-pressure episodes

ASSUME FloorAssumption    == Floor \in Nat
ASSUME DeadlineAssumption == Deadline \in Nat \ {0}
ASSUME NoneAssumption     == None \notin Nat /\ None \notin Pos
ASSUME BoundAssumption    == MaxTime \in Nat /\ MaxEpisodes \in Nat

VARIABLES
    now,            \* the monotonic clock
    connected,      \* an epoch is live: its pumps call the engine
    rec,            \* _channels
    pos,            \* _pos
    direct,         \* _direct
    connectedOnce,  \* _connected_once
    history,        \* _history_deadline
    paused,         \* _paused
    episodes,       \* _pause_episodes
    out             \* the actions the last call returned

stall == <<paused, episodes>>
mode  == <<direct, connectedOnce>>
vars  == <<now, connected, rec, pos, mode, history, stall, out>>

-----------------------------------------------------------------------------
Time  == Nat
Phase == {"idle", "floor_wait", "replaying"}

ChannelRecord ==
    [phase      : Phase,
     anchor     : Pos \cup {None},   \* where the pending replay will start
     followup   : Pos \cup {None},   \* first gap seen while replaying
     lastReplay : Time \cup {None},  \* None stands for -inf
     floorWake  : Time \cup {None},
     deadline   : Time \cup {None},
     arm        : Nat]               \* `episodes' when deadline was armed

Fresh ==
    [phase |-> "idle", anchor |-> None, followup |-> None,
     lastReplay |-> None, floorWake |-> None, deadline |-> None, arm |-> 0]

SendReplay(c, p)   == [do |-> "replay", channel |-> c, from |-> p]
SendReconnect(lp)  == [do |-> "reconnect", last_pos |-> lp]
EmitPossibleGap(c) == [do |-> "possible_gap", channel |-> c]
Interrupted(c, of) == [do |-> "raise", channel |-> c, of |-> of]

Action ==
    {SendReplay(c, p) : c \in Channel, p \in Pos}
        \cup {SendReconnect(lp) : lp \in [Channel -> Pos \cup {None}]}
        \cup {EmitPossibleGap(c) : c \in Channel}
        \cup {Interrupted(c, of) : c \in Channel, of \in {"replay", "history"}}

TypeOK ==
    /\ now \in Time
    /\ connected \in BOOLEAN
    /\ rec \in [Channel -> ChannelRecord]
    /\ pos \in [Channel -> Pos \cup {None}]
    /\ direct \in BOOLEAN
    /\ connectedOnce \in BOOLEAN
    /\ history \in [Channel -> [deadline : Time, arm : Nat] \cup {None}]
    /\ paused \in BOOLEAN
    /\ episodes \in Nat
    /\ out \subseteq Action

Init ==
    /\ now = 0
    /\ connected = FALSE
    /\ rec = [c \in Channel |-> Fresh]
    /\ pos = [c \in Channel |-> None]
    /\ direct = FALSE
    /\ connectedOnce = FALSE
    /\ history = [c \in Channel |-> None]
    /\ paused = FALSE
    /\ episodes = 0
    /\ out = {}

-----------------------------------------------------------------------------
(* Helpers.                                                                *)

\* A frame is being dispatched: the connection is up, the pump not blocked.
Dispatching == connected /\ ~paused

FloorOpen(r) == r.lastReplay # None => now >= r.lastReplay + Floor

(* Wrong variants of the helpers, each a slip the code could contain; they *)
(* show that the properties below can fail.                                *)
BeginReplayUnstamped(r) ==      \* forgets to record when it replayed
    [r EXCEPT !.phase = "replaying", !.anchor = None,
              !.floorWake = None, !.deadline = now + Deadline, !.arm = episodes]
FollowUpLatest(r, p) == [r EXCEPT !.followup = p]      \* keeps the last gap
FollowUpNever(r, p) == r                               \* coalesces mid-replay
ResetKeepingFollowup(r) == [r EXCEPT !.phase = "idle", !.deadline = None]
RearmInPast(r) == [r EXCEPT !.arm = episodes]          \* deadline not moved
SuspendsWhilePaused(arm) == paused                     \* samples one instant
AnchorAfterBegin(c) == SendReplay(c, rec'[c].anchor)   \* read once cleared
ProbesWithPosition == ~direct /\ \E c \in Channel : pos[c] # None  \* no probe

\* _begin_replay on a record.
BeginReplay(r) ==
    [r EXCEPT !.phase = "replaying", !.anchor = None, !.lastReplay = now,
              !.floorWake = None, !.deadline = now + Deadline, !.arm = episodes]

\* The channel waits for its floor to open before it replays from p.
AwaitFloor(r, p) ==
    [r EXCEPT !.phase = "floor_wait", !.anchor = p,
              !.floorWake = r.lastReplay + Floor]

\* Only the first gap seen while replaying is kept.
FollowUp(r, p) == IF r.followup = None THEN [r EXCEPT !.followup = p] ELSE r

\* Back to idle; anchor, floorWake and lastReplay stay as they are.
Reset(r) == [r EXCEPT !.phase = "idle", !.deadline = None, !.followup = None]

Rearm(r) == [r EXCEPT !.deadline = now + Deadline, !.arm = episodes]

ArmedHistory == [deadline |-> now + Deadline, arm |-> episodes]

\* _backpressure_suspends
BackpressureSuspends(arm) == paused \/ episodes # arm

-----------------------------------------------------------------------------
(* Position tracking.                                                      *)

\* A live or replayed message of channel c carried position p.
NotePos(c, p) ==
    /\ pos' = [pos EXCEPT ![c] = p]
    /\ out' = {}
    /\ UNCHANGED <<now, connected, rec, mode, history, stall>>

(* Live gap -> replay.                                                     *)

HandleGap(c, p) ==
    /\ LET r == rec[c] IN
       \/ /\ r.phase = "idle" /\ FloorOpen(r)
          /\ rec' = [rec EXCEPT ![c] = BeginReplay(r)]
          /\ out' = {SendReplay(c, p)}
       \/ /\ r.phase = "idle" /\ ~FloorOpen(r)
          /\ rec' = [rec EXCEPT ![c] = AwaitFloor(r, p)]
          /\ out' = {}
       \/ /\ r.phase = "floor_wait"      \* coalesced into the pending replay
          /\ rec' = rec
          /\ out' = {}
       \/ /\ r.phase = "replaying"
          /\ rec' = [rec EXCEPT ![c] = FollowUp(r, p)]
          /\ out' = {}
    /\ UNCHANGED <<now, connected, pos, mode, history, stall>>

HandleReplayComplete(c) ==
    /\ LET r == [rec[c] EXCEPT !.deadline = None]
           f == r.followup
           s == [r EXCEPT !.followup = None]
       IN
       \/ /\ r.phase # "replaying"
          /\ rec' = [rec EXCEPT ![c] = r]
          /\ out' = {}
       \/ /\ r.phase = "replaying" /\ f = None
          /\ rec' = [rec EXCEPT ![c] = [s EXCEPT !.phase = "idle"]]
          /\ out' = {}
       \/ /\ r.phase = "replaying" /\ f # None /\ FloorOpen(r)
          /\ rec' = [rec EXCEPT ![c] = BeginReplay(s)]
          /\ out' = {SendReplay(c, f)}
       \/ /\ r.phase = "replaying" /\ f # None /\ ~FloorOpen(r)
          /\ rec' = [rec EXCEPT ![c] = AwaitFloor(s, f)]
          /\ out' = {}
    /\ UNCHANGED <<now, connected, pos, mode, history, stall>>

\* A replayed message at position p: note_pos, then note_replay_message.
NoteReplayMessage(c, p) ==
    /\ pos' = [pos EXCEPT ![c] = p]
    /\ rec' = IF rec[c].phase = "replaying"
              THEN [rec EXCEPT ![c] = Rearm(rec[c])] ELSE rec
    /\ out' = {}
    /\ UNCHANGED <<now, connected, mode, history, stall>>

\* note_backpressure(b)
NoteBackpressure(b) ==
    /\ episodes' = IF b /\ ~paused THEN episodes + 1 ELSE episodes
    /\ paused' = b
    /\ out' = {}
    /\ UNCHANGED <<now, connected, rec, pos, mode, history>>

-----------------------------------------------------------------------------
(* Clock-driven timers.                                                    *)

FloorElapsed(c) ==
    /\ rec[c].phase = "floor_wait"
    /\ rec[c].floorWake # None /\ now >= rec[c].floorWake
    /\ rec[c].anchor # None

ReplayLate(c) ==
    /\ rec[c].phase = "replaying"
    /\ rec[c].deadline # None /\ now >= rec[c].deadline

\* The replay the timer starts for c.
ReplayFromAnchor(c) == SendReplay(c, rec[c].anchor)

HistoryLate(c) == history[c] # None /\ now >= history[c].deadline

Due ==
    /\ rec' = [c \in Channel |->
          IF FloorElapsed(c) THEN BeginReplay(rec[c])
          ELSE IF ~ReplayLate(c) THEN rec[c]
          ELSE IF BackpressureSuspends(rec[c].arm) THEN Rearm(rec[c])
          ELSE Reset(rec[c])]
    /\ history' = [c \in Channel |->
          IF ~HistoryLate(c) THEN history[c]
          ELSE IF BackpressureSuspends(history[c].arm) THEN ArmedHistory
          ELSE None]
    /\ out' =
          {ReplayFromAnchor(c) : c \in {d \in Channel : FloorElapsed(d)}}
          \cup {Interrupted(c, "replay") : c \in {d \in Channel :
                    ReplayLate(d) /\ ~BackpressureSuspends(rec[d].arm)}}
          \cup {Interrupted(c, "history") : c \in {d \in Channel :
                    HistoryLate(d) /\ ~BackpressureSuspends(history[d].arm)}}
    /\ UNCHANGED <<now, connected, pos, mode, stall>>

\* The absolute times next_deadline takes the minimum of.
Wakes ==
    {rec[c].floorWake : c \in {d \in Channel :
        rec[d].phase = "floor_wait" /\ rec[d].floorWake # None}}
    \cup {rec[c].deadline : c \in {d \in Channel : rec[d].deadline # None}}
    \cup {history[c].deadline : c \in {d \in Channel : history[d] # None}}

\* The recovery timer finds next_deadline() <= now.
WakeReached == \E t \in Wakes : t <= now

-----------------------------------------------------------------------------
(* History requests.                                                       *)

NoteHistoryRequest(c) ==
    /\ history' = [history EXCEPT ![c] = ArmedHistory]
    /\ out' = {}
    /\ UNCHANGED <<now, connected, rec, pos, mode, stall>>

\* A history message at position p: note_pos, then note_history_message.
NoteHistoryMessage(c, p) ==
    /\ pos' = [pos EXCEPT ![c] = p]
    /\ history' = IF history[c] = None THEN history
                  ELSE [history EXCEPT ![c] = ArmedHistory]
    /\ out' = {}
    /\ UNCHANGED <<now, connected, rec, mode, stall>>

\* history_complete and history_error both end the request.
HandleHistoryComplete(c) ==
    /\ history' = [history EXCEPT ![c] = None]
    /\ out' = {}
    /\ UNCHANGED <<now, connected, rec, pos, mode, stall>>

-----------------------------------------------------------------------------
(* Reconnect and failure.                                                  *)

\* build_reconnect has something to resume or, from the second connection on,
\* probes with no position at all: a Direct backend answers not_available.
Probes == ~direct /\ ((\E c \in Channel : pos[c] # None) \/ connectedOnce)

\* build_reconnect followed at once by mark_connected: a new epoch starts.
Resume ==
    /\ ~connected
    /\ connected' = TRUE
    /\ connectedOnce' = TRUE
    /\ out' = IF Probes THEN {SendReconnect(pos)} ELSE {}
    /\ UNCHANGED <<now, rec, pos, direct, history, stall>>

\* The backend is Direct; chans are the channels to resume.
HandleNotAvailable(chans) ==
    /\ direct' = TRUE
    /\ pos' = [c \in Channel |-> None]
    /\ rec' = [c \in Channel |-> Fresh]
    /\ out' = {EmitPossibleGap(c) : c \in chans}
    /\ UNCHANGED <<now, connected, connectedOnce, history, stall>>

HandleRecoveryFailure(c) ==
    /\ rec' = [rec EXCEPT ![c] = Reset(rec[c])]
    /\ out' = {Interrupted(c, "replay")}
    /\ UNCHANGED <<now, connected, pos, mode, history, stall>>

\* The epoch is over.  The put the pump was blocked in has been cancelled,
\* and its `finally' has reported the end of the back-pressure.
HandleDisconnect ==
    /\ connected /\ ~paused
    /\ connected' = FALSE
    /\ rec' = [c \in Channel |-> Fresh]
    /\ history' = [c \in Channel |-> None]
    /\ out' =
          {Interrupted(c, "replay") : c \in {d \in Channel :
              rec[d].phase \in {"floor_wait", "replaying"}}}
          \cup {Interrupted(c, "history") : c \in {d \in Channel : history[d] # None}}
    /\ UNCHANGED <<now, pos, mode, stall>>

Tick ==
    /\ now < MaxTime
    /\ now' = now + 1
    /\ out' = {}
    /\ UNCHANGED <<connected, rec, pos, mode, history, stall>>

-----------------------------------------------------------------------------
(* Every call a live client can make, in any order.  A server that has     *)
(* declared itself Direct sends no positions, gaps or replays.             *)

DispatchKafkaFrame ==
    /\ Dispatching /\ ~direct
    /\ \E c \in Channel :
          \/ \E p \in Pos : \/ NotePos(c, p)
                            \/ HandleGap(c, p)
                            \/ NoteReplayMessage(c, p)
                            \/ NoteHistoryMessage(c, p)
          \/ HandleReplayComplete(c)
          \/ HandleRecoveryFailure(c)

DispatchHistoryEnd == Dispatching /\ \E c \in Channel : HandleHistoryComplete(c)

ServerIsDirect ==
    Dispatching /\ ~direct /\ \E chans \in SUBSET Channel : HandleNotAvailable(chans)

RequestHistory == connected /\ \E c \in Channel : NoteHistoryRequest(c)

Backpressure ==
    \/ Dispatching /\ episodes < MaxEpisodes /\ NoteBackpressure(TRUE)
    \/ paused /\ NoteBackpressure(FALSE)

TimerFires == connected /\ WakeReached /\ Due

Next ==
    \/ DispatchKafkaFrame
    \/ DispatchHistoryEnd
    \/ ServerIsDirect
    \/ RequestHistory
    \/ Backpressure
    \/ TimerFires
    \/ Resume
    \/ HandleDisconnect
    \/ Tick

Spec == Init /\ [][Next]_vars

-----------------------------------------------------------------------------
(* Properties.                                                             *)

\* What each phase says about the other fields of a record: the timer that
\* ends the phase is armed, and is armed for this phase only.
RecordOK(r) ==
    /\ r.phase = "floor_wait" =>
          /\ r.anchor # None /\ r.lastReplay # None
          /\ r.floorWake = r.lastReplay + Floor
    /\ r.phase = "replaying" <=> r.deadline # None
    /\ r.phase = "replaying" => r.lastReplay # None
    /\ r.followup # None => r.phase = "replaying"
    /\ r.lastReplay # None => r.lastReplay <= now
    /\ r.deadline # None => r.deadline <= now + Deadline
    /\ r.arm <= episodes

\* The timer that will end a pending recovery or history request is always
\* armed and never further away than the floor or the detection deadline
\* (recovery.py, _begin_replay, handle_gap, due): no call, in any order,
\* leaves a channel waiting for something nothing will fire.
PhasesConsistent ==
    /\ \A c \in Channel : RecordOK(rec[c])
    /\ \A c \in Channel : history[c] # None =>
          /\ history[c].deadline <= now + Deadline
          /\ history[c].arm <= episodes

\* due() always makes progress: no wake it looked at is still in the past
\* when it returns.  client.py, _recovery_timer calls it again without ever
\* yielding to the event loop for as long as one is.
DueMakesProgress == [][TimerFires => ~WakeReached']_vars
=============================================================================
