--------------------------- MODULE RecoveryTiming ---------------------------
(***************************************************************************)
(* What the recovery engine's clock promises, seen from outside.           *)
(*                                                                         *)
(* History variables record what happened on the wire and in the delivery  *)
(* queue: when each channel last asked for a replay, when the server was   *)
(* last heard recovering it, and when the consumer last stalled.  The      *)
(* properties relate the engine's decisions to that history and to none of *)
(* the fields the engine decides by.                                       *)
(***************************************************************************)
EXTENDS RecoveryEngine

VARIABLES
    askedAt,      \* per channel: when the last replay was sent, ever
    askedHere,    \* the channels with a replay sent on this connection
    heardAt,      \* per kind and channel: when the pending replay or history
                  \* was requested, or last answered with a message
    stallBegan,   \* when the consumer last stalled
    stallEnded    \* the last time the consumer was stalled

observed == <<askedAt, askedHere, heardAt, stallBegan, stallEnded>>
timingVars == <<vars, observed>>

Kind == {"replay", "history"}

TimingTypeOK ==
    /\ TypeOK
    /\ askedAt \in [Channel -> Time \cup {None}]
    /\ askedHere \subseteq Channel
    /\ heardAt \in [Kind -> [Channel -> Time]]
    /\ stallBegan \in Time \cup {None}
    /\ stallEnded \in Time \cup {None}

TimingInit ==
    /\ Init
    /\ askedAt = [c \in Channel |-> None]
    /\ askedHere = {}
    /\ heardAt = [k \in Kind |-> [c \in Channel |-> 0]]
    /\ stallBegan = None
    /\ stallEnded = None

\* The channels a replay is sent for in this step.
Asking == {c \in Channel : \E p \in Pos : SendReplay(c, p) \in out'}

\* The step's effect on the history, given the channels on which a frame of
\* the pending replay (R) or history (H) was heard or awaited anew.  Nothing
\* is kept for a channel with nothing pending.
Observe(R, H) ==
    /\ askedAt' = [c \in Channel |-> IF c \in Asking THEN now ELSE askedAt[c]]
    /\ askedHere' = IF connected' THEN askedHere \cup Asking ELSE {}
    /\ heardAt' =
          [heardAt EXCEPT
             !["replay"] = [c \in Channel |->
                 IF rec'[c].phase # "replaying" THEN 0
                 ELSE IF c \in R \cup Asking THEN now ELSE heardAt["replay"][c]],
             !["history"] = [c \in Channel |->
                 IF history'[c] = None THEN 0
                 ELSE IF c \in H THEN now ELSE heardAt["history"][c]]]
    /\ stallBegan' = IF paused' /\ ~paused THEN now ELSE stallBegan
    /\ stallEnded' = IF paused' \/ paused THEN now' ELSE stallEnded

TimingNext ==
    \/ /\ Dispatching /\ ~direct
       /\ \E c \in Channel, p \in Pos :
             \/ HandleGap(c, p) /\ Observe({}, {})
             \/ NotePos(c, p) /\ Observe({}, {})
             \/ NoteReplayMessage(c, p) /\ Observe({c}, {})
             \/ NoteHistoryMessage(c, p) /\ Observe({}, {c})
    \/ /\ Dispatching /\ ~direct
       /\ \E c \in Channel : \/ HandleReplayComplete(c)
                             \/ HandleRecoveryFailure(c)
       /\ Observe({}, {})
    \/ DispatchHistoryEnd /\ Observe({}, {})
    \/ ServerIsDirect /\ Observe({}, {})
    \/ /\ connected
       /\ \E c \in Channel : NoteHistoryRequest(c) /\ Observe({}, {c})
    \/ Backpressure /\ Observe({}, {})
    \/ TimerFires /\ Observe({}, {})
    \/ Resume /\ Observe({}, {})
    \/ HandleDisconnect /\ Observe({}, {})
    \/ Tick /\ Observe({}, {})

TimingSpec == TimingInit /\ [][TimingNext]_timingVars

-----------------------------------------------------------------------------
(* Properties.                                                             *)

FloorSince(c) == askedAt[c] = None \/ now - askedAt[c] >= Floor

\* Two replays of one channel on one connection are at least replay_floor
\* apart, whether the second one answers a new gap, follows up a completed
\* replay or is fired by the timer (recovery.py, handle_gap,
\* handle_replay_complete, due).
FloorPerConnection ==
    [][\A c \in Asking : c \in askedHere => FloorSince(c)]_timingVars

TimedOut(k) == {c \in Channel : TimerFires /\ Interrupted(c, k) \in out'}

\* The timer declares a recovery interrupted only when the server has sent
\* nothing for it for the whole detection deadline, the consumer is not
\* stalled now, and no stall began within the deadline either (recovery.py,
\* due and _backpressure_suspends).
InterruptedAfterSilence ==
    [][\A k \in Kind : \A c \in TimedOut(k) :
          /\ now - heardAt[k][c] >= Deadline
          /\ ~paused
          /\ stallBegan = None \/ now - stallBegan >= Deadline]_timingVars

-----------------------------------------------------------------------------
(* What the code does not keep (README, Deviations).                       *)

\* constants.py:74 says replay_floor is the "min interval between auto
\* replays per channel", whatever the connection.
FloorPerChannel == [][\A c \in Asking : FloorSince(c)]_timingVars

\* recovery.py:169-170 says that a deadline "suspends rather than fires: the
\* silence is the consumer's, not the server's" while the consumer stalls:
\* the timer may then only count silence during which it was not stalled.
SilenceIsTheServers ==
    [][\A k \in Kind : \A c \in TimedOut(k) :
          stallEnded = None \/ now - stallEnded >= Deadline]_timingVars
=============================================================================
