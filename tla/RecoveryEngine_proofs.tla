------------------------ MODULE RecoveryEngine_proofs -------------------------
(***************************************************************************)
(* Proofs about the recovery engine, for any set of channels, any positions*)
(* and any floor and deadline: its timers and phases agree; and about its  *)
(* timing: replays of one connection are a floor apart, and an interruption*)
(* comes after a deadline of silence.                                      *)
(***************************************************************************)
EXTENDS RecoveryTiming, TLAPS, WellFoundedInduction

(* The records the helpers build are records of the engine.                *)

LEMMA FreshType == Fresh \in ChannelRecord
BY DEF Fresh, ChannelRecord, Phase

LEMMA BeginReplayType ==
    ASSUME NEW r \in ChannelRecord, now \in Time, episodes \in Nat
    PROVE  BeginReplay(r) \in ChannelRecord
<1>1. now + Deadline \in Time
  BY DeadlineAssumption DEF Time
<1> QED
  BY <1>1 DEF BeginReplay, ChannelRecord, Phase

LEMMA AwaitFloorType ==
    ASSUME NEW r \in ChannelRecord, NEW p \in Pos, r.lastReplay # None
    PROVE  AwaitFloor(r, p) \in ChannelRecord
<1>1. r.lastReplay + Floor \in Time
  BY FloorAssumption DEF ChannelRecord, Time
<1> QED
  BY <1>1 DEF AwaitFloor, ChannelRecord, Phase

LEMMA ResetType ==
    ASSUME NEW r \in ChannelRecord
    PROVE  Reset(r) \in ChannelRecord
BY DEF Reset, ChannelRecord, Phase

LEMMA RearmType ==
    ASSUME NEW r \in ChannelRecord, now \in Time, episodes \in Nat
    PROVE  Rearm(r) \in ChannelRecord
<1>1. now + Deadline \in Time
  BY DeadlineAssumption DEF Time
<1> QED
  BY <1>1 DEF Rearm, ChannelRecord, Phase

LEMMA FollowUpType ==
    ASSUME NEW r \in ChannelRecord, NEW p \in Pos
    PROVE  FollowUp(r, p) \in ChannelRecord
BY DEF FollowUp, ChannelRecord, Phase

LEMMA ArmedHistoryType ==
    ASSUME now \in Time, episodes \in Nat
    PROVE  ArmedHistory \in [deadline : Time, arm : Nat]
BY DeadlineAssumption DEF ArmedHistory, Time

LEMMA ActionTypes ==
    /\ \A c \in Channel, p \in Pos : SendReplay(c, p) \in Action
    /\ \A lp \in [Channel -> Pos \cup {None}] : SendReconnect(lp) \in Action
    /\ \A c \in Channel : EmitPossibleGap(c) \in Action
    /\ \A c \in Channel : Interrupted(c, "replay") \in Action
    /\ \A c \in Channel : Interrupted(c, "history") \in Action
BY DEF Action

\* A non-empty set of naturals has a least element.
LEMMA HasLeast ==
    ASSUME NEW S \in SUBSET Nat, S # {}
    PROVE  \E m \in S : \A n \in S : m =< n
<1>1. PICK m \in S : \A n \in S : <<n, m>> \notin OpToRel(<, Nat)
  BY NatLessThanWellFounded, WFMin, Zenon
<1>2. \A n \in S : <<n, m>> \in Nat \X Nat
  OBVIOUS
<1>3. \A n \in S : ~(n < m)
  BY <1>1, <1>2 DEF OpToRel
<1> QED
  BY <1>3

\* Actions of the engine are told apart by what they do and to which channel.
LEMMA ActionsDiffer ==
    /\ \A c, d, p, q : SendReplay(c, p) = SendReplay(d, q) <=> c = d /\ p = q
    /\ \A c, d, x, y : Interrupted(c, x) = Interrupted(d, y) <=> c = d /\ x = y
    /\ \A c, d, p, y : SendReplay(c, p) # Interrupted(d, y)
    /\ \A c, d, p : SendReplay(c, p) # EmitPossibleGap(d)
    /\ \A c, d, y : Interrupted(c, y) # EmitPossibleGap(d)
    /\ \A c, l, p : SendReplay(c, p) # SendReconnect(l)
    /\ \A c, l, y : Interrupted(c, y) # SendReconnect(l)
BY DEF SendReplay, Interrupted, EmitPossibleGap, SendReconnect

\* The fields of the records the engine's helpers build.
LEMMA HelperFields ==
    ASSUME NEW r \in ChannelRecord
    PROVE  /\ BeginReplay(r).phase = "replaying" /\ BeginReplay(r).followup = r.followup
           /\ \A p : AwaitFloor(r, p).phase = "floor_wait" /\ AwaitFloor(r, p).anchor = p
           /\ \A p : /\ FollowUp(r, p).phase = r.phase
                     /\ FollowUp(r, p).followup = IF r.followup = None THEN p ELSE r.followup
           /\ Reset(r).phase = "idle"
           /\ Rearm(r).phase = r.phase /\ Rearm(r).followup = r.followup
           /\ Fresh.phase = "idle"
BY DEF BeginReplay, AwaitFloor, FollowUp, Reset, Rearm, Fresh, ChannelRecord

-----------------------------------------------------------------------------
LEMMA TypeInit == Init => TypeOK
<1> SUFFICES ASSUME Init PROVE TypeOK
  OBVIOUS
<1>1. rec \in [Channel -> ChannelRecord]
  BY FreshType DEF Init
<1>2. pos \in [Channel -> Pos \cup {None}]
  BY DEF Init
<1>3. history \in [Channel -> [deadline : Time, arm : Nat] \cup {None}]
  BY DEF Init
<1> QED
  BY <1>1, <1>2, <1>3 DEF Init, TypeOK, Time

LEMMA TypeStep == TypeOK /\ [Next]_vars => TypeOK'
<1> SUFFICES ASSUME TypeOK, [Next]_vars PROVE TypeOK'
  OBVIOUS
<1> USE DEF TypeOK
<1>1. ASSUME NEW c \in Channel, NEW p \in Pos, NotePos(c, p) PROVE TypeOK'
  BY <1>1 DEF NotePos, mode, stall
<1>2. ASSUME NEW c \in Channel, NEW p \in Pos, HandleGap(c, p) PROVE TypeOK'
  <2>1. BeginReplay(rec[c]) \in ChannelRecord
    BY BeginReplayType
  <2>2. ~FloorOpen(rec[c]) => AwaitFloor(rec[c], p) \in ChannelRecord
    BY AwaitFloorType DEF FloorOpen
  <2>3. FollowUp(rec[c], p) \in ChannelRecord
    BY FollowUpType
  <2> QED
    BY <1>2, <2>1, <2>2, <2>3, ActionTypes DEF HandleGap, mode, stall
<1>3. ASSUME NEW c \in Channel, NEW p \in Pos, NoteReplayMessage(c, p) PROVE TypeOK'
  BY <1>3, RearmType DEF NoteReplayMessage, mode, stall
<1>4. ASSUME NEW c \in Channel, NEW p \in Pos, NoteHistoryMessage(c, p) PROVE TypeOK'
  BY <1>4, ArmedHistoryType DEF NoteHistoryMessage, mode, stall
<1>5. ASSUME NEW c \in Channel, HandleReplayComplete(c) PROVE TypeOK'
  <2> DEFINE r == [rec[c] EXCEPT !.deadline = None]
             s == [r EXCEPT !.followup = None]
  <2>1. /\ r \in ChannelRecord
        /\ s \in ChannelRecord
        /\ r.followup \in Pos \cup {None}
        /\ s.lastReplay = r.lastReplay
        /\ [s EXCEPT !.phase = "idle"] \in ChannelRecord
    BY DEF ChannelRecord, Phase
  <2> HIDE DEF r, s
  <2>2. BeginReplay(s) \in ChannelRecord
    BY <2>1, BeginReplayType
  <2>3. r.followup # None /\ ~FloorOpen(r) => AwaitFloor(s, r.followup) \in ChannelRecord
    BY <2>1, AwaitFloorType DEF FloorOpen
  <2>4. r.followup # None => SendReplay(c, r.followup) \in Action
    BY <2>1, ActionTypes
  <2> USE DEF r, s
  <2>5. rec' \in [Channel -> ChannelRecord] /\ out' \subseteq Action
    BY <1>5, <2>1, <2>2, <2>3, <2>4 DEF HandleReplayComplete
  <2> QED
    BY <1>5, <2>5 DEF HandleReplayComplete, mode, stall
<1>6. ASSUME NEW c \in Channel, HandleRecoveryFailure(c) PROVE TypeOK'
  BY <1>6, ResetType, ActionTypes DEF HandleRecoveryFailure, mode, stall
<1>7. ASSUME NEW c \in Channel, HandleHistoryComplete(c) PROVE TypeOK'
  BY <1>7 DEF HandleHistoryComplete, mode, stall
<1>8. ASSUME NEW chans \in SUBSET Channel, HandleNotAvailable(chans) PROVE TypeOK'
  BY <1>8, FreshType, ActionTypes DEF HandleNotAvailable, stall
<1>9. ASSUME NEW c \in Channel, NoteHistoryRequest(c) PROVE TypeOK'
  BY <1>9, ArmedHistoryType DEF NoteHistoryRequest, mode, stall
<1>10. ASSUME NEW b \in BOOLEAN, NoteBackpressure(b) PROVE TypeOK'
  BY <1>10 DEF NoteBackpressure, mode
<1>11. CASE TimerFires
  <2>1. rec' \in [Channel -> ChannelRecord]
    <3>1. \A c \in Channel : /\ BeginReplay(rec[c]) \in ChannelRecord
                             /\ Rearm(rec[c]) \in ChannelRecord
                             /\ Reset(rec[c]) \in ChannelRecord
      BY BeginReplayType, RearmType, ResetType
    <3> QED
      BY <1>11, <3>1 DEF TimerFires, Due
  <2>2. history' \in [Channel -> [deadline : Time, arm : Nat] \cup {None}]
    BY <1>11, ArmedHistoryType DEF TimerFires, Due
  <2>3. out' \subseteq Action
    <3>1. \A c \in Channel : FloorElapsed(c) => ReplayFromAnchor(c) \in Action
      BY ActionTypes DEF FloorElapsed, ReplayFromAnchor, ChannelRecord
    <3> QED
      BY <1>11, <3>1, ActionTypes DEF TimerFires, Due
  <2> QED
    BY <1>11, <2>1, <2>2, <2>3 DEF TimerFires, Due, mode, stall
<1>12. CASE Resume
  BY <1>12, ActionTypes DEF Resume, stall
<1>13. CASE HandleDisconnect
  BY <1>13, FreshType, ActionTypes DEF HandleDisconnect, mode, stall
<1>14. CASE Tick
  BY <1>14 DEF Tick, Time, mode, stall
<1>15. CASE UNCHANGED vars
  BY <1>15 DEF vars, mode, stall
<1> QED
  BY <1>1, <1>2, <1>3, <1>4, <1>5, <1>6, <1>7, <1>8, <1>9, <1>10, <1>11,
     <1>12, <1>13, <1>14, <1>15
  DEF Next, DispatchKafkaFrame, DispatchHistoryEnd, ServerIsDirect,
      RequestHistory, Backpressure

(* Every variable keeps its type, whatever the order of the calls: every   *)
(* replay names a position and every timer a time (recovery.py, all the    *)
(* methods).                                                               *)
THEOREM TypeCorrect == Spec => []TypeOK
BY TypeInit, TypeStep, PTL DEF Spec

-----------------------------------------------------------------------------
(* What the helpers do to a consistent record.  RecordOK is the     *)
(* part of the inductive invariant that is about one record.               *)

LEMMA FreshOK ==
    ASSUME episodes \in Nat
    PROVE  RecordOK(Fresh)
BY DEF RecordOK, Fresh

LEMMA BeginReplayOK ==
    ASSUME NEW r \in ChannelRecord, now \in Time, episodes \in Nat
    PROVE  RecordOK(BeginReplay(r))
<1> DEFINE b == BeginReplay(r)
<1>1. /\ b.phase = "replaying" /\ b.lastReplay = now
      /\ b.deadline = now + Deadline /\ b.arm = episodes
  BY DEF BeginReplay, ChannelRecord
<1>2. now # None /\ now + Deadline \in Nat /\ now + Deadline # None
  BY DeadlineAssumption, NoneAssumption DEF Time
<1> HIDE DEF b
<1>3. RecordOK(b)
  BY <1>1, <1>2 DEF RecordOK, Time
<1> QED
  BY <1>3 DEF b

LEMMA AwaitFloorOK ==
    ASSUME NEW r \in ChannelRecord, NEW p \in Pos, r.lastReplay # None,
           now \in Time, episodes \in Nat,
           r.lastReplay <= now, r.deadline = None, r.followup = None,
           r.arm <= episodes
    PROVE  RecordOK(AwaitFloor(r, p))
<1> DEFINE w == AwaitFloor(r, p)
<1>1. /\ w.phase = "floor_wait" /\ w.anchor = p
      /\ w.floorWake = w.lastReplay + Floor /\ w.lastReplay = r.lastReplay
      /\ w.deadline = None /\ w.followup = None /\ w.arm = r.arm
  BY DEF AwaitFloor, ChannelRecord
<1> HIDE DEF w
<1>2. RecordOK(w)
  BY <1>1, NoneAssumption DEF RecordOK
<1> QED
  BY <1>2 DEF w

LEMMA ResetOK ==
    ASSUME NEW r \in ChannelRecord, RecordOK(r)
    PROVE  RecordOK(Reset(r))
<1> DEFINE i == Reset(r)
<1>1. /\ i.phase = "idle" /\ i.deadline = None /\ i.followup = None
      /\ i.lastReplay = r.lastReplay /\ i.arm = r.arm
  BY DEF Reset, ChannelRecord
<1> HIDE DEF i
<1>2. RecordOK(i)
  BY <1>1 DEF RecordOK
<1> QED
  BY <1>2 DEF i

LEMMA RearmOK ==
    ASSUME NEW r \in ChannelRecord, RecordOK(r), r.phase = "replaying",
           now \in Time, episodes \in Nat
    PROVE  RecordOK(Rearm(r))
<1> DEFINE b == Rearm(r)
<1>1. /\ b.phase = "replaying" /\ b.lastReplay = r.lastReplay
      /\ b.deadline = now + Deadline /\ b.arm = episodes
  BY DEF Rearm, ChannelRecord
<1>2. now + Deadline \in Nat /\ now + Deadline # None
  BY DeadlineAssumption, NoneAssumption DEF Time
<1> HIDE DEF b
<1>3. RecordOK(b)
  BY <1>1, <1>2 DEF RecordOK, Time
<1> QED
  BY <1>3 DEF b

LEMMA FollowUpOK ==
    ASSUME NEW r \in ChannelRecord, NEW p \in Pos, RecordOK(r), r.phase = "replaying"
    PROVE  RecordOK(FollowUp(r, p))
<1> DEFINE b == FollowUp(r, p)
<1>1. /\ b.phase = "replaying" /\ b.lastReplay = r.lastReplay
      /\ b.deadline = r.deadline /\ b.arm = r.arm
  BY DEF FollowUp, ChannelRecord
<1> HIDE DEF b
<1>2. RecordOK(b)
  BY <1>1 DEF RecordOK
<1> QED
  BY <1>2 DEF b

\* Time and episodes only grow, and a consistent record stays so.
LEMMA RecordOKLater ==
    ASSUME NEW r \in ChannelRecord, RecordOK(r), TypeOK,
           now' \in Time, episodes' \in Nat, now <= now', episodes <= episodes'
    PROVE  RecordOK(r)'
BY DeadlineAssumption DEF RecordOK, TypeOK, ChannelRecord, Time

-----------------------------------------------------------------------------
IInv == TypeOK /\ PhasesConsistent

LEMMA InitIInv == Init => IInv
<1> SUFFICES ASSUME Init PROVE PhasesConsistent /\ TypeOK
  BY DEF IInv
<1>1. TypeOK
  BY TypeInit
<1>2. \A c \in Channel : rec[c] = Fresh /\ history[c] = None
  BY DEF Init
<1> QED
  BY <1>1, <1>2, FreshOK DEF PhasesConsistent, TypeOK

\* A call that changes the record of c alone, to a consistent one, and
\* neither the clock, the episodes nor the history requests.
LEMMA OneRecord ==
    ASSUME IInv, NEW c \in Channel, NEW r \in ChannelRecord,
           rec' = [rec EXCEPT ![c] = r], RecordOK(r),
           UNCHANGED <<now, episodes, history>>
    PROVE  PhasesConsistent'
<1>1. \A d \in Channel : RecordOK(rec'[d])
  BY DEF IInv, TypeOK, PhasesConsistent
<1>2. (\A d \in Channel : RecordOK(rec[d]))'
  BY <1>1 DEF RecordOK
<1> QED
  BY <1>2 DEF IInv, PhasesConsistent

\* The calls that change no record.
LEMMA SameRecords ==
    ASSUME IInv, UNCHANGED rec, now' \in Time, episodes' \in Nat,
           now <= now', episodes <= episodes',
           \A c \in Channel : history'[c] # None =>
               /\ history'[c].deadline <= now' + Deadline
               /\ history'[c].arm <= episodes'
    PROVE  PhasesConsistent'
<1>1. ASSUME NEW c \in Channel PROVE RecordOK(rec[c])'
  <2>1. RecordOK(rec[c]) /\ rec[c] \in ChannelRecord /\ TypeOK
    BY DEF IInv, PhasesConsistent, TypeOK
  <2>2. rec'[c] = rec[c]
    OBVIOUS
  <2> QED
    BY <2>1, <2>2, DeadlineAssumption DEF RecordOK, TypeOK, ChannelRecord, Time
<1> QED
  BY <1>1 DEF PhasesConsistent

LEMMA StepIInv == IInv /\ [Next]_vars => IInv'
<1> SUFFICES ASSUME IInv, [Next]_vars PROVE PhasesConsistent'
  BY TypeStep DEF IInv
<1> USE DEF IInv
<1>0. /\ now \in Nat /\ episodes \in Nat /\ TypeOK'
      /\ \A c \in Channel : /\ RecordOK(rec[c])
                            /\ rec[c] \in ChannelRecord
                            /\ history[c] # None =>
                                  /\ history[c] \in [deadline : Time, arm : Nat]
                                  /\ history[c].deadline <= now + Deadline
                                  /\ history[c].arm <= episodes
  BY TypeStep DEF TypeOK, PhasesConsistent, Time
<1>A. /\ ArmedHistory.deadline = now + Deadline /\ ArmedHistory.arm = episodes
      /\ now + Deadline <= now + Deadline /\ episodes <= episodes
  BY <1>0, DeadlineAssumption DEF ArmedHistory
<1>1. ASSUME NEW c \in Channel, NEW p \in Pos, NotePos(c, p)
      PROVE  PhasesConsistent'
  BY <1>0, <1>1, SameRecords DEF NotePos, stall, Time
<1>2. ASSUME NEW c \in Channel, NEW p \in Pos, HandleGap(c, p)
      PROVE  PhasesConsistent'
  <2> USE DEF HandleGap, stall
  <2>1. CASE rec[c].phase = "idle" /\ FloorOpen(rec[c])
    BY <1>0, <1>2, <2>1, OneRecord, BeginReplayType, BeginReplayOK DEF Time
  <2>2. CASE rec[c].phase = "idle" /\ ~FloorOpen(rec[c])
    <3>1. /\ rec[c].lastReplay # None /\ rec[c].lastReplay <= now
          /\ rec[c].deadline = None /\ rec[c].followup = None
          /\ rec[c].arm <= episodes
      BY <1>0, <2>2 DEF FloorOpen, RecordOK
    <3> QED
      BY <1>0, <1>2, <2>2, <3>1, OneRecord, AwaitFloorType, AwaitFloorOK DEF Time
  <2>3. CASE rec[c].phase = "floor_wait"
    BY <1>0, <1>2, <2>3, SameRecords DEF Time
  <2>4. CASE rec[c].phase = "replaying"
    BY <1>0, <1>2, <2>4, OneRecord, FollowUpType, FollowUpOK
  <2> QED
    BY <1>0, <2>1, <2>2, <2>3, <2>4 DEF ChannelRecord, Phase
<1>3. ASSUME NEW c \in Channel, NEW p \in Pos, NoteReplayMessage(c, p)
      PROVE  PhasesConsistent'
  <2>1. CASE rec[c].phase = "replaying"
    BY <1>0, <1>3, <2>1, OneRecord, RearmType, RearmOK DEF NoteReplayMessage, stall, Time
  <2>2. CASE rec[c].phase # "replaying"
    BY <1>0, <1>3, <2>2, SameRecords DEF NoteReplayMessage, stall, Time
  <2> QED
    BY <2>1, <2>2
<1>4. ASSUME NEW c \in Channel, NEW p \in Pos, NoteHistoryMessage(c, p)
      PROVE  PhasesConsistent'
  <2>1. \A d \in Channel : history'[d] = history[d] \/ history'[d] = ArmedHistory
    BY <1>4 DEF NoteHistoryMessage, TypeOK
  <2> QED
    BY <1>0, <1>A, <1>4, <2>1, SameRecords DEF NoteHistoryMessage, stall, Time
<1>5. ASSUME NEW c \in Channel, HandleReplayComplete(c)
      PROVE  PhasesConsistent'
  <2> DEFINE r == [rec[c] EXCEPT !.deadline = None]
             s == [r EXCEPT !.followup = None]
             i == [s EXCEPT !.phase = "idle"]
  <2>1. /\ r \in ChannelRecord /\ s \in ChannelRecord /\ i \in ChannelRecord
        /\ r.followup \in Pos \cup {None}
        /\ r.phase = rec[c].phase /\ r.lastReplay = rec[c].lastReplay
        /\ r.anchor = rec[c].anchor /\ r.floorWake = rec[c].floorWake
        /\ r.followup = rec[c].followup /\ r.deadline = None
        /\ r.arm = rec[c].arm
        /\ s.lastReplay = r.lastReplay /\ s.deadline = None
        /\ s.followup = None /\ s.arm = r.arm
        /\ i.phase = "idle" /\ i.lastReplay = r.lastReplay
        /\ i.deadline = None /\ i.followup = None /\ i.arm = r.arm
    BY <1>0 DEF ChannelRecord, Phase
  <2>2. \/ rec' = [rec EXCEPT ![c] = r] /\ r.phase # "replaying"
        \/ rec' = [rec EXCEPT ![c] = i]
        \/ rec' = [rec EXCEPT ![c] = BeginReplay(s)]
        \/ r.followup # None /\ ~FloorOpen(r) /\ rec' = [rec EXCEPT ![c] = AwaitFloor(s, r.followup)]
    BY <1>5 DEF HandleReplayComplete
  <2>3. UNCHANGED <<now, episodes, history>>
    BY <1>5 DEF HandleReplayComplete, stall
  <2> HIDE DEF r, s, i
  <2>4. r.phase # "replaying" => RecordOK(r)
    BY <1>0, <2>1 DEF RecordOK
  <2>5. RecordOK(i)
    BY <1>0, <2>1 DEF RecordOK
  <2>6. RecordOK(BeginReplay(s)) /\ BeginReplay(s) \in ChannelRecord
    BY <1>0, <2>1, BeginReplayOK, BeginReplayType DEF Time
  <2>7. r.followup # None /\ ~FloorOpen(r) =>
           /\ RecordOK(AwaitFloor(s, r.followup))
           /\ AwaitFloor(s, r.followup) \in ChannelRecord
    <3> SUFFICES ASSUME r.followup # None, ~FloorOpen(r)
                 PROVE  /\ RecordOK(AwaitFloor(s, r.followup))
                        /\ AwaitFloor(s, r.followup) \in ChannelRecord
      OBVIOUS
    <3>1. /\ s.lastReplay # None /\ s.lastReplay <= now
          /\ r.followup \in Pos /\ s.arm <= episodes
      BY <1>0, <2>1 DEF FloorOpen, RecordOK
    <3> QED
      BY <1>0, <2>1, <3>1, AwaitFloorOK, AwaitFloorType DEF Time
  <2> QED
    BY <2>1, <2>2, <2>3, <2>4, <2>5, <2>6, <2>7, OneRecord
<1>6. ASSUME NEW c \in Channel, HandleRecoveryFailure(c)
      PROVE  PhasesConsistent'
  BY <1>0, <1>6, OneRecord, ResetType, ResetOK DEF HandleRecoveryFailure, stall
<1>7. ASSUME NEW c \in Channel, HandleHistoryComplete(c)
      PROVE  PhasesConsistent'
  <2>1. \A d \in Channel : history'[d] = history[d] \/ history'[d] = None
    BY <1>7 DEF HandleHistoryComplete, TypeOK
  <2> QED
    BY <1>0, <1>7, <2>1, SameRecords DEF HandleHistoryComplete, stall, Time
<1>8. ASSUME NEW chans \in SUBSET Channel, HandleNotAvailable(chans)
      PROVE  PhasesConsistent'
  <2>1. now' = now /\ episodes' = episodes /\ history' = history
    BY <1>8 DEF HandleNotAvailable, stall
  <2>2. \A c \in Channel : rec'[c] = Fresh
    BY <1>8 DEF HandleNotAvailable
  <2>3. RecordOK(Fresh)'
    BY <1>0, <2>1, FreshOK DEF RecordOK, Fresh
  <2> QED
    BY <1>0, <2>1, <2>2, <2>3 DEF PhasesConsistent, RecordOK, Fresh
<1>9. ASSUME NEW c \in Channel, NoteHistoryRequest(c)
      PROVE  PhasesConsistent'
  <2>1. \A d \in Channel : history'[d] = history[d] \/ history'[d] = ArmedHistory
    BY <1>9 DEF NoteHistoryRequest, TypeOK
  <2> QED
    BY <1>0, <1>A, <1>9, <2>1, SameRecords DEF NoteHistoryRequest, stall, Time
<1>10. ASSUME NEW b \in BOOLEAN, NoteBackpressure(b)
       PROVE  PhasesConsistent'
  <2>1. /\ now' = now /\ history' = history /\ UNCHANGED rec
        /\ episodes <= episodes' /\ episodes' \in Nat
    BY <1>0, <1>10 DEF NoteBackpressure
  <2>2. \A c \in Channel : history[c] # None => history[c].arm <= episodes'
    BY <1>0, <2>1
  <2> QED
    BY <1>0, <2>1, <2>2, SameRecords DEF Time
<1>11. CASE TimerFires
  <2>1. now' = now /\ episodes' = episodes
    BY <1>11 DEF TimerFires, Due, stall
  <2>2. ASSUME NEW c \in Channel PROVE RecordOK(rec'[c])
    BY <1>0, <1>11, BeginReplayOK, RearmOK, ResetOK DEF TimerFires, Due, ReplayLate, Time
  <2>3. \A c \in Channel : history'[c] \in {history[c], ArmedHistory, None}
    BY <1>11 DEF TimerFires, Due
  <2>4. (\A c \in Channel : RecordOK(rec[c]))'
    BY <2>1, <2>2 DEF RecordOK
  <2> QED
    BY <1>0, <1>A, <2>1, <2>3, <2>4 DEF PhasesConsistent
<1>12. CASE Resume
  BY <1>0, <1>12, SameRecords DEF Resume, stall, Time
<1>13. CASE HandleDisconnect
  <2>1. now' = now /\ episodes' = episodes
    BY <1>13 DEF HandleDisconnect, stall
  <2>2. \A c \in Channel : rec'[c] = Fresh /\ history'[c] = None
    BY <1>13 DEF HandleDisconnect
  <2>3. RecordOK(Fresh)'
    BY <1>0, <2>1, FreshOK DEF RecordOK, Fresh
  <2> QED
    BY <1>0, <2>1, <2>2, <2>3 DEF PhasesConsistent, RecordOK, Fresh
<1>14. CASE Tick
  <2>1. /\ now' = now + 1 /\ episodes' = episodes /\ history' = history /\ UNCHANGED rec
    BY <1>14 DEF Tick, stall
  <2>2. \A c \in Channel : history[c] # None => history[c].deadline <= now' + Deadline
    BY <1>0, <2>1, DeadlineAssumption DEF Time
  <2> QED
    BY <1>0, <2>1, <2>2, SameRecords DEF Time
<1>15. CASE UNCHANGED vars
  BY <1>0, <1>15, SameRecords DEF vars, stall, Time
<1> QED
  BY <1>1, <1>2, <1>3, <1>4, <1>5, <1>6, <1>7, <1>8, <1>9, <1>10, <1>11,
     <1>12, <1>13, <1>14, <1>15
  DEF Next, DispatchKafkaFrame, DispatchHistoryEnd, ServerIsDirect,
      RequestHistory, Backpressure

(* Whatever the order of frames, stalls, timer calls, requests, losses of  *)
(* connection and reconnects, every channel that waits for something has   *)
(* the timer that will end the wait armed, within the floor or deadline.   *)
THEOREM Consistency == Spec => []PhasesConsistent
<1>1. IInv => PhasesConsistent
  BY DEF IInv
<1> QED
  BY <1>1, InitIInv, StepIInv, PTL DEF Spec

(* due() leaves no wake in the past, so the recovery timer's loop always   *)
(* reaches its wait and never starves the event loop (client.py,           *)
(* _recovery_timer).                                                       *)
THEOREM TimerProgress == Spec => DueMakesProgress
<1>1. IInv /\ TimerFires => ~WakeReached'
  <2> SUFFICES ASSUME IInv, TimerFires, NEW t \in Wakes', t <= now'
               PROVE  FALSE
    BY DEF WakeReached
  <2>1. now' = now /\ now \in Nat /\ now + Deadline > now
    BY DeadlineAssumption DEF TimerFires, Due, IInv, TypeOK, Time
  <2>2. ASSUME NEW c \in Channel
        PROVE  /\ RecordOK(rec[c]) /\ rec[c] \in ChannelRecord
               /\ rec'[c] = IF FloorElapsed(c) THEN BeginReplay(rec[c])
                            ELSE IF ~ReplayLate(c) THEN rec[c]
                            ELSE IF BackpressureSuspends(rec[c].arm) THEN Rearm(rec[c])
                            ELSE Reset(rec[c])
               /\ history'[c] = IF ~HistoryLate(c) THEN history[c]
                                ELSE IF BackpressureSuspends(history[c].arm) THEN ArmedHistory
                                ELSE None
    BY DEF TimerFires, Due, IInv, TypeOK, PhasesConsistent
  <2>3. ASSUME NEW c \in Channel, rec'[c].phase = "floor_wait", t = rec'[c].floorWake
        PROVE  FALSE
    <3>1. BeginReplay(rec[c]).phase = "replaying" /\ Reset(rec[c]).phase = "idle"
          /\ (ReplayLate(c) => Rearm(rec[c]).phase = "replaying")
      BY <2>2 DEF BeginReplay, Reset, Rearm, ReplayLate, ChannelRecord
    <3>2. ~FloorElapsed(c) /\ rec'[c] = rec[c]
      BY <2>2, <2>3, <3>1
    <3> QED
      BY <2>1, <2>2, <2>3, <3>2, FloorAssumption, NoneAssumption
      DEF FloorElapsed, RecordOK, ChannelRecord, Time
  <2>4. ASSUME NEW c \in Channel, rec'[c].deadline # None, t = rec'[c].deadline
        PROVE  FALSE
    <3>1. /\ BeginReplay(rec[c]).deadline = now + Deadline
          /\ Rearm(rec[c]).deadline = now + Deadline
          /\ Reset(rec[c]).deadline = None
      BY <2>2 DEF BeginReplay, Reset, Rearm, ChannelRecord
    <3>2. t # now + Deadline /\ t # None
      BY <2>1, <2>4, DeadlineAssumption
    <3>3. rec'[c] \in {rec[c], BeginReplay(rec[c]), Rearm(rec[c]), Reset(rec[c])}
          /\ (rec'[c] = rec[c] => ~ReplayLate(c) \/ rec[c] = BeginReplay(rec[c])
                                    \/ rec[c] = Rearm(rec[c]) \/ rec[c] = Reset(rec[c]))
      BY <2>2
    <3>4. ~ReplayLate(c) /\ rec'[c] = rec[c]
      BY <2>4, <3>1, <3>2, <3>3
    <3> QED
      BY <2>1, <2>2, <2>4, <3>4 DEF ReplayLate, RecordOK, ChannelRecord, Time
  <2>5. ASSUME NEW c \in Channel, history'[c] # None, t = history'[c].deadline
        PROVE  FALSE
    <3>1. ArmedHistory.deadline = now + Deadline
      BY DEF ArmedHistory
    <3>2. ~HistoryLate(c) /\ history'[c] = history[c]
      <4>1. t # now + Deadline
        BY <2>1, <2>5, DeadlineAssumption
      <4>2. history'[c] # ArmedHistory
        BY <2>5, <3>1, <4>1
      <4> QED
        BY <2>2, <2>5, <4>2
    <3>3. history[c] \in [deadline : Time, arm : Nat]
      BY <2>5, <3>2 DEF IInv, TypeOK
    <3> QED
      BY <2>1, <2>5, <3>2, <3>3 DEF HistoryLate, Time
  <2> QED
    BY <2>3, <2>4, <2>5 DEF Wakes
<1> QED
  BY <1>1, InitIInv, StepIInv, PTL DEF Spec, DueMakesProgress

-----------------------------------------------------------------------------
(* The timing of the engine.                                               *)

-----------------------------------------------------------------------------
(* The inductive invariant.                                                *)

\* A timer armed for a channel runs out a deadline after the server was last
\* heard, and, if no stall began since it was armed, after the last stall.
Armed(deadline, arm, heard) ==
    /\ heard + Deadline <= deadline
    /\ arm = episodes /\ stallBegan # None => stallBegan + Deadline <= deadline

\* The engine's own stamp agrees with the replays seen on this connection,
\* and its timers with what was heard.
Seen(c) ==
    /\ c \in askedHere => /\ connected
                          /\ ~direct => /\ rec[c].lastReplay # None
                                        /\ askedAt[c] = rec[c].lastReplay
    /\ direct => rec[c].phase = "idle"
    /\ heardAt["replay"][c] <= now /\ heardAt["history"][c] <= now
    /\ rec[c].phase = "replaying" =>
          Armed(rec[c].deadline, rec[c].arm, heardAt["replay"][c])
    /\ history[c] # None =>
          Armed(history[c].deadline, history[c].arm, heardAt["history"][c])

TimingInv ==
    /\ TimingTypeOK /\ PhasesConsistent
    /\ stallBegan # None => stallBegan <= now
    /\ \A c \in Channel : Seen(c)

-----------------------------------------------------------------------------
(* What a step does to one channel.                                        *)

JustArmed(r) == r.deadline = now + Deadline /\ r.arm = episodes

\* The record of c, when frames of the replays of `heard' arrive.
Moves(c, heard) ==
    \/ /\ c \in Asking /\ ~direct /\ connected /\ FloorOpen(rec[c])
       /\ rec'[c].phase = "replaying" /\ rec'[c].lastReplay = now /\ JustArmed(rec'[c])
       /\ direct' = direct /\ connected' = connected
    \/ /\ c \notin Asking
       /\ rec'[c].lastReplay = rec[c].lastReplay
       /\ rec'[c].phase # "replaying"
       /\ direct => rec'[c].phase = "idle"
       /\ direct' = direct /\ (connected' = connected \/ ~connected)
    \/ /\ c \notin Asking
       /\ rec'[c].lastReplay = rec[c].lastReplay
       /\ rec[c].phase = "replaying" /\ rec'[c].phase = "replaying"
       /\ \/ JustArmed(rec'[c])
          \/ rec'[c].deadline = rec[c].deadline /\ rec'[c].arm = rec[c].arm /\ c \notin heard
       /\ direct' = direct /\ (connected' = connected \/ ~connected)
    \/ /\ c \notin Asking
       /\ rec'[c] = Fresh /\ (direct' \/ ~connected')
       /\ connected' => connected

\* Its history request, when frames of the requests of `heard' arrive.
HistoryMoves(c, heard) ==
    \/ history'[c] = None
    \/ history'[c] = ArmedHistory
    \/ history'[c] = history[c] /\ c \notin heard

\* The clock and the stalls.
StallMoves ==
    /\ now' \in Nat /\ now <= now' /\ episodes' \in Nat /\ episodes <= episodes'
    /\ paused' /\ ~paused => episodes' = episodes + 1 /\ rec' = rec /\ history' = history

Effect(R, H) ==
    /\ Observe(R, H) /\ StallMoves
    /\ \A c \in Channel : Moves(c, R) /\ HistoryMoves(c, H)

-----------------------------------------------------------------------------
\* Observing calls the engine as its own specification allows.
LEMMA TimingEngineStep == [TimingNext]_timingVars => [Next]_vars
BY DEF TimingNext, timingVars, Next, DispatchKafkaFrame, RequestHistory

\* A channel whose record the step leaves alone.
LEMMA RecordKept ==
    ASSUME NEW c \in Channel, NEW R, Seen(c), rec'[c] = rec[c],
           c \notin Asking, c \notin R, direct' = direct, connected' = connected \/ ~connected
    PROVE  Moves(c, R)
BY DEF Moves, Seen

\* No replay is asked for by a call that returns no action, or others.
LEMMA NotAsking ==
    ASSUME NEW c \in Channel
    PROVE  /\ out' = {} => c \notin Asking
           /\ \A d, p : out' = {SendReplay(d, p)} /\ c # d => c \notin Asking
           /\ \A d, of : out' = {Interrupted(d, of)} => c \notin Asking
           /\ \A l : out' \subseteq {SendReconnect(l)} => c \notin Asking
           /\ \A C : out' = {EmitPossibleGap(d) : d \in C} => c \notin Asking
BY ActionsDiffer DEF Asking

\* A channel's record after each call of the engine about channel d.
LEMMA GapMoves ==
    ASSUME TimingInv, NEW d \in Channel, NEW p \in Pos, ~direct, connected, HandleGap(d, p)
    PROVE  \A c \in Channel : Moves(c, {})
<1> SUFFICES ASSUME NEW c \in Channel PROVE Moves(c, {})
  OBVIOUS
<1>0. /\ Seen(c) /\ Seen(d) /\ rec \in [Channel -> ChannelRecord] /\ rec[d] \in ChannelRecord
      /\ direct' = direct /\ connected' = connected
  BY DEF TimingInv, TimingTypeOK, TypeOK, HandleGap, mode
<1>1. CASE c # d
  <2>1. rec'[c] = rec[c] /\ (out' = {} \/ out' = {SendReplay(d, p)})
    BY <1>0, <1>1 DEF HandleGap
  <2> QED
    BY <1>0, <1>1, <2>1, RecordKept, NotAsking
<1>2. CASE c = d /\ rec[d].phase = "idle" /\ FloorOpen(rec[d])
  <2>1. out' = {SendReplay(d, p)} /\ rec'[d] = BeginReplay(rec[d])
    BY <1>0, <1>2 DEF HandleGap
  <2>2. d \in Asking
    BY <2>1 DEF Asking
  <2>3. /\ rec'[d].phase = "replaying" /\ rec'[d].lastReplay = now /\ JustArmed(rec'[d])
    BY <1>0, <2>1 DEF BeginReplay, ChannelRecord, JustArmed
  <2> QED
    BY <1>0, <1>2, <2>2, <2>3 DEF Moves
<1>3. CASE c = d /\ rec[d].phase = "idle" /\ ~FloorOpen(rec[d])
  <2>1. out' = {} /\ rec'[d] = AwaitFloor(rec[d], p)
    BY <1>0, <1>3 DEF HandleGap
  <2>2. rec'[d].phase = "floor_wait" /\ rec'[d].lastReplay = rec[d].lastReplay
    BY <1>0, <2>1 DEF AwaitFloor, ChannelRecord
  <2> QED
    BY <1>0, <1>3, <2>1, <2>2, NotAsking DEF Moves
<1>4. CASE c = d /\ rec[d].phase = "floor_wait"
  BY <1>0, <1>4, RecordKept, NotAsking DEF HandleGap
<1>5. CASE c = d /\ rec[d].phase = "replaying"
  <2>1. out' = {} /\ rec'[d] = FollowUp(rec[d], p)
    BY <1>0, <1>5 DEF HandleGap
  <2>2. /\ rec'[d].phase = "replaying" /\ rec'[d].lastReplay = rec[d].lastReplay
        /\ rec'[d].deadline = rec[d].deadline /\ rec'[d].arm = rec[d].arm
    BY <1>0, <1>5, <2>1 DEF FollowUp, ChannelRecord
  <2> QED
    BY <1>0, <1>5, <2>1, <2>2, NotAsking DEF Moves
<1> QED
  BY <1>0, <1>1, <1>2, <1>3, <1>4, <1>5 DEF ChannelRecord, Phase

\* What a completed replay does to a channel.
LEMMA CompleteMoves ==
    ASSUME TimingInv, NEW d \in Channel, ~direct, connected, HandleReplayComplete(d)
    PROVE  \A c \in Channel : Moves(c, {})
<1> DEFINE r == [rec[d] EXCEPT !.deadline = None]
           s == [r EXCEPT !.followup = None]
           i == [s EXCEPT !.phase = "idle"]
<1>0. /\ \A c \in Channel : Seen(c)
      /\ rec \in [Channel -> ChannelRecord] /\ rec[d] \in ChannelRecord
      /\ direct' = direct /\ connected' = connected
  BY DEF TimingInv, TimingTypeOK, TypeOK, HandleReplayComplete, mode
<1>1. /\ r.phase = rec[d].phase /\ r.lastReplay = rec[d].lastReplay
      /\ i.phase = "idle" /\ i.lastReplay = rec[d].lastReplay
      /\ s \in ChannelRecord /\ s.lastReplay = rec[d].lastReplay
      /\ r.followup \in Pos \cup {None} /\ (FloorOpen(r) <=> FloorOpen(rec[d]))
  BY <1>0 DEF ChannelRecord, Phase, FloorOpen
<1>2. \/ out' = {} /\ rec' = [rec EXCEPT ![d] = r] /\ r.phase # "replaying"
      \/ out' = {} /\ rec' = [rec EXCEPT ![d] = i]
      \/ /\ out' = {SendReplay(d, r.followup)} /\ rec' = [rec EXCEPT ![d] = BeginReplay(s)]
         /\ r.followup # None /\ FloorOpen(r)
      \/ out' = {} /\ rec' = [rec EXCEPT ![d] = AwaitFloor(s, r.followup)]
  BY DEF HandleReplayComplete
<1> HIDE DEF r, s, i
<1>3. ASSUME NEW c \in Channel, c # d PROVE Moves(c, {})
  <2>1. rec'[c] = rec[c] /\ c \notin Asking
    BY <1>0, <1>2, <1>3, NotAsking
  <2> QED
    BY <1>0, <2>1, RecordKept
<1>4. CASE out' = {} /\ rec'[d] \in {r, i, AwaitFloor(s, r.followup)} /\ rec'[d].phase # "replaying"
  <2>1. rec'[d].lastReplay = rec[d].lastReplay
    BY <1>1, <1>4 DEF AwaitFloor, ChannelRecord
  <2> QED
    <3>1. Moves(d, {})
      BY <1>0, <1>4, <2>1, NotAsking DEF Moves
    <3> QED
      BY <1>3, <3>1
<1>5. CASE /\ out' = {SendReplay(d, r.followup)} /\ rec'[d] = BeginReplay(s)
           /\ r.followup # None /\ FloorOpen(r)
  <2>1. /\ rec'[d].phase = "replaying" /\ rec'[d].lastReplay = now /\ JustArmed(rec'[d])
        /\ d \in Asking
    BY <1>1, <1>5 DEF BeginReplay, ChannelRecord, JustArmed, Asking
  <2> QED
    <3>1. FloorOpen(rec[d])
      BY <1>1, <1>5
    <3>2. Moves(d, {})
      BY <1>0, <2>1, <3>1 DEF Moves
    <3> QED
      BY <1>3, <3>2
<1>6. AwaitFloor(s, r.followup).phase # "replaying"
  BY <1>1, HelperFields
<1> QED
  BY <1>0, <1>1, <1>2, <1>3, <1>4, <1>5, <1>6

\* What a replayed message does to a channel.
LEMMA ReplayMessageMoves ==
    ASSUME TimingInv, NEW d \in Channel, NEW p \in Pos, ~direct, connected,
           NoteReplayMessage(d, p)
    PROVE  \A c \in Channel : Moves(c, {d})
<1> SUFFICES ASSUME NEW c \in Channel PROVE Moves(c, {d})
  OBVIOUS
<1>0. /\ Seen(c) /\ rec \in [Channel -> ChannelRecord] /\ rec[d] \in ChannelRecord
      /\ direct' = direct /\ connected' = connected /\ c \notin Asking
  BY NotAsking DEF TimingInv, TimingTypeOK, TypeOK, NoteReplayMessage, mode
<1>1. CASE c # d
  BY <1>0, <1>1, RecordKept DEF NoteReplayMessage
<1>2. CASE c = d /\ rec[d].phase = "replaying"
  <2>1. rec'[d] = Rearm(rec[d])
    BY <1>0, <1>2 DEF NoteReplayMessage
  <2>2. /\ rec'[d].phase = "replaying" /\ rec'[d].lastReplay = rec[d].lastReplay
        /\ JustArmed(rec'[d])
    BY <1>0, <1>2, <2>1 DEF Rearm, ChannelRecord, JustArmed
  <2> QED
    BY <1>0, <1>2, <2>2 DEF Moves
<1>3. CASE c = d /\ rec[d].phase # "replaying"
  BY <1>0, <1>3 DEF NoteReplayMessage, Moves
<1> QED
  BY <1>1, <1>2, <1>3

\* What the timer does to a channel.
LEMMA DueMoves ==
    ASSUME TimingInv, TimerFires
    PROVE  \A c \in Channel : Moves(c, {})
<1> SUFFICES ASSUME NEW c \in Channel PROVE Moves(c, {})
  OBVIOUS
<1>0. /\ Seen(c) /\ rec[c] \in ChannelRecord /\ RecordOK(rec[c]) /\ connected
      /\ direct' = direct /\ connected' = connected
      /\ rec'[c] = IF FloorElapsed(c) THEN BeginReplay(rec[c])
                   ELSE IF ~ReplayLate(c) THEN rec[c]
                   ELSE IF BackpressureSuspends(rec[c].arm) THEN Rearm(rec[c])
                   ELSE Reset(rec[c])
  BY DEF TimingInv, TimingTypeOK, TypeOK, PhasesConsistent, TimerFires, Due, mode
<1>1. c \in Asking <=> FloorElapsed(c)
  <2>1. ASSUME FloorElapsed(c) PROVE c \in Asking
    <3>1. rec[c].anchor \in Pos /\ SendReplay(c, rec[c].anchor) \in out'
      BY <1>0, <2>1 DEF FloorElapsed, ChannelRecord, TimerFires, Due, ReplayFromAnchor
    <3> QED
      BY <3>1 DEF Asking
  <2>2. ASSUME c \in Asking PROVE FloorElapsed(c)
    BY <2>2, ActionsDiffer DEF Asking, TimerFires, Due, ReplayFromAnchor
  <2> QED
    BY <2>1, <2>2
<1>2. CASE FloorElapsed(c)
  <2>1. FloorOpen(rec[c]) /\ ~direct
    BY <1>0, <1>2 DEF FloorElapsed, RecordOK, FloorOpen, Seen
  <2>2. /\ rec'[c].phase = "replaying" /\ rec'[c].lastReplay = now /\ JustArmed(rec'[c])
    BY <1>0, <1>2 DEF BeginReplay, ChannelRecord, JustArmed
  <2> QED
    BY <1>0, <1>1, <1>2, <2>1, <2>2 DEF Moves
<1>3. CASE ~FloorElapsed(c) /\ ~ReplayLate(c)
  BY <1>0, <1>1, <1>3, RecordKept
<1>4. CASE ~FloorElapsed(c) /\ ReplayLate(c) /\ BackpressureSuspends(rec[c].arm)
  <2>1. /\ rec'[c].phase = "replaying" /\ rec'[c].lastReplay = rec[c].lastReplay
        /\ JustArmed(rec'[c]) /\ rec[c].phase = "replaying"
    BY <1>0, <1>4 DEF Rearm, ChannelRecord, JustArmed, ReplayLate
  <2> QED
    BY <1>0, <1>1, <1>4, <2>1 DEF Moves
<1>5. CASE ~FloorElapsed(c) /\ ReplayLate(c) /\ ~BackpressureSuspends(rec[c].arm)
  <2>1. rec'[c].phase = "idle" /\ rec'[c].lastReplay = rec[c].lastReplay
    BY <1>0, <1>5 DEF Reset, ChannelRecord
  <2> QED
    BY <1>0, <1>1, <1>5, <2>1 DEF Moves
<1> QED
  BY <1>2, <1>3, <1>4, <1>5

\* The history requests after each call that is about them.
LEMMA HistoryKept == ASSUME history' = history PROVE \A c \in Channel : HistoryMoves(c, {})
BY DEF HistoryMoves

\* The step of a call that changes neither the clock nor the stalls.
LEMMA CallEffect ==
    ASSUME TimingInv, NEW R, NEW H, Observe(R, H), UNCHANGED <<now, stall>>,
           \A c \in Channel : Moves(c, R) /\ HistoryMoves(c, H)
    PROVE  Effect(R, H)
BY DEF Effect, StallMoves, TimingInv, TimingTypeOK, TypeOK, Time, stall

\* Every step has one of these effects on a channel.
LEMMA EffectStep ==
    ASSUME TimingInv, TimingNext
    PROVE  \E R, H \in SUBSET Channel : Effect(R, H)
<1>0. /\ now \in Nat /\ episodes \in Nat /\ paused \in BOOLEAN
      /\ rec \in [Channel -> ChannelRecord]
      /\ history \in [Channel -> [deadline : Time, arm : Nat] \cup {None}]
      /\ \A c \in Channel : Seen(c)
  BY DEF TimingInv, TimingTypeOK, TypeOK, Time
<1>1. ASSUME NEW d \in Channel, NEW p \in Pos, ~direct, connected, HandleGap(d, p),
             Observe({}, {})
      PROVE  Effect({}, {})
  BY <1>1, GapMoves, HistoryKept, CallEffect DEF HandleGap
<1>2. ASSUME NEW d \in Channel, NEW p \in Pos, NotePos(d, p), Observe({}, {})
      PROVE  Effect({}, {})
  BY <1>0, <1>2, RecordKept, NotAsking, HistoryKept, CallEffect DEF NotePos, mode
<1>3. ASSUME NEW d \in Channel, NEW p \in Pos, ~direct, connected, NoteReplayMessage(d, p),
             Observe({d}, {})
      PROVE  Effect({d}, {})
  BY <1>3, ReplayMessageMoves, HistoryKept, CallEffect DEF NoteReplayMessage
<1>4. ASSUME NEW d \in Channel, NEW p \in Pos, NoteHistoryMessage(d, p), Observe({}, {d})
      PROVE  Effect({}, {d})
  <2>1. \A c \in Channel : HistoryMoves(c, {d})
    BY <1>0, <1>4 DEF NoteHistoryMessage, HistoryMoves
  <2> QED
    BY <1>0, <1>4, <2>1, RecordKept, NotAsking, CallEffect DEF NoteHistoryMessage, mode
<1>5. ASSUME NEW d \in Channel, ~direct, connected, HandleReplayComplete(d), Observe({}, {})
      PROVE  Effect({}, {})
  BY <1>5, CompleteMoves, HistoryKept, CallEffect DEF HandleReplayComplete
<1>6. ASSUME NEW d \in Channel, HandleRecoveryFailure(d), Observe({}, {})
      PROVE  Effect({}, {})
  <2>1. ASSUME NEW c \in Channel PROVE Moves(c, {})
    <3>1. c \notin Asking /\ direct' = direct /\ connected' = connected
      BY <1>6, NotAsking DEF HandleRecoveryFailure, mode
    <3>2. CASE c # d
      BY <1>0, <1>6, <3>1, <3>2, RecordKept DEF HandleRecoveryFailure
    <3>3. CASE c = d
      <4>1. rec'[d].phase = "idle" /\ rec'[d].lastReplay = rec[d].lastReplay
        BY <1>0, <1>6 DEF HandleRecoveryFailure, Reset, ChannelRecord
      <4> QED
        BY <3>1, <3>3, <4>1 DEF Moves
    <3> QED
      BY <3>2, <3>3
  <2> QED
    BY <1>6, <2>1, HistoryKept, CallEffect DEF HandleRecoveryFailure
<1>7. ASSUME NEW d \in Channel, HandleHistoryComplete(d), Observe({}, {})
      PROVE  Effect({}, {})
  <2>1. \A c \in Channel : HistoryMoves(c, {})
    BY <1>0, <1>7 DEF HandleHistoryComplete, HistoryMoves
  <2> QED
    BY <1>0, <1>7, <2>1, RecordKept, NotAsking, CallEffect DEF HandleHistoryComplete, mode
<1>8. ASSUME NEW chans, connected, HandleNotAvailable(chans), Observe({}, {})
      PROVE  Effect({}, {})
  BY <1>0, <1>8, NotAsking, HistoryKept, CallEffect DEF HandleNotAvailable, Moves
<1>9. ASSUME NEW d \in Channel, NoteHistoryRequest(d), Observe({}, {d})
      PROVE  Effect({}, {d})
  <2>1. \A c \in Channel : HistoryMoves(c, {d})
    BY <1>0, <1>9 DEF NoteHistoryRequest, HistoryMoves
  <2> QED
    BY <1>0, <1>9, <2>1, RecordKept, NotAsking, CallEffect DEF NoteHistoryRequest, mode
<1>10. CASE Backpressure /\ Observe({}, {})
  <2>1. StallMoves
    BY <1>0, <1>10 DEF Backpressure, NoteBackpressure, StallMoves
  <2>2. \A c \in Channel : Moves(c, {}) /\ HistoryMoves(c, {})
    BY <1>0, <1>10, RecordKept, NotAsking, HistoryKept
    DEF Backpressure, NoteBackpressure, mode
  <2> QED
    BY <1>10, <2>1, <2>2 DEF Effect
<1>11. CASE TimerFires /\ Observe({}, {})
  <2>1. \A c \in Channel : HistoryMoves(c, {})
    BY <1>11 DEF TimerFires, Due, HistoryMoves
  <2> QED
    BY <1>11, <2>1, DueMoves, CallEffect DEF TimerFires, Due
<1>12. CASE Resume /\ Observe({}, {})
  <2>1. ASSUME NEW c \in Channel PROVE c \notin Asking
    BY <1>12, NotAsking DEF Resume
  <2>2. \A c \in Channel : Moves(c, {})
    BY <1>0, <1>12, <2>1, RecordKept DEF Resume
  <2> QED
    BY <1>12, <2>2, HistoryKept, CallEffect DEF Resume
<1>13. CASE HandleDisconnect /\ Observe({}, {})
  <2>1. ASSUME NEW c \in Channel PROVE c \notin Asking
    BY <1>13, ActionsDiffer DEF HandleDisconnect, Asking
  <2>2. \A c \in Channel : HistoryMoves(c, {})
    BY <1>13 DEF HandleDisconnect, HistoryMoves
  <2> QED
    BY <1>0, <1>13, <2>1, <2>2, CallEffect DEF HandleDisconnect, Moves
<1>14. CASE Tick /\ Observe({}, {})
  <2>1. StallMoves
    BY <1>0, <1>14 DEF Tick, stall, StallMoves
  <2>2. \A c \in Channel : Moves(c, {}) /\ HistoryMoves(c, {})
    BY <1>0, <1>14, RecordKept, NotAsking, HistoryKept DEF Tick, mode
  <2> QED
    BY <1>14, <2>1, <2>2 DEF Effect
<1> QED
  BY <1>1, <1>2, <1>3, <1>4, <1>5, <1>6, <1>7, <1>8, <1>9, <1>10, <1>11, <1>12,
     <1>13, <1>14
  DEF TimingNext, DispatchHistoryEnd, ServerIsDirect, Dispatching

-----------------------------------------------------------------------------
(* Every step keeps the invariant.                                         *)

\* At first nothing was asked, heard or armed.
LEMMA TimingInitInv == TimingInit => TimingInv
<1> SUFFICES ASSUME TimingInit PROVE TimingInv
  OBVIOUS
<1>1. TypeOK /\ PhasesConsistent
  BY InitIInv DEF TimingInit, IInv
<1>2. TimingTypeOK /\ stallBegan = None
  BY <1>1 DEF TimingInit, TimingTypeOK, Kind, Time
<1>3. \A c \in Channel : Seen(c)
  <2> SUFFICES ASSUME NEW c \in Channel PROVE Seen(c)
    OBVIOUS
  <2>1. rec[c] = Fresh /\ history[c] = None /\ askedHere = {} /\ now = 0 /\ ~direct
    BY DEF TimingInit, Init
  <2>2. heardAt["replay"][c] = 0 /\ heardAt["history"][c] = 0
    BY DEF TimingInit, Kind
  <2>3. Fresh.phase = "idle"
    BY DEF Fresh
  <2> QED
    BY <2>1, <2>2, <2>3 DEF Seen
<1> QED
  BY <1>1, <1>2, <1>3 DEF TimingInv

\* The observer's part of the step, channel by channel.
LEMMA ObservedStep ==
    ASSUME TimingInv, NEW R \in SUBSET Channel, NEW H \in SUBSET Channel, Effect(R, H)
    PROVE  /\ askedAt' \in [Channel -> Time \cup {None}] /\ askedHere' \subseteq Channel
           /\ heardAt' \in [Kind -> [Channel -> Time]]
           /\ stallBegan' \in Time \cup {None} /\ stallEnded' \in Time \cup {None}
           /\ stallBegan' # None => stallBegan' <= now'
           /\ \A c \in Channel :
                 /\ askedAt'[c] = IF c \in Asking THEN now ELSE askedAt[c]
                 /\ c \in askedHere' => connected' /\ (c \in Asking \/ c \in askedHere)
                 /\ heardAt'["replay"][c] =
                       IF rec'[c].phase # "replaying" THEN 0
                       ELSE IF c \in R \cup Asking THEN now ELSE heardAt["replay"][c]
                 /\ heardAt'["history"][c] =
                       IF history'[c] = None THEN 0
                       ELSE IF c \in H THEN now ELSE heardAt["history"][c]
<1> USE DEF TimingInv, TimingTypeOK, TypeOK, Effect, Time
<1>0. /\ now \in Nat /\ now' \in Nat /\ now <= now' /\ Asking \subseteq Channel
      /\ "replay" \in Kind /\ "history" \in Kind
  BY DEF StallMoves, Asking, Kind
<1> DEFINE R1 == [c \in Channel |->
                     IF rec'[c].phase # "replaying" THEN 0
                     ELSE IF c \in R \cup Asking THEN now ELSE heardAt["replay"][c]]
           H1 == [c \in Channel |->
                     IF history'[c] = None THEN 0
                     ELSE IF c \in H THEN now ELSE heardAt["history"][c]]
<1>1. R1 \in [Channel -> Nat] /\ H1 \in [Channel -> Nat]
  BY <1>0
<1>2. heardAt' = [heardAt EXCEPT !["replay"] = R1, !["history"] = H1]
  BY DEF Observe
<1>3. /\ heardAt' \in [Kind -> [Channel -> Nat]]
      /\ heardAt'["replay"] = R1 /\ heardAt'["history"] = H1
  <2> HIDE DEF R1, H1
  <2> QED
    BY <1>0, <1>1, <1>2
<1>4. /\ askedAt' \in [Channel -> Time \cup {None}] /\ askedHere' \subseteq Channel
      /\ \A c \in Channel : /\ askedAt'[c] = IF c \in Asking THEN now ELSE askedAt[c]
                            /\ c \in askedHere' => connected' /\ (c \in Asking \/ c \in askedHere)
  BY <1>0 DEF Observe
<1>5. /\ stallBegan' \in Nat \cup {None} /\ stallEnded' \in Nat \cup {None}
      /\ stallBegan' # None => stallBegan' <= now'
  BY <1>0 DEF Observe
<1> QED
  BY <1>3, <1>4, <1>5

\* A timer keeps to what was heard, whether it is left alone or armed anew.
LEMMA ArmedStep ==
    ASSUME TimingInv, NEW R, NEW H, Effect(R, H),
           NEW deadline \in Nat, NEW arm \in Nat, NEW heard \in Nat, NEW heard1 \in Nat,
           arm <= episodes,
           \/ deadline = now + Deadline /\ arm = episodes /\ heard1 <= now
           \/ Armed(deadline, arm, heard) /\ heard1 <= heard
    PROVE  /\ heard1 + Deadline <= deadline
           /\ arm = episodes' /\ stallBegan' # None => stallBegan' + Deadline <= deadline
<1>0. /\ now \in Nat /\ episodes \in Nat /\ Deadline \in Nat /\ episodes' \in Nat
      /\ episodes <= episodes' /\ stallBegan \in Nat \cup {None}
      /\ stallBegan # None => stallBegan <= now
      /\ paused' /\ ~paused => episodes' = episodes + 1
      /\ stallBegan' = IF paused' /\ ~paused THEN now ELSE stallBegan
  BY DeadlineAssumption
  DEF TimingInv, TimingTypeOK, TypeOK, Time, Effect, StallMoves, Observe
<1>1. heard1 + Deadline <= deadline
  BY <1>0 DEF Armed
<1>2. ASSUME arm = episodes', stallBegan' # None PROVE stallBegan' + Deadline <= deadline
  <2>1. episodes' = episodes /\ stallBegan' = stallBegan
    BY <1>0, <1>2
  <2> QED
    BY <1>0, <1>2, <2>1 DEF Armed
<1> QED
  BY <1>1, <1>2

\* Every step keeps what was seen of a channel in line with its record.
LEMMA SeenStep ==
    ASSUME TimingInv, NEW R \in SUBSET Channel, NEW H \in SUBSET Channel, Effect(R, H),
           TypeOK', NEW c \in Channel
    PROVE  Seen(c)'
<1>A. heardAt'["replay"][c] \in Nat /\ heardAt'["history"][c] \in Nat
  <2>1. heardAt' \in [Kind -> [Channel -> Nat]]
    BY ObservedStep DEF Time
  <2> QED
    BY <2>1 DEF Kind
<1>B. heardAt["replay"][c] \in Nat /\ heardAt["history"][c] \in Nat
  BY DEF TimingInv, TimingTypeOK, Time, Kind
<1>C. history[c] # None => /\ history[c] \in [deadline : Nat, arm : Nat]
                           /\ history[c].arm <= episodes
  BY DEF TimingInv, TimingTypeOK, TypeOK, PhasesConsistent, Time
<1>0. /\ Seen(c) /\ RecordOK(rec[c]) /\ rec[c] \in ChannelRecord /\ rec'[c] \in ChannelRecord
      /\ Moves(c, R) /\ HistoryMoves(c, H) /\ direct \in BOOLEAN /\ direct' \in BOOLEAN
      /\ now \in Nat /\ episodes \in Nat /\ Deadline \in Nat
  BY DeadlineAssumption
  DEF TimingInv, TimingTypeOK, PhasesConsistent, TypeOK, Time, Effect
<1>1. ASSUME c \in askedHere'
      PROVE  connected' /\ (~direct' => rec'[c].lastReplay # None /\ askedAt'[c] = rec'[c].lastReplay)
  <2>1. /\ connected' /\ (c \in Asking \/ c \in askedHere)
        /\ askedAt'[c] = IF c \in Asking THEN now ELSE askedAt[c]
    BY <1>1, ObservedStep
  <2> QED
    BY <1>0, <1>A, <1>B, <1>C, <2>1, NoneAssumption DEF Moves, Seen
<1>2. direct' => rec'[c].phase = "idle"
  <2>1. direct => rec[c].phase = "idle"
    BY <1>0 DEF Seen
  <2>2. Fresh.phase = "idle" /\ "idle" # "replaying"
    BY DEF Fresh
  <2> QED
    BY <1>0, <2>1, <2>2, Zenon DEF Moves
<1>3. ASSUME rec'[c].phase = "replaying"
      PROVE  Armed(rec[c].deadline, rec[c].arm, heardAt["replay"][c])'
  <2> DEFINE h == heardAt'["replay"][c]
  <2>1. h = IF c \in R \cup Asking THEN now ELSE heardAt["replay"][c]
    BY <1>3, ObservedStep
  <2>2. \/ JustArmed(rec'[c])
        \/ /\ rec[c].phase = "replaying" /\ rec'[c].deadline = rec[c].deadline
           /\ rec'[c].arm = rec[c].arm /\ h = heardAt["replay"][c]
    BY <1>0, <1>A, <1>B, <1>C, <1>3, <2>1 DEF Moves, Fresh
  <2>3. /\ rec'[c].deadline \in Nat /\ rec'[c].arm \in Nat /\ rec'[c].arm <= episodes
        /\ \/ rec'[c].deadline = now + Deadline /\ rec'[c].arm = episodes /\ h <= now
           \/ Armed(rec'[c].deadline, rec'[c].arm, heardAt["replay"][c]) /\ h <= heardAt["replay"][c]
    <3>1. CASE JustArmed(rec'[c])
      BY <1>0, <1>A, <1>B, <1>C, <2>1, <3>1 DEF JustArmed, Seen
    <3> QED
      BY <1>0, <1>A, <1>B, <1>C, <2>2, <3>1 DEF RecordOK, ChannelRecord, Time, Seen
  <2> HIDE DEF h
  <2>4. h \in Nat
    BY <1>0, <1>A, <1>B, <1>C DEF h
  <2>5. /\ h + Deadline <= rec'[c].deadline
        /\ rec'[c].arm = episodes' /\ stallBegan' # None =>
              stallBegan' + Deadline <= rec'[c].deadline
    BY <1>0, <1>A, <1>B, <1>C, <2>3, <2>4, ArmedStep
  <2> QED
    BY <2>5 DEF Armed, h
<1>4. ASSUME history'[c] # None
      PROVE  Armed(history[c].deadline, history[c].arm, heardAt["history"][c])'
  <2> DEFINE h == heardAt'["history"][c]
  <2>1. h = IF c \in H THEN now ELSE heardAt["history"][c]
    BY <1>4, ObservedStep
  <2>2. ArmedHistory.deadline = now + Deadline /\ ArmedHistory.arm = episodes
    BY DEF ArmedHistory
  <2>3. /\ history'[c].deadline \in Nat /\ history'[c].arm \in Nat
        /\ history'[c].arm <= episodes
        /\ \/ /\ history'[c].deadline = now + Deadline /\ history'[c].arm = episodes
              /\ h <= now
           \/ /\ Armed(history'[c].deadline, history'[c].arm, heardAt["history"][c])
              /\ h <= heardAt["history"][c]
    <3>1. CASE history'[c] = ArmedHistory
      BY <1>0, <1>A, <1>B, <1>C, <2>1, <2>2, <3>1 DEF Seen
    <3>2. CASE history'[c] = history[c] /\ c \notin H
      BY <1>0, <1>A, <1>B, <1>C, <1>4, <2>1, <3>2 DEF Seen
    <3> QED
      BY <1>0, <1>A, <1>B, <1>C, <1>4, <3>1, <3>2 DEF HistoryMoves
  <2> HIDE DEF h
  <2>4. h \in Nat
    BY <1>0, <1>A, <1>B, <1>C DEF h
  <2>5. /\ h + Deadline <= history'[c].deadline
        /\ history'[c].arm = episodes' /\ stallBegan' # None =>
              stallBegan' + Deadline <= history'[c].deadline
    BY <1>0, <1>A, <1>B, <1>C, <2>3, <2>4, ArmedStep
  <2> QED
    BY <2>5 DEF Armed, h
<1>5. heardAt'["replay"][c] <= now' /\ heardAt'["history"][c] <= now'
  <2>1. now' \in Nat /\ now <= now'
    BY DEF Effect, StallMoves
  <2>2. heardAt["replay"][c] <= now /\ heardAt["history"][c] <= now
    BY <1>0 DEF Seen
  <2>3. /\ heardAt'["replay"][c] \in {0, now, heardAt["replay"][c]}
        /\ heardAt'["history"][c] \in {0, now, heardAt["history"][c]}
    BY ObservedStep
  <2> QED
    BY <1>0, <1>A, <1>B, <2>1, <2>2, <2>3
<1> QED
  BY <1>1, <1>2, <1>3, <1>4, <1>5 DEF Seen

\* Every step keeps the invariant.
LEMMA TimingStepInv == TimingInv /\ [TimingNext]_timingVars => TimingInv'
<1> SUFFICES ASSUME TimingInv, [TimingNext]_timingVars PROVE TimingInv'
  OBVIOUS
<1>1. TypeOK' /\ PhasesConsistent'
  BY TimingEngineStep, StepIInv DEF TimingInv, TimingTypeOK, IInv
<1>2. CASE TimingNext
  <2>1. PICK R \in SUBSET Channel, H \in SUBSET Channel : Effect(R, H)
    BY <1>2, EffectStep
  <2>2. \A c \in Channel : Seen(c)'
    BY <1>1, <2>1, SeenStep
  <2>3. TimingTypeOK' /\ (stallBegan' # None => stallBegan' <= now')
    BY <1>1, <2>1, ObservedStep DEF TimingTypeOK
  <2> QED
    BY <1>1, <2>2, <2>3 DEF TimingInv
<1>3. CASE UNCHANGED timingVars
  <2>1. UNCHANGED <<now, connected, rec, direct, history, episodes, observed>>
    BY <1>3 DEF timingVars, vars, mode, stall
  <2> QED
    BY <1>1, <2>1 DEF TimingInv, TimingTypeOK, Seen, Armed, observed
<1> QED
  BY <1>2, <1>3

\* The invariant holds in every reachable state.
LEMMA TimingInvHolds == TimingSpec => []TimingInv
BY TimingInitInv, TimingStepInv, PTL DEF TimingSpec

-----------------------------------------------------------------------------
\* On one connection, any two replays of a channel are replay_floor apart,
\* whatever asks for the second one (recovery.py, handle_gap,
\* handle_replay_complete, due).
THEOREM FloorKept == TimingSpec => FloorPerConnection
<1>1. TimingInv /\ [TimingNext]_timingVars =>
         [\A c \in Asking : c \in askedHere => FloorSince(c)]_timingVars
  <2> SUFFICES ASSUME TimingInv, TimingNext, NEW c \in Asking, c \in askedHere
               PROVE  FloorSince(c)
    OBVIOUS
  <2>1. PICK R \in SUBSET Channel, H \in SUBSET Channel : Effect(R, H)
    BY EffectStep
  <2>2. c \in Channel
    BY DEF Asking
  <2>3. FloorOpen(rec[c]) /\ ~direct
    BY <2>1, <2>2 DEF Effect, Moves
  <2>4. rec[c].lastReplay \in Nat /\ askedAt[c] = rec[c].lastReplay /\ now \in Nat
    BY <2>2, <2>3 DEF TimingInv, TimingTypeOK, TypeOK, ChannelRecord, Time, Seen
  <2> QED
    BY <2>3, <2>4, NoneAssumption, FloorAssumption DEF FloorOpen, FloorSince
<1> QED
  BY <1>1, TimingInvHolds, PTL DEF TimingSpec, FloorPerConnection

\* An interruption the timer decides on follows a whole detection deadline in
\* which the server was silent and no stall of the consumer began (recovery.py,
\* due and _backpressure_suspends).
THEOREM SilencePrecedes == TimingSpec => InterruptedAfterSilence
<1> DEFINE Waited(k, c) == /\ now - heardAt[k][c] >= Deadline
                           /\ ~paused
                           /\ stallBegan = None \/ now - stallBegan >= Deadline
<1>1. TimingInv /\ [TimingNext]_timingVars =>
         [\A k \in Kind : \A c \in TimedOut(k) : Waited(k, c)]_timingVars
  <2> SUFFICES ASSUME TimingInv, NEW k \in Kind, NEW c \in TimedOut(k)
               PROVE  Waited(k, c)
    OBVIOUS
  <2>0. /\ c \in Channel /\ TimerFires /\ Interrupted(c, k) \in out' /\ Seen(c)
        /\ now \in Nat /\ Deadline \in Nat /\ stallBegan \in Nat \cup {None}
        /\ heardAt[k][c] \in Nat
    BY DeadlineAssumption DEF TimedOut, TimingInv, TimingTypeOK, TypeOK, Time
  <2>1. CASE k = "replay"
    <3>1. ReplayLate(c) /\ ~BackpressureSuspends(rec[c].arm)
      BY <2>0, <2>1, ActionsDiffer DEF TimerFires, Due, ReplayFromAnchor
    <3>2. /\ now >= rec[c].deadline /\ Armed(rec[c].deadline, rec[c].arm, heardAt[k][c])
          /\ rec[c].deadline \in Nat /\ rec[c].arm = episodes /\ ~paused
      BY <2>0, <2>1, <3>1
      DEF ReplayLate, BackpressureSuspends, Seen, TimingInv, TimingTypeOK, TypeOK,
          ChannelRecord, Time
    <3> QED
      BY <2>0, <3>2 DEF Armed
  <2>2. CASE k = "history"
    <3>1. HistoryLate(c) /\ ~BackpressureSuspends(history[c].arm)
      BY <2>0, <2>2, ActionsDiffer DEF TimerFires, Due, ReplayFromAnchor
    <3>2. /\ now >= history[c].deadline
          /\ Armed(history[c].deadline, history[c].arm, heardAt[k][c])
          /\ history[c].deadline \in Nat /\ history[c].arm = episodes /\ ~paused
      BY <2>0, <2>2, <3>1
      DEF HistoryLate, BackpressureSuspends, Seen, TimingInv, TimingTypeOK, TypeOK, Time
    <3> QED
      BY <2>0, <3>2 DEF Armed
  <2> QED
    BY <2>1, <2>2 DEF Kind
<1> QED
  BY <1>1, TimingInvHolds, PTL DEF TimingSpec, InterruptedAfterSilence
===============================================================================
