------------------------ MODULE ClientRecovery_proofs -------------------------
(***************************************************************************)
(* Proofs about the recovery engine in use.  GapRecovery, for any channels *)
(* and log length, any floor and deadline, and both backends: the server   *)
(* keeps to what the engine expects, and then nothing the server dropped is*)
(* forgotten, and a loss on a Direct backend is reported.  ClientEpoch, for*)
(* any queue size: however pump, timer, user and failures interleave, they *)
(* call the engine as its own specification allows, its stall flag is right,*)
(* and the timer never sleeps for ever by mistake.                         *)
(***************************************************************************)
EXTENDS GapRecovery, ClientEpoch, RecoveryEngine_proofs

-----------------------------------------------------------------------------
(* Gap recovery.                                                           *)

-----------------------------------------------------------------------------
(* What the operators of the model return.                                 *)

\* The least element of a set of naturals is its Min.
LEMMA MinIsMember ==
    ASSUME NEW S \in SUBSET Nat, S # {}
    PROVE  Min(S) \in S
BY HasLeast DEF Min

\* Task t is to ask for a replay of c from p.
Asks(t, c, p) == SendReplay(c, p) \in todo[t]

\* What carrying out a list does to the lists and to one channel c: its sends
\* and puts stay, and c's interruption is raised or still in the list.
LEMMA CarriedOut ==
    ASSUME NEW t \in Task, NEW S, NEW L, NEW G, NEW c \in Channel,
           CarryOut(t, S, L, G), todo \in [Task -> SUBSET Action]
    PROVE  /\ \A u \in Task \ {t} : todo'[u] = todo[u]
           /\ todo'[t] \subseteq S /\ \A x \in S : x.do # "raise" => x \in todo'[t]
           /\ \A p \in Pos : SendReplay(c, p) \in S <=> SendReplay(c, p) \in todo'[t]
           /\ (\A x \in S : x.do = "raise") => todo'[t] = {}
           /\ \/ /\ Interrupted(c, "replay") \in S
                 /\ lost'[c] = L[c] \ G[c] /\ givenUp'[c] = {}
              \/ /\ Interrupted(c, "replay") \in S => Interrupted(c, "replay") \in todo'[t]
                 /\ lost'[c] = L[c] /\ givenUp'[c] = G[c]
                 /\ c \in abandoned => c \in abandoned'
<1>1. PICK told \in SUBSET {x \in S : x.do = "raise"} :
        /\ (\A x \in S : x.do = "raise") => told = S
        /\ todo' = [todo EXCEPT ![t] = S \ told]
        /\ LET heard == {d \in Channel : Interrupted(d, "replay") \in told} IN
           /\ lost' = [d \in Channel |->
                 IF d \in heard THEN L[d] \ G[d] ELSE L[d]]
           /\ givenUp' = [d \in Channel |-> IF d \in heard THEN {} ELSE G[d]]
           /\ abandoned' = abandoned \ heard
  BY DEF CarryOut
<1>2. todo'[t] = S \ told /\ \A u \in Task \ {t} : todo'[u] = todo[u]
  BY <1>1
<1>3. \A p : SendReplay(c, p).do # "raise"
  BY DEF SendReplay
<1>4. \A x \in S : x.do # "raise" => x \in todo'[t]
  BY <1>1, <1>2
<1>5. CASE Interrupted(c, "replay") \in told
  <2>1. lost'[c] = L[c] \ G[c] /\ givenUp'[c] = {}
    BY <1>1, <1>5
  <2> QED
    BY <1>1, <1>2, <1>3, <1>4, <1>5, <2>1
<1>6. CASE Interrupted(c, "replay") \notin told
  <2>1. lost'[c] = L[c] /\ givenUp'[c] = G[c] /\ (c \in abandoned => c \in abandoned')
    BY <1>1, <1>6
  <2> QED
    BY <1>1, <1>2, <1>3, <1>4, <1>6, <2>1
<1> QED
  BY <1>5, <1>6

\* Its effect on a channel of which the list holds no interruption.
LEMMA NotReported ==
    ASSUME NEW t, NEW S, NEW L, NEW G, NEW c \in Channel, CarryOut(t, S, L, G),
           Interrupted(c, "replay") \notin S
    PROVE  lost'[c] = L[c] /\ givenUp'[c] = G[c]
BY DEF CarryOut

\* What the engine still recovers is what it did before the list.
LEMMA StillOpen ==
    ASSUME NEW t, NEW S, NEW L, NEW G, NEW c \in Channel, CarryOut(t, S, L, G)
    PROVE  lost'[c] \ givenUp'[c] = L[c] \ G[c]
<1>1. \/ lost'[c] = L[c] \ G[c] /\ givenUp'[c] = {}
      \/ lost'[c] = L[c] /\ givenUp'[c] = G[c]
  BY DEF CarryOut
<1> QED
  BY <1>1

\* Carrying out a list keeps the types.
LEMMA CarryOutTypes ==
    ASSUME NEW t \in Task, NEW S \in SUBSET Action,
           NEW L \in [Channel -> SUBSET Message], NEW G \in [Channel -> SUBSET Message],
           CarryOut(t, S, L, G), todo \in [Task -> SUBSET Action], abandoned \subseteq Channel
    PROVE  /\ lost' \in [Channel -> SUBSET Message] /\ givenUp' \in [Channel -> SUBSET Message]
           /\ todo' \in [Task -> SUBSET Action] /\ abandoned' \subseteq Channel
BY DEF CarryOut

-----------------------------------------------------------------------------
(* The inductive invariant.                                                *)

\* The lost messages of c that the engine still recovers.
Open(c) == lost[c] \ givenUp[c]

\* A request about to be sent is the only one of its channel, and there is no
\* other replay of it; the timer's is of the cycle in flight.
Requested(c) ==
    \A t \in Task, p \in Pos : Asks(t, c, p) =>
        /\ asked[c] = <<>> /\ rec[c].phase # "floor_wait"
        /\ t = "timer" => rec[c].phase = "replaying"
        /\ \A u \in Task, q \in Pos : Asks(u, c, q) => u = t /\ q = p

Later(c, m) == rec[c].followup # None /\ m > rec[c].followup

\* What is still owed to channel c, by phase: an idle channel is owed nothing;
\* one that waits for the floor, only what follows its anchor; one that
\* replays, what the one replay under way, or about to be asked for, brings or
\* follows its follow-up, unless the epoch is ending.
\* Anchor and follow-up never lie beyond the last message the server sent.
Owed(c) ==
    /\ Requested(c)
    /\ rec[c].phase = "idle" => Open(c) = {} /\ asked[c] = <<>>
    /\ rec[c].phase = "floor_wait" =>
          /\ asked[c] = <<>> /\ rec[c].anchor \in Pos /\ rec[c].anchor <= sent[c]
          /\ \A m \in Open(c) : m > rec[c].anchor
    /\ rec[c].phase = "replaying" =>
          /\ rec[c].followup # None => rec[c].followup <= sent[c]
          /\ \/ /\ asked[c] = <<asked[c][1]>>
                /\ \A m \in Open(c) : m \in asked[c][1] \/ Later(c, m)
             \/ asked[c] = <<>> /\ gone # {}
             \/ /\ asked[c] = <<>>
                /\ \E t \in Task, p \in Pos :
                      Asks(t, c, p) /\ \A m \in Open(c) : m > p \/ Later(c, m)

\* The client takes the backend for Direct only if it is.
Backend == (kafka => ~direct) /\ (probe => ~kafka /\ ~direct)

\* Nothing is replayed by a Direct backend, nor while there is no connection,
\* when there are no tasks either; a Direct backend gives the tasks nothing but PossibleGaps to put.
Parted ==
    /\ ~kafka \/ ~connected => \A c \in Channel : rec[c].phase = "idle" /\ asked[c] = <<>>
    /\ ~connected => \A t \in Task : todo[t] = {}
    /\ ~kafka => /\ todo["timer"] = {}
                 /\ \A x \in todo["pump"] : x.do = "possible_gap"

\* What the engine has given up has its interruption in a list, if that was
\* not abandoned.
Accounted == \A c \in Channel : givenUp[c] # {} => ToBeRaised(c) \/ c \in abandoned

\* What holds whatever the server answers; with Owed it is the invariant of a
\* server that completes no replay the engine has given up.
GapBase == GapTypeOK /\ PhasesConsistent /\ Backend /\ Parted /\ Accounted
GapInv == GapBase /\ \A c \in Channel : Owed(c)

\* Every step of the composition is a call the engine may get.
LEMMA EngineStep == GapBase /\ [GapNext]_gapVars => [Next]_vars
<1> SUFFICES ASSUME GapBase, [GapNext]_gapVars PROVE [Next]_vars
  OBVIOUS
<1> USE LogAssumption DEF GapBase, GapTypeOK
<1>0. \A c \in Channel :
         /\ sent[c] \in Pos /\ (sent[c] < MaxPos => sent[c] + 1 \in Pos)
         /\ asked[c] # <<>> => ~direct /\ kafka
  BY DEF Parted, Backend
<1>1. ASSUME NEW c \in Channel, Live(c) PROVE Next
  BY <1>0, <1>1 DEF Live, Reading, Next, DispatchKafkaFrame, Backend
<1>2. ASSUME NEW c \in Channel, Drop(c) PROVE Next
  BY <1>0, <1>2 DEF Drop, Reading, Next, DispatchKafkaFrame, Backend
<1>3. ASSUME NEW c \in Channel, Replayed(c) PROVE Next
  <2>1. Head(asked[c]) \in SUBSET Message /\ Head(asked[c]) # {}
    BY <1>3 DEF Replayed
  <2>2. Min(Head(asked[c])) \in Pos
    <3>1. Message \subseteq Nat /\ Message \subseteq Pos
      BY DEF Message
    <3>2. Head(asked[c]) \in SUBSET Nat
      BY <2>1, <3>1
    <3>3. Min(Head(asked[c])) \in Head(asked[c])
      BY <2>1, <3>2, MinIsMember
    <3> QED
      BY <2>1, <3>1, <3>3
  <2> QED
    BY <1>0, <1>3, <2>2 DEF Replayed, Reading, Next, DispatchKafkaFrame
<1>4. ASSUME NEW c \in Channel, Completed(c) PROVE Next
  BY <1>0, <1>4 DEF Completed, Reading, Next, DispatchKafkaFrame
<1>5. ASSUME NEW c \in Channel, Refused(c) PROVE Next
  BY <1>0, <1>5 DEF Refused, Reading, Next, DispatchKafkaFrame
<1>6. CASE Timer \/ Stall \/ Disconnect \/ Reconnect
  BY <1>6 DEF Timer, Stall, Disconnect, Reconnect, Next
<1>7. CASE NotAvailable
  BY <1>7 DEF NotAvailable, Reading, Next, ServerIsDirect, Backend
<1>8. CASE \/ \E t \in Task, c \in Channel, p \in Pos : Sent(t, c, p)
           \/ \E t \in Task : SendFails(t)
           \/ \E c \in Channel : PutGap(c) \/ LostWhileAway(c)
           \/ UNCHANGED gapVars
  BY <1>8 DEF Sent, SendFails, PutGap, LostWhileAway, gapVars
<1>9. CASE Tick
  BY <1>9 DEF Next
<1> QED
  BY <1>1, <1>2, <1>3, <1>4, <1>5, <1>6, <1>7, <1>8, <1>9 DEF GapNext

-----------------------------------------------------------------------------
(* Every step keeps the invariant.                                         *)

\* At first nothing has been dropped.
LEMMA GapInitInv == GapInit => GapInv
<1> SUFFICES ASSUME GapInit PROVE GapInv
  OBVIOUS
<1> USE LogAssumption DEF GapInit
<1>1. TypeOK /\ PhasesConsistent
  BY InitIInv DEF IInv
<1>2. 0 \in Pos /\ {} \in SUBSET Message /\ <<>> \in Seq(SUBSET Message)
  OBVIOUS
<1>3. GapTypeOK
  BY <1>1, <1>2 DEF GapTypeOK
<1>4. Parted /\ \A c \in Channel : Owed(c)
  BY DEF Init, Parted, Owed, Open, Requested, Asks, Fresh, Task
<1>5. Backend /\ Accounted
  BY DEF Init, mode, Backend, Accounted
<1> QED
  BY <1>1, <1>3, <1>4, <1>5 DEF GapInv, GapBase

\* Every step keeps the types.
LEMMA GapTypeStep == GapBase /\ [GapNext]_gapVars => GapTypeOK' /\ PhasesConsistent'
<1> SUFFICES ASSUME GapBase, [GapNext]_gapVars PROVE GapTypeOK'
  BY EngineStep, StepIInv DEF GapBase, GapTypeOK, IInv
<1>0. TypeOK' /\ out' \in SUBSET Action
  BY EngineStep, StepIInv DEF GapBase, GapTypeOK, IInv, TypeOK
<1> USE LogAssumption DEF GapBase, GapTypeOK, log, lists, backend
<1>t. /\ "pump" \in Task /\ "timer" \in Task /\ NowGivenUp \in [Channel -> SUBSET Message]
      /\ \A q \in [Channel -> Seq(SUBSET Message)] : Pending(q) \in [Channel -> Seq(SUBSET Message)]
  BY DEF Task, NowGivenUp, Pending
<1>1. ASSUME NEW c \in Channel, Live(c) PROVE GapTypeOK'
  BY <1>0, <1>1 DEF Live
<1>2. ASSUME NEW c \in Channel, Drop(c) PROVE GapTypeOK'
  <2>1. [lost EXCEPT ![c] = @ \cup {sent[c] + 1}] \in [Channel -> SUBSET Message]
    BY <1>2 DEF Drop, Message
  <2>2. sent' \in [Channel -> Pos]
    BY <1>2 DEF Drop
  <2> QED
    BY <1>0, <1>t, <1>2, <2>1, <2>2, CarryOutTypes DEF Drop
<1>3. ASSUME NEW c \in Channel, Replayed(c) PROVE GapTypeOK'
  <2> DEFINE m == Min(Head(asked[c]))
  <2>1. /\ lost' = [lost EXCEPT ![c] = @ \ {m}] /\ UNCHANGED <<sent, lists, backend>>
        /\ givenUp' = [givenUp EXCEPT ![c] = @ \ {m}]
        /\ asked' = [asked EXCEPT ![c][1] = @ \ {m}] /\ asked[c] # <<>>
    BY <1>3 DEF Replayed
  <2>2. [asked[c] EXCEPT ![1] = @ \ {m}] \in Seq(SUBSET Message)
    BY <2>1
  <2> HIDE DEF m
  <2>3. /\ asked' \in [Channel -> Seq(SUBSET Message)] /\ lost' \in [Channel -> SUBSET Message]
        /\ givenUp' \in [Channel -> SUBSET Message]
    BY <2>1, <2>2
  <2> QED
    BY <1>0, <2>1, <2>3
<1>4. ASSUME NEW c \in Channel, Completed(c) \/ Refused(c) PROVE GapTypeOK'
  <2>1. Tail(asked[c]) \in Seq(SUBSET Message)
    BY <1>4 DEF Completed, Refused
  <2>2. [asked EXCEPT ![c] = Tail(@)] \in [Channel -> Seq(SUBSET Message)]
    BY <2>1
  <2>3. CASE Completed(c)
    BY <1>0, <1>t, <2>2, <2>3, CarryOutTypes DEF Completed
  <2>4. CASE Refused(c)
    BY <1>0, <1>t, <2>2, <2>4, CarryOutTypes DEF Refused
  <2> QED
    BY <1>4, <2>3, <2>4
<1>5. CASE Timer
  BY <1>0, <1>t, <1>5, CarryOutTypes DEF Timer
<1>6. ASSUME NEW t \in Task, NEW c \in Channel, NEW p \in Pos, Sent(t, c, p) PROVE GapTypeOK'
  <2>1. todo[t] \ {SendReplay(c, p)} \in SUBSET Action
    OBVIOUS
  <2>2. {m \in lost[c] : m > p} \in SUBSET Message
    OBVIOUS
  <2>3. \A q \in Seq(SUBSET Message), s \in SUBSET Message : Append(q, s) \in Seq(SUBSET Message)
    OBVIOUS
  <2>4. Append(asked[c], {m \in lost[c] : m > p}) \in Seq(SUBSET Message)
    BY <2>2, <2>3
  <2>5. asked' \in [Channel -> Seq(SUBSET Message)]
    BY <1>6, <2>4 DEF Sent
  <2>6. /\ lost' \in [Channel -> SUBSET Message] /\ givenUp' \in [Channel -> SUBSET Message]
        /\ todo' \in [Task -> SUBSET Action] /\ abandoned' \subseteq Channel
    BY <1>6, <2>1, CarryOutTypes DEF Sent
  <2> QED
    BY <1>0, <1>6, <2>5, <2>6 DEF Sent
<1>7. CASE Disconnect
  <2>1. lost' \in [Channel -> SUBSET Message] /\ givenUp' \in [Channel -> SUBSET Message]
    BY <1>7 DEF Disconnect
  <2>2. <<>> \in Seq(SUBSET Message)
    OBVIOUS
  <2>3. asked' \in [Channel -> Seq(SUBSET Message)]
    BY <1>7, <2>2 DEF Disconnect
  <2>4. todo' \in [Task -> SUBSET Action] /\ gone' \subseteq Task /\ abandoned' \subseteq Channel
    BY <1>7 DEF Disconnect, Reports
  <2> QED
    BY <1>0, <1>7, <2>1, <2>3, <2>4 DEF Disconnect
<1>8. CASE Reconnect
  <2>1. sent' \in [Channel -> Pos]
    BY <1>8 DEF Reconnect, TypeOK
  <2>2. lost' \in [Channel -> SUBSET Message] /\ givenUp' \in [Channel -> SUBSET Message]
    BY <1>8 DEF Reconnect
  <2> QED
    BY <1>0, <1>8, <2>1, <2>2 DEF Reconnect
<1>9. CASE NotAvailable
  BY <1>0, <1>t, <1>9 DEF NotAvailable
<1>10. CASE Stall \/ (Tick /\ UNCHANGED <<log, lists, backend>>) \/ UNCHANGED gapVars
  BY <1>0, <1>10 DEF Stall, gapVars
<1>11. ASSUME NEW c \in Channel, PutGap(c) \/ LostWhileAway(c) PROVE GapTypeOK'
  BY <1>0, <1>t, <1>11 DEF PutGap, LostWhileAway
<1>12. ASSUME NEW t \in Task, SendFails(t) PROVE GapTypeOK'
  BY <1>0, <1>12 DEF SendFails, Reports
<1> QED
  BY <1>1, <1>2, <1>3, <1>4, <1>5, <1>6, <1>7, <1>8, <1>9, <1>10, <1>11, <1>12 DEF GapNext

\* Every step keeps what is known of the backend.
LEMMA BackendStep == GapBase /\ [GapNext]_gapVars => Backend'
<1> SUFFICES ASSUME GapBase, [GapNext]_gapVars PROVE Backend'
  OBVIOUS
<1> USE DEF GapBase, Backend, log, lists, backend, mode, gapVars, vars
<1>1. ASSUME NEW c \in Channel,
             Live(c) \/ Drop(c) \/ Replayed(c) \/ Completed(c) \/ Refused(c)
      PROVE  UNCHANGED <<direct, backend>>
  BY <1>1 DEF Live, NotePos, Drop, HandleGap, Replayed, NoteReplayMessage, Completed,
     HandleReplayComplete, Refused, HandleRecoveryFailure
<1>2. CASE Timer \/ Stall \/ (Tick /\ UNCHANGED <<log, lists, backend>>)
  BY <1>2 DEF Timer, TimerFires, Due, Stall, Backpressure, NoteBackpressure, Tick
<1>3. CASE Disconnect \/ NotAvailable \/ (\E c \in Channel : PutGap(c) \/ LostWhileAway(c))
  BY <1>3 DEF Disconnect, HandleDisconnect, NotAvailable, HandleNotAvailable, PutGap, LostWhileAway
<1>4. ASSUME NEW t \in Task, SendFails(t) \/ \E c \in Channel, p \in Pos : Sent(t, c, p)
      PROVE  UNCHANGED <<direct, backend>>
  BY <1>4 DEF Sent, SendFails
<1>5. CASE Reconnect
  BY <1>5 DEF Reconnect, Resume, Probes
<1> QED
  BY <1>1, <1>2, <1>3, <1>4, <1>5 DEF GapNext

\* No step replays without a connection to a Kafka backend.
LEMMA PartedStep == GapBase /\ [GapNext]_gapVars => Parted'
<1> SUFFICES ASSUME GapBase, [GapNext]_gapVars PROVE Parted'
  OBVIOUS
<1> USE DEF GapBase, Parted, log, lists, backend, mode, stall, gapVars, vars
<1>0. todo \in [Task -> SUBSET Action] /\ Task = {"pump", "timer"}
  BY DEF GapTypeOK, Task
<1>1. ASSUME NEW c \in Channel,
             Live(c) \/ Drop(c) \/ Replayed(c) \/ Completed(c) \/ Refused(c)
      PROVE  Parted'
  <2>1. UNCHANGED <<kafka, connected>> /\ connected
    BY <1>1 DEF Live, NotePos, Drop, HandleGap, Replayed, NoteReplayMessage, Completed,
       HandleReplayComplete, Refused, HandleRecoveryFailure, Reading, Dispatching
  <2>2. kafka
    BY <1>1 DEF Live, Drop, Replayed, Completed, Refused
  <2> QED
    BY <2>1, <2>2
<1>2. CASE Timer
  <2>1. /\ connected /\ UNCHANGED <<kafka, connected>>
        /\ Due /\ CarryOut("timer", out', lost, NowGivenUp) /\ asked' = Pending(asked)
    BY <1>2 DEF Timer, TimerFires, Due
  <2> SUFFICES ASSUME ~kafka
               PROVE  /\ \A c \in Channel : rec'[c].phase = "idle" /\ asked'[c] = <<>>
                      /\ todo'["timer"] = {} /\ todo'["pump"] = todo["pump"]
    BY <2>1
  <2>2. /\ \A c \in Channel : rec[c].phase = "idle" /\ asked[c] = <<>>
        /\ \A d \in Channel : ~FloorElapsed(d) /\ ~ReplayLate(d)
    BY DEF FloorElapsed, ReplayLate
  <2>3. rec' = [c \in Channel |-> rec[c]] /\ \A x \in out' : x.do = "raise"
    BY <2>1, <2>2 DEF Due, Interrupted
  <2>4. \A c \in Channel : asked'[c] = <<>>
    BY <2>1, <2>2 DEF Pending
  <2>5. todo'["timer"] = {} /\ todo'["pump"] = todo["pump"]
    BY <1>0, <2>1, <2>3 DEF CarryOut
  <2> QED
    BY <2>2, <2>3, <2>4, <2>5
<1>3. CASE \/ Stall \/ (Tick /\ UNCHANGED <<log, lists, backend>>) \/ UNCHANGED gapVars
           \/ \E c \in Channel : LostWhileAway(c)
  <2>1. UNCHANGED <<rec, asked, todo, kafka, connected>>
    BY <1>3 DEF Stall, Backpressure, NoteBackpressure, Tick, LostWhileAway
  <2> QED
    BY <2>1
<1>4. CASE Disconnect
  BY <1>0, <1>4 DEF Disconnect, HandleDisconnect, Fresh
<1>5. CASE Reconnect
  <2>1. ~connected /\ UNCHANGED <<rec, asked, todo, kafka>>
    BY <1>5 DEF Reconnect, Resume
  <2> QED
    BY <2>1
<1>6. CASE NotAvailable
  <2>1. ~kafka /\ asked' = asked
    BY <1>6 DEF NotAvailable, Backend
  <2>2. \A c \in Channel : rec'[c].phase = "idle"
    BY <1>6 DEF NotAvailable, HandleNotAvailable, Fresh
  <2>4. connected /\ connected' = connected
    BY <1>6 DEF NotAvailable, HandleNotAvailable, Reading, Dispatching
  <2>3. todo'["timer"] = todo["timer"] /\ \A x \in todo'["pump"] : x.do = "possible_gap"
    BY <1>0, <1>6 DEF NotAvailable, HandleNotAvailable, EmitPossibleGap
  <2> QED
    BY <2>1, <2>2, <2>3, <2>4
<1>7. ASSUME NEW c \in Channel, PutGap(c) PROVE Parted'
  <2>1. UNCHANGED <<rec, asked, kafka, connected>>
    BY <1>7 DEF PutGap
  <2>2. todo'["timer"] = todo["timer"] /\ todo'["pump"] \subseteq todo["pump"]
    BY <1>0, <1>7 DEF PutGap
  <2> QED
    BY <1>0, <2>1, <2>2
<1>8. ASSUME NEW t \in Task, NEW c \in Channel, NEW p \in Pos, Sent(t, c, p) PROVE Parted'
  <2>1. SendReplay(c, p) \in todo[t] /\ SendReplay(c, p).do = "replay"
    BY <1>8 DEF Sent, SendReplay
  <2>2. kafka /\ connected /\ kafka' = kafka /\ connected' = connected
    BY <1>0, <1>8, <2>1 DEF Sent
  <2> QED
    BY <2>2
<1>9. ASSUME NEW t \in Task, SendFails(t) PROVE Parted'
  <2>1. UNCHANGED <<rec, asked, kafka, connected>>
    BY <1>9 DEF SendFails
  <2>2. todo'["timer"] \subseteq todo["timer"] /\ todo'["pump"] \subseteq todo["pump"]
    BY <1>0, <1>9 DEF SendFails
  <2> QED
    BY <1>0, <2>1, <2>2
<1> QED
  BY <1>1, <1>2, <1>3, <1>4, <1>5, <1>6, <1>7, <1>8, <1>9 DEF GapNext

\* Carrying out a list keeps the account, if it holds the interruptions of its
\* task and of what has just been given up.
LEMMA CarryOutAccounts ==
    ASSUME NEW t \in Task, NEW S, NEW L, NEW G, CarryOut(t, S, L, G),
           todo \in [Task -> SUBSET Action], Accounted,
           \A c \in Channel : Interrupted(c, "replay") \in todo[t] => Interrupted(c, "replay") \in S,
           \A c \in Channel : G[c] = givenUp[c] \/ Interrupted(c, "replay") \in S
    PROVE  Accounted'
<1> SUFFICES ASSUME NEW c \in Channel, givenUp'[c] # {}
             PROVE  ToBeRaised(c)' \/ c \in abandoned'
  BY DEF Accounted
<1> DEFINE i == Interrupted(c, "replay")
<1>1. /\ i \in S => i \in todo'[t]
      /\ givenUp'[c] = G[c] /\ (c \in abandoned => c \in abandoned')
      /\ \A u \in Task \ {t} : todo'[u] = todo[u]
  BY CarriedOut
<1>2. i \in S \/ (\E u \in Task : i \in todo[u]) \/ c \in abandoned
  BY <1>1 DEF Accounted, ToBeRaised
<1>3. ASSUME NEW u \in Task, i \in todo[u] PROVE i \in todo'[u]
  <2>1. CASE u = t
    BY <1>1, <1>3, <2>1
  <2>2. CASE u # t
    BY <1>1, <1>3, <2>2
  <2> QED
    BY <2>1, <2>2
<1> QED
  BY <1>1, <1>2, <1>3 DEF ToBeRaised

\* Every step keeps the account of what has been given up.
LEMMA AccountedStep == GapBase /\ [GapNext]_gapVars => Accounted'
<1> SUFFICES ASSUME GapBase, [GapNext]_gapVars PROVE Accounted'
  OBVIOUS
<1>0. /\ todo \in [Task -> SUBSET Action] /\ "pump" \in Task /\ "timer" \in Task /\ Accounted
      /\ givenUp \in [Channel -> SUBSET Message]
  BY DEF GapBase, GapTypeOK, Task
<1> USE DEF log, lists, backend, gapVars
<1>1. ASSUME NEW c \in Channel, Live(c) \/ LostWhileAway(c) PROVE Accounted'
  <2>1. UNCHANGED <<givenUp, todo, abandoned>>
    BY <1>1 DEF Live, LostWhileAway
  <2> QED
    BY <1>0, <2>1 DEF Accounted, ToBeRaised
<1>2. ASSUME NEW c \in Channel, Drop(c) \/ Completed(c) PROVE Accounted'
  <2>1. todo["pump"] = {} /\ \E L : CarryOut("pump", out', L, givenUp)
    BY <1>2 DEF Drop, Completed, Reading
  <2> QED
    BY <1>0, <2>1, CarryOutAccounts
<1>3. \A c \in Channel : NowGivenUp[c] = givenUp[c] \/ Interrupted(c, "replay") \in out'
  BY DEF NowGivenUp, Reported
<1>4. ASSUME NEW c \in Channel, Refused(c) PROVE Accounted'
  <2>1. todo["pump"] = {} /\ CarryOut("pump", out', lost, NowGivenUp)
    BY <1>4 DEF Refused, Reading
  <2> QED
    BY <1>0, <1>3, <2>1, CarryOutAccounts
<1>5. CASE Timer
  <2>1. todo["timer"] = {} /\ CarryOut("timer", out', lost, NowGivenUp)
    BY <1>5 DEF Timer
  <2> QED
    BY <1>0, <1>3, <2>1, CarryOutAccounts
<1>6. ASSUME NEW t \in Task, NEW c \in Channel, NEW p \in Pos, Sent(t, c, p) PROVE Accounted'
  <2>1. CarryOut(t, todo[t] \ {SendReplay(c, p)}, lost, givenUp)
    BY <1>6 DEF Sent
  <2>2. \A d \in Channel : Interrupted(d, "replay") \in todo[t] =>
            Interrupted(d, "replay") \in todo[t] \ {SendReplay(c, p)}
    BY ActionsDiffer
  <2> QED
    BY <1>0, <2>1, <2>2, CarryOutAccounts
<1>7. ASSUME NEW t \in Task, SendFails(t) PROVE Accounted'
  <2> SUFFICES ASSUME NEW c \in Channel, givenUp'[c] # {}
               PROVE  ToBeRaised(c)' \/ c \in abandoned'
    BY DEF Accounted
  <2>1. /\ givenUp' = givenUp /\ abandoned' = abandoned \cup Reports(todo[t])
        /\ \A u \in Task \ {t} : todo'[u] = todo[u]
    BY <1>0, <1>7 DEF SendFails
  <2>2. CASE Interrupted(c, "replay") \in todo[t]
    BY <2>1, <2>2 DEF Reports
  <2>3. CASE Interrupted(c, "replay") \notin todo[t]
    BY <1>0, <2>1, <2>3 DEF Accounted, ToBeRaised
  <2> QED
    BY <2>2, <2>3
<1>8. ASSUME NEW c \in Channel, Replayed(c) PROVE Accounted'
  <2>1. /\ UNCHANGED <<todo, abandoned>>
        /\ \A d \in Channel : givenUp'[d] \subseteq givenUp[d]
    BY <1>0, <1>8 DEF Replayed
  <2> QED
    BY <1>0, <2>1 DEF Accounted, ToBeRaised
<1>9. CASE Disconnect
  <2> SUFFICES ASSUME NEW c \in Channel, givenUp'[c] # {} PROVE c \in abandoned'
    BY DEF Accounted
  <2>1. ~Reported(c) /\ givenUp[c] # {}
        /\ abandoned' = (abandoned \cup Reports(UNION {todo[t] : t \in Task}))
                            \ {d \in Channel : Reported(d)}
    BY <1>9 DEF Disconnect
  <2>2. c \in abandoned \/ c \in Reports(UNION {todo[t] : t \in Task})
    BY <1>0, <2>1 DEF Accounted, ToBeRaised, Reports
  <2> QED
    BY <2>1, <2>2
<1>10. CASE Reconnect
  <2>1. /\ UNCHANGED <<todo, abandoned>>
        /\ \A d \in Channel : givenUp'[d] \subseteq givenUp[d]
    BY <1>10 DEF Reconnect
  <2> QED
    BY <1>0, <2>1 DEF Accounted, ToBeRaised
<1>11. CASE NotAvailable
  <2>1. UNCHANGED <<givenUp, abandoned>> /\ todo["pump"] = {}
        /\ \A u \in Task \ {"pump"} : todo'[u] = todo[u]
    BY <1>0, <1>11 DEF NotAvailable, Reading
  <2> QED
    BY <1>0, <2>1 DEF Accounted, ToBeRaised
<1>12. ASSUME NEW c \in Channel, PutGap(c) PROVE Accounted'
  <2>1. /\ UNCHANGED <<givenUp, abandoned>>
        /\ todo' = [todo EXCEPT !["pump"] = @ \ {EmitPossibleGap(c)}]
    BY <1>12 DEF PutGap
  <2>2. \A d \in Channel, u \in Task :
            Interrupted(d, "replay") \in todo[u] => Interrupted(d, "replay") \in todo'[u]
    BY <1>0, <2>1, ActionsDiffer
  <2> QED
    BY <1>0, <2>1, <2>2 DEF Accounted, ToBeRaised
<1>13. CASE Stall \/ (Tick /\ UNCHANGED <<log, lists, backend>>) \/ UNCHANGED gapVars
  <2>1. UNCHANGED <<givenUp, todo, abandoned>>
    BY <1>13 DEF Stall
  <2> QED
    BY <1>0, <2>1 DEF Accounted, ToBeRaised
<1> QED
  BY <1>1, <1>2, <1>4, <1>5, <1>6, <1>7, <1>8, <1>9, <1>10, <1>11, <1>12, <1>13 DEF GapNext

\* The base of the invariant holds in every reachable state.
LEMMA GapBaseHolds == GapSpec => []GapBase
<1>1. GapBase /\ [GapNext]_gapVars => GapBase'
  BY GapTypeStep, BackendStep, PartedStep, AccountedStep DEF GapBase
<1>2. GapInit => GapBase
  BY GapInitInv DEF GapInv
<1> QED
  BY <1>1, <1>2, PTL DEF GapSpec

\* A task that had nothing to do gets a list with no request for channel c.
LEMMA NothingAsked ==
    ASSUME NEW t \in Task, NEW S, NEW L, NEW G, NEW c \in Channel, CarryOut(t, S, L, G),
           todo \in [Task -> SUBSET Action], todo[t] = {},
           \A p \in Pos : SendReplay(c, p) \notin S
    PROVE  \A u \in Task, p \in Pos : Asks(u, c, p)' <=> Asks(u, c, p)
<1>1. \A p \in Pos : SendReplay(c, p) \notin todo'[t] /\ SendReplay(c, p) \notin todo[t]
  BY CarriedOut
<1>2. \A u \in Task \ {t} : todo'[u] = todo[u]
  BY CarriedOut
<1> QED
  BY <1>1, <1>2 DEF Asks

\* It gets a list with one, and no other task has any.
LEMMA OneAsked ==
    ASSUME NEW t \in Task, NEW S, NEW L, NEW G, NEW c \in Channel, NEW p \in Pos,
           CarryOut(t, S, L, G), todo \in [Task -> SUBSET Action],
           \A q \in Pos : SendReplay(c, q) \in S <=> q = p,
           \A u \in Task, q \in Pos : ~Asks(u, c, q)
    PROVE  \A u \in Task, q \in Pos : Asks(u, c, q)' <=> u = t /\ q = p
<1>1. \A q \in Pos : SendReplay(c, q) \in todo'[t] <=> q = p
  BY CarriedOut
<1>2. \A u \in Task \ {t} : todo'[u] = todo[u]
  BY CarriedOut
<1> QED
  BY <1>1, <1>2 DEF Asks

\* A channel of which the step at most finds, or gives up, what was lost.
LEMMA OwedKept ==
    ASSUME NEW c \in Channel, Owed(c), GapTypeOK, GapTypeOK',
           rec'[c].phase = rec[c].phase, rec'[c].anchor = rec[c].anchor,
           rec'[c].followup = rec[c].followup,
           Open(c)' \subseteq Open(c), asked'[c] = asked[c], sent[c] <= sent'[c],
           gone \subseteq gone',
           \A t \in Task, p \in Pos : Asks(t, c, p)' <=> Asks(t, c, p)
    PROVE  Owed(c)'
<1>1. /\ rec[c].followup \in Pos \cup {None} /\ Pos \subseteq Int
      /\ sent[c] \in Int /\ sent'[c] \in Int
  BY LogAssumption DEF GapTypeOK, TypeOK, ChannelRecord
<1>2. \A p \in Pos : p <= sent[c] => p <= sent'[c]
  <2> SUFFICES ASSUME NEW p \in Pos, p <= sent[c] PROVE p <= sent'[c]
    OBVIOUS
  <2>1. p \in Int /\ sent[c] <= sent'[c]
    BY <1>1
  <2> QED
    BY <1>1, <2>1
<1>3. \A m : Later(c, m)' <=> Later(c, m)
  BY DEF Later
<1>4. Requested(c)'
  BY DEF Owed, Requested
<1>5. ASSUME rec[c].phase = "replaying"
      PROVE  \/ /\ asked'[c] = <<asked'[c][1]>>
                /\ \A m \in Open(c)' : m \in asked'[c][1] \/ Later(c, m)'
             \/ asked'[c] = <<>> /\ gone' # {}
             \/ /\ asked'[c] = <<>>
                /\ \E t \in Task, p \in Pos :
                      Asks(t, c, p)' /\ \A m \in Open(c)' : m > p \/ Later(c, m)'
  <2>1. CASE asked[c] = <<asked[c][1]>> /\ \A m \in Open(c) : m \in asked[c][1] \/ Later(c, m)
    BY <1>3, <2>1
  <2>2. CASE asked[c] = <<>> /\ gone # {}
    BY <2>2
  <2>3. CASE /\ asked[c] = <<>>
             /\ \E t \in Task, p \in Pos :
                   Asks(t, c, p) /\ \A m \in Open(c) : m > p \/ Later(c, m)
    BY <1>3, <2>3
  <2> QED
    BY <1>5, <2>1, <2>2, <2>3 DEF Owed
<1>6. rec'[c].phase = "idle" => Open(c)' = {} /\ asked'[c] = <<>>
  BY DEF Owed
<1>7. rec'[c].phase = "floor_wait" =>
          /\ asked'[c] = <<>> /\ rec'[c].anchor \in Pos /\ rec'[c].anchor <= sent'[c]
          /\ \A m \in Open(c)' : m > rec'[c].anchor
  BY <1>2 DEF Owed
<1>8. rec'[c].phase = "replaying" => (rec'[c].followup # None => rec'[c].followup <= sent'[c])
  BY <1>1, <1>2 DEF Owed
<1> QED
  BY <1>4, <1>5, <1>6, <1>7, <1>8 DEF Owed

\* What the engine makes of a completed replay.
LEMMA CompleteOutcome ==
    ASSUME NEW c \in Channel, TypeOK, HandleReplayComplete(c), rec[c].phase = "replaying"
    PROVE  LET f == rec[c].followup
               s == rec'[c]
           IN  /\ \A d \in Channel \ {c} : rec'[d] = rec[d]
               /\ \/ f = None /\ out' = {} /\ s.phase = "idle"
                  \/ f # None /\ out' = {SendReplay(c, f)} /\ s.phase = "replaying"
                               /\ s.followup = None
                  \/ f # None /\ out' = {} /\ s.phase = "floor_wait" /\ s.anchor = f
<1> DEFINE r == [rec[c] EXCEPT !.deadline = None]
           s == [r EXCEPT !.followup = None]
           i == [s EXCEPT !.phase = "idle"]
<1>1. /\ r.followup = rec[c].followup /\ r.phase = rec[c].phase
      /\ s \in ChannelRecord /\ s.followup = None /\ i.phase = "idle"
  BY DEF TypeOK, ChannelRecord, Phase
<1>2. \/ r.followup = None /\ out' = {} /\ rec' = [rec EXCEPT ![c] = i]
      \/ r.followup # None /\ out' = {SendReplay(c, r.followup)}
            /\ rec' = [rec EXCEPT ![c] = BeginReplay(s)]
      \/ r.followup # None /\ out' = {}
            /\ rec' = [rec EXCEPT ![c] = AwaitFloor(s, r.followup)]
  BY <1>1 DEF HandleReplayComplete
<1> HIDE DEF r, s, i
<1>3. /\ BeginReplay(s).phase = "replaying" /\ BeginReplay(s).followup = None
      /\ \A p : AwaitFloor(s, p).phase = "floor_wait" /\ AwaitFloor(s, p).anchor = p
  BY <1>1, HelperFields
<1>4. \A x : rec' = [rec EXCEPT ![c] = x] =>
         rec'[c] = x /\ \A d \in Channel \ {c} : rec'[d] = rec[d]
  BY DEF TypeOK
<1> QED
  BY <1>1, <1>2, <1>3, <1>4

\* Every step keeps what the server owes, channel by channel.
LEMMA OwedStep == ~StaleReplies /\ GapInv /\ [GapNext]_gapVars => \A c \in Channel : Owed(c)'
<1> SUFFICES ASSUME ~StaleReplies, GapInv, [GapNext]_gapVars, NEW e \in Channel
             PROVE  Owed(e)'
  OBVIOUS
<1>0. /\ GapTypeOK /\ GapTypeOK' /\ Owed(e) /\ RecordOK(rec[e])
      /\ rec[e] \in ChannelRecord /\ rec[e].phase \in {"idle", "floor_wait", "replaying"}
      /\ sent[e] \in Nat /\ None \notin Pos /\ Pos = 0 .. MaxPos
  <2>1. GapTypeOK /\ GapTypeOK' /\ Owed(e) /\ RecordOK(rec[e])
    BY GapTypeStep DEF GapInv, GapBase, PhasesConsistent
  <2>2. rec[e] \in ChannelRecord /\ rec[e].phase \in {"idle", "floor_wait", "replaying"}
    BY <2>1 DEF GapTypeOK, TypeOK, ChannelRecord, Phase
  <2>3. sent[e] \in Nat
    BY <2>1, LogAssumption DEF GapTypeOK
  <2> QED
    BY <2>1, <2>2, <2>3, LogAssumption, NoneAssumption
<1>t. /\ todo \in [Task -> SUBSET Action] /\ "pump" \in Task /\ "timer" \in Task
      /\ asked \in [Channel -> Seq(SUBSET Message)] /\ Requested(e) /\ Parted
  BY <1>0 DEF GapTypeOK, Task, Owed, GapInv, GapBase
<1>n. asked[e] # <<>> =>
         /\ rec[e].phase = "replaying" /\ asked[e] = <<asked[e][1]>>
         /\ \A m \in Open(e) : m \in asked[e][1] \/ Later(e, m)
         /\ \A u \in Task, q \in Pos : ~Asks(u, e, q)
  BY <1>0, <1>t DEF Owed, Requested
<1> USE DEF log, lists, backend, mode, stall, gapVars, vars
<1>1. ASSUME NEW c \in Channel, Live(c) PROVE Owed(e)'
  <2>1. /\ rec' = rec /\ UNCHANGED <<lost, asked, givenUp, todo, gone>>
        /\ sent' = [sent EXCEPT ![c] = @ + 1]
    BY <1>1 DEF Live, NotePos
  <2>2. sent[e] <= sent'[e]
    BY <1>0, <2>1 DEF GapTypeOK
  <2>3. Open(e)' = Open(e) /\ \A t, p : Asks(t, e, p)' <=> Asks(t, e, p)
    BY <2>1 DEF Open, Asks
  <2> QED
    BY <1>0, <2>1, <2>2, <2>3, OwedKept
<1>2. ASSUME NEW c \in Channel, Drop(c) PROVE Owed(e)'
  <2> DEFINE L == [lost EXCEPT ![c] = @ \cup {sent[c] + 1}]
  <2>1. /\ HandleGap(c, sent[c]) /\ CarryOut("pump", out', L, givenUp) /\ sent[c] \in Pos
        /\ sent' = [sent EXCEPT ![c] = @ + 1] /\ asked' = asked /\ gone' = gone
        /\ todo["pump"] = {}
    BY <1>0, <1>2 DEF Drop, Reading, GapTypeOK
  <2>2. \A d, q : d # c => SendReplay(d, q) \notin out'
    BY <2>1, ActionsDiffer DEF HandleGap
  <2>3. \A d : Interrupted(d, "replay") \notin out'
    BY <2>1, ActionsDiffer DEF HandleGap
  <2>l. L[e] = IF e = c THEN lost[e] \cup {sent[e] + 1} ELSE lost[e]
    BY <1>0 DEF GapTypeOK
  <2> HIDE DEF L
  <2>o. lost'[e] = L[e] /\ givenUp'[e] = givenUp[e]
    <3>1. CarryOut("pump", out', L, givenUp) /\ Interrupted(e, "replay") \notin out'
      BY <2>1, <2>3
    <3> QED
      BY <3>1, NotReported
  <2>4. CASE e # c
    <3>1. sent'[e] = sent[e] /\ rec'[e] = rec[e] /\ Open(e)' = Open(e)
      BY <1>0, <2>1, <2>4, <2>l, <2>o DEF HandleGap, GapTypeOK, TypeOK, Open
    <3>2. \A t \in Task, p \in Pos : Asks(t, e, p)' <=> Asks(t, e, p)
      BY <1>t, <2>1, <2>2, <2>4, NothingAsked
    <3> QED
      BY <1>0, <2>1, <3>1, <3>2, OwedKept
  <2>5. CASE e = c
    <3>0. /\ Open(e)' \subseteq Open(e) \cup {sent[e] + 1} /\ sent'[e] = sent[e] + 1
          /\ asked'[e] = asked[e]
      BY <1>0, <2>1, <2>5, <2>l, <2>o DEF GapTypeOK, Open
    <3>1. CASE rec[e].phase = "idle" /\ FloorOpen(rec[e])
      <4>1. out' = {SendReplay(e, sent[e])} /\ rec'[e] = BeginReplay(rec[e])
        BY <1>0, <2>1, <2>5, <3>1 DEF HandleGap, GapTypeOK, TypeOK
      <4>2. \A u \in Task, q \in Pos : ~Asks(u, e, q)
        BY <1>t, <2>1, <3>1 DEF Requested, Asks, Task
      <4>3. \A q \in Pos : SendReplay(e, q) \in out' <=> q = sent[e]
        BY <4>1, ActionsDiffer
      <4>4. \A u \in Task, q \in Pos : Asks(u, e, q)' <=> u = "pump" /\ q = sent[e]
        BY <1>t, <2>1, <2>5, <4>2, <4>3, OneAsked
      <4>5. rec'[e].phase = "replaying" /\ rec'[e].followup = None
        BY <1>0, <3>1, <4>1, HelperFields DEF RecordOK
      <4>6. asked'[e] = <<>> /\ \A m \in Open(e)' : m > sent[e]
        BY <1>0, <3>0, <3>1 DEF Owed
      <4>7. Requested(e)'
        BY <4>4, <4>5, <4>6 DEF Requested
      <4>8. \E t \in Task, p \in Pos :
               Asks(t, e, p)' /\ \A m \in Open(e)' : m > p \/ Later(e, m)'
        BY <1>t, <2>1, <2>5, <4>4, <4>6
      <4> QED
        BY <4>5, <4>6, <4>7, <4>8 DEF Owed
    <3>3. ASSUME out' = {} PROVE \A t \in Task, p \in Pos : Asks(t, e, p)' <=> Asks(t, e, p)
      BY <1>t, <2>1, <3>3, NothingAsked
    <3>4. CASE rec[e].phase = "idle" /\ ~FloorOpen(rec[e])
      <4>1. out' = {} /\ rec'[e] = AwaitFloor(rec[e], sent[e])
        BY <1>0, <2>1, <2>5, <3>4 DEF HandleGap, GapTypeOK, TypeOK
      <4>2. \A u \in Task, q \in Pos : ~Asks(u, e, q)
        BY <1>t, <2>1, <3>4 DEF Requested, Asks, Task
      <4>3. Requested(e)'
        BY <3>3, <4>1, <4>2 DEF Requested
      <4>4. rec'[e].phase = "floor_wait" /\ rec'[e].anchor = sent[e]
        BY <1>0, <4>1, HelperFields
      <4>5. asked'[e] = <<>> /\ \A m \in Open(e)' : m > sent[e]
        BY <1>0, <3>0, <3>4 DEF Owed
      <4> QED
        BY <1>0, <2>1, <2>5, <3>0, <4>3, <4>4, <4>5 DEF Owed
    <3>5. CASE rec[e].phase = "floor_wait"
      <4>1. out' = {} /\ rec'[e] = rec[e]
        BY <2>1, <2>5, <3>5 DEF HandleGap
      <4>2. \A u \in Task, q \in Pos : ~Asks(u, e, q)
        BY <1>t, <3>5 DEF Requested
      <4>3. Requested(e)'
        BY <3>3, <4>1, <4>2 DEF Requested
      <4>4. /\ rec[e].anchor \in Nat /\ rec[e].anchor <= sent[e]
            /\ \A m \in Open(e) : m > rec[e].anchor
        BY <1>0, <3>5 DEF Owed
      <4> QED
        BY <1>0, <3>0, <3>5, <4>1, <4>3, <4>4 DEF Owed
    <3>6. CASE rec[e].phase = "replaying"
      <4>1. out' = {} /\ rec'[e] = FollowUp(rec[e], sent[e])
        BY <1>0, <2>1, <2>5, <3>6 DEF HandleGap, GapTypeOK, TypeOK
      <4>2. /\ rec'[e].phase = "replaying"
            /\ rec'[e].followup = IF rec[e].followup = None THEN sent[e] ELSE rec[e].followup
        BY <1>0, <3>6, <4>1, HelperFields
      <4>3. rec'[e].followup \in Nat /\ rec'[e].followup # None /\ rec'[e].followup <= sent[e]
        BY <1>0, <2>1, <2>5, <3>6, <4>2 DEF Owed, ChannelRecord
      <4>4. Requested(e)'
        BY <1>t, <3>0, <3>3, <3>6, <4>1, <4>2 DEF Requested
      <4>5. \A m : m = sent[e] + 1 \/ Later(e, m) => Later(e, m)'
        <5>1. ASSUME NEW m, m = sent[e] + 1 PROVE Later(e, m)'
          BY <1>0, <4>3, <5>1 DEF Later
        <5>2. ASSUME NEW m, Later(e, m) PROVE Later(e, m)'
          BY <4>2, <5>2, <4>3 DEF Later
        <5> QED
          BY <5>1, <5>2
      <4>6. rec'[e].followup <= sent'[e]
        BY <1>0, <3>0, <4>3
      <4>7. CASE /\ asked[e] = <<asked[e][1]>>
                 /\ \A m \in Open(e) : m \in asked[e][1] \/ Later(e, m)
        <5>1. \A m \in Open(e)' : m \in asked'[e][1] \/ Later(e, m)'
          BY <3>0, <4>5, <4>7
        <5> QED
          BY <3>0, <4>2, <4>4, <4>6, <4>7, <5>1 DEF Owed
      <4>8. CASE asked[e] = <<>> /\ gone # {}
        BY <2>1, <3>0, <4>2, <4>4, <4>6, <4>8 DEF Owed
      <4>9. CASE /\ asked[e] = <<>>
                 /\ \E t \in Task, p \in Pos :
                       Asks(t, e, p) /\ \A m \in Open(e) : m > p \/ Later(e, m)
        <5>1. \E t \in Task, p \in Pos :
                  Asks(t, e, p)' /\ \A m \in Open(e)' : m > p \/ Later(e, m)'
          BY <3>0, <3>3, <4>1, <4>5, <4>9
        <5> QED
          BY <3>0, <4>2, <4>4, <4>6, <4>9, <5>1 DEF Owed
      <4> QED
        BY <1>0, <3>6, <4>7, <4>8, <4>9 DEF Owed
    <3> QED
      BY <1>0, <3>1, <3>4, <3>5, <3>6
  <2> QED
    BY <2>4, <2>5
<1>3. ASSUME NEW c \in Channel, Replayed(c) PROVE Owed(e)'
  <2> DEFINE m == Min(Head(asked[c]))
  <2>1. /\ NoteReplayMessage(c, m) /\ UNCHANGED <<sent, todo, gone>>
        /\ lost' = [lost EXCEPT ![c] = @ \ {m}]
        /\ givenUp' = [givenUp EXCEPT ![c] = @ \ {m}]
        /\ asked' = [asked EXCEPT ![c][1] = @ \ {m}]
        /\ asked[c] # <<>>
    BY <1>3 DEF Replayed
  <2> HIDE DEF m
  <2>a. \A t, p : Asks(t, e, p)' <=> Asks(t, e, p)
    BY <2>1 DEF Asks
  <2>2. CASE e # c
    <3>1. rec'[e] = rec[e]
      BY <1>0, <2>1, <2>2 DEF NoteReplayMessage, GapTypeOK, TypeOK
    <3>2. Open(e)' = Open(e) /\ asked'[e] = asked[e] /\ sent'[e] = sent[e]
      BY <1>0, <2>1, <2>2 DEF GapTypeOK, Open
    <3>3. sent[e] <= sent'[e]
      BY <1>0, <3>2
    <3> QED
      BY <1>0, <2>1, <2>a, <3>1, <3>2, <3>3, OwedKept
  <2>3. CASE e = c
    <3>1. /\ rec[e].phase = "replaying" /\ asked[e] = <<asked[e][1]>>
          /\ \A n \in Open(e) : n \in asked[e][1] \/ Later(e, n)
          /\ \A u \in Task, q \in Pos : ~Asks(u, e, q)
      BY <1>n, <2>1, <2>3
    <3>2. rec'[e].phase = "replaying" /\ rec'[e].followup = rec[e].followup
      BY <1>0, <2>1, <2>3, <3>1, HelperFields DEF NoteReplayMessage, GapTypeOK, TypeOK
    <3>3. /\ Open(e)' = Open(e) \ {m}
          /\ asked'[e] = [asked[e] EXCEPT ![1] = @ \ {m}]
      BY <1>0, <2>1, <2>3 DEF GapTypeOK, Open
    <3>4. asked'[e] = <<asked'[e][1]>> /\ asked'[e][1] = asked[e][1] \ {m}
      BY <3>1, <3>3
    <3>5. Requested(e)' /\ \A n : Later(e, n)' <=> Later(e, n)
      BY <2>a, <3>1, <3>2 DEF Requested, Later
    <3>6. \A n \in Open(e)' : n \in asked'[e][1] \/ Later(e, n)'
      BY <3>1, <3>3, <3>4, <3>5
    <3> QED
      BY <1>0, <2>1, <3>1, <3>2, <3>4, <3>5, <3>6 DEF Owed
  <2> QED
    BY <2>2, <2>3
<1>4. ASSUME NEW c \in Channel, Completed(c) PROVE Owed(e)'
  <2>1. /\ HandleReplayComplete(c) /\ CarryOut("pump", out', lost, givenUp)
        /\ asked[c] # <<>> /\ Head(asked[c]) = {} /\ todo["pump"] = {}
        /\ asked' = [asked EXCEPT ![c] = Tail(@)]
        /\ UNCHANGED <<sent, gone>>
    BY <1>4 DEF Completed, Reading
  <2>2. rec[c].phase = "replaying" /\ asked[c] = <<{}>>
    <3>1. rec[c].phase \in Phase /\ Owed(c)
      BY DEF GapInv, GapBase, GapTypeOK, TypeOK, ChannelRecord
    <3>2. rec[c].phase = "replaying" /\ asked[c] = <<asked[c][1]>>
      BY <2>1, <3>1 DEF Owed, Phase
    <3> QED
      BY <2>1, <3>2
  <2>3. asked'[c] = <<>> /\ (e # c => asked'[e] = asked[e])
    BY <1>t, <2>1, <2>2
  <2> DEFINE f == rec[c].followup
  <2>4. /\ \A d \in Channel \ {c} : rec'[d] = rec[d]
        /\ \/ f = None /\ out' = {} /\ rec'[c].phase = "idle"
           \/ f # None /\ out' = {SendReplay(c, f)} /\ rec'[c].phase = "replaying"
                        /\ rec'[c].followup = None
           \/ f # None /\ out' = {} /\ rec'[c].phase = "floor_wait" /\ rec'[c].anchor = f
    BY <1>0, <2>1, <2>2, CompleteOutcome DEF GapTypeOK
  <2> HIDE DEF f
  <2>o. Open(e)' = Open(e)
    <3>1. Interrupted(e, "replay") \notin out'
      BY <2>4, ActionsDiffer
    <3>2. lost'[e] = lost[e] /\ givenUp'[e] = givenUp[e]
      BY <1>t, <2>1, <3>1, NotReported
    <3> QED
      BY <3>2 DEF Open
  <2>5. CASE e # c
    <3>1. \A p : SendReplay(e, p) \notin out'
      BY <2>4, <2>5, ActionsDiffer
    <3>2. \A t \in Task, p \in Pos : Asks(t, e, p)' <=> Asks(t, e, p)
      BY <1>t, <2>1, <3>1, NothingAsked
    <3> QED
      BY <1>0, <2>1, <2>3, <2>4, <2>5, <2>o, <3>2, OwedKept
  <2>6. CASE e = c
    <3>0. \A u \in Task, q \in Pos : ~Asks(u, e, q)
      BY <1>n, <2>1, <2>6
    <3>1. \A m \in Open(e) : f # None /\ m > f
      <4>1. asked[e] # <<>> /\ asked[e][1] = {}
        BY <2>2, <2>6
      <4> QED
        BY <1>n, <2>6, <4>1 DEF Later, f
    <3>2. f # None => f \in Pos /\ f <= sent[e]
      BY <1>0, <2>2, <2>6 DEF Owed, f, ChannelRecord
    <3>3. ASSUME out' = {} PROVE \A t \in Task, p \in Pos : ~Asks(t, e, p)'
      BY <1>t, <2>1, <3>0, <3>3, NothingAsked
    <3>4. CASE f = None /\ out' = {} /\ rec'[c].phase = "idle"
      <4>1. Requested(e)'
        BY <3>3, <3>4 DEF Requested
      <4> QED
        BY <2>3, <2>6, <2>o, <3>1, <3>4, <4>1 DEF Owed
    <3>5. CASE /\ f # None /\ out' = {SendReplay(c, f)} /\ rec'[c].phase = "replaying"
               /\ rec'[c].followup = None
      <4>1. \A q \in Pos : SendReplay(e, q) \in out' <=> q = f
        BY <2>6, <3>5, ActionsDiffer
      <4>2. \A u \in Task, q \in Pos : Asks(u, e, q)' <=> u = "pump" /\ q = f
        <5>1. f \in Pos /\ CarryOut("pump", out', lost, givenUp)
          BY <2>1, <3>2, <3>5
        <5> QED
          BY <1>t, <3>0, <4>1, <5>1, OneAsked
      <4>3. Requested(e)'
        BY <2>3, <2>6, <3>5, <4>2 DEF Requested
      <4>4. \E t \in Task, p \in Pos :
               Asks(t, e, p)' /\ \A m \in Open(e)' : m > p \/ Later(e, m)'
        BY <1>t, <2>o, <3>1, <3>2, <3>5, <4>2
      <4> QED
        BY <2>3, <2>6, <3>5, <4>3, <4>4 DEF Owed
    <3>6. CASE f # None /\ out' = {} /\ rec'[c].phase = "floor_wait" /\ rec'[c].anchor = f
      <4>1. Requested(e)'
        BY <3>3, <3>6 DEF Requested
      <4> QED
        BY <2>1, <2>3, <2>6, <2>o, <3>1, <3>2, <3>6, <4>1 DEF Owed
    <3> QED
      BY <2>4, <3>4, <3>5, <3>6
  <2> QED
    BY <2>5, <2>6
<1>5. ASSUME NEW c \in Channel, Refused(c) PROVE Owed(e)'
  <2>1. /\ rec' = [rec EXCEPT ![c] = Reset(rec[c])] /\ out' = {Interrupted(c, "replay")}
        /\ CarryOut("pump", out', lost, NowGivenUp) /\ todo["pump"] = {}
        /\ asked' = Pending([asked EXCEPT ![c] = Tail(@)]) /\ asked[c] # <<>>
        /\ UNCHANGED <<sent, gone>>
    BY <1>5 DEF Refused, Reading, HandleRecoveryFailure
  <2>2. \A d, p : SendReplay(d, p) \notin out'
    BY <2>1, ActionsDiffer
  <2>3. \A t \in Task, p \in Pos : Asks(t, e, p)' <=> Asks(t, e, p)
    BY <1>t, <2>1, <2>2, NothingAsked
  <2>4. Reported(e) <=> e = c
    BY <2>1, ActionsDiffer DEF Reported
  <2>5. CASE e # c
    <3>1. asked'[e] = asked[e] /\ NowGivenUp[e] = givenUp[e] /\ Interrupted(e, "replay") \notin out'
      BY <1>t, <2>1, <2>4, <2>5 DEF Pending, NowGivenUp, Reported
    <3>2. Open(e)' = Open(e)
      <4>1. lost'[e] = lost[e] /\ givenUp'[e] = NowGivenUp[e]
        BY <1>t, <2>1, <3>1, NotReported
      <4> QED
        BY <3>1, <4>1 DEF Open
    <3>3. rec'[e] = rec[e] /\ sent[e] <= sent'[e] /\ gone \subseteq gone'
      BY <1>0, <2>1, <2>5 DEF GapTypeOK, TypeOK
    <3>4. asked'[e] = asked[e]
      BY <3>1
    <3> QED
      BY <1>0, <2>3, <3>2, <3>3, <3>4, OwedKept
  <2>6. CASE e = c
    <3>1. asked'[e] = <<>> /\ NowGivenUp[e] = lost[e]
      BY <1>t, <2>1, <2>4, <2>6 DEF Pending, NowGivenUp
    <3>2. Open(e)' = {}
      <4>1. lost'[e] \ givenUp'[e] = lost[e] \ NowGivenUp[e]
        BY <1>t, <2>1, StillOpen
      <4> QED
        BY <3>1, <4>1 DEF Open
    <3>3. rec'[e].phase = "idle"
      BY <1>0, <2>1, <2>6, HelperFields DEF GapTypeOK, TypeOK
    <3>4. Requested(e)'
      BY <1>n, <2>1, <2>3, <2>6 DEF Requested
    <3> QED
      BY <3>1, <3>2, <3>3, <3>4 DEF Owed
  <2> QED
    BY <2>5, <2>6
<1>6. CASE Timer
  <2>1. /\ Due /\ CarryOut("timer", out', lost, NowGivenUp) /\ asked' = Pending(asked)
        /\ todo["timer"] = {} /\ UNCHANGED <<sent, gone>>
    BY <1>6 DEF Timer, TimerFires
  <2>2. /\ \A p : SendReplay(e, p) \in out' <=> FloorElapsed(e) /\ p = rec[e].anchor
        /\ Interrupted(e, "replay") \in out' <=>
              ReplayLate(e) /\ ~BackpressureSuspends(rec[e].arm)
    BY <2>1, ActionsDiffer DEF Due, ReplayFromAnchor
  <2>3. ASSUME Interrupted(e, "replay") \notin out' PROVE Open(e)' = Open(e) /\ asked'[e] = asked[e]
    <3>1. NowGivenUp[e] = givenUp[e] /\ asked'[e] = asked[e]
      BY <2>1, <2>3 DEF NowGivenUp, Pending, Reported
    <3>2. lost'[e] = lost[e] /\ givenUp'[e] = NowGivenUp[e]
      <4>1. CarryOut("timer", out', lost, NowGivenUp)
        BY <2>1
      <4> QED
        BY <2>3, <4>1, NotReported
    <3> QED
      BY <3>1, <3>2 DEF Open
  <2>4. CASE FloorElapsed(e)
    <3>1. /\ rec'[e] = BeginReplay(rec[e]) /\ rec[e].phase = "floor_wait" /\ ~ReplayLate(e)
          /\ rec[e].anchor \in Pos /\ asked[e] = <<>> /\ \A m \in Open(e) : m > rec[e].anchor
      BY <1>0, <2>1, <2>4 DEF Due, FloorElapsed, ReplayLate, Owed
    <3> DEFINE p == rec[e].anchor
    <3>2. p \in Pos /\ (\A q \in Pos : SendReplay(e, q) \in out' <=> q = p)
          /\ \A m \in Open(e) : m > p
      BY <2>2, <2>4, <3>1
    <3>3. Open(e)' = Open(e) /\ asked'[e] = <<>>
      BY <2>2, <2>3, <3>1
    <3>4. rec'[e].phase = "replaying" /\ rec'[e].followup = None
      BY <1>0, <3>1, HelperFields DEF RecordOK
    <3>5. \A u \in Task, q \in Pos : ~Asks(u, e, q)
      BY <1>t, <3>1 DEF Requested
    <3> HIDE DEF p
    <3>6. \A u \in Task, q \in Pos : Asks(u, e, q)' <=> u = "timer" /\ q = p
      BY <1>t, <2>1, <3>2, <3>5, OneAsked
    <3>7. Requested(e)'
      BY <3>3, <3>4, <3>6 DEF Requested
    <3>8. \E t \in Task, q \in Pos :
              Asks(t, e, q)' /\ \A m \in Open(e)' : m > q \/ Later(e, m)'
      BY <1>t, <3>2, <3>3, <3>6
    <3> QED
      BY <3>3, <3>4, <3>7, <3>8 DEF Owed
  <2>a. ASSUME ~FloorElapsed(e)
        PROVE  \A t \in Task, p \in Pos : Asks(t, e, p)' <=> Asks(t, e, p)
    BY <1>t, <2>1, <2>2, <2>a, NothingAsked
  <2>5. CASE ~FloorElapsed(e) /\ ReplayLate(e) /\ ~BackpressureSuspends(rec[e].arm)
    <3>1. Reported(e) /\ NowGivenUp[e] = lost[e] /\ asked'[e] = <<>>
      BY <2>1, <2>2, <2>5 DEF Reported, NowGivenUp, Pending
    <3>2. Open(e)' = {}
      <4>1. lost'[e] \ givenUp'[e] = lost[e] \ NowGivenUp[e]
        BY <1>t, <2>1, StillOpen
      <4> QED
        BY <3>1, <4>1 DEF Open
    <3>3. rec'[e].phase = "idle"
      BY <1>0, <2>1, <2>5, HelperFields DEF Due
    <3>4. \A p \in Pos : ~Asks("timer", e, p)
      BY <2>1 DEF Asks
    <3>5. Requested(e)'
      BY <1>t, <2>5, <2>a, <3>1, <3>3, <3>4 DEF Requested
    <3> QED
      BY <3>1, <3>2, <3>3, <3>5 DEF Owed
  <2>6. CASE ~FloorElapsed(e) /\ ~(ReplayLate(e) /\ ~BackpressureSuspends(rec[e].arm))
    <3>1. Open(e)' = Open(e) /\ asked'[e] = asked[e]
      BY <2>2, <2>3, <2>6
    <3>2. CASE rec'[e] = rec[e]
      BY <1>0, <2>1, <2>6, <2>a, <3>1, <3>2, OwedKept
    <3>3. CASE ReplayLate(e) /\ rec'[e] = Rearm(rec[e])
      <4>1. /\ rec'[e].phase = rec[e].phase /\ rec'[e].anchor = rec[e].anchor
            /\ rec'[e].followup = rec[e].followup
        BY <1>0, <3>3 DEF Rearm, ChannelRecord
      <4> QED
        BY <1>0, <2>1, <2>6, <2>a, <3>1, <4>1, OwedKept
    <3> QED
      BY <2>1, <2>6, <3>2, <3>3 DEF Due
  <2> QED
    BY <2>4, <2>5, <2>6
<1>7. ASSUME NEW t \in Task, NEW c \in Channel, NEW p \in Pos, Sent(t, c, p) PROVE Owed(e)'
  <2> DEFINE S == todo[t] \ {SendReplay(c, p)}
  <2>1. /\ CarryOut(t, S, lost, givenUp) /\ SendReplay(c, p) \in todo[t] /\ gone = {}
        /\ asked' = IF rec[c].phase = "replaying"
                    THEN [asked EXCEPT ![c] = Append(@, {m \in lost[c] : m > p})]
                    ELSE asked
        /\ UNCHANGED <<rec, sent, gone>>
    BY <1>7 DEF Sent
  <2>2. \A q \in Pos : SendReplay(e, q) \in S <=>
            SendReplay(e, q) \in todo[t] /\ ~(e = c /\ q = p)
    BY ActionsDiffer
  <2> HIDE DEF S
  <2>3. Open(e)' = Open(e)
    <3>1. lost'[e] \ givenUp'[e] = lost[e] \ givenUp[e]
      BY <1>t, <2>1, StillOpen
    <3> QED
      BY <3>1 DEF Open
  <2>4. /\ \A u \in Task \ {t} : todo'[u] = todo[u]
        /\ \A q \in Pos : SendReplay(e, q) \in S <=> SendReplay(e, q) \in todo'[t]
    BY <1>t, <2>1, CarriedOut
  <2>5. \A u \in Task, q \in Pos :
            Asks(u, e, q)' <=> Asks(u, e, q) /\ ~(u = t /\ e = c /\ q = p)
    BY <2>2, <2>4 DEF Asks
  <2>6. CASE e # c
    <3>1. asked'[e] = asked[e]
      BY <1>t, <2>1, <2>6
    <3>2. rec'[e] = rec[e] /\ sent[e] <= sent'[e] /\ gone \subseteq gone'
      BY <1>0, <2>1
    <3>3. \A u \in Task, q \in Pos : Asks(u, e, q)' <=> Asks(u, e, q)
      BY <2>5, <2>6
    <3> QED
      BY <1>0, <2>3, <3>1, <3>2, <3>3, OwedKept
  <2>7. CASE e = c
    <3>1. Asks(t, e, p) /\ asked[e] = <<>> /\ rec[e].phase # "floor_wait"
          /\ \A u \in Task, q \in Pos : Asks(u, e, q) => u = t /\ q = p
      BY <1>t, <2>1, <2>7 DEF Asks, Requested
    <3>2. \A u \in Task, q \in Pos : ~Asks(u, e, q)'
      BY <2>5, <2>7, <3>1
    <3>3. Requested(e)' /\ \A m : Later(e, m)' <=> Later(e, m)
      BY <2>1, <3>2 DEF Requested, Later
    <3>4. CASE rec[e].phase = "idle"
      BY <1>0, <2>1, <2>3, <2>7, <3>1, <3>3, <3>4 DEF Owed
    <3>5. CASE rec[e].phase = "replaying"
      <4>1. asked'[e] = <<{m \in lost[e] : m > p}>>
        BY <1>t, <2>1, <2>7, <3>1, <3>5
      <4>2. \A m \in Open(e) : m > p \/ Later(e, m)
        BY <1>0, <2>1, <3>1, <3>5 DEF Owed
      <4>3. \A m \in Open(e)' : m \in asked'[e][1] \/ Later(e, m)'
        BY <2>3, <3>3, <4>1, <4>2 DEF Open
      <4>4. asked'[e] = <<asked'[e][1]>>
        BY <4>1
      <4> QED
        BY <1>0, <2>1, <3>3, <3>5, <4>3, <4>4 DEF Owed
    <3> QED
      BY <1>0, <3>1, <3>4, <3>5
  <2> QED
    BY <2>6, <2>7
<1>8. ASSUME NEW t \in Task, SendFails(t) PROVE Owed(e)'
  <2>1. /\ todo' = [todo EXCEPT ![t] = {}] /\ gone' = gone \cup {t}
        /\ UNCHANGED <<rec, sent, lost, givenUp, asked>>
    BY <1>8 DEF SendFails
  <2>2. \A u \in Task, q \in Pos : Asks(u, e, q)' => Asks(u, e, q)
    BY <1>t, <2>1 DEF Asks
  <2>3. /\ Requested(e)' /\ Open(e)' = Open(e) /\ gone' # {}
        /\ \A m : Later(e, m)' <=> Later(e, m)
    BY <1>t, <2>1, <2>2 DEF Requested, Open, Later
  <2> QED
    BY <1>0, <2>1, <2>3 DEF Owed
<1>9. CASE Stall \/ (Tick /\ UNCHANGED <<log, lists, backend>>)
  <2>1. rec' = rec /\ UNCHANGED <<lost, asked, sent, givenUp, todo, gone>>
    BY <1>9 DEF Stall, Backpressure, NoteBackpressure, Tick
  <2>2. Open(e)' = Open(e) /\ \A t, p : Asks(t, e, p)' <=> Asks(t, e, p)
    BY <2>1 DEF Open, Asks
  <2> QED
    BY <1>0, <2>1, <2>2, OwedKept
<1>10. CASE Disconnect
  <2>1. rec'[e].phase = "idle" /\ asked'[e] = <<>> /\ todo' = [t \in Task |-> {}]
    BY <1>0, <1>10, HelperFields DEF Disconnect, HandleDisconnect
  <2>2. rec[e].phase # "idle" => Reported(e)
    BY <1>0, <1>10 DEF Disconnect, HandleDisconnect, Reported
  <2>3. Open(e)' = {}
    BY <1>0, <1>10, <2>2 DEF Disconnect, Owed, Open
  <2>4. Requested(e)'
    BY <2>1 DEF Requested, Asks
  <2> QED
    BY <2>1, <2>3, <2>4 DEF Owed
<1>11. CASE Reconnect
  <2>1. rec[e].phase = "idle" /\ Open(e) = {} /\ asked[e] = <<>>
    BY <1>0, <1>t, <1>11 DEF Reconnect, Resume, Parted, Owed
  <2>2. /\ rec' = rec /\ asked' = asked /\ todo' = todo
        /\ lost'[e] = {m \in lost[e] : m <= sent'[e]}
        /\ givenUp'[e] = {m \in givenUp[e] : m <= sent'[e]}
    BY <1>11 DEF Reconnect, Resume
  <2>3. Open(e)' = {}
    BY <2>1, <2>2 DEF Open
  <2>4. Requested(e)'
    BY <1>t, <2>2 DEF Requested, Asks
  <2> QED
    BY <2>1, <2>2, <2>3, <2>4 DEF Owed
<1>12. CASE NotAvailable
  <2>1. rec'[e].phase = "idle" /\ UNCHANGED log
    BY <1>0, <1>12, HelperFields DEF NotAvailable, HandleNotAvailable
  <2>2. rec[e].phase = "idle" /\ ~kafka /\ todo["timer"] = {}
    BY <1>t, <1>12 DEF NotAvailable, GapInv, GapBase, Backend, Parted
  <2>3. \A u \in Task, q \in Pos : ~Asks(u, e, q)'
    <3>1. \A q : SendReplay(e, q) \notin out'
      BY <1>12, ActionsDiffer DEF NotAvailable, HandleNotAvailable
    <3>2. todo' = [todo EXCEPT !["pump"] = out']
      BY <1>12 DEF NotAvailable
    <3>3. todo'["pump"] = out' /\ todo'["timer"] = {}
      BY <1>t, <2>2, <3>2
    <3> QED
      BY <3>1, <3>3 DEF Asks, Task
  <2>4. Requested(e)' /\ Open(e)' = Open(e)
    BY <2>1, <2>3 DEF Requested, Open
  <2> QED
    BY <1>0, <2>1, <2>2, <2>4 DEF Owed
<1>13. ASSUME NEW c \in Channel, PutGap(c) PROVE Owed(e)'
  <2>1. /\ todo' = [todo EXCEPT !["pump"] = @ \ {EmitPossibleGap(c)}]
        /\ UNCHANGED <<rec, lost, asked, sent, givenUp, gone>>
    BY <1>13 DEF PutGap
  <2>2. \A t \in Task, p \in Pos : Asks(t, e, p)' <=> Asks(t, e, p)
    BY <1>t, <2>1, ActionsDiffer DEF Asks
  <2>3. Open(e)' = Open(e)
    BY <2>1 DEF Open
  <2> QED
    BY <1>0, <2>1, <2>2, <2>3, OwedKept
<1>14. CASE (\E c \in Channel : LostWhileAway(c)) \/ UNCHANGED gapVars
  <2>1. rec' = rec /\ UNCHANGED <<lost, asked, sent, givenUp, todo, gone>>
    BY <1>14 DEF LostWhileAway
  <2>2. Open(e)' = Open(e) /\ \A t, p : Asks(t, e, p)' <=> Asks(t, e, p)
    BY <2>1 DEF Open, Asks
  <2> QED
    BY <1>0, <2>1, <2>2, OwedKept
<1> QED
  BY <1>1, <1>2, <1>3, <1>4, <1>5, <1>6, <1>7, <1>8, <1>9, <1>10, <1>11, <1>12, <1>13, <1>14
     DEF GapNext

\* Every step keeps the invariant.
LEMMA GapStepInv == ASSUME ~StaleReplies PROVE GapInv /\ [GapNext]_gapVars => GapInv'
BY GapTypeStep, BackendStep, PartedStep, AccountedStep, OwedStep DEF GapInv, GapBase

\* The invariant holds in every reachable state.
LEMMA GapInvHolds == ASSUME ~StaleReplies PROVE GapSpec => []GapInv
BY GapInitInv, GapStepInv, PTL DEF GapSpec

-----------------------------------------------------------------------------
\* The server and the life of the connection make no call of the engine that
\* its own specification does not allow, so what is proved of the engine for
\* any calls holds of it here (recovery.py, as client.py calls it).
THEOREM EngineImplemented == GapSpec => Spec
<1>1. GapInit => Init
  BY DEF GapInit
<1> QED
  BY <1>1, EngineStep, GapBaseHolds, PTL DEF GapSpec, Spec

\* The conservative-anchor guarantee of recovery.py: whatever gaps, replays,
\* refusals, timeouts, stalls, failing sends and reconnects follow each other,
\* on any number of channels, a message the server dropped is on its way,
\* after an anchor the engine holds, or reported as lost.  The exclusions are
\* in the statement: no late answer of the server, and an interruption whose
\* list was abandoned at a failing send (OutOfEngine).
THEOREM NothingForgotten == ASSUME ~StaleReplies PROVE GapSpec => []NoSilentLoss
<1>1. GapInv => NoSilentLoss
  <2> SUFFICES ASSUME GapInv, NEW c \in Channel, NEW m \in lost[c]
               PROVE  \/ InReplay(c, m) \/ InRequest(c, m) \/ InNextCycle(c, m)
                      \/ InLastReport(c) \/ OutOfEngine(c, m)
    BY DEF NoSilentLoss
  <2>1. Owed(c) /\ rec[c].phase \in Phase /\ asked[c] \in Seq(SUBSET Message)
    BY DEF GapInv, GapBase, GapTypeOK, TypeOK, ChannelRecord
  <2>2. CASE m \in givenUp[c]
    BY <2>2 DEF GapInv, GapBase, Accounted, OutOfEngine
  <2>3. CASE m \notin givenUp[c]
    <3>0. m \in Open(c)
      BY <2>3 DEF Open
    <3>1. CASE rec[c].phase = "floor_wait"
      BY <2>1, <3>0, <3>1 DEF Owed, InNextCycle
    <3>2. CASE rec[c].phase = "replaying"
      <4>1. ASSUME asked[c] = <<asked[c][1]>>, m \in asked[c][1] PROVE InReplay(c, m)
        <5>1. Len(<<asked[c][1]>>) = 1
          OBVIOUS
        <5>2. Len(asked[c]) = 1
          BY <4>1, <5>1
        <5> QED
          BY <4>1, <5>2 DEF InReplay
      <4>2. Later(c, m) => InNextCycle(c, m)
        BY <3>2 DEF Later, InNextCycle
      <4>3. CASE /\ asked[c] = <<asked[c][1]>>
                 /\ \A n \in Open(c) : n \in asked[c][1] \/ Later(c, n)
        BY <3>0, <4>1, <4>2, <4>3
      <4>4. CASE asked[c] = <<>> /\ gone # {}
        BY <3>2, <4>4 DEF InLastReport
      <4>5. CASE \E t \in Task, p \in Pos :
                    Asks(t, c, p) /\ \A n \in Open(c) : n > p \/ Later(c, n)
        BY <3>0, <4>2, <4>5 DEF Asks, InRequest
      <4> QED
        BY <2>1, <3>2, <4>3, <4>4, <4>5 DEF Owed
    <3> QED
      BY <2>1, <3>0, <3>1, <3>2 DEF Owed, Phase
  <2> QED
    BY <2>2, <2>3
<1> QED
  BY <1>1, GapInvHolds, PTL

\* As long as the server owes messages it dropped, the engine waits for them
\* with a timer, or has given them up with an interruption, so a truncated
\* recovery is reported (recovery.py:59-60); but for the exclusions of
\* NothingForgotten.
THEOREM AlwaysWatched == ASSUME ~StaleReplies PROVE GapSpec => []RecoveryWatched
<1>1. GapInv => RecoveryWatched
  <2> SUFFICES ASSUME GapInv, NEW c \in Channel, NEW m \in lost[c], rec[c].phase = "idle"
               PROVE  OutOfEngine(c, m)
    BY DEF RecoveryWatched
  <2>1. m \in givenUp[c]
    BY DEF GapInv, Owed, Open
  <2> QED
    BY <2>1 DEF GapInv, GapBase, Accounted, OutOfEngine
<1> QED
  BY <1>1, GapInvHolds, PTL

\* The channels with an unreported loss: before the backend is known to be
\* Direct, and then its answer is awaited on every connection; or with their
\* PossibleGap in the pump's list, if that was not abandoned.
Unreported ==
    /\ untold \subseteq Channel
    /\ \A c \in untold :
          /\ ~kafka /\ connectedOnce
          /\ \/ ~direct /\ (connected => probe)
             \/ connected /\ EmitPossibleGap(c) \in todo["pump"]
             \/ c \in abandoned

\* No step forgets a loss of a Direct backend that is not reported.
LEMMA UnreportedStep ==
    ~LaterLoss /\ GapBase /\ Unreported /\ [GapNext]_gapVars => Unreported'
<1> SUFFICES ASSUME ~LaterLoss, GapBase, Unreported, [GapNext]_gapVars PROVE Unreported'
  OBVIOUS
<1>0. /\ todo \in [Task -> SUBSET Action] /\ Task = {"pump", "timer"} /\ Parted /\ Unreported
      /\ probe => ~kafka
  BY DEF GapBase, GapTypeOK, Backend, Task
<1> USE DEF log, lists, backend, mode, stall, gapVars, vars
<1>k. ASSUME kafka, kafka' = kafka, untold' = untold PROVE Unreported'
  BY <1>0, <1>k DEF Unreported
<1>1. ASSUME NEW c \in Channel,
             Live(c) \/ Drop(c) \/ Replayed(c) \/ Completed(c) \/ Refused(c)
      PROVE  Unreported'
  <2>1. asked[c] # <<>> => kafka
    BY <1>0 DEF Parted
  <2>2. kafka /\ kafka' = kafka /\ untold' = untold
    BY <1>1, <2>1 DEF Live, Drop, Replayed, Completed, Refused
  <2> QED
    BY <1>k, <2>2
<1>2. ASSUME NEW t \in Task, SendFails(t) \/ \E c \in Channel, p \in Pos : Sent(t, c, p)
      PROVE  Unreported'
  <2>1. \E x \in todo[t] : x.do = "replay"
    BY <1>2 DEF Sent, SendFails, SendReplay
  <2>2. kafka
    BY <1>0, <2>1 DEF Parted
  <2>3. kafka' = kafka /\ untold' = untold
    BY <1>2 DEF Sent, SendFails
  <2> QED
    BY <1>k, <2>2, <2>3
<1>3. CASE Stall \/ (Tick /\ UNCHANGED <<log, lists, backend>>) \/ UNCHANGED gapVars
  <2>1. UNCHANGED <<direct, connectedOnce, connected, probe, kafka, untold, todo, abandoned>>
    BY <1>3 DEF Stall, Backpressure, NoteBackpressure, Tick
  <2> QED
    BY <1>0, <2>1 DEF Unreported
<1>4. CASE Timer
  <2>1. /\ Due /\ CarryOut("timer", out', lost, NowGivenUp)
        /\ UNCHANGED <<direct, connectedOnce, connected, backend>>
    BY <1>4 DEF Timer, TimerFires, Due
  <2>2. CASE kafka
    BY <1>k, <2>1, <2>2
  <2>3. CASE ~kafka
    <3>1. ASSUME NEW c \in Channel PROVE c \in abandoned => c \in abandoned'
      <4>1. ~ReplayLate(c)
        BY <1>0, <2>3 DEF Parted, ReplayLate
      <4>2. Interrupted(c, "replay") \notin out'
        BY <2>1, <4>1, ActionsDiffer DEF Due, ReplayFromAnchor
      <4> QED
        BY <1>0, <2>1, <4>2, CarriedOut
    <3>2. todo'["pump"] = todo["pump"]
      BY <1>0, <2>1 DEF CarryOut
    <3> QED
      BY <1>0, <2>1, <3>1, <3>2 DEF Unreported
  <2> QED
    BY <2>2, <2>3
<1>5. CASE Disconnect
  <2>1. /\ ~connected' /\ UNCHANGED <<direct, connectedOnce, kafka, untold>>
        /\ abandoned' = (abandoned \cup Reports(UNION {todo[t] : t \in Task}))
                            \ {c \in Channel : Reported(c)}
        /\ out' = {Interrupted(c, "replay") : c \in {d \in Channel :
                       rec[d].phase \in {"floor_wait", "replaying"}}}
                  \cup {Interrupted(c, "history") : c \in {d \in Channel : history[d] # None}}
    BY <1>5 DEF Disconnect, HandleDisconnect
  <2> SUFFICES ASSUME NEW c \in untold PROVE ~direct \/ c \in abandoned'
    BY <1>0, <2>1 DEF Unreported
  <2>2. c \in Channel /\ ~kafka
    BY <1>0 DEF Unreported
  <2>3. ~Reported(c)
    BY <1>0, <2>1, <2>2, ActionsDiffer DEF Parted, Reported
  <2>4. EmitPossibleGap(c) \in todo["pump"] => c \in Reports(UNION {todo[t] : t \in Task})
    BY <1>0, <2>2 DEF Reports
  <2> QED
    BY <1>0, <2>1, <2>2, <2>3, <2>4 DEF Unreported
<1>6. ASSUME NEW c \in Channel, LostWhileAway(c) PROVE Unreported'
  <2>1. /\ ~kafka /\ ~connected /\ connectedOnce /\ ~direct /\ untold' = untold \cup {c}
        /\ UNCHANGED <<direct, connectedOnce, connected, probe, kafka, todo, abandoned>>
    BY <1>6 DEF LostWhileAway
  <2> QED
    BY <1>0, <2>1 DEF Unreported
<1>7. CASE Reconnect
  <2>1. /\ ~connected /\ connectedOnce' /\ UNCHANGED <<direct, kafka, untold, todo, abandoned>>
        /\ ~direct /\ connectedOnce => out' # {}
        /\ probe' = (~kafka /\ out' # {})
    BY <1>7 DEF Reconnect, Resume, Probes
  <2> QED
    BY <1>0, <2>1 DEF Unreported
<1>8. CASE NotAvailable
  <2>1. /\ probe /\ connected /\ connected' = connected /\ todo' = [todo EXCEPT !["pump"] = out']
        /\ out' = {EmitPossibleGap(c) : c \in Channel}
        /\ UNCHANGED <<connectedOnce, kafka, untold>>
    BY <1>8 DEF NotAvailable, HandleNotAvailable, Reading, Dispatching
  <2>2. \A c \in Channel : EmitPossibleGap(c) \in todo'["pump"]
    BY <1>0, <2>1
  <2> QED
    BY <1>0, <2>1, <2>2 DEF Unreported
<1>9. ASSUME NEW d \in Channel, PutGap(d) PROVE Unreported'
  <2>1. /\ todo' = [todo EXCEPT !["pump"] = @ \ {EmitPossibleGap(d)}] /\ untold' = untold \ {d}
        /\ UNCHANGED <<direct, connectedOnce, connected, probe, kafka, abandoned>>
    BY <1>9 DEF PutGap
  <2>2. \A c : c # d => EmitPossibleGap(c) # EmitPossibleGap(d)
    BY DEF EmitPossibleGap
  <2> QED
    BY <1>0, <2>1, <2>2 DEF Unreported
<1> QED
  BY <1>1, <1>2, <1>3, <1>4, <1>5, <1>6, <1>7, <1>8, <1>9 DEF GapNext

\* An outage that lost messages of a Direct backend, and in which the client
\* did not know the backend yet, is reported on every channel resumed, however
\* often the connection drops before the backend has answered; but for a
\* channel whose PossibleGap is abandoned, the connection ending before its
\* put.
THEOREM LossReported == ASSUME ~LaterLoss PROVE GapSpec => []DirectLossReported
<1>1. GapInit => Unreported
  BY DEF GapInit, Unreported
<1>2. GapBase /\ Unreported /\ [GapNext]_gapVars => Unreported'
  BY UnreportedStep
<1>3. Unreported => DirectLossReported
  BY DEF Unreported, DirectLossReported
<1> QED
  BY <1>1, <1>2, <1>3, GapBaseHolds, PTL DEF GapSpec

-----------------------------------------------------------------------------
(* The tasks of an epoch: the inductive invariant.                         *)

PumpTypes ==
    /\ pump \in {"resume", "recv", "offer", "put", "gap", "act", "send", "gone"}
    /\ timer \in {"check", "sleep", "act", "send", "gone"}
    /\ wake \in BOOLEAN /\ pumpWakes \in BOOLEAN
    /\ holding \in Held

\* Which tasks there are, and what the pump holds: a Gap only of a server that
\* is not Direct.
Tasks ==
    /\ pump # "gone" => connected
    /\ pump \in {"resume", "gone"} => timer = "gone"
    /\ pump \in {"offer", "put", "gap"} => holding # Nothing
    /\ pump = "gap" => holding.kind = "gap"
    /\ holding.kind = "gap" => ~direct /\ pump \in {"offer", "put", "gap"}

\* The pump is to set the wake event only while it sends replays.
Waking ==
    pumpWakes => /\ pump \in {"act", "send"}
                 /\ \A x \in pumpTodo : x.do = "replay"

\* A timer that sleeps without a deadline has none to miss, or will be woken.
Sleeping == timer = "sleep" /\ until = None /\ ~wake => Wakes = {} \/ pumpWakes

EpochInv == IInv /\ PumpTypes /\ PausedIffBlocked /\ Tasks /\ Waking /\ Sleeping

\* Every step of an epoch is a call the engine may get.
LEMMA EpochEngineStep == EpochInv /\ [EpochNext]_epochVars => [Next]_vars
<1> SUFFICES ASSUME EpochInv, [EpochNext]_epochVars PROVE [Next]_vars
  OBVIOUS
<1> USE DEF EpochInv, PumpTypes, PausedIffBlocked, Tasks
<1>1. CASE EpochStarts \/ EpochEnds
  BY <1>1 DEF EpochStarts, EpochEnds, Next
<1>2. CASE \/ ResumeSent \/ ResumeFails \/ WireDrops \/ Consume \/ UNCHANGED epochVars
           \/ PutAtOnce \/ PumpActs \/ PumpActsDone \/ PumpSent
           \/ TimerSleeps \/ TimerWakes \/ TimerActs \/ TimerActsDone \/ TimerSent
  BY <1>2 DEF ResumeSent, ResumeFails, WireDrops, Consume, epochVars, PutAtOnce, PumpActs,
     PumpActsDone, PumpSent, TimerSleeps, TimerWakes, TimerActs, TimerActsDone, TimerSent
<1>3. CASE GroupFails
  BY <1>3 DEF GroupFails, PutCancelled, Next, Backpressure
<1>4. ASSUME NEW c \in Channel, NEW p \in Pos, PumpMessage(c, p) \/ PumpGap(c, p)
      PROVE  [Next]_vars
  BY <1>4 DEF PumpMessage, PumpGap, Receiving, Next, DispatchKafkaFrame, Dispatching
<1>5. ASSUME NEW c \in Channel, PumpReplayComplete(c) \/ PumpReplayError(c)
      PROVE  [Next]_vars
  BY <1>5 DEF PumpReplayComplete, PumpReplayError, Receiving, Next, DispatchKafkaFrame,
     Dispatching
<1>6. ASSUME NEW c \in Channel, PumpHistoryEnd(c) PROVE [Next]_vars
  BY <1>6 DEF PumpHistoryEnd, Receiving, Next, DispatchHistoryEnd, Dispatching
<1>7. CASE PumpNotAvailable
  BY <1>7 DEF PumpNotAvailable, Receiving, Next, ServerIsDirect, Dispatching
<1>8. CASE PumpHandlesGap
  <2>1. holding.channel \in Channel /\ holding.at \in Pos
    BY <1>8 DEF PumpHandlesGap, Held, Nothing, Marker, Item, GapAt
  <2> QED
    BY <1>8, <2>1 DEF PumpHandlesGap, Next, DispatchKafkaFrame, Dispatching
<1>9. CASE PutBlocks \/ PutReturns
  BY <1>9 DEF PutBlocks, PutReturns, Next, Backpressure, Dispatching
<1>10. CASE TimerDue \/ ClockTicks
  BY <1>10 DEF TimerDue, ClockTicks, Next
<1>11. ASSUME NEW c \in Channel, History(c) PROVE [Next]_vars
  BY <1>11 DEF History, Next, RequestHistory
<1> QED
  BY <1>1, <1>2, <1>3, <1>4, <1>5, <1>6, <1>7, <1>8, <1>9, <1>10, <1>11
  DEF EpochNext, Pump, TimerTask, RecvFails, HeartbeatSendFails, PumpSendFails, TimerSendFails

-----------------------------------------------------------------------------
(* What the engine's calls do to the wakes.                                *)

Unarmed(c) ==
    /\ rec[c].phase = "floor_wait" => rec[c].floorWake = None
    /\ rec[c].deadline = None
    /\ history[c] = None

\* There is a wake exactly if some channel has a timer.
LEMMA NoWakes == Wakes = {} <=> \A c \in Channel : Unarmed(c)
BY DEF Wakes, Unarmed

\* Only a gap and a history request arm a first timer.
LEMMA StaysUnarmed ==
    ASSUME IInv, Wakes = {}, NEW d \in Channel, NEW p,
           \/ NotePos(d, p) \/ NoteReplayMessage(d, p) \/ NoteHistoryMessage(d, p)
           \/ HandleReplayComplete(d) \/ HandleRecoveryFailure(d)
           \/ HandleHistoryComplete(d)
    PROVE  Wakes' = {}
<1>0. /\ \A c \in Channel : Unarmed(c) /\ RecordOK(rec[c]) /\ rec[c] \in ChannelRecord
      /\ rec \in [Channel -> ChannelRecord] /\ DOMAIN history = Channel
  BY NoWakes DEF IInv, TypeOK, PhasesConsistent
<1>1. rec[d].phase # "replaying"
  BY <1>0 DEF RecordOK, Unarmed
<1> SUFFICES ASSUME NEW c \in Channel PROVE Unarmed(c)'
  <2>1. (Wakes = {} <=> \A c \in Channel : Unarmed(c))'
    BY NoWakes, PTL
  <2> QED
    BY <2>1
<1>2. CASE NotePos(d, p) \/ NoteReplayMessage(d, p) \/ NoteHistoryMessage(d, p)
  BY <1>0, <1>1, <1>2 DEF NotePos, NoteReplayMessage, NoteHistoryMessage, Unarmed
<1>3. CASE HandleReplayComplete(d)
  <2>1. rec' = [rec EXCEPT ![d] = [rec[d] EXCEPT !.deadline = None]] /\ history' = history
    BY <1>1, <1>0, <1>3 DEF HandleReplayComplete, ChannelRecord
  <2>2. rec'[c].phase = rec[c].phase /\ rec'[c].floorWake = rec[c].floorWake
        /\ rec'[c].deadline = None
    BY <1>0, <2>1 DEF ChannelRecord, Unarmed
  <2> QED
    BY <1>0, <2>1, <2>2 DEF Unarmed
<1>4. CASE HandleRecoveryFailure(d)
  <2>1. Reset(rec[d]).phase = "idle" /\ Reset(rec[d]).deadline = None
    BY <1>0 DEF Reset, ChannelRecord
  <2> QED
    BY <1>0, <1>4, <2>1 DEF HandleRecoveryFailure, Unarmed
<1>5. CASE HandleHistoryComplete(d)
  BY <1>0, <1>5 DEF HandleHistoryComplete, Unarmed
<1> QED
  BY <1>2, <1>3, <1>4, <1>5

\* A Direct backend ends every recovery.
LEMMA NotAvailableUnarmed ==
    ASSUME Wakes = {}, NEW chans, HandleNotAvailable(chans)
    PROVE  Wakes' = {}
<1>1. \A c \in Channel : Unarmed(c)'
  BY NoWakes DEF HandleNotAvailable, Fresh, Unarmed
<1>2. (Wakes = {} <=> \A c \in Channel : Unarmed(c))'
  BY NoWakes, PTL
<1> QED
  BY <1>1, <1>2

\* Nothing else has to do with the timers at all.
LEMMA SameWakes ==
    ASSUME UNCHANGED <<rec, history>>
    PROVE  Wakes' = Wakes
BY DEF Wakes

\* What the engine returns for a gap is replays.
LEMMA GapReplays ==
    ASSUME NEW d, NEW p, HandleGap(d, p)
    PROVE  \A x \in out' : x.do = "replay"
BY DEF HandleGap, SendReplay

-----------------------------------------------------------------------------
(* Every step keeps the invariant.                                         *)

\* An epoch begins with every task waiting and no timer armed.
LEMMA EpochInitInv == EpochInit => EpochInv
<1> SUFFICES ASSUME EpochInit PROVE EpochInv
  OBVIOUS
<1>1. IInv
  BY InitIInv DEF EpochInit
<1>2. PumpTypes /\ PausedIffBlocked /\ Tasks /\ Waking /\ Sleeping
  <2>1. Nothing \in Held /\ Nothing.kind # "gap"
    BY DEF Held, Nothing
  <2>2. PumpTypes /\ Sleeping
    BY <2>1 DEF EpochInit, PumpTypes, Sleeping
  <2>3. PausedIffBlocked /\ Tasks /\ Waking
    BY <2>1 DEF EpochInit, Init, PausedIffBlocked, Tasks, Waking
  <2> QED
    BY <2>2, <2>3
<1> QED
  BY <1>1, <1>2 DEF EpochInv

\* Every step keeps all of the invariant that is about one task.
LEMMA TasksStep ==
    EpochInv /\ [EpochNext]_epochVars =>
        PumpTypes' /\ PausedIffBlocked' /\ Tasks' /\ Waking'
<1> SUFFICES ASSUME EpochInv, [EpochNext]_epochVars
             PROVE  PumpTypes' /\ PausedIffBlocked' /\ Tasks' /\ Waking'
  OBVIOUS
<1> DEFINE Good == PumpTypes /\ PausedIffBlocked /\ Tasks /\ Waking
<1> USE DEF EpochInv, PumpTypes, PausedIffBlocked, Tasks, Waking, vars, stall, mode,
        pumpVars, timerVars
<1>0. /\ Nothing \in Held /\ Marker \in Held
      /\ Nothing.kind = "nothing" /\ Marker.kind = "possible_gap"
      /\ \A c \in Channel, p \in Pos :
            /\ Item(c, p) \in Held /\ GapAt(c, p) \in Held
            /\ Item(c, p).kind = "message" /\ GapAt(c, p).kind = "gap"
  <2>1. Nothing \in Held /\ Marker \in Held
    BY DEF Held
  <2>2. \A c \in Channel, p \in Pos : Item(c, p) \in Held /\ GapAt(c, p) \in Held
    BY DEF Held
  <2> QED
    BY <2>1, <2>2 DEF Nothing, Marker, Item, GapAt
<1>A. \A x \in Held : x.kind # "nothing" => x # Nothing
  BY <1>0
<1>B. ASSUME NEW d, NEW p,
             \/ NotePos(d, p) \/ NoteReplayMessage(d, p) \/ NoteHistoryMessage(d, p)
             \/ HandleReplayComplete(d) \/ HandleRecoveryFailure(d)
             \/ HandleHistoryComplete(d) \/ NoteHistoryRequest(d)
      PROVE  UNCHANGED <<connected, paused, direct>>
  BY <1>B DEF NotePos, NoteReplayMessage, NoteHistoryMessage, HandleReplayComplete,
     HandleRecoveryFailure, HandleHistoryComplete, NoteHistoryRequest
<1>1. CASE EpochStarts
  BY <1>1 DEF EpochStarts, Resume
<1>2. CASE EpochEnds
  BY <1>2 DEF EpochEnds, HandleDisconnect
<1>3. CASE ResumeSent \/ ResumeFails
  BY <1>3 DEF ResumeSent, ResumeFails
<1>4. CASE WireDrops \/ Consume \/ UNCHANGED epochVars
  BY <1>4 DEF WireDrops, Consume, epochVars
<1>5. CASE GroupFails
  BY <1>0, <1>5 DEF GroupFails, PutCancelled, NoteBackpressure
<1>6. ASSUME NEW c \in Channel, NEW p \in Pos, PumpMessage(c, p)
      PROVE  Good'
  BY <1>0, <1>A, <1>B, <1>6 DEF PumpMessage, Receiving, Offering
<1>7. ASSUME NEW c \in Channel, NEW p \in Pos, PumpGap(c, p)
      PROVE  Good'
  BY <1>0, <1>A, <1>7 DEF PumpGap, Receiving, Offering
<1>8. ASSUME NEW c \in Channel, PumpReplayComplete(c) \/ PumpReplayError(c)
      PROVE  Good'
  BY <1>0, <1>A, <1>B, <1>8 DEF PumpReplayComplete, PumpReplayError, Receiving, Acting
<1>9. ASSUME NEW c \in Channel, PumpHistoryEnd(c) \/ History(c)
      PROVE  Good'
  <2>1. UNCHANGED <<connected, paused, direct, pumpVars, timer>> /\ wake' \in BOOLEAN
    BY <1>B, <1>9 DEF PumpHistoryEnd, History
  <2> QED
    BY <2>1
<1>10. CASE PumpNotAvailable
  <2>1. /\ UNCHANGED <<connected, paused, wake, timer>>
        /\ pump = "recv" /\ pump' = "act" /\ holding' = Nothing /\ pumpWakes' = FALSE
    BY <1>10 DEF PumpNotAvailable, Receiving, Acting, HandleNotAvailable
  <2> QED
    BY <1>0, <2>1
<1>11. CASE PumpHandlesGap
  <2>1. \A x \in out' : x.do = "replay"
    BY <1>11, GapReplays DEF PumpHandlesGap
  <2> QED
    BY <1>0, <1>11, <2>1 DEF PumpHandlesGap, Acting, HandleGap
<1>12. CASE PutAtOnce \/ PutReturns
  BY <1>0, <1>12 DEF PutAtOnce, PutReturns, Queued, NoteBackpressure
<1>13. CASE PutBlocks
  BY <1>13 DEF PutBlocks, NoteBackpressure
<1>14. CASE PumpActs
  BY <1>0, <1>A, <1>14 DEF PumpActs
<1>15. CASE PumpActsDone \/ PumpSent
  <2>1. /\ UNCHANGED <<connected, paused, direct, holding, pumpTodo, timer>>
        /\ pump \in {"act", "send"} /\ pump' \in {"recv", "act"}
        /\ pump' = "recv" => ~pumpWakes'
        /\ pump' = "act" => pumpWakes' = pumpWakes
        /\ wake' \in BOOLEAN /\ pumpWakes' \in BOOLEAN
    BY <1>15 DEF PumpActsDone, PumpSent, WakeAfter
  <2> QED
    BY <2>1
<1>16. CASE TimerSleeps \/ TimerWakes \/ TimerActs \/ TimerActsDone \/ TimerSent
  <2>1. /\ UNCHANGED <<connected, paused, direct, pumpVars>>
        /\ timer # "gone" /\ timer' \in {"check", "sleep", "act", "send"}
        /\ wake' \in BOOLEAN
    BY <1>16 DEF TimerSleeps, TimerWakes, TimerActs, TimerActsDone, TimerSent
  <2> QED
    BY <2>1
<1>17. CASE TimerDue
  BY <1>17 DEF TimerDue, TimerFires, Due
<1>18. CASE ClockTicks
  BY <1>18 DEF ClockTicks, Tick
<1> QED
  BY <1>1, <1>2, <1>3, <1>4, <1>5, <1>6, <1>7, <1>8, <1>9, <1>10, <1>11, <1>12, <1>13,
     <1>14, <1>15, <1>16, <1>17, <1>18
  DEF EpochNext, Pump, TimerTask, RecvFails, HeartbeatSendFails, PumpSendFails, TimerSendFails

\* A step that arms the first timer sets the event the timer sleeps on.
LEMMA SleepingStep == EpochInv /\ [EpochNext]_epochVars => Sleeping'
<1> SUFFICES ASSUME EpochInv, [EpochNext]_epochVars,
                    timer' = "sleep", until' = None, ~wake'
             PROVE  Wakes' = {} \/ pumpWakes'
  BY DEF Sleeping
<1> USE DEF EpochInv, vars, stall, mode, pumpVars, timerVars
<1>1. CASE EpochStarts \/ ResumeSent \/ GroupFails \/ EpochEnds
  BY <1>1 DEF EpochStarts, ResumeSent, GroupFails, EpochEnds, Tasks, PumpTypes, Resume
<1>2. CASE ResumeFails \/ WireDrops \/ Consume \/ UNCHANGED epochVars \/ PumpActs \/ PumpSent
           \/ PutAtOnce \/ PutBlocks \/ PutReturns \/ ClockTicks
           \/ (\E c \in Channel, p \in Pos : PumpGap(c, p))
  <2>1. UNCHANGED <<rec, history, pumpWakes, timer, until, wake>>
    BY <1>2 DEF ResumeFails, WireDrops, Consume, epochVars, PumpActs, PumpSent, PutAtOnce,
       PutBlocks, PutReturns, ClockTicks, PumpGap, Offering, Queued, NoteBackpressure, Tick
  <2> QED
    BY <2>1, SameWakes DEF Sleeping
<1>3. ASSUME NEW d \in Channel, NEW p,
             \/ PumpMessage(d, p) \/ PumpReplayComplete(d) \/ PumpReplayError(d)
             \/ PumpHistoryEnd(d)
      PROVE  Wakes' = {}
  <2>1. /\ UNCHANGED <<timer, until, wake>> /\ ~pumpWakes
        /\ \/ NotePos(d, p) \/ NoteReplayMessage(d, p) \/ NoteHistoryMessage(d, p)
           \/ HandleReplayComplete(d) \/ HandleRecoveryFailure(d)
           \/ HandleHistoryComplete(d)
    BY <1>3 DEF PumpMessage, PumpReplayComplete, PumpReplayError, PumpHistoryEnd,
       Receiving, Waking
  <2>2. Wakes = {}
    BY <2>1 DEF Sleeping
  <2> QED
    BY <2>1, <2>2, StaysUnarmed
<1>4. CASE PumpHandlesGap
  BY <1>4 DEF PumpHandlesGap, Acting
<1>5. CASE PumpNotAvailable
  <2>1. PICK chans \in SUBSET Channel : HandleNotAvailable(chans)
    BY <1>5 DEF PumpNotAvailable
  <2>2. UNCHANGED <<timer, until, wake>> /\ ~pumpWakes
    BY <1>5 DEF PumpNotAvailable, Receiving, Waking
  <2>3. Wakes = {}
    BY <2>2 DEF Sleeping
  <2> QED
    BY <2>1, <2>3, NotAvailableUnarmed
<1>6. CASE PumpActsDone
  <2>1. ~pumpWakes /\ UNCHANGED <<rec, history, timer, until>> /\ ~wake
    BY <1>6 DEF PumpActsDone, WakeAfter
  <2> QED
    BY <2>1, SameWakes DEF Sleeping
<1>7. CASE TimerSleeps
  <2>1. Wakes' = Wakes /\ (Wakes # {} => Min(Wakes) = None)
    BY <1>7, SameWakes DEF TimerSleeps
  <2>2. Wakes \in SUBSET Nat
    BY DEF Wakes, IInv, TypeOK, ChannelRecord, Time
  <2>3. Wakes # {} => Min(Wakes) \in Wakes
    BY <2>2, HasLeast DEF Min
  <2> QED
    BY <2>1, <2>2, <2>3, NoneAssumption
<1>8. CASE TimerWakes \/ TimerDue \/ TimerActs \/ TimerActsDone \/ TimerSent
  BY <1>8 DEF TimerWakes, TimerDue, TimerActs, TimerActsDone, TimerSent
<1>9. ASSUME NEW c \in Channel, History(c) PROVE FALSE
  BY <1>9 DEF History
<1> QED
  BY <1>1, <1>2, <1>3, <1>4, <1>5, <1>6, <1>7, <1>8, <1>9
  DEF EpochNext, Pump, TimerTask, RecvFails, HeartbeatSendFails, PumpSendFails, TimerSendFails

\* The invariant holds in every reachable state.
LEMMA EpochInvHolds == EpochSpec => []EpochInv
<1>1. EpochInv /\ [EpochNext]_epochVars => EpochInv'
  BY EpochEngineStep, StepIInv, TasksStep, SleepingStep DEF EpochInv
<1> QED
  BY <1>1, EpochInitInv, PTL DEF EpochSpec

\* What the tasks hold, have still to do, and leave behind.
Loads ==
    /\ wire \in BOOLEAN
    /\ holding # Nothing <=> pump \in {"offer", "put", "gap"}
    /\ pumpTodo \subseteq Action /\ timerTodo \subseteq Action
    /\ until \in Time \cup {None}
    /\ qlen \in 0 .. QMax
    /\ missed \subseteq Channel \X Pos
    /\ unraised \subseteq Action

\* A step of the supervisor, the queue or the user has no new load.
LEMMA LoadsKept ==
    ASSUME Loads, UNCHANGED <<holding, pump, pumpTodo, timerTodo, until, lostVars>>,
           wire' \in BOOLEAN, qlen' \in 0 .. QMax
    PROVE  Loads'
BY DEF Loads, lostVars

\* Every step loads the tasks with what they can carry.
LEMMA LoadsStep ==
    ASSUME EpochInv, Loads, EpochInv', [EpochNext]_epochVars
    PROVE  Loads'
<1> USE QueueAssumption DEF pumpVars, timerVars, lostVars
<1>0. out' \subseteq Action /\ holding \in Held /\ wire \in BOOLEAN /\ qlen \in 0 .. QMax
  BY DEF EpochInv, IInv, TypeOK, PumpTypes, Loads
<1>Q. qlen \in Nat /\ QMax \in Nat /\ qlen <= QMax
  BY <1>0
<1>1. /\ Nothing.kind = "nothing" /\ Marker.kind = "possible_gap"
      /\ \A c \in Channel, p \in Pos : /\ Item(c, p).kind = "message"
                                       /\ GapAt(c, p).kind = "gap"
  BY DEF Nothing, Marker, Item, GapAt
<1>2. holding.kind = "message" => <<holding.channel, holding.at>> \in Channel \X Pos
  BY <1>0 DEF Held, Nothing, Marker, Item, GapAt
<1>3. CASE EpochStarts
  <2>1. pump = "gone"
    BY <1>3 DEF EpochStarts, Resume, EpochInv, Tasks
  <2> QED
    BY <1>3, <2>1 DEF EpochStarts, Loads
<1>4. CASE ResumeSent \/ ResumeFails
  BY <1>4 DEF ResumeSent, ResumeFails, Loads
<1>5. CASE WireDrops \/ EpochEnds \/ Consume \/ ClockTicks \/ UNCHANGED epochVars
  <2>1. /\ UNCHANGED <<holding, pump, pumpTodo, timerTodo, until, lostVars>>
        /\ wire' \in {wire, FALSE} /\ qlen' \in {qlen} \cup {qlen - 1}
        /\ qlen' # qlen => qlen > 0
    BY <1>5 DEF WireDrops, EpochEnds, Consume, ClockTicks, epochVars
  <2>2. qlen' \in 0 .. QMax
    BY <1>Q, <2>1
  <2>3. wire' \in BOOLEAN
    BY <1>0, <2>1
  <2> QED
    BY <2>1, <2>2, <2>3, LoadsKept
<1>6. ASSUME NEW c \in Channel, PumpHistoryEnd(c) \/ History(c) PROVE Loads'
  BY <1>0, <1>6, LoadsKept DEF PumpHistoryEnd, History
<1>7. CASE GroupFails
  <2>1. missed' \subseteq Channel \X Pos
    BY <1>2, <1>7 DEF GroupFails, Loads
  <2>2. unraised' \subseteq Action
    BY <1>7 DEF GroupFails, Loads, Interruptions
  <2> QED
    BY <1>7, <2>1, <2>2 DEF GroupFails, Loads
<1>8. ASSUME NEW c \in Channel, NEW p \in Pos, PumpMessage(c, p) \/ PumpGap(c, p)
      PROVE  Loads'
  <2>1. holding' # Nothing /\ pump' = "offer"
    BY <1>1, <1>8 DEF PumpMessage, PumpGap, Offering
  <2> QED
    BY <1>8, <2>1 DEF PumpMessage, PumpGap, Offering, Loads
<1>9. CASE \/ \E c \in Channel : PumpReplayComplete(c) \/ PumpReplayError(c)
           \/ PumpNotAvailable \/ PumpHandlesGap
  <2>1. /\ pump' = "act" /\ holding' = Nothing /\ pumpTodo' = out'
        /\ UNCHANGED <<wire, timerTodo, until, qlen, missed, unraised>>
    BY <1>9 DEF PumpReplayComplete, PumpReplayError, PumpNotAvailable, PumpHandlesGap, Acting
  <2> QED
    BY <1>0, <2>1 DEF Loads
<1>10. CASE PutAtOnce \/ PutReturns
  <2>1. qlen' \in 0 .. QMax
    <3>1. qlen < QMax /\ qlen' = qlen + 1
      BY <1>10 DEF PutAtOnce, PutReturns, Room
    <3> QED
      BY <1>Q, <3>1
  <2>2. holding' # Nothing <=> pump' \in {"offer", "put", "gap"}
    BY <1>1, <1>10 DEF PutAtOnce, PutReturns, Queued
  <2> QED
    BY <1>10, <2>1, <2>2 DEF PutAtOnce, PutReturns, Queued, Loads
<1>11. CASE PutBlocks
  BY <1>11 DEF PutBlocks, Loads
<1>12. CASE PumpActs
  <2>1. PICK x \in pumpTodo :
           /\ pumpTodo' = pumpTodo \ {x}
           /\ \/ UNCHANGED <<pump, holding>>
              \/ pump' = "offer" /\ holding' = Marker
              \/ pump' = "send" /\ UNCHANGED holding
    BY <1>12 DEF PumpActs
  <2>2. holding' # Nothing <=> pump' \in {"offer", "put", "gap"}
    BY <1>1, <1>12, <2>1 DEF PumpActs, Loads
  <2> QED
    BY <1>12, <2>1, <2>2 DEF PumpActs, Loads
<1>13. CASE PumpActsDone \/ PumpSent
  BY <1>13 DEF PumpActsDone, PumpSent, Loads
<1>14. CASE TimerSleeps
  <2>1. Wakes \in SUBSET Nat
    BY DEF Wakes, EpochInv, IInv, TypeOK, ChannelRecord, Time
  <2>2. Wakes # {} => Min(Wakes) \in Time
    BY <2>1, HasLeast DEF Min, Time
  <2> QED
    BY <1>14, <2>2 DEF TimerSleeps, Loads
<1>15. CASE TimerWakes \/ TimerDue \/ TimerActs \/ TimerActsDone \/ TimerSent
  <2>1. /\ until' \in {until, None} /\ timerTodo' \subseteq timerTodo \cup out'
        /\ UNCHANGED <<wire, pumpVars, qlen, lostVars>>
    BY <1>15 DEF TimerWakes, TimerDue, TimerActs, TimerActsDone, TimerSent
  <2> QED
    BY <1>0, <2>1 DEF Loads
<1> QED
  BY <1>3, <1>4, <1>5, <1>6, <1>7, <1>8, <1>9, <1>10, <1>11, <1>12, <1>13, <1>14, <1>15
  DEF EpochNext, Pump, TimerTask, RecvFails, HeartbeatSendFails, PumpSendFails, TimerSendFails

-----------------------------------------------------------------------------
\* Pump, timer, user and supervisor call the engine in no way its own
\* specification does not allow, whatever fails in between: what is proved of
\* the engine for any calls holds in every epoch (client.py).
THEOREM EngineUsedRight == EpochSpec => Spec
<1>1. EpochInit => Init
  BY DEF EpochInit
<1> QED
  BY <1>1, EpochEngineStep, EpochInvHolds, PTL DEF EpochSpec, Spec

\* The stall flag is up exactly while the pump is blocked in a put, whichever
\* way the put ends (client.py, _put_delivery).
THEOREM FlagIsRight == EpochSpec => []PausedIffBlocked
<1>1. EpochInv => PausedIffBlocked
  BY DEF EpochInv
<1> QED
  BY <1>1, EpochInvHolds, PTL

\* The recovery timer does not sleep without a deadline while one is armed
\* (client.py, _recovery_timer): whoever arms the first one wakes it.
THEOREM TimerIsWoken == EpochSpec => []NeverSleepsThroughAll
<1>1. EpochInv => NeverSleepsThroughAll
  BY DEF EpochInv, Sleeping, Waking, PumpBusy, NeverSleepsThroughAll
<1> QED
  BY <1>1, EpochInvHolds, PTL

\* Every variable of an epoch has its type, the queue its bound, and the pump
\* something to put exactly where it is putting it (client.py, _put_delivery,
\* _read_pump): the epoch's type invariant.
THEOREM EpochTypesAreRight == EpochSpec => []EpochTypeOK
<1>1. EpochInit => Loads
  <2>1. 0 \in 0 .. QMax
    BY QueueAssumption
  <2> QED
    BY <2>1 DEF EpochInit, Loads
<1>2. EpochInv /\ Loads /\ EpochInv' /\ [EpochNext]_epochVars => Loads'
  BY LoadsStep
<1>3. EpochInv /\ Loads => EpochTypeOK
  BY DEF EpochInv, IInv, PumpTypes, Loads, EpochTypeOK
<1> QED
  BY <1>1, <1>2, <1>3, EpochInvHolds, PTL DEF EpochSpec
===============================================================================
