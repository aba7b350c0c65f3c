---------------------------- MODULE GapRecovery ----------------------------
(***************************************************************************)
(* The recovery engine together with its server, across connections: what  *)
(* becomes of every message the server drops.  The backend is chosen at    *)
(* Init and the client does not know it: Kafka keeps every message and     *)
(* numbers it, Direct keeps nothing and gives no position.                 *)
(*                                                                         *)
(* A channel is a log of messages numbered from 1, and the position of a   *)
(* message is its number (0: before the first).  The engine never uses     *)
(* that; the server and the properties do.  The wire is FIFO, so the       *)
(* server's sending a frame and the client's dispatching it are one step:  *)
(* frames still in flight when the connection drops were never sent.       *)
(*                                                                         *)
(* The server is external.  Its behaviour is the one src/sukko/recovery.py *)
(* and its tests rely on: a gap frame carries the position of the last     *)
(* message sent before the loss, a replay brings every message dropped     *)
(* after its from_pos up to the moment it was asked for, a reconnect       *)
(* resumes each channel after the last_pos it names.  A replay may also    *)
(* never be completed, or be refused.  A Direct backend answers a          *)
(* reconnect with not_available, and every channel stays desired.          *)
(***************************************************************************)
EXTENDS RecoveryEngine, Sequences, FiniteSetsExt

CONSTANTS
    MaxPos,        \* bound on the messages of a channel
    StaleReplies,  \* may the server answer a replay the engine has given up?
    LaterLoss      \* may a Direct backend lose messages in an outage that
                   \* begins when the client already knows it is Direct?

ASSUME LogAssumption ==
    MaxPos \in Nat /\ Pos = 0 .. MaxPos /\ {StaleReplies, LaterLoss} \subseteq BOOLEAN

VARIABLES
    sent,       \* per channel: the last message the server sent or dropped
    lost,       \* per channel: dropped, not replayed, and not reported as lost
    asked,      \* per channel: what the replays the server still has to
                \* complete will bring, oldest first
    givenUp,    \* per channel: lost messages the engine recovers no longer
    todo,       \* per task: what is left of the action list it carries out
    gone,       \* the tasks ended by a send that raised; the epoch will end
    abandoned,  \* (history) channels whose last report was never made: its
                \* list was dropped at a failing send or with the epoch
    kafka,      \* the backend is Kafka
    probe,      \* Direct: the answer to a reconnect is on its way
    untold      \* Direct: channels with an unreported loss

log == <<sent, lost, asked, givenUp>>
lists == <<todo, gone, abandoned>>
backend == <<kafka, probe, untold>>
gapVars == <<vars, log, lists, backend>>

Message == 1 .. MaxPos
Task == {"pump", "timer"}

GapTypeOK ==
    /\ TypeOK
    /\ sent \in [Channel -> Pos]
    /\ lost \in [Channel -> SUBSET Message]
    /\ asked \in [Channel -> Seq(SUBSET Message)]
    /\ givenUp \in [Channel -> SUBSET Message]
    /\ todo \in [Task -> SUBSET Action]
    /\ gone \subseteq Task /\ abandoned \subseteq Channel
    /\ kafka \in BOOLEAN /\ probe \in BOOLEAN
    /\ untold \subseteq Channel

GapInit ==
    /\ Init
    /\ sent = [c \in Channel |-> 0]
    /\ lost = [c \in Channel |-> {}]
    /\ asked = [c \in Channel |-> <<>>]
    /\ givenUp = [c \in Channel |-> {}]
    /\ todo = [t \in Task |-> {}] /\ gone = {} /\ abandoned = {}
    /\ kafka \in BOOLEAN /\ probe = FALSE /\ untold = {}

-----------------------------------------------------------------------------
\* The engine ends its recovery of c in this step, with an interruption.
Reported(c) == Interrupted(c, "replay") \in out'

\* The lost messages the engine has given up once it has returned out'.
NowGivenUp == [c \in Channel |-> IF Reported(c) THEN lost[c] ELSE givenUp[c]]

\* The replays q the server still has to complete, once it is known which
\* recoveries the engine has given up.
Pending(q) == [c \in Channel |-> IF Reported(c) /\ ~StaleReplies THEN <<>> ELSE q[c]]

\* Task t has the actions `list' to carry out, one by one in the order of the
\* list.  A send, or a put, is an await and a step of its own; the
\* interruptions before the next one are raised now, all of them if there is
\* none left.  An interruption tells of what the engine has given up.
CarryOut(t, list, lostNow, givenNow) ==
    \E told \in SUBSET {x \in list : x.do = "raise"} :
        /\ (\A x \in list : x.do = "raise") => told = list
        /\ todo' = [todo EXCEPT ![t] = list \ told]
        /\ LET heard == {c \in Channel : Interrupted(c, "replay") \in told} IN
           /\ lost' = [c \in Channel |->
                 IF c \in heard THEN lostNow[c] \ givenNow[c] ELSE lostNow[c]]
           /\ givenUp' = [c \in Channel |-> IF c \in heard THEN {} ELSE givenNow[c]]
           /\ abandoned' = abandoned \ heard

\* The channels a list still has a report for.
Reports(list) ==
    {c \in Channel : Interrupted(c, "replay") \in list \/ EmitPossibleGap(c) \in list}

\* The pump is between two frames: not in a put, not in an action list.
Reading == Dispatching /\ todo["pump"] = {} /\ "pump" \notin gone

\* The next message of c is sent live.
Live(c) ==
    /\ kafka /\ Reading /\ sent[c] < MaxPos
    /\ sent' = [sent EXCEPT ![c] = @ + 1]
    /\ NotePos(c, sent[c] + 1)
    /\ UNCHANGED <<lost, asked, givenUp, lists, backend>>

\* The next message of c is dropped, and a gap frame sent in its place.
Drop(c) ==
    /\ kafka /\ Reading /\ sent[c] < MaxPos
    /\ sent' = [sent EXCEPT ![c] = @ + 1]
    /\ HandleGap(c, sent[c])
    /\ CarryOut("pump", out', [lost EXCEPT ![c] = @ \cup {sent[c] + 1}], givenUp)
    /\ UNCHANGED <<asked, gone, backend>>

\* The server replays the first message its oldest replay of c still owes.
Replayed(c) ==
    /\ Reading /\ asked[c] # <<>> /\ Head(asked[c]) # {}
    /\ LET m == Min(Head(asked[c])) IN
       /\ NoteReplayMessage(c, m)
       /\ asked' = [asked EXCEPT ![c][1] = @ \ {m}]
       /\ lost' = [lost EXCEPT ![c] = @ \ {m}]
       /\ givenUp' = [givenUp EXCEPT ![c] = @ \ {m}]
    /\ UNCHANGED <<sent, lists, backend>>

\* The server has replayed everything and completes the replay.
Completed(c) ==
    /\ Reading /\ asked[c] # <<>> /\ Head(asked[c]) = {}
    /\ HandleReplayComplete(c)
    /\ CarryOut("pump", out', lost, givenUp)
    /\ asked' = [asked EXCEPT ![c] = Tail(@)]
    /\ UNCHANGED <<sent, gone, backend>>

\* The server refuses or abandons its oldest replay of c.
Refused(c) ==
    /\ Reading /\ asked[c] # <<>>
    /\ HandleRecoveryFailure(c)
    /\ CarryOut("pump", out', lost, NowGivenUp)
    /\ asked' = Pending([asked EXCEPT ![c] = Tail(@)])
    /\ UNCHANGED <<sent, gone, backend>>

\* The timer carries out what due() returned.
Timer ==
    /\ todo["timer"] = {} /\ "timer" \notin gone
    /\ TimerFires
    /\ CarryOut("timer", out', lost, NowGivenUp)
    /\ asked' = Pending(asked)
    /\ UNCHANGED <<sent, gone, backend>>

\* A replay request of task t is on the wire and its list goes on.  Unless it
\* answers what the engine has given up meanwhile, the server will replay
\* everything dropped after p until now.
Sent(t, c, p) ==
    /\ SendReplay(c, p) \in todo[t] /\ gone = {}
    /\ CarryOut(t, todo[t] \ {SendReplay(c, p)}, lost, givenUp)
    /\ asked' = IF StaleReplies \/ rec[c].phase = "replaying"
                THEN [asked EXCEPT ![c] = Append(@, {m \in lost[c] : m > p})]
                ELSE asked
    /\ UNCHANGED <<vars, sent, gone, backend>>

\* A send of task t raises, the connection being lost: the rest of the list
\* is never carried out and the task group is about to end the epoch.
SendFails(t) ==
    /\ \E x \in todo[t] : x.do = "replay"
    /\ todo' = [todo EXCEPT ![t] = {}]
    /\ gone' = gone \cup {t}
    /\ abandoned' = abandoned \cup Reports(todo[t])
    /\ UNCHANGED <<vars, log, backend>>

\* The consumer stalls, the pump being in a put, or takes an item again.
Stall ==
    /\ "pump" \notin gone /\ \A x \in todo["pump"] : x.do # "replay"
    /\ Backpressure
    /\ UNCHANGED <<log, lists, backend>>

\* The connection drops; the server forgets the replays it owes and the tasks
\* are cancelled, wherever they are in their lists.  The interruptions of
\* handle_disconnect need no await.
Disconnect ==
    /\ HandleDisconnect
    /\ lost' = [c \in Channel |-> IF Reported(c) THEN {} ELSE lost[c]]
    /\ givenUp' = [c \in Channel |-> IF Reported(c) THEN {} ELSE givenUp[c]]
    /\ asked' = [c \in Channel |-> <<>>]
    /\ todo' = [t \in Task |-> {}] /\ gone' = {}
    /\ abandoned' = (abandoned \cup Reports(UNION {todo[t] : t \in Task}))
                        \ {c \in Channel : Reported(c)}
    /\ probe' = FALSE
    /\ UNCHANGED <<sent, kafka, untold>>

\* Published to a Direct backend while the client is away: nobody keeps it.
LostWhileAway(c) ==
    /\ ~kafka /\ ~connected /\ connectedOnce /\ (direct => LaterLoss)
    /\ untold' = untold \cup {c}
    /\ UNCHANGED <<vars, log, lists, kafka, probe>>

\* The Direct backend's not_available arrives: from now on the engine knows,
\* and the pump has a PossibleGap to put for each channel resumed.
NotAvailable ==
    /\ Reading /\ probe
    /\ HandleNotAvailable(Channel)
    /\ todo' = [todo EXCEPT !["pump"] = out']
    /\ probe' = FALSE
    /\ UNCHANGED <<log, gone, abandoned, kafka, untold>>

\* One of them is in the consumer's queue.
PutGap(c) ==
    /\ ~paused /\ EmitPossibleGap(c) \in todo["pump"]
    /\ todo' = [todo EXCEPT !["pump"] = @ \ {EmitPossibleGap(c)}]
    /\ untold' = untold \ {c}
    /\ UNCHANGED <<vars, log, gone, abandoned, kafka, probe>>

\* A new connection; the server resumes each channel that has a position, so
\* what it had dropped after that position it will now send.  (A reconnect
\* frame that cannot be sent ends the epoch: this step, then Disconnect.)
Reconnect ==
    /\ Resume
    /\ sent' = [c \in Channel |->
          IF out' # {} /\ pos[c] # None THEN pos[c] ELSE sent[c]]
    /\ lost' = [c \in Channel |-> {m \in lost[c] : m <= sent'[c]}]
    /\ givenUp' = [c \in Channel |-> {m \in givenUp[c] : m <= sent'[c]}]
    /\ probe' = (~kafka /\ out' # {})
    /\ UNCHANGED <<asked, lists, kafka, untold>>

GapNext ==
    \/ \E c \in Channel : Live(c) \/ Drop(c) \/ Replayed(c) \/ Completed(c) \/ Refused(c)
    \/ Timer
    \/ \E t \in Task, c \in Channel, p \in Pos : Sent(t, c, p)
    \/ \E t \in Task : SendFails(t)
    \/ Stall
    \/ Disconnect
    \/ Reconnect
    \/ NotAvailable
    \/ \E c \in Channel : PutGap(c) \/ LostWhileAway(c)
    \/ Tick /\ UNCHANGED <<log, lists, backend>>

GapSpec == GapInit /\ [][GapNext]_gapVars

-----------------------------------------------------------------------------
(* Properties.                                                             *)

InReplay(c, m) == \E i \in 1 .. Len(asked[c]) : m \in asked[c][i]

\* A task is about to ask for a replay that brings m.
InRequest(c, m) == \E t \in Task, p \in Pos : SendReplay(c, p) \in todo[t] /\ m > p

InNextCycle(c, m) ==
    \/ rec[c].phase = "floor_wait" /\ m > rec[c].anchor
    \/ rec[c].phase = "replaying" /\ rec[c].followup # None /\ m > rec[c].followup

\* The request was not sent, and the end of the epoch will report c.
InLastReport(c) == gone # {} /\ rec[c].phase # "idle"

AfterResume(c, m) == ~connected /\ pos[c] # None /\ m > pos[c]

ToBeRaised(c) == \E t \in Task : Interrupted(c, "replay") \in todo[t]

\* The engine has given m up, and its interruption is still in a task's list,
\* or was in one that was abandoned.
OutOfEngine(c, m) == m \in givenUp[c] /\ (ToBeRaised(c) \/ c \in abandoned)

\* No message the server dropped is ever forgotten: until it is replayed or
\* reported as lost, a replay that brings it is on its way or about to be
\* asked for, or the engine holds an anchor before it from which the next
\* replay will start, or the next reconnect resumes before it, or the end of
\* the epoch reports it.  This is the conservative-anchor guarantee of
\* recovery.py:17-21 ("may re-deliver, never misses"), over any interleaving
\* of gaps, replays, timeouts, stalls, failing sends and reconnects.  Two
\* things the code does not keep are left out by name: messages whose
\* interruption is in a list `abandoned' at a failing send, and late answers
\* of the server (StaleReplies).  README, Deviations.
NoSilentLoss ==
    \A c \in Channel : \A m \in lost[c] :
        \/ InReplay(c, m) \/ InRequest(c, m) \/ InNextCycle(c, m)
        \/ AfterResume(c, m) \/ InLastReport(c)
        \/ OutOfEngine(c, m)

\* A truncated recovery raises an interruption (recovery.py:59-60 "a truncated
\* recovery (missing completion past the deadline, or a failure
\* mid-recovery)"), which takes a deadline: as long as the server owes
\* messages it dropped, the engine is waiting with a timer, or has given them
\* up with an interruption.  That one is still to be raised, or was in a list
\* `abandoned' at a failing send; with StaleReplies the code does not keep
\* this at all (README, Deviations).
RecoveryWatched ==
    connected => \A c \in Channel : \A m \in lost[c] :
        rec[c].phase # "idle" \/ OutOfEngine(c, m)

\* On a Direct backend, which replays nothing, an outage that lost messages
\* is reported on every channel resumed (messages.py:340 "emitted per
\* resubscribed channel on a Direct reconnect"): whatever drops before the
\* backend has answered, a connection on which the loss is unreported still
\* has the answer coming, or the channel's PossibleGap to put.  Left out by
\* name, the code not keeping them: a PossibleGap `abandoned' because the
\* connection ended before its put, and LaterLoss (README, Deviations).
DirectLossReported ==
    connected => \A c \in untold :
        probe \/ EmitPossibleGap(c) \in todo["pump"] \/ c \in abandoned

(* What the two exclusions leave out; the code keeps neither.              *)

\* Every interruption due() returns is raised.
InterruptionsRaised == \A c \in Channel : givenUp[c] # {} => ToBeRaised(c)

\* Every PossibleGap handle_not_available returns is put.
PossibleGapsPut == ~kafka => abandoned = {}
=============================================================================
