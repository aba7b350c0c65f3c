---------------------- MODULE WebSocketTransport_proofs -----------------------
(***************************************************************************)
(* Proofs about the heartbeat, and about the WebSocket transport with its  *)
(* read pump and heartbeat, for any interval, any timeout above the latency*)
(* of the pong, any codes the server closes with, with and without pauses. *)
(* Every step of the transport keeps the heartbeat's invariant too; it     *)
(* names the author of a close and notices the end of a connection.        *)
(***************************************************************************)
EXTENDS WebSocketTransport, TLAPS

-----------------------------------------------------------------------------
(* The heartbeat.                                                          *)

USE IntervalAssumption, LatencyAssumption, HeartbeatBounds

\* Every variable has its type at first.
LEMMA TypeInit == Init => TypeOK
<1> SUFFICES ASSUME Init PROVE TypeOK
  OBVIOUS
<1>1. 0 \in 0 .. MaxUnread /\ 0 \in Nat /\ {} \subseteq Nat
  OBVIOUS
<1> QED
  BY <1>1, Zenon DEF Init, TypeOK

\* Every step keeps the types.
LEMMA TypeStep == TypeOK /\ [Next]_vars => TypeOK'
<1> SUFFICES ASSUME TypeOK, [Next]_vars PROVE TypeOK'
  OBVIOUS
<1> USE DEF TypeOK
<1>1. CASE HeartbeatOut
  <2>1. pongDue' \subseteq Nat
    BY <1>1 DEF HeartbeatOut
  <2> QED
    BY <1>1, <2>1 DEF HeartbeatOut
<1>2. CASE KeepConnection
  BY <1>2 DEF KeepConnection, server
<1>12. CASE SendHeartbeat
  BY <1>12 DEF SendHeartbeat, server
<1>13. CASE StartTasks
  <2>1. blocked' \in BOOLEAN
    BY <1>13, StallsAssumption, Zenon DEF StartTasks
  <2> QED
    BY <1>13, <2>1 DEF StartTasks, server
<1>3. CASE CloseConnection
  BY <1>3 DEF CloseConnection, server
<1>4. CASE Receive
  <2>1. unread' \in 0 .. MaxUnread /\ lastFrame' \in Nat /\ waited' \in Nat
    BY <1>4 DEF Receive, Stamp
  <2>2. blocked' \in BOOLEAN
    BY <1>4, StallsAssumption, Zenon DEF Receive
  <2> QED
    BY <1>4, <2>1, <2>2, Zenon DEF Receive
<1>5. CASE Consume
  BY <1>5 DEF Consume, server
<1>6. CASE EndEpoch
  BY <1>6 DEF EndEpoch, server
<1>7. CASE Data
  BY <1>7 DEF Data, Buffered, client
<1>8. CASE Pong
  BY <1>8 DEF Pong, Buffered, client
<1>9. CASE FallSilent
  BY <1>9 DEF FallSilent, client
<1>10. CASE Tick
  BY <1>10 DEF Tick, server
<1>11. CASE UNCHANGED vars
  BY <1>11 DEF vars, client, server
<1> QED
  BY <1>1, <1>2, <1>3, <1>4, <1>5, <1>6, <1>7, <1>8, <1>9, <1>10, <1>11, <1>12, <1>13
  DEF Next

-----------------------------------------------------------------------------
(* The inductive invariant.                                                *)

\* The clock never passes a timer that is running or a pong that is due.
ClockWaits ==
    /\ task \in {"interval", "pong"} => now <= wakeAt
    /\ \A t \in pongDue : now <= t
    /\ lastFrame + waited <= now
    /\ task = "returned" => closed

\* A heartbeat that was sent is still to be answered by a server that is
\* alive, or the answer lies in the buffer, or the pump has received a frame.
Answered ==
    task = "pong" =>
        \E out \in Nat :                      \* when the send returned
            /\ sentAt <= out /\ out <= now /\ wakeAt = out + Timeout
            /\ \/ ~alive \/ unread > 0 \/ lastFrame >= sentAt
               \/ out + Latency \in pongDue

\* How far the sleeps and the send can be from the last frame.
SleepsBounded ==
    /\ task = "resuming" => now <= lastFrame + waited
    /\ task = "interval" =>
          /\ wakeAt <= lastFrame + Timeout + Interval + waited
          /\ wakeAt <= now + Interval
    /\ task = "sending" =>
          /\ sentAt <= now
          /\ now <= lastFrame + Timeout + Interval + waited
          /\ lastFrame >= sentAt => now <= lastFrame + waited
    /\ task = "pong" =>
          /\ wakeAt <= now + Timeout
          /\ wakeAt <= lastFrame + 2 * Timeout + Interval + waited
          /\ lastFrame >= sentAt => wakeAt <= lastFrame + Timeout + waited

IInv == TypeOK /\ ClockWaits /\ Answered /\ SleepsBounded

\* The invariant holds at first.
LEMMA InitIInv == Init => IInv
BY TypeInit DEF Init, IInv, ClockWaits, Answered, SleepsBounded

\* Every step keeps it.
LEMMA StepIInv == IInv /\ [Next]_vars => IInv'
<1> SUFFICES ASSUME IInv, [Next]_vars PROVE ClockWaits' /\ Answered' /\ SleepsBounded'
  BY TypeStep DEF IInv
<1> USE DEF IInv, TypeOK
<1>1. CASE HeartbeatOut
  <2>1. /\ task' = "pong" /\ sentAt' = sentAt /\ wakeAt' = now + Timeout
        /\ now' = now /\ lastFrame' = lastFrame /\ waited' = waited
        /\ alive' = alive /\ unread' = unread /\ task = "sending"
    BY <1>1 DEF HeartbeatOut
  <2>2. \A t \in pongDue' : now <= t
    BY <1>1 DEF HeartbeatOut, ClockWaits
  <2>3. ~alive \/ now + Latency \in pongDue'
    BY <1>1 DEF HeartbeatOut
  <2>4. ClockWaits'
    BY <2>1, <2>2 DEF ClockWaits
  <2>5. Answered'
    <3>1. /\ now \in Nat /\ sentAt' <= now /\ now <= now' /\ wakeAt' = now + Timeout
          /\ ~alive' \/ now + Latency \in pongDue'
      BY <2>1, <2>3 DEF SleepsBounded
    <3> QED
      BY <3>1 DEF Answered
  <2>6. SleepsBounded'
    BY <2>1 DEF SleepsBounded, ClockWaits
  <2> QED
    BY <2>4, <2>5, <2>6
<1>2. CASE KeepConnection
  <2>1. lastFrame >= sentAt /\ now = wakeAt
    BY <1>2 DEF KeepConnection, NothingSince, ClockWaits
  <2> QED
    BY <1>2, <2>1 DEF KeepConnection, server, ClockWaits, Answered, SleepsBounded
<1>12. CASE SendHeartbeat
  BY <1>12 DEF SendHeartbeat, server, ClockWaits, Answered, SleepsBounded
<1>13. CASE StartTasks
  BY <1>13 DEF StartTasks, server, ClockWaits, Answered, SleepsBounded
<1>3. CASE CloseConnection
  BY <1>3 DEF CloseConnection, server, ClockWaits, Answered, SleepsBounded
<1>4. CASE Receive
  <2>1. lastFrame' = now /\ waited' = 0 /\ lastFrame <= now /\ task # "resuming"
    BY <1>4 DEF Receive, Stamp, ClockWaits
  <2>2. ClockWaits' /\ SleepsBounded'
    BY <1>4, <2>1 DEF Receive, ClockWaits, SleepsBounded
  <2>3. Answered'
    <3>1. UNCHANGED <<now, task, wakeAt, sentAt, alive, pongDue>>
      BY <1>4 DEF Receive
    <3> QED
      BY <2>1, <3>1 DEF Answered
  <2> QED
    BY <2>2, <2>3
<1>5. CASE Consume
  BY <1>5 DEF Consume, server, ClockWaits, Answered, SleepsBounded
<1>6. CASE EndEpoch
  BY <1>6 DEF EndEpoch, server, ClockWaits, Answered, SleepsBounded
<1>7. CASE Data
  <2>1. unread' > 0
    BY <1>7 DEF Data, Buffered
  <2> QED
    BY <1>7, <2>1 DEF Data, client, ClockWaits, Answered, SleepsBounded
<1>8. CASE Pong
  <2>1. unread' > 0 /\ pongDue' \subseteq pongDue
    BY <1>8 DEF Pong, Buffered
  <2> QED
    BY <1>8, <2>1 DEF Pong, client, ClockWaits, Answered, SleepsBounded
<1>9. CASE FallSilent
  BY <1>9 DEF FallSilent, client, ClockWaits, Answered, SleepsBounded
<1>10. CASE Tick
  <2>1. /\ now' = now + 1 /\ waited' = IF InSend THEN waited + 1 ELSE waited
        /\ UNCHANGED <<task, wakeAt, sentAt, lastFrame, closed, alive, pongDue, unread>>
        /\ task \in {"interval", "pong"} => now < wakeAt
        /\ \A t \in pongDue : now < t
    BY <1>10 DEF Tick, TaskDue, PongLate, server
  <2>2. ClockWaits'
    BY <2>1 DEF ClockWaits
  <2>3. Answered'
    BY <2>1 DEF Answered
  <2>4. SleepsBounded'
    BY <2>1 DEF InSend, SleepsBounded
  <2> QED
    BY <2>2, <2>3, <2>4
<1>11. CASE UNCHANGED vars
  BY <1>11 DEF vars, client, server, ClockWaits, Answered, SleepsBounded
<1> QED
  BY <1>1, <1>2, <1>3, <1>4, <1>5, <1>6, <1>7, <1>8, <1>9, <1>10, <1>11, <1>12, <1>13
  DEF Next

-----------------------------------------------------------------------------
\* A dead connection is closed within an interval and two timeouts of the last
\* frame (client.py, _heartbeat), however long the consumer stalls, the time
\* the client's own sends waited for the write buffer not counted.
THEOREM SilenceNoticed == Spec => []SilenceIsNoticed
<1>1. IInv => SilenceIsNoticed
  BY DEF IInv, TypeOK, ClockWaits, Answered, SleepsBounded, SilenceIsNoticed
<1> QED
  BY <1>1, InitIInv, StepIInv, PTL DEF Spec

\* A server that is alive and whose frames have all been read is never closed
\* on: its pong was read after the heartbeat was sent (client.py, _heartbeat).
THEOREM CloseHasReason == Spec => ClosesWithReason
<1>1. IInv /\ [Next]_vars => [closed' # closed => ~alive \/ unread > 0]_vars
  <2> SUFFICES ASSUME IInv, [Next]_vars, closed' # closed
               PROVE  ~alive \/ unread > 0
    OBVIOUS
  <2>1. CloseConnection
    BY DEF Next, StartTasks, SendHeartbeat, HeartbeatOut, KeepConnection, Receive,
           Consume, EndEpoch, Data, Pong, FallSilent, Tick, client, vars
  <2>2. /\ task = "pong" /\ wakeAt <= now /\ lastFrame < sentAt
    BY <2>1 DEF CloseConnection, NothingSince
  <2>3. \E out \in Nat :
            wakeAt = out + Timeout /\ (~alive \/ unread > 0 \/ out + Latency \in pongDue)
    BY <2>2 DEF IInv, TypeOK, Answered
  <2>4. PICK out \in Nat :
            wakeAt = out + Timeout /\ (~alive \/ unread > 0 \/ out + Latency \in pongDue)
    BY <2>3, Zenon
  <2>5. out + Latency \notin pongDue
    <3>1. now \in Nat /\ wakeAt <= now /\ wakeAt = out + Timeout /\ out \in Nat
      BY <2>2, <2>4 DEF IInv, TypeOK
    <3>2. \A t \in pongDue : now <= t
      BY DEF IInv, ClockWaits
    <3>3. out + Latency < now
      BY <3>1, IntervalAssumption, LatencyAssumption
    <3> QED
      BY <3>1, <3>2, <3>3, LatencyAssumption
  <2> QED
    BY <2>5, <2>4
<1> QED
  BY <1>1, InitIInv, StepIInv, PTL DEF Spec, ClosesWithReason

-----------------------------------------------------------------------------
(* The transport's steps, seen by the heartbeat.                           *)

\* The actions that leave everything Heartbeat speaks of alone.
LEMMA QuietSteps ==
    Opened \/ OpenFails \/ PumpReceivesLate \/ HeartbeatFails \/ SendCutShort
        \/ PauseOrResume \/ ServerEchoes \/ CloseArrives => UNCHANGED vars
BY DEF Opened, OpenFails, PumpReceivesLate, HeartbeatFails, SendRaises, SendCutShort,
       PauseOrResume, ServerEchoes, CloseArrives

\* Each step of the transport, the pump or the peer is a step of Heartbeat.
LEMMA StepsMap == [WsNext]_wsVars => [Next]_vars
<1> SUFFICES ASSUME [WsNext]_wsVars PROVE Next \/ UNCHANGED vars
  OBVIOUS
<1>1. CASE PumpReceives
  BY <1>1 DEF PumpReceives, Next
<1>2. CASE PutReturns
  BY <1>2 DEF PutReturns, Next
<1>3. CASE PutReturnsLate
  BY <1>3 DEF PutReturnsLate, Next
<1>4. CASE RecvOnClosed
  BY <1>4 DEF RecvOnClosed, Next
<1>5. CASE GateOpens
  BY <1>5 DEF GateOpens, Next
<1>6. CASE PumpSeesEnd
  BY <1>6 DEF PumpSeesEnd, Next
<1>7. CASE HeartbeatSent
  BY <1>7 DEF HeartbeatSent, Next
<1>8. CASE HeartbeatKeeps
  BY <1>8 DEF HeartbeatKeeps, Next
<1>9. CASE HeartbeatCloses
  BY <1>9 DEF HeartbeatCloses, Next
<1>10. CASE ServerCloses
  BY <1>10 DEF ServerCloses, Next
<1>11. CASE ConnectionEnds
  BY <1>11 DEF ConnectionEnds, Next
<1>12. CASE Peer
  BY <1>12 DEF Peer, Next
<1>13. CASE Time
  BY <1>13 DEF Time, Next
<1>14. CASE UNCHANGED wsVars
  BY <1>14 DEF wsVars
<1>15. CASE PumpStarts
  BY <1>15 DEF PumpStarts, Next
<1>16. CASE HeartbeatStarts
  BY <1>16 DEF HeartbeatStarts, Next
<1> QED
  BY <1>1, <1>2, <1>3, <1>4, <1>5, <1>6, <1>7, <1>8, <1>9, <1>10, <1>11, <1>12, <1>13,
     <1>14, <1>15, <1>16, QuietSteps, Zenon DEF WsNext

\* With both peers' close frames crossing and the pump at the gate or in a put,
\* the theorems about the heartbeat hold of the transport: a silent connection
\* is closed in time (the waits of the client's sends not counted), and a live
\* one only with frames unread.
THEOREM SocketHeartbeat == WsSpec => []SilenceIsNoticed /\ ClosesWithReason
<1>1. WsInit => Init
  BY DEF WsInit
<1>2. WsSpec => Spec
  BY <1>1, StepsMap, PTL DEF WsSpec, Spec
<1> QED
  BY <1>2, SilenceNoticed, CloseHasReason, PTL

-----------------------------------------------------------------------------
(* Who closed.                                                             *)

\* What the library's record can be while the close frames travel: the frame
\* received first is the server's own; otherwise the frame sent is the pong
\* timeout's; and a frame is never awaited behind one that has arrived.
Handshake ==
    /\ rcvdFirst \in BOOLEAN
    /\ rcvdFirst => rcvd # None /\ rcvd = said
    /\ rcvd # None => sent # None /\ theirs = None /\ (ours # None => said # None)
    /\ ours # None => sent # None
    /\ sent # None /\ ~rcvdFirst => closed /\ sent = PongTimeout
    /\ theirs # None /\ sent = None => theirs = said
    /\ theirs # None /\ said = None => ours = None

AuthorInv == Handshake /\ CloseNamesItsAuthor

\* No close code is None.
LEMMA FramesAreNotNone == PongTimeout # None /\ Abnormal # None /\ None \notin ServerCode
<1>1. PongTimeout \in Nat /\ Abnormal \in Nat
  BY DEF PongTimeout, Abnormal
<1> QED
  BY <1>1, CodeAssumption, Zenon

\* Nobody has closed a connection that is not open yet.
LEMMA AuthorInit == WsInit => AuthorInv
<1> SUFFICES ASSUME WsInit PROVE AuthorInv
  OBVIOUS
<1>1. Handshake
  BY DEF WsInit, Handshake
<1>2. ~Ended
  BY DEF WsInit, Ended, Opening
<1> QED
  BY <1>1, <1>2 DEF AuthorInv, CloseNamesItsAuthor

\* The error made of the record names the author of the close.
LEMMA RecordTells ==
    ASSUME Handshake, outcome' = CloseError, UNCHANGED <<handshake, closed>>
    PROVE  CloseNamesItsAuthor'
<1>1. CASE rcvd # None /\ rcvdFirst
  <2>1. CloseError = ErrorFromClose(said, "remote") /\ said # None
    BY <1>1 DEF CloseError, CloseDetails, Handshake
  <2>2. /\ outcome'.code = said /\ outcome'.direction = "remote"
        /\ outcome'.terminal <=> said = AuthFailed
    BY <2>1 DEF ErrorFromClose, Terminal
  <2>3. said' = said /\ rcvd' = rcvd /\ rcvdFirst'
    BY <1>1 DEF handshake, Handshake
  <2>4. Describe(said, "remote") = "operator force-disconnect" => said = ForceDisconnect
    BY DEF Describe, IsForceDisconnect, IsHeartbeatTimeout
  <2>5. Describe(said, "remote") # "heartbeat pong timeout"
    BY DEF Describe, IsForceDisconnect, IsHeartbeatTimeout
  <2> QED
    BY <2>2, <2>3, <2>4, <2>5 DEF CloseNamesItsAuthor
<1>2. CASE ~rcvdFirst /\ sent # None
  <2>1. CloseError = ErrorFromClose(PongTimeout, "local") /\ closed
    BY <1>2 DEF CloseError, CloseDetails, Handshake
  <2> QED
    BY <1>2, <2>1 DEF Handshake, CloseNamesItsAuthor, Ended, ErrorFromClose, Describe,
       IsForceDisconnect, IsHeartbeatTimeout, Terminal, handshake, ForceDisconnect,
       PongTimeout, AuthFailed
<1>3. CASE ~rcvdFirst /\ sent = None
  <2>1. CloseError = ErrorFromClose(Abnormal, "remote")
    BY <1>3 DEF CloseError, CloseDetails, Handshake
  <2> QED
    BY <1>3, <2>1 DEF Handshake, CloseNamesItsAuthor, Ended, ErrorFromClose, Describe,
       IsForceDisconnect, IsHeartbeatTimeout, Terminal, handshake, ForceDisconnect,
       PongTimeout, AuthFailed, Abnormal
<1> QED
  BY <1>1, <1>2, <1>3 DEF Handshake

\* Every step keeps the close handshake in order.
LEMMA HandshakeStep == Handshake /\ [WsNext]_wsVars => Handshake'
<1> SUFFICES ASSUME Handshake, [WsNext]_wsVars PROVE Handshake'
  OBVIOUS
<1> USE FramesAreNotNone DEF Handshake, handshake
<1>1. CASE HeartbeatCloses
  BY <1>1 DEF HeartbeatCloses, CloseConnection
<1>2. CASE ServerCloses
  BY <1>2 DEF ServerCloses, FallSilent, client
<1>3. CASE ServerEchoes
  BY <1>3 DEF ServerEchoes, vars, client
<1>4. CASE CloseArrives
  BY <1>4 DEF CloseArrives, vars, client
<1>5. CASE ConnectionEnds
  BY <1>5 DEF ConnectionEnds, FallSilent, vars, client
<1>6. ASSUME UNCHANGED <<handshake, closed>> PROVE Handshake'
  BY <1>6
<1>7. CASE \/ Opened \/ OpenFails \/ PumpReceivesLate \/ HeartbeatFails \/ SendCutShort
           \/ PauseOrResume
  BY <1>6, <1>7 DEF Opened, OpenFails, PumpReceivesLate, HeartbeatFails, SendRaises,
     SendCutShort, PauseOrResume, vars, client
<1>8. CASE PumpReceives \/ PutReturns \/ PutReturnsLate \/ GateOpens
  BY <1>6, <1>8 DEF PumpReceives, PutReturns, PutReturnsLate, GateOpens, Receive, Consume,
     vars, client
<1>9. CASE RecvOnClosed \/ PumpSeesEnd
  BY <1>6, <1>9 DEF RecvOnClosed, PumpSeesEnd, EndEpoch, vars, client
<1>10. CASE PumpStarts \/ HeartbeatStarts \/ HeartbeatSent \/ HeartbeatKeeps
  BY <1>6, <1>10 DEF PumpStarts, HeartbeatStarts, HeartbeatSent, HeartbeatKeeps,
     StartTasks, SendHeartbeat, HeartbeatOut, KeepConnection
<1>11. CASE Peer \/ Time
  BY <1>6, <1>11 DEF Peer, Time, Data, Pong, FallSilent, Tick, client
<1>12. CASE UNCHANGED wsVars
  BY <1>6, <1>12 DEF wsVars, vars, client
<1> QED
  BY <1>1, <1>2, <1>3, <1>4, <1>5, <1>7, <1>8, <1>9, <1>10, <1>11, <1>12 DEF WsNext

\* Only three steps raise what they make of the record; the others keep the
\* outcome, or leave an error of another class.
LEMMA AuthorStep == AuthorInv /\ [WsNext]_wsVars => AuthorInv'
<1> SUFFICES ASSUME AuthorInv, [WsNext]_wsVars PROVE CloseNamesItsAuthor'
  BY HandshakeStep DEF AuthorInv
<1>1. CASE PumpSeesEnd
  BY <1>1, RecordTells DEF AuthorInv, PumpSeesEnd, EndEpoch, vars, client
<1>2. CASE HeartbeatFails
  BY <1>2, RecordTells DEF AuthorInv, HeartbeatFails, SendRaises, vars, client
<1>12. CASE SendCutShort
  BY <1>12, RecordTells DEF AuthorInv, SendCutShort, vars, client, handshake
<1>3. ASSUME ~Ended' PROVE CloseNamesItsAuthor'
  BY <1>3 DEF CloseNamesItsAuthor
<1>4. CASE Opened
  BY <1>3, <1>4 DEF Opened, Ended, Open
<1>5. CASE OpenFails
  BY <1>3, <1>5 DEF OpenFails, Ended, TransportError, HandshakeError, ErrorFromHttpStatus,
     Error
<1>6. CASE RecvOnClosed
  BY <1>3, <1>6 DEF RecvOnClosed, Ended, TransportError, Error
<1>7. CASE GateOpens
  BY <1>3, <1>7 DEF GateOpens, Running, Ended, Open, NoConnection, Error
<1>8. CASE PumpReceives \/ PutReturns \/ PutReturnsLate \/ PumpReceivesLate
  BY <1>3, <1>8 DEF PumpReceives, PutReturns, PutReturnsLate, PumpReceivesLate, Running,
     Ended, Open
<1>9. CASE \/ PumpStarts \/ HeartbeatStarts \/ HeartbeatSent \/ HeartbeatKeeps
           \/ HeartbeatCloses \/ PauseOrResume
  BY <1>3, <1>9 DEF PumpStarts, HeartbeatStarts, HeartbeatSent, HeartbeatKeeps,
     HeartbeatCloses, PauseOrResume, Running, Ended, Open
<1>10. CASE ServerCloses \/ ServerEchoes \/ CloseArrives \/ ConnectionEnds \/ Peer \/ Time
  BY <1>3, <1>10 DEF ServerCloses, ServerEchoes, CloseArrives, ConnectionEnds, Peer, Time,
     Running, Ended, Open
<1>11. CASE UNCHANGED wsVars
  BY <1>11 DEF AuthorInv, wsVars, vars, client, handshake, CloseNamesItsAuthor, Ended
<1> QED
  BY <1>1, <1>2, <1>4, <1>5, <1>6, <1>7, <1>8, <1>9, <1>10, <1>11, <1>12 DEF WsNext

\* Force-disconnect and pong timeout share a number, both peers may close at
\* once and frames may be lost: the error still names who closed first, and
\* is terminal exactly if that was the server's refusal (_close_details).
THEOREM AuthorNamed == WsSpec => []CloseNamesItsAuthor
<1>1. AuthorInv => CloseNamesItsAuthor
  BY DEF AuthorInv
<1> QED
  BY <1>1, AuthorInit, AuthorStep, PTL DEF WsSpec

-----------------------------------------------------------------------------
(* When the end of a connection is noticed.                                *)

\* The task's sleep ends in time: it began before the connection ended, or it
\* is the one interval that follows a pong wait which did.
SleepsEndInTime ==
    /\ endedAt \in Nat \cup {None}
    /\ ~up => endedAt \in Nat
    /\ outcome = Opening => up
    /\ Running /\ ~up /\ ~closed =>
          /\ InSend => now <= endedAt + Timeout
          /\ task = "pong" => wakeAt <= endedAt + Timeout
          /\ task = "interval" => wakeAt <= endedAt + Timeout + Interval

EndInv == IInv /\ SleepsEndInTime

\* The invariant holds at first.
LEMMA EndInit == WsInit => EndInv
BY InitIInv, IntervalAssumption DEF WsInit, EndInv, Init, SleepsEndInTime, InSend

\* A connection still opening is in none of the other states.
LEMMA OpeningIsOver ==
    Opening \notin {Open, TransportError, NoConnection, CloseError}
<1>1. Opening.type = "opening" /\ Open.type = "open"
  BY DEF Opening, Open
<1>2. TransportError.type = "TransportError" /\ NoConnection.type = "AttributeError"
  BY DEF TransportError, NoConnection, Error
<1>3. CloseError.type = "ConnectionClosedError"
  BY DEF CloseError, ErrorFromClose
<1> QED
  BY <1>1, <1>2, <1>3

\* A step that leaves the clock, the task and the connection alone.
LEMMA EndKept ==
    ASSUME SleepsEndInTime, UNCHANGED <<now, task, wakeAt, up, closed, endedAt>>,
           Running' => Running \/ up, outcome' = Opening => up
    PROVE  SleepsEndInTime'
BY DEF SleepsEndInTime, InSend

\* Every step keeps the time since the end within its bound.
LEMMA EndStep == EndInv /\ [WsNext]_wsVars => EndInv'
<1> SUFFICES ASSUME EndInv, [WsNext]_wsVars PROVE SleepsEndInTime'
  BY StepsMap, StepIInv DEF EndInv
<1>0. /\ {now, wakeAt, sentAt} \subseteq Nat /\ Interval \in Nat /\ Timeout \in Nat
      /\ None \notin Nat
  BY IntervalAssumption, CodeAssumption DEF EndInv, IInv, TypeOK
<1>1. CASE HeartbeatStarts \/ HeartbeatSent
  BY <1>0, <1>1 DEF HeartbeatStarts, SendHeartbeat, HeartbeatSent, HeartbeatOut, EndInv,
     SleepsEndInTime, handshake
<1>12. CASE PumpStarts
  BY <1>0, <1>12 DEF PumpStarts, StartTasks, InSend, EndInv, SleepsEndInTime, handshake
<1>2. CASE HeartbeatKeeps
  <2>1. now <= wakeAt /\ task = "pong"
    BY <1>2 DEF HeartbeatKeeps, KeepConnection, EndInv, IInv, ClockWaits
  <2>2. Running /\ ~up /\ ~closed => now + Interval <= endedAt + Timeout + Interval
    BY <1>0, <2>1 DEF EndInv, SleepsEndInTime
  <2> QED
    BY <1>0, <1>2, <2>1, <2>2 DEF HeartbeatKeeps, KeepConnection, EndInv, SleepsEndInTime,
       handshake, Running, InSend
<1>3. CASE HeartbeatCloses
  BY <1>0, <1>3 DEF HeartbeatCloses, CloseConnection, EndInv, SleepsEndInTime, Running
<1>4. CASE ConnectionEnds
  <2>1. UNCHANGED <<now, task, wakeAt, closed>> /\ endedAt' = now
    BY <1>4 DEF ConnectionEnds, FallSilent, vars, client
  <2>2. /\ task = "pong" => wakeAt <= now + Timeout
        /\ task = "interval" => wakeAt <= now + Interval
    BY <1>0 DEF EndInv, IInv, SleepsBounded
  <2> QED
    BY <1>0, <1>4, <2>1, <2>2, OpeningIsOver
    DEF ConnectionEnds, EndInv, SleepsEndInTime, Running
<1>5. CASE Time
  <2>1. /\ now' = now + 1 /\ UNCHANGED <<task, wakeAt, up, closed, endedAt, outcome>>
        /\ InSend => up
    BY <1>5 DEF Time, Tick, handshake
  <2> QED
    BY <1>0, <2>1 DEF EndInv, SleepsEndInTime, Running, InSend
<1>6. CASE Opened \/ OpenFails
  BY <1>6, EndKept DEF Opened, OpenFails, EndInv, SleepsEndInTime, vars, client, handshake
<1>7. CASE PumpReceives \/ PutReturns \/ PutReturnsLate \/ PumpReceivesLate \/ GateOpens
  BY <1>7, EndKept, OpeningIsOver
  DEF Running, SleepsEndInTime, PumpReceives, PutReturns, PutReturnsLate,
      PumpReceivesLate, GateOpens,
     Receive, Consume, EndInv, vars, client, handshake
<1>8. CASE RecvOnClosed \/ PumpSeesEnd
  BY <1>8, EndKept, OpeningIsOver
  DEF Running, SleepsEndInTime, RecvOnClosed, PumpSeesEnd, EndEpoch, EndInv, vars,
      client, handshake
<1>9. CASE HeartbeatFails \/ SendCutShort \/ PauseOrResume
  BY <1>9, EndKept, OpeningIsOver
  DEF Running, SleepsEndInTime, HeartbeatFails, SendRaises, SendCutShort, PauseOrResume,
      EndInv, vars, client, handshake
<1>10. CASE ServerCloses \/ ServerEchoes \/ CloseArrives \/ Peer
  BY <1>10, EndKept, OpeningIsOver
  DEF Running, SleepsEndInTime, ServerCloses, ServerEchoes, CloseArrives, Peer, Data,
      Pong,
     FallSilent, EndInv, vars, client, handshake
<1>11. CASE UNCHANGED wsVars
  BY <1>11, EndKept DEF wsVars, EndInv, SleepsEndInTime, vars, client, handshake, Running
<1> QED
  BY <1>1, <1>2, <1>3, <1>4, <1>5, <1>6, <1>7, <1>8, <1>9, <1>10, <1>11, <1>12 DEF WsNext

\* Whatever holds the pump, a connection that has ended is noticed within a
\* timeout and an interval, by the heartbeat's next send or check.
THEOREM EndNoticed == WsSpec => []EndIsNoticed
<1>1. EndInv => EndIsNoticed
  <2> SUFFICES ASSUME EndInv, Running, ~up, ~closed
               PROVE  now <= endedAt + Timeout + Interval
    BY DEF EndIsNoticed
  <2>1. task # "returned" /\ now \in Nat /\ wakeAt \in Nat
    BY DEF EndInv, IInv, TypeOK, ClockWaits
  <2>2. (InSend \/ task \in {"interval", "pong"}) /\ endedAt \in Nat
    BY <2>1 DEF EndInv, IInv, TypeOK, SleepsEndInTime, InSend
  <2>3. task \in {"interval", "pong"} => now <= wakeAt
    BY DEF EndInv, IInv, ClockWaits
  <2> QED
    BY <2>1, <2>2, <2>3, IntervalAssumption DEF EndInv, SleepsEndInTime
<1> QED
  BY <1>1, EndInit, EndStep, PTL DEF WsSpec
===============================================================================
