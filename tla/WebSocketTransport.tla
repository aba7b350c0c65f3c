------------------------- MODULE WebSocketTransport -------------------------
(***************************************************************************)
(* The WebSocket transport of src/sukko/transport/websocket.py over one    *)
(* connection, with the read pump and the heartbeat that use it: who       *)
(* closes, what each side learns of it, and what the pump reports.         *)
(*                                                                         *)
(* It is built from the actions of Heartbeat: a server that closes has     *)
(* fallen silent, and a pump held by a paused transport is blocked as one  *)
(* held by a full queue is.                                                *)
(*                                                                         *)
(* The library (websockets) and the peer are external: a close frame       *)
(* travels behind the data of its direction, is echoed once, and ends the  *)
(* connection; a connection may also end with frames in flight, which are  *)
(* then lost.  While the handshake runs, conn.recv() goes on returning     *)
(* what has been received, and raises once the connection has ended.       *)
(***************************************************************************)
EXTENDS Heartbeat, Errors

CONSTANTS
    None,         \* no close frame, no error yet
    Status,       \* HTTP statuses that refuse the upgrade
    ServerCode,   \* codes the server closes with
    Pauses        \* does the owner of the transport pause it?

ASSUME CodeAssumption == ServerCode \subseteq Nat /\ Status \subseteq Nat /\ None \notin Nat
ASSUME PauseAssumption == Pauses \in BOOLEAN

VARIABLES
    gate,       \* _resume_event is set
    recvAt,     \* where the pump is: at the socket, at the gate, in a put,
                \* or about to call recv
    up,         \* the connection has not ended
    ours,       \* close frame on its way to the server
    theirs,     \* close frame on its way to us
    sent,       \* the library's record of the close: the frame sent,
    rcvd,       \* the frame received,
    rcvdFirst,  \* and rcvd_then_sent
    said,       \* history: the code the server closed with, of its own
    endedAt,    \* history: when the connection ended
    outcome     \* Opening, Open, or the error that ended the epoch

handshake == <<up, ours, theirs, sent, rcvd, rcvdFirst, said, endedAt>>
pump      == <<gate, recvAt>>
wsVars    == <<vars, pump, handshake, outcome>>

\* Errors of the transport that are not a close, and the one nobody expects.
TransportError == Error("TransportError")
NoConnection   == Error("AttributeError")     \* 'NoneType' has no 'recv'

Opening == [type |-> "opening"]
Open    == [type |-> "open"]

\* What open makes of an upgrade refused with a status.
HandshakeError(status) ==
    IF status = 429 THEN Error("TenantLimitExceededError")
    ELSE ErrorFromHttpStatus(status, "none", TRUE)

Frame == ServerCode \cup {PongTimeout, None}

WsTypeOK ==
    /\ gate \in BOOLEAN /\ up \in BOOLEAN /\ rcvdFirst \in BOOLEAN
    /\ recvAt \in {"socket", "gate", "put", "caller"}
    /\ {ours, theirs, sent, rcvd, said} \subseteq Frame
    /\ endedAt \in Nat \cup {None}
    /\ outcome \in {Opening, Open, TransportError, NoConnection}
                  \cup {HandshakeError(status) : status \in Status}
                  \cup {ErrorFromClose(c, d) : c \in (Frame \ {None}) \cup {Abnormal},
                                               d \in Direction}

\* __init__: the handshake has not been answered yet.
WsInit ==
    /\ Init
    /\ gate = TRUE /\ recvAt = "caller"
    /\ up = TRUE /\ ours = None /\ theirs = None
    /\ sent = None /\ rcvd = None /\ rcvdFirst = FALSE
    /\ said = None /\ endedAt = None
    /\ outcome = Opening

-----------------------------------------------------------------------------
(* open.                                                                   *)

Opened ==
    /\ outcome = Opening
    /\ outcome' = Open /\ gate' = TRUE
    /\ UNCHANGED <<vars, recvAt, handshake>>

\* The upgrade fails, times out, or is refused.
OpenFails ==
    /\ outcome = Opening
    /\ outcome' \in {HandshakeError(s) : s \in Status} \cup {TransportError}
    /\ UNCHANGED <<vars, pump, handshake>>

-----------------------------------------------------------------------------
(* What the transport makes of the library's record.                       *)

\* Wrong variants, each a slip the code could contain.
DetailsReceivedFirst ==          \* the frame received tells, if there is one
    IF rcvd # None THEN <<rcvd, "remote">>
    ELSE IF sent # None THEN <<sent, "local">> ELSE <<Abnormal, "remote">>
\* _close_details
CloseDetails ==
    CASE rcvd # None /\ (sent = None \/ rcvdFirst) -> <<rcvd, "remote">>
      [] sent # None /\ ~(rcvd # None /\ rcvdFirst) -> <<sent, "local">>
      [] rcvd = None /\ sent = None -> <<Abnormal, "remote">>

CloseError == ErrorFromClose(CloseDetails[1], CloseDetails[2])

Running == outcome = Open

-----------------------------------------------------------------------------
(* The read pump: recv, then the dispatch of what it returned.             *)

\* The pump is in recv (again): it waits at the gate, or for the socket.
RecvAgain ==
    /\ recvAt' = IF gate THEN "socket" ELSE "gate"
    /\ blocked' = ~gate

\* The resume sends of the epoch are through: the pump calls recv.
PumpStarts ==
    /\ Running
    /\ StartTasks
    /\ RecvAgain
    /\ UNCHANGED <<gate, handshake, outcome>>

\* A frame is returned and dispatched; its put may block.
PumpReceives ==
    /\ Running /\ recvAt = "socket"
    /\ Receive
    /\ \/ blocked' /\ recvAt' = "put"
       \/ RecvAgain
    /\ UNCHANGED <<gate, handshake, outcome>>

\* The put returns to a pump whose transport is still there.
PutReturns ==
    /\ Running /\ recvAt = "put" /\ ~closed
    /\ \/ gate /\ Consume
       \/ ~gate /\ UNCHANGED vars
    /\ recvAt' = IF gate THEN "socket" ELSE "gate"
    /\ UNCHANGED <<gate, handshake, outcome>>

\* ... or to one whose transport was closed meanwhile.
PutReturnsLate ==
    /\ Running /\ recvAt = "put" /\ closed
    /\ Consume
    /\ recvAt' = "caller"
    /\ UNCHANGED <<gate, handshake, outcome>>

\* A frame the library held back reaches the pump after the local close.
PumpReceivesLate ==
    /\ Running /\ recvAt = "socket" /\ closed /\ unread > 0
    /\ recvAt' = "caller"
    /\ UNCHANGED <<vars, gate, handshake, outcome>>

\* recv on a transport that has let go of its connection.
RecvOnClosed ==
    /\ Running /\ recvAt = "caller" /\ task # "resuming"
    /\ EndEpoch
    /\ outcome' = TransportError
    /\ UNCHANGED <<pump, handshake>>

\* The gate opens under the waiting pump, which looks for the connection.
GateOpens ==
    /\ Running /\ recvAt = "gate" /\ gate
    /\ Consume
    /\ recvAt' = "socket"
    /\ outcome' = IF closed THEN NoConnection ELSE outcome
    /\ UNCHANGED <<gate, handshake>>

\* Everything received has been read, and the connection has ended.
PumpSeesEnd ==
    /\ Running /\ recvAt = "socket" /\ ~up /\ unread = 0
    /\ \/ closed /\ EndEpoch
       \/ ~closed /\ UNCHANGED vars
    /\ outcome' = CloseError
    /\ UNCHANGED <<pump, handshake>>

-----------------------------------------------------------------------------
(* The heartbeat task.                                                     *)

HeartbeatStarts ==
    /\ Running /\ up /\ rcvd = None
    /\ SendHeartbeat
    /\ UNCHANGED <<pump, handshake, outcome>>

\* The buffer has room for the heartbeat, at once or after a while.
HeartbeatSent ==
    /\ Running /\ up
    /\ HeartbeatOut
    /\ UNCHANGED <<pump, handshake, outcome>>

SendUnnoticed ==                 \* wrong: send swallows the close and returns
    /\ task = "interval" /\ wakeAt <= now
    /\ sentAt' = now /\ task' = "pong" /\ wakeAt' = now + Timeout
    /\ UNCHANGED <<now, lastFrame, waited, blocked, closed, ended, server, outcome>>

\* send raises the close it finds, and the task group fails with it.
SendRaises ==
    /\ task = "interval" /\ wakeAt <= now
    /\ outcome' = CloseError
    /\ UNCHANGED vars

HeartbeatFails ==
    /\ Running /\ ~(up /\ rcvd = None)
    /\ SendRaises
    /\ UNCHANGED <<pump, handshake>>

\* So does a send that is waiting when the connection ends, and a resume send
\* that finds the close.
SendCutShort ==
    /\ Running
    /\ \/ task = "sending" /\ ~up
       \/ task = "resuming" /\ ~(up /\ rcvd = None)
    /\ outcome' = CloseError
    /\ UNCHANGED <<vars, pump, handshake>>

HeartbeatKeeps ==
    /\ Running /\ KeepConnection
    /\ UNCHANGED <<pump, handshake, outcome>>

\* close(4000): let go of the connection, open the gate, start the closing
\* handshake unless the library is in it already.
HeartbeatCloses ==
    /\ Running /\ CloseConnection
    /\ gate' = TRUE
    /\ \/ /\ up /\ sent = None
          /\ sent' = PongTimeout /\ ours' = PongTimeout
       \/ /\ ~(up /\ sent = None)
          /\ UNCHANGED <<sent, ours>>
    /\ UNCHANGED <<recvAt, up, theirs, rcvd, rcvdFirst, said, endedAt, outcome>>

\* pause and resume
PauseOrResume ==
    /\ Running /\ Pauses /\ ~closed
    /\ gate' = ~gate
    /\ UNCHANGED <<vars, recvAt, handshake, outcome>>

-----------------------------------------------------------------------------
(* The library, the peer and the network.                                  *)

ServerCloses ==
    /\ Running /\ up /\ said = None /\ alive /\ ~closed
    /\ FallSilent
    /\ theirs' \in ServerCode /\ said' = theirs'
    /\ UNCHANGED <<pump, up, ours, sent, rcvd, rcvdFirst, endedAt, outcome>>

\* The server has our close frame, and echoes it if it has not closed itself.
ServerEchoes ==
    /\ Running /\ up /\ ours # None
    /\ ours' = None
    /\ theirs' = IF said = None THEN ours ELSE theirs
    /\ UNCHANGED <<vars, pump, up, sent, rcvd, rcvdFirst, said, endedAt, outcome>>

\* The library has the server's, and echoes it if we have not closed.
CloseArrives ==
    /\ Running /\ up /\ theirs # None
    /\ rcvd' = theirs /\ theirs' = None
    /\ rcvdFirst' = (sent = None)
    /\ sent' = IF sent = None THEN theirs ELSE sent
    /\ ours' = IF sent = None THEN theirs ELSE ours
    /\ UNCHANGED <<vars, pump, up, said, endedAt, outcome>>

\* The TCP connection ends: after the handshake, by its timeout, or by the
\* network's failing.
ConnectionEnds ==
    /\ Running /\ up
    /\ \/ alive /\ ~closed /\ FallSilent
       \/ (~alive \/ closed) /\ UNCHANGED vars
    /\ up' = FALSE /\ ours' = None /\ theirs' = None
    /\ endedAt' = now
    /\ UNCHANGED <<pump, sent, rcvd, rcvdFirst, said, outcome>>

Peer ==
    /\ Running /\ up /\ said = None
    /\ Data \/ Pong \/ FallSilent
    /\ UNCHANGED <<pump, handshake, outcome>>

\* Time waits for whatever is about to run: the pump too, unless only the
\* closing handshake can wake it, and a send, unless the buffer is full.
Time ==
    /\ Running
    /\ InSend => up
    /\ recvAt = "gate" => ~gate
    /\ recvAt = "socket" => up \/ unread > 0
    /\ Tick
    /\ UNCHANGED <<pump, handshake, outcome>>

WsNext ==
    \/ Opened \/ OpenFails
    \/ PumpStarts \/ PumpReceives \/ PutReturns \/ PutReturnsLate \/ PumpReceivesLate
    \/ RecvOnClosed \/ GateOpens \/ PumpSeesEnd
    \/ HeartbeatStarts \/ HeartbeatSent \/ HeartbeatFails \/ SendCutShort
    \/ HeartbeatKeeps \/ HeartbeatCloses
    \/ PauseOrResume
    \/ ServerCloses \/ ServerEchoes \/ CloseArrives \/ ConnectionEnds \/ Peer
    \/ Time

WsSpec == WsInit /\ [][WsNext]_wsVars

-----------------------------------------------------------------------------
(* Properties.                                                             *)

Ended == outcome.type = "ConnectionClosedError"

\* The number 4000 means two things, and both peers may close at once, with
\* frames lost on the way: what the pump or the heartbeat raises still names
\* who closed first.  A force-disconnect is the operator's, a pong timeout is
\* our own (websocket.py:145-151), and a close is terminal exactly if the
\* server's refusal is the close that counted.
CloseNamesItsAuthor ==
    Ended =>
        LET what == Describe(outcome.code, outcome.direction) IN
        /\ what = "operator force-disconnect" => said = ForceDisconnect /\ rcvdFirst
        /\ what = "heartbeat pong timeout" => closed /\ ~rcvdFirst
        /\ outcome.terminal <=> said = AuthFailed /\ rcvdFirst
        /\ said # None /\ rcvd = said /\ rcvdFirst => outcome.code = said

\* A connection that has ended is noticed even while the pump is held by a
\* full queue or a paused transport: the heartbeat's next send or check comes
\* within a timeout and an interval (_heartbeat; send's except clause).
EndIsNoticed ==
    (Running /\ ~up /\ ~closed) => now <= endedAt + Timeout + Interval

-----------------------------------------------------------------------------
(* What the code does not keep (README, Deviations).                       *)

\* close() is to "[u]nblock a paused recv() so the read-pump can observe the
\* close instead of hanging" (websocket.py:174): it observes a close.
PausedPumpSeesClose == outcome # NoConnection

\* recv "[r]aises ConnectionClosedError (with code + direction) when the
\* connection closes" (transport/base.py:100): a refusal that has arrived is
\* what ends the epoch, so that a terminal close is not retried.
RefusalIsReported ==
    (outcome \notin {Opening, Open} /\ rcvdFirst /\ rcvd = AuthFailed) => outcome.terminal
=============================================================================
