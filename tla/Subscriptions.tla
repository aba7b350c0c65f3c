--------------------------- MODULE Subscriptions ---------------------------
(***************************************************************************)
(* What the caller wants, what the client remembers and what the server    *)
(* serves: src/sukko/subscriptions.py with the calls of client.py that     *)
(* drive it, on a WebSocket connection that comes and goes.                *)
(*                                                                         *)
(* `up' and `down' are the two directions of the connection, FIFO and lost *)
(* with it.  The server is external: it grants the channels of a subscribe *)
(* that are allowed, answers every frame, may revoke a permission at any   *)
(* time (a forced unsubscription) and grants everything on escalation.     *)
(* A send either returns at once or raises, so what a call does is one     *)
(* step; a call on a connection that has dropped only changes `desired'.   *)
(***************************************************************************)
EXTENDS Naturals, Sequences, SequencesExt

CONSTANTS
    Channel,     \* channel names
    MaxWire      \* bound on the frames in flight in each direction

ASSUME WireAssumption == MaxWire \in Nat

VARIABLES
    desired,     \* _desired
    granted,     \* _granted
    connected,   \* the client has a live transport
    escalating,  \* the escalation delta is still to be sent
    up,          \* client frames the server has not read
    down,        \* server frames the read pump has not dispatched
    allowed,     \* server: the channels the credential may see
    subs,        \* server: the channels this connection is subscribed to
    wanted,      \* history: the caller's net subscribe and unsubscribe calls
    reported     \* history: what the last frame reported to on_not_granted

server == <<allowed, subs>>
vars == <<desired, granted, connected, escalating, up, down, server, wanted, reported>>

Frame(kind, chans) == [kind |-> kind, chans |-> chans, asked |-> {}, forced |-> FALSE]
SubscriptionAck(chans, asked)    == [Frame("ack", chans) EXCEPT !.asked = asked]
UnsubscriptionAck(chans, forced) == [Frame("unack", chans) EXCEPT !.forced = forced]

Frames(kinds) ==
    [kind : kinds, chans : SUBSET Channel, asked : SUBSET Channel, forced : BOOLEAN]

TypeOK ==
    /\ {desired, granted, allowed, subs, wanted, reported} \subseteq SUBSET Channel
    /\ {connected, escalating} \subseteq BOOLEAN
    /\ up \in Seq(Frames({"subscribe", "unsubscribe", "auth"}))
    /\ down \in Seq(Frames({"ack", "unack", "auth_ack"}))

Init ==
    /\ desired = {} /\ granted = {} /\ wanted = {} /\ reported = {}
    /\ connected = FALSE /\ escalating = FALSE
    /\ up = <<>> /\ down = <<>>
    /\ allowed \in SUBSET Channel /\ subs = {}

-----------------------------------------------------------------------------
(* The state machine of subscriptions.py.                                  *)

NotGranted == desired \ granted

Want(chans) == desired' = desired \cup chans /\ UNCHANGED granted

UnwantKeepsGrant(chans) ==                     \* wrong: still shown granted
    desired' = desired \ chans /\ UNCHANGED granted

UnwantKeepsDesired(chans) ==                   \* wrong: resumed later
    granted' = granted \ chans /\ UNCHANGED desired

Unwant(chans) == desired' = desired \ chans /\ granted' = granted \ chans

OnSubscriptionAckAdds(chans) ==                \* wrong: set.add, not update
    /\ granted' = granted \cup {chans}
    /\ reported' = desired \ granted'
    /\ UNCHANGED desired

OnSubscriptionAck(chans) ==
    /\ granted' = granted \cup chans
    /\ reported' = desired \ granted'
    /\ UNCHANGED desired

OnUnsubscriptionAck(chans, forced) ==
    IF forced THEN granted' = granted \ chans /\ UNCHANGED desired
    ELSE Unwant(chans)

OnDisconnect == granted' = {} /\ UNCHANGED desired

ResumeGranted == granted                       \* wrong: cleared by then

ResumeChannels == desired

-----------------------------------------------------------------------------
(* The client's calls.                                                     *)

Room(wire) == Len(wire) < MaxWire

\* subscribe: record, then send.
Subscribe(chans) ==
    /\ Room(up)
    /\ Want(chans) /\ wanted' = wanted \cup chans /\ reported' = {}
    /\ up' = IF connected THEN Append(up, Frame("subscribe", chans)) ELSE up
    /\ UNCHANGED <<connected, escalating, down, server>>

\* unsubscribe: send, then record.
Unsubscribe(chans) ==
    /\ Room(up)
    /\ Unwant(chans) /\ wanted' = wanted \ chans /\ reported' = {}
    /\ up' = IF connected THEN Append(up, Frame("unsubscribe", chans)) ELSE up
    /\ UNCHANGED <<connected, escalating, down, server>>

\* escalate sends the auth frame, and the delta once it is acked.
Escalate ==
    /\ connected /\ Room(up)
    /\ up' = Append(up, Frame("auth", {})) /\ reported' = {}
    /\ UNCHANGED <<desired, granted, connected, escalating, down, server, wanted>>

SendDelta ==
    /\ escalating /\ connected /\ Room(up)
    /\ escalating' = FALSE /\ reported' = {}
    /\ up' = IF NotGranted = {} THEN up ELSE Append(up, Frame("subscribe", NotGranted))
    /\ UNCHANGED <<desired, granted, connected, down, server, wanted>>

\* A new connection: _on_connected resumes the desired set.
Connect ==
    /\ ~connected
    /\ connected' = TRUE /\ reported' = {}
    /\ up' = IF ResumeChannels = {} THEN <<>> ELSE <<Frame("subscribe", ResumeChannels)>>
    /\ UNCHANGED <<desired, granted, escalating, down, server, wanted>>

\* The connection drops; so does an escalation that waits for its ack.
Disconnect ==
    /\ connected
    /\ connected' = FALSE /\ escalating' = FALSE /\ reported' = {}
    /\ OnDisconnect
    /\ up' = <<>> /\ down' = <<>> /\ subs' = {}
    /\ UNCHANGED <<allowed, wanted>>

\* The read pump dispatches the next frame.
Dispatch ==
    /\ connected /\ down # <<>>
    /\ down' = Tail(down)
    /\ LET f == Head(down) IN
       \/ /\ f.kind = "ack"
          /\ OnSubscriptionAck(f.chans)
          /\ UNCHANGED escalating
       \/ /\ f.kind = "unack"
          /\ OnUnsubscriptionAck(f.chans, f.forced)
          /\ reported' = {} /\ UNCHANGED escalating
       \/ /\ f.kind = "auth_ack"
          /\ escalating' = TRUE
          /\ reported' = {} /\ UNCHANGED <<desired, granted>>
    /\ UNCHANGED <<connected, up, server, wanted>>

-----------------------------------------------------------------------------
(* The server.                                                             *)

ServerReads ==
    /\ connected /\ up # <<>> /\ Room(down)
    /\ up' = Tail(up) /\ reported' = {}
    /\ LET f == Head(up) IN
       \/ /\ f.kind = "subscribe"
          /\ subs' = subs \cup (f.chans \cap allowed)
          /\ down' = Append(down, SubscriptionAck(f.chans \cap allowed, f.chans))
          /\ UNCHANGED allowed
       \/ /\ f.kind = "unsubscribe"
          /\ subs' = subs \ f.chans
          /\ down' = Append(down, UnsubscriptionAck(f.chans, FALSE))
          /\ UNCHANGED allowed
       \/ /\ f.kind = "auth"
          /\ allowed' = Channel
          /\ down' = Append(down, Frame("auth_ack", {}))
          /\ UNCHANGED subs
    /\ UNCHANGED <<desired, granted, connected, escalating, wanted>>

ServerRevokes(c) ==
    /\ c \in allowed /\ Room(down)
    /\ allowed' = allowed \ {c} /\ subs' = subs \ {c} /\ reported' = {}
    /\ down' = IF connected /\ c \in subs
               THEN Append(down, UnsubscriptionAck({c}, TRUE)) ELSE down
    /\ UNCHANGED <<desired, granted, connected, escalating, up, wanted>>

Next ==
    \/ \E chans \in (SUBSET Channel) \ {{}} : Subscribe(chans) \/ Unsubscribe(chans)
    \/ Escalate \/ SendDelta
    \/ Connect \/ Disconnect
    \/ Dispatch
    \/ ServerReads
    \/ \E c \in Channel : ServerRevokes(c)

Spec == Init /\ [][Next]_vars

-----------------------------------------------------------------------------
(* Properties.                                                             *)

Quiet == connected /\ up = <<>> /\ down = <<>> /\ ~escalating

\* Once every frame of a connection has been answered and dispatched, the
\* channels the client shows as granted are exactly those the server sends,
\* through crossing acks, forced unsubscriptions and escalations.
GrantedIsServed == Quiet => granted = subs

\* ... and every channel the client remembers as desired and may see is
\* served: resume, subscribe and the escalation delta leave none behind.
DesiredIsServed == Quiet => desired \cap allowed \subseteq subs

\* A channel the caller no longer wants is never resumed.
NothingUnwantedResumed == desired \subseteq wanted

-----------------------------------------------------------------------------
(* What the code does not keep (README, Deviations).                       *)

\* subscriptions.py:7 "desired -- every channel the caller asked for.
\* Persists across reconnects": a channel last subscribed to is desired.
DesiredIsWanted == wanted \subseteq desired

Unanswered(c) ==
    \/ \E i \in 1 .. Len(up) : up[i].kind = "subscribe" /\ c \in up[i].chans
    \/ \E i \in 1 .. Len(down) : down[i].kind = "ack" /\ c \in down[i].asked

\* on_subscription_ack returns "requested channels filtered by permission"
\* (subscriptions.py:56-57): a channel whose subscribe the server has not
\* answered yet is not reported as not granted.
OnlyFilteredReported == \A c \in reported : ~Unanswered(c)
=============================================================================
