------------------------- MODULE Subscriptions_proofs -------------------------
(***************************************************************************)
(* Proofs about the subscriptions, for any channels and any number of      *)
(* frames in flight: when everything has been answered, what the client    *)
(* shows as granted is what the server sends, and what it desires is       *)
(* served; and nothing the caller gave up is resumed.                      *)
(***************************************************************************)
EXTENDS Subscriptions, TLAPS

-----------------------------------------------------------------------------
(* The inductive invariant.                                                *)

\* A frame of this kind, about channel c, is in flight.
InFlight(wire, kind, c) ==
    \E i \in 1 .. Len(wire) : wire[i].kind = kind /\ c \in wire[i].chans

\* A server frame that says whether c is granted.
Tells(f, c) == f.kind \in {"ack", "unack"} /\ c \in f.chans

\* Once `down' is dispatched, the client shows c as granted if it is served:
\* the last frame that tells says so, or none does and it is so already.
Settled(c) ==
    \/ /\ \A i \in 1 .. Len(down) : ~Tells(down[i], c)
       /\ c \in granted <=> c \in subs
    \/ \E i \in 1 .. Len(down) :
          /\ Tells(down[i], c)
          /\ \A j \in i + 1 .. Len(down) : ~Tells(down[j], c)
          /\ down[i].kind = "ack" <=> c \in subs

\* An answer to an unsubscribe is on its way, and will end the desire for c.
EndsDesire(c) ==
    \E i \in 1 .. Len(down) :
        down[i].kind = "unack" /\ ~down[i].forced /\ c \in down[i].chans

\* The delta of an escalation is to come, at a time when c is not granted.
DeltaComes(c) ==
    \/ \E i \in 1 .. Len(down) :
          /\ down[i].kind = "auth_ack"
          /\ \A j \in i + 1 .. Len(down) : ~Tells(down[j], c)
    \/ escalating /\ \A j \in 1 .. Len(down) : ~Tells(down[j], c)

\* Whatever is desired and allowed is served, or a frame in flight or the
\* delta will see to it, or end the desire.
Attended(c) ==
    c \in desired /\ c \in allowed =>
        \/ c \in subs
        \/ InFlight(up, "subscribe", c) \/ InFlight(up, "unsubscribe", c)
        \/ EndsDesire(c) \/ DeltaComes(c)

\* Without a connection nothing is in flight, granted or served.
Disconnected ==
    ~connected => up = <<>> /\ down = <<>> /\ granted = {} /\ subs = {} /\ ~escalating

SubsInv ==
    /\ TypeOK /\ NothingUnwantedResumed /\ Disconnected
    /\ connected =>
          \A c \in Channel :
             /\ Settled(c) \/ InFlight(up, "unsubscribe", c)
             /\ Attended(c)

-----------------------------------------------------------------------------
(* Frames that enter and leave a direction of the connection.              *)

UpFrame   == Frames({"subscribe", "unsubscribe", "auth"})
DownFrame == Frames({"ack", "unack", "auth_ack"})

\* What Append and Tail do to a direction, element by element.
LEMMA Entered ==
    ASSUME NEW S, NEW q \in Seq(S), NEW f \in S
    PROVE  /\ Append(q, f) \in Seq(S) /\ Len(Append(q, f)) = Len(q) + 1 /\ Len(q) \in Nat
           /\ Append(q, f)[Len(q) + 1] = f
           /\ \A i \in 1 .. Len(q) : Append(q, f)[i] = q[i]
OBVIOUS

LEMMA Left ==
    ASSUME NEW S, NEW q \in Seq(S), q # <<>>
    PROVE  /\ Tail(q) \in Seq(S) /\ Len(Tail(q)) = Len(q) - 1 /\ Len(q) \in Nat \ {0}
           /\ Head(q) = q[1] /\ Head(q) \in S
           /\ \A i \in 1 .. Len(q) - 1 : Tail(q)[i] = q[i + 1]
OBVIOUS

\* The frames the client and the server make.
LEMMA FrameTypes ==
    ASSUME NEW chans \in SUBSET Channel, NEW asked \in SUBSET Channel, NEW forced \in BOOLEAN
    PROVE  /\ Frame("subscribe", chans) \in UpFrame /\ Frame("unsubscribe", chans) \in UpFrame
           /\ Frame("auth", chans) \in UpFrame /\ Frame("auth_ack", chans) \in DownFrame
           /\ SubscriptionAck(chans, asked) \in DownFrame
           /\ UnsubscriptionAck(chans, forced) \in DownFrame
BY DEF Frame, SubscriptionAck, UnsubscriptionAck, UpFrame, DownFrame, Frames

\* What the frames say.
LEMMA FrameFields ==
    ASSUME NEW kind, NEW chans, NEW asked, NEW forced
    PROVE  /\ Frame(kind, chans).kind = kind /\ Frame(kind, chans).chans = chans
           /\ SubscriptionAck(chans, asked).kind = "ack"
           /\ SubscriptionAck(chans, asked).chans = chans
           /\ UnsubscriptionAck(chans, forced).kind = "unack"
           /\ UnsubscriptionAck(chans, forced).chans = chans
           /\ UnsubscriptionAck(chans, forced).forced = forced
BY DEF Frame, SubscriptionAck, UnsubscriptionAck

\* A frame that enters is in flight, and those before it still are.
LEMMA InFlightEntered ==
    ASSUME NEW q \in Seq(UpFrame), NEW f \in UpFrame, NEW kind, NEW c
    PROVE  /\ InFlight(q, kind, c) => InFlight(Append(q, f), kind, c)
           /\ f.kind = kind /\ c \in f.chans => InFlight(Append(q, f), kind, c)
BY Entered DEF InFlight

\* Only the frame that is read is no longer in flight.
LEMMA InFlightLeft ==
    ASSUME NEW q \in Seq(UpFrame), q # <<>>, NEW kind, NEW c, InFlight(q, kind, c),
           ~(Head(q).kind = kind /\ c \in Head(q).chans)
    PROVE  InFlight(Tail(q), kind, c)
<1>1. PICK i \in 1 .. Len(q) : q[i].kind = kind /\ c \in q[i].chans
  BY DEF InFlight
<1>2. i # 1 /\ i - 1 \in 1 .. Len(Tail(q)) /\ Tail(q)[i - 1] = q[i]
  BY <1>1, Left
<1> QED
  BY <1>1, <1>2 DEF InFlight

-----------------------------------------------------------------------------
(* What the steps do to one channel.                                       *)

\* The server answers with a frame that tells of c.
LEMMA SettledByAnswer ==
    ASSUME TypeOK, NEW f \in DownFrame, NEW c, down' = Append(down, f), Tells(f, c),
           f.kind = "ack" <=> c \in subs'
    PROVE  Settled(c)'
<1>1. down \in Seq(DownFrame)
  BY DEF TypeOK, DownFrame
<1> QED
  BY <1>1, Entered DEF Settled

\* It answers with one that does not.
LEMMA SettledBeside ==
    ASSUME TypeOK, NEW f \in DownFrame, NEW c, down' = Append(down, f), ~Tells(f, c),
           c \in granted' <=> c \in granted, c \in subs' <=> c \in subs, Settled(c)
    PROVE  Settled(c)'
<1>0. down \in Seq(DownFrame)
  BY DEF TypeOK, DownFrame
<1>1. CASE \A i \in 1 .. Len(down) : ~Tells(down[i], c)
  BY <1>0, <1>1, Entered DEF Settled
<1>2. CASE \E i \in 1 .. Len(down) :
              /\ Tells(down[i], c)
              /\ \A j \in i + 1 .. Len(down) : ~Tells(down[j], c)
              /\ down[i].kind = "ack" <=> c \in subs
  <2>1. PICK i \in 1 .. Len(down) :
              /\ Tells(down[i], c)
              /\ \A j \in i + 1 .. Len(down) : ~Tells(down[j], c)
              /\ down[i].kind = "ack" <=> c \in subs
    BY <1>2
  <2>2. i \in 1 .. Len(down') /\ down'[i] = down[i]
    BY <1>0, Entered
  <2>3. \A j \in i + 1 .. Len(down') : ~Tells(down'[j], c)
    BY <1>0, <2>1, Entered
  <2> QED
    BY <2>1, <2>2, <2>3 DEF Settled
<1> QED
  BY <1>1, <1>2 DEF Settled

\* The pump dispatches the first frame.
LEMMA SettledDispatched ==
    ASSUME TypeOK, down # <<>>, down' = Tail(down), NEW c, c \in subs' <=> c \in subs,
           c \in granted' <=> IF Tells(Head(down), c) THEN Head(down).kind = "ack"
                                                      ELSE c \in granted,
           Settled(c)
    PROVE  Settled(c)'
<1>0. down \in Seq(DownFrame)
  BY DEF TypeOK, DownFrame
<1>1. CASE \A i \in 1 .. Len(down) : ~Tells(down[i], c)
  BY <1>0, <1>1, Left DEF Settled
<1>2. CASE \E i \in 1 .. Len(down) :
              /\ Tells(down[i], c)
              /\ \A j \in i + 1 .. Len(down) : ~Tells(down[j], c)
              /\ down[i].kind = "ack" <=> c \in subs
  <2>1. PICK i \in 1 .. Len(down) :
              /\ Tells(down[i], c)
              /\ \A j \in i + 1 .. Len(down) : ~Tells(down[j], c)
              /\ down[i].kind = "ack" <=> c \in subs
    BY <1>2
  <2>2. CASE i = 1
    <3>1. \A j \in 1 .. Len(down') : ~Tells(down'[j], c)
      BY <1>0, <2>1, <2>2, Left
    <3>2. c \in granted' <=> c \in subs'
      BY <1>0, <2>1, <2>2, Left
    <3> QED
      BY <3>1, <3>2 DEF Settled
  <2>3. CASE i # 1
    <3>1. i - 1 \in 1 .. Len(down') /\ down'[i - 1] = down[i]
      BY <1>0, <2>3, Left
    <3>2. \A j \in (i - 1) + 1 .. Len(down') : ~Tells(down'[j], c)
      BY <1>0, <2>1, <2>3, Left
    <3> QED
      BY <2>1, <3>1, <3>2 DEF Settled
  <2> QED
    BY <2>2, <2>3
<1> QED
  BY <1>1, <1>2 DEF Settled

\* An answer that is on its way stays there when another follows it, ...
LEMMA EndsDesireBehind ==
    ASSUME TypeOK, NEW f \in DownFrame, NEW c, down' = Append(down, f), EndsDesire(c)
    PROVE  EndsDesire(c)'
<1>1. down \in Seq(DownFrame)
  BY DEF TypeOK, DownFrame
<1> QED
  BY <1>1, Entered DEF EndsDesire

\* ... and until it is dispatched itself.
LEMMA EndsDesireDispatched ==
    ASSUME TypeOK, down # <<>>, down' = Tail(down), NEW c, EndsDesire(c),
           ~(Head(down).kind = "unack" /\ ~Head(down).forced /\ c \in Head(down).chans)
    PROVE  EndsDesire(c)'
<1>0. down \in Seq(DownFrame)
  BY DEF TypeOK, DownFrame
<1>1. PICK i \in 1 .. Len(down) :
              down[i].kind = "unack" /\ ~down[i].forced /\ c \in down[i].chans
  BY DEF EndsDesire
<1>2. i # 1 /\ i - 1 \in 1 .. Len(down') /\ down'[i - 1] = down[i]
  BY <1>0, <1>1, Left
<1> QED
  BY <1>1, <1>2 DEF EndsDesire

\* The delta still comes when a frame follows that does not tell of c, ...
LEMMA DeltaComesBehind ==
    ASSUME TypeOK, NEW f \in DownFrame, NEW c, down' = Append(down, f), ~Tells(f, c),
           escalating' = escalating, DeltaComes(c)
    PROVE  DeltaComes(c)'
<1>0. down \in Seq(DownFrame)
  BY DEF TypeOK, DownFrame
<1>1. CASE escalating /\ \A j \in 1 .. Len(down) : ~Tells(down[j], c)
  BY <1>0, <1>1, Entered DEF DeltaComes
<1>2. ASSUME NEW i \in 1 .. Len(down), down[i].kind = "auth_ack",
             \A j \in i + 1 .. Len(down) : ~Tells(down[j], c)
      PROVE  DeltaComes(c)'
  <2>1. i \in 1 .. Len(down') /\ down'[i] = down[i]
    BY <1>0, Entered
  <2>2. \A j \in i + 1 .. Len(down') : ~Tells(down'[j], c)
    BY <1>0, <1>2, Entered
  <2> QED
    BY <1>2, <2>1, <2>2 DEF DeltaComes
<1> QED
  BY <1>1, <1>2 DEF DeltaComes

\* ... and when the pump dispatches its auth_ack, or another frame.
LEMMA DeltaComesDispatched ==
    ASSUME TypeOK, down # <<>>, down' = Tail(down), NEW c, DeltaComes(c),
           escalating' = IF Head(down).kind = "auth_ack" THEN TRUE ELSE escalating
    PROVE  DeltaComes(c)'
<1>0. down \in Seq(DownFrame)
  BY DEF TypeOK, DownFrame
<1>1. CASE escalating /\ \A j \in 1 .. Len(down) : ~Tells(down[j], c)
  BY <1>0, <1>1, Left DEF DeltaComes
<1>2. ASSUME NEW i \in 1 .. Len(down), down[i].kind = "auth_ack",
             \A j \in i + 1 .. Len(down) : ~Tells(down[j], c)
      PROVE  DeltaComes(c)'
  <2>1. CASE i = 1
    <3>1. escalating' /\ \A j \in 1 .. Len(down') : ~Tells(down'[j], c)
      BY <1>0, <1>2, <2>1, Left
    <3> QED
      BY <3>1 DEF DeltaComes
  <2>2. CASE i # 1
    <3>1. i - 1 \in 1 .. Len(down') /\ down'[i - 1] = down[i]
      BY <1>0, <2>2, Left
    <3>2. \A j \in (i - 1) + 1 .. Len(down') : ~Tells(down'[j], c)
      BY <1>0, <1>2, <2>2, Left
    <3> QED
      BY <1>2, <3>1, <3>2 DEF DeltaComes
  <2> QED
    BY <2>1, <2>2
<1> QED
  BY <1>1, <1>2 DEF DeltaComes

\* No frame that is to come tells of c, and c is not granted: so the delta,
\* sent now, asks for c.
LEMMA DeltaAsks ==
    ASSUME NEW c, Settled(c), c \notin subs, \A j \in 1 .. Len(down) : ~Tells(down[j], c)
    PROVE  c \notin granted
BY DEF Settled

\* What a call of the client leaves in flight, at least what was there before.
LEMMA Called ==
    ASSUME TypeOK, NEW f \in UpFrame, NEW c,
           up' = Append(up, f), UNCHANGED <<down, allowed, subs, escalating>>,
           c \in desired' => c \in desired, Attended(c)
    PROVE  Attended(c)'
<1>1. up \in Seq(UpFrame)
  BY DEF TypeOK, UpFrame
<1>2. \A kind : InFlight(up, kind, c) => InFlight(up', kind, c)
  BY <1>1, InFlightEntered
<1> QED
  BY <1>2 DEF Attended, EndsDesire, DeltaComes

-----------------------------------------------------------------------------
(* Every step keeps the invariant.                                         *)

\* At first there is no connection.
LEMMA SubsInitInv == Init => SubsInv
<1> SUFFICES ASSUME Init PROVE SubsInv
  OBVIOUS
<1>1. \A S : <<>> \in Seq(S)
  OBVIOUS
<1>2. TypeOK
  BY <1>1 DEF Init, TypeOK
<1>3. NothingUnwantedResumed /\ Disconnected /\ ~connected
  BY DEF Init, NothingUnwantedResumed, Disconnected
<1> QED
  BY <1>2, <1>3 DEF SubsInv

\* Every step keeps the types, and the desired channels among the wanted.
LEMMA TypesStep == SubsInv /\ [Next]_vars => TypeOK' /\ NothingUnwantedResumed' /\ Disconnected'
<1> SUFFICES ASSUME SubsInv, [Next]_vars
             PROVE  TypeOK' /\ NothingUnwantedResumed' /\ Disconnected'
  OBVIOUS
<1> USE DEF SubsInv
<1>0. /\ {desired, granted, allowed, subs, wanted, reported} \subseteq SUBSET Channel
      /\ {connected, escalating} \subseteq BOOLEAN
      /\ up \in Seq(UpFrame) /\ down \in Seq(DownFrame)
      /\ <<>> \in Seq(UpFrame) /\ <<>> \in Seq(DownFrame)
      /\ \A f \in UpFrame : <<f>> \in Seq(UpFrame)
      /\ NotGranted \in SUBSET Channel /\ FALSE \in BOOLEAN /\ {} \in SUBSET Channel
  BY DEF TypeOK, UpFrame, DownFrame, NotGranted
<1> DEFINE Good == /\ {desired, granted, allowed, subs, wanted, reported} \subseteq SUBSET Channel
                   /\ {connected, escalating} \subseteq BOOLEAN
                   /\ up \in Seq(UpFrame) /\ down \in Seq(DownFrame)
                   /\ NothingUnwantedResumed /\ Disconnected
<1>1. SUFFICES Good'
  BY DEF TypeOK, UpFrame, DownFrame
<1> USE DEF NothingUnwantedResumed, Disconnected
<1>2. ASSUME NEW chans \in (SUBSET Channel) \ {{}}, Subscribe(chans)
      PROVE  Good'
  BY <1>0, <1>2, FrameTypes, Entered DEF Subscribe, Want, server
<1>3. ASSUME NEW chans \in (SUBSET Channel) \ {{}}, Unsubscribe(chans)
      PROVE  Good'
  BY <1>0, <1>3, FrameTypes, Entered DEF Unsubscribe, Unwant, server
<1>4. CASE Escalate
  <2>1. Frame("auth", {}) \in UpFrame
    BY <1>0, FrameTypes
  <2> QED
    BY <1>0, <1>4, <2>1, Entered DEF Escalate, server
<1>10. CASE SendDelta
  <2>1. Frame("subscribe", NotGranted) \in UpFrame
    BY <1>0, FrameTypes
  <2>2. up' \in Seq(UpFrame)
    BY <1>0, <1>10, <2>1, Entered DEF SendDelta
  <2> QED
    BY <1>0, <1>10, <2>2 DEF SendDelta, server
<1>5. CASE Connect \/ Disconnect
  BY <1>0, <1>5, FrameTypes DEF Connect, Disconnect, OnDisconnect, ResumeChannels, server
<1>6. CASE Dispatch
  <2>1. /\ Tail(down) \in Seq(DownFrame)
        /\ Head(down).chans \in SUBSET Channel /\ Head(down).kind \in {"ack", "unack", "auth_ack"}
    <3>1. Tail(down) \in Seq(DownFrame) /\ Head(down) \in DownFrame
      BY <1>0, <1>6, Left DEF Dispatch
    <3> QED
      BY <3>1 DEF DownFrame, Frames
  <2>2. /\ down' \in Seq(DownFrame) /\ connected /\ connected' = connected
        /\ UNCHANGED <<up, server, wanted>>
    BY <1>6, <2>1 DEF Dispatch
  <2>3. desired' \subseteq desired
    BY <1>6 DEF Dispatch, OnSubscriptionAck, OnUnsubscriptionAck, Unwant
  <2>4. {granted', reported'} \subseteq SUBSET Channel /\ escalating' \in BOOLEAN
    BY <1>0, <1>6, <2>1 DEF Dispatch, OnSubscriptionAck, OnUnsubscriptionAck, Unwant
  <2> QED
    BY <1>0, <2>2, <2>3, <2>4 DEF server
<1>7. CASE ServerReads
  <2>1. Tail(up) \in Seq(UpFrame) /\ Head(up).chans \in SUBSET Channel
    <3>1. Tail(up) \in Seq(UpFrame) /\ Head(up) \in UpFrame
      BY <1>0, <1>7, Left DEF ServerReads
    <3> QED
      BY <3>1 DEF UpFrame, Frames
  <2>2. /\ SubscriptionAck(Head(up).chans \cap allowed, Head(up).chans) \in DownFrame
        /\ UnsubscriptionAck(Head(up).chans, FALSE) \in DownFrame
        /\ Frame("auth_ack", {}) \in DownFrame
    BY <1>0, <2>1, FrameTypes
  <2>3. up' \in Seq(UpFrame) /\ down' \in Seq(DownFrame)
    <3>1. \A f \in DownFrame : Append(down, f) \in Seq(DownFrame)
      BY <1>0
    <3> QED
      BY <1>0, <1>7, <2>1, <2>2, <3>1, Zenon DEF ServerReads
  <2> QED
    BY <1>0, <1>7, <2>1, <2>3 DEF ServerReads
<1>8. ASSUME NEW c \in Channel, ServerRevokes(c)
      PROVE  Good'
  <2>1. UnsubscriptionAck({c}, TRUE) \in DownFrame
    BY FrameTypes
  <2> QED
    BY <1>0, <1>8, <2>1, Entered DEF ServerRevokes
<1>9. CASE UNCHANGED vars
  BY <1>0, <1>9 DEF vars, server
<1> QED
  BY <1>2, <1>3, <1>4, <1>5, <1>6, <1>7, <1>8, <1>9, <1>10 DEF Next

\* What there is to show of a channel on a connection.
Sound(c) == (Settled(c) \/ InFlight(up, "unsubscribe", c)) /\ Attended(c)

\* The client calls.
LEMMA CallSound ==
    ASSUME SubsInv, connected', NEW c \in Channel,
           \/ \E chans \in (SUBSET Channel) \ {{}} : Subscribe(chans) \/ Unsubscribe(chans)
           \/ Escalate \/ SendDelta
    PROVE  Sound(c)'
<1> USE DEF SubsInv
<1>0. /\ TypeOK /\ connected /\ Sound(c)
      /\ up \in Seq(UpFrame) /\ NotGranted \in SUBSET Channel
  BY DEF TypeOK, UpFrame, Sound, Subscribe, Unsubscribe, Escalate, SendDelta, NotGranted
<1>1. ASSUME NEW f \in UpFrame, up' = Append(up, f)
      PROVE  /\ \A kind : InFlight(up, kind, c) => InFlight(up', kind, c)
             /\ \A kind : f.kind = kind /\ c \in f.chans => InFlight(up', kind, c)
  BY <1>0, <1>1, InFlightEntered
<1>2. ASSUME UNCHANGED <<down, subs>>, c \in granted' <=> c \in granted, Settled(c)
      PROVE  Settled(c)'
  BY <1>2 DEF Settled
<1>3. ASSUME NEW chans \in (SUBSET Channel) \ {{}}, Subscribe(chans)
      PROVE  Sound(c)'
  <2>1. Frame("subscribe", chans) \in UpFrame /\ up' = Append(up, Frame("subscribe", chans))
    BY <1>0, <1>3, FrameTypes DEF Subscribe
  <2>2. UNCHANGED <<down, subs, allowed, escalating, granted>>
    BY <1>3 DEF Subscribe, Want, server
  <2>3. CASE c \in chans
    BY <1>0, <1>1, <1>2, <2>1, <2>2, <2>3, FrameFields DEF Sound, Attended
  <2>4. CASE c \notin chans
    <3>1. c \in desired' => c \in desired
      BY <1>3, <2>4 DEF Subscribe, Want
    <3> QED
      BY <1>0, <1>1, <1>2, <2>1, <2>2, <3>1, Called DEF Sound
  <2> QED
    BY <2>3, <2>4
<1>4. ASSUME NEW chans \in (SUBSET Channel) \ {{}}, Unsubscribe(chans)
      PROVE  Sound(c)'
  <2>1. Frame("unsubscribe", chans) \in UpFrame /\ up' = Append(up, Frame("unsubscribe", chans))
    BY <1>0, <1>4, FrameTypes DEF Unsubscribe
  <2>2. UNCHANGED <<down, subs, allowed, escalating>>
    BY <1>4 DEF Unsubscribe, Unwant, server
  <2>3. CASE c \in chans
    <3>1. c \notin desired'
      BY <1>4, <2>3 DEF Unsubscribe, Unwant
    <3> QED
      BY <1>1, <2>1, <2>3, <3>1, FrameFields DEF Sound, Attended
  <2>4. CASE c \notin chans
    <3>1. (c \in desired' => c \in desired) /\ (c \in granted' <=> c \in granted)
      BY <1>4, <2>4 DEF Unsubscribe, Unwant
    <3> QED
      BY <1>0, <1>1, <1>2, <2>1, <2>2, <3>1, Called DEF Sound
  <2> QED
    BY <2>3, <2>4
<1>5. CASE Escalate
  <2>1. Frame("auth", {}) \in UpFrame /\ up' = Append(up, Frame("auth", {}))
    BY <1>5, FrameTypes DEF Escalate
  <2>2. UNCHANGED <<down, subs, allowed, escalating, granted, desired>>
    BY <1>5 DEF Escalate, server
  <2> QED
    BY <1>0, <1>1, <1>2, <2>1, <2>2, Called DEF Sound
<1>6. CASE SendDelta
  <2>1. Frame("subscribe", NotGranted) \in UpFrame
    BY <1>0, FrameTypes
  <2>2. UNCHANGED <<down, subs, allowed, granted, desired>>
    BY <1>6 DEF SendDelta, server
  <2>3. \/ NotGranted = {} /\ up' = up
        \/ NotGranted # {} /\ up' = Append(up, Frame("subscribe", NotGranted))
    BY <1>6 DEF SendDelta
  <2>4. \A kind : InFlight(up, kind, c) => InFlight(up', kind, c)
    BY <1>1, <2>1, <2>3
  <2>5. c \in NotGranted => InFlight(up', "subscribe", c)
    BY <1>1, <2>1, <2>3, FrameFields
  <2>6. Attended(c)'
    <3> SUFFICES ASSUME c \in desired, c \in allowed, c \notin subs,
                        ~InFlight(up', "subscribe", c), ~InFlight(up', "unsubscribe", c)
                 PROVE  EndsDesire(c)' \/ DeltaComes(c)'
      BY <2>2 DEF Attended
    <3>1. Settled(c) /\ (EndsDesire(c) \/ DeltaComes(c))
      BY <1>0, <2>4 DEF Sound, Attended
    <3>2. CASE EndsDesire(c)
      BY <2>2, <3>2 DEF EndsDesire
    <3>3. CASE \E i \in 1 .. Len(down) :
                  /\ down[i].kind = "auth_ack"
                  /\ \A j \in i + 1 .. Len(down) : ~Tells(down[j], c)
      BY <2>2, <3>3 DEF DeltaComes
    <3>4. CASE \A j \in 1 .. Len(down) : ~Tells(down[j], c)
      BY <2>5, <3>1, <3>4, DeltaAsks DEF NotGranted
    <3> QED
      BY <3>1, <3>2, <3>3, <3>4 DEF DeltaComes
  <2> QED
    BY <1>0, <1>2, <2>2, <2>4, <2>6 DEF Sound
<1> QED
  BY <1>3, <1>4, <1>5, <1>6

\* A new connection asks for everything that is desired.
LEMMA ConnectSound ==
    ASSUME SubsInv, Connect, NEW c \in Channel
    PROVE  Sound(c)'
<1>1. /\ down' = <<>> /\ granted' = {} /\ subs' = {} /\ desired' = desired
      /\ up' = IF desired = {} THEN <<>> ELSE <<Frame("subscribe", desired)>>
  BY DEF SubsInv, Disconnected, Connect, ResumeChannels, server
<1>2. Settled(c)'
  BY <1>1 DEF Settled
<1>3. c \in desired => InFlight(up', "subscribe", c)
  <2> SUFFICES ASSUME c \in desired PROVE InFlight(up', "subscribe", c)
    OBVIOUS
  <2>1. up' = <<Frame("subscribe", desired)>> /\ 1 \in 1 .. Len(up')
    BY <1>1
  <2> QED
    BY <2>1, FrameFields DEF InFlight
<1> QED
  BY <1>1, <1>2, <1>3 DEF Sound, Attended

\* The pump dispatches a frame.
LEMMA DispatchSound ==
    ASSUME SubsInv, Dispatch, NEW c \in Channel
    PROVE  Sound(c)'
<1> DEFINE f == Head(down)
<1>1. /\ TypeOK /\ connected /\ Sound(c) /\ down # <<>> /\ down' = Tail(down)
      /\ UNCHANGED <<up, allowed, subs>>
  BY DEF SubsInv, Sound, Dispatch, server
<1>2. /\ c \in granted' <=> IF Tells(f, c) THEN f.kind = "ack" ELSE c \in granted
      /\ escalating' = IF f.kind = "auth_ack" THEN TRUE ELSE escalating
      /\ c \in desired' =>
            c \in desired /\ ~(f.kind = "unack" /\ ~f.forced /\ c \in f.chans)
  BY DEF Dispatch, OnSubscriptionAck, OnUnsubscriptionAck, Unwant, Tells
<1>3. Settled(c) => Settled(c)'
  BY <1>1, <1>2, SettledDispatched
<1>4. Attended(c)'
  <2> SUFFICES ASSUME c \in desired', c \in allowed, c \notin subs,
                      ~InFlight(up, "subscribe", c), ~InFlight(up, "unsubscribe", c)
               PROVE  EndsDesire(c)' \/ DeltaComes(c)'
    BY <1>1 DEF Attended
  <2>1. EndsDesire(c) \/ DeltaComes(c)
    BY <1>1, <1>2 DEF Sound, Attended
  <2>2. EndsDesire(c) => EndsDesire(c)'
    BY <1>1, <1>2, EndsDesireDispatched
  <2>3. DeltaComes(c) => DeltaComes(c)'
    BY <1>1, <1>2, DeltaComesDispatched
  <2> QED
    BY <2>1, <2>2, <2>3
<1> QED
  BY <1>1, <1>3, <1>4 DEF Sound

\* The server reads a frame and answers it.
LEMMA ReadSound ==
    ASSUME SubsInv, ServerReads, NEW c \in Channel
    PROVE  Sound(c)'
<1> DEFINE f == Head(up)
<1>1. /\ TypeOK /\ Sound(c) /\ up # <<>> /\ up' = Tail(up)
      /\ UNCHANGED <<desired, granted, escalating>>
      /\ up \in Seq(UpFrame) /\ down \in Seq(DownFrame) /\ allowed \in SUBSET Channel
  BY DEF SubsInv, Sound, ServerReads, TypeOK, UpFrame, DownFrame
<1>2. f \in UpFrame /\ f.chans \in SUBSET Channel
  <2>1. f \in UpFrame
    BY <1>1, Left
  <2> QED
    BY <2>1 DEF UpFrame, Frames
<1>3. \A kind : InFlight(up, kind, c) /\ ~(f.kind = kind /\ c \in f.chans)
                    => InFlight(up', kind, c)
  BY <1>1, InFlightLeft
\* An answer that does not tell of c, when no frame about c was read.
<1>4. ASSUME NEW g \in DownFrame, down' = Append(down, g), ~Tells(g, c),
             c \in subs' <=> c \in subs, c \in allowed' => c \in allowed,
             ~(f.kind \in {"subscribe", "unsubscribe"} /\ c \in f.chans)
      PROVE  Sound(c)'
  <2>1. Settled(c) => Settled(c)'
    BY <1>1, <1>4, SettledBeside
  <2>2. EndsDesire(c) => EndsDesire(c)'
    BY <1>1, <1>4, EndsDesireBehind
  <2>3. DeltaComes(c) => DeltaComes(c)'
    BY <1>1, <1>4, DeltaComesBehind
  <2>4. \A kind \in {"subscribe", "unsubscribe"} :
            InFlight(up, kind, c) => InFlight(up', kind, c)
    BY <1>3, <1>4
  <2> QED
    BY <1>1, <1>4, <2>1, <2>2, <2>3, <2>4 DEF Sound, Attended
<1>5. CASE f.kind = "subscribe"
  <2> DEFINE g == SubscriptionAck(f.chans \cap allowed, f.chans)
  <2>1. /\ down' = Append(down, g) /\ subs' = subs \cup (f.chans \cap allowed)
        /\ allowed' = allowed
    BY <1>5 DEF ServerReads
  <2>2. g \in DownFrame /\ g.kind = "ack" /\ g.chans = f.chans \cap allowed
    BY <1>1, <1>2 DEF Frame, SubscriptionAck, DownFrame, Frames
  <2>3. CASE c \in f.chans /\ c \in allowed
    <3>1. Tells(g, c) /\ c \in subs'
      BY <2>1, <2>2, <2>3 DEF Tells
    <3>2. Settled(c)'
      BY <1>1, <2>1, <2>2, <3>1, SettledByAnswer
    <3> QED
      BY <3>1, <3>2 DEF Sound, Attended
  <2>4. CASE c \in f.chans /\ c \notin allowed
    <3>1. ~Tells(g, c) /\ (c \in subs' <=> c \in subs)
      BY <2>1, <2>2, <2>4 DEF Tells
    <3>2. Settled(c) => Settled(c)'
      BY <1>1, <2>1, <2>2, <3>1, SettledBeside
    <3>3. InFlight(up, "unsubscribe", c) => InFlight(up', "unsubscribe", c)
      BY <1>3, <1>5
    <3> QED
      BY <1>1, <2>1, <2>4, <3>2, <3>3 DEF Sound, Attended
  <2>5. CASE c \notin f.chans
    <3>1. ~Tells(g, c) /\ (c \in subs' <=> c \in subs)
      BY <2>1, <2>2, <2>5 DEF Tells
    <3> QED
      BY <1>4, <2>1, <2>2, <2>5, <3>1
  <2> QED
    BY <2>3, <2>4, <2>5
<1>6. CASE f.kind = "unsubscribe"
  <2> DEFINE g == UnsubscriptionAck(f.chans, FALSE)
  <2>1. down' = Append(down, g) /\ subs' = subs \ f.chans /\ allowed' = allowed
    BY <1>6 DEF ServerReads
  <2>2. g \in DownFrame /\ g.kind = "unack" /\ g.chans = f.chans /\ ~g.forced
    BY <1>2 DEF Frame, UnsubscriptionAck, DownFrame, Frames
  <2>3. CASE c \in f.chans
    <3>1. Tells(g, c) /\ c \notin subs'
      BY <2>1, <2>2, <2>3 DEF Tells
    <3>2. Settled(c)'
      BY <1>1, <2>1, <2>2, <3>1, SettledByAnswer
    <3>3. EndsDesire(c)'
      <4> HIDE DEF g
      <4>1. Len(down) + 1 \in 1 .. Len(down') /\ down'[Len(down) + 1] = g
        BY <1>1, <2>1, <2>2, Entered
      <4> QED
        BY <2>2, <2>3, <4>1 DEF EndsDesire
    <3> QED
      BY <3>2, <3>3 DEF Sound, Attended
  <2>4. CASE c \notin f.chans
    <3>1. ~Tells(g, c) /\ (c \in subs' <=> c \in subs)
      BY <2>1, <2>2, <2>4 DEF Tells
    <3> QED
      BY <1>4, <2>1, <2>2, <2>4, <3>1
  <2> QED
    BY <2>3, <2>4
<1>7. CASE f.kind = "auth"
  <2> DEFINE g == Frame("auth_ack", {})
  <2>1. down' = Append(down, g) /\ subs' = subs
    BY <1>7 DEF ServerReads
  <2>2. g \in DownFrame /\ g.kind = "auth_ack" /\ ~Tells(g, c)
    BY DEF Frame, DownFrame, Frames, Tells
  <2>3. Settled(c) => Settled(c)'
    BY <1>1, <2>1, <2>2, SettledBeside
  <2>4. DeltaComes(c)'
    <3>1. /\ Len(down) + 1 \in 1 .. Len(down') /\ down'[Len(down) + 1] = g
          /\ \A j \in Len(down) + 1 + 1 .. Len(down') : FALSE
      BY <1>1, <2>1, <2>2, Entered
    <3> QED
      BY <2>2, <3>1 DEF DeltaComes
  <2>5. InFlight(up, "unsubscribe", c) => InFlight(up', "unsubscribe", c)
    BY <1>3, <1>7
  <2> QED
    BY <1>1, <2>3, <2>4, <2>5 DEF Sound, Attended
<1> QED
  BY <1>5, <1>6, <1>7 DEF ServerReads

\* The server takes the permission for channel r away.
LEMMA RevokeSound ==
    ASSUME SubsInv, connected, NEW r \in Channel, ServerRevokes(r), NEW c \in Channel
    PROVE  Sound(c)'
<1> DEFINE g == UnsubscriptionAck({r}, TRUE)
<1>1. /\ TypeOK /\ Sound(c) /\ UNCHANGED <<desired, granted, escalating, up>>
      /\ allowed' = allowed \ {r} /\ subs' = subs \ {r}
      /\ down' = IF r \in subs THEN Append(down, g) ELSE down
  BY DEF SubsInv, Sound, ServerRevokes
<1>2. g \in DownFrame /\ g.kind = "unack" /\ g.chans = {r}
  BY DEF Frame, UnsubscriptionAck, DownFrame, Frames
<1>3. CASE r \notin subs
  <2>1. down' = down /\ (c \in subs' <=> c \in subs)
    BY <1>1, <1>3
  <2>2. (Settled(c) => Settled(c)') /\ (EndsDesire(c) => EndsDesire(c)')
    BY <1>1, <2>1 DEF Settled, EndsDesire
  <2>3. DeltaComes(c) => DeltaComes(c)'
    BY <1>1, <2>1 DEF DeltaComes
  <2> QED
    BY <1>1, <2>1, <2>2, <2>3 DEF Sound, Attended
<1>4. CASE r \in subs /\ c = r
  <2>1. Tells(g, c) /\ c \notin subs' /\ c \notin allowed'
    BY <1>1, <1>2, <1>4 DEF Tells
  <2>2. Settled(c)'
    BY <1>1, <1>2, <1>4, <2>1, SettledByAnswer
  <2> QED
    BY <2>1, <2>2 DEF Sound, Attended
<1>5. CASE r \in subs /\ c # r
  <2>1. ~Tells(g, c) /\ (c \in subs' <=> c \in subs) /\ down' = Append(down, g)
    BY <1>1, <1>2, <1>5 DEF Tells
  <2>2. Settled(c) => Settled(c)'
    BY <1>1, <1>2, <2>1, SettledBeside
  <2>3. EndsDesire(c) => EndsDesire(c)'
    BY <1>1, <1>2, <2>1, EndsDesireBehind
  <2>4. DeltaComes(c) => DeltaComes(c)'
    BY <1>1, <1>2, <2>1, DeltaComesBehind
  <2> QED
    BY <1>1, <2>1, <2>2, <2>3, <2>4 DEF Sound, Attended
<1> QED
  BY <1>3, <1>4, <1>5

\* Every step keeps the invariant.
LEMMA StepSubsInv == SubsInv /\ [Next]_vars => SubsInv'
<1> SUFFICES ASSUME SubsInv, [Next]_vars
             PROVE  SubsInv'
  OBVIOUS
<1>1. TypeOK' /\ NothingUnwantedResumed' /\ Disconnected'
  BY TypesStep
<1>2. ASSUME connected', NEW c \in Channel
      PROVE  Sound(c)'
  <2>1. CASE \/ \E chans \in (SUBSET Channel) \ {{}} : Subscribe(chans) \/ Unsubscribe(chans)
             \/ Escalate \/ SendDelta
    BY <1>2, <2>1, CallSound
  <2>2. CASE Connect
    BY <2>2, ConnectSound
  <2>3. CASE Disconnect
    BY <1>2, <2>3 DEF Disconnect
  <2>4. CASE Dispatch
    BY <2>4, DispatchSound
  <2>5. CASE ServerReads
    BY <2>5, ReadSound
  <2>6. ASSUME NEW r \in Channel, ServerRevokes(r)
        PROVE  Sound(c)'
    <3>1. connected
      BY <1>2, <2>6 DEF ServerRevokes
    <3> QED
      BY <2>6, <3>1, RevokeSound
  <2>7. CASE UNCHANGED vars
    <3>1. Sound(c) /\ UNCHANGED vars
      BY <1>2, <2>7 DEF SubsInv, Sound, vars
    <3> QED
      BY <3>1 DEF vars, server, Sound, Settled, InFlight, Attended, EndsDesire, DeltaComes
  <2> QED
    BY <2>1, <2>2, <2>3, <2>4, <2>5, <2>6, <2>7 DEF Next
<1> QED
  BY <1>1, <1>2 DEF SubsInv, Sound

\* In every reachable state the invariant holds.
THEOREM SubsInvHolds == Spec => []SubsInv
BY SubsInitInv, StepSubsInv, PTL DEF Spec

-----------------------------------------------------------------------------
(* What the runs check.                                                    *)

\* Every frame, set of channels and flag is of its type, in either direction.
THEOREM TypesAreRight == Spec => []TypeOK
<1>1. SubsInv => TypeOK
  BY DEF SubsInv
<1> QED
  BY <1>1, SubsInvHolds, PTL

\* Once every frame of a connection has been answered and dispatched, the
\* client shows as granted exactly the channels the server sends.
THEOREM GrantsAgree == Spec => []GrantedIsServed
<1>1. SubsInv => GrantedIsServed
  <2> SUFFICES ASSUME SubsInv, Quiet PROVE granted = subs
    BY DEF GrantedIsServed
  <2>1. /\ granted \in SUBSET Channel /\ subs \in SUBSET Channel
        /\ \A c \in Channel : Settled(c) \/ InFlight(up, "unsubscribe", c)
    BY DEF SubsInv, TypeOK, Quiet
  <2>2. \A c \in Channel : c \in granted <=> c \in subs
    BY <2>1 DEF Quiet, Settled, InFlight
  <2> QED
    BY <2>1, <2>2
<1> QED
  BY <1>1, SubsInvHolds, PTL

\* ... and whatever it remembers as desired and may see is served.
THEOREM DesiresAreServed == Spec => []DesiredIsServed
<1>1. SubsInv => DesiredIsServed
  <2> SUFFICES ASSUME SubsInv, Quiet, NEW c \in desired \cap allowed
               PROVE  c \in subs
    BY DEF DesiredIsServed
  <2>1. Attended(c)
    BY DEF SubsInv, TypeOK, Quiet
  <2> QED
    BY <2>1 DEF Quiet, Attended, InFlight, EndsDesire, DeltaComes
<1> QED
  BY <1>1, SubsInvHolds, PTL

\* No channel the caller gave up is among those a reconnect resumes.
THEOREM UnwantedIsForgotten == Spec => []NothingUnwantedResumed
<1>1. SubsInv => NothingUnwantedResumed
  BY DEF SubsInv
<1> QED
  BY <1>1, SubsInvHolds, PTL
=============================================================================
