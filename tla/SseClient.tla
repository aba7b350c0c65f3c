----------------------------- MODULE SseClient -----------------------------
(***************************************************************************)
(* The receive-only SSE path from the server's log to the consumer: the    *)
(* stream of src/sukko/transport/sse.py, the supervisor's resume cursor    *)
(* and the read pump of src/sukko/client.py, and the delivery queue, on    *)
(* one channel whose log the REST API of RestApi publishes to.             *)
(*                                                                         *)
(* The server is external.  The id of an event is the index of its entry   *)
(* in the log.  After an id presented as Last-Event-ID it serves the       *)
(* entries that follow; or says that it cannot (no_replay), or stops short *)
(* (replay_truncated), and goes on live; or says live that it skipped some *)
(* (gap).  `of' holds the entries such an event owns up to.                *)
(***************************************************************************)
EXTENDS RestApi, SequencesExt

CONSTANTS
    MaxQueue,    \* maxsize of the delivery queue
    MaxWire,     \* bound on the events on the wire
    MaxDrops,    \* bound on the streams that end
    Cuts         \* may a stream end inside an event?

ASSUME SseBounds ==
    /\ {MaxQueue, MaxWire} \subseteq Nat \ {0} /\ MaxDrops \in Nat
    /\ Cuts \in BOOLEAN

VARIABLES
    stream,    \* the epoch: "none", "dialing", "open", "ended"; or the client's end
    wire,      \* events the server has sent and the pump has not read
    served,    \* the last entry the server has served on this stream, or skipped
    lastId,    \* SseTransport._last_event_id
    resume,    \* resume_cursor of _run
    pump,      \* the read pump: "none", "reading" or "putting"
    item,      \* what a blocked put holds
    queue,     \* the delivery queue
    drops,     \* how many streams have ended
    base,      \* history: the first id the transport saw
    got,       \* history: the last entry the consumer got
    told       \* history: the entries the consumer was told it may miss

sse == <<stream, wire, served, lastId, resume, pump, item, queue, drops, base, got, told>>
sseVars == <<rest, sse>>

Id == (1 .. MaxLog) \cup {None}
Events == [kind : {"message", "gap", "no_replay", "truncated", "cut"}, id : Id,
           of : SUBSET (1 .. MaxLog)]

ASSUME NoneIsNoEvent == \A e \in Events : e # None

Event(kind, id, of) == [kind |-> kind, id |-> id, of |-> of]
Entry(i) == Event("message", i, {})

SseInit ==
    /\ RestInit
    /\ stream = "none" /\ wire = <<>> /\ served = 0
    /\ lastId = None /\ resume = None
    /\ pump = "none" /\ item = None /\ queue = <<>>
    /\ drops = 0 /\ base = None /\ got = 0 /\ told = {}

-----------------------------------------------------------------------------
(* The server.                                                             *)

\* Entries come from other publishers as well.
OtherPublishes ==
    /\ log < MaxLog /\ log' = log + 1
    /\ UNCHANGED <<device, created, httpOpen, call, sse>>

\* How the server answers a dial: what it sends first, and where it goes on.
Start(first, at) == [first |-> first, at |-> at]

Starts(cursor) ==
    IF cursor = None THEN {Start(<<>>, log)}
    ELSE {Start(<<>>, cursor)} \cup
         IF cursor = log THEN {}
         ELSE {Start(<<Event("no_replay", None, cursor + 1 .. log)>>, log)} \cup
              {Start(<<Entry(cursor + 1), Event("truncated", None, cursor + 2 .. log)>>,
                     log)}

Sends(e, upTo) ==
    /\ stream = "open" /\ Len(wire) < MaxWire
    /\ wire' = Append(wire, e) /\ served' = upTo
    /\ UNCHANGED <<rest, stream, lastId, resume, pump, item, queue, drops, base, got, told>>

Serves == served < log /\ Sends(Entry(served + 1), served + 1)

Skips ==
    /\ served < log
    /\ Sends(Event("gap", None, served + 1 .. log), log)

\* The stream ends, whatever was still on its way: between two events, or
\* after the id line of one.
StreamEnds ==
    /\ stream = "open" /\ drops < MaxDrops
    /\ stream' = "ended" /\ drops' = drops + 1
    /\ \E n \in 0 .. Len(wire) :
          \/ wire' = SubSeq(wire, 1, n)
          \/ /\ Cuts /\ n < Len(wire)
             /\ wire' = Append(SubSeq(wire, 1, n), [wire[n + 1] EXCEPT !.kind = "cut"])
    /\ UNCHANGED <<rest, served, lastId, resume, pump, item, queue, base, got, told>>

-----------------------------------------------------------------------------
(* The supervisor and the transport.                                       *)

\* The factory gives the new transport the resume cursor; open() asks.
Dial ==
    /\ stream = "none"
    /\ stream' = "dialing" /\ lastId' = resume
    /\ UNCHANGED <<rest, wire, served, resume, pump, item, queue, drops, base, got, told>>

DialAccepted ==
    /\ stream = "dialing"
    /\ \E s \in Starts(lastId) : wire' = s.first /\ served' = s.at
    /\ stream' = "open" /\ pump' = "reading"
    /\ UNCHANGED <<rest, lastId, resume, item, queue, drops, base, got, told>>

\* No connection, or a status other than 200: a typed error, and after a
\* backoff another dial.
DialFails ==
    /\ stream = "dialing" /\ stream' = "none"
    /\ UNCHANGED <<rest, wire, served, lastId, resume, pump, item, queue, drops, base, got, told>>

\* The connection fails while the body of a refusal is read: httpx's own
\* error leaves open(), and the supervisor with it.
DialBodyLost ==
    /\ stream = "dialing" /\ stream' = "crashed"
    /\ UNCHANGED <<rest, wire, served, lastId, resume, pump, item, queue, drops, base, got, told>>

HarvestNothing == resume                              \* wrong: the cursor is not threaded
HarvestFirst == IF resume = None THEN lastId ELSE resume    \* wrong: taken once

Harvest == IF lastId = None THEN resume ELSE lastId

\* The pump raises: the task group ends, and _run harvests the cursor.
EpochOver ==
    /\ stream' = "none" /\ pump' = "none" /\ wire' = <<>> /\ resume' = Harvest
    /\ UNCHANGED <<rest, served, drops, base, got>>

Room == Len(queue) < MaxQueue

PutsNoControl(e) == e.kind \in {"message", "gap"}   \* wrong: no_replay is a frame unknown

\* Surfaced on messages(): a Message, a Gap, or a PossibleGap for a no_replay.
Puts(e) == e.kind \in {"message", "gap", "no_replay"}

\* send on a receive-only transport raises, and the pump with it.
SendRefused == EpochOver

\* What follows a put: a gap asks for a replay, and the recovery broken off
\* with the epoch is reported.
AfterPut(e) ==
    IF e.kind = "gap"
    THEN SendRefused /\ told' = told \cup e.of
    ELSE /\ pump' = "reading"
         /\ UNCHANGED <<rest, stream, wire, served, resume, drops, base, got, told>>

\* recv takes the lines of an event, its id first; _dispatch puts what it
\* carries.  A truncation is reported through on_error, and of an event cut
\* short only the id is seen.
ReadEvent ==
    /\ pump = "reading" /\ wire # <<>>
    /\ LET e == Head(wire) IN
       /\ lastId' = IF e.id = None THEN lastId ELSE e.id
       /\ base' = IF base = None THEN e.id ELSE base
       /\ told' = IF e.kind = "truncated" THEN told \cup e.of ELSE told
       /\ wire' = Tail(wire)
       /\ IF Puts(e) THEN pump' = "putting" /\ item' = e ELSE UNCHANGED <<pump, item>>
    /\ UNCHANGED <<rest, stream, served, resume, queue, drops, got>>

\* The put returns, at once or when the consumer makes room.
PutReturns ==
    /\ pump = "putting" /\ Room
    /\ queue' = Append(queue, item) /\ item' = None
    /\ AfterPut(item) /\ UNCHANGED lastId

\* The lines are exhausted or fail, or close() took them: recv raises.
PumpEnds ==
    /\ pump = "reading" /\ stream = "ended" /\ wire = <<>>
    /\ EpochOver /\ UNCHANGED <<lastId, item, queue, told>>

\* What close() leaves of the event the pump is reading: nothing, or its id.
Remains ==
    {<<>>} \cup IF Cuts /\ pump = "reading" /\ wire # <<>>
                THEN {<<[Head(wire) EXCEPT !.kind = "cut"]>>} ELSE {}

\* subscribe or unsubscribe on the live stream closes it: what was on its way
\* is thrown away, and a pump in a put finds out at its next recv.
Bounce ==
    /\ stream \in {"open", "ended"} /\ drops < MaxDrops
    /\ stream' = "ended" /\ wire' \in Remains /\ drops' = drops + 1
    /\ UNCHANGED <<rest, served, lastId, resume, pump, item, queue, base, got, told>>

Consume ==
    /\ queue # <<>>
    /\ queue' = Tail(queue)
    /\ LET e == Head(queue) IN
       IF e.kind = "message" THEN got' = e.id /\ UNCHANGED told
       ELSE told' = told \cup e.of /\ UNCHANGED got
    /\ UNCHANGED <<rest, stream, wire, served, lastId, resume, pump, item, drops, base>>

\* close(): the supervisor is cancelled, the HTTP client closed.
CloseClient ==
    /\ stream # "closed" /\ stream' = "closed"
    /\ CloseHttp
    /\ pump' = "none" /\ item' = None /\ wire' = <<>>
    /\ UNCHANGED <<served, lastId, resume, queue, drops, base, got, told>>

Step == Dial \/ DialFails \/ DialBodyLost \/ ReadEvent \/ PutReturns \/ PumpEnds

SseNext ==
    \/ OtherPublishes \/ DialAccepted \/ Serves \/ Skips \/ StreamEnds
    \/ Step \/ Bounce \/ Consume \/ CloseClient
    \/ RestCalls /\ UNCHANGED sse

\* The event loop runs what is ready, the consumer iterates, and a server
\* dialled again and again sometimes answers, and then serves.
SseSpec ==
    /\ SseInit /\ [][SseNext]_sseVars
    /\ WF_sseVars(Step) /\ SF_sseVars(DialAccepted)
    /\ WF_sseVars(Serves) /\ WF_sseVars(Consume)

-----------------------------------------------------------------------------
(* Properties.                                                             *)

\* Types, and what the shape of an epoch implies: no pump without a stream.
SseTypeOK ==
    /\ stream \in {"none", "dialing", "open", "ended", "crashed", "closed"}
    /\ wire \in Seq(Events) /\ Len(wire) <= Max({MaxWire, 2})
    /\ {lastId, resume, base} \subseteq Id /\ served \in 0 .. MaxLog /\ got \in 0 .. MaxLog
    /\ pump \in {"none", "reading", "putting"} /\ item \in Events \cup {None}
    /\ queue \in Seq(Events) /\ Len(queue) <= MaxQueue
    /\ told \subseteq 1 .. MaxLog /\ drops \in 0 .. MaxDrops
    /\ pump = "none" <=> stream \notin {"open", "ended"}
    /\ pump = "putting" <=> item # None

Finished == {"closed", "crashed"}

\* Entries the recovery answers for: from the first id seen on.  (An entry
\* lost before any id was seen is ADR-0006's quiet-channel hole.)
Owed == {i \in 1 .. log : base # None /\ i >= base}

Holds(e, i) == (i = e.id /\ e.kind = "message") \/ i \in e.of

Known(i) == i <= got \/ i \in told

InHand(i) ==
    \/ \E e \in Range(wire \o queue) : Holds(e, i)
    \/ item # None /\ Holds(item, i)

\* No entry is lost without a word: it has been delivered or announced, or is
\* in the queue, in a blocked put or on the wire, or lies past the point the
\* server, or the next dial, goes on from - over ends of the stream, bounces
\* during a blocked put, refused replays, truncations and gaps
\* (client.py:385-392, sse.py:125-163, ADR-0006 "no silent recovery loss").
NothingLostSilently ==
    stream \notin Finished =>
        \A i \in Owed :
            \/ Known(i) \/ InHand(i)
            \/ stream = "open" /\ i > served
            \/ stream # "open" /\ Harvest # None /\ i > Harvest

\* What the consumer gets, now and later, is in the order of the log and each
\* entry once, also when a stream is taken up again while the queue is full
\* (client.py:447-450: each epoch resumes where the last one stopped).
InOrderOnce ==
    LET held == queue \o IF item = None THEN wire ELSE <<item>> \o wire
        messages == {n \in 1 .. Len(held) : held[n].kind = "message"}
    IN \A n \in messages :
          got < held[n].id /\ \A m \in messages : m < n => held[m].id < held[n].id

\* Every entry owed is in the end delivered or announced, unless the client
\* is closed, or its supervisor dead.
EventuallyKnown ==
    \A i \in 1 .. MaxLog :
        (i \in Owed /\ stream \notin Finished) ~> (Known(i) \/ stream \in Finished)

-----------------------------------------------------------------------------
(* What the code does not keep (README, Deviations).                       *)

\* close() alone ends the supervisor; a failed dial is retried (client.py:397).
OnlyCloseEnds == stream # "crashed"

\* The client never sends on a transport that cannot (base.py:95-96), so it
\* never gives up an open stream of its own accord.
KeepsOpenStream == [][stream = "open" => stream' # "none"]_sseVars
=============================================================================
