--------------------------- MODULE DeliveryQueue ---------------------------
(***************************************************************************)
(* The bounded delivery queue of src/sukko/backpressure.py between the     *)
(* read pump, its only producer, and the consumers of messages().          *)
(*                                                                         *)
(* asyncio.Queue is external: `queue' is its content, `blocked' the item   *)
(* of the put that waits for room, and a consumer in "waiting" is inside   *)
(* asyncio.Queue.get.  Items are numbered in the order they are put.       *)
(***************************************************************************)
EXTENDS Naturals, Sequences, SequencesExt, FiniteSets

CONSTANTS
    Consumer,    \* tasks that iterate over messages()
    None,        \* the shutdown sentinel, and "no item"
    MaxSize,     \* maxsize, above the floor that the constructor requires
    MaxItems     \* bound on the items put

ASSUME SizeAssumption == MaxSize \in Nat \ {0, 1} /\ MaxItems \in Nat
ASSUME NoneAssumption == None \notin Nat
ASSUME ConsumerAssumption == Consumer # {}

VARIABLES
    canPause,    \* _can_pause (chosen at construction)
    policy,      \* _policy (chosen at construction)
    queue,       \* the buffered items, and the sentinel
    dropped,     \* _dropped
    blocked,     \* the item of a put that blocks
    closed,      \* close() was called
    consumer,    \* where each consumer is
    offered,     \* history: the number of items put, or being put
    last,        \* history: the last item delivered
    delivered,   \* history: the number of items delivered,
    announced,   \* ... reported in overflow markers,
    abandoned    \* ... and given up by a teardown

setup   == <<canPause, policy>>
history == <<offered, last, delivered, announced, abandoned>>
vars    == <<setup, queue, dropped, blocked, closed, consumer, history>>

Item == 1 .. MaxItems

TypeOK ==
    /\ canPause \in BOOLEAN
    /\ policy \in {"drop_oldest", "drop_newest"}
    /\ queue \in Seq(Item \cup {None}) /\ Len(queue) <= MaxSize
    /\ dropped \in 0 .. MaxItems
    /\ blocked \in Item \cup {None}
    /\ closed \in BOOLEAN
    /\ consumer \in [Consumer -> {"calling", "waiting", "ended"}]
    /\ {offered, last, delivered, announced, abandoned} \subseteq 0 .. MaxItems

Init ==
    /\ canPause \in BOOLEAN
    /\ policy \in {"drop_oldest", "drop_newest"}
    /\ queue = <<>> /\ dropped = 0 /\ blocked = None /\ closed = FALSE
    /\ consumer = [c \in Consumer |-> "calling"]
    /\ offered = 0 /\ last = 0 /\ delivered = 0 /\ announced = 0 /\ abandoned = 0

-----------------------------------------------------------------------------
Full == Len(queue) >= MaxSize

\* is_full: a put would block.
IsFull == canPause /\ Full

\* Wrong variants, each a slip the code could contain.
OverflowUncounted(i) ==          \* evicts without counting
    /\ queue' = IF policy = "drop_oldest" THEN Append(Tail(queue), i) ELSE queue
    /\ UNCHANGED dropped
OverflowTwice(i) ==              \* counts the eviction and the arrival
    /\ queue' = IF policy = "drop_oldest" THEN Append(Tail(queue), i) ELSE queue
    /\ dropped' = dropped + 2
SentinelIfRoom ==                \* a full queue swallows the sentinel
    /\ queue' = IF Full THEN queue ELSE Append(queue, None)
    /\ UNCHANGED abandoned

\* put_nowait on a full queue that cannot pause the producer.
Overflow(i) ==
    /\ queue' = IF policy = "drop_oldest" THEN Append(Tail(queue), i) ELSE queue
    /\ dropped' = dropped + 1

Put ==
    /\ ~closed /\ blocked = None /\ offered < MaxItems
    /\ offered' = offered + 1
    /\ LET i == offered + 1 IN
       \/ /\ ~Full
          /\ queue' = Append(queue, i) /\ UNCHANGED <<dropped, blocked>>
       \/ /\ Full /\ canPause
          /\ blocked' = i /\ UNCHANGED <<queue, dropped>>
       \/ /\ Full /\ ~canPause
          /\ Overflow(i) /\ UNCHANGED blocked
    /\ UNCHANGED <<setup, closed, consumer, last, delivered, announced, abandoned>>

\* The blocked put finds room.
PutResumes ==
    /\ blocked # None /\ ~Full
    /\ queue' = Append(queue, blocked) /\ blocked' = None
    /\ UNCHANGED <<setup, dropped, closed, consumer, history>>

\* The epoch is torn down and the pump cancelled in its put.
PutCancelled ==
    /\ blocked # None
    /\ blocked' = None /\ abandoned' = abandoned + 1
    /\ UNCHANGED <<setup, queue, dropped, closed, consumer, offered, last,
                   delivered, announced>>

-----------------------------------------------------------------------------
\* get returns the pending overflow marker first.
GetOverflow(c) ==
    /\ consumer[c] = "calling" /\ dropped > 0
    /\ announced' = announced + dropped /\ dropped' = 0
    /\ UNCHANGED <<setup, queue, blocked, closed, consumer, offered, last,
                   delivered, abandoned>>

GetWaits(c) ==
    /\ consumer[c] = "calling" /\ dropped = 0 /\ queue = <<>>
    /\ consumer' = [consumer EXCEPT ![c] = "waiting"]
    /\ UNCHANGED <<setup, queue, dropped, blocked, closed, history>>

GetItem(c) ==
    /\ consumer[c] = "waiting" \/ (consumer[c] = "calling" /\ dropped = 0)
    /\ queue # <<>> /\ Head(queue) # None
    /\ queue' = Tail(queue)
    /\ last' = Head(queue) /\ delivered' = delivered + 1
    /\ consumer' = [consumer EXCEPT ![c] = "calling"]
    /\ UNCHANGED <<setup, dropped, blocked, closed, offered, announced, abandoned>>

GetSentinel(c) ==
    /\ consumer[c] = "waiting" \/ (consumer[c] = "calling" /\ dropped = 0)
    /\ queue # <<>> /\ Head(queue) = None
    /\ queue' = Tail(queue)
    /\ consumer' = [consumer EXCEPT ![c] = "ended"]
    /\ UNCHANGED <<setup, dropped, blocked, closed, history>>

Get(c) == GetOverflow(c) \/ GetWaits(c) \/ GetItem(c) \/ GetSentinel(c)

\* The sentinel always lands: a full queue gives up its oldest item.
Sentinel ==
    /\ queue' = Append(IF Full THEN Tail(queue) ELSE queue, None)
    /\ abandoned' = IF Full THEN abandoned + 1 ELSE abandoned

\* client.close() has awaited the supervisor: no put is blocked any more.
Close ==
    /\ ~closed /\ blocked = None
    /\ closed' = TRUE
    /\ Sentinel
    /\ UNCHANGED <<setup, dropped, blocked, consumer, offered, last, delivered, announced>>

Next ==
    \/ Put \/ PutResumes \/ PutCancelled
    \/ \E c \in Consumer : Get(c)
    \/ Close

\* A consumer keeps iterating, a put that finds room resumes.
Spec ==
    /\ Init /\ [][Next]_vars
    /\ \A c \in Consumer : WF_vars(Get(c))
    /\ WF_vars(PutResumes)

-----------------------------------------------------------------------------
(* Properties.                                                             *)

\* What the queue holds for the consumers: all but the sentinel.
Items == ToSet(queue) \ {None}

\* Never a silent drop: every item put was delivered, is buffered or being
\* put, was reported in an overflow marker or is about to be, except those
\* a teardown gave up: at most the blocked put's of each epoch, and one
\* evicted by close (backpressure.py:14-16 and close).
EveryItemAccountedFor ==
    offered = delivered + announced + dropped + abandoned
              + Cardinality(Items) + Cardinality({blocked} \ {None})

\* messages() ends when the client closes (client.py:367), for every
\* consumer that iterates over it.  With two, it does not (README, Deviations).
EveryConsumerEnds == closed ~> \A c \in Consumer : consumer[c] = "ended"

\* The queue implements the abstract feed.
Feed == INSTANCE MessageFeed WITH
    backlog <- Items \cup ({blocked} \ {None}),
    missed  <- dropped,
    ended   <- \A c \in Consumer : consumer[c] = "ended"

FeedSpec == Feed!Spec
=============================================================================
