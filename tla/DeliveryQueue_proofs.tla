------------------------- MODULE DeliveryQueue_proofs -------------------------
(***************************************************************************)
(* Proofs about the delivery queue, for any consumers, any size above one  *)
(* and any number of items, pausable or not, under either policy: no item  *)
(* is unaccounted for, and every step is one the abstract feed allows.     *)
(***************************************************************************)
EXTENDS DeliveryQueue, TLAPS, FiniteSetTheorems

USE SizeAssumption, NoneAssumption, ConsumerAssumption

-----------------------------------------------------------------------------
(* The inductive invariant.                                                *)

Types ==
    /\ canPause \in BOOLEAN /\ closed \in BOOLEAN
    /\ policy \in {"drop_oldest", "drop_newest"}
    /\ queue \in Seq(Nat \cup {None}) /\ Len(queue) <= MaxSize
    /\ blocked \in Nat \cup {None}
    /\ consumer \in [Consumer -> {"calling", "waiting", "ended"}]
    /\ {dropped, offered, last, delivered, announced, abandoned} \subseteq Nat
    /\ offered <= MaxItems

\* The items are in order, each once, and the sentinel only comes last.
Ordered(q) ==
    \A m, n \in 1 .. Len(q) :
        m < n => q[m] # None /\ (q[n] # None => q[m] < q[n])

\* They are of those offered so far, the last of which may be blocked.
Offered ==
    /\ \A n \in 1 .. Len(queue) :
          queue[n] # None => /\ 1 <= queue[n] /\ queue[n] <= offered
                             /\ blocked # None => queue[n] < blocked
    /\ blocked # None => blocked = offered /\ 1 <= offered /\ canPause /\ ~closed
    /\ canPause => dropped = 0

\* The sentinel comes once, after all items, and ends one consumer.
Closing ==
    /\ ~closed => \A n \in 1 .. Len(queue) : queue[n] # None
    /\ \A c \in Consumer : consumer[c] = "ended" => closed /\ queue = <<>>
    /\ \A c, d \in Consumer : consumer[c] = "ended" /\ consumer[d] = "ended" => c = d

\* If drops are pending while all consumers wait, the queue holds an item:
\* whoever takes it gets the marker at the next call.
MarkerComes ==
    dropped > 0 /\ (\A c \in Consumer : consumer[c] = "waiting") =>
        queue # <<>> /\ queue[1] # None

QueueInv ==
    /\ Types /\ Ordered(queue) /\ Offered /\ Closing /\ MarkerComes
    /\ last <= offered /\ EveryItemAccountedFor

-----------------------------------------------------------------------------
(* What the operations of the queue do to its content.                     *)

\* What Append and Tail do, element by element.
LEMMA Appended ==
    ASSUME NEW S, NEW q \in Seq(S), NEW i \in S
    PROVE  /\ Append(q, i) \in Seq(S) /\ Len(Append(q, i)) = Len(q) + 1 /\ Len(q) \in Nat
           /\ Append(q, i)[Len(q) + 1] = i
           /\ \A n \in 1 .. Len(q) : Append(q, i)[n] = q[n]
OBVIOUS

LEMMA Taken ==
    ASSUME NEW S, NEW q \in Seq(S), q # <<>>
    PROVE  /\ Tail(q) \in Seq(S) /\ Len(Tail(q)) = Len(q) - 1 /\ Len(q) \in Nat \ {0}
           /\ Head(q) = q[1] /\ Head(q) \in S
           /\ \A n \in 1 .. Len(q) - 1 : Tail(q)[n] = q[n + 1]
OBVIOUS

\* The items in a queue.
Content(q) == ToSet(q) \ {None}

LEMMA ContentIs ==
    ASSUME NEW S, NEW q \in Seq(S), NEW i
    PROVE  i \in Content(q) <=> i # None /\ \E n \in 1 .. Len(q) : q[n] = i
BY DEF Content, ToSet

\* An item or the sentinel enters at the end.
LEMMA ContentAppended ==
    ASSUME NEW q \in Seq(Nat \cup {None}), NEW i \in Nat \cup {None}
    PROVE  Content(Append(q, i)) = Content(q) \cup ({i} \ {None})
<1>1. Append(q, i) \in Seq(Nat \cup {None})
  OBVIOUS
<1>2. ASSUME NEW j
      PROVE  j \in Content(Append(q, i)) <=> j \in Content(q) \/ (j = i /\ i # None)
  <2>1. (\E n \in 1 .. Len(Append(q, i)) : Append(q, i)[n] = j)
            <=> (\E n \in 1 .. Len(q) : q[n] = j) \/ j = i
    BY Appended
  <2> QED
    BY <1>1, <2>1, ContentIs
<1> QED
  BY <1>2

\* The first one leaves; it is in the queue no more.
LEMMA ContentTaken ==
    ASSUME NEW q \in Seq(Nat \cup {None}), q # <<>>, Ordered(q)
    PROVE  Content(Tail(q)) = Content(q) \ {Head(q)}
<1>1. Tail(q) \in Seq(Nat \cup {None})
  OBVIOUS
<1>2. ASSUME NEW j
      PROVE  j \in Content(Tail(q)) <=> j \in Content(q) /\ j # Head(q)
  <2>1. ASSUME j # None, NEW n \in 1 .. Len(Tail(q)), Tail(q)[n] = j
        PROVE  (\E m \in 1 .. Len(q) : q[m] = j) /\ j # Head(q)
    <3>1. n + 1 \in 1 .. Len(q) /\ q[n + 1] = j /\ Head(q) = q[1] /\ 1 \in 1 .. Len(q)
      BY <2>1, Taken
    <3>2. q[1] < q[n + 1] /\ q[1] \in Nat
      BY <2>1, <3>1 DEF Ordered
    <3> QED
      BY <3>1, <3>2
  <2>2. ASSUME NEW m \in 1 .. Len(q), q[m] = j, j # Head(q)
        PROVE  \E n \in 1 .. Len(Tail(q)) : Tail(q)[n] = j
    <3>1. m # 1 /\ m - 1 \in 1 .. Len(Tail(q)) /\ Tail(q)[m - 1] = q[m]
      BY <2>2, Taken
    <3> QED
      BY <2>2, <3>1
  <2> QED
    BY <1>1, <2>1, <2>2, ContentIs
<1> QED
  BY <1>2

\* Taking from the queue keeps it in order.
LEMMA OrderedTaken ==
    ASSUME NEW q \in Seq(Nat \cup {None}), q # <<>>, Ordered(q)
    PROVE  Ordered(Tail(q))
BY Taken DEF Ordered

\* So does appending what is above all items, or the sentinel, to a queue
\* without a sentinel.
LEMMA OrderedAppended ==
    ASSUME NEW q \in Seq(Nat \cup {None}), Ordered(q), NEW i \in Nat \cup {None},
           \A n \in 1 .. Len(q) : q[n] # None /\ (i # None => q[n] < i)
    PROVE  Ordered(Append(q, i))
<1> SUFFICES ASSUME NEW m \in 1 .. Len(q) + 1, NEW n \in 1 .. Len(q) + 1, m < n
             PROVE  LET p == Append(q, i) IN p[m] # None /\ (p[n] # None => p[m] < p[n])
  BY Appended DEF Ordered
<1>1. m \in 1 .. Len(q) /\ Append(q, i)[m] = q[m]
  BY Appended
<1>2. CASE n = Len(q) + 1
  BY <1>1, <1>2, Appended
<1>3. CASE n # Len(q) + 1
  BY <1>1, <1>3, Appended DEF Ordered
<1> QED
  BY <1>2, <1>3

\* The items of the queue are finitely many.
LEMMA ItemsFinite ==
    ASSUME Types, Offered
    PROVE  IsFiniteSet(Items) /\ Cardinality(Items) \in Nat /\ Items \subseteq 1 .. offered
<1>1. queue \in Seq(Nat \cup {None}) /\ offered \in Nat
  BY DEF Types
<1>2. \A i \in Items : i \in 1 .. offered
  <2> SUFFICES ASSUME NEW i \in Items PROVE i \in 1 .. offered
    OBVIOUS
  <2>1. PICK n \in 1 .. Len(queue) : queue[n] = i /\ i # None
    BY <1>1, ContentIs DEF Items, Content
  <2> QED
    BY <1>1, <2>1 DEF Offered
<1>3. IsFiniteSet(1 .. offered)
  BY <1>1, FS_Interval
<1> QED
  BY <1>2, <1>3, FS_Subset, FS_CardinalityType

\* The item of a blocked put counts as one.
LEMMA BlockedCounts ==
    Cardinality({blocked} \ {None}) = IF blocked = None THEN 0 ELSE 1
<1>1. CASE blocked = None
  <2>1. {blocked} \ {None} = {}
    BY <1>1
  <2> QED
    BY <1>1, <2>1, FS_EmptySet
<1>2. CASE blocked # None
  <2>1. {blocked} \ {None} = {blocked}
    BY <1>2
  <2> QED
    BY <1>2, <2>1, FS_Singleton
<1> QED
  BY <1>1, <1>2

-----------------------------------------------------------------------------
(* What the steps do to the items in the queue.                            *)

\* A new item enters.
LEMMA ItemEnters ==
    ASSUME QueueInv, NEW i \in Nat, i \notin Items, i # None, queue' = Append(queue, i)
    PROVE  Items' = Items \cup {i} /\ Cardinality(Items') = Cardinality(Items) + 1
<1>1. queue \in Seq(Nat \cup {None})
  BY DEF QueueInv, Types
<1>2. Items' = Items \cup {i}
  BY <1>1, ContentAppended DEF Items, Content
<1>3. IsFiniteSet(Items)
  BY ItemsFinite DEF QueueInv
<1> QED
  BY <1>2, <1>3, FS_AddElement

\* The first item leaves: it is the least.
LEMMA ItemLeaves ==
    ASSUME QueueInv, queue # <<>>, queue[1] # None
    PROVE  /\ Content(Tail(queue)) = Items \ {queue[1]} /\ queue[1] \in Items
           /\ Cardinality(Content(Tail(queue))) = Cardinality(Items) - 1
           /\ \A j \in Items : queue[1] <= j
           /\ Head(queue) = queue[1]
<1>1. /\ queue \in Seq(Nat \cup {None}) /\ Ordered(queue) /\ 1 \in 1 .. Len(queue)
      /\ queue[1] \in Nat
  BY Taken DEF QueueInv, Types
<1>2. Content(Tail(queue)) = Items \ {queue[1]} /\ Head(queue) = queue[1]
  BY <1>1, ContentTaken DEF Items, Content
<1>3. queue[1] \in Items
  BY <1>1, ContentIs DEF Items, Content
<1>4. ASSUME NEW j \in Items PROVE queue[1] <= j
  <2>1. PICK n \in 1 .. Len(queue) : queue[n] = j /\ j # None
    BY <1>1, ContentIs DEF Items, Content
  <2>2. n = 1 \/ 1 < n
    BY <2>1
  <2> QED
    BY <1>1, <2>1, <2>2 DEF Ordered
<1>5. IsFiniteSet(Items)
  BY ItemsFinite DEF QueueInv
<1> QED
  BY <1>2, <1>3, <1>4, <1>5, FS_RemoveElement

\* The first item makes room for a new one.
LEMMA ItemReplaced ==
    ASSUME QueueInv, queue # <<>>, queue[1] # None, NEW i \in Nat, i \notin Items, i # None,
           queue' = Append(Tail(queue), i)
    PROVE  /\ Items' = (Items \ {queue[1]}) \cup {i}
           /\ Cardinality(Items') = Cardinality(Items)
<1>1. Tail(queue) \in Seq(Nat \cup {None})
  BY DEF QueueInv, Types
<1>2. Items' = (Items \ {queue[1]}) \cup {i}
  <2>1. Content(Append(Tail(queue), i)) = Content(Tail(queue)) \cup ({i} \ {None})
    BY <1>1, ContentAppended
  <2>2. Items' = Content(queue')
    BY DEF Items, Content
  <2> QED
    BY <2>1, <2>2, ItemLeaves
<1>3. IsFiniteSet(Items) /\ queue[1] \in Items /\ Cardinality(Items) \in Nat
  BY ItemsFinite, ItemLeaves DEF QueueInv
<1>4. /\ IsFiniteSet(Items \ {queue[1]})
      /\ Cardinality(Items \ {queue[1]}) = Cardinality(Items) - 1
  BY <1>3, FS_RemoveElement
<1>5. Cardinality((Items \ {queue[1]}) \cup {i}) = Cardinality(Items \ {queue[1]}) + 1
  BY <1>4, FS_AddElement
<1> QED
  BY <1>2, <1>3, <1>4, <1>5

\* What the close puts in the queue: the sentinel, for the first item if full.
LEMMA SentinelEnters ==
    ASSUME QueueInv, Close
    PROVE  /\ queue' = Append(IF Full THEN Tail(queue) ELSE queue, None)
           /\ Full => queue # <<>> /\ queue[1] # None
           /\ Items' = IF Full THEN Items \ {queue[1]} ELSE Items
           /\ Cardinality(Items') = IF Full THEN Cardinality(Items) - 1
                                            ELSE Cardinality(Items)
<1>1. queue' = Append(IF Full THEN Tail(queue) ELSE queue, None)
  BY DEF Close, Sentinel
<1>2. /\ queue \in Seq(Nat \cup {None})
      /\ queue # <<>> => Tail(queue) \in Seq(Nat \cup {None})
      /\ Items = Content(queue) /\ Items' = Content(queue')
  BY DEF QueueInv, Types, Items, Content
<1>3. Full => queue # <<>> /\ queue[1] # None
  <2> SUFFICES ASSUME Full PROVE queue # <<>> /\ queue[1] # None
    OBVIOUS
  <2>1. 1 \in 1 .. Len(queue)
    BY <1>2 DEF Full
  <2> QED
    BY <1>2, <2>1 DEF Close, QueueInv, Closing
<1>4. CASE Full
  <2>1. queue' = Append(Tail(queue), None)
    BY <1>1, <1>4
  <2>2. Content(queue') = Content(Tail(queue)) \cup ({None} \ {None})
    BY <1>2, <1>3, <1>4, <2>1, ContentAppended
  <2>3. Items' = Items \ {queue[1]} /\ Items' = Content(Tail(queue))
    BY <1>2, <1>3, <1>4, <2>2, ItemLeaves
  <2> QED
    BY <1>1, <1>3, <1>4, <2>3, ItemLeaves
<1>5. CASE ~Full
  <2>1. queue' = Append(queue, None)
    BY <1>1, <1>5
  <2>2. Content(queue') = Content(queue) \cup ({None} \ {None})
    BY <1>2, <2>1, ContentAppended
  <2>3. Items' = Items
    BY <1>2, <2>2
  <2> QED
    BY <1>1, <1>3, <1>5, <2>3
<1> QED
  BY <1>1, <1>3, <1>4, <1>5

\* The item that is put is new.
LEMMA PutIsNew ==
    ASSUME QueueInv, Put
    PROVE  /\ offered + 1 \in Nat /\ offered + 1 # None /\ offered + 1 \notin Items
           /\ Full => queue # <<>> /\ queue[1] # None
<1>1. /\ queue \in Seq(Nat \cup {None}) /\ offered \in Nat
      /\ \A n \in 1 .. Len(queue) : queue[n] # None
  BY DEF QueueInv, Types, Closing, Put
<1>2. Full => 1 \in 1 .. Len(queue)
  BY <1>1 DEF Full
<1>3. Items \subseteq 1 .. offered
  BY ItemsFinite DEF QueueInv
<1> QED
  BY <1>1, <1>2, <1>3

-----------------------------------------------------------------------------
(* Every step keeps the invariant.                                         *)

LEMMA QueueInitInv == Init => QueueInv
<1> SUFFICES ASSUME Init PROVE QueueInv
  OBVIOUS
<1>1. /\ queue = <<>> /\ <<>> \in Seq(Nat \cup {None}) /\ Len(<<>>) = 0
      /\ 1 .. 0 = {}
  BY DEF Init
<1>2. Types
  <2>1. consumer \in [Consumer -> {"calling", "waiting", "ended"}]
    BY DEF Init
  <2>2. 0 \in Nat /\ 0 <= MaxSize /\ 0 <= MaxItems
    OBVIOUS
  <2> QED
    BY <1>1, <2>1, <2>2 DEF Init, Types
<1>3. Ordered(queue) /\ Offered /\ Closing /\ MarkerComes
  BY <1>1 DEF Init, Ordered, Offered, Closing, MarkerComes
<1>4. last <= offered
  BY DEF Init
<1>5. EveryItemAccountedFor
  <2>1. Items = {} /\ {blocked} \ {None} = {}
    BY <1>1 DEF Init, Items, ToSet
  <2> QED
    BY <2>1, FS_EmptySet DEF Init, EveryItemAccountedFor
<1> QED
  BY <1>2, <1>3, <1>4, <1>5 DEF QueueInv

\* The types.
LEMMA TypesStep == QueueInv /\ [Next]_vars => Types'
<1> SUFFICES ASSUME QueueInv, [Next]_vars PROVE Types'
  OBVIOUS
<1>0. Types /\ Len(queue) \in Nat /\ MaxSize \in Nat \ {0}
  BY DEF QueueInv, Types
<1> USE DEF Types
<1>1. \A i \in Nat \cup {None} :
          /\ Append(queue, i) \in Seq(Nat \cup {None})
          /\ Len(Append(queue, i)) = Len(queue) + 1
  BY <1>0
<1>2. queue # <<>> =>
        /\ Tail(queue) \in Seq(Nat \cup {None}) /\ Len(Tail(queue)) = Len(queue) - 1
        /\ Head(queue) \in Nat \cup {None}
        /\ \A i \in Nat \cup {None} :
              /\ Append(Tail(queue), i) \in Seq(Nat \cup {None})
              /\ Len(Append(Tail(queue), i)) = Len(queue)
  BY <1>0
<1>3. Full => queue # <<>>
  BY <1>0 DEF Full
<1>4. CASE Put
  <2>1. offered + 1 \in Nat /\ offered + 1 <= MaxItems /\ dropped + 1 \in Nat
    BY <1>0, <1>4 DEF Put
  <2>2. queue' \in Seq(Nat \cup {None}) /\ Len(queue') <= MaxSize
    <3>1. CASE ~Full /\ queue' = Append(queue, offered + 1)
      BY <1>0, <1>1, <2>1, <3>1 DEF Full
    <3>2. CASE Full /\ queue' = Append(Tail(queue), offered + 1)
      BY <1>0, <1>2, <1>3, <2>1, <3>2
    <3>3. CASE queue' = queue
      BY <1>0, <3>3
    <3> QED
      BY <1>4, <3>1, <3>2, <3>3 DEF Put, Overflow
  <2> QED
    BY <1>0, <1>4, <2>1, <2>2 DEF Put, Overflow, setup
<1>5. CASE PutResumes
  <2>1. queue' \in Seq(Nat \cup {None}) /\ Len(queue') <= MaxSize
    BY <1>0, <1>1, <1>5 DEF PutResumes, Full
  <2> QED
    BY <1>0, <1>5, <2>1 DEF PutResumes, setup, history
<1>6. CASE PutCancelled
  BY <1>0, <1>6 DEF PutCancelled, setup
<1>7. ASSUME NEW c \in Consumer, Get(c)
      PROVE  Types'
  <2>1. CASE GetOverflow(c)
    BY <1>0, <2>1 DEF GetOverflow, setup
  <2>2. CASE GetWaits(c)
    BY <1>0, <2>2 DEF GetWaits, setup, history
  <2>3. CASE GetItem(c)
    <3>1. queue' \in Seq(Nat \cup {None}) /\ Len(queue') <= MaxSize /\ last' \in Nat
      BY <1>0, <1>2, <2>3 DEF GetItem
    <3> QED
      BY <1>0, <2>3, <3>1 DEF GetItem, setup
  <2>4. CASE GetSentinel(c)
    <3>1. queue' \in Seq(Nat \cup {None}) /\ Len(queue') <= MaxSize
      BY <1>0, <1>2, <2>4 DEF GetSentinel
    <3> QED
      BY <1>0, <2>4, <3>1 DEF GetSentinel, setup, history
  <2> QED
    BY <1>7, <2>1, <2>2, <2>3, <2>4 DEF Get
<1>8. CASE Close
  <2>1. queue' \in Seq(Nat \cup {None}) /\ Len(queue') <= MaxSize
    BY <1>0, <1>1, <1>2, <1>3, <1>8 DEF Close, Sentinel, Full
  <2> QED
    BY <1>0, <1>8, <2>1 DEF Close, Sentinel, setup
<1>9. CASE UNCHANGED vars
  BY <1>0, <1>9 DEF vars, setup, history
<1> QED
  BY <1>4, <1>5, <1>6, <1>7, <1>8, <1>9 DEF Next

\* The order, what was offered, and the end.
LEMMA OrderStep == QueueInv /\ [Next]_vars => Ordered(queue)' /\ Offered' /\ Closing'
<1> SUFFICES ASSUME QueueInv, [Next]_vars PROVE Ordered(queue') /\ Offered' /\ Closing'
  BY DEF Ordered
<1>0. /\ queue \in Seq(Nat \cup {None}) /\ Len(queue) \in Nat /\ offered \in Nat
      /\ consumer \in [Consumer -> {"calling", "waiting", "ended"}]
      /\ blocked \in Nat \cup {None} /\ None \in Nat \cup {None}
      /\ \A n \in 1 .. Len(queue) : queue[n] \in Nat \cup {None}
      /\ Ordered(queue) /\ Offered /\ Closing
  BY DEF QueueInv, Types
<1> DEFINE Gone(q) == \A n \in 1 .. Len(q) : q[n] # None
           Within(q, i) == \A n \in 1 .. Len(q) : q[n] # None => 1 <= q[n] /\ q[n] <= i
\* What entering and leaving do to it.
<1>1. ASSUME NEW q \in Seq(Nat \cup {None}), Ordered(q), NEW i \in Nat \cup {None},
             Gone(q), i # None => \A n \in 1 .. Len(q) : q[n] < i
      PROVE  Ordered(Append(q, i))
  BY <1>1, OrderedAppended
<1>2. queue # <<>> =>
        /\ Tail(queue) \in Seq(Nat \cup {None}) /\ Ordered(Tail(queue))
        /\ \A n \in 1 .. Len(Tail(queue)) :
              n + 1 \in 1 .. Len(queue) /\ Tail(queue)[n] = queue[n + 1]
  BY <1>0, OrderedTaken, Taken
<1>3. \A q \in Seq(Nat \cup {None}), i \in Nat \cup {None} :
        /\ Append(q, i)[Len(q) + 1] = i
        /\ \A n \in 1 .. Len(Append(q, i)) :
              n = Len(q) + 1 \/ (n \in 1 .. Len(q) /\ Append(q, i)[n] = q[n])
  BY Appended
<1> HIDE DEF Gone, Within
<1>4. CASE Put
  <2>1. /\ ~closed /\ ~closed' /\ blocked = None /\ offered' = offered + 1
        /\ consumer' = consumer /\ \A c \in Consumer : consumer[c] # "ended"
        /\ Gone(queue) /\ \A n \in 1 .. Len(queue) : 1 <= queue[n] /\ queue[n] <= offered
    BY <1>0, <1>4 DEF Put, Offered, Closing, Gone
  <2>2. offered + 1 \in Nat \cup {None} /\ Full => queue # <<>>
    BY <1>4, PutIsNew
  <2>3. CASE ~Full /\ queue' = Append(queue, offered + 1) /\ UNCHANGED <<dropped, blocked>>
    <3>1. Ordered(queue')
      <4>1. offered + 1 \in Nat /\ \A n \in 1 .. Len(queue) : queue[n] < offered + 1
        BY <1>0, <2>1
      <4> QED
        BY <1>0, <1>1, <2>1, <2>3, <4>1
    <3>2. Offered' /\ Closing'
      BY <1>0, <1>3, <2>1, <2>3, <1>4 DEF Offered, Closing, Put, setup, Gone
    <3> QED
      BY <3>1, <3>2
  <2>4. CASE Full /\ canPause /\ blocked' = offered + 1 /\ UNCHANGED <<queue, dropped>>
    BY <1>0, <1>4, <2>1, <2>4 DEF Offered, Closing, Put, setup, Gone
  <2>5. CASE Full /\ ~canPause /\ blocked' = blocked /\ queue' = queue
    BY <1>0, <1>4, <2>1, <2>5 DEF Offered, Closing, Put, setup, Gone
  <2>6. CASE /\ Full /\ ~canPause /\ blocked' = blocked
             /\ queue' = Append(Tail(queue), offered + 1)
    <3>1. /\ Tail(queue) \in Seq(Nat \cup {None}) /\ Ordered(Tail(queue))
          /\ Gone(Tail(queue))
          /\ \A n \in 1 .. Len(Tail(queue)) : 1 <= Tail(queue)[n] /\ Tail(queue)[n] <= offered
      BY <1>2, <1>4, <2>1, <2>6, PutIsNew DEF Gone
    <3>2. \A n \in 1 .. Len(Tail(queue)) :
             Tail(queue)[n] \in Nat /\ Tail(queue)[n] < offered + 1
      BY <1>0, <3>1 DEF Gone
    <3>3. Ordered(queue')
      <4>1. offered + 1 \in Nat \cup {None}
        BY <1>0
      <4>2. \A n \in 1 .. Len(Tail(queue)) :
               Tail(queue)[n] # None /\ Tail(queue)[n] < offered + 1
        BY <3>1, <3>2 DEF Gone
      <4> QED
        BY <2>6, <3>1, <4>1, <4>2, OrderedAppended
    <3>4. Offered' /\ Closing'
      BY <1>0, <1>3, <1>4, <2>1, <2>6, <3>1 DEF Offered, Closing, Put, setup, Gone
    <3> QED
      BY <3>3, <3>4
  <2> QED
    BY <1>4, <2>3, <2>4, <2>5, <2>6 DEF Put, Overflow
<1>5. CASE PutResumes
  <2>1. /\ blocked \in Nat /\ blocked = offered /\ 1 <= offered /\ canPause /\ ~closed
        /\ Gone(queue) /\ \A n \in 1 .. Len(queue) : 1 <= queue[n] /\ queue[n] < blocked
    BY <1>0, <1>5 DEF PutResumes, Offered, Closing, Gone
  <2>2. queue' = Append(queue, blocked) /\ blocked' = None
        /\ UNCHANGED <<canPause, dropped, closed, consumer, offered>>
    BY <1>5 DEF PutResumes, setup, history
  <2>3. Ordered(queue')
    BY <1>0, <1>1, <2>1, <2>2
  <2>4. Offered'
    BY <1>0, <1>3, <2>1, <2>2 DEF Offered, Gone
  <2>5. Closing'
    BY <1>0, <1>3, <2>1, <2>2 DEF Closing, Gone
  <2> QED
    BY <2>3, <2>4, <2>5
<1>6. CASE PutCancelled
  BY <1>0, <1>6 DEF PutCancelled, Offered, Closing, setup
<1>7. ASSUME NEW c \in Consumer, Get(c)
      PROVE  Ordered(queue') /\ Offered' /\ Closing'
  <2>1. CASE GetOverflow(c)
    BY <1>0, <2>1 DEF GetOverflow, Offered, Closing, setup
  <2>2. CASE GetWaits(c)
    BY <1>0, <2>2 DEF GetWaits, Offered, Closing, setup, history
  <2>3. CASE GetItem(c) \/ GetSentinel(c)
    <3>1. /\ queue # <<>> /\ queue' = Tail(queue)
          /\ UNCHANGED <<canPause, dropped, blocked, closed, offered>>
          /\ \A d \in Consumer : consumer[d] # "ended"
          /\ \A d \in Consumer \ {c} : consumer'[d] = consumer[d]
      BY <1>0, <2>3 DEF GetItem, GetSentinel, setup, history, Closing
    <3>2. Ordered(queue')
      BY <1>2, <3>1
    <3>3. Offered'
      BY <1>0, <1>2, <3>1 DEF Offered
    <3>4. ~closed' => \A n \in 1 .. Len(queue') : queue'[n] # None
      BY <1>0, <1>2, <3>1 DEF Closing
    <3>5. CASE GetItem(c)
      BY <1>0, <3>1, <3>2, <3>3, <3>4, <3>5 DEF GetItem, Closing
    <3>6. CASE GetSentinel(c)
      <4>1. queue[1] = None /\ 1 \in 1 .. Len(queue)
        BY <1>0, <3>6, Taken DEF GetSentinel
      <4>2. closed /\ Len(queue) = 1
        <5>1. ASSUME 1 < Len(queue) PROVE FALSE
          <6>1. Len(queue) \in 1 .. Len(queue)
            BY <1>0, <4>1
          <6> QED
            BY <1>0, <4>1, <5>1, <6>1 DEF Ordered
        <5>2. closed
          BY <1>0, <4>1 DEF Closing
        <5>3. Len(queue) = 1
          <6>1. PICK n \in Nat : n = Len(queue)
            BY <1>0
          <6>2. 1 <= n /\ ~(1 < n)
            BY <4>1, <5>1, <6>1
          <6>3. n = 1
            BY <6>2
          <6> QED
            BY <6>1, <6>3
        <5> QED
          BY <5>2, <5>3
      <4>3. queue' = <<>>
        BY <1>0, <3>1, <4>2
      <4> QED
        BY <1>0, <3>1, <3>2, <3>3, <3>4, <4>2, <4>3 DEF Closing
    <3> QED
      BY <2>3, <3>5, <3>6
  <2> QED
    BY <1>7, <2>1, <2>2, <2>3 DEF Get
<1>8. CASE Close
  <2>1. /\ ~closed /\ closed' /\ blocked = None /\ Gone(queue)
        /\ UNCHANGED <<canPause, dropped, blocked, consumer, offered>>
        /\ \A c \in Consumer : consumer[c] # "ended"
    BY <1>0, <1>8 DEF Close, Closing, Gone, setup
  <2>2. PICK q \in Seq(Nat \cup {None}) :
           /\ q = IF Full THEN Tail(queue) ELSE queue
           /\ queue' = Append(q, None) /\ Ordered(q) /\ Gone(q)
           /\ \A n \in 1 .. Len(q) : \E m \in 1 .. Len(queue) : q[n] = queue[m]
    <3>1. CASE Full
      <4>1. queue # <<>> /\ queue' = Append(Tail(queue), None)
        BY <1>8, <3>1, SentinelEnters
      <4>2. /\ Gone(Tail(queue))
            /\ \A n \in 1 .. Len(Tail(queue)) :
                  \E m \in 1 .. Len(queue) : Tail(queue)[n] = queue[m]
        BY <1>2, <2>1, <4>1 DEF Gone
      <4> QED
        BY <1>2, <3>1, <4>1, <4>2
    <3>2. CASE ~Full
      BY <1>0, <1>8, <2>1, <3>2, SentinelEnters DEF Gone
    <3> QED
      BY <3>1, <3>2
  <2>3. Ordered(queue')
    BY <1>0, <1>1, <2>2
  <2>4. Offered' /\ Closing'
    BY <1>0, <1>3, <2>1, <2>2 DEF Offered, Closing
  <2> QED
    BY <2>3, <2>4
<1>9. CASE UNCHANGED vars
  BY <1>0, <1>9 DEF vars, setup, history, Offered, Closing
<1> QED
  BY <1>4, <1>5, <1>6, <1>7, <1>8, <1>9 DEF Next

\* The marker of pending drops comes: what makes room for a new item, or for
\* the sentinel, leaves another item before it.
LEMMA MarkerStep == QueueInv /\ [Next]_vars => MarkerComes'
<1> SUFFICES ASSUME QueueInv, [Next]_vars, dropped' > 0,
                    \A c \in Consumer : consumer'[c] = "waiting"
             PROVE  queue' # <<>> /\ queue'[1] # None
  BY DEF MarkerComes
<1>0. /\ queue \in Seq(Nat \cup {None}) /\ Len(queue) \in Nat /\ offered \in Nat
      /\ consumer \in [Consumer -> {"calling", "waiting", "ended"}] /\ dropped \in Nat
      /\ MarkerComes
  BY DEF QueueInv, Types
\* A queue that keeps its first item.
<1>1. ASSUME queue # <<>>, queue[1] # None, NEW i \in Nat \cup {None},
             queue' = Append(queue, i)
      PROVE  queue' # <<>> /\ queue'[1] # None
  BY <1>0, <1>1, Appended
<1>2. CASE Put
  <2>1. UNCHANGED consumer /\ ~closed /\ offered + 1 \in Nat /\ offered + 1 # None
    BY <1>2, PutIsNew DEF Put
  <2>2. CASE ~Full /\ queue' = Append(queue, offered + 1) /\ UNCHANGED dropped
    BY <1>0, <1>1, <2>1, <2>2 DEF MarkerComes
  <2>3. CASE queue' = queue /\ UNCHANGED dropped
    BY <1>0, <2>1, <2>3 DEF MarkerComes
  <2>4. CASE Full /\ queue' = queue
    BY <1>2, <2>4, PutIsNew
  <2>5. CASE Full /\ queue' = Append(Tail(queue), offered + 1)
    <3>1. /\ queue # <<>> /\ 2 \in 1 .. Len(queue)
          /\ \A n \in 1 .. Len(queue) : queue[n] # None
      BY <1>0, <2>1, <2>5 DEF Full, QueueInv, Closing
    <3>2. Tail(queue) # <<>> /\ Tail(queue)[1] = queue[2]
      <4>1. 1 \in 1 .. Len(queue) - 1 /\ Len(Tail(queue)) # 0
        BY <1>0, <3>1, Taken
      <4>2. Tail(queue)[1] = queue[1 + 1]
        BY <1>0, <3>1, <4>1, Taken
      <4> QED
        BY <4>1, <4>2
    <3> QED
      BY <1>0, <2>1, <2>5, <3>1, <3>2, Appended
  <2> QED
    BY <1>2, <2>2, <2>3, <2>4, <2>5 DEF Put, Overflow
<1>3. CASE PutResumes
  <2>1. dropped = 0
    BY <1>3 DEF PutResumes, QueueInv, Offered
  <2> QED
    BY <1>3, <2>1 DEF PutResumes
<1>4. CASE PutCancelled
  BY <1>0, <1>4 DEF PutCancelled, MarkerComes
<1>5. ASSUME NEW c \in Consumer, Get(c)
      PROVE  queue' # <<>> /\ queue'[1] # None
  <2>1. ~GetOverflow(c) /\ ~GetWaits(c)
    BY DEF GetOverflow, GetWaits
  <2>2. ~GetItem(c) /\ ~GetSentinel(c)
    BY <1>0 DEF GetItem, GetSentinel
  <2> QED
    BY <1>5, <2>1, <2>2 DEF Get
<1>6. CASE Close
  <2>1. UNCHANGED <<consumer, dropped>>
    BY <1>6 DEF Close
  <2>2. queue # <<>> /\ queue[1] # None /\ ~closed
    BY <1>0, <1>6, <2>1 DEF MarkerComes, Close
  <2>3. CASE ~Full
    <3>1. queue' = Append(queue, None)
      BY <1>6, <2>3 DEF Close, Sentinel
    <3> QED
      BY <1>1, <2>2, <3>1
  <2>4. CASE Full
    <3>1. queue' = Append(Tail(queue), None) /\ 2 \in 1 .. Len(queue)
      BY <1>0, <1>6, <2>4 DEF Close, Sentinel, Full
    <3>2. Tail(queue) # <<>> /\ Tail(queue)[1] = queue[2] /\ queue[2] # None
      BY <1>0, <2>2, <3>1, Taken DEF QueueInv, Closing
    <3>3. Tail(queue) \in Seq(Nat \cup {None})
      BY <1>0, <2>2
    <3> QED
      BY <3>1, <3>2, <3>3, Appended
  <2> QED
    BY <2>3, <2>4
<1>7. CASE UNCHANGED vars
  BY <1>0, <1>7 DEF vars, MarkerComes
<1> QED
  BY <1>2, <1>3, <1>4, <1>5, <1>6, <1>7 DEF Next

\* Each step moves an item from one account to another.
LEMMA AccountStep == QueueInv /\ [Next]_vars => EveryItemAccountedFor'
<1> SUFFICES ASSUME QueueInv, [Next]_vars PROVE EveryItemAccountedFor'
  OBVIOUS
<1> DEFINE Held  == IF blocked = None THEN 0 ELSE 1
           Items_ == Cardinality(Items)
<1>0. /\ dropped \in Nat /\ offered \in Nat /\ delivered \in Nat /\ announced \in Nat
      /\ abandoned \in Nat /\ Items_ \in Nat /\ Held \in Nat
      /\ Cardinality({blocked} \ {None}) = Held
      /\ offered = delivered + announced + dropped + abandoned + Items_ + Held
  BY ItemsFinite, BlockedCounts DEF QueueInv, Types, EveryItemAccountedFor
<1>1. SUFFICES offered' = delivered' + announced' + dropped' + abandoned' + Items_' + Held'
  <2>1. Cardinality({blocked'} \ {None}) = Held'
    <3>1. CASE blocked' = None
      <4>1. {blocked'} \ {None} = {}
        BY <3>1
      <4> QED
        BY <3>1, <4>1, FS_EmptySet
    <3>2. CASE blocked' # None
      <4>1. {blocked'} \ {None} = {blocked'}
        BY <3>2
      <4> QED
        BY <3>2, <4>1, FS_Singleton
    <3> QED
      BY <3>1, <3>2
  <2> QED
    BY <1>1, <2>1 DEF EveryItemAccountedFor
<1>2. queue' = queue => Items_' = Items_
  BY DEF Items
<1> HIDE DEF Items_
<1>3. CASE Put
  <2> DEFINE i == offered + 1
  <2>1. /\ i \in Nat /\ i # None /\ i \notin Items
        /\ Full => queue # <<>> /\ queue[1] # None
        /\ blocked = None /\ offered' = i /\ UNCHANGED <<delivered, announced, abandoned>>
    BY <1>3, PutIsNew DEF Put
  <2>2. CASE ~Full /\ queue' = Append(queue, i) /\ UNCHANGED <<dropped, blocked>>
    <3>1. Items_' = Items_ + 1
      BY <2>1, <2>2, ItemEnters DEF Items_
    <3> QED
      BY <1>0, <2>1, <2>2, <3>1
  <2>3. CASE Full /\ canPause /\ blocked' = i /\ UNCHANGED <<queue, dropped>>
    BY <1>0, <1>2, <2>1, <2>3
  <2>4. CASE Full /\ queue' = Append(Tail(queue), i) /\ dropped' = dropped + 1
              /\ UNCHANGED blocked
    <3>1. Items_' = Items_ /\ Held' = Held
      BY <2>1, <2>4, ItemReplaced DEF Items_
    <3> HIDE DEF Held
    <3> QED
      BY <1>0, <2>1, <2>4, <3>1
  <2>5. CASE queue' = queue /\ dropped' = dropped + 1 /\ UNCHANGED blocked
    <3>1. Items_' = Items_ /\ Held' = Held
      BY <1>2, <2>5
    <3> HIDE DEF Held
    <3> QED
      BY <1>0, <2>1, <2>5, <3>1
  <2> QED
    BY <1>3, <2>2, <2>3, <2>4, <2>5 DEF Put, Overflow
<1>4. CASE PutResumes
  <2>1. blocked \in Nat /\ blocked # None /\ blocked \notin Items
    <3>1. blocked # None /\ blocked \in Nat
      BY <1>4 DEF PutResumes, QueueInv, Types
    <3>2. ASSUME blocked \in Items PROVE FALSE
      <4>1. PICK n \in 1 .. Len(queue) : queue[n] = blocked
        BY <3>2, ContentIs DEF QueueInv, Types, Items, Content
      <4> QED
        BY <3>1, <4>1 DEF QueueInv, Offered
    <3> QED
      BY <3>1, <3>2
  <2>2. Items_' = Items_ + 1
    BY <1>4, <2>1, ItemEnters DEF PutResumes, Items_
  <2>3. /\ UNCHANGED <<offered, delivered, announced, dropped, abandoned>>
        /\ Held = 1 /\ Held' = 0
    BY <1>4, <2>1 DEF PutResumes, history
  <2> QED
    BY <1>0, <2>2, <2>3
<1>5. CASE PutCancelled
  BY <1>0, <1>2, <1>5 DEF PutCancelled
<1>6. ASSUME NEW c \in Consumer, Get(c)
      PROVE  offered' = delivered' + announced' + dropped' + abandoned' + Items_' + Held'
  <2>1. CASE GetOverflow(c)
    BY <1>0, <1>2, <2>1 DEF GetOverflow
  <2>2. CASE GetWaits(c)
    BY <1>0, <1>2, <2>2 DEF GetWaits, history
  <2>3. CASE GetItem(c)
    <3>1. queue # <<>> /\ queue[1] # None /\ queue' = Tail(queue)
      BY <2>3, Taken DEF GetItem, QueueInv, Types
    <3>2. Items_' = Items_ - 1
      BY <3>1, ItemLeaves DEF Items_, Items, Content
    <3>3. /\ UNCHANGED <<offered, announced, dropped, abandoned, blocked>>
          /\ delivered' = delivered + 1 /\ Held' = Held
      BY <2>3 DEF GetItem
    <3> QED
      BY <1>0, <3>2, <3>3
  <2>4. CASE GetSentinel(c)
    <3>1. /\ queue \in Seq(Nat \cup {None}) /\ queue # <<>> /\ Ordered(queue)
          /\ queue' = Tail(queue) /\ Head(queue) = None
      BY <2>4 DEF GetSentinel, QueueInv, Types
    <3>2. Items' = Items
      <4>1. Content(queue') = Content(queue) \ {None}
        BY <3>1, ContentTaken
      <4> QED
        BY <4>1 DEF Items, Content
    <3> QED
      BY <1>0, <2>4, <3>2 DEF GetSentinel, history, Items_
  <2> QED
    BY <1>6, <2>1, <2>2, <2>3, <2>4 DEF Get
<1>7. CASE Close
  <2>1. Items_' = IF Full THEN Items_ - 1 ELSE Items_
    BY <1>7, SentinelEnters DEF Items_
  <2> QED
    BY <1>0, <1>7, <2>1 DEF Close, Sentinel
<1>8. CASE UNCHANGED vars
  BY <1>0, <1>2, <1>8 DEF vars, history
<1> QED
  BY <1>3, <1>4, <1>5, <1>6, <1>7, <1>8 DEF Next

LEMMA StepQueueInv == QueueInv /\ [Next]_vars => QueueInv'
<1> SUFFICES ASSUME QueueInv, [Next]_vars PROVE QueueInv'
  OBVIOUS
<1>1. Types'
  BY TypesStep
<1>2. Ordered(queue)' /\ Offered' /\ Closing'
  BY OrderStep
<1>3. MarkerComes'
  BY MarkerStep
<1>4. EveryItemAccountedFor'
  BY AccountStep
<1>5. last' <= offered'
  <2>1. last \in Nat /\ offered \in Nat /\ last <= offered
    BY DEF QueueInv, Types
  <2>2. CASE UNCHANGED <<last, offered>>
    BY <2>1, <2>2
  <2>3. CASE Put
    BY <2>1, <2>3 DEF Put
  <2>4. ASSUME NEW c \in Consumer, GetItem(c)
        PROVE  last' <= offered'
    <3>1. 1 \in 1 .. Len(queue) /\ last' = queue[1] /\ queue[1] # None /\ offered' = offered
      BY <2>4, Taken DEF GetItem, QueueInv, Types
    <3> QED
      BY <3>1 DEF QueueInv, Offered
  <2> QED
    BY <2>2, <2>3, <2>4
    DEF Next, PutResumes, PutCancelled, Get, GetOverflow, GetWaits, GetSentinel, Close, vars,
        history
<1> QED
  BY <1>1, <1>2, <1>3, <1>4, <1>5 DEF QueueInv

\* In every reachable state the invariant holds.
THEOREM QueueInvHolds == Spec => []QueueInv
BY QueueInitInv, StepQueueInv, PTL DEF Spec

-----------------------------------------------------------------------------
(* What the runs check.                                                    *)

\* The buffer never exceeds its size, and no counter the items put.
THEOREM TypesAreRight == Spec => []TypeOK
<1>1. QueueInv => TypeOK
  <2> SUFFICES ASSUME QueueInv PROVE TypeOK
    OBVIOUS
  <2>1. Types /\ Cardinality(Items) \in Nat /\ Items \subseteq 1 .. offered
    BY ItemsFinite DEF QueueInv
  <2>2. offered = delivered + announced + dropped + abandoned + Cardinality(Items)
                  + (IF blocked = None THEN 0 ELSE 1)
    BY BlockedCounts DEF QueueInv, EveryItemAccountedFor
  <2>3. {dropped, offered, delivered, announced, abandoned} \subseteq 0 .. MaxItems
    BY <2>1, <2>2 DEF Types
  <2>4. blocked \in Item \cup {None}
    BY <2>1 DEF Types, QueueInv, Offered, Item
  <2>6. last \in 0 .. MaxItems
    BY <2>1 DEF Types, QueueInv, Offered
  <2>5. queue \in Seq(Item \cup {None})
    <3>1. \A n \in 1 .. Len(queue) : queue[n] \in Item \cup {None}
      BY <2>1 DEF Types, QueueInv, Offered, Item
    <3> QED
      BY <2>1, <3>1 DEF Types
  <2> QED
    BY <2>1, <2>3, <2>4, <2>5, <2>6 DEF Types, TypeOK
<1> QED
  BY <1>1, QueueInvHolds, PTL

\* Every item put was delivered, is buffered, blocked, announced or counted,
\* or was given up by a teardown.
THEOREM AllAccounted == Spec => []EveryItemAccountedFor
<1>1. QueueInv => EveryItemAccountedFor
  BY DEF QueueInv
<1> QED
  BY <1>1, QueueInvHolds, PTL

-----------------------------------------------------------------------------
(* The queue implements the feed.                                          *)

\* What the feed calls the backlog.
Backlog == Items \cup ({blocked} \ {None})
Ended   == \A c \in Consumer : consumer[c] = "ended"

LEMMA FeedInit == Init => Feed!Init
<1> SUFFICES ASSUME Init PROVE Feed!Init
  OBVIOUS
<1>1. Items = {} /\ {blocked} \ {None} = {}
  BY DEF Init, Items, ToSet
<1>2. PICK c \in Consumer : consumer[c] # "ended"
  BY DEF Init
<1> QED
  BY <1>1, <1>2 DEF Init, Feed!Init

\* A blocked item is the last one offered, and in no queue.
LEMMA BlockedIsLast ==
    ASSUME QueueInv
    PROVE  /\ Backlog \subseteq 1 .. offered /\ offered \in Nat
           /\ blocked # None => blocked = offered /\ blocked \notin Items /\ ~closed
           /\ closed => Backlog = Items
<1>1. Types /\ Offered /\ Items \subseteq 1 .. offered
  BY ItemsFinite DEF QueueInv
<1>2. blocked # None => blocked \notin Items
  <2> SUFFICES ASSUME blocked # None, blocked \in Items PROVE FALSE
    OBVIOUS
  <2>1. PICK n \in 1 .. Len(queue) : queue[n] = blocked
    BY <1>1, ContentIs DEF Types, Items, Content
  <2> QED
    BY <1>1, <2>1 DEF Types, Offered
<1>3. offered \in Nat /\ (blocked # None => blocked = offered /\ 1 <= offered /\ ~closed)
  BY <1>1 DEF Types, Offered
<1>4. CASE blocked = None
  <2>1. Backlog = Items
    BY <1>4 DEF Backlog
  <2> QED
    BY <1>1, <1>3, <1>4, <2>1
<1>5. CASE blocked # None
  <2>1. offered \in 1 .. offered
    BY <1>3, <1>5
  <2>2. Backlog \subseteq 1 .. offered
    BY <1>1, <1>3, <1>5, <2>1 DEF Backlog
  <2> QED
    BY <1>2, <1>3, <1>5, <2>2
<1> QED
  BY <1>4, <1>5

\* The first item of the queue is the first of the backlog.
LEMMA FirstOfBacklog ==
    ASSUME QueueInv, queue # <<>>, queue[1] # None
    PROVE  queue[1] \in Backlog /\ \A j \in Backlog : queue[1] <= j
<1>1. queue[1] \in Items /\ \A j \in Items : queue[1] <= j
  BY ItemLeaves
<1>2. blocked # None => queue[1] <= blocked
  BY <1>1, BlockedIsLast DEF Backlog
<1> QED
  BY <1>1, <1>2 DEF Backlog

\* Every step of the queue is one of the feed, or changes nothing of it.
LEMMA FeedStep == QueueInv /\ [Next]_vars => [Feed!Next]_(Feed!vars)
<1> SUFFICES ASSUME QueueInv, [Next]_vars PROVE Feed!Next \/ UNCHANGED Feed!vars
  OBVIOUS
<1>0. /\ offered \in Nat /\ None \notin Nat /\ Items \subseteq 1 .. offered
      /\ queue \in Seq(Nat \cup {None})
      /\ Backlog = Items \cup ({blocked} \ {None})
      /\ Backlog' = Items' \cup ({blocked'} \ {None})
  BY ItemsFinite DEF QueueInv, Types, Backlog
<1>1. CASE Put
  <2> DEFINE i == offered + 1
  <2>1. /\ i \in Nat /\ i # None /\ i \notin Items
        /\ Full => queue # <<>> /\ queue[1] # None
        /\ blocked = None /\ offered' = i /\ ~closed /\ UNCHANGED <<closed, consumer>>
    BY <1>1, PutIsNew DEF Put
  <2>2. SUFFICES \/ Backlog' = Backlog \cup {i} /\ dropped' = dropped
                 \/ \E j \in Backlog \cup {i} :
                       Backlog' = (Backlog \cup {i}) \ {j} /\ dropped' = dropped + 1
    BY <2>1, <2>2 DEF Feed!Next, Feed!Offer, Backlog
  <2>3. Backlog = Items
    BY <1>0, <2>1
  <2>4. CASE ~Full /\ queue' = Append(queue, i) /\ UNCHANGED <<dropped, blocked>>
    <3>1. Items' = Items \cup {i}
      BY <2>1, <2>4, ItemEnters
    <3> QED
      BY <1>0, <2>1, <2>3, <2>4, <3>1
  <2>5. CASE Full /\ canPause /\ blocked' = i /\ UNCHANGED <<queue, dropped>>
    <3>1. Items' = Items
      BY <2>5 DEF Items
    <3> QED
      BY <1>0, <2>1, <2>3, <2>5, <3>1
  <2>6. CASE Full /\ queue' = Append(Tail(queue), i) /\ dropped' = dropped + 1
              /\ UNCHANGED blocked
    <3>1. Items' = (Items \ {queue[1]}) \cup {i} /\ queue[1] \in Items
      BY <2>1, <2>6, ItemReplaced, ItemLeaves
    <3>2. Backlog' = (Backlog \cup {i}) \ {queue[1]}
      BY <1>0, <2>1, <2>3, <2>6, <3>1
    <3> QED
      BY <2>3, <2>6, <3>1, <3>2
  <2>7. CASE queue' = queue /\ dropped' = dropped + 1 /\ UNCHANGED blocked
    <3>1. Items' = Items
      BY <2>7 DEF Items
    <3>2. Backlog' = (Backlog \cup {i}) \ {i}
      BY <1>0, <2>1, <2>3, <2>7, <3>1
    <3> QED
      BY <2>7, <3>2
  <2> QED
    BY <1>1, <2>4, <2>5, <2>6, <2>7 DEF Put, Overflow
<1>2. CASE PutResumes
  <2>1. /\ blocked # None /\ blocked \in Nat /\ blocked \notin Items
        /\ queue' = Append(queue, blocked) /\ blocked' = None
        /\ UNCHANGED <<dropped, offered, closed, consumer>>
    BY <1>2, BlockedIsLast DEF PutResumes, history, QueueInv, Types
  <2>2. Items' = Items \cup {blocked}
    BY <2>1, ItemEnters
  <2>3. Backlog' = Backlog
    BY <1>0, <2>1, <2>2
  <2> QED
    BY <2>1, <2>3 DEF Feed!vars, Backlog
<1>3. CASE PutCancelled
  <2>1. /\ blocked # None /\ blocked' = None /\ Items' = Items
        /\ UNCHANGED <<dropped, offered, closed, consumer>>
    BY <1>3 DEF PutCancelled, Items
  <2>2. Backlog # {} /\ Backlog' = Backlog \ {offered}
    BY <1>0, <2>1, BlockedIsLast
  <2> QED
    BY <2>1, <2>2 DEF Feed!Next, Feed!GiveUp, Backlog
<1>4. ASSUME NEW c \in Consumer, Get(c)
      PROVE  Feed!Next \/ UNCHANGED Feed!vars
  <2>1. consumer[c] # "ended" /\ ~Ended
    BY <1>4 DEF Get, GetOverflow, GetWaits, GetItem, GetSentinel, Ended
  <2>2. CASE GetOverflow(c)
    <3>1. /\ dropped > 0 /\ dropped' = 0 /\ Items' = Items
          /\ UNCHANGED <<blocked, offered, closed, consumer>>
      BY <2>2 DEF GetOverflow, Items
    <3> QED
      BY <2>1, <3>1 DEF Feed!Next, Feed!Announce, Ended
  <2>3. CASE GetWaits(c)
    <3>1. Items' = Items /\ UNCHANGED <<dropped, blocked, offered, closed>>
      BY <2>3 DEF GetWaits, Items, history
    <3>2. ~Ended'
      BY <2>3 DEF GetWaits, QueueInv, Types, Ended
    <3> QED
      BY <2>1, <3>1, <3>2 DEF Feed!vars, Ended
  <2>4. CASE GetItem(c)
    <3>1. /\ queue # <<>> /\ queue[1] # None /\ queue' = Tail(queue)
          /\ UNCHANGED <<dropped, blocked, offered, closed>>
      BY <1>0, <2>4, Taken DEF GetItem
    <3>2. Items' = Items \ {queue[1]} /\ queue[1] \in Items
      BY <3>1, ItemLeaves DEF Items, Content
    <3>3. Backlog' = Backlog \ {queue[1]}
      BY <1>0, <3>1, <3>2, BlockedIsLast
    <3>4. ~Ended'
      BY <2>4 DEF GetItem, QueueInv, Types, Ended
    <3> QED
      BY <2>1, <3>1, <3>3, <3>4, FirstOfBacklog
      DEF Feed!Next, Feed!Deliver, Feed!First, Backlog, Ended
  <2>5. CASE GetSentinel(c)
    <3>1. /\ queue # <<>> /\ queue[1] = None /\ Head(queue) = None /\ queue' = Tail(queue)
          /\ UNCHANGED <<dropped, blocked, offered, closed>>
          /\ consumer' = [consumer EXCEPT ![c] = "ended"]
      BY <1>0, <2>5, Taken DEF GetSentinel, history
    <3>2. Len(queue) = 1 /\ closed
      <4>1. 1 \in 1 .. Len(queue) /\ Len(queue) \in Nat
        BY <1>0, <3>1
      <4>2. ASSUME 1 < Len(queue) PROVE FALSE
        <5>1. Len(queue) \in 1 .. Len(queue)
          BY <4>1
        <5> QED
          BY <3>1, <4>1, <4>2, <5>1 DEF QueueInv, Ordered
      <4>3. PICK n \in Nat : n = Len(queue)
        BY <4>1
      <4>4. n = 1
        <5>1. 1 <= n /\ ~(1 < n)
          BY <4>1, <4>2, <4>3
        <5> QED
          BY <5>1
      <4>5. closed
        BY <3>1, <4>1 DEF QueueInv, Closing
      <4> QED
        BY <4>1, <4>3, <4>4, <4>5
    <3>3. Items = {} /\ Items' = {} /\ Backlog = {} /\ Backlog' = {}
      <4>1. Items = {}
        BY <1>0, <3>1, <3>2, ContentIs DEF Items, Content
      <4>2. queue' = <<>>
        BY <1>0, <3>1, <3>2
      <4>3. Items' = {}
        BY <4>2 DEF Items, ToSet
      <4> QED
        BY <1>0, <3>1, <3>2, <4>1, <4>3, BlockedIsLast
    <3>4. CASE Ended'
      <4>1. \A d \in Consumer : d = c
        BY <2>1, <3>1, <3>2, <3>4 DEF QueueInv, Types, Closing, Ended
      <4>2. dropped = 0
        <5>1. CASE consumer[c] = "waiting"
          BY <3>1, <4>1, <5>1 DEF QueueInv, MarkerComes, Types
        <5>2. CASE consumer[c] # "waiting"
          BY <2>5, <5>2 DEF GetSentinel
        <5> QED
          BY <5>1, <5>2
      <4> QED
        BY <2>1, <3>1, <3>2, <3>3, <3>4, <4>2 DEF Feed!Next, Feed!End, Backlog, Ended
    <3>5. CASE ~Ended'
      BY <2>1, <3>1, <3>3, <3>5 DEF Feed!vars, Backlog, Ended
    <3> QED
      BY <3>4, <3>5
  <2> QED
    BY <1>4, <2>2, <2>3, <2>4, <2>5 DEF Get
<1>5. CASE Close
  <2>1. /\ ~closed /\ closed' = TRUE /\ blocked = None
        /\ UNCHANGED <<dropped, blocked, offered, consumer>>
    BY <1>5 DEF Close
  <2>2. Full => queue # <<>> /\ queue[1] # None
    BY <1>5, SentinelEnters
  <2>3. Items' = IF Full THEN Items \ {queue[1]} ELSE Items
    BY <1>5, SentinelEnters
  <2>4. Backlog' = IF Full THEN Backlog \ {queue[1]} ELSE Backlog
    BY <1>0, <2>1, <2>3
  <2> QED
    BY <2>1, <2>2, <2>4, FirstOfBacklog DEF Feed!Next, Feed!Close, Feed!First, Backlog
<1>6. CASE UNCHANGED vars
  <2>1. Items' = Items /\ UNCHANGED <<dropped, blocked, offered, closed, consumer>>
    BY <1>6 DEF vars, history, Items
  <2> QED
    BY <2>1 DEF Feed!vars
<1> QED
  BY <1>1, <1>2, <1>3, <1>4, <1>5, <1>6 DEF Next

\* The queue behaves as the feed promises: items in order, none skipped that
\* is not counted, the end after the backlog of a closed client and once.
THEOREM ImplementsFeed == Spec => Feed!Init /\ [][Feed!Next]_(Feed!vars)
BY FeedInit, FeedStep, QueueInvHolds, PTL DEF Spec

-----------------------------------------------------------------------------
(* The end: what EveryConsumerEnds needs besides fairness.                 *)

\* From close() on, the sentinel is the last in the buffer until a consumer has
\* taken it; one at most does.  A put that blocks is never left behind by the
\* consumers that are to make room for it (close, __anext__, put).
EndComes ==
    /\ closed => \/ \E c \in Consumer : consumer[c] = "ended"
                 \/ queue # <<>> /\ queue[Len(queue)] = None
    /\ \A c, d \in Consumer : consumer[c] = "ended" /\ consumer[d] = "ended" => c = d
    /\ blocked # None => \A c \in Consumer : consumer[c] # "ended"

\* When the iteration has ended, every item was delivered, was reported in an
\* overflow marker, or was given up by a teardown: none is left in the buffer,
\* in a blocked put or in a count nobody will hear of (close, get).
NothingLeftBehind ==
    (\A c \in Consumer : consumer[c] = "ended") =>
        /\ offered = delivered + announced + abandoned
        /\ queue = <<>> /\ blocked = None /\ dropped = 0

\* The two parts that QueueInv does not have.
SentinelWaits ==
    closed => \/ \E c \in Consumer : consumer[c] = "ended"
              \/ queue # <<>> /\ queue[Len(queue)] = None

DropsHeard == (\A c \in Consumer : consumer[c] = "ended") => dropped = 0

EndInv == SentinelWaits /\ DropsHeard

\* Taking an item leaves the sentinel where it is.
LEMMA LastStays ==
    ASSUME NEW q \in Seq(Nat \cup {None}), q # <<>>, q[Len(q)] = None, Head(q) # None
    PROVE  Tail(q) # <<>> /\ Tail(q)[Len(Tail(q))] = None
<1>1. /\ Len(Tail(q)) = Len(q) - 1 /\ Len(q) \in Nat \ {0} /\ Head(q) = q[1]
      /\ \A n \in 1 .. Len(q) - 1 : Tail(q)[n] = q[n + 1]
  BY Taken
<1>2. Len(q) # 1
  BY <1>1
<1>3. Len(q) - 1 \in 1 .. Len(q) - 1 /\ (Len(q) - 1) + 1 = Len(q)
  BY <1>1, <1>2
<1>4. Tail(q)[Len(Tail(q))] = q[Len(q)]
  BY <1>1, <1>3
<1>5. Len(Tail(q)) # 0
  BY <1>1, <1>2
<1>6. Tail(q) # <<>>
  BY <1>5
<1> QED
  BY <1>4, <1>6

\* Who has ended stays so, and with the items a consumer takes, the sentinel
\* stays in the buffer.
LEMMA EndStep == QueueInv /\ EndInv /\ [Next]_vars => EndInv'
<1> SUFFICES ASSUME QueueInv, EndInv, [Next]_vars PROVE EndInv'
  OBVIOUS
<1>0. /\ queue \in Seq(Nat \cup {None}) /\ Len(queue) \in Nat /\ dropped \in Nat
      /\ consumer \in [Consumer -> {"calling", "waiting", "ended"}]
      /\ SentinelWaits /\ DropsHeard /\ MarkerComes /\ Closing
      /\ blocked # None => ~closed
  BY DEF QueueInv, Types, Offered, EndInv
<1>1. CASE Put
  <2>1. ~closed /\ ~closed' /\ consumer' = consumer
    BY <1>1 DEF Put
  <2>2. \E c \in Consumer : consumer[c] # "ended"
    BY <1>0, <2>1 DEF Closing
  <2> QED
    BY <2>1, <2>2 DEF EndInv, SentinelWaits, DropsHeard
<1>2. CASE PutResumes \/ PutCancelled
  <2>1. ~closed /\ ~closed' /\ consumer' = consumer /\ dropped' = dropped
    BY <1>0, <1>2 DEF PutResumes, PutCancelled
  <2> QED
    BY <1>0, <2>1 DEF EndInv, SentinelWaits, DropsHeard
<1>3. ASSUME NEW c \in Consumer, GetOverflow(c) \/ GetWaits(c)
      PROVE  EndInv'
  <2>1. /\ closed' = closed /\ queue' = queue /\ dropped' \in {0, dropped}
        /\ consumer[c] = "calling"
        /\ consumer' = consumer \/ consumer' = [consumer EXCEPT ![c] = "waiting"]
    BY <1>3 DEF GetOverflow, GetWaits, history
  <2>2. \A d \in Consumer : consumer[d] = "ended" <=> consumer'[d] = "ended"
    BY <1>0, <2>1
  <2> QED
    BY <1>0, <2>1, <2>2 DEF EndInv, SentinelWaits, DropsHeard
<1>4. ASSUME NEW c \in Consumer, GetItem(c)
      PROVE  EndInv'
  <2>1. /\ queue # <<>> /\ Head(queue) # None /\ queue' = Tail(queue)
        /\ consumer[c] # "ended" /\ closed' = closed /\ dropped' = dropped
        /\ consumer' = [consumer EXCEPT ![c] = "calling"]
    BY <1>0, <1>4 DEF GetItem
  <2>2. \A d \in Consumer : consumer[d] = "ended" <=> consumer'[d] = "ended"
    BY <1>0, <2>1
  <2>3. queue[Len(queue)] = None => queue' # <<>> /\ queue'[Len(queue')] = None
    BY <1>0, <2>1, LastStays
  <2> QED
    BY <1>0, <2>1, <2>2, <2>3 DEF EndInv, SentinelWaits, DropsHeard
<1>5. ASSUME NEW c \in Consumer, GetSentinel(c)
      PROVE  EndInv'
  <2>1. /\ queue # <<>> /\ queue[1] = None /\ dropped' = dropped
        /\ consumer[c] = "waiting" \/ dropped = 0
        /\ consumer' = [consumer EXCEPT ![c] = "ended"]
    BY <1>0, <1>5, Taken DEF GetSentinel
  <2>2. consumer'[c] = "ended"
    BY <1>0, <2>1
  <2>3. ASSUME \A d \in Consumer : consumer'[d] = "ended" PROVE dropped' = 0
    <3>1. \A d \in Consumer : d = c
      BY <2>3, OrderStep DEF Closing
    <3>2. CASE consumer[c] = "waiting"
      BY <1>0, <2>1, <3>1, <3>2 DEF MarkerComes
    <3> QED
      BY <2>1, <3>2
  <2> QED
    BY <2>2, <2>3 DEF EndInv, SentinelWaits, DropsHeard
<1>6. CASE Close
  <2>1. /\ consumer' = consumer /\ dropped' = dropped
        /\ \E q \in Seq(Nat \cup {None}) : queue' = Append(q, None)
    <3>1. IF Full THEN Tail(queue) \in Seq(Nat \cup {None}) ELSE TRUE
      BY <1>0, Taken DEF Full
    <3> QED
      BY <1>0, <1>6, <3>1 DEF Close, Sentinel
  <2>2. queue' # <<>> /\ queue'[Len(queue')] = None
    BY <2>1, Appended
  <2> QED
    BY <1>0, <2>1, <2>2 DEF EndInv, SentinelWaits, DropsHeard
<1>7. CASE UNCHANGED vars
  BY <1>0, <1>7 DEF vars, EndInv, SentinelWaits, DropsHeard
<1> QED
  BY <1>1, <1>2, <1>3, <1>4, <1>5, <1>6, <1>7 DEF Next, Get

LEMMA EndInvHolds == Spec => [](QueueInv /\ EndInv)
<1>1. Init => EndInv
  BY DEF Init, EndInv, SentinelWaits, DropsHeard
<1>2. QueueInv /\ EndInv /\ [Next]_vars => (QueueInv /\ EndInv)'
  BY StepQueueInv, EndStep
<1> QED
  BY <1>1, <1>2, QueueInitInv, PTL DEF Spec

\* However full the queue, and whoever takes what when, the end of the feed is
\* in the buffer from close() until somebody gets it, and a blocked put has
\* consumers left (close, get, put).
THEOREM EndKept == Spec => []EndComes
<1>1. QueueInv /\ EndInv => EndComes
  BY DEF QueueInv, Closing, Offered, EndInv, SentinelWaits, EndComes
<1> QED
  BY <1>1, EndInvHolds, PTL

\* A consumer whose iteration has ended has been told of every item (get).
THEOREM EverythingTold == Spec => []NothingLeftBehind
<1>1. QueueInv /\ EndInv => NothingLeftBehind
  <2> SUFFICES ASSUME QueueInv, EndInv, \A c \in Consumer : consumer[c] = "ended"
               PROVE  /\ offered = delivered + announced + abandoned
                      /\ queue = <<>> /\ blocked = None /\ dropped = 0
    BY DEF NothingLeftBehind
  <2>1. queue = <<>> /\ blocked = None /\ dropped = 0
    BY DEF QueueInv, Closing, Offered, EndInv, DropsHeard
  <2>2. Items = {} /\ {blocked} \ {None} = {}
    BY <2>1 DEF Items, ToSet
  <2>3. Cardinality(Items) = 0 /\ Cardinality({blocked} \ {None}) = 0
    BY <2>2, FS_EmptySet
  <2>4. /\ offered \in Nat /\ delivered \in Nat /\ announced \in Nat /\ abandoned \in Nat
    BY DEF QueueInv, Types
  <2> QED
    BY <2>1, <2>3, <2>4 DEF QueueInv, EveryItemAccountedFor
<1> QED
  BY <1>1, EndInvHolds, PTL
=============================================================================
