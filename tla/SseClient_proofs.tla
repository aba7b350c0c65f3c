--------------------------- MODULE SseClient_proofs ---------------------------
(***************************************************************************)
(* Proofs about the receive-only path and the REST API, for any callers,   *)
(* any log, and any size of queue and wire: what an HTTP call tells its    *)
(* caller is what the gateway did, if nothing in front of the gateway      *)
(* redirects; the consumer gets the entries of the log in order and once;  *)
(* and none is lost without a word, if no stream ends inside an event.     *)
(***************************************************************************)
EXTENDS SseClient, TLAPS

USE RestBounds, RestNone, SseBounds, NoneIsNoEvent

-----------------------------------------------------------------------------
(* The REST API.                                                           *)

\* What has been done for a call in flight, and told at the end of one.
InFlight(c) ==
    /\ c.op \in Operation /\ c.id \in Nat \cup {None}
    /\ c.at = "asked" => c.made = None
    /\ c.at = "acted" => c.made \in Nat
    /\ c.op = "unsubscribe" => c.id \in Nat

\* Only where there are redirects may a call return without anything made.
Truthful(c) ==
    /\ c.result.ok => (c.made # None \/ Redirects) /\ c.result.id \in {None, c.made}
    /\ ~c.result.ok /\ c.result.type \notin Unclear => c.made = None

RestInv ==
    /\ device \subseteq Nat /\ created \in Nat
    /\ DOMAIN call = Caller
    /\ \A k \in Caller :
          /\ call[k].at \in {"idle", "asked", "acted", "over"}
          /\ call[k].at \in {"asked", "acted"} =>
                /\ InFlight(call[k])
                /\ call[k] = [at |-> call[k].at, op |-> call[k].op, id |-> call[k].id,
                              made |-> call[k].made]
          /\ Told(k) => Truthful(call[k])

\* The errors that say that a request was not carried out only come with a
\* rejection, and a value only with a success: what else is no error is a
\* redirect, which has no body.
LEMMA OutcomeIsTruthful ==
    ASSUME NEW c, c.made \in Nat \cup {None}, c.op \in Operation,
           NEW a \in Answers(c)
    PROVE  Truthful(Over(c.made, Outcome(c.op, a)))
<1> DEFINE r == Outcome(c.op, a)
<1>1. SUFFICES /\ r.ok => (c.made # None \/ Redirects) /\ r.id \in {None, c.made}
               /\ ~r.ok /\ r.type \notin Unclear => c.made = None
  BY DEF Truthful, Over
<1>2. ASSUME NEW type PROVE Raised(type).ok = FALSE /\ Raised(type).type = type
  BY DEF Raised
<1>3. ASSUME NEW id PROVE Returned(id).ok = TRUE /\ Returned(id).id = id
  BY DEF Returned
<1>4. CASE a \in Fault
  <2>1. Rejected(a.status) /\ a.status \in {500, 503}
    BY <1>4 DEF Fault, Answer, Rejected
  <2>2. r = Raised(ErrorFor(c.op, a).type)
    <3>1. Request(c.op, a) = Raised(ErrorFor(c.op, a).type)
      BY <2>1 DEF Request
    <3> QED
      BY <1>2, <3>1 DEF Outcome, Required, Operation
  <2>3. ErrorFor(c.op, a).type \in Unclear
    BY <2>1 DEF ErrorFor, ErrorFromHttpStatus, Error, Unclear
  <2> QED
    BY <1>2, <2>2, <2>3
<1>5. CASE c.made = None /\ a \in Rejection /\ a.status # 302
  <2>1. Rejected(a.status)
    BY <1>5 DEF Rejection, Answer, Rejected
  <2>2. r = Raised(ErrorFor(c.op, a).type)
    <3>1. Request(c.op, a) = Raised(ErrorFor(c.op, a).type)
      BY <2>1 DEF Request
    <3> QED
      BY <1>2, <3>1 DEF Outcome, Required, Operation
  <2> QED
    BY <1>2, <1>5, <2>2
<1>6. CASE c.made # None /\ a \in Success(c.made)
  <2>1. ~Rejected(a.status) /\ a.body \in Body /\ a.id \in {None, c.made}
    BY <1>6 DEF Success, Answer, Rejected, Body
  <2>2. Request(c.op, a) \in {Raised("ProtocolError"), Returned(None), Returned(c.made)}
    BY <2>1 DEF Request, Body
  <2>3. r \in {Raised("ProtocolError"), Returned(None), Returned(c.made)}
    BY <1>2, <1>3, <2>2 DEF Outcome, Required, Operation
  <2> QED
    BY <1>2, <1>3, <1>6, <2>3 DEF Unclear
<1>7. CASE c.made = None /\ a \in Rejection /\ a.status = 302
  <2>1. Redirects /\ ~Rejected(a.status) /\ a.body = "empty"
    BY <1>7 DEF Rejection, Answer, Rejected
  <2>2. Request(c.op, a) = Returned(None)
    BY <2>1 DEF Request
  <2>3. r \in {Returned(None), Raised("ProtocolError")}
    BY <1>3, <2>2 DEF Outcome, Required, Operation
  <2>4. c.made = None /\ Redirects
    BY <1>7, <2>1
  <2> HIDE DEF r
  <2>5. CASE r = Returned(None)
    BY <1>3, <2>4, <2>5
  <2>6. CASE r = Raised("ProtocolError")
    BY <1>2, <2>4, <2>6
  <2> QED
    BY <2>3, <2>5, <2>6
<1> QED
  BY <1>4, <1>5, <1>6, <1>7 DEF Answers

\* At the end of a call it is told what was done for it.
LEMMA EndKeeps ==
    ASSUME RestInv, NEW k \in Caller, NEW made, NEW result, Ends(k, made, result),
           Truthful(Over(made, result))
    PROVE  RestInv'
<1>1. /\ call' = [call EXCEPT ![k] = Over(made, result)]
      /\ UNCHANGED <<device, created>> /\ DOMAIN call = Caller
  BY DEF Ends, RestInv
<1>2. call'[k] = Over(made, result) /\ Over(made, result).at = "over"
  BY <1>1 DEF Over
<1>3. \A j \in Caller \ {k} : call'[j] = call[j]
  BY <1>1
<1> QED
  BY <1>1, <1>2, <1>3 DEF RestInv, Told

\* What the gateway does for a call has a number.
LEMMA ActKeeps ==
    ASSUME RestInv, NEW k \in Caller, call[k].at = "asked", NEW id \in Nat, Acts(k, id),
           device' \subseteq Nat, created' \in Nat
    PROVE  RestInv'
<1>1. /\ DOMAIN call' = Caller
      /\ \A j \in Caller \ {k} : call'[j] = call[j]
      /\ call'[k] = [call[k] EXCEPT !.at = "acted", !.made = id]
  BY DEF Acts, RestInv
<1>2. /\ call[k] = [at |-> call[k].at, op |-> call[k].op, id |-> call[k].id,
                    made |-> call[k].made]
      /\ InFlight(call[k])
  BY DEF RestInv
<1>3. call'[k] = [at |-> "acted", op |-> call[k].op, id |-> call[k].id, made |-> id]
  BY <1>1, <1>2
<1>4. /\ InFlight(call'[k]) /\ call'[k].at = "acted"
      /\ call'[k] = [at |-> call'[k].at, op |-> call'[k].op, id |-> call'[k].id,
                     made |-> call'[k].made]
  BY <1>2, <1>3 DEF InFlight
<1> QED
  BY <1>1, <1>4 DEF RestInv, Told

\* Every step of the callers and the gateway keeps it.
LEMMA RestStep ==
    ASSUME RestInv, log \in Nat, [RestCalls]_<<call, device, created>>
    PROVE  RestInv'
<1>0. device \subseteq Nat /\ created \in Nat
  BY DEF RestInv
<1>1. ASSUME NEW k \in Caller, NEW op \in Operation, Ask(k, op)
      PROVE  RestInv'
  <2>1. PICK d \in IF op = "unsubscribe" THEN device ELSE {None} :
           call' = [call EXCEPT ![k] = [at |-> "asked", op |-> op, id |-> d, made |-> None]]
    BY <1>1 DEF Ask
  <2>2. /\ DOMAIN call' = Caller /\ \A j \in Caller \ {k} : call'[j] = call[j]
        /\ call'[k] = [at |-> "asked", op |-> op, id |-> d, made |-> None]
    BY <2>1 DEF RestInv
  <2>3. InFlight(call'[k]) /\ call'[k].at = "asked"
    BY <1>0, <2>1, <2>2 DEF InFlight
  <2> QED
    BY <1>1, <2>2, <2>3 DEF RestInv, Ask, Told
<1>2. ASSUME NEW k \in Caller, Invalid(k) \/ AskClosed(k)
      PROVE  RestInv'
  <2>1. ASSUME NEW type PROVE Truthful(Over(None, Raised(type)))
    BY DEF Truthful, Over, Raised
  <2> QED
    BY <1>2, <2>1, EndKeeps DEF Invalid, AskClosed
<1>3. ASSUME NEW k \in Caller, Answered(k)
      PROVE  RestInv'
  <2>1. /\ call[k].at \in {"asked", "acted"} /\ InFlight(call[k])
    BY <1>3 DEF Answered, RestInv
  <2>2. PICK a \in Answers(call[k]) : Ends(k, call[k].made, Outcome(call[k].op, a))
    BY <1>3 DEF Answered
  <2>3. Truthful(Over(call[k].made, Outcome(call[k].op, a)))
    BY <2>1, OutcomeIsTruthful DEF InFlight
  <2> QED
    BY <2>2, <2>3, EndKeeps
<1>4. ASSUME NEW k \in Caller, RequestFails(k)
      PROVE  RestInv'
  <2>1. Truthful(Over(call[k].made, Raised("TransportError")))
    BY DEF Truthful, Over, Raised, Unclear
  <2> QED
    BY <1>4, <2>1, EndKeeps DEF RequestFails
<1>5. ASSUME NEW k \in Caller, Publishes(k)
      PROVE  RestInv'
  BY <1>0, <1>5, ActKeeps DEF Publishes
<1>6. ASSUME NEW k \in Caller, Registers(k) \/ Removes(k) \/ GivesKey(k)
      PROVE  RestInv'
  <2>1. CASE Registers(k)
    BY <1>0, <2>1, ActKeeps DEF Registers
  <2>2. CASE Removes(k)
    <3>1. call[k].id \in Nat
      BY <2>2 DEF Removes, RestInv, InFlight
    <3> QED
      BY <1>0, <2>2, <3>1, ActKeeps DEF Removes
  <2>3. CASE GivesKey(k)
    BY <1>0, <2>3, ActKeeps DEF GivesKey
  <2> QED
    BY <1>6, <2>1, <2>2, <2>3
<1>7. CASE UNCHANGED <<call, device, created>>
  BY <1>7 DEF RestInv, Told
<1> QED
  BY <1>1, <1>2, <1>3, <1>4, <1>5, <1>6, <1>7 DEF RestCalls

-----------------------------------------------------------------------------
(* The inductive invariant of the path.                                    *)

\* Events as the server makes them, and as the end of a stream may cut them: a
\* message has an id and owns up to nothing, and no other whole event has one.
Whole ==
    {e \in Events : /\ e.kind = "message" => e.id # None /\ e.of = {}
                    /\ e.id # None => e.kind \in {"message", "cut"}
                    /\ e.kind = "cut" => Cuts}

\* Types, and what there is in each state of the stream.
PathTypes ==
    /\ log \in 0 .. MaxLog /\ served \in 0 .. log /\ got \in 0 .. log
    /\ {lastId, resume, base} \subseteq Id
    /\ wire \in Seq(Whole) /\ queue \in Seq(Whole) /\ item \in Whole \cup {None}
    /\ told \subseteq 1 .. MaxLog
    /\ stream \in {"none", "dialing", "open", "ended", "crashed", "closed"}
    /\ pump \in {"none", "reading", "putting"} /\ (pump = "putting" <=> item # None)
    /\ stream \notin {"open", "ended"} => pump = "none" /\ wire = <<>>

\* The last entry the transport has seen.
Cursor == IF lastId = None THEN 0 ELSE lastId

\* The cursor of the transport and that of the supervisor.
Cursors ==
    /\ lastId = None => resume = None
    /\ stream \in {"none", "dialing"} => resume = lastId
    /\ base = None <=> lastId = None
    /\ base # None => base <= lastId
    /\ Cursor <= log /\ (stream = "open" => Cursor <= served)

\* The ids of s ascend, from above one entry up to another.
InOrder(s, above, upTo) ==
    /\ \A n \in 1 .. Len(s) : s[n].id # None => above < s[n].id /\ s[n].id <= upTo
    /\ \A m, n \in 1 .. Len(s) :
          m < n /\ s[m].id # None /\ s[n].id # None => s[m].id < s[n].id

\* How far the wire reaches.
Sent == IF stream = "open" THEN served ELSE log

\* Behind the consumer the queue, then the blocked put, the cursor, the wire.
Ordering ==
    /\ got <= Cursor /\ InOrder(queue, got, Cursor)
    /\ item # None /\ item.id # None =>
          got < item.id /\ InOrder(queue, got, item.id - 1) /\ item.id <= Cursor
    /\ InOrder(wire, Cursor, Sent)

\* The entries the recovery answers for, once what is on the wire is read.
Owes(i) ==
    \/ base # None /\ base <= i
    \/ \E n \in 1 .. Len(wire) : wire[n].id # None /\ wire[n].id <= i

\* The consumer knows of i, or will when the queue, the blocked put and the
\* first n events on the wire have reached it.
Covered(i, n) ==
    \/ Known(i)
    \/ \E m \in 1 .. Len(queue) : Holds(queue[m], i)
    \/ item # None /\ Holds(item, i)
    \/ \E m \in 1 .. n : Holds(wire[m], i)

\* Nothing owed is missing: up to the cursor nothing that has to come over the
\* wire, up to a message on the wire nothing behind it, and up to where the
\* server is nothing.
Coverage ==
    ~Cuts /\ stream \notin Finished =>
        /\ \A i \in 1 .. log : base # None /\ base <= i /\ i <= lastId => Covered(i, 0)
        /\ \A n \in 1 .. Len(wire) : wire[n].id # None =>
              \A i \in 1 .. log : Owes(i) /\ i <= wire[n].id => Covered(i, n)
        /\ stream = "open" =>
              \A i \in 1 .. served : Owes(i) => Covered(i, Len(wire))

PathInv == PathTypes /\ Cursors /\ Ordering /\ Coverage

-----------------------------------------------------------------------------
(* Events that enter and leave the wire and the queue.                     *)

LEMMA Entered ==
    ASSUME NEW s \in Seq(Whole), NEW e \in Whole
    PROVE  /\ Append(s, e) \in Seq(Whole) /\ Len(Append(s, e)) = Len(s) + 1 /\ Len(s) \in Nat
           /\ Append(s, e)[Len(s) + 1] = e
           /\ \A n \in 1 .. Len(s) : Append(s, e)[n] = s[n]
           /\ \A n \in 1 .. Len(Append(s, e)) : n = Len(s) + 1 \/ n \in 1 .. Len(s)
OBVIOUS

LEMMA Left ==
    ASSUME NEW s \in Seq(Whole), s # <<>>
    PROVE  /\ Tail(s) \in Seq(Whole) /\ Len(Tail(s)) = Len(s) - 1 /\ Len(s) \in Nat \ {0}
           /\ Head(s) = s[1] /\ Head(s) \in Whole /\ 1 \in 1 .. Len(s)
           /\ \A n \in 1 .. Len(Tail(s)) : n + 1 \in 1 .. Len(s) /\ Tail(s)[n] = s[n + 1]
OBVIOUS

\* What an event of the server's is.
LEMMA EventsAreWhole ==
    /\ \A i \in 1 .. MaxLog :
          /\ Entry(i) \in Whole /\ Entry(i).id = i /\ Entry(i).kind = "message"
          /\ Entry(i).of = {}
    /\ \A kind \in {"gap", "no_replay", "truncated"}, of \in SUBSET (1 .. MaxLog) :
          /\ Event(kind, None, of) \in Whole /\ Event(kind, None, of).id = None
          /\ Event(kind, None, of).kind = kind /\ Event(kind, None, of).of = of
BY DEF Entry, Event, Whole, Events, Id

LEMMA WholeFields ==
    ASSUME NEW e \in Whole
    PROVE  /\ e.id \in Id /\ e.of \in SUBSET (1 .. MaxLog) /\ e # None
           /\ e.kind \in {"message", "gap", "no_replay", "truncated", "cut"}
           /\ e.kind = "message" => e.id # None /\ e.of = {}
           /\ e.id # None => e.kind \in {"message", "cut"}
           /\ e.kind = "cut" => Cuts
BY DEF Whole, Events

\* Order, over wider bounds, of what leaves, enters and is cut off.
LEMMA InOrderWider ==
    ASSUME NEW s \in Seq(Whole), NEW above \in Nat, NEW upTo \in Int, NEW below \in Nat,
           NEW beyond \in Int, below <= above, upTo <= beyond, InOrder(s, above, upTo)
    PROVE  InOrder(s, below, beyond)
<1>1. \A n \in 1 .. Len(s) : s[n].id # None => s[n].id \in Nat
  BY WholeFields DEF Id
<1> QED
  BY <1>1 DEF InOrder

LEMMA InOrderLeft ==
    ASSUME NEW s \in Seq(Whole), s # <<>>, NEW above \in Nat, NEW upTo \in Int,
           InOrder(s, above, upTo)
    PROVE  /\ InOrder(Tail(s), above, upTo)
           /\ Head(s).id # None => /\ above < Head(s).id /\ Head(s).id <= upTo
                                   /\ InOrder(Tail(s), Head(s).id, upTo)
<1>1. /\ \A n \in 1 .. Len(Tail(s)) : n + 1 \in 1 .. Len(s) /\ Tail(s)[n] = s[n + 1]
      /\ Head(s) = s[1] /\ 1 \in 1 .. Len(s)
  BY Left
<1>2. \A m, n \in 1 .. Len(Tail(s)) :
         m < n /\ Tail(s)[m].id # None /\ Tail(s)[n].id # None => Tail(s)[m].id < Tail(s)[n].id
  BY <1>1 DEF InOrder
<1>3. \A n \in 1 .. Len(Tail(s)) :
         Tail(s)[n].id # None => above < Tail(s)[n].id /\ Tail(s)[n].id <= upTo
  BY <1>1 DEF InOrder
<1>4. Head(s).id # None => \A n \in 1 .. Len(Tail(s)) :
                              Tail(s)[n].id # None => Head(s).id < Tail(s)[n].id
  <2> SUFFICES ASSUME Head(s).id # None, NEW n \in 1 .. Len(Tail(s)), Tail(s)[n].id # None
               PROVE  Head(s).id < Tail(s)[n].id
    OBVIOUS
  <2>1. n + 1 \in 1 .. Len(s) /\ 1 < n + 1 /\ s[n + 1].id # None /\ s[1].id # None
    BY <1>1
  <2>2. s[1].id < s[n + 1].id
    BY <1>1, <2>1 DEF InOrder
  <2> QED
    BY <1>1, <2>2
<1> QED
  BY <1>1, <1>2, <1>3, <1>4 DEF InOrder

LEMMA InOrderEntered ==
    ASSUME NEW s \in Seq(Whole), NEW e \in Whole, NEW above \in Nat, NEW upTo \in Int,
           InOrder(s, above, upTo),
           e.id # None => above < e.id /\ e.id <= upTo /\ InOrder(s, above, e.id - 1)
    PROVE  InOrder(Append(s, e), above, upTo)
<1>1. e.id # None => e.id \in Nat
  BY WholeFields DEF Id
<1>2. \A n \in 1 .. Len(s) : s[n].id # None => s[n].id \in Nat
  BY WholeFields DEF Id
<1>3. e.id # None => \A n \in 1 .. Len(s) : s[n].id # None => s[n].id < e.id
  BY <1>1, <1>2 DEF InOrder
<1> QED
  BY <1>3, Entered DEF InOrder

LEMMA InOrderCut ==
    ASSUME NEW s \in Seq(Whole), NEW t \in Seq(Whole), Len(t) <= Len(s),
           \A n \in 1 .. Len(t) : t[n].id = s[n].id, NEW above, NEW upTo,
           InOrder(s, above, upTo)
    PROVE  InOrder(t, above, upTo)
<1>1. \A n \in 1 .. Len(t) : n \in 1 .. Len(s)
  <2>1. Len(s) \in Nat /\ Len(t) \in Nat
    OBVIOUS
  <2> QED
    BY <2>1
<1> QED
  BY <1>1 DEF InOrder

\* Two sequences, one behind the other.
LEMMA InOrderJoined ==
    ASSUME NEW s \in Seq(Whole), NEW t \in Seq(Whole), NEW above \in Nat, NEW mid \in Nat,
           NEW upTo \in Nat, above <= mid, mid <= upTo,
           InOrder(s, above, mid), InOrder(t, mid, upTo)
    PROVE  s \o t \in Seq(Whole) /\ InOrder(s \o t, above, upTo)
<1> DEFINE u == s \o t
<1>1. /\ u \in Seq(Whole) /\ Len(u) = Len(s) + Len(t) /\ Len(s) \in Nat /\ Len(t) \in Nat
      /\ \A n \in 1 .. Len(s) : u[n] = s[n]
      /\ \A n \in 1 .. Len(u) : n > Len(s) => n - Len(s) \in 1 .. Len(t) /\ u[n] = t[n - Len(s)]
  OBVIOUS
<1> HIDE DEF u
<1>2. /\ \A n \in 1 .. Len(s) : s[n].id # None => s[n].id \in Nat
      /\ \A n \in 1 .. Len(t) : t[n].id # None => t[n].id \in Nat
  BY WholeFields DEF Id
<1>3. ASSUME NEW n \in 1 .. Len(u), u[n].id # None
      PROVE  /\ u[n].id \in Nat /\ above < u[n].id /\ u[n].id <= upTo
             /\ n <= Len(s) => u[n].id <= mid
             /\ n > Len(s) => mid < u[n].id
  <2>1. CASE n \in 1 .. Len(s)
    <3>1. u[n] = s[n] /\ n <= Len(s)
      BY <1>1, <2>1
    <3>2. s[n].id \in Nat /\ above < s[n].id /\ s[n].id <= mid
      BY <1>2, <1>3, <2>1, <3>1 DEF InOrder
    <3> QED
      BY <1>1, <3>1, <3>2, <2>1
  <2>2. CASE n > Len(s)
    <3>1. PICK k \in 1 .. Len(t) : u[n] = t[k]
      BY <1>1, <2>2
    <3>2. t[k].id # None /\ t[k].id \in Nat
      BY <1>2, <1>3, <3>1
    <3>3. mid < t[k].id /\ t[k].id <= upTo
      BY <3>2 DEF InOrder
    <3>4. ~(n <= Len(s))
      BY <1>1, <2>2
    <3> QED
      BY <2>2, <3>1, <3>2, <3>3, <3>4
  <2> QED
    BY <1>1, <2>1, <2>2
<1>4. ASSUME NEW m \in 1 .. Len(u), NEW n \in 1 .. Len(u), m < n, u[m].id # None, u[n].id # None
      PROVE  u[m].id < u[n].id
  <2>1. CASE m <= Len(s) /\ n > Len(s)
    <3>1. u[m].id \in Nat /\ u[m].id <= mid
      BY <1>3, <1>4, <2>1
    <3>2. u[n].id \in Nat /\ mid < u[n].id
      BY <1>3, <1>4, <2>1
    <3> QED
      BY <3>1, <3>2
  <2>2. CASE n <= Len(s)
    <3>1. m \in 1 .. Len(s) /\ n \in 1 .. Len(s)
      BY <1>1, <1>4, <2>2
    <3> QED
      BY <1>1, <1>4, <3>1 DEF InOrder
  <2>3. CASE m > Len(s)
    <3>1. PICK k \in 1 .. Len(t) : k = m - Len(s) /\ u[m] = t[k]
      BY <1>1, <2>3
    <3>2. PICK l \in 1 .. Len(t) : l = n - Len(s) /\ u[n] = t[l]
      BY <1>1, <1>4, <2>3
    <3>3. k < l
      BY <1>1, <1>4, <3>1, <3>2
    <3> QED
      BY <1>4, <3>1, <3>2, <3>3 DEF InOrder
  <2> QED
    BY <1>1, <1>4, <2>1, <2>2, <2>3
<1> QED
  BY <1>1, <1>3, <1>4 DEF InOrder, u

\* What is left on the wire when a stream ends, or is closed.
LEMMA WireCut ==
    ASSUME PathTypes, StreamEnds \/ Bounce
    PROVE  /\ wire' \in Seq(Whole) /\ Len(wire') <= Len(wire)
           /\ \A n \in 1 .. Len(wire') : wire'[n].id = wire[n].id
           /\ ~Cuts => \A n \in 1 .. Len(wire') : wire'[n] = wire[n]
<1>1. wire \in Seq(Whole) /\ Len(wire) \in Nat
  BY DEF PathTypes
<1>2. PICK n \in 0 .. Len(wire) :
         \/ wire' = SubSeq(wire, 1, n)
         \/ /\ Cuts /\ n < Len(wire)
            /\ wire' = Append(SubSeq(wire, 1, n), [wire[n + 1] EXCEPT !.kind = "cut"])
  <2>1. CASE StreamEnds
    BY <2>1 DEF StreamEnds
  <2>2. CASE Bounce
    <3>1. SubSeq(wire, 1, 0) = <<>> /\ 0 \in 0 .. Len(wire)
      BY <1>1
    <3>2. CASE wire' = <<>>
      BY <3>1, <3>2
    <3>3. CASE Cuts /\ wire # <<>> /\ wire' = <<[Head(wire) EXCEPT !.kind = "cut"]>>
      <4>1. Head(wire) = wire[1] /\ 0 < Len(wire)
        BY <1>1, <3>3
      <4>2. wire' = Append(<<>>, [wire[0 + 1] EXCEPT !.kind = "cut"])
        BY <3>3, <4>1
      <4> QED
        BY <3>1, <3>3, <4>1, <4>2
    <3> QED
      BY <2>2, <3>2, <3>3 DEF Bounce, Remains
  <2> QED
    BY <2>1, <2>2
<1>3. /\ SubSeq(wire, 1, n) \in Seq(Whole) /\ Len(SubSeq(wire, 1, n)) = n
      /\ \A m \in 1 .. n : SubSeq(wire, 1, n)[m] = wire[m]
  BY <1>1
<1>4. CASE wire' = SubSeq(wire, 1, n)
  BY <1>1, <1>3, <1>4
<1>5. CASE /\ Cuts /\ n < Len(wire)
           /\ wire' = Append(SubSeq(wire, 1, n), [wire[n + 1] EXCEPT !.kind = "cut"])
  <2> DEFINE e == [wire[n + 1] EXCEPT !.kind = "cut"]
  <2>1. wire[n + 1] \in Whole /\ n + 1 \in 1 .. Len(wire)
    BY <1>1, <1>5
  <2>2. e \in Whole /\ e.id = wire[n + 1].id
    BY <1>5, <2>1 DEF Whole, Events
  <2> HIDE DEF e
  <2> DEFINE t == SubSeq(wire, 1, n)
  <2>3. wire' = Append(t, e) /\ t \in Seq(Whole) /\ Len(t) = n
    BY <1>3, <1>5 DEF e
  <2>4. \A m \in 1 .. n : t[m] = wire[m]
    BY <1>3
  <2> HIDE DEF t
  <2>5. /\ wire' \in Seq(Whole) /\ Len(wire') = n + 1 /\ wire'[n + 1] = e
        /\ \A m \in 1 .. n : wire'[m] = t[m]
    BY <2>2, <2>3, Entered
  <2>6. \A m \in 1 .. n + 1 : wire'[m].id = wire[m].id
    BY <2>2, <2>4, <2>5
  <2> QED
    BY <1>1, <1>5, <2>5, <2>6
<1> QED
  BY <1>2, <1>4, <1>5

-----------------------------------------------------------------------------
(* Steps.                                                                  *)

\* A step that is none of the path: of a publisher, a caller, or none.
Elsewhere == log' \in log .. MaxLog /\ UNCHANGED sse

LEMMA StepIsOf ==
    ASSUME log \in 0 .. MaxLog, [SseNext]_sseVars
    PROVE  /\ [RestCalls]_<<call, device, created>>
           /\ \/ Elsewhere
              \/ /\ log' = log
                 /\ \/ Dial \/ DialAccepted \/ DialFails \/ DialBodyLost
                    \/ Serves \/ Skips \/ StreamEnds
                    \/ ReadEvent \/ PutReturns \/ PumpEnds \/ Bounce \/ Consume \/ CloseClient
<1>1. CASE OtherPublishes
  BY <1>1 DEF OtherPublishes, Elsewhere, sse
<1>2. CASE RestCalls /\ UNCHANGED sse
  BY <1>2 DEF RestCalls, Ask, Invalid, AskClosed, Answered, RequestFails, Ends, Publishes,
              Registers, Removes, GivesKey, Elsewhere
<1>3. CASE UNCHANGED sseVars
  BY <1>3 DEF sseVars, rest, Elsewhere
<1>4. CASE DialAccepted \/ Serves \/ Skips \/ StreamEnds \/ Bounce \/ Consume
  BY <1>4 DEF DialAccepted, Serves, Skips, Sends, StreamEnds, Bounce, Consume, rest
<1>5. CASE Step
  BY <1>5 DEF Step, Dial, DialFails, DialBodyLost, ReadEvent, PutReturns, AfterPut,
              SendRefused, EpochOver, PumpEnds, rest
<1>6. CASE CloseClient
  BY <1>6 DEF CloseClient, CloseHttp
<1> QED
  BY <1>1, <1>2, <1>3, <1>4, <1>5, <1>6 DEF SseNext, Step

\* What a server that accepts a dial begins with, and where it goes on: it
\* accounts for every entry between.
LEMMA StartIsCovered ==
    ASSUME PathTypes, Cursors, NEW s \in Starts(lastId)
    PROVE  /\ s.first \in Seq(Whole) /\ s.at \in Cursor .. log
           /\ \A n \in 1 .. Len(s.first) : s.first[n].id # None =>
                 /\ n = 1 /\ lastId # None /\ s.first[n].id = lastId + 1 /\ lastId + 1 <= s.at
                 /\ Holds(s.first[n], lastId + 1)
           /\ lastId # None => \A i \in lastId + 1 .. s.at :
                 \E m \in 1 .. Len(s.first) : Holds(s.first[m], i)
<1>1. /\ log \in 0 .. MaxLog /\ MaxLog \in Nat /\ Cursor <= log
      /\ lastId # None => lastId \in 1 .. log
  BY DEF PathTypes, Cursors, Cursor, Id
<1>2. CASE lastId = None
  <2>1. s.first = <<>> /\ s.at = log
    BY <1>2 DEF Starts, Start
  <2>2. <<>> \in Seq(Whole) /\ Len(<<>>) = 0
    OBVIOUS
  <2> QED
    BY <1>1, <1>2, <2>1, <2>2 DEF Cursor
<1>3. CASE lastId # None /\ s = Start(<<>>, lastId)
  BY <1>1, <1>3 DEF Start, Cursor
<1>4. CASE /\ lastId # None /\ lastId # log
           /\ s = Start(<<Event("no_replay", None, lastId + 1 .. log)>>, log)
  <2> DEFINE e == Event("no_replay", None, lastId + 1 .. log)
  <2>1. e \in Whole /\ e.id = None /\ e.of = lastId + 1 .. log
    <3>1. lastId + 1 .. log \in SUBSET (1 .. MaxLog)
      BY <1>1, <1>4
    <3> QED
      BY <3>1, EventsAreWhole
  <2>2. s.first = <<e>> /\ s.at = log
    BY <1>4 DEF Start
  <2> HIDE DEF e
  <2>3. s.first \in Seq(Whole) /\ Len(s.first) = 1 /\ s.first[1] = e
    BY <2>1, <2>2
  <2>4. \A i \in lastId + 1 .. log : Holds(s.first[1], i)
    BY <2>1, <2>3 DEF Holds
  <2>5. \A n \in 1 .. Len(s.first) : s.first[n].id = None
    BY <2>1, <2>3
  <2>6. s.at \in Cursor .. log
    BY <1>1, <2>2 DEF Cursor
  <2>7. \A i \in lastId + 1 .. s.at : \E m \in 1 .. Len(s.first) : Holds(s.first[m], i)
    BY <2>2, <2>3, <2>4
  <2> QED
    BY <1>4, <2>3, <2>5, <2>6, <2>7
<1>5. CASE /\ lastId # None /\ lastId # log
           /\ s = Start(<<Entry(lastId + 1), Event("truncated", None, lastId + 2 .. log)>>, log)
  <2> DEFINE d == Entry(lastId + 1)
             e == Event("truncated", None, lastId + 2 .. log)
  <2>1. /\ e \in Whole /\ e.id = None /\ e.of = lastId + 2 .. log
        /\ d \in Whole /\ d.id = lastId + 1 /\ d.kind = "message"
    <3>1. lastId + 2 .. log \in SUBSET (1 .. MaxLog) /\ lastId + 1 \in 1 .. MaxLog
      BY <1>1, <1>5
    <3> QED
      BY <3>1, EventsAreWhole
  <2>2. s.first = <<d, e>> /\ s.at = log
    BY <1>5 DEF Start
  <2> HIDE DEF d, e
  <2>3. /\ s.first \in Seq(Whole) /\ Len(s.first) = 2
        /\ s.first[1] = d /\ s.first[2] = e
    BY <2>1, <2>2
  <2>4. /\ Holds(s.first[1], lastId + 1)
        /\ \A i \in lastId + 2 .. log : Holds(s.first[2], i)
    BY <2>1, <2>3 DEF Holds
  <2>5. \A i \in lastId + 1 .. log : i = lastId + 1 \/ i \in lastId + 2 .. log
    BY <1>1, <1>5
  <2>6. \A n \in 1 .. Len(s.first) : s.first[n].id # None => n = 1
    BY <2>1, <2>3
  <2>7. s.at \in Cursor .. log /\ lastId + 1 <= s.at /\ s.first[1].id = lastId + 1
    BY <1>1, <1>5, <2>1, <2>2, <2>3 DEF Cursor
  <2>8. \A i \in lastId + 1 .. s.at : \E m \in 1 .. Len(s.first) : Holds(s.first[m], i)
    BY <2>2, <2>3, <2>4, <2>5
  <2> QED
    BY <1>5, <2>3, <2>4, <2>6, <2>7, <2>8
<1> QED
  BY <1>2, <1>3, <1>4, <1>5 DEF Starts

\* The cursor that is harvested is the transport's.
LEMMA HarvestIsCursor ==
    Cursors => Harvest = lastId
BY DEF Cursors, Harvest

LEMMA PathInit ==
    SseInit => RestInv /\ PathInv
<1> SUFFICES ASSUME SseInit PROVE RestInv /\ PathInv
  OBVIOUS
<1> USE DEF SseInit, RestInit
<1>1. RestInv
  BY DEF RestInv, Told
<1>2. PathTypes
  BY DEF PathTypes, Id
<1>3. Cursors
  BY DEF Cursors, Cursor
<1>4. Ordering
  BY DEF Ordering, InOrder, Cursor, Sent
<1>5. Coverage
  BY DEF Coverage
<1> QED
  BY <1>1, <1>2, <1>3, <1>4, <1>5 DEF PathInv

LEMMA TypesStep ==
    ASSUME PathInv, [SseNext]_sseVars
    PROVE  PathTypes'
<1> USE DEF PathInv
<1>0. /\ log \in 0 .. MaxLog /\ MaxLog \in Nat /\ served \in 0 .. log /\ got \in 0 .. log
      /\ wire \in Seq(Whole) /\ queue \in Seq(Whole)
  BY DEF PathTypes
<1>1. CASE Elsewhere
  BY <1>0, <1>1 DEF Elsewhere, sse, PathTypes
<1>2. CASE log' = log /\ (Dial \/ DialFails \/ DialBodyLost)
  BY <1>2 DEF Dial, DialFails, DialBodyLost, PathTypes
<1>3. CASE log' = log /\ DialAccepted
  <2>1. PICK s \in Starts(lastId) : wire' = s.first /\ served' = s.at
    BY <1>3 DEF DialAccepted
  <2>2. wire' \in Seq(Whole) /\ served' \in Cursor .. log /\ Cursor \in Nat
    BY <1>0, <2>1, StartIsCovered DEF PathTypes, Cursor, Id
  <2>3. item = None
    BY <1>3 DEF DialAccepted, PathTypes
  <2> QED
    BY <1>0, <1>3, <2>2, <2>3 DEF DialAccepted, PathTypes
<1>4. CASE log' = log /\ Serves
  <2>1. Entry(served + 1) \in Whole /\ served < log
    BY <1>0, <1>4, EventsAreWhole DEF Serves
  <2>2. wire' \in Seq(Whole)
    BY <1>0, <1>4, <2>1 DEF Serves, Sends
  <2> QED
    BY <1>0, <1>4, <2>1, <2>2 DEF Serves, Sends, PathTypes
<1>5. CASE log' = log /\ Skips
  <2>1. served + 1 .. log \in SUBSET (1 .. MaxLog)
    BY <1>0
  <2>2. Event("gap", None, served + 1 .. log) \in Whole
    BY <2>1, EventsAreWhole
  <2>3. wire' \in Seq(Whole)
    BY <1>0, <1>5, <2>2 DEF Skips, Sends
  <2> QED
    BY <1>0, <1>5, <2>3 DEF Skips, Sends, PathTypes
<1>6. CASE log' = log /\ StreamEnds
  <2>1. wire' \in Seq(Whole)
    BY <1>6, WireCut
  <2> QED
    BY <1>6, <2>1 DEF StreamEnds, PathTypes
<1>7. CASE log' = log /\ ReadEvent
  <2>1. Tail(wire) \in Seq(Whole) /\ Head(wire) \in Whole
    BY <1>0, <1>7, Left DEF ReadEvent
  <2>2. /\ Head(wire).id \in Id /\ Head(wire).of \in SUBSET (1 .. MaxLog)
        /\ Head(wire) # None
    BY <2>1, WholeFields
  <2>3. /\ {lastId', resume', base'} \subseteq Id /\ told' \subseteq 1 .. MaxLog
        /\ wire' \in Seq(Whole)
    BY <1>7, <2>1, <2>2 DEF ReadEvent, PathTypes
  <2>4. /\ pump = "reading" /\ item = None
        /\ pump' \in {"reading", "putting"} /\ item' \in Whole \cup {None}
        /\ pump' = "putting" <=> item' # None
    BY <1>7, <2>1, <2>2 DEF ReadEvent, PathTypes
  <2> QED
    BY <1>7, <2>3, <2>4 DEF ReadEvent, PathTypes
<1>8. CASE log' = log /\ PutReturns
  <2>1. item \in Whole /\ item # None
    BY <1>8 DEF PutReturns, PathTypes
  <2>2. queue' \in Seq(Whole) /\ item.of \in SUBSET (1 .. MaxLog) /\ item' = None
    BY <1>0, <1>8, <2>1, WholeFields DEF PutReturns
  <2>3. CASE item.kind = "gap"
    <3>1. /\ stream' = "none" /\ pump' = "none" /\ wire' = <<>> /\ resume' \in {lastId, resume}
          /\ told' = told \cup item.of /\ UNCHANGED <<log, served, base, got, lastId>>
      BY <1>8, <2>3 DEF PutReturns, AfterPut, SendRefused, EpochOver, Harvest
    <3>2. wire' \in Seq(Whole) /\ (pump' = "putting" <=> item' # None)
      BY <2>2, <3>1
    <3>3. {lastId', resume', base'} \subseteq Id /\ told' \subseteq 1 .. MaxLog
      BY <2>2, <3>1 DEF PathTypes
    <3>4. log' \in 0 .. MaxLog /\ served' \in 0 .. log' /\ got' \in 0 .. log'
      BY <1>0, <3>1
    <3> QED
      BY <2>2, <3>1, <3>2, <3>3, <3>4 DEF PathTypes
  <2>4. CASE item.kind # "gap"
    BY <1>8, <2>2, <2>4 DEF PutReturns, AfterPut, PathTypes
  <2> QED
    BY <2>3, <2>4
<1>9. CASE log' = log /\ PumpEnds
  BY <1>9 DEF PumpEnds, EpochOver, Harvest, PathTypes
<1>10. CASE log' = log /\ Bounce
  <2>1. wire' \in Seq(Whole)
    BY <1>10, WireCut
  <2> QED
    BY <1>10, <2>1 DEF Bounce, PathTypes
<1>11. CASE log' = log /\ Consume
  <2>1. /\ Tail(queue) \in Seq(Whole) /\ Head(queue) \in Whole
        /\ Head(queue) = queue[1] /\ 1 \in 1 .. Len(queue)
    BY <1>0, <1>11, Left DEF Consume
  <2>2. Head(queue).of \in SUBSET (1 .. MaxLog)
    BY <2>1, WholeFields
  <2>3. Head(queue).kind = "message" => Head(queue).id \in 0 .. log
    <3>1. Cursor \in 0 .. log
      BY <1>0 DEF PathTypes, Cursors, Cursor, Id
    <3>2. Head(queue).kind = "message" =>
             /\ Head(queue).id # None /\ Head(queue).id \in Nat /\ Head(queue).id <= Cursor
      BY <1>0, <2>1, WholeFields DEF Ordering, InOrder, Id
    <3> QED
      BY <1>0, <3>1, <3>2
  <2> QED
    BY <1>11, <2>1, <2>2, <2>3 DEF Consume, PathTypes
<1>12. CASE log' = log /\ CloseClient
  BY <1>12 DEF CloseClient, PathTypes
<1> QED
  BY <1>0, <1>1, <1>2, <1>3, <1>4, <1>5, <1>6, <1>7, <1>8, <1>9, <1>10, <1>11, <1>12, StepIsOf

LEMMA CursorsStep ==
    ASSUME PathInv, [SseNext]_sseVars
    PROVE  Cursors'
<1> USE DEF PathInv
<1>0. /\ log \in 0 .. MaxLog /\ MaxLog \in Nat /\ served \in 0 .. log /\ wire \in Seq(Whole)
      /\ {lastId, resume, base} \subseteq Id
  BY DEF PathTypes
<1>1. CASE Elsewhere
  BY <1>0, <1>1 DEF Elsewhere, sse, Cursors, Cursor, Id
<1>2. CASE log' = log /\ (Dial \/ DialFails \/ DialBodyLost)
  BY <1>2 DEF Dial, DialFails, DialBodyLost, Cursors, Cursor
<1>3. CASE log' = log /\ DialAccepted
  <2>1. PICK s \in Starts(lastId) : served' = s.at
    BY <1>3 DEF DialAccepted
  <2>2. served' \in Cursor .. log
    BY <2>1, StartIsCovered
  <2>3. Cursor \in Nat
    BY <1>0 DEF Cursor, Id
  <2> QED
    BY <1>0, <1>3, <2>2, <2>3 DEF DialAccepted, Cursors, Cursor
<1>4. CASE log' = log /\ (Serves \/ Skips)
  BY <1>0, <1>4 DEF Serves, Skips, Sends, Cursors, Cursor, Id
<1>5. CASE log' = log /\ (StreamEnds \/ Bounce)
  BY <1>5 DEF StreamEnds, Bounce, Cursors, Cursor
<1>6. CASE log' = log /\ ReadEvent
  <2>1. /\ pump = "reading" /\ wire # <<>> /\ UNCHANGED <<stream, served, resume>>
        /\ lastId' = IF Head(wire).id = None THEN lastId ELSE Head(wire).id
        /\ base' = IF base = None THEN Head(wire).id ELSE base
    BY <1>6 DEF ReadEvent
  <2>2. stream \in {"open", "ended"}
    BY <2>1 DEF PathTypes
  <2>3. CASE Head(wire).id = None
    BY <1>6, <2>1, <2>2, <2>3 DEF Cursors, Cursor
  <2>4. CASE Head(wire).id # None
    <3>1. Head(wire).id \in Nat /\ Cursor \in Nat /\ Sent \in Nat /\ Sent <= log
      BY <1>0, <2>1, <2>4, Left, WholeFields DEF Id, Cursor, Sent
    <3>2. Cursor < Head(wire).id /\ Head(wire).id <= Sent
      BY <1>0, <2>1, <2>4, <3>1, InOrderLeft DEF Ordering
    <3>3. lastId' = Head(wire).id /\ Cursor' = Head(wire).id
      BY <2>1, <2>4, <3>1 DEF Cursor
    <3>4. base' # None /\ base' <= lastId'
      <4>1. CASE base = None
        BY <2>1, <2>4, <3>1, <3>3, <4>1
      <4>2. CASE base # None
        BY <1>0, <2>1, <3>1, <3>2, <3>3, <4>2 DEF Cursors, Cursor, Id
      <4> QED
        BY <4>1, <4>2
    <3>5. Cursor' <= log' /\ (stream' = "open" => Cursor' <= served')
      BY <1>0, <1>6, <2>1, <3>1, <3>2, <3>3 DEF Sent
    <3> QED
      BY <2>1, <2>2, <2>4, <3>3, <3>4, <3>5 DEF Cursors
  <2> QED
    BY <2>3, <2>4
<1>7. CASE log' = log /\ PutReturns
  <2>1. CASE item.kind = "gap"
    BY <1>7, <2>1, HarvestIsCursor DEF PutReturns, AfterPut, SendRefused, EpochOver, Cursors,
                                       Cursor
  <2>2. CASE item.kind # "gap"
    BY <1>7, <2>2 DEF PutReturns, AfterPut, Cursors, Cursor
  <2> QED
    BY <2>1, <2>2
<1>8. CASE log' = log /\ PumpEnds
  BY <1>8, HarvestIsCursor DEF PumpEnds, EpochOver, Cursors, Cursor
<1>9. CASE log' = log /\ (Consume \/ CloseClient)
  BY <1>9 DEF Consume, CloseClient, Cursors, Cursor
<1> QED
  BY <1>0, <1>1, <1>2, <1>3, <1>4, <1>5, <1>6, <1>7, <1>8, <1>9, StepIsOf

LEMMA OrderingKept ==
    ASSUME PathTypes, Ordering, UNCHANGED <<queue, got>>, item' \in {item, None},
           Cursor' = Cursor, InOrder(wire', Cursor, Sent')
    PROVE  Ordering'
BY DEF Ordering, InOrder

LEMMA WireKept ==
    ASSUME PathTypes, Ordering, UNCHANGED wire, Sent <= Sent', Sent' \in Nat
    PROVE  InOrder(wire', Cursor, Sent')
<1>1. /\ Cursor \in Nat /\ Sent \in Nat /\ wire \in Seq(Whole)
      /\ InOrder(wire, Cursor, Sent)
  BY DEF PathTypes, Ordering, Cursor, Sent, Id
<1>2. InOrder(wire, Cursor, Sent')
  BY <1>1, InOrderWider
<1> QED
  BY <1>2

LEMMA OrderingStep ==
    ASSUME PathInv, [SseNext]_sseVars
    PROVE  Ordering'
<1> USE DEF PathInv
<1>0. /\ log \in 0 .. MaxLog /\ MaxLog \in Nat /\ served \in 0 .. log /\ got \in 0 .. log
      /\ wire \in Seq(Whole) /\ queue \in Seq(Whole) /\ item \in Whole \cup {None}
      /\ Cursor \in Nat /\ Sent \in 0 .. log /\ Cursor <= log
  BY DEF PathTypes, Cursors, Cursor, Sent, Id
<1>1. ASSUME NEW above, NEW upTo PROVE InOrder(<<>>, above, upTo)
  BY DEF InOrder
<1>2. CASE Elsewhere
  <2>1. Sent <= Sent' /\ Sent' \in Nat /\ Cursor' = Cursor /\ UNCHANGED <<wire, queue, got, item>>
    BY <1>0, <1>2 DEF Elsewhere, sse, Sent, Cursor
  <2> QED
    BY <2>1, WireKept, OrderingKept
<1>3. CASE log' = log /\ (Dial \/ DialFails \/ DialBodyLost \/ PumpEnds \/ CloseClient)
  <2>1. Cursor' = Cursor
    BY <1>3 DEF Dial, DialFails, DialBodyLost, PumpEnds, EpochOver, CloseClient,
                Cursors, Cursor
  <2>2. wire' = <<>> /\ item' \in {item, None} /\ UNCHANGED <<queue, got>>
    BY <1>3 DEF Dial, DialFails, DialBodyLost, PumpEnds, EpochOver, CloseClient,
                PathTypes
  <2> QED
    BY <1>1, <2>1, <2>2, OrderingKept
<1>4. CASE log' = log /\ DialAccepted
  <2>1. PICK s \in Starts(lastId) : wire' = s.first /\ served' = s.at
    BY <1>4 DEF DialAccepted
  <2>2. Cursor' = Cursor /\ Sent' = s.at
    BY <1>4, <2>1 DEF DialAccepted, Cursor, Sent
  <2>3. InOrder(wire', Cursor, Sent')
    <3>1. \A n \in 1 .. Len(wire') : wire'[n].id # None =>
             n = 1 /\ lastId # None /\ wire'[n].id = lastId + 1 /\ lastId + 1 <= Sent'
      BY <2>1, <2>2, StartIsCovered
    <3>2. lastId # None => Cursor < lastId + 1
      BY <1>0 DEF Cursor
    <3> QED
      BY <3>1, <3>2 DEF InOrder
  <2> QED
    BY <1>4, <2>2, <2>3, OrderingKept DEF DialAccepted
<1>5. CASE log' = log /\ Serves
  <2>1. /\ served < log /\ stream = "open" /\ wire' = Append(wire, Entry(served + 1))
        /\ served' = served + 1 /\ UNCHANGED <<stream, lastId, queue, item, got>>
    BY <1>5 DEF Serves, Sends
  <2>2. /\ Entry(served + 1) \in Whole /\ Entry(served + 1).id = served + 1
        /\ Cursor' = Cursor /\ Sent' = served + 1 /\ Sent = served /\ Cursor <= served
    BY <1>0, <2>1, EventsAreWhole DEF Cursors, Cursor, Sent
  <2>3. InOrder(wire, Cursor, served) /\ InOrder(wire, Cursor, served + 1)
    BY <1>0, <2>2, InOrderWider DEF Ordering
  <2>4. InOrder(wire', Cursor, served + 1)
    <3> DEFINE e == Entry(served + 1)
    <3>1. e.id = served + 1 /\ e \in Whole /\ e.id - 1 = served
      BY <1>0, <2>2
    <3> HIDE DEF e
    <3>2. Cursor < e.id /\ e.id <= served + 1 /\ InOrder(wire, Cursor, e.id - 1)
      BY <1>0, <2>2, <2>3, <3>1
    <3>3. InOrder(Append(wire, e), Cursor, served + 1)
      BY <1>0, <2>3, <3>1, <3>2, InOrderEntered
    <3> QED
      BY <2>1, <3>3 DEF e
  <2> QED
    BY <2>1, <2>2, <2>4, OrderingKept
<1>6. CASE log' = log /\ Skips
  <2> DEFINE e == Event("gap", None, served + 1 .. log)
  <2>1. /\ served < log /\ stream = "open" /\ wire' = Append(wire, e)
        /\ served' = log /\ UNCHANGED <<stream, lastId, queue, item, got>>
    BY <1>6 DEF Skips, Sends
  <2>2. e \in Whole /\ e.id = None
    <3>1. served + 1 .. log \in SUBSET (1 .. MaxLog)
      BY <1>0
    <3> QED
      BY <3>1, EventsAreWhole
  <2> HIDE DEF e
  <2>3. Cursor' = Cursor /\ Sent' = log /\ Sent = served
    BY <1>6, <2>1 DEF Cursor, Sent
  <2>4. InOrder(wire, Cursor, log)
    BY <1>0, <2>1, <2>3, InOrderWider DEF Ordering
  <2>5. InOrder(wire', Cursor, log)
    BY <1>0, <2>1, <2>2, <2>4, InOrderEntered
  <2> QED
    BY <2>1, <2>3, <2>5, OrderingKept
<1>7. CASE log' = log /\ (StreamEnds \/ Bounce)
  <2>1. /\ Cursor' = Cursor /\ Sent' = log /\ Sent <= log /\ UNCHANGED <<queue, item, got>>
    BY <1>0, <1>7 DEF StreamEnds, Bounce, Cursor, Sent
  <2>2. InOrder(wire', Cursor, Sent)
    BY <1>0, <1>7, WireCut, InOrderCut DEF Ordering
  <2>3. InOrder(wire', Cursor, Sent')
    BY <1>0, <1>7, <2>1, <2>2, WireCut, InOrderWider
  <2> QED
    BY <2>1, <2>3, OrderingKept
<1>8. CASE log' = log /\ ReadEvent
  <2> DEFINE e == Head(wire)
  <2>1. /\ pump = "reading" /\ wire # <<>> /\ wire' = Tail(wire)
        /\ lastId' = IF e.id = None THEN lastId ELSE e.id
        /\ UNCHANGED <<stream, served, queue, got>> /\ item' \in {item, e}
    BY <1>8 DEF ReadEvent
  <2>2. item = None /\ Sent' = Sent
    BY <1>8, <2>1 DEF PathTypes, Sent
  <2>3. /\ e \in Whole /\ InOrder(Tail(wire), Cursor, Sent)
        /\ e.id # None => Cursor < e.id /\ e.id <= Sent /\ InOrder(Tail(wire), e.id, Sent)
    BY <1>0, <2>1, Left, InOrderLeft DEF Ordering
  <2> HIDE DEF e
  <2>4. CASE e.id = None
    <3>1. Cursor' = Cursor
      BY <2>1, <2>4 DEF Cursor
    <3> QED
      BY <2>1, <2>2, <2>3, <2>4, <3>1 DEF Ordering, InOrder
  <2>5. CASE e.id # None
    <3>1. e.id \in Nat /\ Cursor' = e.id
      BY <2>1, <2>3, <2>5, WholeFields DEF Cursor, Id
    <3>2. /\ got <= Cursor' /\ Cursor <= e.id - 1 /\ Cursor <= Cursor'
          /\ got < e.id
      BY <1>0, <2>3, <2>5, <3>1 DEF Ordering
    <3>3. InOrder(queue, got, Cursor') /\ InOrder(queue, got, e.id - 1)
      BY <1>0, <3>1, <3>2, InOrderWider DEF Ordering
    <3> QED
      BY <2>1, <2>2, <2>3, <2>5, <3>1, <3>2, <3>3 DEF Ordering
  <2> QED
    BY <2>4, <2>5
<1>9. CASE log' = log /\ PutReturns
  <2>1. /\ item \in Whole /\ queue' = Append(queue, item) /\ item' = None
        /\ UNCHANGED <<lastId, got>>
    BY <1>0, <1>9 DEF PutReturns, PathTypes, AfterPut, SendRefused, EpochOver
  <2>2. Cursor' = Cursor
    BY <2>1 DEF Cursor
  <2>3. InOrder(queue', got, Cursor)
    BY <1>0, <2>1, InOrderEntered, WholeFields DEF Ordering
  <2>4. InOrder(wire', Cursor, Sent')
    <3>1. CASE item.kind = "gap"
      BY <1>1, <1>9, <3>1 DEF PutReturns, AfterPut, SendRefused, EpochOver
    <3>2. CASE item.kind # "gap"
      BY <1>9, <3>2 DEF PutReturns, AfterPut, Ordering, Sent
    <3> QED
      BY <3>1, <3>2
  <2> QED
    BY <2>1, <2>2, <2>3, <2>4 DEF Ordering
<1>10. CASE log' = log /\ Consume
  <2> DEFINE e == Head(queue)
  <2>1. /\ queue # <<>> /\ queue' = Tail(queue) /\ UNCHANGED <<stream, wire, served, lastId, item>>
        /\ got' = IF e.kind = "message" THEN e.id ELSE got
    BY <1>10 DEF Consume
  <2>2. Cursor' = Cursor /\ Sent' = Sent
    BY <1>10, <2>1 DEF Cursor, Sent
  <2>3. /\ e \in Whole /\ InOrder(Tail(queue), got, Cursor)
        /\ e.id # None => got < e.id /\ e.id <= Cursor /\ InOrder(Tail(queue), e.id, Cursor)
    BY <1>0, <2>1, Left, InOrderLeft DEF Ordering
  <2>4. item # None /\ item.id # None =>
           /\ item.id \in Nat /\ InOrder(Tail(queue), got, item.id - 1)
           /\ e.id # None => e.id <= item.id - 1 /\ InOrder(Tail(queue), e.id, item.id - 1)
    <3> SUFFICES ASSUME item # None, item.id # None
                 PROVE  /\ item.id \in Nat /\ InOrder(Tail(queue), got, item.id - 1)
                        /\ e.id # None => /\ e.id <= item.id - 1
                                          /\ InOrder(Tail(queue), e.id, item.id - 1)
      OBVIOUS
    <3>1. item.id \in Nat /\ InOrder(queue, got, item.id - 1)
      BY <1>0, WholeFields DEF Ordering, Id
    <3> DEFINE top == item.id - 1
    <3>2. top \in Int /\ InOrder(queue, got, top)
      BY <3>1
    <3> HIDE DEF top
    <3>3. /\ InOrder(Tail(queue), got, top)
          /\ e.id # None => e.id <= top /\ InOrder(Tail(queue), e.id, top)
      BY <1>0, <2>1, <3>2, InOrderLeft
    <3> QED
      BY <3>1, <3>3 DEF top
  <2> HIDE DEF e
  <2>5. e.id # None => e.id \in Nat
    BY <2>3, WholeFields DEF Id
  <2>6. CASE e.kind = "message"
    <3>1. e.id # None /\ got' = e.id
      BY <2>1, <2>3, <2>6, WholeFields
    <3>2. item # None /\ item.id # None => got' < item.id /\ item.id <= Cursor
      BY <2>4, <2>5, <3>1 DEF Ordering
    <3> QED
      BY <2>1, <2>2, <2>3, <2>4, <3>1, <3>2 DEF Ordering
  <2>7. CASE e.kind # "message"
    BY <2>1, <2>2, <2>3, <2>4, <2>7 DEF Ordering
  <2> QED
    BY <2>6, <2>7
<1> QED
  BY <1>0, <1>2, <1>3, <1>4, <1>5, <1>6, <1>7, <1>8, <1>9, <1>10, StepIsOf

\* When nothing is on the wire, only what is behind the cursor counts.
LEMMA CoverageOffWire ==
    ASSUME Coverage, stream \notin Finished, stream' # "open", wire' = <<>>,
           UNCHANGED <<log, lastId, base>>,
           \A i \in 1 .. log : Covered(i, 0) => Covered(i, 0)'
    PROVE  Coverage'
BY DEF Coverage

\* Coverage when the cursor stays: what is on the wire stays too, but for
\* its end, and what is still owed was owed.
LEMMA CoverageKept ==
    ASSUME PathTypes, Cursors, Coverage, Ordering, stream \notin Finished,
           Len(wire') <= Len(wire), Len(wire') \in Nat,
           \A n \in 1 .. Len(wire') : wire'[n] = wire[n],
           log <= log', log' \in Nat, UNCHANGED <<lastId, base, served>>,
           stream' = "open" => stream = "open" /\ wire' = wire,
           \A i \in 1 .. log : Known(i) => Known(i)',
           \A i \in 1 .. log : item # None /\ Holds(item, i) => Covered(i, 0)',
           \A i \in 1 .. log, m \in 1 .. Len(queue) : Holds(queue[m], i) => Covered(i, 0)'
    PROVE  Coverage'
<1>0. /\ log \in Nat /\ wire \in Seq(Whole) /\ Len(wire) \in Nat /\ served \in 0 .. log
      /\ base # None => lastId \in Nat /\ lastId <= log /\ base \in Nat
  BY DEF PathTypes, Cursors, Cursor, Id
<1>1. \A n \in 1 .. Len(wire') : n \in 1 .. Len(wire) /\ wire'[n] = wire[n]
  BY <1>0
<1>2. ASSUME NEW i \in 1 .. log, NEW n \in 0 .. Len(wire'), Covered(i, n)
      PROVE  Covered(i, n)'
  <2>1. \A m \in 1 .. n : wire'[m] = wire[m]
    BY <1>0
  <2>2. Covered(i, 0)' => Covered(i, n)'
    BY DEF Covered
  <2> QED
    BY <1>2, <2>1, <2>2 DEF Covered
<1>3. ASSUME NEW i, Owes(i)' PROVE Owes(i)
  BY <1>1, <1>3 DEF Owes
<1>4. \A n \in 1 .. Len(wire') : wire'[n].id # None => wire'[n].id \in Nat /\ wire'[n].id <= log
  <2> SUFFICES ASSUME NEW n \in 1 .. Len(wire'), wire'[n].id # None
               PROVE  wire'[n].id \in Nat /\ wire'[n].id <= log
    OBVIOUS
  <2>1. wire[n].id \in Nat
    BY <1>0, <1>1, WholeFields DEF Id
  <2>2. wire[n].id <= Sent /\ Sent <= log
    BY <1>0, <1>1 DEF Ordering, InOrder, Sent
  <2> QED
    BY <1>0, <1>1, <2>1, <2>2 DEF Sent
<1> SUFFICES ASSUME ~Cuts, stream' \notin Finished
             PROVE  /\ \A i \in 1 .. log' :
                          base' # None /\ base' <= i /\ i <= lastId' => Covered(i, 0)'
                    /\ \A n \in 1 .. Len(wire') : wire'[n].id # None =>
                          \A i \in 1 .. log' : Owes(i)' /\ i <= wire'[n].id => Covered(i, n)'
                    /\ stream' = "open" =>
                          \A i \in 1 .. served' : Owes(i)' => Covered(i, Len(wire))'
  BY DEF Coverage
<1>5. \A i \in 1 .. log' : base' # None /\ base' <= i /\ i <= lastId' => Covered(i, 0)'
  <2> SUFFICES ASSUME NEW i \in 1 .. log', base # None, base <= i, i <= lastId
               PROVE  Covered(i, 0)'
    OBVIOUS
  <2>1. i \in 1 .. log
    BY <1>0
  <2> QED
    BY <1>2, <2>1 DEF Coverage
<1>6. ASSUME NEW n \in 1 .. Len(wire'), wire'[n].id # None,
             NEW i \in 1 .. log', Owes(i)', i <= wire'[n].id
      PROVE  Covered(i, n)'
  <2>1. i \in 1 .. log /\ Owes(i) /\ i <= wire[n].id /\ wire[n].id # None
    BY <1>0, <1>1, <1>3, <1>4, <1>6
  <2>2. Covered(i, n)
    BY <1>1, <2>1 DEF Coverage
  <2> QED
    BY <1>2, <2>1, <2>2
<1>7. ASSUME stream' = "open", NEW i \in 1 .. served, Owes(i)'
      PROVE  Covered(i, Len(wire))'
  <2>1. i \in 1 .. log /\ Owes(i) /\ stream = "open" /\ wire' = wire
    BY <1>0, <1>3, <1>7
  <2>2. Covered(i, Len(wire))
    BY <2>1 DEF Coverage
  <2> DEFINE n == Len(wire)
  <2>3. n \in 0 .. Len(wire') /\ Covered(i, n) /\ n' = n
    BY <1>0, <2>1, <2>2
  <2> QED
    BY <1>2, <2>1, <2>3 DEF Covered
<1> QED
  BY <1>5, <1>6, <1>7

\* A dial that is accepted: the server accounts for what follows the cursor.
LEMMA DialCovers ==
    ASSUME PathTypes, Cursors, Coverage, DialAccepted, UNCHANGED log
    PROVE  Coverage'
<1>0. /\ log \in Nat /\ Cursor \in Nat /\ Cursor <= log
      /\ base # None => lastId \in Nat /\ base \in Nat /\ base <= lastId /\ lastId <= log
      /\ base = None <=> lastId = None
      /\ lastId # None => lastId \in Nat
  BY DEF PathTypes, Cursors, Cursor, Id
<1>1. PICK s \in Starts(lastId) : wire' = s.first /\ served' = s.at
  BY DEF DialAccepted
<1>2. /\ stream = "dialing" /\ stream' = "open" /\ stream \notin Finished
      /\ UNCHANGED <<lastId, item, queue, base, got, told>>
  BY DEF DialAccepted, Finished
<1>3. /\ served' \in Cursor .. log
      /\ \A n \in 1 .. Len(wire') : wire'[n].id # None =>
            n = 1 /\ lastId # None /\ wire'[n].id = lastId + 1 /\ Holds(wire'[n], lastId + 1)
      /\ lastId # None => \A i \in lastId + 1 .. served' :
            \E m \in 1 .. Len(wire') : Holds(wire'[m], i)
  BY <1>1, StartIsCovered
<1>4. Len(wire') \in Nat
  BY <1>1, StartIsCovered
<1> SUFFICES ASSUME ~Cuts PROVE Coverage'
  BY DEF Coverage
<1>5. ASSUME NEW i, NEW n \in Nat, Covered(i, 0) PROVE Covered(i, n)'
  BY <1>2, <1>5 DEF Covered, Known
<1>6. ASSUME NEW i \in 1 .. log', base' # None, base' <= i, i <= lastId'
      PROVE  Covered(i, 0)'
  <2>1. Covered(i, 0)
    BY <1>2, <1>6 DEF Coverage
  <2> QED
    BY <1>5, <2>1
<1>7. ASSUME NEW i \in 1 .. log, Owes(i)'
      PROVE  lastId # None /\ (i <= lastId => base # None /\ base <= i)
  <2>1. CASE base' # None /\ base' <= i
    BY <1>0, <1>2, <2>1
  <2>2. CASE \E n \in 1 .. Len(wire') : wire'[n].id # None /\ wire'[n].id <= i
    <3>1. lastId # None /\ lastId + 1 <= i
      BY <1>3, <2>2
    <3>2. ~(i <= lastId)
      BY <1>0, <3>1
    <3> QED
      BY <3>1, <3>2
  <2> QED
    BY <1>7, <2>1, <2>2 DEF Owes
<1>8. ASSUME NEW i \in 1 .. log, Owes(i)', i <= lastId, NEW n \in Nat
      PROVE  Covered(i, n)'
  <2>1. Covered(i, 0)
    BY <1>2, <1>7, <1>8 DEF Coverage
  <2> QED
    BY <1>5, <2>1
<1>9. ASSUME NEW n \in 1 .. Len(wire'), wire'[n].id # None,
             NEW i \in 1 .. log', Owes(i)', i <= wire'[n].id
      PROVE  Covered(i, n)'
  <2>1. n = 1 /\ lastId # None /\ wire'[n].id = lastId + 1 /\ Holds(wire'[n], lastId + 1)
    BY <1>3, <1>9
  <2>2. i = lastId + 1 \/ i <= lastId
    BY <1>0, <1>9, <2>1
  <2>3. CASE i = lastId + 1
    BY <2>1, <2>3 DEF Covered
  <2>4. CASE i <= lastId
    BY <1>8, <1>9, <2>1, <2>4
  <2> QED
    BY <2>2, <2>3, <2>4
<1>10. ASSUME NEW i \in 1 .. served', Owes(i)'
       PROVE  Covered(i, Len(wire))'
  <2>1. i \in 1 .. log
    BY <1>0, <1>3
  <2>2. lastId # None /\ (i <= lastId \/ i \in lastId + 1 .. served')
    BY <1>0, <1>7, <1>10, <2>1
  <2>3. CASE i <= lastId
    BY <1>4, <1>8, <1>10, <2>1, <2>3
  <2>4. CASE i \in lastId + 1 .. served'
    BY <1>3, <2>2, <2>4 DEF Covered
  <2> QED
    BY <2>2, <2>3, <2>4
<1> QED
  BY <1>6, <1>9, <1>10 DEF Coverage

\* What the server sends next accounts for every entry up to where it gets.
LEMMA SendCovers ==
    ASSUME PathTypes, Cursors, Ordering, Coverage, UNCHANGED log,
           NEW e \in Whole, NEW upTo \in served + 1 .. log, Sends(e, upTo),
           e.id # None => e.id = upTo,
           \A i \in served + 1 .. upTo : Holds(e, i)
    PROVE  Coverage'
<1>0. /\ log \in Nat /\ wire \in Seq(Whole) /\ Len(wire) \in Nat /\ served \in Nat
      /\ served < upTo /\ upTo <= log
  BY DEF PathTypes
<1>1. /\ stream = "open" /\ stream \notin Finished /\ stream' = "open"
      /\ wire' = Append(wire, e) /\ served' = upTo
      /\ UNCHANGED <<lastId, item, queue, base, got, told>>
  BY DEF Sends, Finished
<1>2. /\ Len(wire') = Len(wire) + 1 /\ wire'[Len(wire) + 1] = e
      /\ \A n \in 1 .. Len(wire) : wire'[n] = wire[n]
      /\ \A n \in 1 .. Len(wire') : n = Len(wire) + 1 \/ n \in 1 .. Len(wire)
  BY <1>0, <1>1, Entered
<1>3. ASSUME NEW i, NEW n \in 0 .. Len(wire), NEW k \in Nat, n <= k, Covered(i, n)
      PROVE  Covered(i, k)'
  <2>1. \A m \in 1 .. n : m \in 1 .. k /\ wire'[m] = wire[m]
    BY <1>0, <1>2, <1>3
  <2> QED
    BY <1>1, <1>3, <2>1 DEF Covered, Known
<1>4. \A n \in 1 .. Len(wire) : wire[n].id # None => wire[n].id \in Nat /\ wire[n].id <= served
  <2>1. \A n \in 1 .. Len(wire) : wire[n].id # None => wire[n].id \in Nat
    BY <1>0, WholeFields DEF Id
  <2> QED
    BY <1>0, <1>1, <2>1 DEF Ordering, InOrder, Sent
<1>5. ASSUME NEW i \in 1 .. log, Owes(i)', i < upTo \/ e.id = None PROVE Owes(i)
  <2>1. ~(e.id # None /\ e.id <= i)
    BY <1>0, <1>5
  <2> QED
    BY <1>1, <1>2, <1>5, <2>1 DEF Owes
<1> SUFFICES ASSUME ~Cuts PROVE Coverage'
  BY DEF Coverage
<1>6. ASSUME NEW i \in 1 .. log', base' # None, base' <= i, i <= lastId'
      PROVE  Covered(i, 0)'
  <2>1. Covered(i, 0)
    BY <1>1, <1>6 DEF Coverage
  <2> QED
    BY <1>0, <1>3, <2>1
<1>7. ASSUME NEW i \in 1 .. upTo, Owes(i)', NEW k \in Nat, k = Len(wire) + 1
      PROVE  Covered(i, k)'
  <2>1. CASE i \in served + 1 .. upTo
    BY <1>0, <1>2, <1>7, <2>1 DEF Covered
  <2>2. CASE i <= served
    <3>1. i \in 1 .. served /\ Owes(i)
      BY <1>0, <1>5, <1>7, <2>2
    <3>2. Covered(i, Len(wire))
      BY <1>1, <3>1 DEF Coverage
    <3> QED
      BY <1>0, <1>3, <1>7, <3>2
  <2> QED
    BY <1>0, <1>7, <2>1, <2>2
<1>8. ASSUME NEW n \in 1 .. Len(wire'), wire'[n].id # None,
             NEW i \in 1 .. log', Owes(i)', i <= wire'[n].id
      PROVE  Covered(i, n)'
  <2>1. CASE n = Len(wire) + 1
    <3>1. i \in 1 .. upTo
      BY <1>0, <1>2, <1>8, <2>1
    <3> QED
      BY <1>0, <1>7, <1>8, <2>1, <3>1
  <2>2. CASE n \in 1 .. Len(wire)
    <3>1. /\ i \in 1 .. log /\ wire[n].id # None /\ i <= wire[n].id
          /\ wire[n].id \in Nat /\ wire[n].id <= served
      BY <1>2, <1>4, <1>8, <2>2
    <3>2. Owes(i)
      BY <1>0, <1>5, <1>8, <3>1
    <3>3. Covered(i, n)
      BY <1>1, <2>2, <3>1, <3>2 DEF Coverage
    <3> QED
      BY <1>0, <1>3, <2>2, <3>3
  <2> QED
    BY <1>2, <1>8, <2>1, <2>2
<1>9. ASSUME NEW i \in 1 .. served', Owes(i)'
      PROVE  Covered(i, Len(wire))'
  <2>1. PICK k \in Nat : k = Len(wire')
    BY <1>0, <1>2
  <2>2. k = Len(wire) + 1 /\ i \in 1 .. upTo
    BY <1>1, <1>2, <2>1
  <2>3. Covered(i, k)'
    BY <1>7, <1>9, <2>1, <2>2
  <2> QED
    BY <2>1, <2>3 DEF Covered
<1> QED
  BY <1>6, <1>8, <1>9 DEF Coverage

\* Reading an event moves it into the blocked put, or reports it, and the
\* cursor with it.
LEMMA ReadCovers ==
    ASSUME PathTypes, Cursors, Ordering, Coverage, ReadEvent, UNCHANGED log
    PROVE  Coverage'
<1> DEFINE e == Head(wire)
<1>1. /\ pump = "reading" /\ wire # <<>> /\ wire' = Tail(wire)
      /\ lastId' = IF e.id = None THEN lastId ELSE e.id
      /\ base' = IF base = None THEN e.id ELSE base
      /\ told' = IF e.kind = "truncated" THEN told \cup e.of ELSE told
      /\ Puts(e) => item' = e
      /\ UNCHANGED <<stream, served, queue, got>>
  BY DEF ReadEvent
<1>2. /\ log \in Nat /\ wire \in Seq(Whole) /\ item = None /\ served \in 0 .. log
      /\ stream \notin Finished
  BY <1>1 DEF PathTypes, Finished
<1>3. /\ Len(wire') = Len(wire) - 1 /\ Len(wire) \in Nat \ {0} /\ e = wire[1] /\ e \in Whole
      /\ 1 \in 1 .. Len(wire)
      /\ \A n \in 1 .. Len(wire') : n + 1 \in 1 .. Len(wire) /\ wire'[n] = wire[n + 1]
  BY <1>1, <1>2, Left
<1>4. /\ e.kind \in {"message", "gap", "no_replay", "truncated", "cut"}
      /\ e.kind = "cut" => Cuts
      /\ e.id # None => e.id \in 1 .. MaxLog /\ e.id <= log
  <2>1. e.id # None => e.id \in 1 .. MaxLog
    BY <1>3, WholeFields DEF Id
  <2>2. e.id # None => e.id <= log
    <3>1. e.id # None => e.id <= Sent /\ Sent \in Nat /\ Sent <= log
      BY <1>2, <1>3 DEF Ordering, InOrder, Sent
    <3> QED
      BY <1>2, <2>1, <3>1
  <2> QED
    BY <1>3, <2>1, <2>2, WholeFields
<1>5. e.id # None => e.kind \in {"message", "cut"}
  BY <1>3, WholeFields
<1>6. e.kind = "message" => e.id # None
  BY <1>3, WholeFields
<1> HIDE DEF e
<1> SUFFICES ASSUME ~Cuts PROVE Coverage'
  BY DEF Coverage
<1>7. ASSUME NEW i, NEW n \in Nat, n <= Len(wire'), Covered(i, n + 1)
      PROVE  Covered(i, n)'
  <2>1. Holds(e, i) => Covered(i, n)'
    <3>1. CASE Puts(e)
      <4>1. item' = e /\ e # None
        BY <1>1, <1>3, <3>1, WholeFields
      <4> QED
        BY <4>1 DEF Covered
    <3>2. CASE ~Puts(e)
      <4>1. e.kind = "truncated"
        BY <1>4, <3>2 DEF Puts
      <4> QED
        BY <1>1, <4>1 DEF Covered, Known, Holds
    <3> QED
      BY <3>1, <3>2
  <2>2. \A m \in 1 .. n + 1 : m = 1 \/ (m - 1 \in 1 .. n /\ wire'[m - 1] = wire[m])
    BY <1>3, <1>7
  <2>3. ASSUME NEW m \in 1 .. n + 1, Holds(wire[m], i) PROVE Covered(i, n)'
    BY <1>3, <2>1, <2>2, <2>3 DEF Covered
  <2>4. Known(i) => Known(i)'
    BY <1>1 DEF Known
  <2> QED
    BY <1>1, <1>2, <1>7, <2>3, <2>4 DEF Covered
<1>8. ASSUME NEW i, Covered(i, 0) PROVE Covered(i, 1)
  BY <1>8 DEF Covered
<1>9. ASSUME NEW i \in 1 .. log, Owes(i)' PROVE Owes(i)
  <2>1. CASE base' # None /\ base' <= i
    BY <1>1, <1>3, <2>1 DEF Owes
  <2>2. CASE \E n \in 1 .. Len(wire') : wire'[n].id # None /\ wire'[n].id <= i
    BY <1>3, <2>2 DEF Owes
  <2> QED
    BY <1>9, <2>1, <2>2 DEF Owes
<1>10. ASSUME NEW i \in 1 .. log', base' # None, base' <= i, i <= lastId'
       PROVE  Covered(i, 0)'
  <2>1. i \in 1 .. log /\ Owes(i)
    BY <1>9, <1>10 DEF Owes
  <2>2. Covered(i, 1)
    <3>1. CASE e.id = None
      BY <1>1, <1>2, <1>8, <1>10, <2>1, <3>1 DEF Coverage
    <3>2. CASE e.id # None
      BY <1>1, <1>2, <1>3, <1>10, <2>1, <3>2 DEF Coverage
    <3> QED
      BY <3>1, <3>2
  <2>3. 0 \in Nat /\ 0 <= Len(wire') /\ Covered(i, 0 + 1)
    BY <1>3, <2>2
  <2> QED
    BY <1>7, <2>3
<1>11. ASSUME NEW n \in 1 .. Len(wire'), wire'[n].id # None,
              NEW i \in 1 .. log', Owes(i)', i <= wire'[n].id
       PROVE  Covered(i, n)'
  <2>1. i \in 1 .. log /\ Owes(i) /\ n + 1 \in 1 .. Len(wire) /\ wire'[n] = wire[n + 1]
    BY <1>3, <1>9, <1>11
  <2>2. Covered(i, n + 1)
    BY <1>2, <1>11, <2>1 DEF Coverage
  <2> QED
    BY <1>3, <1>7, <2>2
<1>12. ASSUME stream' = "open", NEW i \in 1 .. served', Owes(i)'
       PROVE  Covered(i, Len(wire))'
  <2>1. PICK k \in Nat : k = Len(wire')
    BY <1>3
  <2>2. i \in 1 .. log /\ i \in 1 .. served /\ Owes(i) /\ stream = "open"
    BY <1>1, <1>2, <1>9, <1>12
  <2>3. Covered(i, Len(wire)) /\ Len(wire) = k + 1
    BY <1>2, <1>3, <2>1, <2>2 DEF Coverage
  <2>4. Covered(i, k)'
    BY <1>7, <2>1, <2>3
  <2> QED
    BY <2>1, <2>4 DEF Covered
<1> QED
  BY <1>10, <1>11, <1>12 DEF Coverage

LEMMA CoverageStep ==
    ASSUME PathInv, [SseNext]_sseVars
    PROVE  Coverage'
<1> USE DEF PathInv
<1>0. /\ log \in 0 .. MaxLog /\ MaxLog \in Nat /\ served \in 0 .. log /\ got \in 0 .. log
      /\ wire \in Seq(Whole) /\ queue \in Seq(Whole) /\ Len(wire) \in Nat /\ Len(queue) \in Nat
  BY DEF PathTypes
<1> SUFFICES ASSUME ~Cuts, stream' \notin Finished PROVE Coverage'
  BY DEF Coverage
<1>1. CASE Elsewhere
  <2>1. /\ stream \notin Finished /\ UNCHANGED sse /\ log <= log' /\ log' \in Nat
    BY <1>0, <1>1 DEF Elsewhere, sse, Finished
  <2> QED
    BY <1>0, <2>1, CoverageKept DEF sse, Known, Covered
<1>2. CASE log' = log /\ (Dial \/ DialFails \/ Bounce)
  <2>1. /\ stream \notin Finished /\ stream' # "open" /\ wire' = <<>>
        /\ UNCHANGED <<log, lastId, base, item, queue, got, told>>
    BY <1>2 DEF Dial, DialFails, Bounce, Remains, PathTypes, Cursors, Finished
  <2> QED
    BY <2>1, CoverageOffWire DEF Covered, Known
<1>3. CASE log' = log /\ DialAccepted
  BY <1>3, DialCovers
<1>4. CASE log' = log /\ Serves
  <2> DEFINE e == Entry(served + 1)
             upTo == served + 1
  <2>1. upTo \in served + 1 .. log /\ Sends(e, upTo)
    BY <1>0, <1>4 DEF Serves
  <2>2. e \in Whole /\ e.id = upTo /\ e.kind = "message"
    BY <1>0, <2>1, EventsAreWhole
  <2>3. \A i \in served + 1 .. upTo : Holds(e, i)
    BY <1>0, <2>2 DEF Holds
  <2> HIDE DEF e, upTo
  <2> QED
    BY <1>4, <2>1, <2>2, <2>3, SendCovers
<1>5. CASE log' = log /\ Skips
  <2> DEFINE e == Event("gap", None, served + 1 .. log)
  <2>1. log \in served + 1 .. log /\ Sends(e, log)
    BY <1>0, <1>5 DEF Skips
  <2>2. e \in Whole /\ e.id = None /\ e.of = served + 1 .. log
    <3>1. served + 1 .. log \in SUBSET (1 .. MaxLog)
      BY <1>0
    <3> QED
      BY <3>1, EventsAreWhole
  <2>3. \A i \in served + 1 .. log : Holds(e, i)
    BY <2>2 DEF Holds
  <2> HIDE DEF e
  <2> QED
    BY <1>5, <2>1, <2>2, <2>3, SendCovers
<1>6. CASE log' = log /\ StreamEnds
  <2>1. /\ wire' \in Seq(Whole) /\ Len(wire') <= Len(wire)
        /\ \A n \in 1 .. Len(wire') : wire'[n] = wire[n]
    BY <1>6, WireCut
  <2>2. /\ stream \notin Finished /\ stream' = "ended"
        /\ UNCHANGED <<served, lastId, item, queue, base, got, told>>
    BY <1>6 DEF StreamEnds, Finished
  <2>3. Len(wire') \in Nat /\ log <= log' /\ log' \in Nat
    BY <1>0, <1>6, <2>1
  <2> QED
    BY <2>1, <2>2, <2>3, CoverageKept DEF Known, Covered
<1>7. CASE log' = log /\ ReadEvent
  BY <1>7, ReadCovers
<1>8. CASE log' = log /\ PutReturns
  <2>1. /\ item \in Whole /\ item # None /\ queue' = Append(queue, item)
        /\ stream \notin Finished /\ UNCHANGED <<lastId, base, got, served>> /\ told \subseteq told'
    BY <1>8 DEF PutReturns, PathTypes, AfterPut, SendRefused, EpochOver, Finished
  <2>2. /\ \A m \in 1 .. Len(queue) : m \in 1 .. Len(queue') /\ queue'[m] = queue[m]
        /\ Len(queue) + 1 \in 1 .. Len(queue') /\ queue'[Len(queue) + 1] = item
    BY <1>0, <2>1, Entered
  <2>3. ASSUME NEW i, Holds(item, i) PROVE Covered(i, 0)'
    BY <2>2, <2>3 DEF Covered
  <2>4. ASSUME NEW i, NEW m \in 1 .. Len(queue), Holds(queue[m], i) PROVE Covered(i, 0)'
    BY <2>2, <2>4 DEF Covered
  <2>5. ASSUME NEW i, Known(i) PROVE Known(i)'
    BY <2>1, <2>5 DEF Known
  <2>6. CASE item.kind = "gap"
    <3>1. stream' # "open" /\ wire' = <<>>
      BY <1>8, <2>6 DEF PutReturns, AfterPut, SendRefused, EpochOver
    <3>2. ASSUME NEW i, Covered(i, 0) PROVE Covered(i, 0)'
      BY <2>3, <2>4, <2>5, <3>2 DEF Covered
    <3> QED
      BY <1>8, <2>1, <3>1, <3>2, CoverageOffWire
  <2>7. CASE item.kind # "gap"
    <3>1. UNCHANGED <<stream, wire>>
      BY <1>8, <2>7 DEF PutReturns, AfterPut
    <3> QED
      BY <1>0, <1>8, <2>1, <2>3, <2>4, <2>5, <3>1, CoverageKept
  <2> QED
    BY <2>6, <2>7
<1>9. CASE log' = log /\ PumpEnds
  <2>1. /\ stream \notin Finished /\ stream' # "open" /\ wire' = <<>>
        /\ UNCHANGED <<log, lastId, base, item, queue, got, told>>
    BY <1>9 DEF PumpEnds, EpochOver, Finished
  <2> QED
    BY <2>1, CoverageOffWire DEF Covered, Known
<1>10. CASE log' = log /\ Consume
  <2> DEFINE e == Head(queue)
  <2>1. /\ queue # <<>> /\ queue' = Tail(queue)
        /\ UNCHANGED <<stream, wire, served, lastId, base, item>>
        /\ got' = IF e.kind = "message" THEN e.id ELSE got
        /\ told' = IF e.kind = "message" THEN told ELSE told \cup e.of
    BY <1>10 DEF Consume
  <2>2. /\ e = queue[1] /\ e \in Whole /\ Len(queue') = Len(queue) - 1
        /\ \A m \in 1 .. Len(queue') : queue'[m] = queue[m + 1]
        /\ 1 \in 1 .. Len(queue)
    BY <1>0, <2>1, Left
  <2>3. e.kind = "message" => e.id # None /\ e.of = {} /\ e.id \in Nat /\ got < e.id
    BY <1>0, <2>2, WholeFields DEF Ordering, InOrder, Id
  <2> HIDE DEF e
  <2>4. ASSUME NEW i \in 1 .. log, Known(i) PROVE Known(i)'
    BY <1>0, <2>1, <2>3, <2>4 DEF Known
  <2>5. ASSUME NEW i \in 1 .. log, Holds(e, i) PROVE Known(i)'
    BY <1>0, <2>1, <2>3, <2>5 DEF Known, Holds
  <2>6. ASSUME NEW i \in 1 .. log, NEW m \in 1 .. Len(queue), Holds(queue[m], i)
        PROVE  Covered(i, 0)'
    <3>1. CASE m = 1
      BY <2>2, <2>5, <2>6, <3>1 DEF Covered
    <3>2. CASE m # 1
      <4>1. m - 1 \in 1 .. Len(queue') /\ queue'[m - 1] = queue[m]
        BY <1>0, <2>2, <3>2
      <4> QED
        BY <2>6, <4>1 DEF Covered
    <3> QED
      BY <3>1, <3>2
  <2>7. ASSUME NEW i \in 1 .. log, item # None, Holds(item, i) PROVE Covered(i, 0)'
    BY <2>1, <2>7 DEF Covered
  <2>8. stream \notin Finished
    BY <2>1 DEF Finished
  <2> QED
    BY <1>0, <1>10, <2>1, <2>4, <2>6, <2>7, <2>8, CoverageKept
<1>11. CASE log' = log /\ (DialBodyLost \/ CloseClient)
  BY <1>11 DEF DialBodyLost, CloseClient, Finished
<1> QED
  BY <1>0, <1>1, <1>2, <1>3, <1>4, <1>5, <1>6, <1>7, <1>8, <1>9, <1>10, <1>11, StepIsOf

-----------------------------------------------------------------------------
(* What follows for the specification.                                     *)

\* The invariant of the path holds, wherever a stream may end.
THEOREM PathInvHolds == SseSpec => []PathInv
<1>1. PathInv /\ [SseNext]_sseVars => PathInv'
  BY TypesStep, CursorsStep, OrderingStep, CoverageStep DEF PathInv
<1> QED
  BY <1>1, PathInit, PTL DEF SseSpec

\* The invariant of the HTTP side holds, whoever answers.
LEMMA RestInvHolds == SseSpec => []RestInv
<1>1. PathInv /\ RestInv /\ [SseNext]_sseVars => RestInv'
  BY StepIsOf, RestStep, RestBounds DEF PathInv, PathTypes
<1> QED
  BY <1>1, PathInit, PathInvHolds, PTL DEF SseSpec

\* What a call of the REST API tells its caller is what the gateway did
\* (_http.py, rest.py, push.py), for any number of callers, if the answers come
\* from the gateway; with a redirect it does not hold (README, Deviations).
THEOREM AnswersTrue ==
    ASSUME ~Redirects
    PROVE  SseSpec => []AnswerIsTrue
<1>1. RestInv => AnswerIsTrue
  BY DEF RestInv, AnswerIsTrue, Truthful
<1> QED
  BY <1>1, RestInvHolds, PTL

\* What a redirect cannot falsify: an id that is returned is the id of what the
\* gateway made for this very call, and a rejection means it made nothing, so
\* the caller may try again (_http.py, rest.py, push.py).
IdsAndRejectionsTrue ==
    \A k \in Caller : Told(k) =>
        LET r == call[k].result
            made == call[k].made
        IN  /\ r.ok /\ r.id # None => made = r.id
            /\ ~r.ok /\ r.type \notin Unclear => made = None

\* This much holds whoever answers, the proxies before the gateway included.
THEOREM IdsAndRejectionsHold == SseSpec => []IdsAndRejectionsTrue
<1>1. RestInv => IdsAndRejectionsTrue
  BY DEF RestInv, IdsAndRejectionsTrue, Truthful
<1> QED
  BY <1>1, RestInvHolds, PTL

\* The consumer gets entries in the order of the log and each once (client.py,
\* the threading of the resume cursor), for any log, queue and number of
\* streams, also when a stream ends inside an event.
THEOREM EntriesInOrder == SseSpec => []InOrderOnce
<1>1. PathInv => InOrderOnce
  <2> SUFFICES ASSUME PathInv PROVE InOrderOnce
    OBVIOUS
  <2>0. /\ queue \in Seq(Whole) /\ wire \in Seq(Whole) /\ item \in Whole \cup {None}
        /\ got \in Nat /\ Cursor \in Nat /\ got <= Cursor /\ Sent \in Nat
        /\ InOrder(queue, got, Cursor) /\ InOrder(wire, Cursor, Sent)
    BY DEF PathInv, PathTypes, Ordering, Cursor, Sent, Id
  <2>1. PICK mid \in Nat : /\ got <= mid /\ mid <= Cursor /\ InOrder(queue, got, mid)
                           /\ item # None => InOrder(<<item>>, mid, Cursor)
    <3>1. CASE item = None \/ item.id = None
      <4>1. item # None => InOrder(<<item>>, Cursor, Cursor)
        BY <3>1 DEF InOrder
      <4> QED
        BY <2>0, <4>1
    <3>2. CASE item # None /\ item.id # None
      <4>1. /\ got < item.id /\ item.id <= Cursor /\ item.id \in Nat
            /\ InOrder(queue, got, item.id - 1)
        BY <3>2, <2>0, WholeFields DEF PathInv, Ordering, Id
      <4>2. item.id - 1 \in Nat /\ got <= item.id - 1 /\ item.id - 1 <= Cursor
        BY <2>0, <4>1
      <4>3. InOrder(<<item>>, item.id - 1, Cursor)
        BY <4>1 DEF InOrder
      <4> QED
        BY <4>1, <4>2, <4>3
    <3> QED
      BY <3>1, <3>2
  <2> DEFINE behind == IF item = None THEN wire ELSE <<item>> \o wire
  <2>2. behind \in Seq(Whole) /\ InOrder(behind, mid, Sent) /\ mid <= Sent
    <3>1. Cursor <= Sent
      BY DEF PathInv, PathTypes, Cursors, Sent
    <3>2. CASE item = None
      BY <2>0, <2>1, <3>1, <3>2, InOrderWider
    <3>3. CASE item # None
      <4>1. <<item>> \in Seq(Whole)
        BY <2>0, <3>3
      <4> DEFINE put == <<item>>
      <4>2. put \in Seq(Whole) /\ InOrder(put, mid, Cursor)
        BY <2>1, <3>3, <4>1
      <4> HIDE DEF put
      <4>3. put \o wire \in Seq(Whole) /\ InOrder(put \o wire, mid, Sent)
        BY <2>0, <2>1, <3>1, <4>2, InOrderJoined
      <4>4. behind = put \o wire /\ mid <= Sent
        BY <2>0, <2>1, <3>1, <3>3 DEF put
      <4> QED
        BY <4>3, <4>4
    <3> QED
      BY <3>2, <3>3
  <2> HIDE DEF behind
  <2> DEFINE held == queue \o behind
  <2>3. held \in Seq(Whole) /\ InOrder(held, got, Sent)
    BY <2>0, <2>1, <2>2, InOrderJoined
  <2> HIDE DEF held
  <2>4. \A n \in 1 .. Len(held) : held[n].kind = "message" => held[n].id # None
    BY <2>3, WholeFields
  <2>5. \A n \in {k \in 1 .. Len(held) : held[k].kind = "message"} :
           /\ got < held[n].id
           /\ \A m \in {k \in 1 .. Len(held) : held[k].kind = "message"} :
                 m < n => held[m].id < held[n].id
    BY <2>3, <2>4 DEF InOrder
  <2> QED
    BY <2>5 DEF InOrderOnce, held, behind
<1> QED
  BY <1>1, PathInvHolds, PTL

\* No entry the recovery answers for is lost without a word (client.py,
\* sse.py), if a stream ends between two events; where it may end after the id
\* line of one, this does not hold (README, Deviations).
THEOREM NothingLost ==
    ASSUME ~Cuts
    PROVE  SseSpec => []NothingLostSilently
<1>1. PathInv => NothingLostSilently
  <2> SUFFICES ASSUME PathInv, stream \notin Finished, NEW i \in Owed
               PROVE  \/ Known(i) \/ InHand(i)
                      \/ stream = "open" /\ i > served
                      \/ stream # "open" /\ Harvest # None /\ i > Harvest
    BY DEF NothingLostSilently
  <2>0. /\ log \in Nat /\ served \in 0 .. log /\ queue \in Seq(Whole) /\ wire \in Seq(Whole)
        /\ base # None => base \in Nat /\ lastId \in Nat /\ lastId # None
    BY DEF PathInv, PathTypes, Cursors, Id
  <2>1. i \in 1 .. log /\ base # None /\ base <= i /\ Owes(i)
    BY <2>0 DEF Owed, Owes
  <2>2. ASSUME NEW n \in {0, Len(wire)}, Covered(i, n) PROVE Known(i) \/ InHand(i)
    <3>1. /\ \A m \in 1 .. Len(queue) : queue[m] \in Range(wire \o queue)
          /\ \A m \in 1 .. n : wire[m] \in Range(wire \o queue)
      <4>1. /\ Len(wire \o queue) = Len(wire) + Len(queue)
            /\ Len(wire) \in Nat /\ Len(queue) \in Nat
            /\ DOMAIN (wire \o queue) = 1 .. Len(wire) + Len(queue)
            /\ \A m \in 1 .. Len(wire) : (wire \o queue)[m] = wire[m]
            /\ \A m \in 1 .. Len(queue) : (wire \o queue)[Len(wire) + m] = queue[m]
        BY <2>0
      <4>2. \A m \in 1 .. Len(queue) : Len(wire) + m \in DOMAIN (wire \o queue)
        BY <4>1
      <4>3. \A m \in 1 .. n : m \in 1 .. Len(wire) /\ m \in DOMAIN (wire \o queue)
        BY <2>2, <4>1
      <4>4. \A m \in DOMAIN (wire \o queue) : (wire \o queue)[m] \in Range(wire \o queue)
        BY DEF Range
      <4> QED
        BY <4>1, <4>2, <4>3, <4>4
    <3> QED
      BY <2>2, <3>1 DEF Covered, InHand
  <2>3. CASE stream = "open"
    BY <2>0, <2>1, <2>2, <2>3 DEF PathInv, Coverage
  <2>4. CASE stream # "open"
    <3>1. Harvest = lastId
      BY HarvestIsCursor DEF PathInv
    <3>2. i <= lastId => Covered(i, 0)
      BY <2>1 DEF PathInv, Coverage
    <3> QED
      BY <2>0, <2>1, <2>2, <2>4, <3>1, <3>2
  <2> QED
    BY <2>3, <2>4
<1> QED
  BY <1>1, PathInvHolds, PTL
=============================================================================
