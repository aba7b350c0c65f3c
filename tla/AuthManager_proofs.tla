-------------------------- MODULE AuthManager_proofs --------------------------
(***************************************************************************)
(* Proofs about the auth tasks, for any number of refreshers, escalations, *)
(* reactive refreshes and timers, with or without cancellations: nobody    *)
(* waits on the shared future in vain, and an escalation keeps its JWT.    *)
(***************************************************************************)
EXTENDS AuthManager, TLAPS

-----------------------------------------------------------------------------
(* The inductive invariant.                                                *)

AuthTypes ==
    /\ pc \in [Task -> {"idle", "sleep", "spawned", "provider", "drain",
                        "await", "coalesced", "escalate"}]
    /\ pending \in Task \cup {None}
    /\ waiters \in Seq(Task)
    /\ ready \in Seq([task : Task, with : Result])
    /\ fut \in Result \cup {"none", "open"}
    /\ wire \in Seq(Task)
    /\ timer \in TimerTask \cup {None}
    /\ connected \in BOOLEAN

Owning == {"provider", "drain", "await"}

\* The future belongs to the one task that is inside _run_auth or escalate's
\* exchange; one that is in its token step is not an escalation.
Owned ==
    /\ \A t \in Task : pc[t] \in Owning <=> pending = t
    /\ \A e \in Escalator : pc[e] # "provider"
    /\ \A t \in Task : pc[t] = "escalate" => t \in Escalator

\* While the future is open and its owner has sent, the frame is unanswered
\* and the connection it was sent on still there.
Unanswered ==
    Open /\ pc[pending] \in {"drain", "await"} => connected /\ InSeq(pending, wire)

WaitersOpen == waiters # <<>> => Open

AuthInv == AuthTypes /\ Owned /\ Unanswered /\ WaitersOpen /\ EscalationKeepsJwt

-----------------------------------------------------------------------------
(* Sequences of tasks.                                                     *)

\* What Append does to the tasks of a queue.
LEMMA InAppended ==
    ASSUME NEW S, NEW q \in Seq(S), NEW t \in S
    PROVE  /\ Append(q, t) \in Seq(S) /\ InSeq(t, Append(q, t))
           /\ \A u : InSeq(u, q) => InSeq(u, Append(q, t))
BY DEF InSeq

\* What a resolved future makes ready.
LEMMA WokenType ==
    ASSUME AuthTypes, NEW res \in Result
    PROVE  Woken(res) \in Seq([task : Task, with : Result])
BY DEF AuthTypes, Woken

\* The ready queue with the waiters woken.
LEMMA ReadyType ==
    ASSUME AuthTypes, NEW res \in Result
    PROVE  ready \o Woken(res) \in Seq([task : Task, with : Result])
<1>1. \A S : \A p, q \in Seq(S) : p \o q \in Seq(S)
  OBVIOUS
<1> QED
  BY <1>1, WokenType DEF AuthTypes

\* The ready queue with one of its tasks cancelled.
LEMMA WakesCancelledType ==
    ASSUME NEW t, NEW q \in Seq([task : Task, with : Result])
    PROVE  WakesCancelled(t, q) \in Seq([task : Task, with : Result])
<1> DEFINE R == [task : Task, with : Result]
           w(i) == IF q[i].task = t THEN [q[i] EXCEPT !.with = "cancelled"] ELSE q[i]
<1>1. \A i \in 1 .. Len(q) : w(i) \in R
  <2>1. \A x \in R : [x EXCEPT !.with = "cancelled"] \in R
    BY DEF Result
  <2>2. \A S : \A p \in Seq(S) : \A i \in 1 .. Len(p) : p[i] \in S
    OBVIOUS
  <2> QED
    BY <2>1, <2>2
<1> HIDE DEF R, w
<1>2. Len(q) \in Nat
  OBVIOUS
<1>3. [i \in 1 .. Len(q) |-> w(i)] \in Seq(R)
  BY <1>1, <1>2
<1> QED
  BY <1>3 DEF WakesCancelled, R, w

\* What cancelling the timer task leaves of the ready queue.
LEMMA DoomTimerType ==
    ASSUME NEW q \in Seq([task : Task, with : Result]), DoomTimer(q)
    PROVE  ready' \in Seq([task : Task, with : Result])
BY WakesCancelledType DEF DoomTimer

-----------------------------------------------------------------------------
(* What the steps of a task do to the future.                              *)

\* A task becomes the owner of a new future: a refresh before its token step,
\* an escalation with its frame sent.
LEMMA OwnerBegins ==
    ASSUME AuthInv, AuthTypes', NEW t \in Task, pending = None, pending' = t, fut' = "open",
           waiters' = <<>>,
           \/ /\ pc' = [pc EXCEPT ![t] = "provider"] /\ t \notin Escalator
              /\ token' = token
           \/ /\ pc' = [pc EXCEPT ![t] = "drain"] /\ token' = "jwt"
              /\ connected' /\ InSeq(t, wire')
    PROVE  AuthInv'
<1> USE DEF AuthInv
<1>0. None \notin Task /\ \A u \in Task : pc[u] \notin Owning
  BY TaskAssumption DEF Owned
<1>1. Owned'
  BY <1>0 DEF Owned, Owning, AuthTypes, Task, Caller
<1>2. Unanswered' /\ WaitersOpen'
  BY <1>0 DEF Unanswered, WaitersOpen, Open, AuthTypes, InSeq
<1>3. EscalationKeepsJwt'
  BY DEF EscalationKeepsJwt
<1> QED
  BY <1>1, <1>2, <1>3

\* The owner is gone, and its future with it.
LEMMA OwnerGone ==
    ASSUME AuthInv, AuthTypes', NEW t \in Task, pc[t] \in Owning,
           pc' = [pc EXCEPT ![t] = "idle"],
           pending' = None, waiters' = <<>>, fut' = "none"
    PROVE  AuthInv'
<1> USE DEF AuthInv
<1>0. pending = t /\ None \notin Task
  BY TaskAssumption DEF Owned
<1>1. Owned'
  BY <1>0 DEF Owned, Owning, AuthTypes, Task, Caller
<1>2. Unanswered' /\ WaitersOpen' /\ EscalationKeepsJwt'
  BY <1>0 DEF Unanswered, WaitersOpen, Open, EscalationKeepsJwt, Task, Caller
<1> QED
  BY <1>1, <1>2

\* The owner leaves _run_auth from its token step or its send.
LEMMA LeavesInv ==
    ASSUME AuthInv, NEW t \in Task, pc[t] \in {"provider", "drain"},
           NEW res, fut = "open" => res \in Result,
           OwnerLeaves(t, res), UNCHANGED <<timer, connected>>, wire' \in Seq(Task)
    PROVE  AuthInv'
<1>0. /\ pc' = [pc EXCEPT ![t] = "idle"]
      /\ pending' = None /\ waiters' = <<>> /\ fut' = "none"
  BY DEF OwnerLeaves, Returns
<1>1. ready' \in Seq([task : Task, with : Result])
  BY ReadyType DEF AuthInv, OwnerLeaves, AuthTypes
<1>2. AuthTypes'
  BY <1>0, <1>1 DEF AuthInv, AuthTypes
<1> QED
  BY <1>0, <1>2, OwnerGone DEF Owning

\* The owner stays, and any other task only moves between states of no owner.
OthersMove ==
    \A t \in Task : \/ pc'[t] = pc[t]
                    \/ /\ pc[t] \notin Owning /\ pc'[t] \notin Owning
                       /\ pc'[t] = "escalate" => t \in Escalator

\* The future, the owner and the wire stay, or the future is closed.
LEMMA OwnerStays ==
    ASSUME AuthInv, AuthTypes', pending' = pending,
           OthersMove,
           \/ UNCHANGED <<fut, connected, wire>>
           \/ fut' # "open"
           \/ UNCHANGED fut /\ connected' /\ \A u : InSeq(u, wire) => InSeq(u, wire'),
           waiters' # <<>> => pending' # None /\ fut' = "open",
           token' \in {token, "jwt", "set"}
    PROVE  AuthInv'
<1> USE DEF AuthInv
<1>1. Owned'
  BY DEF OthersMove, Owned, Owning, Task, Caller
<1>2. Unanswered'
  <2> SUFFICES ASSUME Open', pc'[pending] \in {"drain", "await"}
               PROVE  connected' /\ InSeq(pending, wire')
    BY DEF Unanswered
  <2>1. fut' = "open" /\ fut = "open" /\ pending # None
    BY DEF Open
  <2>2. pending \in Task /\ pc[pending] \in Owning
    BY <2>1 DEF AuthTypes, Owned
  <2>3. Open /\ pc[pending] \in {"drain", "await"}
    BY <2>1, <2>2 DEF Open, Owning, OthersMove
  <2> QED
    BY <2>1, <2>3 DEF Unanswered, InSeq
<1>3. WaitersOpen' /\ EscalationKeepsJwt'
  BY DEF WaitersOpen, Open, EscalationKeepsJwt
<1> QED
  BY <1>1, <1>2, <1>3

\* A refresh begins: it owns the future, joins its waiters or returns at once.
LEMMA BeginRefreshInv ==
    ASSUME AuthInv, NEW t \in Task \ Escalator, pc[t] \in {"idle", "spawned", "sleep"},
           BeginRefresh(t), UNCHANGED <<timer, token, connected, wire>>
    PROVE  AuthInv'
<1> USE DEF AuthInv
<1>1. CASE /\ pending = None /\ pending' = t /\ fut' = "open" /\ waiters' = <<>>
           /\ pc' = [pc EXCEPT ![t] = "provider"] /\ UNCHANGED ready
  <2>1. AuthTypes'
    BY <1>1 DEF AuthTypes
  <2> QED
    BY <1>1, <2>1, OwnerBegins
<1>2. CASE Open /\ Joins(t, "coalesced") /\ UNCHANGED <<pending, fut, ready>>
  <2>1. AuthTypes'
    BY <1>2, InAppended DEF AuthTypes, Joins
  <2>2. OthersMove
    BY <1>2 DEF OthersMove, Joins, AuthTypes, Owning
  <2> QED
    BY <1>2, <2>1, <2>2, OwnerStays DEF Open
<1>3. CASE Done /\ Returns(t, fut) /\ UNCHANGED <<future, ready>>
  <2>1. AuthTypes'
    BY <1>3 DEF AuthTypes, Returns, future
  <2>2. OthersMove
    BY <1>3 DEF OthersMove, Returns, AuthTypes, Owning
  <2>3. waiters' = <<>>
    BY <1>3 DEF Done, WaitersOpen, Open, future
  <2> QED
    BY <1>3, <2>1, <2>2, <2>3, OwnerStays DEF future
<1> QED
  BY <1>1, <1>2, <1>3 DEF BeginRefresh

\* One turn of the escalation loop.
LEMMA EscalateLoopInv ==
    ASSUME AuthInv, NEW e \in Escalator, pc[e] \in {"idle", "escalate"},
           ready' \in Seq([task : Task, with : Result]),
           EscalateLoop(e), UNCHANGED <<timer, connected>>
    PROVE  AuthInv'
<1> USE DEF AuthInv
<1>0. e \in Task /\ pc[e] \notin Owning
  BY DEF Task, Caller, Owning
<1>1. CASE /\ pending = None /\ connected /\ StoresJwt
           /\ pending' = e /\ fut' = "open" /\ waiters' = <<>> /\ Sends(e)
  <2>1. AuthTypes' /\ InSeq(e, wire')
    BY <1>0, <1>1, InAppended DEF AuthTypes, Sends
  <2> QED
    BY <1>0, <1>1, <2>1, OwnerBegins DEF Sends, StoresJwt
<1>2. CASE Open /\ Joins(e, "escalate") /\ UNCHANGED <<pending, fut, token, wire>>
  <2>1. AuthTypes'
    BY <1>0, <1>2, InAppended DEF AuthTypes, Joins
  <2>2. OthersMove
    BY <1>0, <1>2 DEF OthersMove, Joins, AuthTypes, Owning
  <2> QED
    BY <1>2, <2>1, <2>2, OwnerStays DEF Open
<1>3. ASSUME ~Open, UNCHANGED <<future, wire>>, token' \in {token, "jwt"},
             pc' = pc \/ pc' = [pc EXCEPT ![e] = "idle"]
      PROVE  AuthInv'
  <2>1. AuthTypes'
    BY <1>0, <1>3 DEF AuthTypes, future
  <2>2. OthersMove
    BY <1>0, <1>3 DEF OthersMove, AuthTypes, Owning
  <2>3. waiters' = <<>>
    BY <1>3 DEF WaitersOpen, future
  <2> QED
    BY <1>3, <2>1, <2>2, <2>3, OwnerStays DEF future
<1> QED
  BY <1>1, <1>2, <1>3 DEF EscalateLoop, Done, Open, Returns

-----------------------------------------------------------------------------
(* Every step keeps the invariant.                                         *)

\* At first no task owns or waits for anything.
LEMMA AuthInitInv == Init => AuthInv
<1> SUFFICES ASSUME Init PROVE AuthInv
  OBVIOUS
<1>1. AuthTypes
  BY DEF Init, AuthTypes
<1>2. Owned /\ Unanswered /\ WaitersOpen /\ EscalationKeepsJwt
  BY TaskAssumption
  DEF Init, Owned, Owning, Unanswered, WaitersOpen, Open, EscalationKeepsJwt, Task, Caller
<1> QED
  BY <1>1, <1>2 DEF AuthInv

\* A task that waited on the future resumes.
LEMMA ResumesInv == AuthInv /\ Resumes => AuthInv'
<1> SUFFICES ASSUME AuthInv, Resumes PROVE AuthInv'
  OBVIOUS
<1> DEFINE t == Head(ready).task
           r == Head(ready).with
<1> USE DEF AuthInv
<1>0. /\ ready \in Seq([task : Task, with : Result]) /\ ready # <<>>
      /\ ready' = Tail(ready) /\ UNCHANGED <<timer, connected>>
  BY DEF Resumes, AuthTypes
<1>1. Head(ready) \in [task : Task, with : Result]
      /\ ready' \in Seq([task : Task, with : Result])
  <2>1. \A S : \A q \in Seq(S) : q # <<>> => Head(q) \in S /\ Tail(q) \in Seq(S)
    OBVIOUS
  <2> QED
    BY <1>0, <2>1
<1>2. t \in Task /\ r \in Result
  BY <1>1
<1>3. CASE pc[t] = "await" /\ pending' = None /\ fut' = "none" /\ waiters' = <<>>
           /\ Returns(t, r) /\ UNCHANGED wire
  <2>1. AuthTypes'
    BY <1>0, <1>1, <1>2, <1>3 DEF AuthTypes, Returns
  <2> QED
    BY <1>2, <1>3, <2>1, OwnerGone DEF Owning, Returns
<1>4. CASE pc[t] \in {"coalesced", "escalate"} /\ pc' = [pc EXCEPT ![t] = "idle"]
           /\ UNCHANGED <<future, wire>> /\ token' \in {token, "jwt"}
  <2>1. AuthTypes'
    BY <1>0, <1>1, <1>2, <1>4 DEF AuthTypes, future
  <2>2. OthersMove
    BY <1>2, <1>4 DEF OthersMove, AuthTypes, Owning
  <2> QED
    BY <1>0, <1>4, <2>1, <2>2, OwnerStays DEF future, WaitersOpen, Open
<1>5. CASE pc[t] = "escalate" /\ EscalateLoop(t)
  <2>1. CASE t \in Escalator
    BY <1>0, <1>1, <1>5, <2>1, EscalateLoopInv
  <2>2. CASE t \notin Escalator
    BY <1>2, <1>5, <2>2 DEF Owned
  <2> QED
    BY <2>1, <2>2
<1> QED
  BY <1>3, <1>4, <1>5 DEF Resumes, Returns

\* The owner has sent, or waits for the answer.
LEMMA OwnerMoves ==
    ASSUME AuthInv, AuthTypes', NEW t \in Task, pc[t] \in Owning,
           NEW where \in {"drain", "await"}, pc' = [pc EXCEPT ![t] = where],
           UNCHANGED <<pending, fut>>, fut = "open" => connected' /\ InSeq(t, wire'),
           waiters' # <<>> => fut = "open", token' = token \/ t \notin Escalator
    PROVE  AuthInv'
<1> USE DEF AuthInv
<1>0. pending = t /\ None \notin Task
  BY TaskAssumption DEF Owned
<1>1. Owned'
  BY <1>0 DEF Owned, Owning, AuthTypes, Task, Caller
<1>2. Unanswered' /\ WaitersOpen'
  BY <1>0 DEF Unanswered, WaitersOpen, Open, InSeq
<1>3. EscalationKeepsJwt'
  BY <1>0 DEF EscalationKeepsJwt
<1> QED
  BY <1>1, <1>2, <1>3

\* A task runs to its next suspension.
LEMMA RunsInv == AuthInv /\ (\E t \in Task : Runs(t)) => AuthInv'
<1> SUFFICES ASSUME AuthInv, NEW t \in Task, Runs(t) PROVE AuthInv'
  OBVIOUS
<1> USE DEF AuthInv
<1>0. /\ wire \in Seq(Task) /\ fut \in Result \cup {"none", "open"}
      /\ {"error", "dropped", "cancelled"} \subseteq Result
  BY DEF AuthTypes, Result
<1>1. CASE RefreshStarts(t)
  <2>1. t \notin Escalator
    BY <1>1, EscalatorAssumption DEF RefreshStarts
  <2> QED
    BY <1>1, <2>1, BeginRefreshInv DEF RefreshStarts
<1>2. CASE ProviderFails(t) \/ SendFails(t)
  BY <1>0, <1>2, LeavesInv DEF ProviderFails, SendFails
<1>3. CASE Provides(t) /\ connected /\ Sends(t) /\ UNCHANGED <<future, ready>>
  <2>1. AuthTypes' /\ InSeq(t, wire')
    BY <1>0, <1>3, InAppended DEF AuthTypes, Sends, Provides, future
  <2>2. t \notin Escalator
    BY <1>3 DEF Provides, Owned
  <2> QED
    BY <1>3, <2>1, <2>2, OwnerMoves DEF Provides, Sends, Owning, future, WaitersOpen, Open
<1>4. CASE Provides(t) /\ OwnerLeaves(t, "dropped") /\ UNCHANGED wire
  BY <1>0, <1>4, LeavesInv DEF Provides
<1>5. CASE Drained(t) /\ fut = "open" /\ Joins(t, "await") /\ UNCHANGED <<pending, fut, ready>>
  <2>1. AuthTypes'
    BY <1>5, InAppended DEF AuthTypes, Joins, Drained
  <2>2. pending = t /\ Open
    BY <1>5, TaskAssumption DEF Drained, Owned, Owning, Open
  <2>3. connected' /\ InSeq(t, wire')
    BY <1>5, <2>2 DEF Drained, Unanswered, InSeq
  <2> QED
    BY <1>5, <2>1, <2>3, OwnerMoves DEF Drained, Joins, Owning
<1>6. CASE Drained(t) /\ fut # "open" /\ OwnerLeaves(t, fut)
  BY <1>0, <1>6, LeavesInv DEF Drained
<1>7. CASE Unwinds(t) /\ pc[t] # "sleep"
  BY <1>0, <1>7, LeavesInv DEF Unwinds
<1>8. CASE Unwinds(t) /\ pc[t] = "sleep"
  <2>1. pc' = [pc EXCEPT ![t] = "idle"] /\ UNCHANGED <<future, ready, timer, token, connected, wire>>
    BY <1>8 DEF Unwinds, Returns
  <2>2. AuthTypes'
    BY <2>1 DEF AuthTypes, future
  <2>3. OthersMove
    BY <1>8, <2>1 DEF OthersMove, AuthTypes, Owning
  <2> QED
    BY <2>1, <2>2, <2>3, OwnerStays DEF future, WaitersOpen, Open
<1> QED
  BY <1>1, <1>2, <1>3, <1>4, <1>5, <1>6, <1>7, <1>8 DEF Runs, Provides, Drained

\* The future is closed under its waiters, or nothing happens to it.
LEMMA FutureCloses ==
    ASSUME AuthInv, pending' = pending, OthersMove,
           pc' \in [Task -> {"idle", "sleep", "spawned", "provider", "drain",
                             "await", "coalesced", "escalate"}],
           \/ fut' \in Result /\ waiters' = <<>>
           \/ UNCHANGED <<fut, waiters>> /\ (Open => UNCHANGED <<connected, wire>>),
           ready' \in Seq([task : Task, with : Result]),
           wire' \in Seq(Task), timer' \in TimerTask \cup {None}, connected' \in BOOLEAN,
           token' = token
    PROVE  AuthInv'
<1>0. fut' \in Result \cup {"none", "open"} /\ waiters' \in Seq(Task)
  <2>1. <<>> \in Seq(Task)
    OBVIOUS
  <2> QED
    BY <2>1 DEF AuthInv, AuthTypes
<1>1. AuthTypes'
  <2>1. pending' \in Task \cup {None}
    BY DEF AuthInv, AuthTypes
  <2> QED
    BY <1>0, <2>1 DEF AuthTypes
<1>2. "open" \notin Result
  BY DEF Result
<1>3. CASE fut' \in Result /\ waiters' = <<>>
  BY <1>1, <1>2, <1>3, OwnerStays
<1>4. CASE UNCHANGED <<fut, waiters>> /\ (Open => UNCHANGED <<connected, wire>>)
  <2>1. CASE Open
    BY <1>1, <1>4, <2>1, OwnerStays DEF Open
  <2>2. CASE ~Open /\ pending # None
    BY <1>1, <1>4, <2>2, OwnerStays DEF Open, AuthInv, WaitersOpen
  <2>3. CASE pending = None
    <3>1. waiters' = <<>>
      BY <1>4, <2>3 DEF AuthInv, WaitersOpen, Open
    <3>2. Owned'
      BY DEF OthersMove, Owned, Owning, Task, Caller, AuthInv
    <3> QED
      BY <1>1, <2>3, <3>1, <3>2
      DEF AuthInv, Unanswered, WaitersOpen, Open, EscalationKeepsJwt
  <2> QED
    BY <2>1, <2>2, <2>3
<1> QED
  BY <1>3, <1>4

\* The read pump's hooks, a caller that cancels, and the end of the epoch.
LEMMA HooksInv ==
    ASSUME AuthInv, AuthAck \/ AuthError \/ Disconnect \/ \E t \in Caller : CallerCancels(t)
    PROVE  AuthInv'
<1> DEFINE R == [task : Task, with : Result]
<1>0. /\ AuthTypes /\ ready \in Seq(R) /\ wire \in Seq(Task) /\ <<>> \in Seq(Task)
      /\ wire # <<>> => Tail(wire) \in Seq(Task)
  <2>1. \A q \in Seq(Task) : q # <<>> => Tail(q) \in Seq(Task)
    OBVIOUS
  <2> QED
    BY <2>1 DEF AuthInv, AuthTypes
<1>1. \A res \in Result : ready \o Woken(res) \in Seq(R)
  BY <1>0, ReadyType
<1>2. {"ok", "error", "dropped", "cancelled"} \subseteq Result
  BY DEF Result
<1>3. UNCHANGED pc => OthersMove
  BY DEF OthersMove
<1>4. ASSUME NEW t \in Task, pc[t] = "idle", NEW where \in {"sleep", "spawned"},
             pc' = [pc EXCEPT ![t] = where]
      PROVE  OthersMove
  BY <1>0, <1>4 DEF OthersMove, AuthTypes, Owning
<1>5. CASE AuthAck
  <2>1. ready' \in Seq(R)
    <3>1. CASE Open
      BY <1>1, <1>2, <1>5, <3>1, DoomTimerType DEF AuthAck
    <3>2. CASE ~Open
      BY <1>0, <1>5, <3>2, DoomTimerType DEF AuthAck
    <3> QED
      BY <3>1, <3>2
  <2>2. OthersMove /\ timer' \in TimerTask \cup {None}
    BY <1>3, <1>4, <1>5 DEF AuthAck, Task
  <2>3. pc' \in [Task -> {"idle", "sleep", "spawned", "provider", "drain",
                          "await", "coalesced", "escalate"}]
    BY <1>0, <1>5 DEF AuthAck, AuthTypes
  <2>4. \/ fut' \in Result /\ waiters' = <<>>
        \/ UNCHANGED <<fut, waiters>> /\ (Open => UNCHANGED <<connected, wire>>)
    BY <1>2, <1>5 DEF AuthAck
  <2>5. /\ pending' = pending /\ wire' \in Seq(Task) /\ connected' \in BOOLEAN
        /\ token' = token
    BY <1>0, <1>5 DEF AuthAck, AuthTypes
  <2> QED
    BY <2>1, <2>2, <2>3, <2>4, <2>5, FutureCloses
<1>6. CASE AuthError
  <2>1. ready' \in Seq(R)
    BY <1>0, <1>1, <1>2, <1>6 DEF AuthError
  <2>2. OthersMove
    BY <1>3, <1>4, <1>6 DEF AuthError, Task
  <2>3. pc' \in [Task -> {"idle", "sleep", "spawned", "provider", "drain",
                          "await", "coalesced", "escalate"}]
    BY <1>0, <1>6 DEF AuthError, AuthTypes
  <2>4. \/ fut' \in Result /\ waiters' = <<>>
        \/ UNCHANGED <<fut, waiters>> /\ (Open => UNCHANGED <<connected, wire>>)
    BY <1>2, <1>6 DEF AuthError
  <2>5. /\ pending' = pending /\ wire' \in Seq(Task) /\ connected' \in BOOLEAN
        /\ token' = token /\ timer' \in TimerTask \cup {None}
    BY <1>0, <1>6 DEF AuthError, AuthTypes
  <2> QED
    BY <2>1, <2>2, <2>3, <2>4, <2>5, FutureCloses
<1>7. CASE Disconnect
  <2>1. ready' \in Seq(R)
    <3>1. CASE Open
      BY <1>1, <1>2, <1>7, <3>1, DoomTimerType DEF Disconnect, Aclose
    <3>2. CASE ~Open
      BY <1>0, <1>1, <1>2, <1>7, <3>2, DoomTimerType DEF Disconnect, Aclose
    <3> QED
      BY <3>1, <3>2
  <2>2. OthersMove
    BY <1>3, <1>7 DEF Disconnect
  <2>3. pc' \in [Task -> {"idle", "sleep", "spawned", "provider", "drain",
                          "await", "coalesced", "escalate"}]
    BY <1>0, <1>7 DEF Disconnect, AuthTypes
  <2>4. \/ fut' \in Result /\ waiters' = <<>>
        \/ UNCHANGED <<fut, waiters>> /\ (Open => UNCHANGED <<connected, wire>>)
    BY <1>2, <1>7 DEF Disconnect, Aclose
  <2>5. /\ pending' = pending /\ wire' \in Seq(Task) /\ connected' \in BOOLEAN
        /\ token' = token /\ timer' \in TimerTask \cup {None}
    BY <1>0, <1>7 DEF Disconnect
  <2> QED
    BY <2>1, <2>2, <2>3, <2>4, <2>5, FutureCloses
<1>8. ASSUME NEW t \in Caller, CallerCancels(t)
      PROVE  AuthInv'
  <2>1. ready' \in Seq(R)
    BY <1>0, <1>1, <1>2, <1>8, WakesCancelledType DEF CallerCancels
  <2>2. OthersMove
    BY <1>3, <1>8 DEF CallerCancels
  <2>3. pc' \in [Task -> {"idle", "sleep", "spawned", "provider", "drain",
                          "await", "coalesced", "escalate"}]
    BY <1>0, <1>8 DEF CallerCancels, AuthTypes
  <2>4. \/ fut' \in Result /\ waiters' = <<>>
        \/ UNCHANGED <<fut, waiters>> /\ (Open => UNCHANGED <<connected, wire>>)
    BY <1>2, <1>8 DEF CallerCancels, future
  <2>5. /\ pending' = pending /\ wire' \in Seq(Task) /\ connected' \in BOOLEAN
        /\ token' = token /\ timer' \in TimerTask \cup {None}
    BY <1>0, <1>8 DEF CallerCancels, AuthTypes, future
  <2> QED
    BY <2>1, <2>2, <2>3, <2>4, <2>5, FutureCloses
<1> QED
  BY <1>5, <1>6, <1>7, <1>8

\* Every step keeps the invariant.
LEMMA StepAuthInv == AuthInv /\ [Next]_vars => AuthInv'
<1> SUFFICES ASSUME AuthInv, [Next]_vars PROVE AuthInv'
  OBVIOUS
<1>0. AuthTypes /\ WaitersOpen
  BY DEF AuthInv
<1>1. ASSUME NEW t \in Refresher, Refresh(t)
      PROVE  AuthInv'
  <2>1. t \in Task \ Escalator
    BY EscalatorAssumption DEF Task, Caller
  <2> QED
    BY <1>1, <2>1, BeginRefreshInv DEF Refresh
<1>2. ASSUME NEW t \in Task, Runs(t)
      PROVE  AuthInv'
  BY <1>2, RunsInv
<1>3. ASSUME NEW e \in Escalator, Escalate(e)
      PROVE  AuthInv'
  <2>1. CASE EscalateLoop(e)
    BY <1>0, <1>3, <2>1, EscalateLoopInv DEF Escalate, AuthTypes
  <2>2. CASE token' = "jwt" /\ Returns(e, "deferred") /\ UNCHANGED <<future, wire>>
    <3>1. e \in Task /\ pc' = [pc EXCEPT ![e] = "idle"] /\ pc[e] = "idle"
      BY <1>3, <2>2 DEF Task, Caller, Escalate, Returns
    <3>2. OthersMove
      BY <1>0, <3>1 DEF OthersMove, AuthTypes
    <3>3. AuthTypes'
      BY <1>0, <1>3, <2>2, <3>1 DEF AuthTypes, future, Escalate
    <3> QED
      BY <1>0, <1>3, <2>2, <3>2, <3>3, OwnerStays DEF Escalate, future, WaitersOpen, Open
  <2> QED
    BY <1>3, <2>1, <2>2 DEF Escalate
<1>4. CASE Resumes
  BY <1>4, ResumesInv
<1>5. CASE AuthAck \/ AuthError \/ Disconnect \/ \E t \in Caller : CallerCancels(t)
  BY <1>5, HooksInv
<1>6. CASE Reconnect
  <2>1. AuthTypes' /\ OthersMove
    BY <1>0, <1>6 DEF Reconnect, AuthTypes, future, OthersMove
  <2> QED
    BY <1>0, <1>6, <2>1, OwnerStays DEF Reconnect, future, WaitersOpen, Open, InSeq
<1>7. CASE UpdateToken \/ UNCHANGED vars
  <2>1. AuthTypes' /\ OthersMove
    BY <1>0, <1>7 DEF UpdateToken, vars, AuthTypes, future, OthersMove
  <2> QED
    BY <1>0, <1>7, <2>1, OwnerStays DEF UpdateToken, vars, future, WaitersOpen, Open
<1> QED
  BY <1>1, <1>2, <1>3, <1>4, <1>5, <1>6, <1>7 DEF Next

\* AuthInv holds in every reachable state.
LEMMA AuthInvHolds == Spec => []AuthInv
<1>1. Spec => Init /\ [][Next]_vars
  BY DEF Spec
<1> QED
  BY <1>1, AuthInitInv, StepAuthInv, PTL

\* Whoever waits on the shared future waits for something that will come:
\* its owner still has to send, or its frame is on a live wire.
THEOREM WaitersGetAnswer == Spec => []WaitersAnswered
<1>1. AuthInv => WaitersAnswered
  BY DEF AuthInv, AuthTypes, Owned, Owning, Unanswered, WaitersOpen, WaitersAnswered, Open
<1> QED
  BY <1>1, AuthInvHolds, PTL

\* A refresh that completes while an escalation's frame is unanswered does
\* not clobber the JWT.
THEOREM JwtKept == Spec => []EscalationKeepsJwt
<1>1. AuthInv => EscalationKeepsJwt
  BY DEF AuthInv
<1> QED
  BY <1>1, AuthInvHolds, PTL
=============================================================================
