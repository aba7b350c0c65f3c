-------------------------- MODULE Supervisor_proofs --------------------------
(***************************************************************************)
(* Proofs about who starts and ends what.  The connection supervisor, for  *)
(* any callers and channels, any number of attempts and any event ids.     *)
(* Three theorems need more, and say so: that a caller who has closed the  *)
(* client does not connect it again, or that no more attempts are asked for*)
(* than the back-off has exponents (README, Deviations, says what happens  *)
(* otherwise).  At the end, the blocking wrapper, for any threads.         *)
(***************************************************************************)
EXTENDS Supervisor, SyncClient, TLAPS

\* Where the supervisor has a connection, or is leaving one.
Connected == {"resuming", "live", "leaving"}

Types ==
    /\ sup \in {"none", "starting", "dialing", "resuming", "live", "leaving",
                "backoff", "parked", "done"}
    /\ closer \in {"idle", "waiting", "cleaning", "done", "cutshort"}
    /\ raised \in {"none", "cancelled", "error"}
    /\ attempt \in Nat /\ failures \in Nat
    /\ cursor \in Nat \cup {None} /\ seen \in Nat \cup {None}
    /\ lastId \in Nat \cup {None}

\* A cancel is on its way only to a supervisor that is to stop, and its
\* caller waits for it.
Closing ==
    /\ cancelling => closer = "waiting" /\ sup \notin {"none", "done"}
    /\ raised = "cancelled" => ~shouldRun /\ sup \in {"leaving", "done"}
    /\ raised = "cancelled" /\ sup = "leaving" => closer = "waiting"
    /\ raised # "none" => sup \in {"leaving", "done"}
    /\ closer = "waiting" => ~shouldRun /\ sup # "none"
    /\ state = "error" => sup = "done"
    /\ state = "connected" =>
          \/ sup \in {"resuming", "live", "leaving"}
          \/ closer \in {"waiting", "cleaning", "cutshort"}
          \/ raised = "error"
    /\ ~LateConnect => ClosedStaysClosed /\ StateHonest

\* attempt runs one ahead of the failures after a connection was lost, and
\* one behind while a failed dial backs off.
Counting ==
    /\ sup \in Connected \cup {"starting", "parked"} => attempt = 0 /\ failures = 0
    /\ sup = "none" => attempt = 0 /\ failures = 0
    /\ sup = "dialing" => failures <= attempt /\ attempt <= failures + 1
    /\ sup = "backoff" => attempt <= failures /\ failures <= attempt + 1 /\ reconnect
    /\ sup = "backoff" /\ Attempts > 0 => attempt < Attempts
    /\ sup = "dialing" /\ Attempts > 0 => attempt <= Attempts
    /\ sup = "dialing" /\ ~reconnect => attempt = 0
    /\ RetryBudget

\* The transport's id, or else the cursor, is the last id of any stream.
Carrying ==
    /\ sup # "live" => cursor = lastId \/ sup \in {"done", "resuming"}
    /\ sup = "live" => Harvest = lastId
    /\ ~sse => cursor = None /\ seen = None /\ lastId = None
    /\ sup = "resuming" => ~sse

Reasons ==
    /\ terminal => refused
    /\ wire = "refused" => refused
    /\ Attempts <= MaxExponent => StopsForAReason

SupInv == Types /\ Closing /\ Counting /\ Carrying /\ Reasons /\ BounceConsumed

-----------------------------------------------------------------------------
USE DEF setup, retry, cancel, stream, wish, calls

\* Nothing has been dialled yet.
LEMMA InitSupInv == Init => SupInv
<1> SUFFICES ASSUME Init PROVE SupInv
  OBVIOUS
<1> USE DEF Init
<1>1. Types
  BY DEF Types
<1>2. Closing
  BY DEF Closing, ClosedStaysClosed, StateHonest
<1>3. Counting
  BY AttemptsAssumption DEF Counting, RetryBudget, Connected
<1>4. Carrying /\ Reasons /\ BounceConsumed
  BY DEF Carrying, Reasons, StopsForAReason, BounceConsumed
<1> QED
  BY <1>1, <1>2, <1>3, <1>4 DEF SupInv

\* Every step keeps the types.
LEMMA TypesStep == SupInv /\ [Next]_vars => Types'
<1> SUFFICES ASSUME SupInv, [Next]_vars PROVE Types'
  OBVIOUS
<1> USE AttemptsAssumption, NoneAssumption DEF SupInv, Types
<1>1. CASE Start
  BY <1>1 DEF Start, Dial, Ends
<1>2. CASE DialSucceeds
  BY <1>2 DEF DialSucceeds
<1>3. CASE DialFails
  BY <1>3 DEF DialFails, Ends, ShouldRetry, BackoffFails
<1>4. CASE BackoffEnds
  BY <1>4 DEF BackoffEnds, Dial, Ends
<1>5. CASE Resumed
  BY <1>5 DEF Resumed
<1>6. CASE ResumeFails
  BY <1>6 DEF ResumeFails, Leave, Harvest
<1>7. CASE PumpsEnd
  BY <1>7 DEF PumpsEnd, Leave, Harvest
<1>20. CASE PumpBreaks
  BY <1>20 DEF PumpBreaks, Leave, Harvest
<1>21. CASE TransportBreaks
  BY <1>21 DEF TransportBreaks, Ends
<1>8. CASE Left
  BY <1>8 DEF Left, Ends, Dial, ClearBounce, Stops
<1>9. CASE Unpark
  BY <1>9 DEF Unpark, Dial, Ends
<1>10. CASE Cancelled
  BY <1>10 DEF Cancelled, Ends, Leave, Harvest
<1>11. CASE Unwound
  BY <1>11 DEF Unwound, Ends
<1>12. CASE \E k \in Connector : Connect(k) \/ ConnectReturns(k) \/ ConnectCancelled(k)
  BY <1>12 DEF Connect, ConnectReturns, ConnectCancelled
<1>13. CASE \E c \in Channel : Subscribe(c) \/ Unsubscribe(c)
  BY <1>13 DEF Subscribe, Unsubscribe, Bounce, NoBounce, Live
<1>14. CASE Close
  BY <1>14 DEF Close
<1>15. CASE CloseReturns \/ CloseCleans \/ CloseBreaks
  BY <1>15 DEF CloseReturns, CloseCleans, CloseBreaks, ResetState
<1>16. CASE CloseCancelled \/ CloseAgain
  BY <1>16 DEF CloseCancelled, CloseAgain
<1>17. CASE Drop \/ HeartbeatTimeout
  BY <1>17 DEF Drop, HeartbeatTimeout
<1>18. CASE EventId
  BY <1>18 DEF EventId
<1>19. CASE UNCHANGED vars
  BY <1>19 DEF vars
<1> QED
  BY <1>1, <1>2, <1>3, <1>4, <1>5, <1>6, <1>7, <1>8, <1>9, <1>10, <1>11, <1>12, <1>13,
     <1>14, <1>15, <1>16, <1>17, <1>18, <1>19, <1>20, <1>21
  DEF Next, SupervisorRuns

\* Every step keeps what close() has left behind.
LEMMA ClosingStep == SupInv /\ [Next]_vars => Closing'
<1> SUFFICES ASSUME SupInv, [Next]_vars PROVE Closing'
  OBVIOUS
<1> USE AttemptsAssumption, NoneAssumption
  DEF SupInv, Types, Closing, ClosedStaysClosed, StateHonest, Connected
<1>1. CASE Start
  BY <1>1 DEF Start, Dial, Ends
<1>2. CASE DialSucceeds
  BY <1>2 DEF DialSucceeds
<1>3. CASE DialFails
  BY <1>3 DEF DialFails, Ends, ShouldRetry, BackoffFails
<1>4. CASE BackoffEnds
  BY <1>4 DEF BackoffEnds, Dial, Ends
<1>5. CASE Resumed
  BY <1>5 DEF Resumed
<1>6. CASE ResumeFails
  BY <1>6 DEF ResumeFails, Leave
<1>7. CASE PumpsEnd
  BY <1>7 DEF PumpsEnd, Leave
<1>20. CASE PumpBreaks
  BY <1>20 DEF PumpBreaks, Leave
<1>21. CASE TransportBreaks
  BY <1>21 DEF TransportBreaks, Ends
<1>8. CASE Left
  BY <1>8 DEF Left, Ends, Dial, ClearBounce, Stops
<1>9. CASE Unpark
  BY <1>9 DEF Unpark, Dial, Ends
<1>10. CASE Cancelled
  BY <1>10 DEF Cancelled, Ends, Leave
<1>11. CASE Unwound
  BY <1>11 DEF Unwound, Ends
<1>12. CASE \E k \in Connector : Connect(k) \/ ConnectReturns(k) \/ ConnectCancelled(k)
  BY <1>12 DEF Connect, ConnectReturns, ConnectCancelled
<1>13. CASE \E c \in Channel : Subscribe(c) \/ Unsubscribe(c)
  BY <1>13 DEF Subscribe, Unsubscribe, Bounce, NoBounce, Live
<1>14. CASE Close
  BY <1>14 DEF Close
<1>15. CASE CloseReturns \/ CloseCleans \/ CloseBreaks
  BY <1>15 DEF CloseReturns, CloseCleans, CloseBreaks, ResetState
<1>16. CASE CloseCancelled \/ CloseAgain
  <2>1. CASE CloseAgain
    BY <2>1 DEF CloseAgain
  <2>2. CASE CloseCancelled
    <3>1. UNCHANGED <<sup, state, raised, shouldRun>>
      BY <2>2 DEF CloseCancelled
    <3>2. \/ closer = "waiting" /\ closer' = closer /\ (cancelling' <=> sup # "done")
          \/ /\ closer = "cleaning" /\ closer' \in {"cleaning", "cutshort"}
             /\ cancelling' = cancelling
      BY <2>2, Zenon DEF CloseCancelled
    <3> QED
      BY <3>1, <3>2
  <2> QED
    BY <1>16, <2>1, <2>2
<1>17. CASE Drop \/ HeartbeatTimeout
  BY <1>17 DEF Drop, HeartbeatTimeout
<1>18. CASE EventId
  BY <1>18 DEF EventId
<1>19. CASE UNCHANGED vars
  BY <1>19 DEF vars
<1> QED
  BY <1>1, <1>2, <1>3, <1>4, <1>5, <1>6, <1>7, <1>8, <1>9, <1>10, <1>11, <1>12, <1>13,
     <1>14, <1>15, <1>16, <1>17, <1>18, <1>19, <1>20, <1>21
  DEF Next, SupervisorRuns

\* No step counts more retries than the budget.
LEMMA CountingStep == SupInv /\ [Next]_vars => Counting'
<1> SUFFICES ASSUME SupInv, [Next]_vars PROVE Counting'
  OBVIOUS
<1> USE AttemptsAssumption, NoneAssumption
  DEF SupInv, Types, Counting, Closing, RetryBudget, Connected
<1>1. CASE Start
  BY <1>1 DEF Start, Dial, Ends
<1>2. CASE DialSucceeds
  BY <1>2 DEF DialSucceeds
<1>3. CASE DialFails
  BY <1>3 DEF DialFails, Ends, ShouldRetry, BackoffFails
<1>4. CASE BackoffEnds
  BY <1>4 DEF BackoffEnds, Dial, Ends
<1>5. CASE Resumed
  BY <1>5 DEF Resumed
<1>6. CASE ResumeFails
  BY <1>6 DEF ResumeFails, Leave
<1>7. CASE PumpsEnd
  BY <1>7 DEF PumpsEnd, Leave
<1>20. CASE PumpBreaks
  BY <1>20 DEF PumpBreaks, Leave
<1>21. CASE TransportBreaks
  BY <1>21 DEF TransportBreaks, Ends
<1>8. CASE Left
  BY <1>8 DEF Left, Ends, Dial, ClearBounce, Stops
<1>9. CASE Unpark
  <2>1. CASE desired = {}
    BY <1>9, <2>1 DEF Unpark
  <2>2. CASE desired # {}
    <3>1. /\ sup = "parked" /\ sup' \in {"dialing", "done"} /\ state' = state
          /\ UNCHANGED <<attempt, failures, reconnect>>
      BY <1>9, <2>2 DEF Unpark, Dial, Ends
    <3>2. attempt' = 0 /\ failures' = 0 /\ state' # "error"
      BY <3>1
    <3> QED
      BY <3>1, <3>2
  <2> QED
    BY <2>1, <2>2
<1>10. CASE Cancelled
  BY <1>10 DEF Cancelled, Ends, Leave
<1>11. CASE Unwound
  BY <1>11 DEF Unwound, Ends
<1>12. CASE \E k \in Connector : Connect(k) \/ ConnectReturns(k) \/ ConnectCancelled(k)
  BY <1>12 DEF Connect, ConnectReturns, ConnectCancelled
<1>13. CASE \E c \in Channel : Subscribe(c) \/ Unsubscribe(c)
  BY <1>13 DEF Subscribe, Unsubscribe, Bounce, NoBounce, Live
<1>14. CASE Close
  BY <1>14 DEF Close
<1>15. CASE CloseReturns \/ CloseCleans \/ CloseBreaks
  BY <1>15 DEF CloseReturns, CloseCleans, CloseBreaks, ResetState
<1>16. CASE CloseCancelled \/ CloseAgain
  BY <1>16 DEF CloseCancelled, CloseAgain
<1>17. CASE Drop \/ HeartbeatTimeout
  BY <1>17 DEF Drop, HeartbeatTimeout
<1>18. CASE EventId
  BY <1>18 DEF EventId
<1>19. CASE UNCHANGED vars
  BY <1>19 DEF vars
<1> QED
  BY <1>1, <1>2, <1>3, <1>4, <1>5, <1>6, <1>7, <1>8, <1>9, <1>10, <1>11, <1>12, <1>13,
     <1>14, <1>15, <1>16, <1>17, <1>18, <1>19, <1>20, <1>21
  DEF Next, SupervisorRuns

\* No step loses the resume cursor between two streams.
LEMMA CarryingStep == SupInv /\ [Next]_vars => Carrying'
<1> SUFFICES ASSUME SupInv, [Next]_vars PROVE Carrying'
  OBVIOUS
<1> USE AttemptsAssumption, NoneAssumption DEF SupInv, Types, Carrying, Harvest
<1>1. CASE Start
  BY <1>1 DEF Start, Dial, Ends
<1>2. CASE DialSucceeds
  BY <1>2 DEF DialSucceeds
<1>3. CASE DialFails
  BY <1>3 DEF DialFails, Ends, ShouldRetry, BackoffFails
<1>4. CASE BackoffEnds
  BY <1>4 DEF BackoffEnds, Dial, Ends
<1>5. CASE Resumed
  BY <1>5 DEF Resumed
<1>6. CASE ResumeFails
  BY <1>6 DEF ResumeFails, Leave
<1>7. CASE PumpsEnd
  BY <1>7 DEF PumpsEnd, Leave
<1>20. CASE PumpBreaks
  BY <1>20 DEF PumpBreaks, Leave
<1>21. CASE TransportBreaks
  BY <1>21 DEF TransportBreaks, Ends
<1>8. CASE Left
  BY <1>8 DEF Left, Ends, Dial, ClearBounce, Stops
<1>9. CASE Unpark
  BY <1>9 DEF Unpark, Dial, Ends
<1>10. CASE Cancelled
  BY <1>10 DEF Cancelled, Ends, Leave
<1>11. CASE Unwound
  BY <1>11 DEF Unwound, Ends
<1>12. CASE \E k \in Connector : Connect(k) \/ ConnectReturns(k) \/ ConnectCancelled(k)
  BY <1>12 DEF Connect, ConnectReturns, ConnectCancelled
<1>13. CASE \E c \in Channel : Subscribe(c) \/ Unsubscribe(c)
  BY <1>13 DEF Subscribe, Unsubscribe, Bounce, NoBounce, Live
<1>14. CASE Close
  BY <1>14 DEF Close
<1>15. CASE CloseReturns \/ CloseCleans \/ CloseBreaks
  BY <1>15 DEF CloseReturns, CloseCleans, CloseBreaks, ResetState
<1>16. CASE CloseCancelled \/ CloseAgain
  BY <1>16 DEF CloseCancelled, CloseAgain
<1>17. CASE Drop \/ HeartbeatTimeout
  BY <1>17 DEF Drop, HeartbeatTimeout
<1>18. CASE EventId
  BY <1>18 DEF EventId
<1>19. CASE UNCHANGED vars
  BY <1>19 DEF vars
<1> QED
  BY <1>1, <1>2, <1>3, <1>4, <1>5, <1>6, <1>7, <1>8, <1>9, <1>10, <1>11, <1>12, <1>13,
     <1>14, <1>15, <1>16, <1>17, <1>18, <1>19, <1>20, <1>21
  DEF Next, SupervisorRuns

\* No step ends the supervisor without a reason.
LEMMA ReasonsStep == SupInv /\ [Next]_vars => Reasons'
<1> SUFFICES ASSUME SupInv, [Next]_vars PROVE Reasons'
  OBVIOUS
<1> USE AttemptsAssumption, NoneAssumption
  DEF SupInv, Types, Reasons, Closing, Counting, Connected, StopsForAReason
<1>1. CASE Start
  BY <1>1 DEF Start, Dial, Ends
<1>2. CASE DialSucceeds
  BY <1>2 DEF DialSucceeds
<1>3. CASE DialFails
  BY <1>3 DEF DialFails, Ends, ShouldRetry, BackoffFails
<1>4. CASE BackoffEnds
  BY <1>4 DEF BackoffEnds, Dial, Ends
<1>5. CASE Resumed
  BY <1>5 DEF Resumed
<1>6. CASE ResumeFails
  BY <1>6 DEF ResumeFails, Leave
<1>7. CASE PumpsEnd
  BY <1>7 DEF PumpsEnd, Leave
<1>20. CASE PumpBreaks
  BY <1>20 DEF PumpBreaks, Leave
<1>21. CASE TransportBreaks
  BY <1>21 DEF TransportBreaks, Ends
<1>8. CASE Left
  BY <1>8 DEF Left, Ends, Dial, ClearBounce, Stops
<1>9. CASE Unpark
  <2>1. CASE desired = {}
    BY <1>9, <2>1 DEF Unpark
  <2>2. CASE desired # {}
    BY <1>9, <2>2 DEF Unpark, Dial, Ends
  <2> QED
    BY <2>1, <2>2
<1>10. CASE Cancelled
  <2>1. CASE Ends(state, "cancelled") /\ UNCHANGED <<terminal, wire, refused>>
    <3>1. ~shouldRun /\ shouldRun' = shouldRun
      BY <1>10 DEF Cancelled, Leave
    <3> QED
      BY <2>1, <3>1
  <2>2. CASE Leave(FALSE, "cancelled")
    BY <1>10, <2>2 DEF Cancelled, Leave
  <2>3. CASE sup = "live" /\ Leave(wire = "refused", "none")
    BY <1>10, <2>3 DEF Cancelled, Leave
  <2>4. CASE Leave(FALSE, "error")
    BY <1>10, <2>4 DEF Cancelled, Leave
  <2> QED
    BY <1>10, <2>1, <2>2, <2>3, <2>4 DEF Cancelled
<1>11. CASE Unwound
  BY <1>11 DEF Unwound, Ends
<1>12. CASE \E k \in Connector : Connect(k) \/ ConnectReturns(k) \/ ConnectCancelled(k)
  BY <1>12 DEF Connect, ConnectReturns, ConnectCancelled
<1>13. CASE \E c \in Channel : Subscribe(c) \/ Unsubscribe(c)
  BY <1>13 DEF Subscribe, Unsubscribe, Bounce, NoBounce, Live
<1>14. CASE Close
  BY <1>14 DEF Close
<1>15. CASE CloseReturns \/ CloseCleans \/ CloseBreaks
  BY <1>15 DEF CloseReturns, CloseCleans, CloseBreaks, ResetState
<1>16. CASE CloseCancelled \/ CloseAgain
  BY <1>16 DEF CloseCancelled, CloseAgain
<1>17. CASE Drop \/ HeartbeatTimeout
  BY <1>17 DEF Drop, HeartbeatTimeout
<1>18. CASE EventId
  BY <1>18 DEF EventId
<1>19. CASE UNCHANGED vars
  BY <1>19 DEF vars
<1> QED
  BY <1>1, <1>2, <1>3, <1>4, <1>5, <1>6, <1>7, <1>8, <1>9, <1>10, <1>11, <1>12, <1>13,
     <1>14, <1>15, <1>16, <1>17, <1>18, <1>19, <1>20, <1>21
  DEF Next, SupervisorRuns

\* No step leaves a bounce mark without the stream it is about.
LEMMA BounceStep == SupInv /\ [Next]_vars => BounceConsumed'
<1> SUFFICES ASSUME SupInv, [Next]_vars PROVE BounceConsumed'
  OBVIOUS
<1> USE AttemptsAssumption, NoneAssumption DEF SupInv, Types, BounceConsumed, Carrying
<1>1. CASE Start
  BY <1>1 DEF Start, Dial, Ends
<1>2. CASE DialSucceeds
  BY <1>2 DEF DialSucceeds
<1>3. CASE DialFails
  BY <1>3 DEF DialFails, Ends, ShouldRetry, BackoffFails
<1>4. CASE BackoffEnds
  BY <1>4 DEF BackoffEnds, Dial, Ends
<1>5. CASE Resumed
  BY <1>5 DEF Resumed
<1>6. CASE ResumeFails
  BY <1>6 DEF ResumeFails, Leave
<1>7. CASE PumpsEnd
  BY <1>7 DEF PumpsEnd, Leave
<1>20. CASE PumpBreaks
  BY <1>20 DEF PumpBreaks, Leave
<1>21. CASE TransportBreaks
  BY <1>21 DEF TransportBreaks, Ends
<1>8. CASE Left
  BY <1>8 DEF Left, Ends, Dial, ClearBounce, Stops
<1>9. CASE Unpark
  BY <1>9 DEF Unpark, Dial, Ends
<1>10. CASE Cancelled
  <2>1. sup' \in {"done", "leaving"} /\ UNCHANGED <<bounce, sse>>
    BY <1>10 DEF Cancelled, Ends, Leave
  <2> QED
    BY <2>1
<1>11. CASE Unwound
  BY <1>11 DEF Unwound, Ends
<1>12. CASE \E k \in Connector : Connect(k) \/ ConnectReturns(k) \/ ConnectCancelled(k)
  <2>1. UNCHANGED <<sse, bounce>> /\ (sup' = sup \/ sup = "none")
    BY <1>12 DEF Connect, ConnectReturns, ConnectCancelled
  <2> QED
    BY <2>1
<1>13. CASE \E c \in Channel : Subscribe(c) \/ Unsubscribe(c)
  <2>1. UNCHANGED <<sup, sse>> /\ (bounce' = bounce \/ (sse /\ Live))
    <3> SUFFICES ASSUME NEW c \in Channel, Subscribe(c) \/ Unsubscribe(c)
                 PROVE  UNCHANGED <<sup, sse>> /\ (bounce' = bounce \/ (sse /\ Live))
      BY <1>13
    <3>1. CASE Subscribe(c)
      BY <3>1 DEF Subscribe, Bounce, NoBounce
    <3>2. CASE Unsubscribe(c)
      BY <3>2 DEF Unsubscribe, Bounce, NoBounce
    <3> QED
      BY <3>1, <3>2
  <2> QED
    BY <2>1 DEF Live
<1>14. CASE Close
  BY <1>14 DEF Close
<1>15. CASE CloseReturns \/ CloseCleans \/ CloseBreaks
  BY <1>15 DEF CloseReturns, CloseCleans, CloseBreaks, ResetState
<1>16. CASE CloseCancelled \/ CloseAgain
  BY <1>16 DEF CloseCancelled, CloseAgain
<1>17. CASE Drop \/ HeartbeatTimeout
  BY <1>17 DEF Drop, HeartbeatTimeout
<1>18. CASE EventId
  BY <1>18 DEF EventId
<1>19. CASE UNCHANGED vars
  BY <1>19 DEF vars
<1> QED
  BY <1>1, <1>2, <1>3, <1>4, <1>5, <1>6, <1>7, <1>8, <1>9, <1>10, <1>11, <1>12, <1>13,
     <1>14, <1>15, <1>16, <1>17, <1>18, <1>19, <1>20, <1>21
  DEF Next, SupervisorRuns

\* Every step keeps the invariant.
LEMMA StepSupInv == SupInv /\ [Next]_vars => SupInv'
BY TypesStep, ClosingStep, CountingStep, CarryingStep, ReasonsStep, BounceStep, Zenon
   DEF SupInv

\* The fairness of Spec is not needed for what a step may not do.
LEMMA SupInvHolds == Spec => []SupInv
<1>1. SupInv /\ [Next]_vars => SupInv'
  BY StepSupInv
<1> QED
  BY <1>1, InitSupInv, PTL DEF Spec

-----------------------------------------------------------------------------
\* reconnect_attempts N never becomes more than N retries in a row, however
\* failed dials, bounces, parks and lost connections follow each other, and
\* the client never reports that it gave up before (_should_retry).
THEOREM BudgetKept == Spec => []RetryBudget
<1>1. SupInv => RetryBudget
  BY DEF SupInv, Counting
<1> QED
  BY <1>1, SupInvHolds, PTL

\* Every dial of an SSE stream presents the last event id received, over any
\* number of streams that delivered none (_run, resume_cursor).
THEOREM CursorKept == Spec => []CursorCarried
<1>1. SupInv => CursorCarried
  BY DEF SupInv, Types, Carrying, CursorCarried
<1> QED
  BY <1>1, SupInvHolds, PTL

\* Nothing but the reasons listed ends the supervisor: a close, a refusal, no
\* reconnection wanted, a spent budget, a bad factory, or an error that is not
\* a SukkoError, out of open(), close() or a pump (_run).
THEOREM ReasonsKnown == ASSUME Attempts <= MaxExponent PROVE Spec => []StopsForAReason
<1>1. SupInv => StopsForAReason
  BY DEF SupInv, Reasons
<1> QED
  BY <1>1, SupInvHolds, PTL

\* The public state is left at "connected" without a supervisor only by an
\* error no handler names, or by a close() that is under way or was cut short;
\* one that comes to its end leaves it at "disconnected" (_run, close).
THEOREM StateTold == ASSUME ~LateConnect PROVE Spec => []StateHonest
<1>1. SupInv => StateHonest
  BY DEF SupInv, Closing
<1> QED
  BY <1>1, SupInvHolds, PTL

\* The mark of a deliberate close never outlives the stream it closed, so no
\* later failure is taken for one (_bounce, _run).
THEOREM BounceForgotten == Spec => []BounceConsumed
<1>1. SupInv => BounceConsumed
  BY DEF SupInv
<1> QED
  BY <1>1, SupInvHolds, PTL

-----------------------------------------------------------------------------
(* What the liveness properties stand on: there is no state they hang in.  *)

\* The future of connect() says what is true of the connection: while it is
\* open the supervisor is busy with the first connection, and "ok" and
\* "error" are told apart by whether there ever was one (_connect_result,
\* _on_supervisor_done).
FutureIsTrue ==
    /\ result = "none" <=> sup = "none"
    /\ result = "pending" => ~connectedOnce /\ sup \in {"starting", "dialing", "backoff"}
    /\ result = "ok" => connectedOnce
    /\ result = "error" => ~connectedOnce /\ sup = "done"
    /\ \A k \in Connector : connector[k] = "waiting" => result # "none"

\* A caller that has waited is let go only once there was a connection, or
\* with an error (connect).
ReturnMeansConnected ==
    [][\A k \in Connector :
          connector[k] = "waiting" /\ connector'[k] = "returned" => connectedOnce]_vars

\* A parked supervisor has been told of every channel there is: the set is
\* empty, or the event that wakes it is set (_park_until_channels).
NoLostWakeup == sup = "parked" /\ desired # {} => changed

\* After close() the supervisor has ended, is about to be cancelled, or is on
\* its way out of its last connection, whoever absorbed the cancel (_running).
CloseUnderway ==
    closer = "waiting" => ~shouldRun /\ (sup \in {"leaving", "done"} \/ cancelling)

\* A client that is being closed does not dial again (_run).
NoDialWhileClosing ==
    [][closer = "waiting" => ~(sup # "dialing" /\ sup' = "dialing")]_vars

\* A stream marked for a bounce is on its way out: no live stream keeps the
\* mark, and no bounce is left undone (_bounce).
BounceEndsStream == bounce /\ sup = "live" => wire # "open"

\* Only a client that has connected loses a connection, or parks; one that has
\* not been started has not connected.
Answering ==
    /\ FutureIsTrue
    /\ sup = "none" => ~connectedOnce
    /\ sup \in Connected \cup {"parked"} => connectedOnce
    /\ connector \in [Connector -> {"idle", "waiting", "returned", "failed"}]

Waking == NoLostWakeup /\ CloseUnderway /\ BounceEndsStream

LEMMA InitAnswering == Init => Answering /\ Waking
BY DEF Init, Answering, Waking, FutureIsTrue, Connected, NoLostWakeup, CloseUnderway,
       BounceEndsStream

\* Every step keeps the future true.
LEMMA AnsweringStep == SupInv /\ Answering /\ [Next]_vars => Answering'
<1> SUFFICES ASSUME SupInv, Answering, [Next]_vars PROVE Answering'
  OBVIOUS
<1> USE DEF SupInv, Types, Answering, FutureIsTrue, Connected
<1>1. CASE Start \/ BackoffEnds
  BY <1>1 DEF Start, BackoffEnds, Dial, Ends, Backstop
<1>2. CASE DialSucceeds
  BY <1>2 DEF DialSucceeds, Backstop
<1>3. CASE DialFails
  BY <1>3 DEF DialFails, Ends, Backstop
<1>4. CASE Resumed \/ ResumeFails \/ PumpsEnd \/ PumpBreaks
  BY <1>4 DEF Resumed, ResumeFails, PumpsEnd, PumpBreaks, Leave
<1>14. CASE TransportBreaks
  BY <1>14 DEF TransportBreaks, Ends, Backstop
<1>5. CASE Left
  BY <1>5 DEF Left, Ends, Dial, Backstop
<1>6. CASE Unpark
  BY <1>6 DEF Unpark, Dial, Ends, Backstop
<1>7. CASE Cancelled
  BY <1>7 DEF Cancelled, Ends, Leave, Backstop
<1>8. CASE Unwound
  BY <1>8 DEF Unwound, Ends, Backstop
<1>9. ASSUME NEW k \in Connector, Connect(k) \/ ConnectReturns(k) \/ ConnectCancelled(k)
      PROVE  Answering'
  <2>1. UNCHANGED connectedOnce
    BY <1>9 DEF Connect, ConnectReturns, ConnectCancelled
  <2>2. CASE Connect(k)
    <3>1. CASE sup # "none"
      BY <1>9, <2>1, <2>2, <3>1 DEF Connect
    <3>2. CASE sup = "none"
      <4>1. sup' = "starting" /\ result' = "pending" /\ ~connectedOnce'
        BY <2>1, <2>2, <3>2 DEF Connect
      <4>2. connector' = [connector EXCEPT ![k] = "waiting"]
        BY <2>2, <3>2 DEF Connect
      <4> QED
        BY <1>9, <4>1, <4>2
    <3> QED
      BY <3>1, <3>2
  <2>3. CASE ConnectReturns(k)
    BY <1>9, <2>1, <2>3 DEF ConnectReturns
  <2>4. CASE ConnectCancelled(k)
    BY <1>9, <2>1, <2>4 DEF ConnectCancelled
  <2> QED
    BY <1>9, <2>2, <2>3, <2>4
<1>10. CASE \E c \in Channel : Subscribe(c) \/ Unsubscribe(c)
  BY <1>10 DEF Subscribe, Unsubscribe
<1>11. CASE \/ Close \/ CloseReturns \/ CloseCleans \/ CloseBreaks \/ CloseCancelled
            \/ CloseAgain
  BY <1>11 DEF Close, CloseReturns, CloseCleans, CloseBreaks, CloseCancelled, CloseAgain
<1>12. CASE Drop \/ HeartbeatTimeout \/ EventId
  BY <1>12 DEF Drop, HeartbeatTimeout, EventId
<1>13. CASE UNCHANGED vars
  BY <1>13 DEF vars
<1> QED
  BY <1>1, <1>2, <1>3, <1>4, <1>5, <1>6, <1>7, <1>8, <1>9, <1>10, <1>11, <1>12, <1>13,
     <1>14
  DEF Next, SupervisorRuns

\* No step loses a wake-up, a cancel or a bounce.
LEMMA WakingStep == SupInv /\ Waking /\ [Next]_vars => Waking'
<1> SUFFICES ASSUME SupInv, Waking, [Next]_vars PROVE Waking'
  OBVIOUS
<1> USE DEF SupInv, Types, Closing, Waking, NoLostWakeup, CloseUnderway, BounceEndsStream,
            BounceConsumed
<1>1. CASE Start \/ BackoffEnds
  BY <1>1 DEF Start, BackoffEnds, Dial, Ends
<1>2. CASE DialSucceeds
  BY <1>2 DEF DialSucceeds
<1>3. CASE DialFails
  BY <1>3 DEF DialFails, Ends
<1>4. CASE Resumed \/ ResumeFails \/ PumpsEnd \/ PumpBreaks
  BY <1>4 DEF Resumed, ResumeFails, PumpsEnd, PumpBreaks, Leave
<1>14. CASE TransportBreaks
  BY <1>14 DEF TransportBreaks, Ends, Backstop
<1>5. CASE Left
  BY <1>5 DEF Left, Ends, Dial, ClearBounce, Stops
<1>6. CASE Unpark
  BY <1>6 DEF Unpark, Dial, Ends
<1>7. CASE Cancelled
  BY <1>7 DEF Cancelled, Ends, Leave
<1>8. CASE Unwound
  BY <1>8 DEF Unwound, Ends
<1>9. CASE \E k \in Connector : Connect(k) \/ ConnectReturns(k) \/ ConnectCancelled(k)
  BY <1>9 DEF Connect, ConnectReturns, ConnectCancelled
<1>10. CASE \E c \in Channel : Subscribe(c) \/ Unsubscribe(c)
  BY <1>10 DEF Subscribe, Unsubscribe, Bounce, NoBounce, Live, WakePark
<1>11. CASE Close \/ CloseReturns \/ CloseCleans \/ CloseBreaks \/ CloseAgain
  BY <1>11 DEF Close, CloseReturns, CloseCleans, CloseBreaks, CloseAgain
<1>15. CASE CloseCancelled
  <2>1. /\ UNCHANGED <<sup, wire, desired, bounce, changed, shouldRun>>
        /\ closer' = "waiting" => closer = "waiting" /\ (sup # "done" => cancelling')
    BY <1>15 DEF CloseCancelled
  <2> QED
    BY <2>1
<1>12. CASE Drop \/ HeartbeatTimeout \/ EventId
  BY <1>12 DEF Drop, HeartbeatTimeout, EventId
<1>13. CASE UNCHANGED vars
  BY <1>13 DEF vars
<1> QED
  BY <1>1, <1>2, <1>3, <1>4, <1>5, <1>6, <1>7, <1>8, <1>9, <1>10, <1>11, <1>12, <1>13,
     <1>14, <1>15
  DEF Next, SupervisorRuns

LEMMA CoreHolds == Spec => [](SupInv /\ Answering /\ Waking)
<1>1. SupInv /\ Answering /\ Waking /\ [Next]_vars => (SupInv /\ Answering /\ Waking)'
  BY StepSupInv, AnsweringStep, WakingStep
<1> QED
  BY <1>1, InitSupInv, InitAnswering, PTL DEF Spec

\* The future a caller of connect() waits for is open only while the first
\* connection is being made, and says what came of it (_connect_result,
\* _on_supervisor_done).
THEOREM FutureTold == Spec => []FutureIsTrue
<1>1. Answering => FutureIsTrue
  BY DEF Answering
<1> QED
  BY <1>1, CoreHolds, PTL

\* Whoever waited in connect() and got no error has been connected (connect).
THEOREM ConnectTold == Spec => ReturnMeansConnected
<1>1. Answering /\ [Next]_vars =>
         [\A k \in Connector :
             connector[k] = "waiting" /\ connector'[k] = "returned" => connectedOnce]_vars
  <2> SUFFICES ASSUME Answering, Next, NEW k \in Connector,
                      connector[k] = "waiting", connector'[k] = "returned"
               PROVE  connectedOnce
    OBVIOUS
  <2>1. result = "ok"
    BY DEF Next, SupervisorRuns, Answering, Start, DialSucceeds, DialFails, BackoffEnds,
           Resumed, ResumeFails, PumpsEnd, Left, Unpark, Cancelled, Unwound, Leave,
           PumpBreaks, TransportBreaks, Connect, ConnectReturns, ConnectCancelled,
           Subscribe, Unsubscribe, Close, CloseReturns, CloseCleans, CloseBreaks,
           CloseCancelled, CloseAgain, Drop, HeartbeatTimeout, EventId
  <2> QED
    BY <2>1 DEF Answering, FutureIsTrue
<1> QED
  BY <1>1, CoreHolds, PTL DEF Spec, ReturnMeansConnected

\* A parked supervisor never sleeps on a set that has channels in it
\* (_park_until_channels, subscribe).
THEOREM WakeupKept == Spec => []NoLostWakeup
<1>1. Waking => NoLostWakeup
  BY DEF Waking
<1> QED
  BY <1>1, CoreHolds, PTL

\* close() never waits for a supervisor that does not know it has to end
\* (close, _running).
THEOREM CloseHeard == Spec => []CloseUnderway
<1>1. Waking => CloseUnderway
  BY DEF Waking
<1> QED
  BY <1>1, CoreHolds, PTL

\* No order of close(), drops, bounces and cancels makes the supervisor dial
\* once close() has begun (_run).
THEOREM ClosingDialsNot == Spec => NoDialWhileClosing
<1>1. Waking /\ [Next]_vars =>
         [closer = "waiting" => ~(sup # "dialing" /\ sup' = "dialing")]_vars
  <2> SUFFICES ASSUME Waking, Next, closer = "waiting", sup # "dialing", sup' = "dialing"
               PROVE  FALSE
    OBVIOUS
  <2>1. Start \/ BackoffEnds \/ Left \/ Unpark
    BY DEF Next, SupervisorRuns, DialSucceeds, DialFails, Ends, Resumed, ResumeFails,
           PumpsEnd, PumpBreaks, TransportBreaks, Cancelled, Unwound, Leave, Connect,
           ConnectReturns, ConnectCancelled, Subscribe, Unsubscribe, Close, CloseReturns,
           CloseCleans, CloseBreaks, CloseCancelled, CloseAgain, Drop, HeartbeatTimeout,
           EventId
  <2>2. sup = "leaving" /\ ~shouldRun /\ Left
    BY <2>1 DEF Waking, CloseUnderway, Start, BackoffEnds, Left, Unpark
  <2> QED
    BY <2>2 DEF Left, Stops, Ends
<1> QED
  BY <1>1, CoreHolds, PTL DEF Spec, NoDialWhileClosing

\* A deliberate close of a stream is never forgotten before the stream has
\* ended (_bounce).
THEOREM BounceDone == Spec => []BounceEndsStream
<1>1. Waking => BounceEndsStream
  BY DEF Waking
<1> QED
  BY <1>1, CoreHolds, PTL

\* A client that is not connected again after its close() stays closed: no
\* order of cancels leaves a supervisor running behind it (close).
THEOREM StaysClosed == ASSUME ~LateConnect PROVE Spec => []ClosedStaysClosed
<1>1. SupInv => ClosedStaysClosed
  BY DEF SupInv, Closing
<1> QED
  BY <1>1, SupInvHolds, PTL

-----------------------------------------------------------------------------
(* The blocking wrapper: any threads that call, stream and close.          *)

\* Only close() touches the loop, and in this order: it is told to stop, it
\* has stopped, it is closed.
TeardownInOrder ==
    /\ loop # "running" => closed
    /\ \A t \in Thread :
          /\ pc[t] \in {"shutdown", "joining", "joined"} => t \in Closer /\ closed
          /\ pc[t] = "joining" => loop # "running"
          /\ pc[t] = "joined" => loop \in {"stopped", "closed"}

\* While nobody has closed the client the loop turns, and a thread that waits
\* has a job on it (_run).
OpenLoopTurns ==
    ~closed => LoopTurns /\ \A t \in Thread : pc[t] = "waiting" <=> job[t] # "none"

\* A call or a stream raises only once the loop is closed for good (_run).
ErrorMeansClosed == \A t \in Thread : outcome[t] = "error" => loop = "closed"

\* The queue ends the streams only of a client that is being closed.
EndMeansClosed == ended => closed

\* A loop that still runs is never closed under the coroutines on it
\* (_shutdown_loop).
LoopClosedWhenStopped ==
    [][loop' = "closed" => loop \in {"stopped", "closed"}]_syncVars

\* client.close() only runs for a thread that has set _closed.
SyncInv ==
    /\ SyncTypeOK /\ TeardownInOrder /\ ErrorMeansClosed /\ EndMeansClosed
    /\ \A t \in Closer : pc[t] = "waiting" \/ job[t] # "none" => closed
    /\ callback # "blocked"

LEMMA SyncInitInv == SyncInit => SyncInv
BY DEF SyncInit, SyncInv, SyncTypeOK, TeardownInOrder, ErrorMeansClosed, EndMeansClosed,
       Thread

\* Every step of a thread, of the loop or of a callback keeps it.
LEMMA SyncStepInv == SyncInv /\ [SyncNext]_syncVars => SyncInv'
<1> SUFFICES ASSUME SyncInv, [SyncNext]_syncVars PROVE SyncInv'
  OBVIOUS
<1> USE ThreadAssumption
    DEF SyncInv, SyncTypeOK, TeardownInOrder, ErrorMeansClosed, EndMeansClosed
<1>1. ASSUME NEW t \in Thread, Call(t) \/ NextItem(t)
      PROVE  SyncInv'
  BY <1>1 DEF Call, NextItem, Submit, Posted, Thread
<1>2. ASSUME NEW t \in Thread, BreakOff(t) \/ CloseEnters(t) \/ Return(t)
      PROVE  SyncInv'
  BY <1>2 DEF BreakOff, CloseEnters, Return, Thread
<1>3. ASSUME NEW t \in Thread, PostAclose(t)
      PROVE  SyncInv'
  BY <1>3 DEF PostAclose, Posted, Thread
<1>4. ASSUME NEW t \in Thread, ClosePosts(t) \/ CloseWaited(t)
      PROVE  SyncInv'
  <2>1. CASE ClosePosts(t)
    BY <1>4, <2>1 DEF ClosePosts, Posted, Thread
  <2>2. CASE CloseWaited(t)
    BY <1>4, <2>2 DEF CloseWaited, Thread
  <2> QED
    BY <1>4, <2>1, <2>2
<1>5. ASSUME NEW t \in Thread, PostStop(t)
      PROVE  SyncInv'
  BY <1>5 DEF PostStop
<1>6. ASSUME NEW t \in Thread, Join(t) \/ CloseLoop(t)
      PROVE  SyncInv'
  BY <1>6 DEF Join, CloseLoop
<1>7. ASSUME NEW t \in Thread, Turns(t) \/ FinishNext(t)
      PROVE  SyncInv'
  BY <1>7 DEF Turns, StartJob, FinishCall, FinishNext, LoopTurns, Thread
<1>8. ASSUME NEW t \in Thread, FinishClose(t)
      PROVE  SyncInv'
  <2>1. /\ UNCHANGED <<closed, loop, callback, pc>> /\ t \in Closer /\ job[t] = "started"
        /\ ended' \in BOOLEAN /\ (ended' => ended \/ closed)
    BY <1>8 DEF FinishClose, Thread
  <2>2. /\ job' \in [Thread -> {"none", "posted", "started", "done"}]
        /\ outcome' \in [Thread -> {"none", "value", "end", "error"}]
    BY <1>8 DEF FinishClose, Waiting, Thread
  <2>3. \A u \in Thread : job'[u] = job[u] \/ (job[u] # "none" /\ job'[u] # "none")
    BY <1>8 DEF FinishClose, Waiting, Thread
  <2>4. \A u \in Thread : outcome'[u] = "error" => outcome[u] = "error"
    BY <1>8 DEF FinishClose, Waiting, Thread
  <2> QED
    BY <2>1, <2>2, <2>3, <2>4
<1>9. CASE StopLoop \/ CallbackCalls \/ CallbackClosesClient
  <2>1. CASE StopLoop
    BY <2>1 DEF StopLoop
  <2>2. CASE CallbackCalls
    BY <2>2 DEF CallbackCalls, OnLoopThread
  <2>3. CASE CallbackClosesClient
    BY <2>3 DEF CallbackClosesClient, OnLoopThread
  <2> QED
    BY <1>9, <2>1, <2>2, <2>3
<1>10. CASE UNCHANGED syncVars
  BY <1>10 DEF syncVars
<1> QED
  BY <1>1, <1>2, <1>3, <1>4, <1>5, <1>6, <1>7, <1>8, <1>9, <1>10 DEF SyncNext, Proceeds

LEMMA SyncInvHolds == SyncSpec => []SyncInv
BY SyncInitInv, SyncStepInv, PTL DEF SyncSpec

\* However many threads close the client at once, and whatever a callback has
\* done before, none of them waits for a loop that was not told to stop
\* (_shutdown_loop): what TornDown needs besides fairness.
THEOREM TeardownKept == SyncSpec => []TeardownInOrder
<1>1. SyncInv => TeardownInOrder
  BY DEF SyncInv
<1> QED
  BY <1>1, SyncInvHolds, PTL

\* As long as nobody closes the client the loop is free to run every job it
\* has been given, whatever callbacks do on its thread (_run): what
\* TimedCallsReturn needs besides the fairness of the calls that have a timeout.
THEOREM LoopFree == SyncSpec => []OpenLoopTurns
<1>1. SyncInv => OpenLoopTurns
  BY DEF SyncInv, SyncTypeOK, TeardownInOrder, OpenLoopTurns, LoopTurns
<1> QED
  BY <1>1, SyncInvHolds, PTL

\* No call and no stream raises the loop's error before the loop is closed,
\* and the queue ends no stream before close() (_run, stream).
THEOREM ErrorsExplained == SyncSpec => [](ErrorMeansClosed /\ EndMeansClosed)
<1>1. SyncInv => ErrorMeansClosed /\ EndMeansClosed
  BY DEF SyncInv
<1> QED
  BY <1>1, SyncInvHolds, PTL

\* Two threads in close() never close a loop that still runs, which asyncio
\* forbids (_shutdown_loop).
THEOREM ClosesStoppedLoop == SyncSpec => LoopClosedWhenStopped
<1>1. SyncInv /\ [SyncNext]_syncVars =>
         [loop' = "closed" => loop \in {"stopped", "closed"}]_syncVars
  <2> SUFFICES ASSUME SyncInv, SyncNext, loop' = "closed", loop \notin {"stopped", "closed"}
               PROVE  FALSE
    OBVIOUS
  <2>1. \E t \in Thread : CloseLoop(t)
    BY DEF SyncNext, Proceeds, Turns, Call, NextItem, BreakOff, CloseEnters, Return,
           PostAclose, ClosePosts, CloseWaited, PostStop, Join, StartJob, FinishCall,
           FinishNext, FinishClose, StopLoop, CallbackCalls, CallbackClosesClient
  <2> QED
    BY <2>1 DEF CloseLoop, SyncInv, TeardownInOrder
<1> QED
  BY <1>1, SyncInvHolds, PTL DEF SyncSpec, LoopClosedWhenStopped
=============================================================================
