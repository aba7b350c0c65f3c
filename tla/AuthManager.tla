---------------------------- MODULE AuthManager ----------------------------
(***************************************************************************)
(* The single-flight auth machinery of src/sukko/auth.py, as the asyncio   *)
(* tasks that run it: callers of refresh() and escalate(), the reactive    *)
(* refreshes the read pump spawns, and the proactive timer.                *)
(*                                                                         *)
(* One action is what a task does between two suspensions.  At most one    *)
(* future can be in _pending; `pending' is the task that created it, `fut' *)
(* its state and `waiters' the tasks suspended on it, in the order they    *)
(* began to wait.  asyncio wakes them in that order (`ready'), and a wait  *)
(* on a future that is already done does not suspend at all.  Cancelling a *)
(* task cancels the future it is suspended on, whoever else waits on it.   *)
(*                                                                         *)
(* The floor between refreshes and the backoff only decide how long a      *)
(* task stays in its token step, which any number of other steps may       *)
(* interrupt here; the wire is FIFO and the server answers every frame.    *)
(***************************************************************************)
EXTENDS Integers, Sequences, FiniteSets

CONSTANTS
    Refresher,   \* tasks that call refresh()
    Escalator,   \* tasks that call escalate(jwt)
    Reactive,    \* slots for the refreshes an auth_error spawns
    TimerTask,   \* slots for the proactive timer's tasks
    None,        \* Python's None
    MaxWire,     \* no new call while the server has this many frames to answer
    MayCancel    \* do callers cancel (or time out) their own calls?

Caller == Refresher \cup Escalator
Task   == Caller \cup Reactive \cup TimerTask

ASSUME TaskAssumption == None \notin Task /\ MaxWire \in Nat /\ MayCancel \in BOOLEAN
ASSUME EscalatorAssumption == Escalator \cap (Refresher \cup Reactive \cup TimerTask) = {}

VARIABLES
    pc,          \* where each task is suspended
    pending,     \* _pending: the task that owns the in-flight future
    fut,         \* the state of that future
    waiters,     \* the tasks suspended on it
    ready,       \* the tasks a future woke, with what they were woken with
    doomed,      \* tasks cancelled while suspended on something else
    timer,       \* _timer
    token,       \* _token
    connected,   \* the client has a live transport
    wire,        \* senders of the auth frames the server has yet to answer
    returned,    \* the call that returned in the last step, if one did
    cancelled,   \* the callers that cancelled their current call
    deferred,    \* an escalation was deferred and no call has started since
    spinning     \* a task loops without ever yielding to the event loop

future == <<pending, fut, waiters>>
ghosts == <<returned, cancelled, deferred>>
vars   == <<pc, future, ready, doomed, timer, token, connected, wire, ghosts, spinning>>

Result == {"ok", "error", "dropped", "cancelled"}

TypeOK ==
    /\ pc \in [Task -> {"idle", "sleep", "spawned", "provider", "drain",
                        "await", "coalesced", "escalate"}]
    /\ pending \in Task \cup {None}
    /\ fut \in Result \cup {"none", "open"}
    /\ waiters \in Seq(Task)
    /\ ready \in Seq([task : Task, with : Result])
    /\ doomed \subseteq Task
    /\ timer \in TimerTask \cup {None}
    /\ token \in {"set", "fresh", "jwt"}
    /\ connected \in BOOLEAN
    /\ wire \in Seq(Task)
    /\ returned \in [task : Task, with : Result \cup {"deferred"}, asked : BOOLEAN] \cup {None}
    /\ cancelled \subseteq Caller
    /\ deferred \in BOOLEAN
    /\ spinning \in BOOLEAN

Init ==
    /\ pc = [t \in Task |-> "idle"]
    /\ pending = None /\ fut = "none" /\ waiters = <<>>
    /\ ready = <<>> /\ doomed = {}
    /\ timer = None
    /\ token = "set"
    /\ connected = TRUE /\ wire = <<>>
    /\ returned = None
    /\ cancelled = {} /\ deferred = FALSE /\ spinning = FALSE

-----------------------------------------------------------------------------
(* Helpers.                                                                *)

Open == pending # None /\ fut = "open"
Done == pending # None /\ fut # "open"

\* The future is resolved: its waiters become ready, in order.
Woken(res) == [i \in 1 .. Len(waiters) |-> [task |-> waiters[i], with |-> res]]

InSeq(t, q)   == \E i \in 1 .. Len(q) : q[i] = t
IsReady(t, q) == \E i \in 1 .. Len(q) : q[i].task = t

\* t was cancelled after its future had resolved: it wakes cancelled.
WakesCancelled(t, q) ==
    [i \in 1 .. Len(q) |-> IF q[i].task = t THEN [q[i] EXCEPT !.with = "cancelled"] ELSE q[i]]

Returns(t, res) ==
    /\ pc' = [pc EXCEPT ![t] = "idle"]
    /\ returned' = [task |-> t, with |-> res, asked |-> t \in cancelled]
    /\ cancelled' = cancelled \ {t}

NothingReturns == returned' = None /\ UNCHANGED cancelled

\* t begins to wait on the open future.
Joins(t, where) ==
    /\ waiters' = Append(waiters, t)
    /\ pc' = [pc EXCEPT ![t] = where]

\* Wrong variants, each a slip the code could contain; they show that the
\* properties below can fail.
OwnerLeavesOpen(t, res) ==      \* the shared future is not resolved
    /\ waiters' = waiters /\ ready' = ready
    /\ pending' = None /\ fut' = "none"
    /\ Returns(t, res)
JwtAlreadyStored == UNCHANGED token   \* the JWT is stored before the wait only

\* The owner t leaves _run_auth with res: the shared future is resolved if
\* it still is open, and the slot is freed.
OwnerLeaves(t, res) ==
    /\ ready' = IF fut = "open" THEN ready \o Woken(res) ELSE ready
    /\ waiters' = <<>> /\ pending' = None /\ fut' = "none"
    /\ Returns(t, res)

\* A new call is made, or a task starts a refresh, only while the server has
\* few frames to answer: what has begun is never held up by the bound.
MayStart == Len(wire) < MaxWire

\* The owner puts its auth frame on the wire.
Sends(t) ==
    /\ wire' = Append(wire, t)
    /\ pc' = [pc EXCEPT ![t] = "drain"]

-----------------------------------------------------------------------------
(* refresh()                                                               *)

BeginRefresh(t) ==
    \/ /\ pending = None
       /\ pending' = t /\ fut' = "open" /\ waiters' = <<>>
       /\ pc' = [pc EXCEPT ![t] = "provider"]
       /\ NothingReturns /\ UNCHANGED ready
    \/ /\ Open
       /\ Joins(t, "coalesced")
       /\ NothingReturns /\ UNCHANGED <<pending, fut, ready>>
    \/ /\ Done                  \* the result is there: no suspension
       /\ Returns(t, fut)
       /\ UNCHANGED <<future, ready>>

Refresh(t) ==
    /\ pc[t] = "idle" /\ ~IsReady(t, ready) /\ MayStart
    /\ BeginRefresh(t)
    /\ deferred' = FALSE
    /\ UNCHANGED <<doomed, timer, token, connected, wire>>

\* A spawned reactive refresh, or the proactive timer, starts its refresh.
RefreshStarts(t) ==
    /\ \/ t \in Reactive /\ pc[t] = "spawned"
       \/ t \in TimerTask /\ pc[t] = "sleep" /\ t \notin doomed
    /\ MayStart
    /\ BeginRefresh(t)
    /\ deferred' = FALSE
    /\ UNCHANGED <<doomed, timer, token, connected, wire>>

\* The token step fails: there is no token, or get_token raises a SukkoError.
\* (Anything else the user's function lets out is not modelled: it would leave
\* refresh() the same way, end the task of a reactive or proactive refresh
\* unobserved, and be raised by an escalation that waits, auth.py:137-162.)
ProviderFails(t) ==
    /\ pc[t] = "provider" /\ t \notin doomed
    /\ OwnerLeaves(t, "error")
    /\ UNCHANGED <<doomed, timer, token, connected, wire, deferred>>

\* The token is there: it is stored, then sent.
Provides(t) ==
    /\ pc[t] = "provider" /\ t \notin doomed
    /\ token' = "fresh"
    /\ \/ /\ connected
          /\ Sends(t)
          /\ NothingReturns /\ UNCHANGED <<future, ready>>
       \/ /\ ~connected
          /\ OwnerLeaves(t, "dropped")
          /\ UNCHANGED wire
    /\ UNCHANGED <<doomed, timer, connected, deferred>>

\* The send returns; the owner waits for the answer unless it is there.
Drained(t) ==
    /\ pc[t] = "drain" /\ t \notin doomed
    /\ \/ /\ fut = "open"
          /\ Joins(t, "await")
          /\ NothingReturns /\ UNCHANGED <<pending, fut, ready>>
       \/ /\ fut # "open"
          /\ OwnerLeaves(t, fut)
    /\ UNCHANGED <<doomed, timer, token, connected, wire, deferred>>

\* The send fails, the connection having dropped under it.
SendFails(t) ==
    /\ pc[t] = "drain" /\ t \notin doomed /\ ~connected
    /\ OwnerLeaves(t, "dropped")
    /\ UNCHANGED <<doomed, timer, token, connected, wire, deferred>>

-----------------------------------------------------------------------------
(* escalate(jwt)                                                           *)

\* The credential is set once the wait is over, right before the claim.
StoresJwt == token' = "jwt"

\* One turn of escalate's loop, up to where it suspends or returns.
EscalateLoop(e) ==
    \/ /\ pending = None /\ connected
       /\ StoresJwt
       /\ pending' = e /\ fut' = "open" /\ waiters' = <<>>
       /\ Sends(e)
       /\ NothingReturns /\ UNCHANGED <<deferred, spinning>>
    \/ /\ pending = None /\ ~connected    \* the send raises NotConnectedError
       /\ token' = "jwt"
       /\ Returns(e, "dropped")
       /\ UNCHANGED <<future, wire, deferred, spinning>>
    \/ /\ Open
       /\ Joins(e, "escalate")
       /\ NothingReturns
       /\ UNCHANGED <<pending, fut, token, wire, deferred, spinning>>
    \/ /\ Done /\ fut = "dropped"
       /\ token' = "jwt" /\ deferred' = TRUE
       /\ Returns(e, "deferred")
       /\ UNCHANGED <<future, wire, spinning>>
    \/ /\ Done /\ fut = "cancelled"
       /\ Returns(e, "cancelled")
       /\ UNCHANGED <<future, token, wire, deferred, spinning>>
    \/ /\ Done /\ fut \in {"ok", "error"}  \* awaits a done future for ever
       /\ spinning' = TRUE
       /\ NothingReturns /\ UNCHANGED <<pc, future, token, wire, deferred>>

Escalate(e) ==
    /\ pc[e] = "idle" /\ ~IsReady(e, ready) /\ MayStart
    /\ \/ connected /\ EscalateLoop(e)
       \/ /\ ~connected
          /\ token' = "jwt" /\ deferred' = TRUE
          /\ Returns(e, "deferred")
          /\ UNCHANGED <<future, wire, spinning>>
    /\ UNCHANGED <<ready, doomed, timer, connected>>

-----------------------------------------------------------------------------
(* A task that waited on the future resumes.                               *)

Resumes ==
    /\ ready # <<>>
    /\ ready' = Tail(ready)
    /\ LET t == Head(ready).task
           r == Head(ready).with
       IN
       \/ /\ pc[t] = "await"
          /\ pending' = None /\ fut' = "none" /\ waiters' = <<>>
          /\ Returns(t, r)
          /\ UNCHANGED <<token, wire, deferred, spinning>>
       \/ /\ pc[t] = "coalesced"
          /\ Returns(t, r)
          /\ UNCHANGED <<future, token, wire, deferred, spinning>>
       \/ /\ pc[t] = "escalate" /\ r = "dropped"
          /\ token' = "jwt" /\ deferred' = TRUE
          /\ Returns(t, "deferred")
          /\ UNCHANGED <<future, wire, spinning>>
       \/ /\ pc[t] = "escalate" /\ r = "cancelled"
          /\ Returns(t, "cancelled")
          /\ UNCHANGED <<future, token, wire, deferred, spinning>>
       \/ /\ pc[t] = "escalate" /\ r \in {"ok", "error"}
          /\ EscalateLoop(t)
    /\ UNCHANGED <<doomed, timer, connected>>

-----------------------------------------------------------------------------
(* The read pump's hooks.                                                  *)

\* Cancelling the timer task, when q is the ready queue at that moment and
\* the task is not suspended on the future: it unwinds when it next runs.
DoomTimer(q) ==
    /\ ready' = IF timer = None THEN q ELSE WakesCancelled(timer, q)
    /\ doomed' = IF timer # None /\ ~IsReady(timer, q) /\ pc[timer] # "idle"
                 THEN doomed \cup {timer} ELSE doomed

\* on_auth_ack: resolve the future, then re-arm the timer (or not: exp = 0).
AuthAck ==
    /\ connected /\ wire # <<>>
    /\ wire' = Tail(wire)
    /\ fut' = IF Open THEN "ok" ELSE fut
    /\ waiters' = IF Open THEN <<>> ELSE waiters
    /\ DoomTimer(IF Open THEN ready \o Woken("ok") ELSE ready)
    /\ \/ /\ timer' = None
          /\ UNCHANGED pc
       \/ \E t \in TimerTask :
             /\ pc[t] = "idle" /\ ~IsReady(t, ready)
             /\ timer' = t
             /\ pc' = [pc EXCEPT ![t] = "sleep"]
    /\ NothingReturns /\ UNCHANGED <<pending, token, connected, deferred>>

\* on_auth_error, for a frame the server refuses or of the server's own.
AuthError ==
    /\ connected
    /\ wire' \in {wire} \cup (IF wire = <<>> THEN {} ELSE {Tail(wire)})
    /\ \/ /\ Open
          /\ fut' = "error" /\ waiters' = <<>>
          /\ ready' = ready \o Woken("error")
          /\ UNCHANGED pc
       \/ /\ ~Open                \* unsolicited: a reactive refresh is spawned
          /\ \E t \in Reactive :
                /\ pc[t] = "idle" /\ ~IsReady(t, ready)
                /\ pc' = [pc EXCEPT ![t] = "spawned"]
          /\ UNCHANGED <<fut, waiters, ready>>
    /\ NothingReturns /\ UNCHANGED <<pending, doomed, timer, token, connected, deferred>>

-----------------------------------------------------------------------------
(* Cancellation, teardown and the connection.                              *)

\* A task cancelled in its sleep, its token step or its send unwinds.
Unwinds(t) ==
    /\ t \in doomed /\ pc[t] \in {"sleep", "provider", "drain"}
    /\ doomed' = doomed \ {t}
    /\ IF pc[t] = "sleep"
       THEN Returns(t, "cancelled") /\ UNCHANGED <<future, ready>>
       ELSE OwnerLeaves(t, "cancelled")
    /\ UNCHANGED <<timer, token, connected, wire, deferred>>

\* A caller cancels its own call, for instance because it timed out.
CallerCancels(t) ==
    /\ MayCancel /\ t \in Caller /\ pc[t] # "idle" /\ t \notin cancelled
    /\ cancelled' = cancelled \cup {t} /\ returned' = None
    /\ \/ /\ InSeq(t, waiters)          \* the future itself is cancelled
          /\ fut' = "cancelled" /\ waiters' = <<>>
          /\ ready' = ready \o Woken("cancelled")
          /\ UNCHANGED <<pending, doomed>>
       \/ /\ IsReady(t, ready)
          /\ ready' = WakesCancelled(t, ready)
          /\ UNCHANGED <<future, doomed>>
       \/ /\ ~InSeq(t, waiters) /\ ~IsReady(t, ready)
          /\ doomed' = doomed \cup {t}
          /\ UNCHANGED <<future, ready>>
    /\ UNCHANGED <<pc, timer, token, connected, wire, deferred>>

AcloseTimerOnly ==               \* wrong: an open future is left open
    /\ DoomTimer(ready)
    /\ UNCHANGED <<fut, waiters>>

\* aclose: the timer is cancelled, then an open future is failed.
Aclose ==
    \/ /\ timer # None /\ InSeq(timer, waiters)
       /\ fut' = "cancelled" /\ waiters' = <<>>
       /\ ready' = ready \o Woken("cancelled")
       /\ UNCHANGED doomed
    \/ /\ ~(timer # None /\ InSeq(timer, waiters))
       /\ fut' = IF Open THEN "dropped" ELSE fut
       /\ waiters' = IF Open THEN <<>> ELSE waiters
       /\ DoomTimer(IF Open THEN ready \o Woken("dropped") ELSE ready)

\* The epoch ends; the frames on the wire are lost.
Disconnect ==
    /\ connected
    /\ connected' = FALSE /\ wire' = <<>>
    /\ Aclose /\ timer' = None
    /\ NothingReturns /\ UNCHANGED <<pc, pending, token, deferred>>

Reconnect ==
    /\ ~connected
    /\ connected' = TRUE
    /\ NothingReturns
    /\ UNCHANGED <<pc, future, ready, doomed, timer, token, wire, deferred>>

UpdateToken ==
    /\ token' = "set" /\ deferred' = FALSE
    /\ NothingReturns
    /\ UNCHANGED <<pc, future, ready, doomed, timer, connected, wire>>

-----------------------------------------------------------------------------
Runs(t) == \/ RefreshStarts(t)
           \/ ProviderFails(t) \/ Provides(t) \/ Drained(t) \/ SendFails(t)
           \/ Unwinds(t)

Next ==
    /\ ~spinning
    /\ \/ \E t \in Refresher : Refresh(t) /\ UNCHANGED spinning
       \/ \E t \in Task : Runs(t) /\ UNCHANGED spinning
       \/ \E e \in Escalator : Escalate(e)
       \/ Resumes
       \/ \E t \in Caller : CallerCancels(t) /\ UNCHANGED spinning
       \/ (AuthAck \/ AuthError \/ Disconnect \/ Reconnect \/ UpdateToken)
             /\ UNCHANGED spinning

\* The event loop runs every ready task, every sleep, token fetch and send
\* ends, and the server answers a frame or the connection is torn down.
Fairness ==
    /\ \A t \in Task : WF_vars(~spinning /\ Runs(t) /\ UNCHANGED spinning)
    /\ WF_vars(~spinning /\ Resumes)
    /\ WF_vars(~spinning /\ wire # <<>>
               /\ (AuthAck \/ AuthError \/ Disconnect) /\ UNCHANGED spinning
               /\ wire' # wire)

Spec == Init /\ [][Next]_vars /\ Fairness

-----------------------------------------------------------------------------
(* Properties.                                                             *)

\* Whoever waits on the shared future waits for something that will come:
\* the future is the one in _pending, its owner still has to send or its
\* frame is on the wire of the live connection (auth.py:16-18: otherwise
\* refresh() would hang forever across a disconnect).
WaitersAnswered ==
    waiters # <<>> =>
        /\ Open
        /\ pc[pending] = "await" => connected /\ InSeq(pending, wire)
        /\ pc[pending] \in {"provider", "drain", "await"}

\* Every call of refresh() returns, acked, rejected or interrupted, unless an
\* escalation has the event loop to itself.
RefreshReturns ==
    \A t \in Refresher : pc[t] # "idle" ~> (pc[t] = "idle" \/ spinning)

\* While an escalation's frame is unanswered nothing replaces the JWT but
\* the caller's own update_token (auth.py:164, "so a refresh completing
\* during it can't clobber the JWT").
EscalationKeepsJwt ==
    \A e \in Escalator :
        pending = e => token \in {"jwt", "set"}

-----------------------------------------------------------------------------
(* What the code does not keep (README, Deviations).                       *)

\* escalate "waits for any in-flight refresh to FINISH [...], then sends its
\* own auth frame" (auth.py:143-145): the wait suspends and ends, so no step
\* may loop without ever yielding to the event loop.
LoopResponsive == ~spinning

\* aclose must "fail any pending refresh so no coroutine hangs across a
\* disconnect" (auth.py:212-213), with the NotConnectedError that escalate
\* defers on: a call its caller did not cancel never ends in CancelledError.
OnlyCancelledCallsCancel ==
    (returned # None /\ returned.task \in Caller /\ returned.with = "cancelled")
        => returned.asked

\* escalate "sends its own auth frame and awaits its own ack"
\* (auth.py:144-145): when it returns True, its frame has been answered.
EscalatedByOwnAck ==
    (returned # None /\ returned.task \in Escalator /\ returned.with = "ok")
        => ~InSeq(returned.task, wire)

\* A deferred escalation stores its JWT and "the next reconnect will present
\* the JWT" (auth.py:151): it stays the credential until a later call.
DeferredJwtPresented == deferred => token = "jwt"
=============================================================================
