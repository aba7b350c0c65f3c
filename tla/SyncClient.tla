----------------------------- MODULE SyncClient -----------------------------
(***************************************************************************)
(* The blocking wrapper src/sukko/sync.py: user threads that submit        *)
(* coroutines to an event loop on a thread of its own and wait for their   *)
(* results, against close(), which stops that loop.                        *)
(*                                                                         *)
(* A call is a job: posted to the loop, started by it, finished on it.  A  *)
(* job the loop has not finished when it stops never finishes.  The loop   *)
(* runs callbacks in the order they were posted: the wake-up of a stream   *)
(* waiting in the queue when client.close() puts the sentinel there        *)
(* precedes the stop, which is posted only once the closing thread has     *)
(* heard that client.close() is done; so the two are one step here.        *)
(***************************************************************************)
EXTENDS Integers

CONSTANTS
    Worker,      \* threads that call the blocking operations
    Timed,       \* those whose operation has a timeout: rest_publish, by httpx
    Streamer,    \* threads that iterate over stream()
    Closer       \* threads that call close()

Thread == Worker \cup Streamer \cup Closer

ASSUME ThreadAssumption ==
    /\ Worker \cap Streamer = {} /\ Worker \cap Closer = {} /\ Streamer \cap Closer = {}
    /\ Timed \subseteq Worker

VARIABLES
    closed,     \* _closed
    ended,      \* client.close() has put the sentinel in the queue
    loop,       \* the state of the loop and its thread
    callback,   \* what came of the callback that called into the wrapper
    pc,         \* where each thread is
    job,        \* the job each thread waits for
    outcome     \* how its last call came back

syncVars == <<closed, ended, loop, callback, pc, job, outcome>>

SyncTypeOK ==
    /\ closed \in BOOLEAN /\ ended \in BOOLEAN
    /\ loop \in {"running", "stopping", "stopped", "closed"}
    /\ callback \in {"none", "raised", "blocked"}
    /\ pc \in [Thread -> {"idle", "entered", "waiting", "shutdown", "joining",
                          "joined", "over"}]
    /\ job \in [Thread -> {"none", "posted", "started", "done"}]
    /\ outcome \in [Thread -> {"none", "value", "end", "error"}]
    /\ \A t \in Thread : pc[t] = "waiting" => job[t] # "none"
    /\ \A t \in Thread \ Closer : job[t] # "none" => pc[t] = "waiting"

\* The wrapper has been constructed: its thread runs the loop.
SyncInit ==
    /\ closed = FALSE /\ ended = FALSE
    /\ loop = "running" /\ callback = "none"
    /\ pc = [t \in Thread |-> "idle"]
    /\ job = [t \in Thread |-> "none"]
    /\ outcome = [t \in Thread |-> "none"]

-----------------------------------------------------------------------------
(* Wrong variants, each a slip the code could contain.                     *)
WaitsOnLoopThread == "blocked"            \* _run without its thread check
GivesUpNever(t) == FALSE                  \* client.close() without timeout

\* What _run does when it is called on the loop thread.
OnLoopThread == "raised"

\* close() waits for client.close() at most _CLOSE_TIMEOUT.
GivesUp(t) == t \in Closer

\* What becomes of a coroutine handed to run_coroutine_threadsafe.
Posted == "posted"

LoopTurns == loop \in {"running", "stopping"} /\ callback # "blocked"

\* A call into the wrapper: the coroutine is posted, or the loop refuses it
\* because it is closed.
Submit(t) ==
    IF loop = "closed"
    THEN /\ outcome' = [outcome EXCEPT ![t] = "error"]
         /\ UNCHANGED <<pc, job>>
    ELSE /\ pc' = [pc EXCEPT ![t] = "waiting"]
         /\ job' = [job EXCEPT ![t] = Posted]
         /\ UNCHANGED outcome

\* A blocking operation.  Calling one after close() is the user's mistake.
Call(t) ==
    /\ t \in Worker /\ pc[t] = "idle" /\ ~closed
    /\ Submit(t)
    /\ UNCHANGED <<closed, ended, loop, callback>>

\* stream() asks for the next item, until it has ended.
NextItem(t) ==
    /\ t \in Streamer /\ pc[t] = "idle" /\ outcome[t] \in {"none", "value"}
    /\ Submit(t)
    /\ UNCHANGED <<closed, ended, loop, callback>>

\* The caller breaks off: the generator's finally reads _closed, and only
\* then posts the aclose().
BreakOff(t) ==
    /\ t \in Streamer /\ pc[t] = "idle" /\ outcome[t] = "value" /\ ~closed
    /\ pc' = [pc EXCEPT ![t] = "entered"]
    /\ UNCHANGED <<closed, ended, loop, callback, job, outcome>>

\* Whatever aclose() raises is suppressed.
PostAclose(t) ==
    /\ t \in Streamer /\ pc[t] = "entered"
    /\ IF loop = "closed"
       THEN pc' = [pc EXCEPT ![t] = "over"] /\ UNCHANGED job
       ELSE /\ pc' = [pc EXCEPT ![t] = "waiting"]
            /\ job' = [job EXCEPT ![t] = Posted]
    /\ outcome' = [outcome EXCEPT ![t] = "end"]
    /\ UNCHANGED <<closed, ended, loop, callback>>

Return(t) ==
    /\ t \notin Closer /\ pc[t] = "waiting" /\ job[t] = "done"
    /\ job' = [job EXCEPT ![t] = "none"]
    /\ pc' = [pc EXCEPT ![t] = IF outcome[t] = "end" THEN "over" ELSE "idle"]
    /\ UNCHANGED <<closed, ended, loop, callback, outcome>>

-----------------------------------------------------------------------------
(* close().                                                                *)

\* _closed is tested, and in a later step set: another thread may run between.
CloseEnters(t) ==
    /\ t \in Closer /\ pc[t] = "idle"
    /\ pc' = [pc EXCEPT ![t] = IF closed THEN "over" ELSE "entered"]
    /\ UNCHANGED <<closed, ended, loop, callback, job, outcome>>

\* client.close() is posted; an error of the closed loop is suppressed.
ClosePosts(t) ==
    /\ t \in Closer /\ pc[t] = "entered"
    /\ closed' = TRUE
    /\ IF loop = "closed"
       THEN pc' = [pc EXCEPT ![t] = "shutdown"] /\ UNCHANGED job
       ELSE /\ pc' = [pc EXCEPT ![t] = "waiting"]
            /\ job' = [job EXCEPT ![t] = Posted]
    /\ UNCHANGED <<ended, loop, callback, outcome>>

\* client.close() has returned, or the wait for it is given up: the coroutine
\* then goes on on the loop for as long as that turns.
CloseWaited(t) ==
    /\ t \in Closer /\ pc[t] = "waiting"
    /\ job[t] = "done" \/ GivesUp(t)
    /\ pc' = [pc EXCEPT ![t] = "shutdown"]
    /\ job' = [job EXCEPT ![t] = IF @ = "done" THEN "none" ELSE @]
    /\ UNCHANGED <<closed, ended, loop, callback, outcome>>

\* _shutdown_loop: post the stop (a closed loop refuses it), join, close.
PostStop(t) ==
    /\ pc[t] = "shutdown"
    /\ IF loop = "closed"
       THEN /\ pc' = [pc EXCEPT ![t] = "over"]
            /\ outcome' = [outcome EXCEPT ![t] = "error"]
            /\ UNCHANGED loop
       ELSE /\ pc' = [pc EXCEPT ![t] = "joining"]
            /\ loop' = IF loop = "running" THEN "stopping" ELSE loop
            /\ UNCHANGED outcome
    /\ UNCHANGED <<closed, ended, callback, job>>

Join(t) ==
    /\ pc[t] = "joining" /\ loop \in {"stopped", "closed"}
    /\ pc' = [pc EXCEPT ![t] = "joined"]
    /\ UNCHANGED <<closed, ended, loop, callback, job, outcome>>

CloseLoop(t) ==
    /\ pc[t] = "joined"
    /\ loop' = "closed"
    /\ pc' = [pc EXCEPT ![t] = "over"]
    /\ UNCHANGED <<closed, ended, callback, job, outcome>>

-----------------------------------------------------------------------------
(* The loop thread.                                                        *)

StartJob(t) ==
    /\ LoopTurns /\ job[t] = "posted"
    /\ job' = [job EXCEPT ![t] = "started"]
    /\ UNCHANGED <<closed, ended, loop, callback, pc, outcome>>

\* A worker's coroutine, or the aclose() of a stream, is done.
FinishCall(t) ==
    /\ LoopTurns /\ job[t] = "started" /\ t \notin Closer
    /\ t \in Streamer => outcome[t] = "end"
    /\ job' = [job EXCEPT ![t] = "done"]
    /\ outcome' = [outcome EXCEPT ![t] = IF t \in Worker THEN "value" ELSE "end"]
    /\ UNCHANGED <<closed, ended, loop, callback, pc>>

\* The queue has an item for the stream, or the sentinel.
FinishNext(t) ==
    /\ LoopTurns /\ job[t] = "started" /\ t \in Streamer /\ outcome[t] # "end"
    /\ job' = [job EXCEPT ![t] = "done"]
    /\ outcome' \in {[outcome EXCEPT ![t] = v] : v \in IF ended THEN {"end"} ELSE {"value"}}
    /\ UNCHANGED <<closed, ended, loop, callback, pc>>

Waiting == {t \in Streamer : job[t] = "started" /\ outcome[t] # "end"}

\* client.close() is done: the sentinel ends the stream that waits for an item.
\* A second client.close() returns at once, while the first one still runs.
FinishClose(t) ==
    /\ LoopTurns /\ job[t] = "started" /\ t \in Closer
    /\ \/ /\ \E u \in Closer \ {t} : job[u] = "started"
          /\ job' = [job EXCEPT ![t] = "done"]
          /\ UNCHANGED <<ended, outcome>>
       \/ /\ \A u \in Closer \ {t} : job[u] # "started"
          /\ ended' = TRUE
          /\ \/ Waiting = {} /\ job' = [job EXCEPT ![t] = "done"] /\ UNCHANGED outcome
             \/ \E u \in Waiting :
                   /\ job' = [job EXCEPT ![t] = "done", ![u] = "done"]
                   /\ outcome' = [outcome EXCEPT ![u] = "end"]
    /\ UNCHANGED <<closed, loop, callback, pc>>

\* The loop stops; a client.close() that nobody waits for any more is gone.
StopLoop ==
    /\ loop = "stopping" /\ callback # "blocked"
    /\ loop' = "stopped"
    /\ job' = [t \in Thread |-> IF pc[t] = "waiting" THEN job[t] ELSE "none"]
    /\ UNCHANGED <<closed, ended, callback, pc, outcome>>

\* A user callback runs on the loop thread and calls a blocking operation.
CallbackCalls ==
    /\ loop = "running" /\ callback = "none"
    /\ callback' = OnLoopThread
    /\ UNCHANGED <<closed, ended, loop, pc, job, outcome>>

\* It calls close(): _run's refusal is suppressed, the stop is posted, and
\* the join of the loop thread by itself raises before the loop is closed.
CallbackClosesClient ==
    /\ loop = "running" /\ callback = "none" /\ ~closed
    /\ closed' = TRUE
    /\ loop' = "stopping"
    /\ callback' = OnLoopThread
    /\ UNCHANGED <<ended, pc, job, outcome>>

-----------------------------------------------------------------------------
\* The steps a thread, or the loop, takes unless nothing lets it.
Proceeds(t) ==
    \/ Return(t) \/ PostAclose(t) \/ ClosePosts(t) \/ CloseWaited(t)
    \/ PostStop(t) \/ Join(t) \/ CloseLoop(t)

Turns(t) == StartJob(t) \/ FinishCall(t)

SyncNext ==
    \/ \E t \in Thread :
          \/ Call(t) \/ NextItem(t) \/ BreakOff(t) \/ CloseEnters(t)
          \/ Proceeds(t)
          \/ Turns(t) \/ FinishNext(t) \/ FinishClose(t)
    \/ StopLoop \/ CallbackCalls \/ CallbackClosesClient

\* Threads run, the loop starts what it is given, and an operation that has a
\* timeout ends by itself.  The others need not: connect() dials for ever with
\* unlimited attempts (client.py:247), refresh_token() and escalate() wait for
\* an ack the gateway may never send (auth.py:98), client.close() may be
\* wedged, a stream may wait for ever for its next item.  The loop turns: an
\* escalation that takes it for itself (AuthManager, LoopResponsive) is left
\* out, and would block StopLoop and with it every close().
SyncSpec ==
    /\ SyncInit /\ [][SyncNext]_syncVars
    /\ \A t \in Thread : WF_syncVars(Proceeds(t)) /\ WF_syncVars(StartJob(t))
    /\ \A t \in Timed \cup Streamer : WF_syncVars(FinishCall(t))
    /\ WF_syncVars(StopLoop)

-----------------------------------------------------------------------------
(* Properties.                                                             *)

\* close() "never lets a close error block loop teardown" (sync.py:82): once
\* a thread is in close(), the loop gets stopped and closed, even if
\* client.close() never returns or a callback stopped the loop first, as long
\* as the loop itself turns.
TornDown == \A t \in Closer : pc[t] = "entered" ~> loop = "closed"

\* As long as nobody closes the client, an operation that has a timeout comes
\* back to its thread, whatever callbacks do on the loop thread (sync.py, _run:
\* "that would deadlock") and however long other threads' operations take.
TimedCallsReturn ==
    \A t \in Timed : pc[t] = "waiting" ~> (pc[t] = "idle" \/ closed)

-----------------------------------------------------------------------------
(* What the code does not keep (README, Deviations).                       *)

\* The same of a close() made by a callback on the loop thread: whoever set
\* _closed, the loop is torn down.
ClosedIsTornDown == closed ~> loop = "closed"

\* close() leaves "no orphaned tasks" (docs/engineering-principles.md:80): a
\* call in flight when another thread closes the client, which its timeout
\* would have ended by itself, returns or raises.
CallsReturn == \A t \in Timed : pc[t] = "waiting" ~> pc[t] = "idle"

\* stream() "ends when the client closes" (sync.py:130): it raises nothing.
StreamsEnd == \A t \in Streamer : outcome[t] # "error"
=============================================================================
