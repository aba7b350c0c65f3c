------------------------------ MODULE RestApi ------------------------------
(***************************************************************************)
(* The HTTP side of the client: the request helper of src/sukko/_http.py   *)
(* with its two users, REST publish (rest.py) and the push subscriptions   *)
(* (push.py), called by concurrent tasks.                                  *)
(*                                                                         *)
(* The gateway is external: it carries a request out or not, and answers   *)
(* with a status and a body; either message may be lost on the way.  What  *)
(* it carries out is a new entry of the log, whose mid is its index, a new *)
(* device, or the removal of one.  A 2xx says it was done, a 4xx that it   *)
(* was not, a 5xx nothing; a redirect comes from something in front of the *)
(* gateway, and says that it was not.                                      *)
(***************************************************************************)
EXTENDS Errors

CONSTANTS
    Caller,      \* tasks that call the REST API
    None,        \* Python's None
    MaxLog,      \* bound on the entries of the log
    MaxDevice,   \* bound on the devices ever registered
    Redirects    \* may a request be answered with a redirect?

ASSUME RestBounds == {MaxLog, MaxDevice} \subseteq Nat /\ Redirects \in BOOLEAN
ASSUME RestNone == None \notin Nat

VARIABLES
    log,        \* how many entries the server's log has
    device,     \* the devices registered
    created,    \* how many ever were
    httpOpen,   \* the shared httpx client is open
    call        \* per caller: the call it is in, or was in last

rest == <<log, device, created, httpOpen, call>>

Operation == {"publish", "subscribe", "unsubscribe", "vapid_key"}
Body == {"empty", "malformed", "object"}

\* An answer of the gateway: `id' is the mid, device id or key of the body.
Answer(status, body, id, code) ==
    [status |-> status, body |-> body, id |-> id, code |-> code]

\* `made' is history: what the gateway did for the call, by the id of it.
Over(made, result) == [at |-> "over", made |-> made, result |-> result]

RestInit ==
    /\ log = 0 /\ device = {} /\ created = 0
    /\ httpOpen = TRUE
    /\ call = [k \in Caller |-> [at |-> "idle"]]

-----------------------------------------------------------------------------
(* What the client makes of an answer.                                     *)

Returned(id) == [ok |-> TRUE, id |-> id]
Raised(type) == [ok |-> FALSE, type |-> type]

RejectedAbove(status) == status > 400     \* wrong: a 400 is a success
Rejected(status) == status >= 400

\* A push endpoint refuses with 403 only for the edition.
EditionGated(op) == op # "publish"

\* _error_for; a body that cannot be read gives no code.
ErrorFor(op, a) ==
    IF EditionGated(op) /\ a.status = 403 THEN Error("EditionRequiredError")
    ELSE ErrorFromHttpStatus(a.status, IF a.body = "object" THEN a.code ELSE "none", FALSE)

\* request: what the body carries, or an error.  (A body whose mid, device id
\* or key has the wrong type is malformed here: publish, subscribe and
\* get_vapid_key raise the same error for it.)
Request(op, a) ==
    CASE Rejected(a.status) -> Raised(ErrorFor(op, a).type)
      [] ~Rejected(a.status) /\ a.body = "malformed" -> Raised("ProtocolError")
      [] ~Rejected(a.status) /\ a.body = "empty" -> Returned(None)
      [] ~Rejected(a.status) /\ a.body = "object" -> Returned(a.id)

\* subscribe and get_vapid_key insist on what they asked for.
Required(r) == IF r.ok /\ r.id = None THEN Raised("ProtocolError") ELSE r

Outcome(op, a) ==
    LET r == Request(op, a) IN
    CASE op = "publish" -> r
      [] op \in {"subscribe", "vapid_key"} -> Required(r)
      [] op = "unsubscribe" -> IF r.ok THEN Returned(None) ELSE r

-----------------------------------------------------------------------------
(* What the gateway may answer.                                            *)

\* To what it carried out: a 2xx, with or without a usable body and an id, or
\* an error of its own.
Success(id) ==
    {Answer(200, b, None, "none") : b \in Body} \cup {Answer(200, "object", id, "none")}

Fault == {Answer(500, "empty", None, "none"), Answer(503, "object", None, "none")}

\* To what it did not: a rejection; a redirect comes from a proxy before it.
Rejection ==
    {Answer(status, "object", None, "none") : status \in {400, 401, 403, 409, 413, 429}}
        \cup {Answer(403, "object", None, "EDITION_LIMIT"),
              Answer(429, "object", None, "TENANT_LIMIT_EXCEEDED"),
              Answer(429, "malformed", None, "none")}
        \cup IF Redirects THEN {Answer(302, "empty", None, "none")} ELSE {}

Answers(c) == Fault \cup IF c.made = None THEN Rejection ELSE Success(c.made)

-----------------------------------------------------------------------------
(* The callers.                                                            *)

Free(k) == call[k].at \in {"idle", "over"}

Ends(k, made, result) ==
    /\ call' = [call EXCEPT ![k] = Over(made, result)]
    /\ UNCHANGED <<log, device, created, httpOpen>>

\* subscribe checks the fields its platform requires before it sends.
Invalid(k) == Free(k) /\ Ends(k, None, Raised("ProtocolError"))

\* A request is sent on the open client, for one of the caller's devices when
\* it is an unsubscribe.
Ask(k, op) ==
    /\ Free(k) /\ httpOpen
    /\ \E d \in IF op = "unsubscribe" THEN device ELSE {None} :
          call' = [call EXCEPT ![k] = [at |-> "asked", op |-> op, id |-> d, made |-> None]]
    /\ UNCHANGED <<log, device, created, httpOpen>>

\* On a client that has been closed httpx raises an error of its own.
AskClosed(k) == Free(k) /\ ~httpOpen /\ Ends(k, None, Raised("RuntimeError"))

\* An answer arrives.
Answered(k) ==
    /\ call[k].at \in {"asked", "acted"} /\ httpOpen
    /\ \E a \in Answers(call[k]) : Ends(k, call[k].made, Outcome(call[k].op, a))

\* The connection fails, times out, or is closed: whether the gateway had
\* acted, the caller cannot tell.
RequestFails(k) ==
    /\ call[k].at \in {"asked", "acted"}
    /\ Ends(k, call[k].made, Raised("TransportError"))

\* aclose
CloseHttp == httpOpen /\ httpOpen' = FALSE /\ UNCHANGED <<log, device, created, call>>

-----------------------------------------------------------------------------
(* The gateway.                                                            *)

Acts(k, id) == call' = [call EXCEPT ![k].at = "acted", ![k].made = id]

Publishes(k) ==
    /\ call[k].at = "asked" /\ call[k].op = "publish" /\ log < MaxLog
    /\ log' = log + 1 /\ Acts(k, log')
    /\ UNCHANGED <<device, created, httpOpen>>

Registers(k) ==
    /\ call[k].at = "asked" /\ call[k].op = "subscribe" /\ created < MaxDevice
    /\ created' = created + 1 /\ device' = device \cup {created'} /\ Acts(k, created')
    /\ UNCHANGED <<log, httpOpen>>

Removes(k) ==
    /\ call[k].at = "asked" /\ call[k].op = "unsubscribe"
    /\ device' = device \ {call[k].id} /\ Acts(k, call[k].id)
    /\ UNCHANGED <<log, created, httpOpen>>

GivesKey(k) ==
    /\ call[k].at = "asked" /\ call[k].op = "vapid_key" /\ Acts(k, 1)
    /\ UNCHANGED <<log, device, created, httpOpen>>

RestCalls ==
    \E k \in Caller :
       \/ \E op \in Operation : Ask(k, op)
       \/ Invalid(k) \/ AskClosed(k) \/ Answered(k) \/ RequestFails(k)
       \/ Publishes(k) \/ Registers(k) \/ Removes(k) \/ GivesKey(k)

-----------------------------------------------------------------------------
(* Properties.                                                             *)

\* Errors that leave open whether the request was carried out.
Unclear == {"TransportError", "ProtocolError", "SukkoError", "ServiceUnavailableError"}

Told(k) == call[k].at = "over"

\* What a call tells its caller is what the gateway did: it returns only if
\* the request was carried out, with the identity of what it made or none, and
\* raises a rejection only if it was not (_http.py:77-78, rest.py:29-33), over
\* lost requests, lost answers, unusable bodies and a close meanwhile.
AnswerIsTrue ==
    \A k \in Caller : Told(k) =>
        LET r == call[k].result
            made == call[k].made
        IN  /\ r.ok => made # None /\ r.id \in {None, made}
            /\ ~r.ok /\ r.type \notin Unclear => made = None

-----------------------------------------------------------------------------
(* What the code does not keep (README, Deviations).                       *)

\* "Raises a typed SukkoError on any non-2xx response or transport failure"
\* (_http.py:77-78).
FailureIsTyped ==
    \A k \in Caller : Told(k) /\ ~call[k].result.ok => call[k].result.type # "RuntimeError"
=============================================================================
