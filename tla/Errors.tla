------------------------------- MODULE Errors -------------------------------
(***************************************************************************)
(* The mapping helpers of src/sukko/errors.py and the close-code table of  *)
(* src/sukko/constants.py: pure operators, used by the modules in which a  *)
(* close, an HTTP answer or an error frame decides what happens next.      *)
(*                                                                         *)
(* An error is a record with the class of the exception in `type' and the  *)
(* fields some property reads; messages and reasons are left out.  `none'  *)
(* stands for a missing code.                                              *)
(***************************************************************************)
EXTENDS Naturals

Normal          == 1000
Abnormal        == 1006
ForceDisconnect == 4000    \* closed by the server
PongTimeout     == 4000    \* closed by the client: the same number
AuthFailed      == 4001

Direction == {"local", "remote"}

IsForceDisconnect(code, direction) == code = ForceDisconnect /\ direction = "remote"
IsHeartbeatTimeout(code, direction) == code = PongTimeout /\ direction = "local"

\* _describe_close
Describe(code, direction) ==
    CASE IsForceDisconnect(code, direction)  -> "operator force-disconnect"
      [] IsHeartbeatTimeout(code, direction) -> "heartbeat pong timeout"
      [] code = AuthFailed                   -> "authentication failed"
      [] OTHER                               -> "other"

Terminal(code) == code = AuthFailed

\* error_from_close
ErrorFromClose(code, direction) ==
    [type |-> "ConnectionClosedError", code |-> code, direction |-> direction,
     terminal |-> Terminal(code)]

Error(type) == [type |-> type, terminal |-> FALSE]

\* error_from_http_status, by the first branch that applies.
ErrorFromHttpStatus(status, code, handshake) ==
    Error(CASE status = 400 -> "PublishError"
            [] status = 401 -> "AuthError"
            [] status = 403 /\ code = "EDITION_LIMIT" -> "EditionRequiredError"
            [] status = 403 /\ code # "EDITION_LIMIT" -> "PublishError"
            [] status = 409 -> "PublishNotRoutableError"
            [] status = 413 -> "PayloadTooLargeError"
            [] status = 429 /\ (handshake \/ code = "TENANT_LIMIT_EXCEEDED") ->
                   "TenantLimitExceededError"
            [] status = 429 /\ ~(handshake \/ code = "TENANT_LIMIT_EXCEEDED") ->
                   "RateLimitError"
            [] status = 503 -> "ServiceUnavailableError"
            [] OTHER -> "SukkoError")
=============================================================================
