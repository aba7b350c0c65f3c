---------------------------- MODULE MCSseClient ----------------------------
(* SseClient on a small instance: one caller of the REST API, a log that   *)
(* other publishers write to as well, and a queue of one item.             *)
EXTENDS SseClient
=============================================================================
