------------------------ MODULE MCWebSocketTransport ------------------------
(* WebSocketTransport on a small instance: every constant is a number or   *)
(* a set of numbers, so the .cfg files give the values themselves.         *)
EXTENDS WebSocketTransport
=============================================================================
