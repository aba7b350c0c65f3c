---------------------------- MODULE MCSupervisor ----------------------------
(* Supervisor with two callers of connect() and one or two channels.       *)
EXTENDS Supervisor

CONSTANTS a, b, k1, k2

=============================================================================
