-------------------------- MODULE MCRecoveryTiming --------------------------
(* RecoveryTiming on a small instance: what a channel is promised about    *)
(* time does not depend on the other channels or on which position it is.  *)
EXTENDS RecoveryTiming

CONSTANTS a, p

OneChannel == {a}
OnePosition == {p}
=============================================================================
