--------------------------- MODULE MCClientEpoch ---------------------------
(* ClientEpoch on one channel with one position.                           *)
EXTENDS ClientEpoch, TLC

CONSTANTS a, p

OneChannel == {a}
OnePosition == {p}
=============================================================================
