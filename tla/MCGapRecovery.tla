--------------------------- MODULE MCGapRecovery ---------------------------
(* GapRecovery on small logs.                                              *)
EXTENDS GapRecovery, TLC

CONSTANTS a, b

TwoChannels == {a, b}
Positions == 0 .. MaxPos

Symmetry == Permutations(TwoChannels)
=============================================================================
