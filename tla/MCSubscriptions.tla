-------------------------- MODULE MCSubscriptions --------------------------
(* Subscriptions with a couple of channels, which are interchangeable.     *)
EXTENDS Subscriptions, TLC

CONSTANTS a, b

TwoChannels == {a, b}
Symmetry == Permutations(TwoChannels)
=============================================================================
