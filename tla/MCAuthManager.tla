--------------------------- MODULE MCAuthManager ---------------------------
(* AuthManager with a handful of tasks.                                    *)
EXTENDS AuthManager, TLC

CONSTANTS r1, e1, x1, t1
=============================================================================
