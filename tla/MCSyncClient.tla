---------------------------- MODULE MCSyncClient ----------------------------
(* SyncClient with two workers, two closers and one stream.                *)
EXTENDS SyncClient

CONSTANTS w1, w2, s, k1, k2

Workers == {w1, w2}
TimedWorkers == {w1}
Streamers == {s}
Closers == {k1, k2}
=============================================================================
