---------------------------- MODULE MessageFeed ----------------------------
(***************************************************************************)
(* What client.messages() promises its consumer, whatever queue is behind  *)
(* it (src/sukko/backpressure.py:14-16, src/sukko/client.py:366-372): the  *)
(* items come in the order they were offered; while the client runs none   *)
(* is skipped that is not counted in an overflow marker; and the iteration *)
(* ends, once, after the client is closed and its backlog read.            *)
(*                                                                         *)
(* Items are numbered in the order in which they are offered.              *)
(***************************************************************************)
EXTENDS Naturals

VARIABLES
    backlog,   \* the items offered, and neither delivered nor skipped
    missed,    \* how many were skipped since the last overflow marker
    offered,   \* how many items were offered so far
    closed,    \* the client was closed
    ended      \* the iteration ended

vars == <<backlog, missed, offered, closed, ended>>

Init == backlog = {} /\ missed = 0 /\ offered = 0 /\ closed = FALSE /\ ended = FALSE

First(i) == i \in backlog /\ \A j \in backlog : i <= j

\* An item is offered, and possibly one is skipped to make room for it.
Offer ==
    /\ ~closed
    /\ offered' = offered + 1
    /\ \/ backlog' = backlog \cup {offered'} /\ missed' = missed
       \/ \E i \in backlog \cup {offered'} :
             /\ backlog' = (backlog \cup {offered'}) \ {i}
             /\ missed' = missed + 1
    /\ UNCHANGED <<closed, ended>>

Deliver ==
    /\ ~ended
    /\ \E i \in backlog : First(i) /\ backlog' = backlog \ {i}
    /\ UNCHANGED <<missed, offered, closed, ended>>

Announce ==
    /\ ~ended /\ missed > 0 /\ missed' = 0
    /\ UNCHANGED <<backlog, offered, closed, ended>>

\* The connection or the client is torn down while the producer is blocked:
\* the item it holds, the last one, is given up.
GiveUp ==
    /\ backlog # {} /\ backlog' = backlog \ {offered}
    /\ UNCHANGED <<missed, offered, closed, ended>>

\* Closing may evict the first item to make room for the end marker.
Close ==
    /\ ~closed /\ closed' = TRUE
    /\ \/ backlog' = backlog
       \/ \E i \in backlog : First(i) /\ backlog' = backlog \ {i}
    /\ UNCHANGED <<missed, offered, ended>>

End ==
    /\ closed /\ backlog = {} /\ missed = 0 /\ ~ended
    /\ ended' = TRUE
    /\ UNCHANGED <<backlog, missed, offered, closed>>

Next == Offer \/ Deliver \/ Announce \/ GiveUp \/ Close \/ End

Spec == Init /\ [][Next]_vars /\ WF_vars(Deliver \/ Announce \/ End)
=============================================================================
