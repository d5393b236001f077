------------------------------ MODULE MCGroup ------------------------------
(* Two members of a group. They share a topic that does not divide evenly;   *)
(* another belongs to one of them alone.                                     *)
EXTENDS Group

PartitionCounts == [orders |-> 3, audit |-> 1]
TwoMembers == <<{"orders", "audit"}, {"orders"}>>

\* Any two of the events, save an eviction together with a move.
Pairs == kSubset(2, Events) \ {{"evicted", "moved"}}
============================================================================
