------------------------------- MODULE MCHub -------------------------------
(* An instance of Hub for TLC.                                             *)
EXTENDS Hub

\* The source has every partition of every topic, or those the gate allows lack
\* their last one.
Last == CHOOSE p \in Partitions : \A q \in Partitions : q <= p
Growing ==
    /\ Init
    /\ source \in {[t \in Topics |-> IF t \in Gate THEN parts ELSE Partitions] :
                      parts \in {Partitions, Partitions \ {Last}}}
GrowingFairSpec == Growing /\ [][Next]_vars /\ Fairness

\* A caller that waits for nothing.
AtRest(c) == Free(c) \/ call[c].stage = "served"
Begins == \E c \in Callers : Free(c) /\ ~Free(c)'

\* What bounds the instance: calls overlap if they begin before a second pump is
\* started. A third is started for a lone call, and then no call begins, the
\* source stays as it is and nobody drops what the hub knows of it. Nothing of
\* this is owed to a call: a pump that is not to be started fails to be created.
Paced ==
    /\ spawned = 2 /\ Begins => \A c \in Callers : AtRest(c)
    /\ spawned' > 2 /\ spawned' # spawned =>
          \E c \in Callers : \A d \in Callers \ {c} : AtRest(d)
    /\ spawned > 2 =>
          ~Begins /\ source' = source /\ (topics' = <<>> => topics = <<>> \/ shutDown')
=============================================================================
