------------------------------ MODULE Cluster ------------------------------
(* The caches that the clones of one Cluster share (cluster.rs): the leader  *)
(* of a partition, one connection per broker for quick requests, and a pool  *)
(* of connections for requests that hold theirs. Every access takes the      *)
(* state lock for a moment and none holds it across an await, so whatever a  *)
(* call has read may be out of date when it uses it. A step of this model is *)
(* what happens between two acquisitions.                                    *)
(*                                                                           *)
(* An answer about leaders brings the address of every node it names, so the *)
(* addresses are left out, and so is the control connection such answers     *)
(* come over: the question is put again until it is answered. Coordinators   *)
(* are in module Group.                                                      *)
EXTENDS Integers, Sequences, FiniteSetsExt, SequencesExt

CONSTANTS
    Nodes,              \* the brokers
    Tasks,              \* the tasks that use this Cluster
    BlockingIdleMax,    \* ClientConfig::blocking_idle_max
    MaxAttempts,        \* max_attempts of every retry_loop
    None

ASSUME ClusterAssumption ==
    /\ MaxAttempts \in Nat \ {0} /\ BlockingIdleMax \in Nat
    /\ Nodes \subseteq Nat /\ Nodes # {} /\ None \notin Nodes
    /\ IsFiniteSet(Nodes) /\ IsFiniteSet(Tasks)

VARIABLES
    \* State
    leaderOf,       \* topics: the cached leader of the partition
    lane,           \* conns: the shared connection to each node
    idle,           \* BlockingPool::idle of each node
    outstanding,    \* BlockingPool::outstanding
    peak,           \* BlockingPool::peak
    \* the calls in progress
    call,           \* what a task asks for and the await it is suspended at
    \* the cluster itself
    leader,         \* who leads the partition, None during an election
    down,           \* connections that are dead
    mishaps         \* bound: what may still go wrong, each once

cacheVars == <<leaderOf, lane>>
poolVars == <<idle, outstanding, peak>>
worldVars == <<leader, down, mishaps>>
clusterVars == <<cacheVars, poolVars, call, worldVars>>

\* A call: its operation, where it is, the node and connection it has been
\* given, the leader it will blame, the rounds behind it and the verdict on
\* the present one.
NoCall == [op |-> "none", at |-> "idle", node |-> None, conn |-> 0,
           blame |-> None, rounds |-> 0, verdict |-> "none"]

At(t, where) == call[t].at = where
Step(t, where) == call' = [call EXCEPT ![t].at = where]
Blocking(t) == call[t].op = "fetch"

\* Connections that somebody holds; a new one takes the least free number.
Held == {lane[n] : n \in Nodes} \cup {call[t].conn : t \in Tasks}
        \cup UNION {ToSet(idle[n]) : n \in Nodes}
MaxConns == (2 * Cardinality(Tasks) + 2) * Cardinality(Nodes)
Fresh == Min(1 .. MaxConns \ Held)

ClusterInit ==
    /\ leaderOf = None
    /\ lane = [n \in Nodes |-> 0]
    /\ idle = [n \in Nodes |-> <<>>]
    /\ outstanding = [n \in Nodes |-> 0]
    /\ peak = [n \in Nodes |-> 0]
    /\ call = [t \in Tasks |-> NoCall]
    /\ leader = Min(Nodes)
    /\ down = {}

----------------------------------------------------------------------------
(* Finding out where to send a request.                                      *)

\* The first look of partition_leader and blocking_partition_leader decides
\* whether anybody is asked.
Route(t) ==
    /\ At(t, "route")
    /\ Step(t, IF leaderOf = None THEN "ask" ELSE "look")
    /\ UNCHANGED <<cacheVars, poolVars, worldVars>>

\* External: a broker answers a Metadata request.
Told(t) ==
    /\ At(t, "ask")
    /\ call' = [call EXCEPT ![t].at = "learn", ![t].node = leader]
    /\ UNCHANGED <<cacheVars, poolVars, worldVars>>

\* The end of refresh_metadata_via, whatever others have learnt meanwhile.
Learn(t) ==
    /\ At(t, "learn")
    /\ leaderOf' = call[t].node
    /\ call' = [call EXCEPT ![t].at = "look", ![t].node = None]
    /\ UNCHANGED <<lane, poolVars, worldVars>>

\* The second look: a partition without a leader is UnknownLeader, which no loop retries.
Look(t) ==
    /\ At(t, "look")
    /\ call' = IF leaderOf = None
               THEN [call EXCEPT ![t].at = "settle", ![t].verdict = "fatal"]
               ELSE [call EXCEPT ![t].at = "connect", ![t].node = leaderOf]
    /\ UNCHANGED <<cacheVars, poolVars, worldVars>>

----------------------------------------------------------------------------
(* Getting a connection.                                                     *)

\* blocking_broker takes an idle connection, broker the shared one.
Connect(t) ==
    /\ At(t, "connect")
    /\ LET n == call[t].node IN
       IF Blocking(t) /\ idle[n] # <<>>
       THEN /\ call' = [call EXCEPT ![t].at = "count", ![t].conn = Last(idle[n])]
            /\ idle' = [idle EXCEPT ![n] = Front(@)]
       ELSE /\ call' = IF ~Blocking(t) /\ lane[n] # 0
                       THEN [call EXCEPT ![t].at = "wait", ![t].conn = lane[n]]
                       ELSE [call EXCEPT ![t].at = "dial"]
            /\ UNCHANGED idle
    /\ UNCHANGED <<cacheVars, outstanding, peak, worldVars>>

\* A dial succeeds.  A shared connection that somebody else has put in place
\* in the meantime wins over this one.
Dial(t) ==
    /\ At(t, "dial")
    /\ LET n == call[t].node IN
       IF Blocking(t)
       THEN /\ call' = [call EXCEPT ![t].at = "count", ![t].conn = Fresh]
            /\ down' = down \ {Fresh} /\ UNCHANGED lane
       ELSE IF lane[n] = 0
       THEN /\ lane' = [lane EXCEPT ![n] = Fresh]
            /\ call' = [call EXCEPT ![t].at = "wait", ![t].conn = Fresh]
            /\ down' = down \ {Fresh}
       ELSE /\ call' = [call EXCEPT ![t].at = "wait", ![t].conn = lane[n]]
            /\ UNCHANGED <<lane, down>>
    /\ UNCHANGED <<leaderOf, poolVars, leader, mishaps>>

\* The end of blocking_broker: the checkout is counted.
Count(t) ==
    /\ At(t, "count")
    /\ LET n == call[t].node IN
       /\ outstanding' = [outstanding EXCEPT ![n] = @ + 1]
       /\ peak' = [peak EXCEPT ![n] = Max({@, outstanding'[n]})]
    /\ Step(t, "send")
    /\ UNCHANGED <<cacheVars, idle, worldVars>>

\* Mutant: a released connection is kept whatever the pool already holds.
KeepsAll(n) == TRUE

\* Whether a released connection is kept.
Keeps(n) == Len(idle[n]) < Min({peak[n], BlockingIdleMax})

\* BrokerLease::release puts the connection back before its Drop, which takes
\* the lock again, settles the count.
Release(t) ==
    /\ At(t, "release")
    /\ LET n == call[t].node IN
       /\ idle' = IF Keeps(n) THEN [idle EXCEPT ![n] = Append(@, call[t].conn)] ELSE idle
       /\ call' = [call EXCEPT ![t].at = "drop", ![t].conn = 0]
    /\ UNCHANGED <<cacheVars, outstanding, peak, worldVars>>

\* Drop of BrokerLease; a connection still in it is closed. A call that has
\* its result returns it.
Drop(t) ==
    /\ At(t, "drop")
    /\ outstanding' = [outstanding EXCEPT ![call[t].node] = Max({0, @ - 1})]
    /\ call' = [call EXCEPT ![t] = IF @.verdict = "ok" THEN NoCall
                                   ELSE [@ EXCEPT !.at = "settle", !.conn = 0]]
    /\ UNCHANGED <<cacheVars, idle, peak, worldVars>>

\* forget_broker: the connections go, the concurrency seen stays.
Forget(n) ==
    /\ lane' = [lane EXCEPT ![n] = 0]
    /\ idle' = [idle EXCEPT ![n] = <<>>]

----------------------------------------------------------------------------
(* The end of a round: or_mark_stale and retry_loop.                         *)

\* Where a call goes when a round has failed for a passing reason.
Again(t) ==
    IF call[t].rounds + 1 < MaxAttempts
    THEN [NoCall EXCEPT !.op = call[t].op, !.at = "route", !.rounds = call[t].rounds + 1]
    ELSE [NoCall EXCEPT !.at = "failed"]

\* Mutant: the leader that failed stays cached.
StillCached == leaderOf

\* mark_partition_stale.
MarkedStale == None

\* A passing trouble invalidates what the request was routed by.
Retry(t) ==
    /\ At(t, "settle") /\ call[t].verdict = "retry"
    /\ call' = [call EXCEPT ![t] = Again(t)]
    /\ leaderOf' = MarkedStale
    /\ UNCHANGED <<lane, poolVars, worldVars>>

\* Anything else ends the call at once.
Fatal(t) ==
    /\ At(t, "settle") /\ call[t].verdict = "fatal"
    /\ call' = [call EXCEPT ![t] = [NoCall EXCEPT !.at = "failed"]]
    /\ UNCHANGED <<cacheVars, poolVars, worldVars>>

----------------------------------------------------------------------------
(* External: what befalls the cluster and the network.                       *)

Mishaps == {"move", "break", "timeout", "refuse"}
Befalls(what) == what \in mishaps /\ mishaps' = mishaps \ {what}

\* The leader is gone; the election of another ends at some time.
Move ==
    /\ leader # None
    /\ Befalls("move")
    /\ leader' = None
    /\ UNCHANGED <<cacheVars, poolVars, call, down>>
Elect ==
    /\ leader = None
    /\ leader' \in Nodes
    /\ UNCHANGED <<cacheVars, poolVars, call, down, mishaps>>

\* A connection dies, whether or not anything is under way on it.
Break ==
    /\ Befalls("break")
    /\ \E c \in Held \ {0} : down' = down \cup {c}
    /\ UNCHANGED <<cacheVars, poolVars, call, leader>>

\* A dial is refused.
Refuse(t) ==
    /\ At(t, "dial")
    /\ Befalls("refuse")
    /\ call' = [call EXCEPT ![t].at = "settle", ![t].verdict = "retry"]
    /\ UNCHANGED <<cacheVars, poolVars, leader, down>>

ClusterStep(t) ==
    \/ Route(t) \/ Told(t) \/ Learn(t) \/ Look(t)
    \/ Connect(t) \/ Dial(t) \/ Count(t) \/ Release(t) \/ Drop(t)
    \/ Retry(t) \/ Fatal(t)
World == Move \/ Elect \/ Break \/ \E t \in Tasks : Refuse(t)

----------------------------------------------------------------------------
Lessees(n) == {t \in Tasks : /\ call[t].op = "fetch" /\ call[t].node = n
                             /\ call[t].at \in {"send", "wait", "release", "drop"}}

\* However leases are released and dropped: the count of a node is that of
\* its leases, its pool never outgrows the concurrency seen and the limit,
\* no idle connection is in anybody's hands or in the pool twice, and the
\* shared connection of a node is never one of them.
PoolIsSound ==
    \A n \in Nodes :
        /\ outstanding[n] = Cardinality(Lessees(n))
        /\ outstanding[n] <= peak[n]
        /\ Len(idle[n]) <= Min({peak[n], BlockingIdleMax})
        /\ IsInjective(idle[n])
        /\ \A c \in ToSet(idle[n]) :
              /\ \A t \in Tasks : call[t].conn # c
              /\ \A m \in Nodes : lane[m] # c /\ (m # n => c \notin ToSet(idle[m]))
=============================================================================
