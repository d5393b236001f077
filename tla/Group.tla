------------------------------- MODULE Group -------------------------------
(* A classic consumer group: the members of odradek-client (group.rs,        *)
(* offsets.rs) and their coordinator. A member's methods borrow it, so it    *)
(* has one call under way; but a request whose connection is lost, or whose  *)
(* future is dropped, may reach the coordinator all the same.                *)
(*                                                                           *)
(* The fence, the minting of ids and the answer to a member that is already  *)
(* in are those of the acceptance suite's reference broker (subject.rs),     *)
(* which answers every join at once. The barrier a rebalance waits at, the   *)
(* refusals while it lasts, the eviction of silent members and a coordinator *)
(* that moves are those of a Kafka broker, as far as group.rs handles them.  *)
(*                                                                           *)
(* A member acts on an answer in the step that gives it: until it sends its  *)
(* next request, nobody else can tell.                                       *)
EXTENDS Integers, Sequences, FiniteSetsExt, Functions

CONSTANTS
    Clients,        \* the processes that take part
    Subscribed,     \* the topics each of them subscribes to
    Partitions,     \* how many partitions each topic has
    MaxAttempts,    \* GroupConfig::max_attempts
    Troubles,       \* bound: which of the Events there may be, together
    MaxCommits      \* bound: OffsetCommit requests under way

ASSUME GroupAssumption ==
    /\ IsFiniteSet(Clients)
    /\ \A topic \in DOMAIN Partitions : Partitions[topic] \in Nat
    /\ Subscribed \in [Clients -> SUBSET DOMAIN Partitions]
    /\ MaxAttempts \in Nat \ {0} /\ MaxCommits \in Nat

VARIABLES
    member,     \* each client's GroupMember and the await it is suspended at
    group,      \* GroupState, at the coordinator
    commits,    \* OffsetCommit requests that have not been handled
    events      \* which of the Events are still to come

vars == <<member, group, commits, events>>

\* A GroupMember. Id 0 is the empty member id; in: join has returned it; plan
\* is what the leader is about to sync; cached is what the Cluster knows of
\* the coordinator.
\* at: "join", "parked", "sync" and "waiting" within rejoin; "idle", "stale"
\* (told to rejoin) and "failed" between calls; "new" before join, "gone"
\* after leave.
Newcomer == [at |-> "new", in |-> FALSE, id |-> 0, generation_id |-> -1,
             is_leader |-> FALSE, assignment |-> {}, plan |-> <<>>, rounds |-> 0,
             cached |-> "none"]

\* members: each member's subscription; pending: ids minted and not yet used;
\* joined: who has joined the rebalance in progress; plan: the leader's.
NoGroup == [state |-> "empty", generation |-> 0, members |-> <<>>, pending |-> {},
            joined |-> {}, leader |-> 0, plan |-> <<>>]

At(c, where) == member[c].at = where
Known(id) == id \in DOMAIN group.members

\* What may go wrong, or change, each at most once: a connection is lost, the
\* answer to a leader's sync is lost, a live member is evicted, the
\* coordinator moves, a member leaves.
Events == {"lost", "unheard", "evicted", "moved", "left"}
Comes(what) == what \in events /\ events' = events \ {what}

Init ==
    /\ member = [c \in Clients |-> Newcomer]
    /\ group = NoGroup
    /\ commits = {}
    /\ events \in Troubles

----------------------------------------------------------------------------
(* range_assign.                                                             *)

\* Mutant: the remainder goes to one member too many.
TakeOneMore(i, count, n) == count \div n + (IF i <= count % n THEN 1 ELSE 0)

\* How many partitions subscriber i (from 0) of n takes: the earlier ones
\* share the remainder.
Take(i, count, n) == count \div n + (IF i < count % n THEN 1 ELSE 0)

\* The contiguous range of subscriber i.
RangeOf(i, count, n) ==
    LET next == MapThenSumSet(LAMBDA j : Take(j, count, n), 0 .. i - 1)
    IN next .. next + Take(i, count, n) - 1

Subscribers(topic, subscriptions) ==
    {m \in DOMAIN subscriptions : topic \in subscriptions[m]}

\* The subscribers of each topic, by their ids, split its partitions.
RangeAssign(subscriptions) ==
    [m \in DOMAIN subscriptions |->
        UNION {LET all == Subscribers(topic, subscriptions)
                   before == Cardinality({o \in all : o < m})
               IN {topic} \X RangeOf(before, Partitions[topic], Cardinality(all))
               : topic \in subscriptions[m]}]

----------------------------------------------------------------------------
(* How rejoin takes an answer.                                               *)

\* Mutant: a coordinator that is not one any more stays cached.
StillCached(r) == r.cached
\* forget_coordinator.
Forgotten(r) == "none"

\* A round that fails for a passing reason is retried; a coordinator that
\* cannot be reached is forgotten, an id it does not know given up. When the
\* rounds are used up rejoin fails; a join that fails takes its member along.
After(r, code) ==
    LET next == [r EXCEPT !.id = IF code = "UNKNOWN_MEMBER_ID" THEN 0 ELSE @,
                          !.cached = IF code = "RETRIABLE" THEN Forgotten(r) ELSE @,
                          !.plan = <<>>]
    IN CASE r.rounds + 1 < MaxAttempts -> [next EXCEPT !.at = "join", !.rounds = @ + 1]
         [] r.rounds + 1 >= MaxAttempts /\ r.in -> [next EXCEPT !.at = "failed", !.rounds = 0]
         [] OTHER -> [Newcomer EXCEPT !.cached = next.cached]

\* The join is granted: id, generation and role are adopted, and the leader
\* computes everybody's assignment.
Granted(r, g) ==
    [r EXCEPT !.at = "sync", !.generation_id = g.generation,
              !.is_leader = g.leader = r.id,
              !.plan = IF g.leader = r.id THEN RangeAssign(g.members) ELSE <<>>]

\* The sync is answered.
Assigned(r, g) ==
    [r EXCEPT !.at = "idle", !.in = TRUE, !.assignment = g.plan[r.id], !.plan = <<>>,
              !.rounds = 0]

----------------------------------------------------------------------------
(* The coordinator.                                                          *)

\* The fence every request after the join passes.
Fence(id, generation) ==
    CASE ~Known(id) -> "UNKNOWN_MEMBER_ID"
      [] generation # group.generation -> "ILLEGAL_GENERATION"
      [] OTHER -> "NONE"

\* External: a rebalance begins or goes on with these members, and the syncs
\* that wait for the leader are refused.
Rebalance(members, joins) ==
    [group EXCEPT !.state = IF members = <<>> THEN "empty" ELSE "preparing",
                  !.members = members,
                  !.pending = @ \ joins,
                  !.joined = ((IF group.state = "preparing" THEN @ ELSE {}) \cup joins)
                             \cap DOMAIN members]
Interrupted(all) ==
    [c \in Clients |-> IF all[c].at = "waiting"
                       THEN After(all[c], "REBALANCE_IN_PROGRESS") ELSE all[c]]
Without(id) == Restrict(group.members, DOMAIN group.members \ {id})
Dismiss(id) ==
    /\ group' = Rebalance(Without(id), {})
    /\ member' = Interrupted(member)

\* External: the last member has joined, a new generation begins.
CompleteJoin ==
    /\ group.state = "preparing" /\ group.joined = DOMAIN group.members
    /\ \E leader \in group.joined :
          group' = [group EXCEPT !.state = "completing", !.generation = @ + 1,
                                 !.leader = leader, !.joined = {}, !.plan = <<>>]
    /\ member' = [c \in Clients |-> IF At(c, "parked") THEN Granted(member[c], group')
                                    ELSE member[c]]
    /\ UNCHANGED <<commits, events>>

----------------------------------------------------------------------------
(* join and rejoin.                                                          *)

\* join, rejoin when a heartbeat has asked for it, and again when it failed.
Rejoin(c) ==
    /\ member[c].at \in {"new", "stale", "failed"}
    /\ member' = [member EXCEPT ![c].at = "join", ![c].rounds = 0]
    /\ UNCHANGED <<group, commits, events>>

\* coordinator_of finds the coordinator when none is cached.
Discover(c) ==
    /\ member[c].at \in {"join", "idle"} /\ member[c].cached = "none"
    /\ member' = [member EXCEPT ![c].cached = "current"]
    /\ UNCHANGED <<group, commits, events>>

\* A broker that has stopped being the coordinator says so.
NotCoordinator(c) ==
    /\ member[c].at \in {"join", "sync"} /\ member[c].cached = "stale"
    /\ member' = [member EXCEPT ![c] = After(@, "RETRIABLE")]
    /\ UNCHANGED <<group, commits, events>>

Joins(c) == At(c, "join") /\ member[c].cached = "current"

\* An id that nobody bears, expects or remembers. Ids are unique for good; one
\* that has left no trace may as well be given out again.
Fresh ==
    LET used == DOMAIN group.members \cup group.pending \cup DOMAIN group.plan
                \cup {group.leader} \cup {member[c].id : c \in Clients}
                \cup {m.id : m \in commits}
    IN Min((1 .. Cardinality(used) + 1) \ used)

\* A join without an id is given one, and sent again with it at once.
Mint(c) ==
    /\ Joins(c) /\ member[c].id = 0
    /\ group' = [group EXCEPT !.pending = @ \cup {Fresh}]
    /\ member' = [member EXCEPT ![c].id = Fresh]
    /\ UNCHANGED <<commits, events>>

\* A member that is in, or the holder of a new id, waits at the barrier.
Join(c) ==
    LET id == member[c].id IN
    /\ Joins(c)
    /\ Known(id) \/ id \in group.pending
    /\ group' = Rebalance([m \in DOMAIN group.members \cup {id} |->
                              IF m = id THEN Subscribed[c] ELSE group.members[m]], {id})
    /\ member' = Interrupted([member EXCEPT ![c].at = "parked"])
    /\ UNCHANGED <<commits, events>>

\* A member that is in may be answered at once, with what everybody else has
\* been told.
JoinAgain(c) ==
    /\ Joins(c) /\ Known(member[c].id)
    /\ group.state \in {"completing", "stable"}
    /\ member' = [member EXCEPT ![c] = Granted(@, group)]
    /\ UNCHANGED <<group, commits, events>>

\* Nobody knows the id any more.
JoinRefused(c) ==
    LET id == member[c].id IN
    /\ Joins(c) /\ id # 0
    /\ ~Known(id) /\ id \notin group.pending
    /\ member' = [member EXCEPT ![c] = After(@, "UNKNOWN_MEMBER_ID")]
    /\ UNCHANGED <<group, commits, events>>

Syncs(c) == At(c, "sync") /\ member[c].cached = "current"
Verdict(c) == Fence(member[c].id, member[c].generation_id)

\* The leader's sync brings the plan, which answers everybody who waits. Its
\* own answer may be lost.
SyncLeads(c) ==
    /\ Syncs(c) /\ Verdict(c) = "NONE"
    /\ group.state = "completing" /\ group.leader = member[c].id
    /\ group' = [group EXCEPT !.state = "stable", !.plan = member[c].plan]
    /\ LET others == [d \in Clients |-> IF At(d, "waiting") THEN Assigned(member[d], group')
                                        ELSE member[d]] IN
       \/ /\ member' = [others EXCEPT ![c] = Assigned(@, group')]
          /\ UNCHANGED events
       \/ /\ Comes("unheard")
          /\ member' = [others EXCEPT ![c] = After(@, "RETRIABLE")]
    /\ UNCHANGED commits

\* A follower waits for the plan, or is given its part of it.
SyncFollows(c) ==
    /\ Syncs(c) /\ Verdict(c) = "NONE"
    /\ \/ /\ group.state = "completing" /\ group.leader # member[c].id
          /\ member' = [member EXCEPT ![c].at = "waiting"]
       \/ /\ group.state = "stable"
          /\ member' = [member EXCEPT ![c] = Assigned(@, group)]
    /\ UNCHANGED <<group, commits, events>>

\* Mutant: the answer is not looked at.
TakenForSynced(r, code) == [r EXCEPT !.at = "idle", !.in = TRUE, !.plan = <<>>, !.rounds = 0]
\* What the member makes of a sync that is refused.
Unsynced(r, code) == After(r, code)

\* The fence, or the next rebalance, turns the sync away.
SyncRefused(c) ==
    /\ Syncs(c)
    /\ Verdict(c) # "NONE" \/ group.state = "preparing"
    /\ member' = [member EXCEPT ![c] =
                     Unsynced(@, IF Verdict(c) # "NONE" THEN Verdict(c)
                                 ELSE "REBALANCE_IN_PROGRESS")]
    /\ UNCHANGED <<group, commits, events>>

----------------------------------------------------------------------------
(* The calls of a member.                                                    *)

\* heartbeat: a member that is not known, or is of another generation,
\* forgets its id; one that is told of a rebalance keeps it.
Heartbeat(c) ==
    /\ At(c, "idle") /\ member[c].cached = "current"
    /\ member' =
          CASE Verdict(c) # "NONE" -> [member EXCEPT ![c].id = 0, ![c].at = "stale"]
            [] Verdict(c) = "NONE" /\ group.state = "preparing" -> [member EXCEPT ![c].at = "stale"]
            [] OTHER -> [member EXCEPT ![c].at = "idle"]
    /\ UNCHANGED <<group, commits, events>>

\* A heartbeat to a broker that has stopped being the coordinator.
HeartbeatAstray(c) ==
    /\ At(c, "idle") /\ member[c].cached = "stale"
    /\ member' = [member EXCEPT ![c].cached = Forgotten(member[c])]
    /\ UNCHANGED <<group, commits, events>>

\* commit_offset, for any partition of the assignment: the request carries
\* the id and the generation of the moment. Its future may be dropped, so nothing waits for it.
Commit(c) ==
    /\ member[c].at \in {"idle", "stale", "failed"}
    /\ Cardinality(commits) < MaxCommits
    /\ member[c].assignment # {}
    /\ commits' = commits \cup {[id |-> member[c].id, generation |-> member[c].generation_id,
                                 of |-> member[c].assignment, astray |-> At(c, "failed")]}
    /\ UNCHANGED <<member, group, events>>

\* The coordinator takes a commit from a member of the generation, except
\* between its beginning and its plan.
Accepts(m) == Fence(m.id, m.generation) = "NONE" /\ group.state # "completing"

\* A commit arrives, or never does.
Settle(m) ==
    /\ commits' = commits \ {m}
    /\ UNCHANGED <<member, group, events>>

\* leave: nothing is sent without an id, nothing arrives at a broker that is
\* not the coordinator; either way the member is no more.
Leave(c) ==
    /\ member[c].at \in {"idle", "stale", "failed"}
    /\ Comes("left")
    /\ LET heard == member[c].cached # "stale" /\ Known(member[c].id)
           gone == [Newcomer EXCEPT !.at = "gone"]
       IN \/ /\ heard
             /\ group' = Rebalance(Without(member[c].id), {})
             /\ member' = [Interrupted(member) EXCEPT ![c] = gone]
          \/ /\ ~heard
             /\ member' = [member EXCEPT ![c] = gone]
             /\ UNCHANGED group
    /\ UNCHANGED commits

----------------------------------------------------------------------------
(* External: what befalls a member.                                          *)

\* A connection is lost, before the request has arrived or while it waits.
Lose(c) ==
    /\ member[c].at \in {"join", "parked", "sync", "waiting"}
    /\ Comes("lost")
    /\ member' = [member EXCEPT ![c] = After(@, "RETRIABLE")]
    /\ UNCHANGED <<group, commits>>

\* The session of a member that is merely slow runs out.
Evict(c) ==
    /\ ~At(c, "parked") /\ Known(member[c].id)
    /\ Comes("evicted")
    /\ Dismiss(member[c].id)
    /\ UNCHANGED commits

\* So does that of an id which nobody has any more, and the time to use one.
Expire(id) ==
    /\ \A c \in Clients : member[c].id # id
    /\ \/ Known(id) /\ Dismiss(id)
       \/ /\ id \in group.pending
          /\ group' = [group EXCEPT !.pending = @ \ {id}]
          /\ UNCHANGED member
    /\ UNCHANGED <<commits, events>>

\* Another broker takes the group over and turns away those who wait.
Move ==
    /\ Comes("moved")
    /\ member' = [c \in Clients |->
                     IF member[c].at \in {"parked", "waiting"} THEN After(member[c], "RETRIABLE")
                     ELSE IF member[c].cached = "current" THEN [member[c] EXCEPT !.cached = "stale"]
                     ELSE member[c]]
    /\ UNCHANGED <<group, commits>>

----------------------------------------------------------------------------
Proceed(c) ==
    \/ Rejoin(c) \/ Discover(c) \/ NotCoordinator(c)
    \/ Mint(c) \/ Join(c) \/ JoinAgain(c) \/ JoinRefused(c)
    \/ SyncLeads(c) \/ SyncFollows(c) \/ SyncRefused(c)
    \/ Heartbeat(c) \/ HeartbeatAstray(c)

Next ==
    \/ CompleteJoin \/ Move
    \/ \E id \in DOMAIN group.members \cup group.pending : Expire(id)
    \/ \E m \in commits : Settle(m)
    \/ \E c \in Clients : Proceed(c) \/ Commit(c) \/ Leave(c) \/ Lose(c) \/ Evict(c)

\* Every call runs to its end, callers heartbeat and answer what they are
\* told, and the coordinator ends its rebalances and the sessions of the dead.
Fairness ==
    /\ WF_vars(CompleteJoin)
    /\ \A c \in Clients : WF_vars(Proceed(c))
    /\ WF_vars(\E id \in DOMAIN group.members \cup group.pending : Expire(id))

Spec == Init /\ [][Next]_vars
FairSpec == Spec /\ Fairness

----------------------------------------------------------------------------
\* In a stable group every partition of a topic that somebody subscribes to
\* has exactly one owner, a subscriber of it, and no subscriber has two more
\* of them than another; and whoever is between calls, in the generation of
\* the moment, acts on its own part of the plan.
GenerationIsPartitioned ==
    /\ group.state = "stable" =>
          \A topic \in DOMAIN Partitions :
              LET of(m) == {part \in group.plan[m] : part[1] = topic}
                  all == Subscribers(topic, group.members)
              IN /\ DOMAIN group.plan = DOMAIN group.members
                 /\ all # {} => UNION {of(m) : m \in all} = {topic} \X (0 .. Partitions[topic] - 1)
                 /\ \A m, o \in DOMAIN group.plan : m # o => of(m) \cap of(o) = {}
                 /\ \A m, o \in all : Cardinality(of(m)) <= Cardinality(of(o)) + 1
                 /\ \A m \in DOMAIN group.plan \ all : of(m) = {}
    /\ \A c \in Clients : At(c, "idle") /\ Verdict(c) = "NONE" =>
          /\ group.plan # <<>>
          /\ member[c].assignment = group.plan[member[c].id]

\* Whatever has happened since it was sent, a commit that the coordinator
\* would take is one for a partition that the plan in force gives its sender,
\* unless it was sent after a rejoin had failed: the generation is then that
\* of the join and the assignment still the one of an earlier sync.
CommitsAreOwned ==
    \A m \in commits :
        Accepts(m) /\ ~m.astray => m.id \in DOMAIN group.plan /\ m.of \subseteq group.plan[m.id]

\* Everybody who has not left is a member of the present generation and acts
\* on its plan, and nobody else is a member.
Settled ==
    /\ \A c \in Clients : At(c, "gone") \/ (/\ At(c, "idle") /\ Verdict(c) = "NONE"
                                            /\ group.state = "stable")
    /\ DOMAIN group.members = {member[c].id : c \in {d \in Clients : ~At(d, "gone")}}

\* Once nothing more goes wrong and nobody leaves, the group comes to rest.
GroupSettles == <>[]Settled
============================================================================
