-------------------------------- MODULE Hub --------------------------------
(***************************************************************************)
(* The hub of odradek-web-core (hub.rs), as SharedHub puts it to use: a    *)
(* map from (topic, partition) to the handle of a running pump, changed    *)
(* only under one mutex, and subscribe calls that look a pump up under the *)
(* mutex and make their round trip to it outside.                          *)
(*                                                                         *)
(* A caller is one subscribe or subscribe_topic at a time.  What it does   *)
(* between taking the mutex and letting it go is one action, except that a *)
(* topic subscribe takes one action per partition it acquires, with the    *)
(* mutex held throughout: pumps die meanwhile.  Of a pump (module Pump)    *)
(* only its command channel is kept; it may die whenever it likes.         *)
(***************************************************************************)
EXTENDS Naturals, FiniteSets

CONSTANTS
    Topics, Partitions, \* what a request may name; partitions are numbers
    Gate,               \* the topics the gate approves
    MaxPumps,           \* Hub::max_pumps
    Callers,            \* concurrent callers
    NoCaller,           \* none of them: the mutex is free
    MaxSpawn            \* bound: pumps ever spawned

ASSUME HubAssumption ==
    /\ Topics # {} /\ Partitions # {} /\ Partitions \subseteq Nat
    /\ Gate \subseteq Topics
    /\ MaxPumps \in Nat \ {0}     \* with_max_pumps clamps to 1
    /\ NoCaller \notin Callers
    /\ MaxSpawn \in Nat

Keys == Topics \X Partitions
PumpIds == 1 .. MaxSpawn
NoPump == 0         \* no entry

VARIABLES
    source,     \* partitions the source has, by topic (external)
    \* struct Hub, behind the mutex
    pumps,      \* map entry by key: a pump, or NoPump
    topics,     \* the cached partition lists, by topic
    shutDown,   \* shut_down
    lock,       \* who holds the mutex across several actions
    \* the pump tasks
    spawned,    \* pumps spawned so far
    keyOf,      \* the key each was spawned for
    alive,      \* those whose task has not returned
    stopping,   \* of these, the ones with a Shutdown command in their channel
    \* each caller's subscribe or subscribe_topic, as a record:
    \*   stage   where it is
    \*   topic   the topic it names
    \*   parts   the partitions it subscribes to
    \*   part    the one it is working on, of a single subscribe
    \*   left    partitions not yet acquired, or not yet joined
    \*   retry   partitions left to the single-partition path
    \*   before  running_partitions when a topic subscribe took the lock
    \*   trip    by partition, the round trip to its pump: whether it is still
    \*           to send, waits in the channel, waits behind a Shutdown, is
    \*           answered or found the pump closed; the pump; and whether this
    \*           call created it
    call

hubVars == <<pumps, topics, shutDown>>
pumpVars == <<spawned, keyOf, alive, stopping>>
vars == <<source, hubVars, lock, pumpVars, call>>

ATopic == CHOOSE t \in Topics : TRUE
APartition == CHOOSE p \in Partitions : TRUE

NoTrip == [at |-> "none", pump |-> NoPump, made |-> FALSE]
NoCall(stage) ==
    [stage |-> stage, topic |-> ATopic, parts |-> {}, part |-> APartition,
     left |-> {}, retry |-> {}, before |-> {},
     trip |-> [p \in Partitions |-> NoTrip]]

Init ==
    /\ source \in [Topics -> SUBSET Partitions]
    /\ pumps = [k \in Keys |-> NoPump]
    /\ topics = [t \in {} |-> {}]
    /\ shutDown = FALSE /\ lock = NoCaller
    /\ spawned = 0 /\ alive = {} /\ stopping = {}
    /\ keyOf = [i \in PumpIds |-> <<ATopic, APartition>>]
    /\ call = [c \in Callers |-> NoCall("idle")]

-----------------------------------------------------------------------------
(* The pump tasks, and the source.                                         *)

\* A topic gains a partition.
Repartition(t) ==
    /\ \E p \in Partitions \ source[t] :
          source' = [source EXCEPT ![t] = source[t] \cup {p}]
    /\ UNCHANGED <<hubVars, lock, pumpVars, call>>

\* The trips whose command is in this pump's channel.
Queued(i) == {x \in Callers \X Partitions :
                 /\ call[x[1]].trip[x[2]].pump = i
                 /\ call[x[1]].trip[x[2]].at \in {"wait", "behind"}}

\* Mutant: the replies outlive the task, and nobody is told.
DiesSilently(i) ==
    /\ alive' = alive \ {i}
    /\ stopping' = stopping \ {i}
    /\ UNCHANGED <<source, hubVars, lock, spawned, keyOf, call>>

\* A pump's task returns: its receiver is dropped with every reply in it, so
\* each caller waiting on it sees PumpClosed.
Dies(i) ==
    /\ alive' = alive \ {i}
    /\ stopping' = stopping \ {i}
    /\ call' = [c \in Callers |-> [call[c] EXCEPT !.trip =
                  [p \in Partitions |-> IF <<c, p>> \in Queued(i)
                                        THEN [@[p] EXCEPT !.at = "closed"]
                                        ELSE @[p]]]]
    /\ UNCHANGED <<source, hubVars, lock, spawned, keyOf>>

\* It ends on a source error, or exits idle.
PumpExits(i) == i \in alive /\ Dies(i)

\* It receives the Shutdown command, once those ahead of it are answered.
PumpStops(i) ==
    /\ i \in stopping
    /\ \A x \in Queued(i) : call[x[1]].trip[x[2]].at = "behind"
    /\ Dies(i)

\* It receives a Subscribe command and answers it.
PumpAnswers(c, p) ==
    /\ call[c].trip[p].at = "wait"
    /\ call' = [call EXCEPT ![c].trip[p].at = "ok"]
    /\ UNCHANGED <<source, hubVars, lock, pumpVars>>

\* PumpHandle::shutdown for these pumps: a no-op on a dead one.
StopAll(is) == stopping' = stopping \cup (is \cap alive)

-----------------------------------------------------------------------------
(* Hub::acquire.                                                           *)

Entry(ok, pump, created, lists, entries) ==
    [ok |-> ok, pump |-> pump, created |-> created, topics |-> lists,
     pumps |-> entries]

Err(lists, entries) == Entry(FALSE, NoPump, FALSE, lists, entries)

\* check_topic: shut down, or refused by the gate.
Denied(t) == shutDown \/ t \notin Gate

\* reap_exited_pumps: the map without the entries of dead pumps.
Reaped == [k \in Keys |-> IF pumps[k] \in alive THEN pumps[k] ELSE NoPump]
Entries(map) == {k \in Keys : map[k] # NoPump}

\* known_partitions: the cached list, or what the source answers.
Lists(t) ==
    [u \in DOMAIN topics \cup {t} |->
        IF u \in DOMAIN topics THEN topics[u] ELSE source[u]]

\* check_partition: the source has it.
Exists(k) == k[2] \in Lists(k[1])[k[1]]

\* PumpHandle::spawn makes the next pump, if the bound leaves one.
NewPump == spawned + 1
Spawnable == spawned < MaxSpawn

\* What acquire may come to: the running pump, a new one, or an error.  The
\* source's partition lookup and its create may each fail.
Acquire(k) ==
    LET t == k[1]
        lists == Lists(t)
    IN  CASE Denied(t) -> {Err(topics, pumps)}
          [] ~Denied(t) /\ pumps[k] \in alive ->
                {Entry(TRUE, pumps[k], FALSE, topics, pumps)}
          [] ~Denied(t) /\ pumps[k] \notin alive ->
                (IF t \in DOMAIN topics THEN {} ELSE {Err(topics, pumps)}) \cup
                (IF ~Exists(k) THEN {Err(lists, pumps)}
                 ELSE {Err(lists, Reaped)} \cup
                      (IF Spawnable /\ Cardinality(Entries(Reaped)) < MaxPumps
                       THEN {Entry(TRUE, NewPump, TRUE, lists,
                                   [Reaped EXCEPT ![k] = NewPump])}
                       ELSE {}))

\* The new pump's task, when one was spawned for k.
Spawns(created, k) ==
    /\ spawned' = IF created THEN NewPump ELSE spawned
    /\ keyOf' = IF created THEN [keyOf EXCEPT ![NewPump] = k] ELSE keyOf
    /\ alive' = IF created THEN alive \cup {NewPump} ELSE alive

-----------------------------------------------------------------------------
(* One call.                                                               *)

Free(c) == call[c].stage \in {"idle", "failed"}
FirstOf(set, p) == p \in set /\ \A q \in set : p <= q

\* The call returns an error: the subscriptions it holds are dropped.
Fails(c) == call' = [call EXCEPT ![c] = NoCall("failed")]

\* A trip that will go to this pump.
TripTo(pump, created) == [at |-> "send", pump |-> pump, made |-> created]

\* acquire for the single-partition path, from this record of the call.
SingleAcquire(c, record, p) ==
    LET k == <<record.topic, p>>
    IN  \E r \in Acquire(k) :
            /\ pumps' = r.pumps /\ topics' = r.topics
            /\ Spawns(r.created, k)
            /\ IF r.ok
               THEN call' = [call EXCEPT ![c] =
                                [record EXCEPT !.stage = "first", !.part = p,
                                               !.trip[p] = TripTo(r.pump, r.created)]]
               ELSE Fails(c)

\* SharedHub::subscribe.
Subscribe(c, t, p) ==
    /\ Free(c) /\ lock = NoCaller
    /\ SingleAcquire(c, [NoCall("idle") EXCEPT !.topic = t, !.parts = {p}], p)
    /\ UNCHANGED <<source, shutDown, lock, stopping>>

\* PumpHandle::subscribe sends its command, or finds the channel closed.
Send(c, p) ==
    /\ call[c].stage \in {"first", "last", "fan"}
    /\ call[c].trip[p].at = "send"
    /\ LET i == call[c].trip[p].pump
       IN  call' = [call EXCEPT ![c].trip[p].at =
                       IF i \notin alive THEN "closed"
                       ELSE IF i \in stopping THEN "behind" ELSE "wait"]
    /\ UNCHANGED <<source, hubVars, lock, pumpVars>>

\* All the subscriptions there are to have are there, or some are to retry.
Proceed(c) ==
    call' = [call EXCEPT ![c].stage = IF call[c].retry = {} THEN "served"
                                      ELSE "retry"]

\* The single-partition path succeeds.
Succeeds(c) ==
    /\ call[c].stage \in {"first", "last"}
    /\ call[c].trip[call[c].part].at = "ok"
    /\ Proceed(c)
    /\ UNCHANGED <<source, hubVars, lock, pumpVars>>

\* Where the single-partition path stands, once its pump has closed.
Closed(c, stage) ==
    /\ call[c].stage = stage
    /\ call[c].trip[call[c].part].at = "closed"

\* Hub::respawn, under the lock: the pump somebody else put in its place, or
\* a new one.
Respawn(c) ==
    LET p == call[c].part
        k == <<call[c].topic, p>>
        again(pump) == call' = [call EXCEPT ![c].stage = "last",
                                            ![c].trip[p] = TripTo(pump, FALSE)]
    IN  /\ lock = NoCaller
        /\ Closed(c, "first") /\ ~call[c].trip[p].made
        /\ IF pumps[k] \notin {NoPump, call[c].trip[p].pump}
           THEN again(pumps[k]) /\ Spawns(FALSE, k) /\ pumps' = pumps
           ELSE \/ /\ Spawnable
                   /\ again(NewPump) /\ Spawns(TRUE, k)
                   /\ pumps' = [pumps EXCEPT ![k] = NewPump]
                \/ /\ Fails(c) /\ Spawns(FALSE, k)
                   /\ pumps' = [pumps EXCEPT ![k] = NoPump]
        /\ UNCHANGED <<source, topics, shutDown, lock, stopping>>

\* Mutant: the entry goes, whosever it is.
ForgetAny(k, i) == i \in Nat /\ pumps' = [pumps EXCEPT ![k] = NoPump]

\* Hub::forget: the entry goes, if it is still this pump's.
Forget(k, i) ==
    pumps' = IF pumps[k] = i THEN [pumps EXCEPT ![k] = NoPump] ELSE pumps

\* The pump closed under a call that created it, or a second time: under the
\* lock it is forgotten, then told to stop if this call created it.
GivesUp(c, p) ==
    LET trip == call[c].trip[p]
    IN  /\ lock = NoCaller
        /\ trip.at = "closed"
        /\ Forget(<<call[c].topic, p>>, trip.pump)
        /\ StopAll(IF trip.made THEN {trip.pump} ELSE {})
        /\ Fails(c)
        /\ UNCHANGED <<source, topics, shutDown, lock, spawned, keyOf, alive>>

SingleGivesUp(c) ==
    LET p == call[c].part
    IN  /\ Closed(c, "last") \/ (Closed(c, "first") /\ call[c].trip[p].made)
        /\ GivesUp(c, p)

-----------------------------------------------------------------------------
(* SharedHub::subscribe_topic.                                             *)

\* partitions_of, under the lock; the gate or the source may refuse.
TopicLookup(c, t) ==
    /\ Free(c) /\ lock = NoCaller
    /\ \/ /\ ~Denied(t)
          /\ topics' = Lists(t)
          /\ call' = [call EXCEPT ![c] =
                         [NoCall("listed") EXCEPT !.topic = t, !.parts = Lists(t)[t]]]
       \/ /\ Denied(t) \/ t \notin DOMAIN topics
          /\ Fails(c)
          /\ UNCHANGED topics
    /\ UNCHANGED <<source, pumps, shutDown, lock, pumpVars>>

\* The lock is taken again, for the whole acquire loop.
TopicLock(c) ==
    /\ call[c].stage = "listed" /\ lock = NoCaller
    /\ lock' = c
    /\ call' = [call EXCEPT ![c].stage = "loop", ![c].left = call[c].parts,
                            ![c].before = {p \in call[c].parts :
                                              pumps[<<call[c].topic, p>>] # NoPump}]
    /\ UNCHANGED <<source, hubVars, pumpVars>>

\* Mutant: every entry of the topic, those from before included.
ReleasedAll(c, map) ==
    {k \in Entries(map) : k[1] = call[c].topic /\ k[2] \in call[c].parts}

\* release_new: the entries of this topic that were not there before.
Released(c, map) ==
    {k \in Entries(map) : /\ k[1] = call[c].topic
                          /\ k[2] \in call[c].parts \ call[c].before}

\* The next partition is acquired.
TopicAcquire(c) ==
    /\ call[c].stage = "loop"
    /\ \E p \in call[c].left : \E r \in Acquire(<<call[c].topic, p>>) :
          /\ FirstOf(call[c].left, p)
          /\ r.ok
          /\ pumps' = r.pumps /\ topics' = r.topics
          /\ Spawns(r.created, <<call[c].topic, p>>)
          /\ call' = [call EXCEPT ![c].left = call[c].left \ {p},
                                  ![c].trip[p] = TripTo(r.pump, r.created)]
    /\ UNCHANGED <<source, shutDown, lock, stopping>>

\* It cannot be: what this call created is rolled back, still under the lock.
TopicRefused(c) ==
    /\ call[c].stage = "loop"
    /\ \E p \in call[c].left : \E r \in Acquire(<<call[c].topic, p>>) :
          /\ FirstOf(call[c].left, p)
          /\ ~r.ok
          /\ topics' = r.topics
          /\ pumps' = [k \in Keys |-> IF k \in Released(c, r.pumps) THEN NoPump
                                      ELSE r.pumps[k]]
          /\ StopAll({r.pumps[k] : k \in Released(c, r.pumps)})
    /\ lock' = NoCaller
    /\ Fails(c)
    /\ UNCHANGED <<source, shutDown, spawned, keyOf, alive>>

\* Every partition is acquired: the round trips start, each in a task.
TopicUnlock(c) ==
    /\ call[c].stage = "loop" /\ call[c].left = {}
    /\ lock' = NoCaller
    /\ call' = [call EXCEPT ![c].stage = "fan", ![c].left = call[c].parts]
    /\ UNCHANGED <<source, hubVars, pumpVars>>

\* Mutant: a closed pump is passed over.
TopicCollectSkips(c) ==
    /\ call[c].stage = "fan"
    /\ \E p \in call[c].left :
          /\ FirstOf(call[c].left, p)
          /\ call[c].trip[p].at \in {"ok", "closed"}
          /\ call' = [call EXCEPT ![c].left = call[c].left \ {p}]
    /\ UNCHANGED <<source, hubVars, lock, pumpVars>>

\* The next task in order is joined; a pump that was there before and closed
\* is left for the retries.
TopicCollect(c) ==
    /\ call[c].stage = "fan"
    /\ \E p \in call[c].left :
          /\ FirstOf(call[c].left, p)
          /\ \/ /\ call[c].trip[p].at = "ok"
                /\ call' = [call EXCEPT ![c].left = call[c].left \ {p}]
             \/ /\ call[c].trip[p].at = "closed" /\ ~call[c].trip[p].made
                /\ call' = [call EXCEPT ![c].left = call[c].left \ {p},
                                        ![c].retry = call[c].retry \cup {p}]
    /\ UNCHANGED <<source, hubVars, lock, pumpVars>>

\* One this call created and that closed fails the call.
TopicGivesUp(c) ==
    /\ call[c].stage = "fan"
    /\ \E p \in call[c].left :
          /\ FirstOf(call[c].left, p)
          /\ call[c].trip[p].made
          /\ GivesUp(c, p)

\* All are joined.
TopicJoined(c) ==
    /\ call[c].stage = "fan" /\ call[c].left = {}
    /\ Proceed(c)
    /\ UNCHANGED <<source, hubVars, lock, pumpVars>>

\* The next retry takes the single-partition path.
TopicRetry(c) ==
    /\ call[c].stage = "retry" /\ lock = NoCaller
    /\ \E p \in call[c].retry :
          /\ FirstOf(call[c].retry, p)
          /\ SingleAcquire(c, [call[c] EXCEPT !.retry = call[c].retry \ {p}], p)
    /\ UNCHANGED <<source, shutDown, lock, stopping>>

-----------------------------------------------------------------------------
(* The rest of the front door.                                             *)

\* The caller drops its stream, or the future of its call wherever that
\* waits, and the lock with it.
Drop(c) ==
    /\ ~Free(c)
    /\ lock' = IF lock = c THEN NoCaller ELSE lock
    /\ call' = [call EXCEPT ![c] = NoCall("idle")]
    /\ UNCHANGED <<source, hubVars, pumpVars>>

\* Hub::shutdown.
Shutdown ==
    /\ lock = NoCaller
    /\ shutDown' = TRUE
    /\ StopAll({pumps[k] : k \in Keys})
    /\ pumps' = [k \in Keys |-> NoPump]
    /\ topics' = [t \in {} |-> {}]
    /\ UNCHANGED <<source, lock, spawned, keyOf, alive, call>>

\* Hub::reap_exited_pumps.
ReapExitedPumps ==
    /\ lock = NoCaller
    /\ pumps' = Reaped
    /\ UNCHANGED <<source, topics, shutDown, lock, pumpVars, call>>

\* Hub::forget_topics.
ForgetTopics ==
    /\ lock = NoCaller
    /\ topics' = [t \in {} |-> {}]
    /\ UNCHANGED <<source, pumps, shutDown, lock, pumpVars, call>>

-----------------------------------------------------------------------------
Begin(c) == \E t \in Topics : \/ TopicLookup(c, t)
                              \/ \E p \in Partitions : Subscribe(c, t, p)

\* What a call does on its own once it has begun.
CallStep(c) ==
    \/ \E p \in Partitions : Send(c, p)
    \/ Succeeds(c) \/ Respawn(c) \/ SingleGivesUp(c)
    \/ TopicLock(c) \/ TopicAcquire(c) \/ TopicRefused(c) \/ TopicUnlock(c)
    \/ TopicCollect(c) \/ TopicGivesUp(c) \/ TopicJoined(c) \/ TopicRetry(c)

Next ==
    \/ \E c \in Callers : Begin(c) \/ CallStep(c) \/ Drop(c)
    \/ \E c \in Callers, p \in Partitions : PumpAnswers(c, p)
    \/ \E i \in PumpIds : PumpStops(i) \/ PumpExits(i)
    \/ Shutdown \/ ReapExitedPumps \/ ForgetTopics
    \/ \E t \in Topics : Repartition(t)

Spec == Init /\ [][Next]_vars

\* The runtime keeps polling pumps and calls, and its mutex is handed over in
\* the order it was asked for: a call that keeps finding it free gets in.
Fairness ==
    /\ \A i \in PumpIds : WF_vars(PumpStops(i))
    /\ \A c \in Callers, p \in Partitions : WF_vars(PumpAnswers(c, p))
    /\ \A c \in Callers : SF_vars(CallStep(c))

FairSpec == Spec /\ Fairness

-----------------------------------------------------------------------------
(* Properties.                                                             *)

\* A pump that runs and has not been told to stop is the map's entry for its
\* partition, so the hub can still reach it and no partition is pumped twice:
\* whatever acquire, respawn, forget and release_new do in whichever order,
\* none drops or overwrites a running pump's entry without stopping it. And
\* on each of the three ways to an entry, the partition exists and its topic
\* is one the gate allows.
NoOrphanPump ==
    \A i \in alive \ stopping :
        LET key == keyOf[i]
        IN pumps[key] = i /\ key[1] \in Gate /\ key[2] \in source[key[1]]

\* Who has a handle to this pump to use, or a subscription on it.
Users(i) ==
    {c \in Callers : \E p \in Partitions :
        /\ call[c].trip[p].pump = i
        /\ call[c].trip[p].at \in {"send", "wait", "behind", "ok"}}

\* Only Hub::shutdown stops a pump that another call has a handle to or a
\* subscription on: the roll-back of a topic subscribe (release_new) and the
\* clean-up after a failed first subscribe never cut somebody else off.
StopsOnlyItsOwn ==
    [][~shutDown' => \A i \in stopping' \ stopping : Cardinality(Users(i)) <= 1]_vars

\* A subscribe_topic that returns Ok has a subscription on every partition it
\* listed, whatever pumps closed and were retried on the way.
TopicIsWhole ==
    \A c \in Callers : call[c].stage = "served" =>
        \A p \in call[c].parts : call[c].trip[p].at = "ok"

\* Every subscribe and subscribe_topic returns: with a stream or an error.
CallsReturn ==
    \A c \in Callers : (~Free(c)) ~> (Free(c) \/ call[c].stage = "served")
=============================================================================
