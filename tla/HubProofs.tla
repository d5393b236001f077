----------------------------- MODULE HubProofs -----------------------------
(* Proofs about Hub, for any topics, partitions, callers and ceiling: no    *)
(* running pump is orphaned, whole topics are served, and nobody stops a    *)
(* pump that somebody else uses.                                            *)
EXTENDS Hub, FiniteSetTheorems, TLAPS

Stages == {"idle", "failed", "first", "last", "listed", "loop", "fan", "retry", "served"}
Trips == [at : {"none", "send", "wait", "behind", "ok", "closed"},
          pump : 0 .. spawned, made : BOOLEAN]
Calls == [stage : Stages, topic : Topics, parts : SUBSET Partitions,
          part : Partitions, left : SUBSET Partitions,
          retry : SUBSET Partitions, before : SUBSET Partitions,
          trip : [Partitions -> Trips]]

\* What the hub and the pumps hold. A cached list names only partitions that
\* exist.
HubTypes ==
    /\ source \in [Topics -> SUBSET Partitions]
    /\ pumps \in [Keys -> 0 .. spawned]
    /\ DOMAIN topics \subseteq Topics
    /\ \A t \in DOMAIN topics : topics[t] \subseteq source[t]
    /\ lock \in Callers \cup {NoCaller}
    /\ spawned \in 0 .. MaxSpawn
    /\ keyOf \in [PumpIds -> Keys]
    /\ alive \subseteq 1 .. spawned

CallTypes == call \in [Callers -> Calls]
TypeInv == HubTypes /\ CallTypes

\* A call works on partitions that exist, of a topic the gate allows; and a
\* trip that found its pump closed found it dead.
TripInv ==
    \A c \in Callers, p \in Partitions : call[c].trip[p].at # "none" =>
        /\ call[c].topic \in Gate /\ p \in source[call[c].topic]
        /\ call[c].trip[p].at = "closed" => call[c].trip[p].pump \notin alive

\* So does the map.
EntryInv ==
    \A k \in Keys : pumps[k] # NoPump => k[1] \in Gate /\ k[2] \in source[k[1]]

OrphanInv == TypeInv /\ TripInv /\ EntryInv /\ NoOrphanPump

\* The partitions a call has yet to get a subscription for.
Missing(c) ==
    CASE call[c].stage \in {"first", "last"} -> call[c].retry \cup {call[c].part}
      [] call[c].stage = "fan" -> call[c].left \cup call[c].retry
      [] call[c].stage = "retry" -> call[c].retry
      [] call[c].stage = "served" -> {}
      [] OTHER -> call[c].parts

\* Everything else it has.
WholeInv ==
    \A c \in Callers : \A p \in call[c].parts \ Missing(c) : call[c].trip[p].at = "ok"

\* The acquire loop of a topic subscribe holds the mutex, and what has entered
\* the map since is unknown to everybody else.
LoopInv ==
    \A c \in Callers : call[c].stage = "loop" =>
        /\ lock = c
        /\ \A p \in call[c].parts \ call[c].before :
              LET i == pumps[<<call[c].topic, p>>] IN
              i # NoPump => \A d \in Callers \ {c}, q \in Partitions :
                                call[d].trip[q].pump # i

IInv == OrphanInv /\ WholeInv /\ LoopInv

-----------------------------------------------------------------------------
LEMMA ShapesOfConstants ==
    /\ ATopic \in Topics /\ APartition \in Partitions
    /\ NoCaller \notin Callers /\ MaxSpawn \in Nat
    /\ Partitions \subseteq Nat /\ Gate \subseteq Topics
  BY HubAssumption DEF ATopic, APartition

LEMMA NoCallIsCall ==
    ASSUME NEW s \in Stages, spawned \in Nat
    PROVE  NoCall(s) \in Calls
  BY ShapesOfConstants DEF NoCall, NoTrip, NoPump, Calls, Trips, Stages

LEMMA InitHolds == Init => IInv
  <1> SUFFICES ASSUME Init PROVE IInv OBVIOUS
  <1> USE ShapesOfConstants
  <1>1. TypeInv
    BY NoCallIsCall DEF Init, TypeInv, HubTypes, CallTypes, Stages, PumpIds, Keys, NoPump
  <1>2. TripInv /\ WholeInv /\ LoopInv
    BY DEF Init, TripInv, WholeInv, LoopInv, NoCall, NoTrip, Missing
  <1>3. EntryInv /\ NoOrphanPump
    BY DEF Init, EntryInv, NoOrphanPump
  <1> QED BY <1>1, <1>2, <1>3 DEF IInv, OrphanInv

-----------------------------------------------------------------------------
(* The call records.                                                        *)

LEMMA SetTrip ==
    ASSUME NEW r \in Calls, NEW p \in Partitions, NEW x \in Trips
    PROVE  [r EXCEPT !.trip[p] = x] \in Calls
  BY DEF Calls

LEMMA SetAt ==
    ASSUME NEW x \in Trips, NEW s \in {"none", "send", "wait", "behind", "ok", "closed"}
    PROVE  [x EXCEPT !.at = s] \in Trips
  BY DEF Trips

LEMMA MorePumps ==
    ASSUME spawned \in Nat, spawned' \in Nat, spawned <= spawned'
    PROVE  Trips \subseteq Trips' /\ Calls \subseteq Calls'
  <1>1. Trips \subseteq Trips'
    BY DEF Trips
  <1>2. \A r \in Calls : r \in Calls'
    BY <1>1 DEF Calls
  <1> QED BY <1>1, <1>2

\* A step that changes one call.
LEMMA OneCall ==
    ASSUME CallTypes, spawned \in Nat, spawned' \in Nat, spawned <= spawned',
           NEW c \in Callers, NEW r \in Calls', call' = [call EXCEPT ![c] = r]
    PROVE  /\ CallTypes'
           /\ call'[c] = r
           /\ \A d \in Callers \ {c} : call'[d] = call[d]
  BY MorePumps DEF CallTypes

\* While the mutex is free nobody is in the acquire loop.
LEMMA NobodyLoops ==
    ASSUME LoopInv, lock = NoCaller
    PROVE  \A c \in Callers : call[c].stage # "loop"
  BY ShapesOfConstants DEF LoopInv

-----------------------------------------------------------------------------
(* What acquire comes to.                                                   *)

LEMMA AliveFacts ==
    ASSUME HubTypes
    PROVE  \A i \in alive : i \in PumpIds /\ i # NoPump /\ keyOf[i] \in Keys
  <1> TAKE i \in alive
  <1>1. i \in 1 .. MaxSpawn /\ i # 0
    BY ShapesOfConstants DEF HubTypes
  <1> QED BY <1>1 DEF HubTypes, PumpIds, NoPump

LEMMA ListsFacts ==
    ASSUME HubTypes, NEW t \in Topics
    PROVE  /\ DOMAIN Lists(t) \subseteq Topics
           /\ t \in DOMAIN Lists(t)
           /\ \A u \in DOMAIN Lists(t) : Lists(t)[u] \subseteq source[u]
  BY DEF HubTypes, Lists

LEMMA AcquireFacts ==
    ASSUME HubTypes, EntryInv, NEW k \in Keys, NEW r \in Acquire(k)
    PROVE  /\ r.ok \in BOOLEAN /\ r.created \in BOOLEAN
           /\ r.topics \in {topics, Lists(k[1])}
           /\ ~r.ok => ~r.created /\ r.pumps \in {pumps, Reaped}
           /\ r.ok => k[1] \in Gate /\ k[2] \in source[k[1]]
           /\ r.ok /\ ~r.created =>
                 r.pump = pumps[k] /\ pumps[k] \in alive /\ r.pumps = pumps
           /\ r.created => /\ r.ok /\ Spawnable /\ r.pump = NewPump
                           /\ pumps[k] \notin alive
                           /\ r.pumps = [Reaped EXCEPT ![k] = NewPump]
  <1> DEFINE t == k[1]
  <1>1. k[1] \in Topics /\ k[2] \in Partitions
    BY DEF Keys
  <1>2. CASE Denied(t)
    <2>1. r = Err(topics, pumps)
      BY <1>2 DEF Acquire
    <2> QED BY <2>1 DEF Err, Entry
  <1>3. CASE ~Denied(t) /\ pumps[k] \in alive
    <2>1. r = Entry(TRUE, pumps[k], FALSE, topics, pumps)
      BY <1>3 DEF Acquire
    <2>2. pumps[k] # NoPump
      BY <1>3 DEF HubTypes, NoPump
    <2> QED BY <2>1, <2>2, <1>3 DEF Entry, EntryInv, HubTypes
  <1>4. CASE ~Denied(t) /\ pumps[k] \notin alive
    <2>1. \/ r = Err(topics, pumps)
          \/ r = Err(Lists(t), pumps)
          \/ r = Err(Lists(t), Reaped)
          \/ /\ Exists(k) /\ Spawnable
             /\ r = Entry(TRUE, NewPump, TRUE, Lists(t), [Reaped EXCEPT ![k] = NewPump])
      BY <1>4 DEF Acquire
    <2>2. Exists(k) => k[2] \in source[k[1]]
      BY <1>1, ListsFacts DEF Exists
    <2>3. k[1] \in Gate
      BY <1>4 DEF Denied
    <2>4. CASE r = Err(topics, pumps) \/ r = Err(Lists(t), pumps) \/ r = Err(Lists(t), Reaped)
      <3>1. r.ok = FALSE /\ r.created = FALSE
        BY <2>4 DEF Err, Entry
      <3>2. r.topics = topics \/ r.topics = Lists(t)
        BY <2>4 DEF Err, Entry
      <3>3. r.pumps = pumps \/ r.pumps = Reaped
        BY <2>4 DEF Err, Entry
      <3> QED BY <3>1, <3>2, <3>3
    <2>5. CASE Exists(k) /\ Spawnable /\ r = Entry(TRUE, NewPump, TRUE, Lists(t),
                                                 [Reaped EXCEPT ![k] = NewPump])
      <3>1. r.ok = TRUE /\ r.created = TRUE /\ r.pump = NewPump
            /\ r.topics = Lists(t) /\ r.pumps = [Reaped EXCEPT ![k] = NewPump]
        BY <2>5 DEF Entry
      <3> QED BY <3>1, <2>2, <2>3, <2>5, <1>4
    <2> QED BY <2>1, <2>4, <2>5
  <1> QED BY <1>2, <1>3, <1>4

\* What the hub is left with, once acquire's outcome is put in place.
LEMMA AcquireKeepsHub ==
    ASSUME HubTypes, EntryInv, NoOrphanPump, NEW k \in Keys, NEW r \in Acquire(k),
           pumps' = r.pumps, topics' = r.topics, Spawns(r.created, k),
           UNCHANGED <<source, lock, stopping>>
    PROVE  /\ HubTypes' /\ EntryInv' /\ NoOrphanPump'
           /\ spawned <= spawned' /\ alive \subseteq alive'
           /\ \A i \in alive' \ alive : i = spawned + 1
           /\ r.ok => r.pump \in 1 .. spawned'
           /\ \A m \in Keys : pumps'[m] \in {pumps[m], NoPump, spawned + 1}
  <1>1. /\ DOMAIN topics' \subseteq Topics
        /\ \A t \in DOMAIN topics' : topics'[t] \subseteq source'[t]
    <2>1. k[1] \in Topics
      BY DEF Keys
    <2> QED BY <2>1, AcquireFacts, ListsFacts DEF HubTypes
  <1>2. Reaped \in [Keys -> 0 .. spawned]
    BY DEF Reaped, HubTypes, NoPump
  <1>3. CASE r.created
    <2>1. /\ spawned < MaxSpawn /\ pumps[k] \notin alive
          /\ pumps' = [Reaped EXCEPT ![k] = spawned + 1]
          /\ k[1] \in Gate /\ k[2] \in source[k[1]]
          /\ r.pump = spawned + 1
      BY <1>3, AcquireFacts DEF Spawnable, NewPump
    <2>2. /\ spawned' = spawned + 1 /\ alive' = alive \cup {spawned + 1}
          /\ keyOf' = [keyOf EXCEPT ![spawned + 1] = k]
      BY <1>3 DEF Spawns, NewPump
    <2>3. HubTypes'
      BY <1>1, <1>2, <2>1, <2>2, ShapesOfConstants DEF HubTypes, PumpIds
    <2>4. \A m \in Keys \ {k} : pumps'[m] = IF pumps[m] \in alive THEN pumps[m] ELSE NoPump
      BY <2>1, <1>2 DEF Reaped
    <2>5. pumps'[k] = spawned + 1
      BY <2>1, <1>2
    <2>6. EntryInv'
      BY <2>1, <2>4, <2>5 DEF EntryInv, HubTypes
    <2>7. NoOrphanPump'
      <3> SUFFICES ASSUME NEW i \in alive' \ stopping'
                   PROVE  /\ pumps'[keyOf'[i]] = i /\ keyOf'[i][1] \in Gate
                          /\ keyOf'[i][2] \in source'[keyOf'[i][1]]
        BY DEF NoOrphanPump
      <3>1. CASE i = spawned + 1
        <4>1. keyOf'[i] = k
          BY <3>1, <2>1, <2>2, ShapesOfConstants DEF HubTypes, PumpIds
        <4> QED BY <3>1, <4>1, <2>5, <2>1
      <3>2. CASE i # spawned + 1
        <4>1. i \in alive \ stopping /\ i \in PumpIds /\ keyOf'[i] = keyOf[i]
          BY <3>2, <2>2, <2>1, ShapesOfConstants DEF HubTypes, PumpIds
        <4>2. keyOf[i] \in Keys /\ pumps[keyOf[i]] = i /\ keyOf[i] # k
          BY <4>1, <2>1 DEF NoOrphanPump, HubTypes
        <4> QED BY <4>1, <4>2, <2>4 DEF NoOrphanPump
      <3> QED BY <3>1, <3>2
    <2>8. \A m \in Keys : pumps'[m] \in {pumps[m], NoPump, spawned + 1}
      BY <2>4, <2>5
    <2> QED BY <2>1, <2>2, <2>3, <2>6, <2>7, <2>8, <1>3, AcquireFacts DEF HubTypes
  <1>4. CASE ~r.created
    <2>1. UNCHANGED <<spawned, keyOf, alive>>
      BY <1>4 DEF Spawns
    <2>2. pumps' = pumps \/ pumps' = Reaped
      BY <1>4, AcquireFacts
    <2>3. \A m \in Keys : \/ pumps'[m] = pumps[m]
                          \/ pumps'[m] = NoPump /\ pumps[m] \notin alive
      BY <2>2 DEF Reaped
    <2>4. HubTypes'
      BY <1>1, <1>2, <2>1, <2>2 DEF HubTypes
    <2>5. EntryInv'
      BY <2>3 DEF EntryInv
    <2>6. NoOrphanPump'
      <3>1. \A i \in alive : i \in PumpIds /\ i # NoPump /\ keyOf[i] \in Keys
        BY AliveFacts
      <3>2. \A i \in alive \ stopping : pumps'[keyOf[i]] = i
        BY <3>1, <2>3 DEF NoOrphanPump
      <3> QED BY <3>2, <2>1 DEF NoOrphanPump
    <2>7. r.ok => r.pump \in 1 .. spawned'
      BY <1>4, <2>1, AcquireFacts DEF HubTypes
    <2> QED BY <2>1, <2>3, <2>4, <2>5, <2>6, <2>7 DEF HubTypes
  <1> QED BY <1>3, <1>4, AcquireFacts

-----------------------------------------------------------------------------
(* Steps that leave the hub and the pumps alone.                            *)

LEMMA SendKeeps ==
    ASSUME IInv, NEW c \in Callers, NEW p \in Partitions, Send(c, p)
    PROVE  IInv'
  <1> USE ShapesOfConstants DEF IInv, OrphanInv, TypeInv, hubVars, pumpVars
  <1> DEFINE at == IF call[c].trip[p].pump \notin alive THEN "closed"
                   ELSE IF call[c].trip[p].pump \in stopping THEN "behind" ELSE "wait"
             r == [call[c] EXCEPT !.trip[p] = [call[c].trip[p] EXCEPT !.at = at]]
  <1>1. call[c] \in Calls /\ call[c].trip[p] \in Trips
    BY DEF CallTypes, Calls
  <1>2. Calls' = Calls
    BY DEF Send, Calls, Trips
  <1>3. r \in Calls' /\ call' = [call EXCEPT ![c] = r]
    BY <1>1, <1>2, SetTrip, SetAt DEF Send
  <1>4. TypeInv'
    BY <1>2, <1>3 DEF Send, HubTypes, CallTypes
  <1>5. TripInv'
    BY DEF Send, CallTypes, TripInv, Calls, Trips
  <1>6. WholeInv'
    BY DEF Send, CallTypes, WholeInv, Calls, Trips, Missing
  <1>7. LoopInv'
    BY DEF Send, CallTypes, LoopInv, Calls, Trips
  <1>8. EntryInv' /\ NoOrphanPump'
    BY DEF Send, EntryInv, NoOrphanPump
  <1> QED BY <1>4, <1>5, <1>6, <1>7, <1>8

LEMMA PumpAnswersKeeps ==
    ASSUME IInv, NEW c \in Callers, NEW p \in Partitions, PumpAnswers(c, p)
    PROVE  IInv'
  <1> USE ShapesOfConstants DEF IInv, OrphanInv, TypeInv, hubVars, pumpVars
  <1> DEFINE r == [call[c] EXCEPT !.trip[p] = [call[c].trip[p] EXCEPT !.at = "ok"]]
  <1>1. call[c] \in Calls /\ call[c].trip[p] \in Trips
    BY DEF CallTypes, Calls
  <1>2. Calls' = Calls
    BY DEF PumpAnswers, Calls, Trips
  <1>3. r \in Calls' /\ call' = [call EXCEPT ![c] = r]
    BY <1>1, <1>2, SetTrip, SetAt DEF PumpAnswers
  <1>4. TypeInv'
    BY <1>2, <1>3 DEF PumpAnswers, HubTypes, CallTypes
  <1>5. TripInv'
    BY DEF PumpAnswers, CallTypes, TripInv, Calls, Trips
  <1>6. WholeInv'
    BY DEF PumpAnswers, CallTypes, WholeInv, Calls, Trips, Missing
  <1>7. LoopInv'
    BY DEF PumpAnswers, CallTypes, LoopInv, Calls, Trips
  <1>8. EntryInv' /\ NoOrphanPump'
    BY DEF PumpAnswers, EntryInv, NoOrphanPump
  <1> QED BY <1>4, <1>5, <1>6, <1>7, <1>8

\* Moving on, once everything there is to have is there or is to be retried.
LEMMA ProceedKeeps ==
    ASSUME IInv, NEW c \in Callers, Proceed(c), UNCHANGED <<source, hubVars, lock, pumpVars>>,
           \A p \in call[c].parts \ call[c].retry : call[c].trip[p].at = "ok"
    PROVE  IInv'
  <1> USE ShapesOfConstants DEF IInv, OrphanInv, TypeInv, hubVars, pumpVars
  <1> DEFINE r == [call[c] EXCEPT !.stage = IF call[c].retry = {} THEN "served" ELSE "retry"]
  <1>1. call' = [call EXCEPT ![c] = r] /\ call[c] \in Calls
    BY DEF Proceed, CallTypes
  <1>2. Calls' = Calls
    BY DEF Calls, Trips
  <1>3. r \in Calls
    BY <1>1 DEF Calls, Stages
  <1>4. TypeInv'
    BY <1>1, <1>2, <1>3 DEF HubTypes, CallTypes
  <1>5. TripInv'
    BY DEF Proceed, CallTypes, TripInv, Calls, Trips
  <1>6. WholeInv'
    BY DEF Proceed, CallTypes, WholeInv, Calls, Trips, Missing
  <1>7. LoopInv'
    BY DEF Proceed, CallTypes, LoopInv, Calls, Trips
  <1>8. EntryInv' /\ NoOrphanPump'
    BY DEF EntryInv, NoOrphanPump
  <1> QED BY <1>4, <1>5, <1>6, <1>7, <1>8

LEMMA SucceedsKeeps ==
    ASSUME IInv, NEW c \in Callers, Succeeds(c)
    PROVE  IInv'
  <1>1. \A p \in call[c].parts \ call[c].retry : call[c].trip[p].at = "ok"
    BY DEF Succeeds, IInv, WholeInv, Missing
  <1> QED BY <1>1, ProceedKeeps DEF Succeeds

LEMMA TopicJoinedKeeps ==
    ASSUME IInv, NEW c \in Callers, TopicJoined(c)
    PROVE  IInv'
  <1>1. \A p \in call[c].parts \ call[c].retry : call[c].trip[p].at = "ok"
    BY DEF TopicJoined, IInv, WholeInv, Missing
  <1> QED BY <1>1, ProceedKeeps DEF TopicJoined

LEMMA TopicLockKeeps ==
    ASSUME IInv, NEW c \in Callers, TopicLock(c)
    PROVE  IInv'
  <1> USE ShapesOfConstants DEF IInv, OrphanInv, TypeInv, hubVars, pumpVars
  <1> DEFINE before == {p \in call[c].parts : pumps[<<call[c].topic, p>>] # NoPump}
             r == [call[c] EXCEPT !.stage = "loop", !.left = call[c].parts, !.before = before]
  <1>1. call' = [call EXCEPT ![c] = r] /\ call[c] \in Calls
    BY DEF TopicLock, CallTypes
  <1>2. Calls' = Calls
    BY DEF TopicLock, Calls, Trips
  <1>3. before \in SUBSET Partitions
    BY <1>1 DEF Calls
  <1>4. r \in Calls
    <2> HIDE DEF before
    <2> QED BY <1>1, <1>3 DEF Calls, Stages
  <1>5. TypeInv'
    <2>1. CallTypes'
      BY <1>1, <1>2, <1>4 DEF CallTypes
    <2>2. HubTypes'
      BY DEF TopicLock, HubTypes
    <2> QED BY <2>1, <2>2 DEF TopicLock
  <1>6. TripInv'
    BY DEF TopicLock, CallTypes, TripInv, Calls, Trips
  <1>7. WholeInv'
    BY DEF TopicLock, CallTypes, WholeInv, Calls, Trips, Missing
  <1>8. LoopInv'
    BY DEF TopicLock, CallTypes, LoopInv, Calls, Trips, NoPump, Keys
  <1>9. EntryInv' /\ NoOrphanPump'
    BY DEF TopicLock, EntryInv, NoOrphanPump
  <1> QED BY <1>5, <1>6, <1>7, <1>8, <1>9

LEMMA TopicUnlockKeeps ==
    ASSUME IInv, NEW c \in Callers, TopicUnlock(c)
    PROVE  IInv'
  <1> USE ShapesOfConstants DEF IInv, OrphanInv, TypeInv, hubVars, pumpVars
  <1> DEFINE r == [call[c] EXCEPT !.stage = "fan", !.left = call[c].parts]
  <1>1. call' = [call EXCEPT ![c] = r] /\ call[c] \in Calls
    BY DEF TopicUnlock, CallTypes
  <1>2. Calls' = Calls
    BY DEF TopicUnlock, Calls, Trips
  <1>3. r \in Calls
    BY <1>1 DEF Calls, Stages
  <1>4. TypeInv'
    BY <1>1, <1>2, <1>3 DEF TopicUnlock, HubTypes, CallTypes
  <1>5. TripInv'
    BY DEF TopicUnlock, CallTypes, TripInv, Calls, Trips
  <1>6. WholeInv'
    BY DEF TopicUnlock, CallTypes, WholeInv, Calls, Trips, Missing
  <1>7. LoopInv'
    BY DEF TopicUnlock, CallTypes, LoopInv, Calls, Trips, NoPump, Keys
  <1>8. EntryInv' /\ NoOrphanPump'
    BY DEF TopicUnlock, EntryInv, NoOrphanPump
  <1> QED BY <1>4, <1>5, <1>6, <1>7, <1>8

LEMMA TopicCollectKeeps ==
    ASSUME IInv, NEW c \in Callers, TopicCollect(c)
    PROVE  IInv'
  <1> USE ShapesOfConstants DEF IInv, OrphanInv, TypeInv, hubVars, pumpVars
  <1>1. PICK p \in call[c].left, retry \in SUBSET Partitions :
            /\ call' = [call EXCEPT ![c] = [call[c] EXCEPT !.left = call[c].left \ {p},
                                                           !.retry = retry]]
            /\ \/ retry = call[c].retry /\ call[c].trip[p].at = "ok"
               \/ retry = call[c].retry \cup {p}
    <2>1. call[c] \in Calls
      BY DEF CallTypes
    <2>2. /\ call[c].left \subseteq Partitions /\ call[c].retry \in SUBSET Partitions
          /\ \A p \in call[c].left : call[c].retry \cup {p} \in SUBSET Partitions
      BY <2>1 DEF Calls
    <2>3. PICK p \in call[c].left :
             \/ /\ call[c].trip[p].at = "ok"
                /\ call' = [call EXCEPT ![c].left = call[c].left \ {p}]
             \/ call' = [call EXCEPT ![c].left = call[c].left \ {p},
                                     ![c].retry = call[c].retry \cup {p}]
      BY DEF TopicCollect
    <2>4. CASE /\ call[c].trip[p].at = "ok"
               /\ call' = [call EXCEPT ![c].left = call[c].left \ {p}]
      <3>1. call' = [call EXCEPT ![c] = [call[c] EXCEPT !.left = call[c].left \ {p},
                                                        !.retry = call[c].retry]]
        BY <2>1, <2>4 DEF CallTypes, Calls
      <3> QED BY <2>2, <2>3, <2>4, <3>1
    <2>5. CASE call' = [call EXCEPT ![c].left = call[c].left \ {p},
                                    ![c].retry = call[c].retry \cup {p}]
      <3>1. call' = [call EXCEPT ![c] = [call[c] EXCEPT !.left = call[c].left \ {p},
                                                        !.retry = call[c].retry \cup {p}]]
        BY <2>1, <2>5 DEF CallTypes, Calls
      <3> QED BY <2>2, <2>3, <3>1
    <2> QED BY <2>3, <2>4, <2>5
  <1> DEFINE r == [call[c] EXCEPT !.left = call[c].left \ {p}, !.retry = retry]
  <1>2. call[c] \in Calls /\ call' = [call EXCEPT ![c] = r] /\ call[c].stage = "fan"
    BY <1>1 DEF TopicCollect, CallTypes
  <1>3. Calls' = Calls
    BY DEF TopicCollect, Calls, Trips
  <1>4. r \in Calls
    BY <1>1, <1>2 DEF Calls
  <1>5. UNCHANGED <<source, pumps, topics, shutDown, lock, spawned, keyOf, alive, stopping>>
    BY DEF TopicCollect
  <1>6. TypeInv'
    BY <1>2, <1>3, <1>4, <1>5 DEF HubTypes, CallTypes
  <1>7. /\ \A d \in Callers \ {c} : call'[d] = call[d]
        /\ call'[c].stage = "fan" /\ call'[c].topic = call[c].topic
        /\ call'[c].parts = call[c].parts /\ call'[c].trip = call[c].trip
        /\ call'[c].left = call[c].left \ {p} /\ call'[c].retry = retry
    BY <1>2 DEF CallTypes, Calls
  <1> HIDE DEF r
  <1>8. TripInv'
    BY <1>5, <1>7 DEF TripInv
  <1>9. WholeInv'
    BY <1>1, <1>2, <1>7 DEF WholeInv, Missing
  <1>10. LoopInv'
    BY <1>2, <1>5, <1>7 DEF LoopInv
  <1>11. EntryInv' /\ NoOrphanPump'
    BY <1>5 DEF EntryInv, NoOrphanPump
  <1> QED BY <1>6, <1>8, <1>9, <1>10, <1>11

-----------------------------------------------------------------------------
(* Steps that leave the calls alone, or end one.                            *)

LEMMA DiesKeeps ==
    ASSUME IInv, NEW i \in PumpIds, Dies(i)
    PROVE  IInv'
  <1> USE ShapesOfConstants DEF IInv, OrphanInv, TypeInv, hubVars
  <1>1. /\ alive' = alive \ {i} /\ stopping' = stopping \ {i}
        /\ UNCHANGED <<source, pumps, topics, shutDown, lock, spawned, keyOf>>
    BY DEF Dies
  <1>2. Calls' = Calls /\ Trips' = Trips
    BY <1>1 DEF Calls, Trips
  <1> DEFINE at(c, p) == IF <<c, p>> \in Queued(i) THEN "closed" ELSE call[c].trip[p].at
             trip(c, p) == IF <<c, p>> \in Queued(i)
                           THEN [call[c].trip[p] EXCEPT !.at = "closed"]
                           ELSE call[c].trip[p]
  <1>3. \A c \in Callers, p \in Partitions :
           /\ trip(c, p) \in Trips
           /\ trip(c, p).at = at(c, p) /\ trip(c, p).pump = call[c].trip[p].pump
    <2> TAKE c \in Callers, p \in Partitions
    <2>1. call[c].trip[p] \in Trips
      BY DEF CallTypes, Calls
    <2>2. [call[c].trip[p] EXCEPT !.at = "closed"] \in Trips
      BY <2>1, SetAt
    <2> QED BY <2>1, <2>2 DEF Trips
  <1>4. \A c \in Callers :
           call'[c] = [call[c] EXCEPT !.trip = [p \in Partitions |-> trip(c, p)]]
    BY DEF Dies, CallTypes, Calls
  <1> HIDE DEF trip
  <1>5. \A c \in Callers :
           /\ call'[c] \in Calls /\ call'[c].stage = call[c].stage
           /\ call'[c].topic = call[c].topic /\ call'[c].parts = call[c].parts
           /\ call'[c].part = call[c].part /\ call'[c].left = call[c].left
           /\ call'[c].retry = call[c].retry /\ call'[c].before = call[c].before
           /\ call'[c].trip = [p \in Partitions |-> trip(c, p)]
    <2> TAKE c \in Callers
    <2>1. call[c] \in Calls
      BY DEF CallTypes
    <2>2. [p \in Partitions |-> trip(c, p)] \in [Partitions -> Trips]
      BY <1>3
    <2> QED BY <1>4, <2>1, <2>2 DEF Calls
  <1>6. \A c \in Callers, p \in Partitions :
           /\ call'[c].trip[p].at = at(c, p)
           /\ call'[c].trip[p].pump = call[c].trip[p].pump
    <2> TAKE c \in Callers, p \in Partitions
    <2>1. call'[c].trip = [q \in Partitions |-> trip(c, q)]
      BY <1>5
    <2>2. call'[c].trip[p] = trip(c, p)
      BY <2>1
    <2> QED BY <2>2, <1>3
  <1>7. DOMAIN call' = Callers
    BY DEF Dies
  <1>8. TypeInv'
    <2>1. call' \in [Callers -> Calls]
      <3>1. call' = [c \in Callers |-> call'[c]]
        BY DEF Dies
      <3> QED BY <3>1, <1>5
    <2> QED BY <1>1, <1>2, <2>1 DEF HubTypes, CallTypes
  <1>9. TripInv'
    <2> SUFFICES ASSUME NEW c \in Callers, NEW p \in Partitions, call'[c].trip[p].at # "none"
                 PROVE  /\ call'[c].topic \in Gate /\ p \in source'[call'[c].topic]
                        /\ call'[c].trip[p].at = "closed" => call'[c].trip[p].pump \notin alive'
      BY DEF TripInv
    <2>1. call'[c].topic = call[c].topic
      BY <1>5
    <2>2. /\ call'[c].trip[p].at = at(c, p)
          /\ call'[c].trip[p].pump = call[c].trip[p].pump
      BY <1>6
    <2>3. CASE <<c, p>> \in Queued(i)
      BY <1>1, <2>1, <2>2, <2>3 DEF TripInv, Queued
    <2>4. CASE <<c, p>> \notin Queued(i)
      BY <1>1, <2>1, <2>2, <2>4 DEF TripInv
    <2> QED BY <2>3, <2>4
  <1>10. WholeInv'
    <2>1. \A c \in Callers, p \in Partitions : call[c].trip[p].at = "ok" => at(c, p) = "ok"
      BY DEF Queued
    <2>2. \A c \in Callers : call[c].parts \subseteq Partitions
      BY DEF CallTypes, Calls
    <2>3. \A c \in Callers : Missing(c)' = Missing(c)
      BY <1>5 DEF Missing
    <2> SUFFICES ASSUME NEW c \in Callers, NEW p \in call[c].parts \ Missing(c)
                 PROVE  call'[c].trip[p].at = "ok"
      BY <1>5, <2>3 DEF WholeInv
    <2>4. p \in Partitions /\ call[c].trip[p].at = "ok"
      BY <2>2 DEF WholeInv
    <2> QED BY <1>6, <2>1, <2>4
  <1>11. LoopInv'
    <2>1. \A c \in Callers : \A q \in Partitions :
             call'[c].trip[q].pump = call[c].trip[q].pump
      BY <1>6
    <2>2. \A c \in Callers : /\ call'[c].stage = call[c].stage /\ call'[c].topic = call[c].topic
                              /\ call'[c].parts = call[c].parts
                              /\ call'[c].before = call[c].before
      BY <1>5
    <2> HIDE DEF at
    <2> QED BY <1>1, <2>1, <2>2 DEF LoopInv
  <1>12. EntryInv' /\ NoOrphanPump'
    BY <1>1 DEF EntryInv, NoOrphanPump
  <1> QED BY <1>8, <1>9, <1>10, <1>11, <1>12

LEMMA RepartitionKeeps ==
    ASSUME IInv, NEW t \in Topics, Repartition(t)
    PROVE  IInv'
  <1> USE ShapesOfConstants DEF IInv, OrphanInv, TypeInv, hubVars, pumpVars
  <1>1. UNCHANGED <<pumps, topics, shutDown, lock, spawned, keyOf, alive, stopping, call>>
    BY DEF Repartition
  <1>2. source' \in [Topics -> SUBSET Partitions] /\ \A u \in Topics : source[u] \subseteq source'[u]
    BY DEF Repartition, HubTypes
  <1>3. TypeInv'
    BY <1>1, <1>2 DEF HubTypes, CallTypes, Calls, Trips
  <1>4. TripInv'
    <2>1. \A c \in Callers : call[c].topic \in Topics
      BY DEF CallTypes, Calls
    <2> QED BY <1>1, <1>2, <2>1 DEF TripInv
  <1>5. WholeInv' /\ LoopInv'
    BY <1>1 DEF WholeInv, LoopInv, Missing
  <1>6. EntryInv'
    BY <1>1, <1>2 DEF EntryInv
  <1>7. NoOrphanPump'
    BY <1>1, <1>2 DEF NoOrphanPump
  <1> QED BY <1>3, <1>4, <1>5, <1>6, <1>7

\* A call that ends, whether it fails or is dropped, leaves nothing behind.
LEMMA EndsKeeps ==
    ASSUME TypeInv, TripInv, WholeInv, LoopInv,
           spawned' = spawned, alive' = alive, UNCHANGED source,
           NEW c \in Callers, NEW s \in {"idle", "failed"},
           call' = [call EXCEPT ![c] = NoCall(s)],
           lock' \in {lock, NoCaller}, lock' # lock => lock = c,
           \A k \in Keys : pumps'[k] \in {pumps[k], NoPump}
    PROVE  CallTypes' /\ TripInv' /\ WholeInv' /\ LoopInv'
  <1> USE ShapesOfConstants DEF TypeInv
  <1>1. spawned \in Nat /\ spawned' \in Nat /\ spawned <= spawned' /\ Calls' = Calls
    BY DEF HubTypes, Calls, Trips
  <1>2. NoCall(s) \in Calls'
    BY <1>1, NoCallIsCall DEF Stages
  <1>3. /\ CallTypes' /\ call'[c] = NoCall(s)
        /\ \A d \in Callers \ {c} : call'[d] = call[d]
    BY <1>1, <1>2, OneCall
  <1>4. /\ NoCall(s).stage = s /\ NoCall(s).parts = {}
        /\ \A p \in Partitions : NoCall(s).trip[p] = NoTrip
    BY DEF NoCall
  <1>5. TripInv'
    BY <1>3, <1>4 DEF TripInv, NoTrip
  <1>6. WholeInv'
    BY <1>3, <1>4 DEF WholeInv, Missing
  <1>7. LoopInv'
    <2> SUFFICES ASSUME NEW d \in Callers, call'[d].stage = "loop"
                 PROVE  /\ lock' = d
                        /\ \A p \in call'[d].parts \ call'[d].before :
                              LET i == pumps'[<<call'[d].topic, p>>] IN
                              i # NoPump => \A e \in Callers \ {d}, q \in Partitions :
                                               call'[e].trip[q].pump # i
      BY DEF LoopInv
    <2>1. d # c /\ call'[d] = call[d] /\ call[d] \in Calls
      BY <1>3, <1>4 DEF CallTypes
    <2>2. lock' = d /\ call[d].stage = "loop"
      BY <2>1 DEF LoopInv
    <2>3. \A p \in call[d].parts : <<call[d].topic, p>> \in Keys
      BY <2>1 DEF Calls, Keys
    <2>4. \A e \in Callers, q \in Partitions :
             call'[e].trip[q].pump \in {call[e].trip[q].pump, NoPump}
      BY <1>3, <1>4 DEF NoTrip
    <2> QED BY <2>1, <2>2, <2>3, <2>4 DEF LoopInv
  <1> QED BY <1>3, <1>5, <1>6, <1>7

LEMMA DropKeeps ==
    ASSUME IInv, NEW c \in Callers, Drop(c)
    PROVE  IInv'
  <1> USE DEF IInv, OrphanInv, TypeInv, hubVars, pumpVars
  <1>1. CallTypes' /\ TripInv' /\ WholeInv' /\ LoopInv'
    BY EndsKeeps DEF Drop
  <1>2. HubTypes'
    BY DEF Drop, HubTypes
  <1>3. EntryInv' /\ NoOrphanPump'
    BY DEF Drop, EntryInv, NoOrphanPump
  <1> QED BY <1>1, <1>2, <1>3

\* The entry of a pump that is dead may go: no running pump loses its own.
LEMMA DeadEntryGoes ==
    ASSUME HubTypes, EntryInv, NoOrphanPump, NEW k \in Keys, pumps[k] \notin alive,
           pumps' = [pumps EXCEPT ![k] = NoPump],
           UNCHANGED <<source, topics, lock, spawned, keyOf, alive, stopping>>
    PROVE  HubTypes' /\ EntryInv' /\ NoOrphanPump'
  <1>1. HubTypes'
    BY DEF HubTypes, NoPump
  <1>2. EntryInv'
    BY DEF EntryInv, HubTypes
  <1>3. NoOrphanPump'
    <2>1. \A i \in alive \ stopping : keyOf[i] \in Keys /\ keyOf[i] # k
      BY AliveFacts DEF NoOrphanPump
    <2> QED BY <2>1 DEF NoOrphanPump, HubTypes
  <1> QED BY <1>1, <1>2, <1>3

LEMMA GivesUpKeeps ==
    ASSUME IInv, NEW c \in Callers, NEW p \in Partitions, GivesUp(c, p)
    PROVE  IInv' /\ stopping' = stopping
  <1> USE DEF IInv, OrphanInv, TypeInv
  <1> DEFINE k == <<call[c].topic, p>>
             i == call[c].trip[p].pump
  <1>1. /\ lock = NoCaller /\ call[c].trip[p].at = "closed"
        /\ pumps' = IF pumps[k] = i THEN [pumps EXCEPT ![k] = NoPump] ELSE pumps
        /\ UNCHANGED <<source, topics, shutDown, lock, spawned, keyOf, alive>>
        /\ call' = [call EXCEPT ![c] = NoCall("failed")]
    BY DEF GivesUp, Forget, Fails
  <1>2. i \notin alive
    BY <1>1 DEF TripInv
  <1>3. stopping' = stopping
    BY <1>2 DEF GivesUp, StopAll
  <1>4. k \in Keys
    BY DEF CallTypes, Calls, Keys
  <1> HIDE DEF k, i
  <1>5. \A m \in Keys : pumps'[m] \in {pumps[m], NoPump}
    BY <1>1 DEF HubTypes
  <1>6. CallTypes' /\ TripInv' /\ WholeInv' /\ LoopInv'
    BY <1>1, <1>5, EndsKeeps
  <1>7. HubTypes' /\ EntryInv' /\ NoOrphanPump'
    <2>1. CASE pumps[k] = i
      BY <2>1, <1>1, <1>2, <1>3, <1>4, DeadEntryGoes
    <2>2. CASE pumps[k] # i
      BY <2>2, <1>1, <1>3 DEF HubTypes, EntryInv, NoOrphanPump
    <2> QED BY <2>1, <2>2
  <1> QED BY <1>3, <1>6, <1>7

LEMMA ShutdownKeeps ==
    ASSUME IInv, Shutdown
    PROVE  IInv'
  <1> USE ShapesOfConstants DEF IInv, OrphanInv, TypeInv
  <1>1. /\ pumps' = [k \in Keys |-> NoPump] /\ topics' = [t \in {} |-> {}] /\ lock = NoCaller
        /\ stopping' = stopping \cup ({pumps[k] : k \in Keys} \cap alive)
        /\ UNCHANGED <<source, lock, spawned, keyOf, alive, call>>
    BY DEF Shutdown, StopAll
  <1>2. TypeInv'
    BY <1>1 DEF HubTypes, CallTypes, Calls, Trips, NoPump
  <1>3. TripInv' /\ WholeInv'
    BY <1>1 DEF TripInv, WholeInv, Missing
  <1>4. LoopInv'
    BY <1>1, NobodyLoops DEF LoopInv
  <1>5. EntryInv'
    BY <1>1 DEF EntryInv
  <1>6. NoOrphanPump'
    <2>1. \A i \in alive \ stopping : i \in {pumps[k] : k \in Keys}
      BY AliveFacts DEF NoOrphanPump
    <2> QED BY <1>1, <2>1 DEF NoOrphanPump
  <1> QED BY <1>2, <1>3, <1>4, <1>5, <1>6

LEMMA ReapKeeps ==
    ASSUME IInv, ReapExitedPumps
    PROVE  IInv'
  <1> USE ShapesOfConstants DEF IInv, OrphanInv, TypeInv, pumpVars
  <1>1. /\ pumps' = Reaped /\ lock = NoCaller
        /\ UNCHANGED <<source, topics, shutDown, lock, spawned, keyOf, alive, stopping, call>>
    BY DEF ReapExitedPumps
  <1>2. TypeInv'
    BY <1>1 DEF Reaped, HubTypes, CallTypes, Calls, Trips, NoPump
  <1>3. TripInv' /\ WholeInv'
    BY <1>1 DEF TripInv, WholeInv, Missing
  <1>4. LoopInv'
    BY <1>1, NobodyLoops DEF LoopInv
  <1>5. EntryInv'
    BY <1>1 DEF EntryInv, Reaped
  <1>6. NoOrphanPump'
    <2>1. \A i \in alive \ stopping : pumps'[keyOf[i]] = i
      BY <1>1, AliveFacts DEF NoOrphanPump, Reaped
    <2> QED BY <1>1, <2>1 DEF NoOrphanPump
  <1> QED BY <1>2, <1>3, <1>4, <1>5, <1>6

LEMMA ForgetTopicsKeeps ==
    ASSUME IInv, ForgetTopics
    PROVE  IInv'
  <1> USE DEF IInv, OrphanInv, TypeInv, pumpVars, ForgetTopics
  <1>1. TypeInv'
    BY DEF HubTypes, CallTypes, Calls, Trips
  <1>2. TripInv' /\ WholeInv' /\ LoopInv'
    BY DEF TripInv, WholeInv, Missing, LoopInv
  <1>3. EntryInv' /\ NoOrphanPump'
    BY DEF EntryInv, NoOrphanPump
  <1> QED BY <1>1, <1>2, <1>3

-----------------------------------------------------------------------------
(* Steps that take an entry for a call.                                     *)

\* A call as the single-partition path finds it: the trips it has made are in
\* order, and everything but p and the retries is there.
Sound(r, p) ==
    /\ \A q \in Partitions : r.trip[q].at # "none" =>
          /\ r.topic \in Gate /\ q \in source[r.topic]
          /\ r.trip[q].at = "closed" => r.trip[q].pump \notin alive
    /\ \A q \in r.parts \ (r.retry \cup {p}) : r.trip[q].at = "ok"

\* A call sets out for the pump the hub has for p, the hub being in order.
LEMMA SetsOutKeeps ==
    ASSUME IInv, NEW c \in Callers, NEW p \in Partitions, NEW old \in Calls, Sound(old, p),
           lock = NoCaller, lock' = lock, source' = source,
           NEW s \in {"first", "last"}, NEW i \in 0 .. spawned', NEW made \in BOOLEAN,
           HubTypes', EntryInv', NoOrphanPump',
           spawned <= spawned', \A j \in alive' \ alive : j = spawned + 1,
           old.topic \in Gate, p \in source[old.topic],
           call' = [call EXCEPT ![c] =
                       [old EXCEPT !.stage = s, !.part = p, !.trip[p] = TripTo(i, made)]]
    PROVE  IInv'
  <1> USE DEF IInv, OrphanInv, TypeInv
  <1> DEFINE x == TripTo(i, made)
             r == [old EXCEPT !.stage = s, !.part = p, !.trip[p] = x]
  <1>1. spawned \in Nat /\ spawned' \in Nat
    BY ShapesOfConstants DEF HubTypes
  <1>2. x \in Trips' /\ x.at = "send"
    BY DEF TripTo, Trips
  <1>3. old \in Calls'
    BY <1>1, MorePumps
  <1>4. /\ r \in Calls' /\ r.stage = s /\ r.part = p /\ r.topic = old.topic
        /\ r.parts = old.parts /\ r.retry = old.retry
        /\ r.trip[p] = x /\ \A q \in Partitions \ {p} : r.trip[q] = old.trip[q]
    <2> HIDE DEF x
    <2> QED BY <1>2, <1>3 DEF Calls, Stages
  <1>5. CallTypes' /\ call'[c] = r /\ \A d \in Callers \ {c} : call'[d] = call[d]
    BY <1>1, <1>4, OneCall
  <1> HIDE DEF r, x
  <1>6. TripInv'
    <2> SUFFICES ASSUME NEW d \in Callers, NEW q \in Partitions, call'[d].trip[q].at # "none"
                 PROVE  /\ call'[d].topic \in Gate /\ q \in source'[call'[d].topic]
                        /\ call'[d].trip[q].at = "closed" => call'[d].trip[q].pump \notin alive'
      BY DEF TripInv
    <2>1. CASE d # c
      <3>1. call'[d] = call[d] /\ call[d].trip[q].pump \in 0 .. spawned
        BY <2>1, <1>5 DEF CallTypes, Calls, Trips
      <3>2. /\ call[d].topic \in Gate /\ q \in source[call[d].topic]
            /\ call[d].trip[q].at = "closed" => call[d].trip[q].pump \notin alive
        BY <3>1 DEF TripInv
      <3>3. call[d].trip[q].pump # spawned + 1
        BY <3>1, <1>1
      <3> QED BY <3>1, <3>2, <3>3
    <2>2. CASE d = c /\ q = p
      BY <2>2, <1>2, <1>4, <1>5
    <2>3. CASE d = c /\ q # p
      <3>1. call'[d].trip[q] = old.trip[q] /\ old.trip[q].pump \in 0 .. spawned
        BY <2>3, <1>4, <1>5 DEF Calls, Trips
      <3> QED BY <3>1, <2>3, <1>1, <1>4, <1>5 DEF Sound
    <2> QED BY <2>1, <2>2, <2>3
  <1>7. WholeInv'
    <2>1. \A d \in Callers \ {c} : Missing(d)' = Missing(d)
      BY <1>5 DEF Missing
    <2>2. Missing(c)' = old.retry \cup {p}
      BY <1>4, <1>5 DEF Missing
    <2>3. \A q \in old.parts \ (old.retry \cup {p}) : r.trip[q].at = "ok"
      <3>1. old.parts \subseteq Partitions
        BY DEF Calls
      <3> QED BY <3>1, <1>4 DEF Sound
    <2> SUFFICES ASSUME NEW d \in Callers, NEW q \in call'[d].parts \ Missing(d)'
                 PROVE  call'[d].trip[q].at = "ok"
      BY DEF WholeInv
    <2>4. CASE d = c
      BY <2>2, <2>3, <2>4, <1>4, <1>5
    <2>5. CASE d # c
      BY <2>1, <2>5, <1>5 DEF WholeInv
    <2> QED BY <2>4, <2>5
  <1>8. LoopInv'
    BY NobodyLoops, <1>4, <1>5 DEF LoopInv
  <1> QED BY <1>5, <1>6, <1>7, <1>8

LEMMA SingleAcquireKeeps ==
    ASSUME IInv, NEW c \in Callers, NEW p \in Partitions, NEW old \in Calls, Sound(old, p),
           lock = NoCaller, SingleAcquire(c, old, p), UNCHANGED <<source, lock, stopping>>
    PROVE  IInv'
  <1> USE DEF IInv, OrphanInv, TypeInv
  <1> DEFINE k == <<old.topic, p>>
  <1>1. k \in Keys /\ k[1] = old.topic /\ k[2] = p
    BY DEF Keys, Calls
  <1>2. PICK r \in Acquire(k) :
            /\ pumps' = r.pumps /\ topics' = r.topics
            /\ Spawns(r.created, k)
            /\ IF r.ok
               THEN call' = [call EXCEPT ![c] =
                                [old EXCEPT !.stage = "first", !.part = p,
                                            !.trip[p] = TripTo(r.pump, r.created)]]
               ELSE Fails(c)
    BY DEF SingleAcquire
  <1> HIDE DEF k
  <1>3. /\ HubTypes' /\ EntryInv' /\ NoOrphanPump' /\ spawned <= spawned'
        /\ \A i \in alive' \ alive : i = spawned + 1
        /\ r.ok => r.pump \in 1 .. spawned'
    BY <1>1, <1>2, AcquireKeepsHub
  <1>4. CASE r.ok
    <2>1. r.pump \in 0 .. spawned' /\ r.created \in BOOLEAN
      <3>1. r.created \in BOOLEAN
        BY <1>1, AcquireFacts
      <3> QED BY <3>1, <1>3, <1>4 DEF HubTypes
    <2>2. old.topic \in Gate /\ p \in source[old.topic]
      BY <1>1, <1>2, <1>4, AcquireFacts
    <2> QED BY <1>2, <1>3, <1>4, <2>1, <2>2, SetsOutKeeps
  <1>5. CASE ~r.ok
    <2>1. /\ ~r.created /\ r.pumps \in {pumps, Reaped}
          /\ call' = [call EXCEPT ![c] = NoCall("failed")]
      BY <1>1, <1>2, <1>5, AcquireFacts DEF Fails
    <2>2. spawned' = spawned /\ alive' = alive
      BY <1>2, <2>1 DEF Spawns
    <2>3. \A m \in Keys : pumps'[m] \in {pumps[m], NoPump}
      BY <1>2, <2>1 DEF Reaped
    <2> QED BY <1>3, <2>1, <2>2, <2>3, EndsKeeps
  <1> QED BY <1>4, <1>5

LEMMA SubscribeKeeps ==
    ASSUME IInv, NEW c \in Callers, NEW t \in Topics, NEW p \in Partitions, Subscribe(c, t, p)
    PROVE  IInv'
  <1> DEFINE old == [NoCall("idle") EXCEPT !.topic = t, !.parts = {p}]
  <1>1. spawned \in Nat
    BY DEF IInv, OrphanInv, TypeInv, HubTypes
  <1>2. old \in Calls
    BY <1>1, NoCallIsCall DEF Calls, Stages
  <1>3. Sound(old, p)
    BY DEF Sound, NoCall, NoTrip
  <1> HIDE DEF old
  <1>4. lock = NoCaller /\ SingleAcquire(c, old, p) /\ UNCHANGED <<source, lock, stopping>>
    BY DEF Subscribe, old
  <1> QED BY <1>2, <1>3, <1>4, SingleAcquireKeeps

LEMMA TopicRetryKeeps ==
    ASSUME IInv, NEW c \in Callers, TopicRetry(c)
    PROVE  IInv'
  <1> USE DEF IInv, OrphanInv, TypeInv
  <1>1. call[c] \in Calls
    BY DEF CallTypes
  <1>2. PICK p \in call[c].retry :
           SingleAcquire(c, [call[c] EXCEPT !.retry = call[c].retry \ {p}], p)
    BY DEF TopicRetry
  <1> DEFINE old == [call[c] EXCEPT !.retry = call[c].retry \ {p}]
  <1>3. /\ p \in Partitions /\ old \in Calls /\ old.retry = call[c].retry \ {p}
        /\ old.parts = call[c].parts /\ old.trip = call[c].trip /\ old.topic = call[c].topic
    BY <1>1 DEF Calls
  <1> HIDE DEF old
  <1>4. Sound(old, p)
    <2>1. \A q \in call[c].parts \ call[c].retry : call[c].trip[q].at = "ok"
      BY DEF TopicRetry, WholeInv, Missing
    <2> QED BY <2>1, <1>3 DEF Sound, TripInv
  <1> QED BY <1>2, <1>3, <1>4, SingleAcquireKeeps DEF TopicRetry, old

LEMMA RespawnKeeps ==
    ASSUME IInv, NEW c \in Callers, Respawn(c)
    PROVE  IInv'
  <1> USE DEF IInv, OrphanInv, TypeInv
  <1> DEFINE p == call[c].part
             k == <<call[c].topic, p>>
             again(i) == call' = [call EXCEPT ![c] =
                 [call[c] EXCEPT !.stage = "last", !.part = p, !.trip[p] = TripTo(i, FALSE)]]
  <1>1. /\ call[c] \in Calls /\ p \in Partitions /\ k \in Keys
        /\ k[1] = call[c].topic /\ k[2] = p
    BY DEF CallTypes, Calls, Keys
  <1>2. /\ call[c].trip[p].at = "closed" /\ call[c].stage = "first" /\ lock = NoCaller
        /\ UNCHANGED <<source, topics, shutDown, lock, stopping>>
    BY DEF Respawn, Closed
  <1>3. /\ call[c].topic \in Gate /\ p \in source[call[c].topic]
        /\ call[c].trip[p].pump \notin alive
    BY <1>1, <1>2 DEF TripInv
  <1>4. Sound(call[c], p)
    BY <1>2 DEF Sound, TripInv, WholeInv, Missing
  <1>5. \/ /\ again(pumps[k]) /\ UNCHANGED <<pumps, spawned, keyOf, alive>>
        \/ /\ pumps[k] \notin alive /\ spawned < MaxSpawn
           /\ again(spawned + 1)
           /\ spawned' = spawned + 1 /\ alive' = alive \cup {spawned + 1}
           /\ keyOf' = [keyOf EXCEPT ![spawned + 1] = k]
           /\ pumps' = [pumps EXCEPT ![k] = spawned + 1]
        \/ /\ pumps[k] \notin alive
           /\ call' = [call EXCEPT ![c] = NoCall("failed")]
           /\ UNCHANGED <<spawned, keyOf, alive>>
           /\ pumps' = [pumps EXCEPT ![k] = NoPump]
    <2>1. \A i : (call' = [call EXCEPT ![c].stage = "last", ![c].trip[p] = TripTo(i, FALSE)])
                 => again(i)
      <3> TAKE i
      <3>1. [call EXCEPT ![c].stage = "last", ![c].trip[p] = TripTo(i, FALSE)]
              = [call EXCEPT ![c] = [call[c] EXCEPT !.stage = "last",
                                                    !.trip[p] = TripTo(i, FALSE)]]
        BY <1>1 DEF CallTypes, Calls
      <3>2. [call[c] EXCEPT !.stage = "last", !.trip[p] = TripTo(i, FALSE)]
              = [call[c] EXCEPT !.stage = "last", !.part = p, !.trip[p] = TripTo(i, FALSE)]
        BY <1>1 DEF Calls
      <3> QED BY <3>1, <3>2
    <2>2. pumps[k] \in {NoPump, call[c].trip[p].pump} => pumps[k] \notin alive
      BY <1>3, AliveFacts
    <2> HIDE DEF again
    <2> QED BY <2>1, <2>2 DEF Respawn, Spawns, Fails, NewPump, Spawnable
  <1> HIDE DEF p, k
  <1>6. CASE again(pumps[k]) /\ UNCHANGED <<pumps, spawned, keyOf, alive>>
    <2>1. HubTypes' /\ EntryInv' /\ NoOrphanPump'
      BY <1>6, <1>2 DEF HubTypes, EntryInv, NoOrphanPump
    <2>2. pumps[k] \in 0 .. spawned' /\ spawned <= spawned'
      BY <1>6, <1>1, ShapesOfConstants DEF HubTypes
    <2> QED BY <1>1, <1>2, <1>3, <1>4, <1>6, <2>1, <2>2, SetsOutKeeps
  <1>7. CASE /\ pumps[k] \notin alive /\ spawned < MaxSpawn
             /\ again(spawned + 1)
             /\ spawned' = spawned + 1 /\ alive' = alive \cup {spawned + 1}
             /\ keyOf' = [keyOf EXCEPT ![spawned + 1] = k]
             /\ pumps' = [pumps EXCEPT ![k] = spawned + 1]
    <2>1. HubTypes'
      BY <1>1, <1>2, <1>7, ShapesOfConstants DEF HubTypes, PumpIds
    <2>2. EntryInv'
      BY <1>1, <1>2, <1>3, <1>7 DEF EntryInv, HubTypes
    <2>3. NoOrphanPump'
      <3>1. \A i \in alive \ stopping : /\ i # spawned + 1 /\ i \in PumpIds
                                        /\ keyOf[i] \in Keys /\ keyOf[i] # k
        BY <1>7, AliveFacts DEF HubTypes, NoOrphanPump
      <3>2. \A i \in alive \ stopping : keyOf'[i] = keyOf[i] /\ pumps'[keyOf[i]] = i
        BY <3>1, <1>7 DEF HubTypes, NoOrphanPump
      <3>3. keyOf'[spawned + 1] = k /\ pumps'[k] = spawned + 1
        BY <1>1, <1>7, ShapesOfConstants DEF HubTypes, PumpIds
      <3> QED BY <3>1, <3>2, <3>3, <1>1, <1>2, <1>3, <1>7 DEF NoOrphanPump
    <2>4. /\ spawned + 1 \in 0 .. spawned' /\ spawned <= spawned'
          /\ \A j \in alive' \ alive : j = spawned + 1
      BY <1>7, ShapesOfConstants DEF HubTypes
    <2> QED BY <1>1, <1>2, <1>3, <1>4, <1>7, <2>1, <2>2, <2>3, <2>4, SetsOutKeeps
  <1>8. CASE /\ pumps[k] \notin alive
             /\ call' = [call EXCEPT ![c] = NoCall("failed")]
             /\ UNCHANGED <<spawned, keyOf, alive>>
             /\ pumps' = [pumps EXCEPT ![k] = NoPump]
    <2>1. HubTypes' /\ EntryInv' /\ NoOrphanPump'
      BY <1>1, <1>2, <1>8, DeadEntryGoes
    <2>2. \A m \in Keys : pumps'[m] \in {pumps[m], NoPump}
      BY <1>8 DEF HubTypes
    <2> QED BY <1>2, <1>8, <2>1, <2>2, EndsKeeps
  <1> QED BY <1>5, <1>6, <1>7, <1>8

LEMMA TopicLookupKeeps ==
    ASSUME IInv, NEW c \in Callers, NEW t \in Topics, TopicLookup(c, t)
    PROVE  IInv'
  <1> USE ShapesOfConstants DEF IInv, OrphanInv, TypeInv, pumpVars
  <1>1. /\ UNCHANGED <<source, pumps, shutDown, lock, spawned, keyOf, alive, stopping>>
        /\ lock = NoCaller
    BY DEF TopicLookup
  <1>2. topics' = topics \/ topics' = Lists(t)
    BY DEF TopicLookup
  <1>3. HubTypes' /\ EntryInv' /\ NoOrphanPump'
    BY <1>1, <1>2, ListsFacts DEF HubTypes, EntryInv, NoOrphanPump
  <1>4. CASE call' = [call EXCEPT ![c] =
                         [NoCall("listed") EXCEPT !.topic = t, !.parts = Lists(t)[t]]]
    <2> DEFINE r == [NoCall("listed") EXCEPT !.topic = t, !.parts = Lists(t)[t]]
    <2>1. Lists(t)[t] \in SUBSET Partitions
      BY ListsFacts DEF HubTypes
    <2>2. NoCall("listed") \in Calls
      BY NoCallIsCall DEF HubTypes, Stages
    <2>3. /\ r \in Calls /\ r.stage = "listed"
          /\ r.trip = NoCall("listed").trip
      BY <2>1, <2>2 DEF Calls, NoCall
    <2>4. \A p \in Partitions : r.trip[p].at = "none"
      BY <2>3 DEF NoCall, NoTrip
    <2>5. Calls' = Calls /\ spawned \in Nat /\ spawned' \in Nat /\ spawned <= spawned'
      BY <1>1 DEF Calls, Trips, HubTypes
    <2>6. call' = [call EXCEPT ![c] = r] /\ r \in Calls'
      BY <1>4, <2>3, <2>5
    <2> HIDE DEF r
    <2>7. CallTypes' /\ call'[c] = r /\ \A d \in Callers \ {c} : call'[d] = call[d]
      BY <2>5, <2>6, OneCall
    <2>8. TripInv'
      BY <1>1, <2>4, <2>7 DEF TripInv
    <2>9. WholeInv'
      <3>1. \A d \in Callers \ {c} : Missing(d)' = Missing(d)
        BY <2>7 DEF Missing
      <3>2. Missing(c)' = r.parts
        BY <2>3, <2>7 DEF Missing
      <3> SUFFICES ASSUME NEW d \in Callers, NEW q \in call'[d].parts \ Missing(d)'
                   PROVE  call'[d].trip[q].at = "ok"
        BY DEF WholeInv
      <3>3. CASE d = c
        BY <3>2, <3>3, <2>7
      <3>4. CASE d # c
        BY <3>1, <3>4, <2>7 DEF WholeInv
      <3> QED BY <3>3, <3>4
    <2>10. LoopInv'
      BY <1>1, <2>3, <2>7, NobodyLoops DEF LoopInv
    <2> QED BY <1>3, <2>7, <2>8, <2>9, <2>10
  <1>5. CASE Fails(c)
    <2>1. call' = [call EXCEPT ![c] = NoCall("failed")]
      BY <1>5 DEF Fails
    <2> QED BY <1>1, <1>3, <2>1, EndsKeeps
  <1> QED BY <1>4, <1>5 DEF TopicLookup

LEMMA TopicAcquireKeeps ==
    ASSUME IInv, NEW c \in Callers, TopicAcquire(c)
    PROVE  IInv'
  <1> USE DEF IInv, OrphanInv, TypeInv
  <1>1. /\ call[c] \in Calls /\ call[c].stage = "loop" /\ call[c].left \subseteq Partitions
        /\ UNCHANGED <<source, shutDown, lock, stopping>>
    BY DEF TopicAcquire, CallTypes, Calls
  <1>2. PICK p \in call[c].left : \E r \in Acquire(<<call[c].topic, p>>) :
          /\ r.ok
          /\ pumps' = r.pumps /\ topics' = r.topics
          /\ Spawns(r.created, <<call[c].topic, p>>)
          /\ call' = [call EXCEPT ![c].left = call[c].left \ {p},
                                  ![c].trip[p] = TripTo(r.pump, r.created)]
    BY DEF TopicAcquire
  <1> DEFINE k == <<call[c].topic, p>>
  <1>3. p \in Partitions /\ k \in Keys /\ k[1] = call[c].topic /\ k[2] = p
    BY <1>1 DEF Calls, Keys
  <1>4. PICK r \in Acquire(k) :
          /\ r.ok
          /\ pumps' = r.pumps /\ topics' = r.topics
          /\ Spawns(r.created, k)
          /\ call' = [call EXCEPT ![c].left = call[c].left \ {p},
                                  ![c].trip[p] = TripTo(r.pump, r.created)]
    BY <1>2
  <1>5. /\ HubTypes' /\ EntryInv' /\ NoOrphanPump' /\ spawned <= spawned'
        /\ \A i \in alive' \ alive : i = spawned + 1
        /\ r.pump \in 1 .. spawned'
        /\ \A m \in Keys : pumps'[m] \in {pumps[m], NoPump, spawned + 1}
    BY <1>1, <1>3, <1>4, AcquireKeepsHub
  <1>6. call[c].topic \in Gate /\ p \in source[call[c].topic] /\ r.created \in BOOLEAN
    BY <1>3, <1>4, AcquireFacts
  <1>7. spawned \in Nat /\ spawned' \in Nat
    BY <1>5, ShapesOfConstants DEF HubTypes
  <1> DEFINE x == TripTo(r.pump, r.created)
             n == [call[c] EXCEPT !.left = call[c].left \ {p}, !.trip[p] = x]
  <1>8. x \in Trips' /\ x.at = "send"
    BY <1>5, <1>6, <1>7 DEF TripTo, Trips
  <1> HIDE DEF x
  <1>9. call' = [call EXCEPT ![c] = n]
    BY <1>1, <1>4 DEF CallTypes, Calls, x
  <1>10. call[c] \in Calls'
    BY <1>1, <1>5, <1>7, MorePumps
  <1>11. /\ n \in Calls' /\ n.stage = "loop" /\ n.topic = call[c].topic
         /\ n.parts = call[c].parts /\ n.before = call[c].before
         /\ n.trip[p] = x /\ \A q \in Partitions \ {p} : n.trip[q] = call[c].trip[q]
    BY <1>1, <1>3, <1>8, <1>10 DEF Calls
  <1> HIDE DEF n
  <1>12. CallTypes' /\ call'[c] = n /\ \A d \in Callers \ {c} : call'[d] = call[d]
    BY <1>5, <1>7, <1>9, <1>11, OneCall
  <1>13. TripInv'
    <2> SUFFICES ASSUME NEW d \in Callers, NEW q \in Partitions, call'[d].trip[q].at # "none"
                 PROVE  /\ call'[d].topic \in Gate /\ q \in source'[call'[d].topic]
                        /\ call'[d].trip[q].at = "closed" => call'[d].trip[q].pump \notin alive'
      BY DEF TripInv
    <2>1. CASE d = c /\ q = p
      BY <2>1, <1>1, <1>6, <1>8, <1>11, <1>12
    <2>2. CASE ~(d = c /\ q = p)
      <3>1. call'[d].trip[q] = call[d].trip[q] /\ call'[d].topic = call[d].topic
        BY <2>2, <1>11, <1>12
      <3>2. call[d].trip[q].pump \in 0 .. spawned
        BY DEF CallTypes, Calls, Trips
      <3>3. /\ call[d].topic \in Gate /\ q \in source[call[d].topic]
            /\ call[d].trip[q].at = "closed" => call[d].trip[q].pump \notin alive
        BY <3>1 DEF TripInv
      <3>4. call[d].trip[q].pump # spawned + 1
        BY <3>2, <1>7
      <3> QED BY <3>1, <3>3, <3>4, <1>1, <1>5
    <2> QED BY <2>1, <2>2
  <1>14. WholeInv'
    <2>1. \A d \in Callers \ {c} : Missing(d)' = Missing(d)
      BY <1>12 DEF Missing
    <2>2. Missing(c)' = n.parts
      BY <1>11, <1>12 DEF Missing
    <2> SUFFICES ASSUME NEW d \in Callers, NEW q \in call'[d].parts \ Missing(d)'
                 PROVE  call'[d].trip[q].at = "ok"
      BY DEF WholeInv
    <2>3. CASE d = c
      BY <2>2, <2>3, <1>12
    <2>4. CASE d # c
      BY <2>1, <2>4, <1>12 DEF WholeInv
    <2> QED BY <2>3, <2>4
  <1>15. LoopInv'
    <2>1. lock = c
      BY <1>1 DEF LoopInv
    <2>2. \A d \in Callers \ {c} : call'[d].stage # "loop"
      BY <2>1, <1>12 DEF LoopInv
    <2>3. ASSUME NEW q \in n.parts \ n.before, pumps'[<<n.topic, q>>] # NoPump,
                 NEW d \in Callers \ {c}, NEW o \in Partitions
          PROVE  call'[d].trip[o].pump # pumps'[<<n.topic, q>>]
      <3>1. <<n.topic, q>> \in Keys
        BY <1>1, <1>11 DEF Calls, Keys
      <3>2. call'[d].trip[o] = call[d].trip[o] /\ call[d].trip[o].pump \in 0 .. spawned
        BY <1>12 DEF CallTypes, Calls, Trips
      <3>3. CASE pumps'[<<n.topic, q>>] = spawned + 1
        BY <3>2, <3>3, <1>7
      <3>4. CASE pumps'[<<n.topic, q>>] = pumps[<<n.topic, q>>]
        BY <2>3, <3>2, <3>4, <1>1, <1>11 DEF LoopInv
      <3> QED BY <2>3, <3>1, <3>3, <3>4, <1>5
    <2> QED BY <2>1, <2>2, <2>3, <1>1, <1>12 DEF LoopInv
  <1> QED BY <1>5, <1>12, <1>13, <1>14, <1>15

\* Rolling back a topic subscribe: what goes was made for this call alone, and
\* is told to stop.
LEMMA TopicRefusedKeeps ==
    ASSUME IInv, NEW c \in Callers, TopicRefused(c)
    PROVE  IInv' /\ \A i \in stopping' \ stopping : Users(i) \subseteq {c}
  <1> USE DEF IInv, OrphanInv, TypeInv
  <1>1. /\ call[c] \in Calls /\ call[c].stage = "loop" /\ call[c].left \subseteq Partitions
        /\ lock' = NoCaller /\ call' = [call EXCEPT ![c] = NoCall("failed")]
        /\ UNCHANGED <<source, shutDown, spawned, keyOf, alive>>
    BY DEF TopicRefused, CallTypes, Calls, Fails
  <1>2. PICK p \in call[c].left : \E r \in Acquire(<<call[c].topic, p>>) :
          /\ ~r.ok /\ topics' = r.topics
          /\ pumps' = [m \in Keys |-> IF m \in Released(c, r.pumps) THEN NoPump
                                      ELSE r.pumps[m]]
          /\ StopAll({r.pumps[m] : m \in Released(c, r.pumps)})
    BY DEF TopicRefused
  <1> DEFINE k == <<call[c].topic, p>>
  <1>3. k \in Keys /\ k[1] \in Topics
    BY <1>1 DEF Calls, Keys
  <1>4. PICK r \in Acquire(k) :
          /\ ~r.ok /\ topics' = r.topics
          /\ pumps' = [m \in Keys |-> IF m \in Released(c, r.pumps) THEN NoPump
                                      ELSE r.pumps[m]]
          /\ StopAll({r.pumps[m] : m \in Released(c, r.pumps)})
    BY <1>2
  <1> HIDE DEF k
  <1>5. r.topics \in {topics, Lists(k[1])} /\ r.pumps \in {pumps, Reaped}
    BY <1>3, <1>4, AcquireFacts
  <1>6. \A m \in Keys : \/ r.pumps[m] = pumps[m]
                        \/ r.pumps[m] = NoPump /\ pumps[m] \notin alive
    BY <1>5 DEF Reaped
  <1>7. \A m \in Keys : pumps'[m] \in {pumps[m], NoPump}
    BY <1>4, <1>6
  <1>8. HubTypes'
    <2>1. /\ DOMAIN topics' \subseteq Topics
          /\ \A t \in DOMAIN topics' : topics'[t] \subseteq source'[t]
      BY <1>1, <1>3, <1>4, <1>5, ListsFacts DEF HubTypes
    <2>2. pumps' \in [Keys -> 0 .. spawned]
      BY <1>4, <1>6 DEF HubTypes, NoPump
    <2> QED BY <2>1, <2>2, <1>1 DEF HubTypes
  <1>9. EntryInv'
    BY <1>1, <1>7 DEF EntryInv
  <1>10. NoOrphanPump'
    <2>1. \A i \in alive \ stopping : keyOf[i] \in Keys /\ r.pumps[keyOf[i]] = i
      BY <1>6, AliveFacts DEF NoOrphanPump
    <2>2. \A i \in alive \ stopping : keyOf[i] \in Released(c, r.pumps) => i \in stopping'
      BY <1>4, <2>1 DEF StopAll
    <2>3. stopping \subseteq stopping'
      BY <1>4 DEF StopAll
    <2>4. \A i \in alive \ stopping' : pumps'[keyOf[i]] = i
      BY <2>1, <2>2, <2>3, <1>4
    <2> QED BY <2>3, <2>4, <1>1 DEF NoOrphanPump
  <1>11. lock = c
    BY <1>1 DEF LoopInv
  <1>12. CallTypes' /\ TripInv' /\ WholeInv' /\ LoopInv'
    BY <1>1, <1>7, <1>11, EndsKeeps
  <1>13. ASSUME NEW i \in stopping' \ stopping
         PROVE  Users(i) \subseteq {c}
    <2>1. PICK m \in Released(c, r.pumps) : i = r.pumps[m]
      BY <1>4 DEF StopAll
    <2>2. /\ m \in Keys /\ r.pumps[m] # NoPump /\ m[1] = call[c].topic
          /\ m[2] \in call[c].parts \ call[c].before
      BY <2>1 DEF Released, Entries
    <2>3. i = pumps[m] /\ m = <<call[c].topic, m[2]>> /\ i # NoPump
      BY <2>1, <2>2, <1>6 DEF Keys
    <2>4. \A d \in Callers \ {c}, q \in Partitions : call[d].trip[q].pump # i
      BY <2>2, <2>3, <1>1 DEF LoopInv
    <2> QED BY <2>4 DEF Users
  <1> QED BY <1>8, <1>9, <1>10, <1>12, <1>13

-----------------------------------------------------------------------------
LEMMA NextKeeps == IInv /\ [Next]_vars => IInv'
  <1> SUFFICES ASSUME IInv, [Next]_vars PROVE IInv' OBVIOUS
  <1>1. CASE UNCHANGED vars
    BY <1>1 DEF vars, hubVars, pumpVars, IInv, OrphanInv, TypeInv, HubTypes, CallTypes, Calls,
                Trips, TripInv, EntryInv, NoOrphanPump, WholeInv, Missing, LoopInv
  <1>2. ASSUME NEW c \in Callers, Begin(c) PROVE IInv'
    BY <1>2, TopicLookupKeeps, SubscribeKeeps DEF Begin
  <1>3. ASSUME NEW c \in Callers, CallStep(c) PROVE IInv'
    <2>1. \A p \in Partitions : Send(c, p) => IInv'
      BY SendKeeps
    <2>2. SingleGivesUp(c) => IInv'
      <3>1. call[c].part \in Partitions
        BY DEF IInv, OrphanInv, TypeInv, CallTypes, Calls
      <3> QED BY <3>1, GivesUpKeeps DEF SingleGivesUp
    <2>3. TopicGivesUp(c) => IInv'
      <3>1. call[c].left \subseteq Partitions
        BY DEF IInv, OrphanInv, TypeInv, CallTypes, Calls
      <3> QED BY <3>1, GivesUpKeeps DEF TopicGivesUp
    <2> QED BY <1>3, <2>1, <2>2, <2>3, SucceedsKeeps, RespawnKeeps, TopicLockKeeps,
               TopicAcquireKeeps, TopicRefusedKeeps, TopicUnlockKeeps, TopicCollectKeeps,
               TopicJoinedKeeps, TopicRetryKeeps DEF CallStep
  <1>4. ASSUME NEW c \in Callers, NEW p \in Partitions, PumpAnswers(c, p) PROVE IInv'
    BY <1>4, PumpAnswersKeeps
  <1>5. ASSUME NEW i \in PumpIds, PumpStops(i) \/ PumpExits(i) PROVE IInv'
    BY <1>5, DiesKeeps DEF PumpStops, PumpExits
  <1> QED BY <1>1, <1>2, <1>3, <1>4, <1>5, DropKeeps, ShutdownKeeps, ReapKeeps,
             ForgetTopicsKeeps, RepartitionKeeps DEF Next

\* The invariant holds in every state of the hub.
LEMMA Invariant == Spec => []IInv
  <1> QED BY InitHolds, NextKeeps, PTL DEF Spec

\* No running pump is orphaned, for any number of topics, partitions, callers
\* and pumps: what acquire, respawn, forget and release_new (hub.rs) do under
\* the mutex, around round trips made outside it, never drops or overwrites the
\* entry of a pump that runs and was not told to stop, and no pump runs for a
\* partition that does not exist or a topic the gate refuses.
THEOREM OrphanTheorem == Spec => []NoOrphanPump
  <1>1. IInv => NoOrphanPump
    BY DEF IInv, OrphanInv
  <1> QED BY <1>1, Invariant, PTL

\* subscribe_topic (hub.rs) returns Ok only with a subscription on every
\* partition it listed, whichever pumps closed under it and were retried.
THEOREM WholeTheorem == Spec => []TopicIsWhole
  <1>1. IInv => TopicIsWhole
    BY DEF IInv, WholeInv, TopicIsWhole, Missing
  <1> QED BY <1>1, Invariant, PTL

\* Only Hub::shutdown stops a pump that another call uses: release_new stops
\* what its own call put in the map while it held the mutex, and the clean-up
\* after a failed subscribe stops a pump that is dead already.
THEOREM StopsTheorem == Spec => StopsOnlyItsOwn
  <1> DEFINE Own == ~shutDown' => \A i \in stopping' \ stopping : Cardinality(Users(i)) <= 1
  <1>1. IInv /\ [Next]_vars => [Own]_vars
    <2> SUFFICES ASSUME IInv, Next, ~shutDown', NEW i \in stopping' \ stopping
                 PROVE  Cardinality(Users(i)) <= 1
      BY DEF vars, hubVars, pumpVars
    <2>1. \A c \in Callers : ~Begin(c)
      BY DEF Begin, TopicLookup, Subscribe, pumpVars
    <2>2. PICK c \in Callers : TopicRefused(c)
      <3>1. \A c \in Callers, p \in Partitions : ~GivesUp(c, p)
        BY GivesUpKeeps
      <3>2. \A c \in Callers : ~SingleGivesUp(c) /\ ~TopicGivesUp(c)
        <4> TAKE c \in Callers
        <4>1. call[c].part \in Partitions /\ call[c].left \subseteq Partitions
          BY DEF IInv, OrphanInv, TypeInv, CallTypes, Calls
        <4> QED BY <3>1, <4>1 DEF SingleGivesUp, TopicGivesUp
      <3>3. \A c \in Callers : CallStep(c) => TopicRefused(c)
        BY <3>2 DEF CallStep, Send, Succeeds, Respawn, TopicLock, TopicAcquire, TopicUnlock,
                    TopicCollect, TopicJoined, TopicRetry, pumpVars
      <3>4. \A c \in Callers : ~Drop(c) /\ \A p \in Partitions : ~PumpAnswers(c, p)
        BY DEF Drop, PumpAnswers, pumpVars
      <3>5. \A j \in PumpIds : ~PumpStops(j) /\ ~PumpExits(j)
        BY DEF PumpStops, PumpExits, Dies
      <3>6. ~Shutdown /\ ~ReapExitedPumps /\ ~ForgetTopics /\ \A t \in Topics : ~Repartition(t)
        BY DEF Shutdown, ReapExitedPumps, ForgetTopics, Repartition, pumpVars
      <3> QED BY <2>1, <3>3, <3>4, <3>5, <3>6 DEF Next
    <2>3. Users(i) \subseteq {c}
      BY <2>2, TopicRefusedKeeps
    <2>4. IsFiniteSet({c}) /\ Cardinality({c}) = 1
      BY FS_Singleton
    <2>5. Cardinality(Users(i)) <= Cardinality({c})
      BY <2>3, <2>4, FS_Subset
    <2> QED BY <2>4, <2>5
  <1> QED BY <1>1, Invariant, PTL DEF Spec, StopsOnlyItsOwn
=============================================================================
