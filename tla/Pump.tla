-------------------------------- MODULE Pump --------------------------------
(***************************************************************************)
(* One partition pump of odradek-web-core (pump.rs): a single task that    *)
(* reads one partition of a record source and feeds any number of          *)
(* subscribers, each through a bounded queue of its own.                   *)
(*                                                                         *)
(* The task is split at every point where another task can act: the        *)
(* command channel, each source round trip and each single try_send, since *)
(* readers drain their queues on other threads while a run of events is    *)
(* being pushed.  What lies between two such points is one action.         *)
(*                                                                         *)
(* A position is the offset of the last record seen; None, the position    *)
(* before the whole log, is -1 and so sorts below every other one, as the  *)
(* derived order on Option<i64> makes it.  Subscriber n is the n-th whose  *)
(* Subscribe command the pump handled: the id Subscribers::add gives it.   *)
(***************************************************************************)
EXTENDS Integers, Sequences, FiniteSets

CONSTANTS
    MaxOffset,      \* bound: the log never holds an offset of MaxOffset or more
    MaxTrim,        \* bound: retention never removes an offset of MaxTrim or more
    MaxSubs,        \* bound: number of Subscribe commands ever handled
    Positions,      \* the positions a subscriber may ask for
    Filters,        \* the filters a subscriber may bring, each a set of offsets
    QueueCapacity,  \* PumpConfig::queue_capacity
    RingCapacity,   \* PumpConfig::ring_capacity
    MaxErrors,      \* PumpConfig::max_consecutive_errors
    BatchMax,       \* bound: offsets one source fetch may cross
    IdleShutdown,   \* whether PumpConfig::idle_shutdown is Some(_)
    Readers         \* the ids whose reader never stops reading

ASSUME PumpAssumption ==
    /\ MaxOffset \in Nat
    /\ MaxTrim \in Nat
    /\ MaxSubs \in Nat
    /\ Positions \subseteq -2 .. MaxOffset   \* Latest, Earliest, After(_)
    /\ Filters \subseteq SUBSET Nat
    /\ QueueCapacity \in Nat \ {0}   \* mpsc::channel panics on 0
    /\ RingCapacity \in Nat
    /\ MaxErrors \in Nat
    /\ BatchMax \in Nat \ {0}
    /\ IdleShutdown \in BOOLEAN
    /\ Readers \subseteq Nat

Ids == 0 .. MaxSubs - 1
Offsets == 0 .. MaxOffset - 1

None == -1             \* Option::None as a position
Unknown == -2          \* LiveEdge::Unknown
LatestP == -2          \* Position::Latest; Position::Earliest is None
ErrItem == -1          \* a terminal Err(StreamError) in a subscriber queue

Larger(a, b) == IF a >= b THEN a ELSE b

VARIABLES
    \* the partition's log, as the source serves it (external)
    hw,         \* high watermark: the next offset to be written
    visible,    \* offsets that yield an event (the rest are gaps, markers)
    logStart,   \* retention horizon: offsets below are gone
    \* the command channel
    commands,   \* Subscribe and Shutdown commands not yet received
    handle,     \* whether any PumpHandle is left
    \* the locals of run_pump
    pc,         \* where the task is suspended
    edge,       \* live_edge: Unknown, or the position the live path has read
    ring, floor,\* Ring::events (as offsets) and Ring::floor
    errors,     \* consecutive_errors
    list,       \* ids in Subscribers::list
    nextId,     \* Subscribers::next_id
    rotor,      \* Subscribers::rotor
    \* the batch in hand, while a run of it is being pushed
    batch,      \* events still to push
    nextAfter,  \* SourceBatch::next_after
    todo,       \* subscribers advance_from_ring has still to visit
    turn,       \* the subscriber fetch_catch_up is working for
    \* SubState, by id
    mode, cursor, closed, failures, filter,
    \* each subscriber's channel
    queue,      \* items sent and not yet received
    gone,       \* the receiver has been dropped
    errTask,    \* the task fail_one or fail_subs spawned to send the error
    \* history, read by no action
    origin,     \* the position the live path started reading after
    base,       \* the position the subscriber's stream starts after
    delivered,  \* offsets ever accepted by the subscriber's queue
    resume,     \* the position the subscriber asked for
    passedBy    \* subscribers given a fetch while this one kept waiting

logVars == <<hw, visible, logStart>>
chanVars == <<commands, handle>>
ringVars == <<ring, floor>>
runVars == <<batch, nextAfter, todo, turn>>
stateVars == <<mode, cursor, closed, failures, filter>>
queueVars == <<queue, gone, errTask>>
historyVars == <<origin, base, delivered, resume, passedBy>>
subsVars == <<list, nextId, rotor>>
taskVars == <<pc, edge, ringVars, errors, subsVars, runVars>>
vars == <<logVars, chanVars, taskVars, stateVars, queueVars, historyVars>>

-----------------------------------------------------------------------------
Init ==
    /\ hw \in 0 .. MaxOffset
    /\ visible \in SUBSET (0 .. hw - 1)
    /\ logStart \in {l \in 0 .. hw : l <= MaxTrim}
    /\ commands = <<>>
    /\ handle = TRUE
    /\ pc = "top"
    /\ edge = Unknown
    /\ ring = {} /\ floor = None
    /\ errors = 0
    /\ list = {} /\ nextId = 0 /\ rotor = 0
    /\ batch = {} /\ nextAfter = None /\ todo = {} /\ turn = 0
    /\ mode = [s \in Ids |-> "Live"]
    /\ cursor = [s \in Ids |-> None]
    /\ closed = [s \in Ids |-> FALSE]
    /\ failures = [s \in Ids |-> 0]
    /\ filter = [s \in Ids |-> {}]
    /\ queue = [s \in Ids |-> <<>>]
    /\ gone = [s \in Ids |-> FALSE]
    /\ errTask = [s \in Ids |-> "none"]
    /\ origin = None
    /\ base = [s \in Ids |-> None]
    /\ delivered = [s \in Ids |-> {}]
    /\ resume = [s \in Ids |-> None]
    /\ passedBy = [s \in Ids |-> {}]

-----------------------------------------------------------------------------
(* The log, and what a source answers from it.                             *)

\* A producer's record, or one that yields no event (a marker), is written.
Produce(seen) ==
    /\ hw < MaxOffset
    /\ hw' = hw + 1
    /\ visible' = IF seen THEN visible \cup {hw} ELSE visible
    /\ UNCHANGED <<logStart, chanVars, taskVars, stateVars, queueVars,
                   historyVars>>

\* Retention moves the start of the log.
Trim ==
    /\ logStart < hw /\ logStart < MaxTrim
    /\ logStart' = logStart + 1
    /\ UNCHANGED <<hw, visible, chanVars, taskVars, stateVars, queueVars,
                   historyVars>>

\* KafkaSource::fetch turns an exclusive position into the offset to fetch.
FetchFrom(after) == IF after = None THEN logStart ELSE after + 1

\* The broker refuses an offset outside the log.
Servable(after) == FetchFrom(after) \in logStart .. hw

\* Where a fetch after this position may end: at the end of the log it
\* consumes nothing, otherwise it crosses some offsets, visible or not.
FetchEnds(after) ==
    IF FetchFrom(after) = hw
    THEN {None}
    ELSE {e \in FetchFrom(after) .. hw - 1 : e < FetchFrom(after) + BatchMax}

\* The events a fetch after this position and ending there brings.
Fetched(after, end) == {o \in visible : FetchFrom(after) <= o /\ o <= end}

-----------------------------------------------------------------------------
(* The other tasks: holders of the handle, readers, error senders.         *)

Command(kind, position, f) ==
    [kind |-> kind, position |-> position, filter |-> f]

Send(command) ==
    /\ handle
    /\ pc # "done"
    /\ commands' = Append(commands, command)
    /\ UNCHANGED <<logVars, handle, taskVars, stateVars, queueVars, historyVars>>

\* PumpHandle::subscribe, up to its await on the reply.
Subscribe(position, f) ==
    /\ Len(commands) + nextId < MaxSubs
    /\ Send(Command("Subscribe", position, f))

\* PumpHandle::shutdown.
Shutdown ==
    /\ \A i \in DOMAIN commands : commands[i].kind # "Shutdown"
    /\ Send(Command("Shutdown", None, {}))

\* The last PumpHandle is dropped.
DropHandle ==
    /\ handle
    /\ handle' = FALSE
    /\ UNCHANGED <<logVars, commands, taskVars, stateVars, queueVars,
                   historyVars>>

\* Subscription::recv on a stream that has an item.
Recv(s) ==
    /\ ~gone[s]
    /\ queue[s] # <<>>
    /\ queue' = [queue EXCEPT ![s] = Tail(queue[s])]
    /\ UNCHANGED <<logVars, chanVars, taskVars, stateVars, gone, errTask,
                   historyVars>>

\* The Subscription is dropped, with whatever its queue still holds.
DropReceiver(s) ==
    /\ s < nextId
    /\ ~gone[s]
    /\ gone' = [gone EXCEPT ![s] = TRUE]
    /\ queue' = [queue EXCEPT ![s] = <<>>]
    /\ UNCHANGED <<logVars, chanVars, taskVars, stateVars, errTask, historyVars>>

Room(s) == Len(queue[s]) < QueueCapacity

\* Mutant: the error is tried once, as try_send would, and a full queue loses it.
SendErrorTriesOnce(s) ==
    /\ errTask[s] = "pending"
    /\ errTask' = [errTask EXCEPT ![s] = "done"]
    /\ queue' = IF gone[s] \/ ~Room(s) THEN queue
                ELSE [queue EXCEPT ![s] = Append(queue[s], ErrItem)]
    /\ UNCHANGED <<logVars, chanVars, taskVars, stateVars, gone, historyVars>>

\* The task fail_one or fail_subs spawned: it waits for room, then sends the
\* one terminal error; a dropped receiver ends the wait.
SendError(s) ==
    /\ errTask[s] = "pending"
    /\ gone[s] \/ Room(s)
    /\ errTask' = [errTask EXCEPT ![s] = "done"]
    /\ queue' = IF gone[s] THEN queue
                ELSE [queue EXCEPT ![s] = Append(queue[s], ErrItem)]
    /\ UNCHANGED <<logVars, chanVars, taskVars, stateVars, gone, historyVars>>

-----------------------------------------------------------------------------
(* The pump task: leaving the loop.                                        *)

\* The locals of a source call or of a run of events go out of scope.
EndRun == batch' = {} /\ nextAfter' = None /\ todo' = {} /\ turn' = 0

\* run_pump returns: the command receiver and every sender are dropped.
Return ==
    /\ pc' = "done"
    /\ list' = {}
    /\ commands' = <<>>
    /\ EndRun
    /\ UNCHANGED <<logVars, handle, edge, ringVars, nextId, rotor, stateVars,
                   queue, gone, historyVars>>

ReturnCleanly == Return /\ UNCHANGED <<errors, errTask>>

\* fail_subs(subs.take(), e) and return: every stream still open gets a task
\* that will send it the error.
FailSubs ==
    /\ Return
    /\ errTask' = [s \in Ids |-> IF s \in list /\ ~closed[s]
                                 THEN "pending" ELSE errTask[s]]

-----------------------------------------------------------------------------
(* Commands.                                                               *)

\* Mutant: the id is read after it has been incremented.
HandleSubscribeLateId(c) ==
    /\ nextId' = nextId + 1
    /\ list' = list \cup {nextId'}
    /\ mode' = [mode EXCEPT ![nextId] =
                    IF c.position = LatestP THEN "Live" ELSE "CatchingUp"]
    /\ cursor' = [cursor EXCEPT ![nextId] =
                    IF c.position = LatestP THEN None ELSE c.position]
    /\ UNCHANGED <<closed, failures, filter, historyVars>>

\* handle_command and Subscribers::add.  The stream of a Latest subscriber
\* starts at the live edge, once that is known.
HandleSubscribe(c) ==
    /\ nextId' = nextId + 1
    /\ list' = list \cup {nextId}
    /\ mode' = [mode EXCEPT ![nextId] =
                    IF c.position = LatestP THEN "Live" ELSE "CatchingUp"]
    /\ cursor' = [cursor EXCEPT ![nextId] =
                    IF c.position = LatestP THEN None ELSE c.position]
    /\ filter' = [filter EXCEPT ![nextId] = c.filter]
    /\ base' = [base EXCEPT ![nextId] =
                    IF c.position # LatestP THEN c.position
                    ELSE IF edge = Unknown THEN None ELSE edge]
    /\ resume' = [resume EXCEPT ![nextId] = c.position]
    /\ UNCHANGED <<closed, failures, origin, delivered, passedBy>>

\* A command is received: in the idle wait, or while draining the channel.
ReceiveCommand ==
    /\ pc \in {"idle", "drain"}
    /\ commands # <<>>
    /\ IF Head(commands).kind = "Shutdown"
       THEN ReturnCleanly
       ELSE /\ HandleSubscribe(Head(commands))
            /\ commands' = Tail(commands)
            /\ pc' = "drain"
            /\ UNCHANGED <<logVars, handle, edge, ringVars, errors, rotor,
                           runVars, queueVars>>

\* Mutant: only streams found closed by a delivery are dropped.
RetainClosedOnly ==
    /\ pc = "top"
    /\ list' = {s \in list : ~closed[s]}
    /\ pc' = IF list' = {} THEN "idle" ELSE "drain"
    /\ UNCHANGED <<logVars, chanVars, edge, ringVars, errors, nextId, rotor,
                   runVars, stateVars, queueVars, historyVars>>

\* Subscribers::retain_live, at the top of every iteration.
RetainLive ==
    /\ pc = "top"
    /\ list' = {s \in list : ~closed[s] /\ ~gone[s]}
    /\ pc' = IF list' = {} THEN "idle" ELSE "drain"
    /\ UNCHANGED <<logVars, chanVars, edge, ringVars, errors, nextId, rotor,
                   runVars, stateVars, queueVars, historyVars>>

\* Nobody listens and nobody asks for idle_shutdown: a command already in the
\* channel wins over the timer.
IdleTimeout ==
    /\ pc = "idle"
    /\ IdleShutdown
    /\ commands = <<>>
    /\ ReturnCleanly

\* Nobody listens and no handle is left to subscribe with.
HandlesGone ==
    /\ pc = "idle"
    /\ commands = <<>>
    /\ ~handle
    /\ ReturnCleanly

\* try_recv finds the channel empty (or disconnected): on to the source.
CommandsDrained ==
    /\ pc = "drain"
    /\ commands = <<>>
    /\ pc' = IF edge = Unknown THEN "liveStart" ELSE "liveFetch"
    /\ UNCHANGED <<logVars, chanVars, edge, ringVars, errors, subsVars, runVars,
                   stateVars, queueVars, historyVars>>

-----------------------------------------------------------------------------
(* The live path.                                                          *)

\* source.live_start answers: live begins after the newest record.
LiveStartOk ==
    /\ pc = "liveStart"
    /\ edge' = hw - 1
    /\ floor' = hw - 1
    /\ origin' = hw - 1
    /\ base' = [s \in Ids |-> IF s \in list /\ mode[s] = "Live"
                              THEN hw - 1 ELSE base[s]]
    /\ pc' = "liveFetch"
    /\ UNCHANGED <<logVars, chanVars, ring, errors, subsVars, runVars,
                   stateVars, queueVars, delivered, resume, passedBy>>

\* A source call of the live path fails; `next' is where the loop goes on
\* after the back-off when the error budget is not yet spent.
LivePathFails(permanent, next) ==
    /\ errors' = errors + 1
    /\ IF permanent \/ errors' > MaxErrors
       THEN FailSubs
       ELSE /\ pc' = next
            /\ todo' = IF next = "ring" THEN list ELSE {}
            /\ UNCHANGED <<logVars, chanVars, edge, ringVars, subsVars, batch,
                           nextAfter, turn, stateVars, queueVars, historyVars>>

LiveStartFails(permanent) ==
    /\ pc = "liveStart"
    /\ LivePathFails(permanent, "top")

\* The live fetch answers; its events are then pushed one by one.  A live
\* path that has read nothing yet starts at whatever the log still holds.
LiveFetchOk ==
    /\ pc = "liveFetch"
    /\ Servable(edge)
    /\ \E end \in FetchEnds(edge) :
          /\ nextAfter' = end
          /\ batch' = Fetched(edge, end)
    /\ errors' = 0
    /\ pc' = "pushLive"
    /\ origin' = IF edge = None THEN logStart - 1 ELSE origin
    /\ base' = [s \in Ids |-> IF edge = None /\ s \in list /\ mode[s] = "Live"
                              THEN logStart - 1 ELSE base[s]]
    /\ UNCHANGED <<logVars, chanVars, edge, ringVars, subsVars, todo, turn,
                   stateVars, queueVars, delivered, resume, passedBy>>

LiveFetchFails(permanent) ==
    /\ pc = "liveFetch"
    /\ LivePathFails(permanent, "ring")

\* Who is shown an event by push_live, and what comes of it.
Shown == {s \in list : mode[s] = "Live" /\ ~closed[s]}
Declines(e) == {s \in Shown : e \notin filter[s]}
Accepts(e) == {s \in Shown : e \in filter[s] /\ ~gone[s] /\ Room(s)}
Stalls(e) == {s \in Shown : e \in filter[s] /\ ~gone[s] /\ ~Room(s)}
Hangs(e) == {s \in Shown : e \in filter[s] /\ gone[s]}

\* Ring::push: the newest event in, the oldest out when the window is full.
RingPush(e) ==
    LET window == ring \cup {e}
    IN  IF Cardinality(window) > RingCapacity
        THEN \E oldest \in window :
                /\ \A o \in window : oldest <= o
                /\ ring' = window \ {oldest}
                /\ floor' = oldest
        ELSE /\ ring' = window
             /\ floor' = floor

\* SubState::push_live for every subscriber.
PushLiveAll(e) ==
    /\ cursor' = [s \in Ids |-> IF s \in Declines(e) \cup Accepts(e)
                                THEN e ELSE cursor[s]]
    /\ mode' = [s \in Ids |-> IF s \in Stalls(e) THEN "CatchingUp" ELSE mode[s]]
    /\ closed' = [s \in Ids |-> closed[s] \/ s \in Hangs(e)]
    /\ queue' = [s \in Ids |-> IF s \in Accepts(e) THEN Append(queue[s], e)
                               ELSE queue[s]]
    /\ delivered' = [s \in Ids |-> IF s \in Accepts(e)
                                   THEN delivered[s] \cup {e} ELSE delivered[s]]

\* Mutant: a full queue is awaited, as send would, instead of refused.
PushLiveAwaits ==
    /\ pc = "pushLive"
    /\ \E e \in batch :
          /\ \A o \in batch : e <= o
          /\ Stalls(e) = {}
          /\ PushLiveAll(e)
          /\ RingPush(e)
          /\ batch' = batch \ {e}
    /\ UNCHANGED <<logVars, chanVars, pc, edge, errors, subsVars, nextAfter,
                   todo, turn, failures, filter, gone, errTask, origin, base,
                   resume, passedBy>>

\* One event of the live batch: to every live subscriber, then to the ring.
PushLive ==
    /\ pc = "pushLive"
    /\ \E e \in batch :
          /\ \A o \in batch : e <= o
          /\ PushLiveAll(e)
          /\ RingPush(e)
          /\ batch' = batch \ {e}
    /\ UNCHANGED <<logVars, chanVars, pc, edge, errors, subsVars, nextAfter,
                   todo, turn, failures, filter, gone, errTask, origin, base,
                   resume, passedBy>>

\* Mutant: a fetch that consumed nothing takes the edge back.
LiveBatchDoneNoMax ==
    /\ pc = "pushLive"
    /\ batch = {}
    /\ edge' = nextAfter
    /\ pc' = "ring"
    /\ todo' = list
    /\ nextAfter' = None
    /\ UNCHANGED <<logVars, chanVars, ringVars, errors, subsVars, batch, turn,
                   stateVars, queueVars, historyVars>>

\* The batch is through: the edge moves, and catch-up begins.
LiveBatchDone ==
    /\ pc = "pushLive"
    /\ batch = {}
    /\ edge' = Larger(nextAfter, edge)
    /\ pc' = "ring"
    /\ todo' = list
    /\ nextAfter' = None
    /\ UNCHANGED <<logVars, chanVars, ringVars, errors, subsVars, batch, turn,
                   stateVars, queueVars, historyVars>>

-----------------------------------------------------------------------------
(* Catch-up.                                                               *)

\* Mutant: the cursor moves before the outcome of try_send is known.
PushRunCursorFirst(s, e) ==
    LET full == e \in filter[s] /\ (gone[s] \/ ~Room(s))
        taken == e \in filter[s] /\ ~full
    IN  /\ cursor' = [cursor EXCEPT ![s] = e]
        /\ closed' = [closed EXCEPT ![s] = closed[s] \/ (full /\ gone[s])]
        /\ queue' = IF taken THEN [queue EXCEPT ![s] = Append(queue[s], e)]
                    ELSE queue
        /\ delivered' = IF taken
                        THEN [delivered EXCEPT ![s] = delivered[s] \cup {e}]
                        ELSE delivered

\* push_run, one event: try_send refuses when the queue is full or the
\* receiver gone, and the cursor moves with every event that is not refused.
Refused(s, e) == e \in filter[s] /\ (gone[s] \/ ~Room(s))
PushRun(s, e) ==
    LET taken == e \in filter[s] /\ ~Refused(s, e)
    IN  /\ cursor' = IF Refused(s, e) THEN cursor ELSE [cursor EXCEPT ![s] = e]
        /\ closed' = [closed EXCEPT ![s] = closed[s] \/ (Refused(s, e) /\ gone[s])]
        /\ queue' = IF taken THEN [queue EXCEPT ![s] = Append(queue[s], e)]
                    ELSE queue
        /\ delivered' = IF taken
                        THEN [delivered EXCEPT ![s] = delivered[s] \cup {e}]
                        ELSE delivered

\* Mutants: a cursor taken for the next offset to see, not the last one seen.
CoversNextOffset(position) == position + 1 >= floor
RingFrom(position) == {o \in ring : o >= position}

\* Ring::covers and Ring::after.
Covers(position) == position >= floor
RingAfter(position) == {o \in ring : o > position}

\* advance_from_ring: whether the ring can take this subscriber on.
FromRing(s) ==
    /\ mode[s] = "CatchingUp" /\ ~closed[s]
    /\ cursor[s] < edge
    /\ Covers(cursor[s])

\* Where the stream of a subscriber the ring takes on really starts: the ring
\* has nothing from before the live path's own start, whatever its floor says.
RingStart(s) ==
    IF FromRing(s) /\ cursor[s] < origin THEN origin ELSE base[s]

\* advance_from_ring, one event of the run.
RingServes ==
    /\ pc = "ring"
    /\ \E s \in todo :
          /\ \A t \in todo : s <= t
          /\ FromRing(s)
          /\ \E e \in RingAfter(cursor[s]) :
                /\ \A o \in RingAfter(cursor[s]) : e <= o
                /\ PushRun(s, e)
                /\ todo' = IF Refused(s, e) THEN todo \ {s} ELSE todo
          /\ base' = [base EXCEPT ![s] = RingStart(s)]
    /\ UNCHANGED <<logVars, chanVars, pc, edge, ringVars, errors, subsVars,
                   batch, nextAfter, turn, mode, failures, filter, gone,
                   errTask, origin, resume, passedBy>>

\* advance_from_ring is done with this subscriber: it goes live when it has
\* reached the edge or been given the rest of the ring.
ReachesEdge(s) ==
    /\ mode[s] = "CatchingUp" /\ ~closed[s]
    /\ cursor[s] = edge \/ FromRing(s)

RingDone ==
    /\ pc = "ring"
    /\ \E s \in todo :
          /\ \A t \in todo : s <= t
          /\ ~(FromRing(s) /\ RingAfter(cursor[s]) # {})
          /\ mode' = IF ReachesEdge(s) THEN [mode EXCEPT ![s] = "Live"] ELSE mode
          /\ base' = [base EXCEPT ![s] = RingStart(s)]
          /\ todo' = todo \ {s}
    /\ UNCHANGED <<logVars, chanVars, pc, edge, ringVars, errors, subsVars,
                   batch, nextAfter, turn, cursor, closed, failures, filter,
                   queueVars, origin, delivered, resume, passedBy>>

\* SubState::needs_fetch.
NeedsFetch(s) ==
    /\ ~closed[s]
    /\ Room(s)
    /\ mode[s] = "CatchingUp"
    /\ cursor[s] < edge
    /\ ~Covers(cursor[s])

\* Mutant: the lowest id is always served first.
LowestFirst(s, t) == s <= t

\* The order of Subscribers::next_fetch: ids from the rotor on come first.
InTurn(s, t) == IF (s < rotor) = (t < rotor) THEN s <= t ELSE t < rotor

\* Subscribers::next_fetch: at most one laggard is given a fetch.
NextFetch ==
    /\ pc = "ring"
    /\ todo = {}
    /\ LET waiting == {s \in list : NeedsFetch(s)}
       IN  \/ /\ waiting = {}
              /\ pc' = "top"
              /\ passedBy' = [s \in Ids |-> {}]
              /\ UNCHANGED <<rotor, turn>>
           \/ \E s \in waiting :
              /\ \A t \in waiting : InTurn(s, t)
              /\ rotor' = s + 1
              /\ turn' = s
              /\ pc' = "catchUp"
              /\ passedBy' = [t \in Ids |-> IF t \in waiting \ {s}
                                            THEN passedBy[t] \cup {s} ELSE {}]
    /\ UNCHANGED <<logVars, chanVars, edge, ringVars, errors, list, nextId,
                   batch, nextAfter, todo, stateVars, queueVars, origin, base,
                   delivered, resume>>

\* fetch_catch_up: the source answers.
CatchUpOk ==
    /\ pc = "catchUp"
    /\ Servable(cursor[turn])
    /\ \E end \in FetchEnds(cursor[turn]) :
          /\ nextAfter' = end
          /\ batch' = Fetched(cursor[turn], end)
    /\ failures' = [failures EXCEPT ![turn] = 0]
    /\ base' = [base EXCEPT ![turn] = IF cursor[turn] = None THEN logStart - 1
                                      ELSE base[turn]]
    /\ pc' = "pushRun"
    /\ UNCHANGED <<logVars, chanVars, edge, ringVars, errors, subsVars, todo,
                   turn, mode, cursor, closed, filter, queueVars, origin,
                   delivered, resume, passedBy>>

\* fetch_catch_up, one event of the run; a refused one ends it.
CatchUpPush ==
    /\ pc = "pushRun"
    /\ \E e \in batch :
          /\ \A o \in batch : e <= o
          /\ PushRun(turn, e)
          /\ IF Refused(turn, e)
             THEN pc' = "top" /\ EndRun
             ELSE batch' = batch \ {e} /\ UNCHANGED <<pc, nextAfter, todo, turn>>
    /\ UNCHANGED <<logVars, chanVars, edge, ringVars, errors, subsVars, mode,
                   failures, filter, gone, errTask, origin, base, resume,
                   passedBy>>

\* The run was delivered: the cursor crosses what yielded no event too.
CatchUpDone ==
    /\ pc = "pushRun"
    /\ batch = {}
    /\ cursor' = [cursor EXCEPT ![turn] = Larger(cursor[turn], nextAfter)]
    /\ pc' = "top"
    /\ EndRun
    /\ UNCHANGED <<logVars, chanVars, edge, ringVars, errors, subsVars, mode,
                   closed, failures, filter, queueVars, historyVars>>

\* A permanent error ends the pump.
CatchUpFailsForGood ==
    /\ pc = "catchUp"
    /\ FailSubs
    /\ UNCHANGED errors

\* Mutant: fail_one leaves the subscriber open.
CatchUpFailsLeavesOpen ==
    /\ pc = "catchUp"
    /\ failures' = [failures EXCEPT ![turn] = failures[turn] + 1]
    /\ errTask' = IF failures[turn] + 1 > MaxErrors
                  THEN [errTask EXCEPT ![turn] = "pending"] ELSE errTask
    /\ pc' = "top"
    /\ EndRun
    /\ UNCHANGED <<logVars, chanVars, edge, ringVars, errors, subsVars, mode,
                   cursor, closed, filter, queue, gone, historyVars>>

\* A transient one counts against this subscriber alone: fail_one when its
\* budget is spent.
CatchUpFails ==
    /\ pc = "catchUp"
    /\ failures' = [failures EXCEPT ![turn] = failures[turn] + 1]
    /\ LET spent == failures[turn] + 1 > MaxErrors
       IN  /\ closed' = [closed EXCEPT ![turn] = spent]
           /\ errTask' = IF spent THEN [errTask EXCEPT ![turn] = "pending"]
                         ELSE errTask
    /\ pc' = "top"
    /\ EndRun
    /\ UNCHANGED <<logVars, chanVars, edge, ringVars, errors, subsVars, mode,
                   cursor, filter, queue, gone, historyVars>>

-----------------------------------------------------------------------------
PumpStep ==
    \/ RetainLive \/ ReceiveCommand \/ IdleTimeout \/ HandlesGone
    \/ CommandsDrained
    \/ LiveStartOk \/ \E permanent \in BOOLEAN : LiveStartFails(permanent)
    \/ LiveFetchOk \/ \E permanent \in BOOLEAN : LiveFetchFails(permanent)
    \/ PushLive \/ LiveBatchDone
    \/ RingServes \/ RingDone \/ NextFetch
    \/ CatchUpOk \/ CatchUpPush \/ CatchUpDone
    \/ CatchUpFails \/ CatchUpFailsForGood

LogStep == Trim \/ \E seen \in BOOLEAN : Produce(seen)

HandleStep ==
    \/ \E p \in Positions, f \in Filters : Subscribe(p, f)
    \/ Shutdown \/ DropHandle

ReaderStep == \E s \in Ids : Recv(s) \/ DropReceiver(s) \/ SendError(s)

Next == PumpStep \/ LogStep \/ HandleStep \/ ReaderStep

Spec == Init /\ [][Next]_vars

\* The runtime keeps polling the pump task and the tasks that send errors;
\* of the readers only some are known to keep reading.
Fairness ==
    /\ WF_vars(PumpStep)
    /\ \A s \in Ids : WF_vars(SendError(s))
    /\ \A s \in Ids \cap Readers : WF_vars(Recv(s))

FairSpec == Spec /\ Fairness

-----------------------------------------------------------------------------
(* What the pump keeps true.                                               *)

Commands == [kind : {"Subscribe", "Shutdown"}, position : {LatestP, None} \cup Nat,
             filter : SUBSET Nat]

LogType == hw \in Nat /\ logStart \in 0 .. hw /\ visible \subseteq 0 .. hw - 1
ChanType == commands \in Seq(Commands) /\ handle \in BOOLEAN
TaskType ==
    /\ pc \in {"top", "idle", "drain", "liveStart", "liveFetch", "pushLive",
               "ring", "catchUp", "pushRun", "done"}
    /\ edge \in Int /\ floor \in Int /\ ring \subseteq Nat
    /\ errors \in Nat
    /\ nextId \in 0 .. MaxSubs /\ rotor \in 0 .. MaxSubs /\ turn \in Nat
    /\ list \subseteq 0 .. nextId - 1
    /\ todo \subseteq list /\ (pc # "ring" => todo = {})
    /\ batch \subseteq Nat /\ nextAfter \in Int
StateType ==
    /\ mode \in [Ids -> {"Live", "CatchingUp"}]
    /\ cursor \in [Ids -> Int]
    /\ closed \in [Ids -> BOOLEAN]
    /\ failures \in [Ids -> Nat]
    /\ filter \in [Ids -> SUBSET Nat]
QueueType ==
    /\ queue \in [Ids -> Seq(Int)]
    /\ gone \in [Ids -> BOOLEAN]
    /\ errTask \in [Ids -> {"none", "pending", "done"}]
HistoryType ==
    /\ origin \in Int
    /\ base \in [Ids -> Int]
    /\ delivered \in [Ids -> SUBSET Nat]
    /\ resume \in [Ids -> Int]
    /\ passedBy \in [Ids -> SUBSET Nat]

\* The type invariant: run_pump's locals, the command channel and the
\* subscribers' queues, with the ranges of ids and what a phase leaves empty.
TypeOK ==
    LogType /\ ChanType /\ TaskType /\ StateType /\ QueueType /\ HistoryType

\* How far the live path has read, and what of that it has still to push.
Through == IF pc = "pushLive" THEN Larger(nextAfter, edge) ELSE edge
Pending == IF pc = "pushLive" THEN batch ELSE {}

\* The ring is exactly the events the live path has pushed that lie after
\* the floor: Ring::push moves the floor to whatever it evicts, so what
\* Ring::covers promises from the floor onward is really there.
RingComplete ==
    edge # Unknown =>
        ring = {o \in visible : /\ Larger(floor, origin) < o
                                /\ o <= Through
                                /\ o \notin Pending}

\* Whatever mix of live pushes, stalls, ring runs and catch-up fetches brought
\* a subscriber to its cursor, it was sent exactly the records its filter
\* matches between where its stream starts and that cursor: push_live,
\* push_run and fetch_catch_up skip nothing when a queue fills half-way.
Gapless ==
    \A s \in Ids : s < nextId =>
        delivered[s] = {o \in visible : /\ base[s] < o /\ o <= cursor[s]
                                        /\ o \in filter[s]}

\* A subscriber in Mode::Live is owed nothing the live path has already read:
\* advance_from_ring promotes nobody whose next record only a fetch can bring
\* (push_live will never offer that record again).
LiveIsCurrent ==
    \A s \in Shown : edge # Unknown =>
        \A o \in visible : (Larger(cursor[s], base[s]) < o /\ o <= Through)
                               => o \in Pending

-----------------------------------------------------------------------------
(* The inductive strengthening of the invariants above.                    *)

\* No more Subscribe commands are on their way than MaxSubs leaves room for.
CommandBound ==
    \/ Len(commands) + nextId <= MaxSubs
    \/ /\ Len(commands) + nextId = MaxSubs + 1
       /\ commands # <<>>
       /\ commands[Len(commands)].kind = "Shutdown"

\* What is known where the task is suspended.
PhaseInv ==
    /\ pc \in {"liveFetch", "pushLive", "ring", "catchUp", "pushRun"}
          => edge # Unknown
    /\ pc = "liveStart" => edge = Unknown
    /\ pc \in {"catchUp", "pushRun"} =>
          /\ turn \in list /\ mode[turn] = "CatchingUp" /\ ~closed[turn]
          /\ floor > None
    /\ edge = Unknown => /\ ring = {} /\ floor = None /\ origin = None
                         /\ \A s \in list : mode[s] = "Live" =>
                               cursor[s] = None /\ base[s] = None
    /\ pc \in {"idle", "drain", "liveStart", "liveFetch"}
          => \A s \in list : ~closed[s]
    /\ Through \in {Unknown, None} => \A s \in Ids : delivered[s] = {}

\* Where the live path and the ring stand in the log.
EdgeInv ==
    /\ edge >= Unknown /\ edge < hw /\ nextAfter >= None /\ nextAfter < hw
    /\ edge # Unknown =>
          /\ floor >= None /\ origin >= None
          /\ floor <= Through
          /\ edge # None => origin <= edge
          /\ floor < origin =>
                /\ floor = None /\ origin < logStart
                /\ \A s \in Ids : \A o \in delivered[s] : origin < o
    /\ pc = "pushLive" =>
          /\ batch \subseteq visible
          /\ \A o \in batch : edge < o /\ o <= nextAfter /\ floor < o /\ origin < o
          /\ \A o \in ring : \A p \in batch : o < p
          /\ nextAfter # None => origin <= nextAfter

\* Where one subscriber stands.
PlaceInv(s) ==
    /\ cursor[s] >= None /\ base[s] >= None
    /\ cursor[s] < hw \/ cursor[s] <= base[s]
    /\ s >= nextId => /\ delivered[s] = {} /\ queue[s] = <<>>
                      /\ ~closed[s] /\ errTask[s] = "none"
    /\ (s \in list /\ ~closed[s]) =>
          /\ errTask[s] = "none"
          /\ delivered[s] = {} => queue[s] = <<>>
          /\ mode[s] = "CatchingUp" =>
                \/ base[s] <= cursor[s]
                \/ cursor[s] = None /\ floor > None /\ base[s] < logStart
          /\ (mode[s] = "Live" /\ edge # Unknown) =>
                /\ cursor[s] <= Through
                /\ Through # None => base[s] <= Through
                /\ edge = None => base[s] < logStart
                /\ \A o \in Pending : cursor[s] < o /\ base[s] < o

\* The batch of a catch-up fetch is what its subscriber is owed next.
RunInv ==
    pc = "pushRun" =>
        /\ batch = {o \in visible : /\ cursor[turn] < o /\ base[turn] < o
                                    /\ o <= nextAfter}
        /\ nextAfter = None \/ base[turn] <= nextAfter

\* The inductive invariant of run_pump: the invariants above with what they
\* need to be preserved by each of its steps.
PumpInv ==
    /\ TypeOK /\ CommandBound /\ PhaseInv /\ EdgeInv /\ RunInv
    /\ RingComplete /\ Gapless /\ LiveIsCurrent
    /\ \A s \in Ids : PlaceInv(s)

-----------------------------------------------------------------------------
(* What a step of the pump never does, and what it must do in the end.     *)

\* Once fail_one or fail_subs has handed a stream its terminal error, no
\* record is queued behind or before it and no second error follows, though
\* the sending task runs beside the pump.
ErrorIsLast ==
    [][\A s \in Ids : errTask[s] # "none" =>
          /\ delivered'[s] = delivered[s]
          /\ errTask'[s] = "pending" => errTask[s] = "pending"]_vars

\* While a laggard waits for its catch-up fetch no other one is given two:
\* what the rotor of Subscribers::next_fetch is for.
TurnsAreFair ==
    [][\A s \in Ids : (pc = "ring" /\ pc' = "catchUp" /\ passedBy'[s] # {})
          => turn' \notin passedBy[s]]_vars

Open(s) == s \in list /\ ~closed[s] /\ ~gone[s]

\* A reader that keeps calling Subscription::recv is sent every record its
\* stream is owed, or its stream ends, or retention takes the record first;
\* run_pump owes it that whatever the other subscribers do or fail to do.
ReadersAreServed ==
    \A s \in Ids \cap Readers, o \in Offsets :
        (Open(s) /\ edge # Unknown /\ o \in visible \cap filter[s] /\ base[s] < o)
            ~> (o \in delivered[s] \/ o < logStart \/ o <= base[s] \/ ~Open(s))

\* A stream the pump gives up on (fail_one, fail_subs) does not just fall
\* silent: its reader is sent the error even if its queue was full then.
ErrorsArrive ==
    \A s \in Ids \cap Readers :
        (errTask[s] # "done" /\ (closed[s] \/ errTask[s] = "pending"))
            ~> (gone[s] \/ \E i \in DOMAIN queue[s] : queue[s][i] = ErrItem)

\* A subscriber whose receiver was dropped leaves the list, on a silent
\* partition too (Subscribers::retain_live at the top of every iteration).
GoneAreForgotten == \A s \in Ids : gone[s] ~> (s \notin list)

\* Position::After(o): every matching record between o and the cursor was
\* sent, as Ring::covers promises of what it serves; what retention has
\* removed is an error (fetch_catch_up), never a silent skip.
ResumeLosesNothing ==
    \A s \in Ids : (s < nextId /\ resume[s] >= 0) =>
        \A o \in visible \cap filter[s] :
            (resume[s] < o /\ o <= cursor[s]) => o \in delivered[s]

-----------------------------------------------------------------------------
(* The pump implements the abstract feed.                                  *)

Status ==
    [s \in Ids |->
        CASE s >= nextId -> "none"
          [] s < nextId /\ (s \notin list \/ closed[s]) -> "ended"
          [] s < nextId /\ s \in list /\ ~closed[s] ->
                IF mode[s] = "Live" /\ edge = Unknown THEN "waiting" ELSE "open"]

F == INSTANCE Feed WITH Streams <- Ids, status <- Status, wants <- filter

\* Every step of run_pump, its readers and its error tasks is a step of the
\* abstract feed or leaves it unchanged.
ImplementsFeed == F!Spec
=============================================================================
