----------------------------- MODULE PumpProofs -----------------------------
(* Proofs about the partition pump, for every log, every number of         *)
(* subscribers and every configuration.                                    *)
EXTENDS Pump, SequenceTheorems, TLAPS

-----------------------------------------------------------------------------
(* Type correctness.                                                       *)

TypeInv ==
    /\ TypeOK /\ CommandBound
    /\ pc \in {"catchUp", "pushRun"} => turn \in list

LEMMA TypeInit == Init => TypeInv
  <1> SUFFICES ASSUME Init PROVE TypeInv OBVIOUS
  <1>1. LogType BY DEF Init, LogType
  <1>2. ChanType BY DEF Init, ChanType
  <1>3. TaskType BY PumpAssumption DEF Init, TaskType, None, Unknown
  <1>4. StateType BY DEF Init, StateType, None
  <1>5. QueueType BY DEF Init, QueueType
  <1>6. HistoryType BY DEF Init, HistoryType, None
  <1>7. CommandBound BY PumpAssumption DEF Init, CommandBound
  <1> QED BY <1>1, <1>2, <1>3, <1>4, <1>5, <1>6, <1>7 DEF TypeInv, TypeOK, Init

\* What a step leaves alone keeps its type.
LEMMA Frame ==
  ASSUME TypeInv
  PROVE  /\ UNCHANGED logVars => LogType'
         /\ UNCHANGED chanVars => ChanType'
         /\ UNCHANGED taskVars => TaskType'
         /\ UNCHANGED stateVars => StateType'
         /\ UNCHANGED queueVars => QueueType'
         /\ UNCHANGED historyVars => HistoryType'
         /\ UNCHANGED <<commands, nextId>> => CommandBound'
  <1> USE DEF TypeInv, TypeOK
  <1>1. UNCHANGED logVars => LogType' BY DEF logVars, LogType
  <1>2. UNCHANGED chanVars => ChanType' BY DEF chanVars, ChanType
  <1>3. UNCHANGED taskVars => TaskType'
    BY DEF taskVars, TaskType, ringVars, subsVars, runVars
  <1>4. UNCHANGED stateVars => StateType' BY DEF stateVars, StateType
  <1>5. UNCHANGED queueVars => QueueType' BY DEF queueVars, QueueType
  <1>6. UNCHANGED historyVars => HistoryType' BY DEF historyVars, HistoryType
  <1>7. UNCHANGED <<commands, nextId>> => CommandBound' BY DEF CommandBound
  <1> QED BY <1>1, <1>2, <1>3, <1>4, <1>5, <1>6, <1>7

LEMMA IdsFacts ==
  ASSUME TypeInv
  PROVE  /\ list \subseteq Ids /\ todo \subseteq Ids /\ MaxSubs \in Nat
         /\ \A s \in Ids : s \in Nat
         /\ pc \in {"catchUp", "pushRun"} => turn \in Ids
  BY PumpAssumption DEF TypeInv, TypeOK, TaskType, Ids

LEMMA TypeLog == ASSUME TypeInv, LogStep PROVE TypeInv'
  <1>1. LogType'
    <2>1. CASE Trim BY <2>1 DEF Trim, LogType, TypeInv, TypeOK
    <2>2. ASSUME NEW seen \in BOOLEAN, Produce(seen) PROVE LogType'
      BY <2>2 DEF Produce, LogType, TypeInv, TypeOK
    <2> QED BY <2>1, <2>2 DEF LogStep
  <1>2. UNCHANGED <<chanVars, taskVars, stateVars, queueVars, historyVars>>
    BY DEF LogStep, Trim, Produce
  <1>3. UNCHANGED <<commands, nextId, pc, turn, list>>
    BY <1>2 DEF chanVars, taskVars, subsVars, runVars
  <1> QED BY <1>1, <1>2, <1>3, Frame DEF TypeInv, TypeOK

LEMMA TypeSend ==
  ASSUME TypeInv, NEW c \in Commands, Send(c),
         c.kind = "Subscribe" => Len(commands) + nextId < MaxSubs,
         c.kind = "Shutdown" => \A i \in DOMAIN commands : commands[i].kind # "Shutdown"
  PROVE  TypeInv'
  <1>1. commands' = Append(commands, c) /\ commands \in Seq(Commands)
        /\ Len(commands) \in Nat /\ DOMAIN commands = 1 .. Len(commands)
    BY LenProperties DEF Send, TypeInv, TypeOK, ChanType
  <1>2. /\ commands' \in Seq(Commands) /\ Len(commands') = Len(commands) + 1
        /\ commands'[Len(commands')] = c
    BY <1>1, AppendProperties
  <1>3. commands' # <<>> BY <1>1, <1>2
  <1>4. UNCHANGED <<logVars, handle, taskVars, stateVars, queueVars, historyVars>>
    BY DEF Send
  <1>5. UNCHANGED <<nextId, pc, turn, list>> BY <1>4 DEF taskVars, subsVars, runVars
  <1>6. nextId \in Nat /\ MaxSubs \in Nat
    BY PumpAssumption DEF TypeInv, TypeOK, TaskType
  <1>7. CommandBound'
    <2>1. CASE c.kind = "Subscribe"
      BY <1>1, <1>2, <1>5, <1>6, <2>1 DEF CommandBound
    <2>2. CASE c.kind = "Shutdown"
      <3>1. Len(commands) + nextId <= MaxSubs
        BY <1>1, <1>6, <2>2, EmptySeq DEF CommandBound, TypeInv
      <3> QED BY <1>1, <1>2, <1>3, <1>5, <1>6, <2>2, <3>1 DEF CommandBound
    <2> QED BY <2>1, <2>2 DEF Commands
  <1>8. ChanType' BY <1>2, <1>4 DEF ChanType, TypeInv, TypeOK
  <1> QED BY <1>4, <1>5, <1>7, <1>8, Frame DEF TypeInv, TypeOK

LEMMA TypeHandle == ASSUME TypeInv, HandleStep PROVE TypeInv'
  <1>1. CASE DropHandle
    <2>1. ChanType' BY <1>1 DEF DropHandle, ChanType, TypeInv, TypeOK
    <2>2. UNCHANGED <<logVars, taskVars, stateVars, queueVars, historyVars>>
          /\ commands' = commands
      BY <1>1 DEF DropHandle
    <2>3. UNCHANGED <<nextId, pc, turn, list>> BY <2>2 DEF taskVars, subsVars, runVars
    <2> QED BY <2>1, <2>2, <2>3, Frame DEF TypeInv, TypeOK
  <1>2. CASE Shutdown
    <2>1. Command("Shutdown", None, {}) \in Commands
      BY DEF Command, Commands, None, LatestP
    <2> QED BY <1>2, <2>1, TypeSend DEF Shutdown, Command
  <1>3. ASSUME NEW p \in Positions, NEW f \in Filters, Subscribe(p, f)
        PROVE TypeInv'
    <2> DEFINE c == Command("Subscribe", p, f)
    <2>1. c \in Commands
      <3>1. f \in SUBSET Nat /\ p \in {LatestP, None} \cup Nat
        BY PumpAssumption DEF TypeInv, TypeOK, LogType, LatestP, None
      <3> QED BY <3>1 DEF Command, Commands
    <2>2. c.kind = "Subscribe" BY DEF Command
    <2>3. Send(c) /\ Len(commands) + nextId < MaxSubs BY <1>3 DEF Subscribe
    <2> HIDE DEF c
    <2> QED BY <2>1, <2>2, <2>3, TypeSend
  <1> QED BY <1>1, <1>2, <1>3 DEF HandleStep

LEMMA TypeReader == ASSUME TypeInv, ReaderStep PROVE TypeInv'
  <1>1. PICK s \in Ids : Recv(s) \/ DropReceiver(s) \/ SendError(s)
    BY DEF ReaderStep
  <1>2. QueueType'
    <2> USE DEF TypeInv, TypeOK, QueueType
    <2>1. CASE Recv(s) BY <2>1 DEF Recv
    <2>2. CASE DropReceiver(s) BY <2>2 DEF DropReceiver
    <2>3. CASE SendError(s) BY <2>3 DEF SendError, ErrItem
    <2> QED BY <1>1, <2>1, <2>2, <2>3
  <1>3. UNCHANGED <<logVars, chanVars, taskVars, stateVars, historyVars>>
    BY <1>1 DEF Recv, DropReceiver, SendError
  <1>4. UNCHANGED <<commands, nextId, pc, turn, list>>
    BY <1>3 DEF chanVars, taskVars, subsVars, runVars
  <1> QED BY <1>2, <1>3, <1>4, Frame DEF TypeInv, TypeOK

-----------------------------------------------------------------------------
(* The steps of the pump task.                                             *)

\* Leaving run_pump drops the receiver and every sender.
LEMMA TypeReturn ==
  ASSUME TypeInv, Return, errors' \in Nat,
         errTask' \in [Ids -> {"none", "pending", "done"}]
  PROVE  TypeInv'
  <1>1. UNCHANGED <<logVars, stateVars, historyVars>> BY DEF Return
  <1>2. UNCHANGED <<handle, edge, ring, floor, nextId, rotor, queue, gone>>
    BY DEF Return, ringVars
  <1>3. ChanType' BY <1>2 DEF Return, ChanType, TypeInv, TypeOK
  <1>4. TaskType'
    BY <1>2 DEF Return, EndRun, None, TaskType, TypeInv, TypeOK
  <1>5. QueueType' BY <1>2 DEF QueueType, TypeInv, TypeOK
  <1>6. CommandBound'
    <2>1. nextId \in 0 .. MaxSubs /\ MaxSubs \in Nat
      BY PumpAssumption DEF TypeInv, TypeOK, TaskType
    <2>2. commands' = <<>> BY DEF Return
    <2> QED BY <1>2, <2>1, <2>2, EmptySeq DEF CommandBound
  <1>7. pc' = "done" BY DEF Return
  <1> QED BY <1>1, <1>3, <1>4, <1>5, <1>6, <1>7, Frame DEF TypeInv, TypeOK

LEMMA TypeReturnCleanly == ASSUME TypeInv, ReturnCleanly PROVE TypeInv'
  BY TypeReturn DEF ReturnCleanly, TypeInv, TypeOK, TaskType, QueueType

LEMMA TypeFailSubs ==
  ASSUME TypeInv, FailSubs, errors' \in Nat PROVE TypeInv'
  <1>1. errTask' \in [Ids -> {"none", "pending", "done"}]
    BY DEF FailSubs, TypeInv, TypeOK, QueueType
  <1> QED BY <1>1, TypeReturn DEF FailSubs

LEMMA TypeCommand ==
  ASSUME TypeInv,
         ReceiveCommand \/ RetainLive \/ IdleTimeout \/ HandlesGone \/ CommandsDrained
  PROVE  TypeInv'
  <1>1. CASE RetainLive
    <2>1. UNCHANGED <<logVars, chanVars, stateVars, queueVars, historyVars>>
      BY <1>1 DEF RetainLive
    <2>2. UNCHANGED <<edge, ring, floor, errors, nextId, rotor, batch, nextAfter,
                      todo, turn>> /\ list' \subseteq list /\ pc = "top"
          /\ pc' \in {"idle", "drain"}
      BY <1>1 DEF RetainLive, ringVars, runVars
    <2>3. TaskType' BY <2>2 DEF TaskType, TypeInv, TypeOK
    <2>4. UNCHANGED <<commands, nextId>> BY <2>1, <2>2 DEF chanVars
    <2> QED BY <2>1, <2>2, <2>3, <2>4, Frame DEF TypeInv, TypeOK
  <1>2. CASE CommandsDrained
    <2>1. UNCHANGED <<logVars, chanVars, stateVars, queueVars, historyVars>>
      BY <1>2 DEF CommandsDrained
    <2>2. UNCHANGED <<edge, ring, floor, errors, list, nextId, rotor, batch,
                      nextAfter, todo, turn>>
          /\ pc = "drain" /\ pc' \in {"liveStart", "liveFetch"}
      BY <1>2 DEF CommandsDrained, ringVars, runVars, subsVars
    <2>3. TaskType' BY <2>2 DEF TaskType, TypeInv, TypeOK
    <2>4. UNCHANGED <<commands, nextId>> BY <2>1, <2>2 DEF chanVars
    <2> QED BY <2>1, <2>2, <2>3, <2>4, Frame DEF TypeInv, TypeOK
  <1>3. CASE ReturnCleanly BY <1>3, TypeReturnCleanly
  <1>4. CASE ReceiveCommand /\ ~ReturnCleanly
    <2> DEFINE c == Head(commands)
    <2>1. /\ HandleSubscribe(c) /\ commands' = Tail(commands) /\ pc' = "drain"
          /\ commands # <<>> /\ pc \in {"idle", "drain"} /\ c.kind # "Shutdown"
          /\ UNCHANGED <<logVars, handle, edge, ringVars, errors, rotor, runVars,
                         queueVars>>
      BY <1>4 DEF ReceiveCommand
    <2>2. /\ c \in Commands /\ Tail(commands) \in Seq(Commands)
          /\ Len(commands) \in Nat \ {0}
          /\ Len(Tail(commands)) = Len(commands) - 1
          /\ c = commands[1]
          /\ \A i \in 1 .. Len(commands) - 1 : Tail(commands)[i] = commands[i + 1]
      <3>1. commands \in Seq(Commands) BY DEF TypeInv, TypeOK, ChanType
      <3> QED BY <2>1, <3>1, HeadTailProperties, LenProperties, EmptySeq
    <2> HIDE DEF c
    <2>3. nextId \in Nat /\ MaxSubs \in Nat
      BY PumpAssumption DEF TypeInv, TypeOK, TaskType
    <2>4. nextId < MaxSubs
      BY <2>1, <2>2, <2>3 DEF TypeInv, CommandBound
    <2>5. nextId \in Ids BY <2>3, <2>4 DEF Ids
    <2>6. nextId' = nextId + 1 BY <2>1 DEF HandleSubscribe
    <2>7. CommandBound'
      <3>1. CASE Len(commands) + nextId <= MaxSubs
        BY <2>1, <2>2, <2>3, <2>6, <3>1 DEF CommandBound
      <3>2. CASE /\ Len(commands) + nextId = MaxSubs + 1
                 /\ commands[Len(commands)].kind = "Shutdown"
        <4>1. Len(commands) # 1 BY <2>1, <2>2, <3>2
        <4>2. /\ Len(commands') = Len(commands) - 1
              /\ commands'[Len(commands')] = commands[Len(commands)]
          BY <2>1, <2>2, <4>1
        <4>3. commands' # <<>> BY <2>2, <4>1, <4>2, EmptySeq
        <4> QED BY <2>3, <2>2, <2>6, <3>2, <4>2, <4>3 DEF CommandBound
      <3> QED BY <3>1, <3>2 DEF TypeInv, CommandBound
    <2>8. ChanType' BY <2>1, <2>2 DEF ChanType, TypeInv, TypeOK
    <2>9. TaskType'
      <3>1. UNCHANGED <<edge, ring, floor, errors, rotor, batch, nextAfter, todo,
                        turn>>
        BY <2>1 DEF ringVars, runVars
      <3>2. list' = list \cup {nextId} BY <2>1 DEF HandleSubscribe
      <3> QED BY <2>1, <2>3, <2>4, <2>6, <3>1, <3>2 DEF TaskType, TypeInv, TypeOK
    <2>10. c.position \in Int /\ c.filter \in SUBSET Nat
      BY <2>2 DEF Commands, LatestP, None
    <2>11. StateType'
      BY <2>1, <2>5, <2>10 DEF HandleSubscribe, StateType, TypeInv, TypeOK, None
    <2>12. HistoryType'
      <3>1. edge \in Int BY DEF TypeInv, TypeOK, TaskType
      <3> QED BY <2>1, <2>5, <2>10, <3>1
            DEF HandleSubscribe, HistoryType, TypeInv, TypeOK, None
    <2> QED BY <2>1, <2>7, <2>8, <2>9, <2>11, <2>12, Frame DEF TypeInv, TypeOK
  <1> QED BY <1>1, <1>2, <1>3, <1>4 DEF IdleTimeout, HandlesGone

LEMMA FetchType ==
  ASSUME TypeInv, NEW a \in Int, NEW end \in FetchEnds(a)
  PROVE  /\ end \in Int /\ end < hw
         /\ Fetched(a, end) \subseteq visible
         /\ Fetched(a, end) \subseteq Nat
  <1>1. hw \in Nat /\ logStart \in Nat /\ logStart <= hw /\ visible \subseteq Nat
    BY DEF TypeInv, TypeOK, LogType
  <1>2. end \in Int /\ end < hw
    BY <1>1 DEF FetchEnds, FetchFrom, None
  <1> QED BY <1>1, <1>2 DEF Fetched

LEMMA TypeLivePathFails ==
  ASSUME TypeInv, NEW permanent, NEW next \in {"top", "ring"},
         pc \in {"liveStart", "liveFetch"}, LivePathFails(permanent, next)
  PROVE  TypeInv'
  <1>1. errors' \in Nat BY DEF LivePathFails, TypeInv, TypeOK, TaskType
  <1>2. CASE FailSubs BY <1>1, <1>2, TypeFailSubs
  <1>3. CASE ~FailSubs
    <2>1. /\ UNCHANGED <<logVars, chanVars, stateVars, queueVars, historyVars>>
          /\ pc' = next /\ todo' = IF next = "ring" THEN list ELSE {}
      BY <1>3 DEF LivePathFails
    <2>2. UNCHANGED <<edge, ring, floor, list, nextId, rotor, batch, nextAfter, turn>>
      BY <1>3 DEF LivePathFails, ringVars, subsVars
    <2>3. TaskType' BY <1>1, <2>1, <2>2 DEF TaskType, TypeInv, TypeOK
    <2>4. UNCHANGED <<commands, nextId>> BY <2>1, <2>2 DEF chanVars
    <2> QED BY <2>1, <2>2, <2>3, <2>4, Frame DEF TypeInv, TypeOK
  <1> QED BY <1>2, <1>3

LEMMA TypeLive ==
  ASSUME TypeInv,
         \/ LiveStartOk \/ \E permanent \in BOOLEAN : LiveStartFails(permanent)
         \/ LiveFetchOk \/ \E permanent \in BOOLEAN : LiveFetchFails(permanent)
         \/ PushLive \/ LiveBatchDone
  PROVE  TypeInv'
  <1>0. hw \in Nat /\ logStart \in Nat /\ edge \in Int
    BY DEF TypeInv, TypeOK, LogType, TaskType
  <1>1. CASE LiveStartOk
    <2>1. UNCHANGED <<logVars, chanVars, stateVars, queueVars>>
      BY <1>1 DEF LiveStartOk
    <2>2. UNCHANGED <<ring, errors, list, nextId, rotor, batch, nextAfter, todo,
                      turn>> /\ pc = "liveStart" /\ pc' = "liveFetch"
          /\ edge' \in Int /\ floor' \in Int
      BY <1>0, <1>1 DEF LiveStartOk, subsVars, runVars
    <2>3. TaskType' BY <2>2 DEF TaskType, TypeInv, TypeOK
    <2>4. HistoryType'
      BY <1>0, <1>1 DEF LiveStartOk, HistoryType, TypeInv, TypeOK
    <2>5. UNCHANGED <<commands, nextId>> BY <2>1, <2>2 DEF chanVars
    <2> QED BY <2>1, <2>2, <2>3, <2>4, <2>5, Frame DEF TypeInv, TypeOK
  <1>2. CASE LiveFetchOk
    <2>1. UNCHANGED <<logVars, chanVars, stateVars, queueVars>>
      BY <1>2 DEF LiveFetchOk
    <2>2. UNCHANGED <<ring, edge, floor, list, nextId, rotor, todo, turn>>
          /\ pc = "liveFetch" /\ pc' = "pushLive" /\ errors' = 0
      BY <1>2 DEF LiveFetchOk, subsVars, ringVars
    <2>3. batch' \subseteq Nat /\ nextAfter' \in Int
      BY <1>0, <1>2, FetchType DEF LiveFetchOk
    <2>4. TaskType' BY <2>2, <2>3 DEF TaskType, TypeInv, TypeOK
    <2>5. HistoryType'
      BY <1>0, <1>2 DEF LiveFetchOk, HistoryType, TypeInv, TypeOK
    <2>6. UNCHANGED <<commands, nextId>> BY <2>1, <2>2 DEF chanVars
    <2> QED BY <2>1, <2>2, <2>4, <2>5, <2>6, Frame DEF TypeInv, TypeOK
  <1>3. CASE PushLive
    <2>1. PICK e \in batch : PushLiveAll(e) /\ RingPush(e) /\ batch' = batch \ {e}
      BY <1>3 DEF PushLive
    <2>2. e \in Nat /\ ring \subseteq Nat BY <2>1 DEF TypeInv, TypeOK, TaskType
    <2>3. ring' \subseteq Nat /\ floor' \in Int
      <3> DEFINE window == ring \cup {e}
      <3>1. window \subseteq Nat BY <2>2
      <3>2. CASE Cardinality(window) > RingCapacity
        BY <2>1, <3>1, <3>2 DEF RingPush
      <3>3. CASE ~(Cardinality(window) > RingCapacity)
        BY <2>1, <3>1, <3>3 DEF RingPush, TypeInv, TypeOK, TaskType
      <3> QED BY <3>2, <3>3
    <2>4. UNCHANGED <<logVars, chanVars, pc, edge, errors, subsVars, nextAfter,
                      todo, turn, failures, filter, gone, errTask, origin, base,
                      resume, passedBy>>
      BY <1>3 DEF PushLive
    <2>5. TaskType'
      BY <2>1, <2>3, <2>4 DEF TaskType, TypeInv, TypeOK, subsVars
    <2>6. StateType'
      BY <2>1, <2>2, <2>4 DEF PushLiveAll, StateType, TypeInv, TypeOK
    <2>7. QueueType'
      BY <2>1, <2>2, <2>4 DEF PushLiveAll, QueueType, TypeInv, TypeOK
    <2>8. HistoryType'
      BY <2>1, <2>2, <2>4 DEF PushLiveAll, HistoryType, TypeInv, TypeOK
    <2>9. UNCHANGED <<commands, nextId, list>> BY <2>4 DEF chanVars, subsVars
    <2> QED BY <2>4, <2>5, <2>6, <2>7, <2>8, <2>9, Frame DEF TypeInv, TypeOK
  <1>4. CASE LiveBatchDone
    <2>1. UNCHANGED <<logVars, chanVars, stateVars, queueVars, historyVars>>
      BY <1>4 DEF LiveBatchDone
    <2>2. UNCHANGED <<ring, floor, errors, list, nextId, rotor, batch, turn>>
          /\ pc' = "ring" /\ todo' = list /\ nextAfter' = None
          /\ edge' = Larger(nextAfter, edge)
      BY <1>4 DEF LiveBatchDone, ringVars, subsVars
    <2>3. TaskType' BY <2>2 DEF TaskType, TypeInv, TypeOK, Larger, None
    <2>4. UNCHANGED <<commands, nextId>> BY <2>1, <2>2 DEF chanVars
    <2> QED BY <2>1, <2>2, <2>3, <2>4, Frame DEF TypeInv, TypeOK
  <1>5. CASE \E permanent \in BOOLEAN : LiveStartFails(permanent)
    BY <1>5, TypeLivePathFails DEF LiveStartFails
  <1>6. CASE \E permanent \in BOOLEAN : LiveFetchFails(permanent)
    BY <1>6, TypeLivePathFails DEF LiveFetchFails
  <1> QED BY <1>1, <1>2, <1>3, <1>4, <1>5, <1>6

LEMMA PushRunType ==
  ASSUME TypeInv, NEW s \in Ids, NEW e \in Nat, PushRun(s, e)
  PROVE  /\ cursor' \in [Ids -> Int]
         /\ closed' \in [Ids -> BOOLEAN]
         /\ queue' \in [Ids -> Seq(Int)]
         /\ delivered' \in [Ids -> SUBSET Nat]
  <1>1. cursor' \in [Ids -> Int] BY DEF PushRun, TypeInv, TypeOK, StateType
  <1>2. closed' \in [Ids -> BOOLEAN] BY DEF PushRun, TypeInv, TypeOK, StateType
  <1>3. queue' \in [Ids -> Seq(Int)] BY DEF PushRun, TypeInv, TypeOK, QueueType
  <1>4. delivered' \in [Ids -> SUBSET Nat]
    BY DEF PushRun, TypeInv, TypeOK, HistoryType
  <1> QED BY <1>1, <1>2, <1>3, <1>4

LEMMA TypeRing ==
  ASSUME TypeInv, RingServes \/ RingDone \/ NextFetch
  PROVE  TypeInv'
  <1>1. CASE RingServes
    <2>1. PICK s \in todo : \E e \in RingAfter(cursor[s]) :
            /\ PushRun(s, e) /\ base' = [base EXCEPT ![s] = RingStart(s)]
            /\ todo' = IF Refused(s, e) THEN todo \ {s} ELSE todo
      BY <1>1 DEF RingServes
    <2>0. PICK e \in RingAfter(cursor[s]) :
            /\ PushRun(s, e) /\ base' = [base EXCEPT ![s] = RingStart(s)]
            /\ todo' = IF Refused(s, e) THEN todo \ {s} ELSE todo
      BY <2>1
    <2>2. e \in Nat /\ s \in Ids
      BY <2>0, IdsFacts DEF RingAfter, TypeInv, TypeOK, TaskType
    <2>3. UNCHANGED <<logVars, chanVars, pc, edge, ringVars, errors, subsVars,
                      batch, nextAfter, turn, mode, failures, filter, gone,
                      errTask, origin, resume, passedBy>>
          /\ pc = "ring"
      BY <1>1 DEF RingServes
    <2>4. TaskType'
      BY <2>0, <2>3 DEF TaskType, TypeInv, TypeOK, subsVars, ringVars
    <2>5. StateType'
      BY <2>0, <2>2, <2>3, PushRunType DEF StateType, TypeInv, TypeOK
    <2>6. QueueType'
      BY <2>0, <2>2, <2>3, PushRunType DEF QueueType, TypeInv, TypeOK
    <2>7. HistoryType'
      <3>1. base' \in [Ids -> Int]
        BY <2>0, <2>2 DEF RingStart, HistoryType, TypeInv, TypeOK
      <3> QED BY <2>0, <2>2, <2>3, <3>1, PushRunType DEF HistoryType, TypeInv, TypeOK
    <2>8. UNCHANGED <<commands, nextId, list>> BY <2>3 DEF chanVars, subsVars
    <2> QED BY <2>3, <2>4, <2>5, <2>6, <2>7, <2>8, Frame DEF TypeInv, TypeOK
  <1>2. CASE RingDone
    <2>1. PICK s \in todo :
            /\ mode' = IF ReachesEdge(s) THEN [mode EXCEPT ![s] = "Live"] ELSE mode
            /\ base' = [base EXCEPT ![s] = RingStart(s)]
            /\ todo' = todo \ {s}
      BY <1>2 DEF RingDone
    <2>2. s \in Ids BY <2>1, IdsFacts
    <2>3. UNCHANGED <<logVars, chanVars, pc, edge, ringVars, errors, subsVars,
                      batch, nextAfter, turn, cursor, closed, failures, filter,
                      queueVars, origin, delivered, resume, passedBy>>
          /\ pc = "ring"
      BY <1>2 DEF RingDone
    <2>4. TaskType'
      BY <2>1, <2>3 DEF TaskType, TypeInv, TypeOK, subsVars, ringVars
    <2>5. StateType' BY <2>1, <2>2, <2>3 DEF StateType, TypeInv, TypeOK
    <2>6. HistoryType'
      BY <2>1, <2>2, <2>3 DEF RingStart, HistoryType, TypeInv, TypeOK
    <2>7. UNCHANGED <<commands, nextId, list>> BY <2>3 DEF chanVars, subsVars
    <2> QED BY <2>3, <2>4, <2>5, <2>6, <2>7, Frame DEF TypeInv, TypeOK
  <1>3. CASE NextFetch
    <2> DEFINE waiting == {s \in list : NeedsFetch(s)}
    <2>1. UNCHANGED <<logVars, chanVars, edge, ringVars, errors, list, nextId,
                      batch, nextAfter, todo, stateVars, queueVars, origin, base,
                      delivered, resume>>
          /\ pc = "ring" /\ todo = {}
      BY <1>3 DEF NextFetch
    <2>2. /\ rotor' \in 0 .. MaxSubs /\ turn' \in Nat
          /\ passedBy' \in [Ids -> SUBSET Nat]
          /\ pc' \in {"top", "catchUp"} /\ (pc' = "catchUp" => turn' \in list)
      <3>1. CASE /\ pc' = "top" /\ passedBy' = [s \in Ids |-> {}]
                 /\ UNCHANGED <<rotor, turn>>
        BY <3>1 DEF TypeInv, TypeOK, TaskType
      <3>2. ASSUME NEW s \in waiting, rotor' = s + 1, turn' = s, pc' = "catchUp",
                   passedBy' = [t \in Ids |-> IF t \in waiting \ {s}
                                              THEN passedBy[t] \cup {s} ELSE {}]
            PROVE  /\ rotor' \in 0 .. MaxSubs /\ turn' \in Nat
                   /\ passedBy' \in [Ids -> SUBSET Nat]
                   /\ pc' \in {"top", "catchUp"} /\ turn' \in list
        <4>1. s \in list /\ s \in 0 .. MaxSubs - 1 /\ MaxSubs \in Nat
          BY IdsFacts DEF Ids
        <4>2. passedBy' \in [Ids -> SUBSET Nat]
          BY <3>2, <4>1 DEF TypeInv, TypeOK, HistoryType
        <4> QED BY <3>2, <4>1, <4>2
      <3> QED BY <1>3, <3>1, <3>2 DEF NextFetch
    <2>3. TaskType' BY <2>1, <2>2 DEF TaskType, TypeInv, TypeOK, ringVars
    <2>4. HistoryType' BY <2>1, <2>2 DEF HistoryType, TypeInv, TypeOK
    <2>5. UNCHANGED <<commands, nextId>> BY <2>1 DEF chanVars
    <2> QED BY <2>1, <2>2, <2>3, <2>4, <2>5, Frame DEF TypeInv, TypeOK
  <1> QED BY <1>1, <1>2, <1>3

LEMMA TypeCatchUp ==
  ASSUME TypeInv,
         \/ CatchUpOk \/ CatchUpPush \/ CatchUpDone
         \/ CatchUpFails \/ CatchUpFailsForGood
  PROVE  TypeInv'
  <1>0. turn \in Ids /\ turn \in list /\ cursor[turn] \in Int /\ logStart \in Int
    BY IdsFacts DEF CatchUpOk, CatchUpPush, CatchUpDone, CatchUpFails,
                    CatchUpFailsForGood, TypeInv, TypeOK, StateType, LogType
  <1>1. CASE CatchUpOk
    <2>1. UNCHANGED <<logVars, chanVars, edge, ringVars, errors, subsVars, todo,
                      turn, mode, cursor, closed, filter, queueVars, origin,
                      delivered, resume, passedBy>>
          /\ pc = "catchUp" /\ pc' = "pushRun"
      BY <1>1 DEF CatchUpOk
    <2>2. batch' \subseteq Nat /\ nextAfter' \in Int
      BY <1>0, <1>1, FetchType DEF CatchUpOk
    <2>3. TaskType'
      BY <2>1, <2>2 DEF TaskType, TypeInv, TypeOK, subsVars, ringVars
    <2>4. StateType' BY <1>0, <1>1, <2>1 DEF CatchUpOk, StateType, TypeInv, TypeOK
    <2>5. HistoryType'
      BY <1>0, <1>1, <2>1 DEF CatchUpOk, HistoryType, TypeInv, TypeOK
    <2>6. UNCHANGED <<commands, nextId, list>> BY <2>1 DEF chanVars, subsVars
    <2> QED BY <1>0, <2>1, <2>3, <2>4, <2>5, <2>6, Frame DEF TypeInv, TypeOK
  <1>2. CASE CatchUpPush
    <2>1. PICK e \in batch : /\ PushRun(turn, e)
                             /\ IF Refused(turn, e)
                                THEN pc' = "top" /\ EndRun
                                ELSE /\ batch' = batch \ {e}
                                     /\ UNCHANGED <<pc, nextAfter, todo, turn>>
      BY <1>2 DEF CatchUpPush
    <2>2. e \in Nat BY <2>1 DEF TypeInv, TypeOK, TaskType
    <2>3. UNCHANGED <<logVars, chanVars, edge, ringVars, errors, subsVars, mode,
                      failures, filter, gone, errTask, origin, base, resume,
                      passedBy>>
          /\ pc = "pushRun"
      BY <1>2 DEF CatchUpPush
    <2>4. /\ batch' \subseteq Nat /\ nextAfter' \in Int /\ turn' \in Nat
          /\ pc' \in {"top", "pushRun"} /\ todo' = {}
          /\ pc' = "pushRun" => turn' = turn
      <3>1. batch \subseteq Nat /\ nextAfter \in Int /\ turn \in Nat /\ todo = {}
        BY <2>3 DEF TypeInv, TypeOK, TaskType
      <3>2. CASE Refused(turn, e) BY <2>1, <3>2 DEF EndRun, None
      <3>3. CASE ~Refused(turn, e) BY <2>1, <2>3, <3>1, <3>3
      <3> QED BY <3>2, <3>3
    <2>5. TaskType'
      BY <2>3, <2>4 DEF TaskType, TypeInv, TypeOK, subsVars, ringVars
    <2>6. StateType'
      BY <1>0, <2>1, <2>2, <2>3, PushRunType DEF StateType, TypeInv, TypeOK
    <2>7. QueueType'
      BY <1>0, <2>1, <2>2, <2>3, PushRunType DEF QueueType, TypeInv, TypeOK
    <2>8. HistoryType'
      BY <1>0, <2>1, <2>2, <2>3, PushRunType DEF HistoryType, TypeInv, TypeOK
    <2>9. UNCHANGED <<commands, nextId, list>> BY <2>3 DEF chanVars, subsVars
    <2> QED BY <1>0, <2>3, <2>4, <2>5, <2>6, <2>7, <2>8, <2>9, Frame
        DEF TypeInv, TypeOK
  <1>3. CASE CatchUpDone
    <2>1. UNCHANGED <<logVars, chanVars, edge, ringVars, errors, subsVars, mode,
                      closed, failures, filter, queueVars, historyVars>>
          /\ pc' = "top" /\ EndRun
      BY <1>3 DEF CatchUpDone
    <2>2. TaskType'
      BY <2>1 DEF EndRun, None, TaskType, TypeInv, TypeOK, subsVars, ringVars
    <2>3. StateType'
      <3>1. Larger(cursor[turn], nextAfter) \in Int
        BY <1>0 DEF Larger, TaskType, TypeInv, TypeOK
      <3> QED BY <1>0, <1>3, <2>1, <3>1 DEF CatchUpDone, StateType, TypeInv, TypeOK
    <2>4. UNCHANGED <<commands, nextId>> BY <2>1 DEF chanVars, subsVars
    <2> QED BY <2>1, <2>2, <2>3, <2>4, Frame DEF TypeInv, TypeOK
  <1>4. CASE CatchUpFails
    <2>1. UNCHANGED <<logVars, chanVars, edge, ringVars, errors, subsVars, mode,
                      cursor, filter, queue, gone, historyVars>>
          /\ pc' = "top" /\ EndRun
      BY <1>4 DEF CatchUpFails
    <2>2. TaskType'
      BY <2>1 DEF EndRun, None, TaskType, TypeInv, TypeOK, subsVars, ringVars
    <2>3. StateType'
      BY <1>0, <1>4, <2>1 DEF CatchUpFails, StateType, TypeInv, TypeOK
    <2>4. QueueType'
      BY <1>0, <1>4, <2>1 DEF CatchUpFails, QueueType, TypeInv, TypeOK
    <2>5. UNCHANGED <<commands, nextId>> BY <2>1 DEF chanVars, subsVars
    <2> QED BY <2>1, <2>2, <2>3, <2>4, <2>5, Frame DEF TypeInv, TypeOK
  <1>5. CASE CatchUpFailsForGood
    BY <1>5, TypeFailSubs DEF CatchUpFailsForGood, TypeInv, TypeOK, TaskType
  <1> QED BY <1>1, <1>2, <1>3, <1>4, <1>5

LEMMA TypeStep == ASSUME TypeInv, [Next]_vars PROVE TypeInv'
  <1>1. CASE PumpStep
    BY <1>1, TypeCommand, TypeLive, TypeRing, TypeCatchUp DEF PumpStep
  <1>2. CASE LogStep BY <1>2, TypeLog
  <1>3. CASE HandleStep BY <1>3, TypeHandle
  <1>4. CASE ReaderStep BY <1>4, TypeReader
  <1>5. CASE UNCHANGED vars
    <2>1. UNCHANGED <<logVars, chanVars, taskVars, stateVars, queueVars,
                      historyVars>>
      BY <1>5 DEF vars
    <2>2. UNCHANGED <<commands, nextId, pc, turn, list>>
      BY <2>1 DEF chanVars, taskVars, subsVars, runVars
    <2> QED BY <2>1, <2>2, Frame DEF TypeInv, TypeOK
  <1> QED BY <1>1, <1>2, <1>3, <1>4, <1>5 DEF Next

\* The pump's state has its type in every behaviour; in particular no
\* subscriber is ever added past the ids the model has room for, and whoever
\* a catch-up fetch is made for is still subscribed.
THEOREM TypeCorrect == Spec => []TypeOK
  <1>1. TypeInv /\ [Next]_vars => TypeInv' BY TypeStep
  <1>2. TypeInv => TypeOK BY DEF TypeInv
  <1> QED BY <1>1, <1>2, TypeInit, PTL DEF Spec

-----------------------------------------------------------------------------
(* The inductive invariant.                                                *)

\* PumpInv without the types.
Core ==
    /\ PhaseInv /\ EdgeInv /\ RunInv
    /\ RingComplete /\ Gapless /\ LiveIsCurrent
    /\ \A s \in Ids : PlaceInv(s)

LEMMA CoreIs == PumpInv <=> TypeOK /\ CommandBound /\ Core
  BY DEF PumpInv, Core

LEMMA PumpTypes ==
  ASSUME PumpInv
  PROVE  /\ TypeInv /\ Core
         /\ hw \in Nat /\ logStart \in 0 .. hw
         /\ \A o \in visible : o \in Nat /\ o < hw
         /\ edge \in Int /\ floor \in Int /\ origin \in Int /\ nextAfter \in Int
         /\ nextId \in Nat
         /\ ring \subseteq Nat /\ batch \subseteq Nat
         /\ Through \in Int
         /\ list \subseteq Ids /\ todo \subseteq list
         /\ \A s \in list : s < nextId
         /\ \A s \in Ids : s \in Nat
  <1>1. TypeInv /\ Core
    BY CoreIs DEF TypeInv, Core, PhaseInv
  <1>2. LogType /\ TaskType /\ HistoryType
    BY <1>1 DEF TypeInv, TypeOK
  <1>3. list \subseteq Ids /\ \A s \in Ids : s \in Nat
    BY <1>1, IdsFacts
  <1>4. Through \in Int
    BY <1>2 DEF Through, Larger, TaskType
  <1>5. hw \in Nat /\ logStart \in 0 .. hw /\ \A o \in visible : o \in Nat /\ o < hw
    BY <1>2 DEF LogType
  <1> QED BY <1>1, <1>2, <1>3, <1>4, <1>5 DEF TaskType, HistoryType

LEMMA SubTypes ==
  ASSUME PumpInv, NEW s \in Ids
  PROVE  /\ mode[s] \in {"Live", "CatchingUp"} /\ cursor[s] \in Int /\ base[s] \in Int
         /\ closed[s] \in BOOLEAN /\ gone[s] \in BOOLEAN
         /\ filter[s] \subseteq Nat /\ delivered[s] \subseteq Nat
         /\ queue[s] \in Seq(Int)
         /\ errTask[s] \in {"none", "pending", "done"}
         /\ PlaceInv(s)
  BY PumpTypes DEF TypeInv, TypeOK, StateType, QueueType, HistoryType, Core

\* Steps that leave alone the log, what the live path has read and what the
\* subscribers have been sent.
LEMMA Quiet ==
  ASSUME PumpInv, logStart' \in Int, logStart' >= logStart,
         UNCHANGED <<hw, visible, edge, ring, floor, mode, cursor, filter, nextId,
                     origin, base, delivered>>,
         \/ pc # "pushLive" /\ pc' # "pushLive"
         \/ UNCHANGED <<pc, batch, nextAfter>>,
         nextAfter' >= None /\ nextAfter' < hw,
         list' \subseteq list,
         \A s \in list' : ~closed'[s] => /\ ~closed[s] /\ errTask'[s] = "none"
                                         /\ delivered[s] = {} => queue'[s] = <<>>,
         \A s \in Ids : s >= nextId => /\ queue'[s] = <<>> /\ ~closed'[s]
                                       /\ errTask'[s] = "none",
         pc' \in {"liveFetch", "pushLive", "ring", "catchUp", "pushRun"} => edge # Unknown,
         pc' = "liveStart" => edge = Unknown,
         pc' \in {"catchUp", "pushRun"} => /\ turn' \in list' /\ mode[turn'] = "CatchingUp"
                                           /\ ~closed'[turn'] /\ floor > None,
         pc' \in {"idle", "drain", "liveStart", "liveFetch"} => \A s \in list' : ~closed'[s],
         pc' = "pushRun" => UNCHANGED <<pc, turn, batch, nextAfter>>
  PROVE  Core'
  <1>1. Core
    BY PumpTypes
  <1>2. Through' = Through /\ Pending' = Pending
    BY DEF Through, Pending
  <1>3. PhaseInv'
    <2>1. /\ pc' \in {"liveFetch", "pushLive", "ring", "catchUp", "pushRun"} => edge' # Unknown
          /\ pc' = "liveStart" => edge' = Unknown
      OBVIOUS
    <2>2. edge' = Unknown => /\ ring' = {} /\ floor' = None /\ origin' = None
                             /\ \A s \in list' : mode'[s] = "Live" =>
                                   cursor'[s] = None /\ base'[s] = None
      BY <1>1 DEF Core, PhaseInv
    <2>3. Through' \in {Unknown, None} => \A s \in Ids : delivered'[s] = {}
      BY <1>1, <1>2 DEF Core, PhaseInv
    <2>4. pc' \in {"catchUp", "pushRun"} =>
             /\ turn' \in list' /\ mode'[turn'] = "CatchingUp" /\ ~closed'[turn']
             /\ floor' > None
      OBVIOUS
    <2>5. pc' \in {"idle", "drain", "liveStart", "liveFetch"} => \A s \in list' : ~closed'[s]
      OBVIOUS
    <2> QED BY <2>1, <2>2, <2>3, <2>4, <2>5 DEF PhaseInv
  <1>4. EdgeInv'
    <2>1. pc' = "pushLive" => UNCHANGED <<pc, batch, nextAfter>>
      OBVIOUS
    <2>2. EdgeInv /\ logStart \in Int /\ origin \in Int
      BY <1>1, PumpTypes DEF Core
    <2>3. edge # Unknown /\ floor < origin =>
             /\ floor' = None /\ origin' < logStart'
             /\ \A s \in Ids : \A o \in delivered'[s] : origin' < o
      BY <2>2 DEF EdgeInv
    <2> QED BY <1>2, <2>1, <2>2, <2>3 DEF EdgeInv
  <1>5. RunInv'
    BY <1>1 DEF Core, RunInv
  <1>6. RingComplete'
    BY <1>1, <1>2 DEF Core, RingComplete
  <1>7. Gapless'
    BY <1>1 DEF Core, Gapless
  <1>8. LiveIsCurrent'
    <2>1. Shown' \subseteq Shown
      BY DEF Shown
    <2> QED BY <1>1, <1>2, <2>1 DEF Core, LiveIsCurrent
  <1>9. ASSUME NEW s \in Ids PROVE PlaceInv(s)'
    <2>1. PlaceInv(s)
      BY <1>1 DEF Core
    <2>2. s >= nextId' => /\ delivered'[s] = {} /\ queue'[s] = <<>>
                          /\ ~closed'[s] /\ errTask'[s] = "none"
      BY <2>1 DEF PlaceInv
    <2>3. s \in list' /\ ~closed'[s] => s \in list /\ ~closed[s]
      OBVIOUS
    <2>4. base[s] < logStart => base'[s] < logStart'
      BY PumpTypes, SubTypes
    <2> QED BY <1>2, <2>1, <2>2, <2>3, <2>4 DEF PlaceInv
  <1> QED BY <1>3, <1>4, <1>5, <1>6, <1>7, <1>8, <1>9 DEF Core

\* Nothing about the subscribers changes.
LEMMA Still ==
  ASSUME PumpInv, UNCHANGED <<closed, queue, errTask>>, list' \subseteq list
  PROVE  /\ \A s \in list' : ~closed'[s] => /\ ~closed[s] /\ errTask'[s] = "none"
                                            /\ delivered[s] = {} => queue'[s] = <<>>
         /\ \A s \in Ids : s >= nextId => /\ queue'[s] = <<>> /\ ~closed'[s]
                                          /\ errTask'[s] = "none"
  <1>1. list \subseteq Ids
    BY PumpTypes
  <1> QED BY <1>1, SubTypes DEF PlaceInv

LEMMA EdgeFacts ==
  ASSUME PumpInv
  PROVE  /\ nextAfter >= None /\ nextAfter < hw /\ None < hw
         /\ edge >= Unknown /\ edge < hw
         /\ Through < hw /\ logStart \in Int
         /\ pc # "pushLive" => Through = edge /\ Pending = {}
         /\ pc = "pushLive" => Through = Larger(nextAfter, edge) /\ Pending = batch
         /\ pc \in {"liveFetch", "pushLive", "ring", "catchUp", "pushRun"} =>
               edge # Unknown /\ edge >= None
  <1>1. EdgeInv /\ PhaseInv /\ hw \in Nat /\ edge \in Int /\ nextAfter \in Int
    BY PumpTypes DEF Core
  <1>2. logStart \in Int
    BY PumpTypes
  <1> QED BY <1>1, <1>2 DEF EdgeInv, PhaseInv, Through, Pending, Larger, None, Unknown

-----------------------------------------------------------------------------
(* What the other tasks do.                                                *)

LEMMA HandleKeeps == ASSUME PumpInv, HandleStep PROVE Core'
  <1>1. UNCHANGED <<logVars, taskVars, stateVars, queueVars, historyVars>>
    BY DEF HandleStep, Subscribe, Shutdown, Send, DropHandle
  <1>2. UNCHANGED <<hw, visible, logStart, edge, ring, floor, mode, cursor, filter, nextId, origin,
                    base, delivered, pc, batch, nextAfter, list, closed, queue, errTask, turn>>
    BY <1>1 DEF logVars, taskVars, stateVars, queueVars, historyVars, ringVars, subsVars,
                runVars
  <1>3. Core
    BY PumpTypes
  <1> QED BY <1>2, <1>3, Quiet, Still, EdgeFacts DEF Core, PhaseInv

LEMMA TrimKeeps == ASSUME PumpInv, Trim PROVE Core'
  <1>1. /\ UNCHANGED <<hw, visible, taskVars, stateVars, queueVars, historyVars>>
        /\ logStart' = logStart + 1
    BY DEF Trim
  <1>2. UNCHANGED <<hw, visible, edge, ring, floor, mode, cursor, filter, nextId, origin,
                    base, delivered, pc, batch, nextAfter, list, closed, queue, errTask, turn>>
    BY <1>1 DEF taskVars, stateVars, queueVars, historyVars, ringVars, subsVars, runVars
  <1>3. Core
    BY PumpTypes
  <1>4. logStart' \in Int /\ logStart' >= logStart
    BY <1>1, EdgeFacts
  <1> QED BY <1>2, <1>3, <1>4, Quiet, Still, EdgeFacts DEF Core, PhaseInv

\* A stream that is open has no error on its way, and a queue that holds
\* something has been sent something.
LEMMA ReaderKeeps == ASSUME PumpInv, ReaderStep PROVE Core'
  <1>1. PICK r \in Ids : Recv(r) \/ DropReceiver(r) \/ SendError(r)
    BY DEF ReaderStep
  <1>2. UNCHANGED <<logVars, taskVars, stateVars, historyVars>>
    BY <1>1 DEF Recv, DropReceiver, SendError
  <1>3. UNCHANGED <<hw, visible, logStart, edge, ring, floor, mode, cursor, filter, nextId, origin,
                    base, delivered, pc, batch, nextAfter, list, closed, turn>>
    BY <1>2 DEF logVars, taskVars, stateVars, historyVars, ringVars, subsVars, runVars
  <1>4. Core /\ list \subseteq Ids
    BY PumpTypes
  <1>5. /\ queue \in [Ids -> Seq(Int)] /\ errTask \in [Ids -> {"none", "pending", "done"}]
    BY PumpTypes DEF TypeInv, TypeOK, QueueType
  <1>6. ASSUME NEW s \in Ids, errTask[s] = "none", delivered[s] = {} \/ s >= nextId,
               queue[s] = <<>>
        PROVE  queue'[s] = <<>> /\ errTask'[s] = "none"
    <2>1. CASE Recv(r)
      BY <1>5, <1>6, <2>1 DEF Recv
    <2>2. CASE DropReceiver(r)
      BY <1>5, <1>6, <2>2 DEF DropReceiver
    <2>3. CASE SendError(r)
      BY <1>5, <1>6, <2>3 DEF SendError
    <2> QED BY <1>1, <2>1, <2>2, <2>3
  <1>7. ASSUME NEW s \in Ids, errTask[s] = "none"
        PROVE  errTask'[s] = "none"
    BY <1>1, <1>5, <1>7 DEF Recv, DropReceiver, SendError
  <1>8. /\ \A s \in list' : ~closed'[s] => /\ ~closed[s] /\ errTask'[s] = "none"
                                           /\ delivered[s] = {} => queue'[s] = <<>>
        /\ \A s \in Ids : s >= nextId => /\ queue'[s] = <<>> /\ ~closed'[s]
                                         /\ errTask'[s] = "none"
    BY <1>3, <1>4, <1>6, <1>7, SubTypes DEF PlaceInv
  <1> QED BY <1>3, <1>4, <1>8, Quiet, EdgeFacts DEF Core, PhaseInv

\* What is written lies beyond everything that was ever read or asked for.
LEMMA ProduceKeeps == ASSUME PumpInv, NEW seen \in BOOLEAN, Produce(seen) PROVE Core'
  <1>1. UNCHANGED <<logStart, taskVars, stateVars, queueVars, historyVars>> /\ hw' = hw + 1
    BY DEF Produce
  <1>2. UNCHANGED <<logStart, edge, ring, floor, mode, cursor, filter, nextId, origin, base, delivered,
                    pc, batch, nextAfter, list, closed, queue, errTask, turn>>
    BY <1>1 DEF taskVars, stateVars, queueVars, historyVars, ringVars, subsVars, runVars
  <1>3. visible' = visible \/ visible' = visible \cup {hw}
    BY DEF Produce
  <1>4. Core /\ hw \in Nat
    BY PumpTypes
  <1>5. /\ Through' = Through /\ Pending' = Pending /\ Shown' = Shown
        /\ Through \in Int /\ Through < hw
    BY <1>2, PumpTypes, EdgeFacts DEF Through, Pending, Shown
  <1>6. PhaseInv'
    BY <1>2, <1>4, <1>5 DEF Core, PhaseInv
  <1>7. EdgeInv'
    <2>1. edge \in Int /\ nextAfter \in Int /\ edge < hw' /\ nextAfter < hw'
      BY <1>1, <1>4, PumpTypes, EdgeFacts
    <2>2. visible \subseteq visible'
      BY <1>3
    <2> QED BY <1>2, <1>4, <1>5, <2>1, <2>2 DEF Core, EdgeInv
  <1>8. RunInv'
    <2>1. nextAfter \in Int /\ nextAfter < hw
      BY PumpTypes, EdgeFacts
    <2> QED BY <1>2, <1>3, <1>4, <2>1 DEF Core, RunInv
  <1>9. RingComplete'
    BY <1>2, <1>3, <1>4, <1>5 DEF Core, RingComplete
  <1>10. Gapless'
    <2> SUFFICES ASSUME NEW s \in Ids, s < nextId
                 PROVE  delivered[s] = {o \in visible' : /\ base[s] < o /\ o <= cursor[s]
                                                         /\ o \in filter[s]}
      BY <1>2 DEF Gapless
    <2>1. delivered[s] = {o \in visible : base[s] < o /\ o <= cursor[s] /\ o \in filter[s]}
      BY <1>4 DEF Core, Gapless
    <2>2. ~(base[s] < hw /\ hw <= cursor[s])
      BY <1>4, SubTypes DEF PlaceInv
    <2> QED BY <1>3, <2>1, <2>2
  <1>11. LiveIsCurrent'
    BY <1>2, <1>3, <1>4, <1>5 DEF Core, LiveIsCurrent
  <1>12. ASSUME NEW s \in Ids PROVE PlaceInv(s)'
    <2>1. PlaceInv(s) /\ cursor[s] \in Int
      BY SubTypes
    <2>2. cursor'[s] < hw' \/ cursor'[s] <= base'[s]
      BY <1>1, <1>2, <1>4, <2>1 DEF PlaceInv
    <2> QED BY <1>2, <1>5, <2>1, <2>2 DEF PlaceInv
  <1> QED BY <1>6, <1>7, <1>8, <1>9, <1>10, <1>11, <1>12 DEF Core

-----------------------------------------------------------------------------
(* Where the pump task only moves on.                                      *)

LEMMA ReturnKeeps ==
  ASSUME PumpInv, Return, pc # "pushLive",
         \A s \in Ids : s >= nextId => errTask'[s] = "none"
  PROVE  Core'
  <1>1. /\ UNCHANGED <<logVars, stateVars, historyVars, edge, ringVars, nextId, queue>>
        /\ pc' = "done" /\ list' = {} /\ nextAfter' = None
    BY DEF Return, EndRun
  <1>2. UNCHANGED <<hw, visible, logStart, edge, ring, floor, mode, cursor, filter, nextId, origin,
                    base, delivered, closed, queue>>
    BY <1>1 DEF logVars, stateVars, historyVars, ringVars
  <1>3. \A s \in Ids : s >= nextId => queue[s] = <<>> /\ ~closed[s]
    BY SubTypes DEF PlaceInv
  <1> QED BY <1>1, <1>2, <1>3, Quiet, EdgeFacts DEF None

LEMMA ReturnCleanlyKeeps ==
  ASSUME PumpInv, ReturnCleanly, pc # "pushLive" PROVE Core'
  <1>1. \A s \in Ids : s >= nextId => errTask'[s] = "none"
    BY SubTypes DEF ReturnCleanly, PlaceInv
  <1> QED BY <1>1, ReturnKeeps DEF ReturnCleanly

LEMMA FailSubsKeeps ==
  ASSUME PumpInv, FailSubs, pc # "pushLive" PROVE Core'
  <1>1. ASSUME NEW s \in Ids, s >= nextId PROVE errTask'[s] = "none"
    <2>1. s \notin list /\ errTask[s] = "none"
      BY <1>1, PumpTypes, SubTypes DEF PlaceInv
    <2> QED BY <2>1 DEF FailSubs
  <1> QED BY <1>1, ReturnKeeps DEF FailSubs

\* The pump goes on with the same subscribers, or fewer.
LEMMA MovesOn ==
  ASSUME PumpInv, pc \notin {"pushLive", "pushRun"}, pc' \notin {"pushLive", "pushRun"},
         UNCHANGED <<hw, visible, logStart, edge, ring, floor, mode, cursor, filter, nextId,
                     origin, base, delivered, closed, queue, errTask, nextAfter>>,
         list' \subseteq list,
         pc' \in {"liveFetch", "ring", "catchUp"} => edge # Unknown,
         pc' = "liveStart" => edge = Unknown,
         pc' = "catchUp" => /\ turn' \in list' /\ mode[turn'] = "CatchingUp"
                            /\ ~closed[turn'] /\ floor > None,
         pc' \in {"idle", "drain", "liveStart", "liveFetch"} => \A s \in list' : ~closed[s]
  PROVE  Core'
  BY Quiet, Still, EdgeFacts

LEMMA RetainKeeps == ASSUME PumpInv, RetainLive PROVE Core'
  <1>1. /\ UNCHANGED <<logVars, edge, ringVars, nextId, runVars, stateVars, queueVars, historyVars>>
        /\ list' = {s \in list : ~closed[s] /\ ~gone[s]} /\ pc = "top"
        /\ pc' \in {"idle", "drain"}
    BY DEF RetainLive
  <1>2. UNCHANGED <<hw, visible, logStart, edge, ring, floor, mode, cursor, filter, nextId,
                     origin, base, delivered, closed, queue, errTask, nextAfter>>
    BY <1>1 DEF logVars, stateVars, historyVars, ringVars, runVars, queueVars
  <1> QED BY <1>1, <1>2, MovesOn

LEMMA DrainedKeeps == ASSUME PumpInv, CommandsDrained PROVE Core'
  <1>1. /\ UNCHANGED <<logVars, edge, ringVars, subsVars, runVars, stateVars, queueVars, historyVars>>
        /\ pc = "drain" /\ pc' \in {"liveStart", "liveFetch"}
        /\ pc' = "liveFetch" => edge # Unknown
        /\ pc' = "liveStart" => edge = Unknown
    BY DEF CommandsDrained
  <1>2. UNCHANGED <<hw, visible, logStart, edge, ring, floor, mode, cursor, filter, nextId,
                     origin, base, delivered, closed, queue, errTask, nextAfter, list>>
    BY <1>1 DEF logVars, stateVars, historyVars, ringVars, runVars, queueVars, subsVars
  <1>3. \A s \in list : ~closed[s]
    BY <1>1, PumpTypes DEF Core, PhaseInv
  <1> QED BY <1>1, <1>2, <1>3, MovesOn

LEMMA LivePathFailsKeeps ==
  ASSUME PumpInv,
         \E permanent \in BOOLEAN : LiveStartFails(permanent) \/ LiveFetchFails(permanent)
  PROVE  Core'
  <1>1. pc \in {"liveStart", "liveFetch"}
    BY DEF LiveStartFails, LiveFetchFails
  <1>2. CASE FailSubs
    BY <1>1, <1>2, FailSubsKeeps
  <1>3. CASE ~FailSubs
    <2>1. /\ UNCHANGED <<logVars, edge, ringVars, subsVars, nextAfter, stateVars, queueVars, historyVars>>
          /\ pc' \in {"top", "ring"}
          /\ pc' = "ring" => pc = "liveFetch"
      BY <1>3 DEF LiveStartFails, LiveFetchFails, LivePathFails
    <2>2. UNCHANGED <<hw, visible, logStart, edge, ring, floor, mode, cursor, filter, nextId,
                       origin, base, delivered, closed, queue, errTask, nextAfter, list>>
      BY <2>1 DEF logVars, stateVars, historyVars, ringVars, queueVars, subsVars
    <2> QED BY <1>1, <2>1, <2>2, MovesOn, EdgeFacts
  <1> QED BY <1>2, <1>3

LEMMA NextFetchKeeps == ASSUME PumpInv, NextFetch PROVE Core'
  <1>1. /\ UNCHANGED <<logVars, edge, ringVars, list, nextId, nextAfter, stateVars, queueVars,
                       origin, base, delivered>>
        /\ pc = "ring" /\ pc' \in {"top", "catchUp"}
        /\ pc' = "catchUp" => turn' \in list /\ NeedsFetch(turn')
    BY DEF NextFetch
  <1>2. UNCHANGED <<hw, visible, logStart, edge, ring, floor, mode, cursor, filter, nextId,
                     origin, base, delivered, closed, queue, errTask, nextAfter, list>>
    BY <1>1 DEF logVars, stateVars, ringVars, queueVars
  <1>3. ASSUME pc' = "catchUp"
        PROVE  mode[turn'] = "CatchingUp" /\ ~closed[turn'] /\ floor > None
    <2>1. turn' \in Ids /\ floor \in Int
      BY <1>1, <1>3, PumpTypes
    <2>2. cursor[turn'] \in Int /\ cursor[turn'] >= None
      BY <2>1, SubTypes DEF PlaceInv
    <2> QED BY <1>1, <1>3, <2>1, <2>2 DEF NeedsFetch, Covers, None
  <1> QED BY <1>1, <1>2, <1>3, MovesOn, EdgeFacts

LEMMA CatchUpFailsKeeps == ASSUME PumpInv, CatchUpFails PROVE Core'
  <1>1. /\ UNCHANGED <<logVars, edge, ringVars, subsVars, mode, cursor, filter, queue, gone,
                       historyVars>>
        /\ pc = "catchUp" /\ pc' = "top" /\ nextAfter' = None
    BY DEF CatchUpFails, EndRun
  <1>2. UNCHANGED <<hw, visible, logStart, edge, ring, floor, mode, cursor, filter, nextId,
                     origin, base, delivered, queue, list>>
    BY <1>1 DEF logVars, historyVars, ringVars, subsVars
  <1>3. turn \in list /\ turn \in Ids /\ turn < nextId /\ ~closed[turn]
    BY <1>1, PumpTypes DEF Core, PhaseInv
  <1>4. closed \in [Ids -> BOOLEAN] /\ errTask \in [Ids -> {"none", "pending", "done"}]
    BY PumpTypes DEF TypeInv, TypeOK, StateType, QueueType
  <1>5. \/ /\ closed' = [closed EXCEPT ![turn] = TRUE]
           /\ errTask' = [errTask EXCEPT ![turn] = "pending"]
        \/ /\ closed' = [closed EXCEPT ![turn] = FALSE]
           /\ errTask' = errTask
    <2> DEFINE spent == failures[turn] + 1 > MaxErrors
    <2>1. /\ closed' = [closed EXCEPT ![turn] = spent]
          /\ errTask' = IF spent THEN [errTask EXCEPT ![turn] = "pending"] ELSE errTask
      BY DEF CatchUpFails
    <2>2. spent \in BOOLEAN
      OBVIOUS
    <2> HIDE DEF spent
    <2> QED BY <2>1, <2>2
  <1>6. ASSUME NEW s \in Ids
        PROVE  /\ s # turn => closed'[s] = closed[s] /\ errTask'[s] = errTask[s]
               /\ s = turn /\ ~closed'[s] => errTask'[s] = errTask[s]
    BY <1>3, <1>4, <1>5
  <1>7. /\ \A s \in list' : ~closed'[s] => /\ ~closed[s] /\ errTask'[s] = "none"
                                           /\ delivered[s] = {} => queue'[s] = <<>>
        /\ \A s \in Ids : s >= nextId => /\ queue'[s] = <<>> /\ ~closed'[s]
                                         /\ errTask'[s] = "none"
    <2>1. ASSUME NEW s \in list, ~closed'[s]
          PROVE  /\ ~closed[s] /\ errTask'[s] = "none"
                 /\ delivered[s] = {} => queue[s] = <<>>
      <3>1. s \in Ids
        BY PumpTypes
      <3>2. ~closed[s] /\ errTask'[s] = errTask[s]
        BY <1>3, <1>6, <2>1, <3>1
      <3> QED BY <3>1, <3>2, SubTypes DEF PlaceInv
    <2>2. ASSUME NEW s \in Ids, s >= nextId
          PROVE  queue[s] = <<>> /\ ~closed'[s] /\ errTask'[s] = "none"
      <3>1. s # turn
        BY <1>3, <2>2, PumpTypes
      <3> QED BY <1>6, <2>2, <3>1, SubTypes DEF PlaceInv
    <2> QED BY <1>2, <2>1, <2>2
  <1> QED BY <1>1, <1>2, <1>7, Quiet, EdgeFacts DEF None

\* A new subscriber has been sent nothing, and is owed nothing the live path
\* has read if that is what it follows.
LEMMA SubscribeKeeps ==
  ASSUME PumpInv, ReceiveCommand, Head(commands).kind # "Shutdown"
  PROVE  Core'
  <1> DEFINE c == Head(commands)
             n == nextId
  <1>1. /\ UNCHANGED <<logVars, edge, ringVars, runVars, queueVars, closed, origin, delivered>>
        /\ pc \in {"idle", "drain"} /\ pc' = "drain"
        /\ nextId' = n + 1 /\ list' = list \cup {n}
        /\ mode' = [mode EXCEPT ![n] = IF c.position = LatestP THEN "Live" ELSE "CatchingUp"]
        /\ cursor' = [cursor EXCEPT ![n] = IF c.position = LatestP THEN None ELSE c.position]
        /\ filter' = [filter EXCEPT ![n] = c.filter]
        /\ base' = [base EXCEPT ![n] = IF c.position # LatestP THEN c.position
                                       ELSE IF edge = Unknown THEN None ELSE edge]
    BY DEF ReceiveCommand, HandleSubscribe
  <1>2. UNCHANGED <<hw, visible, logStart, edge, ring, floor, batch, nextAfter, turn, queue, errTask>>
    BY <1>1 DEF logVars, ringVars, runVars, queueVars
  <1>3. Core /\ n \in Nat /\ hw \in Nat /\ edge \in Int
    BY PumpTypes
  <1>4. n \in Ids
    <2>1. commands \in Seq(Commands) /\ commands # <<>>
      BY PumpTypes DEF TypeInv, TypeOK, ChanType, ReceiveCommand
    <2>2. Len(commands) \in Nat \ {0} /\ Head(commands) = commands[1]
      BY <2>1
    <2>3. Len(commands) = 1 => commands[Len(commands)].kind # "Shutdown"
      BY <2>2
    <2>4. \/ Len(commands) + n <= MaxSubs
          \/ Len(commands) + n = MaxSubs + 1 /\ Len(commands) # 1
      <3>1. CommandBound
        BY DEF PumpInv
      <3> QED BY <2>3, <3>1 DEF CommandBound
    <2>5. MaxSubs \in Nat /\ Len(commands) \in Nat /\ Len(commands) >= 1
      BY <2>2, PumpAssumption
    <2>6. n <= MaxSubs - 1
      BY <1>3, <2>4, <2>5
    <2> QED BY <1>3, <2>5, <2>6 DEF Ids
  <1>5. c.position \in {LatestP, None} \cup Nat
    <2>1. commands \in Seq(Commands) /\ commands # <<>>
      BY PumpTypes DEF TypeInv, TypeOK, ChanType, ReceiveCommand
    <2>2. c \in Commands
      BY <2>1
    <2> QED BY <2>2 DEF Commands
  <1> HIDE DEF c
  <1>6. /\ mode \in [Ids -> {"Live", "CatchingUp"}] /\ cursor \in [Ids -> Int]
        /\ base \in [Ids -> Int] /\ filter \in [Ids -> SUBSET Nat]
    BY PumpTypes DEF TypeInv, TypeOK, StateType, HistoryType
  <1>7. \A s \in Ids \ {n} : /\ mode'[s] = mode[s] /\ cursor'[s] = cursor[s]
                             /\ base'[s] = base[s] /\ filter'[s] = filter[s]
    BY <1>1, <1>4, <1>6
  <1>8. /\ delivered[n] = {} /\ queue[n] = <<>> /\ ~closed[n] /\ errTask[n] = "none"
        /\ n \notin list
    BY <1>3, <1>4, PumpTypes, SubTypes DEF PlaceInv
  <1>9. /\ cursor'[n] \in Int /\ base'[n] \in Int /\ cursor'[n] >= None /\ base'[n] >= None
        /\ mode'[n] = "CatchingUp" => cursor'[n] = base'[n]
        /\ mode'[n] = "Live" => /\ cursor'[n] = None
                                /\ edge # Unknown => base'[n] = edge
                                /\ edge = Unknown => base'[n] = None
        /\ mode'[n] \in {"CatchingUp", "Live"}
    <2>1. edge # Unknown => edge >= None
      BY <1>3, EdgeFacts DEF None, Unknown
    <2>2. CASE c.position = LatestP
      BY <1>1, <1>3, <1>4, <1>6, <2>1, <2>2 DEF None
    <2>3. CASE c.position # LatestP
      BY <1>1, <1>3, <1>4, <1>5, <1>6, <2>3 DEF None
    <2> QED BY <2>2, <2>3
  <1>10. /\ Through = edge /\ Through' = edge /\ Pending = {} /\ Pending' = {}
    BY <1>1, <1>2 DEF Through, Pending
  <1>11. list' \subseteq Ids /\ \A s \in list' : s = n \/ s \in list \ {n}
    BY <1>1, <1>4, <1>8, PumpTypes
  <1>12. PhaseInv'
    <2>1. PhaseInv
      BY <1>3 DEF Core
    <2>2. \A s \in list' : ~closed'[s]
      BY <1>1, <1>8, <2>1 DEF PhaseInv
    <2>3. edge = Unknown => \A s \in list' : mode'[s] = "Live" =>
                             cursor'[s] = None /\ base'[s] = None
      BY <1>7, <1>9, <1>11, <2>1, PumpTypes DEF PhaseInv
    <2> QED BY <1>1, <1>2, <1>10, <2>1, <2>2, <2>3 DEF PhaseInv
  <1>13. EdgeInv'
    BY <1>1, <1>2, <1>3, <1>10 DEF Core, EdgeInv
  <1>14. RunInv' /\ RingComplete'
    BY <1>1, <1>2, <1>3, <1>10 DEF Core, RunInv, RingComplete
  <1>15. Gapless'
    <2> SUFFICES ASSUME NEW s \in Ids, s < n + 1
                 PROVE  delivered[s] = {o \in visible : /\ base'[s] < o /\ o <= cursor'[s]
                                                        /\ o \in filter'[s]}
      BY <1>1, <1>2 DEF Gapless
    <2>1. CASE s = n
      <3>1. \A o \in visible : o \in Nat
        BY PumpTypes
      <3> QED BY <1>8, <1>9, <2>1, <3>1 DEF None
    <2>2. CASE s # n
      <3>1. s < n
        BY <1>3, <2>2, PumpTypes
      <3> QED BY <1>3, <1>7, <2>2, <3>1 DEF Core, Gapless
    <2> QED BY <2>1, <2>2
  <1>16. LiveIsCurrent'
    <2> SUFFICES ASSUME NEW s \in Shown', edge # Unknown, NEW o \in visible,
                        Larger(cursor'[s], base'[s]) < o, o <= edge
                 PROVE  FALSE
      BY <1>2, <1>10 DEF LiveIsCurrent
    <2>1. s \in list' /\ mode'[s] = "Live" /\ ~closed'[s] /\ o \in Nat
      BY PumpTypes DEF Shown
    <2>2. CASE s = n
      BY <1>3, <1>9, <2>1, <2>2 DEF Larger
    <2>3. CASE s # n
      <3>1. s \in Shown /\ s \in Ids
        BY <1>1, <1>7, <1>11, <2>1, <2>3 DEF Shown
      <3>2. Larger(cursor[s], base[s]) < o
        BY <1>7, <2>3, <3>1
      <3> QED BY <1>3, <1>10, <3>1, <3>2 DEF Core, LiveIsCurrent
    <2> QED BY <2>2, <2>3
  <1>17. ASSUME NEW s \in Ids PROVE PlaceInv(s)'
    <2>1. CASE s = n
      <3>1. cursor'[n] < hw \/ cursor'[n] <= base'[n]
        BY <1>3, <1>9 DEF None
      <3>2. edge # Unknown => None <= edge
        BY <1>3, EdgeFacts DEF None, Unknown
      <3>3. edge = None => edge < logStart
        BY PumpTypes DEF None
      <3> QED BY <1>1, <1>2, <1>3, <1>8, <1>9, <1>10, <2>1, <3>1, <3>2, <3>3 DEF PlaceInv
    <2>2. CASE s # n
      <3>1. PlaceInv(s) /\ s \in Nat
        BY PumpTypes, SubTypes
      <3>2. s >= nextId' => s >= nextId
        BY <1>1, <1>3, <3>1
      <3>3. s \in list' <=> s \in list
        BY <1>1, <2>2
      <3> QED BY <1>1, <1>2, <1>7, <1>10, <2>2, <3>1, <3>2, <3>3 DEF PlaceInv
    <2> QED BY <2>1, <2>2
  <1> QED BY <1>12, <1>13, <1>14, <1>15, <1>16, <1>17 DEF Core

LEMMA CommandKeeps ==
  ASSUME PumpInv, ReceiveCommand \/ IdleTimeout \/ HandlesGone
  PROVE  Core'
  <1>1. CASE ReturnCleanly /\ pc # "pushLive"
    BY <1>1, ReturnCleanlyKeeps
  <1>2. CASE ReceiveCommand /\ Head(commands).kind # "Shutdown"
    BY <1>2, SubscribeKeeps
  <1> QED BY <1>1, <1>2 DEF ReceiveCommand, IdleTimeout, HandlesGone

-----------------------------------------------------------------------------
(* The live path.                                                          *)

\* Nobody has been sent anything before the live path knows where it starts.
LEMMA LiveStartKeeps == ASSUME PumpInv, LiveStartOk PROVE Core'
  <1>1. /\ UNCHANGED <<logVars, ring, subsVars, runVars, stateVars, queueVars, delivered>>
        /\ edge' = hw - 1 /\ floor' = hw - 1 /\ origin' = hw - 1
        /\ base' = [s \in Ids |-> IF s \in list /\ mode[s] = "Live" THEN hw - 1 ELSE base[s]]
        /\ pc = "liveStart" /\ pc' = "liveFetch"
    BY DEF LiveStartOk
  <1>2. UNCHANGED <<hw, visible, logStart, ring, list, nextId, batch, nextAfter, turn, mode, cursor,
                    closed, filter, queue, errTask, delivered>>
    BY <1>1 DEF logVars, subsVars, runVars, stateVars, queueVars
  <1>3. Core /\ hw \in Nat
    BY PumpTypes
  <1>4. /\ edge = Unknown /\ ring = {} /\ floor = None
        /\ \A s \in list : mode[s] = "Live" => cursor[s] = None
        /\ \A s \in list : ~closed[s]
    BY <1>1, <1>3 DEF Core, PhaseInv
  <1>5. \A s \in Ids : delivered[s] = {}
    BY <1>1, <1>3, <1>4 DEF Core, PhaseInv, Through
  <1>6. Through' = hw - 1 /\ Pending' = {}
    BY <1>1 DEF Through, Pending
  <1>7. edge' # Unknown /\ edge' >= None
    BY <1>1, <1>3 DEF Unknown, None
  <1>8. PhaseInv'
    BY <1>1, <1>2, <1>4, <1>5, <1>7 DEF PhaseInv
  <1>9. EdgeInv'
    <2>1. nextAfter >= None /\ nextAfter < hw
      BY EdgeFacts
    <2> QED BY <1>1, <1>2, <1>3, <1>5, <1>6, <2>1 DEF EdgeInv, None, Unknown
  <1>10. RunInv'
    BY <1>1 DEF RunInv
  <1>11. RingComplete'
    BY <1>1, <1>2, <1>3, <1>4, <1>6, PumpTypes DEF RingComplete, Larger
  <1>12. Gapless'
    <2> SUFFICES ASSUME NEW s \in Ids, s < nextId
                 PROVE  {o \in visible : base'[s] < o /\ o <= cursor[s] /\ o \in filter[s]} = {}
      BY <1>2, <1>5 DEF Gapless
    <2>1. CASE s \in list /\ mode[s] = "Live"
      BY <1>4, <2>1, PumpTypes DEF None
    <2>2. CASE ~(s \in list /\ mode[s] = "Live")
      <3>1. base'[s] = base[s]
        BY <1>1, <2>2
      <3> QED BY <1>3, <1>5, <3>1 DEF Core, Gapless
    <2> QED BY <2>1, <2>2
  <1>13. LiveIsCurrent'
    <2> SUFFICES ASSUME NEW s \in Shown', NEW o \in visible,
                        Larger(cursor[s], base'[s]) < o, o <= hw - 1
                 PROVE  FALSE
      BY <1>2, <1>6 DEF LiveIsCurrent
    <2>1. s \in list /\ mode[s] = "Live" /\ s \in Ids
      BY <1>2, PumpTypes DEF Shown
    <2>2. base'[s] = hw - 1 /\ cursor[s] \in Int
      BY <1>1, <2>1, SubTypes
    <2> QED BY <1>3, <2>2, PumpTypes DEF Larger
  <1>14. ASSUME NEW s \in Ids PROVE PlaceInv(s)'
    <2>1. PlaceInv(s) /\ cursor[s] \in Int /\ base[s] \in Int
      BY SubTypes
    <2>2. CASE s \in list /\ mode[s] = "Live"
      <3>1. base'[s] = hw - 1 /\ cursor[s] = None
        BY <1>1, <1>4, <2>2
      <3>2. hw - 1 = None => hw - 1 < logStart
        BY <1>3, PumpTypes DEF None
      <3> QED BY <1>1, <1>2, <1>3, <1>5, <1>6, <2>1, <2>2, <3>1, <3>2 DEF PlaceInv, None
    <2>3. CASE ~(s \in list /\ mode[s] = "Live")
      <3>1. base'[s] = base[s]
        BY <1>1, <2>3
      <3>2. s \in list /\ ~closed[s] /\ mode[s] = "CatchingUp" => base[s] <= cursor[s]
        BY <1>4, <2>1 DEF PlaceInv, None
      <3>3. (s \in list /\ ~closed[s]) => /\ errTask[s] = "none"
                                          /\ delivered[s] = {} => queue[s] = <<>>
        BY <2>1 DEF PlaceInv
      <3> QED BY <1>2, <2>1, <2>3, <3>1, <3>2, <3>3 DEF PlaceInv
    <2> QED BY <2>2, <2>3
  <1> QED BY <1>8, <1>9, <1>10, <1>11, <1>12, <1>13, <1>14 DEF Core

LEMMA FetchFacts ==
  ASSUME PumpInv, NEW after \in Int, after >= None, Servable(after), NEW end \in FetchEnds(after)
  PROVE  /\ FetchFrom(after) \in Nat
         /\ end \in Int /\ end >= None /\ end < hw
         /\ end = None \/ FetchFrom(after) <= end
         /\ after # None => FetchFrom(after) = after + 1
         /\ after = None => FetchFrom(after) = logStart
         /\ Fetched(after, end) = {o \in visible : FetchFrom(after) <= o /\ o <= end}
  <1>1. hw \in Nat /\ logStart \in Nat
    BY PumpTypes
  <1>2. FetchFrom(after) \in Nat
    BY <1>1 DEF FetchFrom, None
  <1>3. /\ end \in Int /\ end >= None /\ end < hw
        /\ end = None \/ FetchFrom(after) <= end
    BY <1>1, <1>2 DEF FetchEnds, None
  <1> QED BY <1>2, <1>3 DEF FetchFrom, Fetched

LEMMA LiveFetchKeeps == ASSUME PumpInv, LiveFetchOk PROVE Core'
  <1>1. /\ UNCHANGED <<logVars, edge, ringVars, subsVars, turn, stateVars, queueVars, delivered>>
        /\ origin' = IF edge = None THEN logStart - 1 ELSE origin
        /\ base' = [s \in Ids |-> IF edge = None /\ s \in list /\ mode[s] = "Live"
                                  THEN logStart - 1 ELSE base[s]]
        /\ pc = "liveFetch" /\ pc' = "pushLive" /\ Servable(edge)
    BY DEF LiveFetchOk
  <1>2. UNCHANGED <<hw, visible, logStart, edge, ring, floor, list, nextId, turn, mode, cursor, closed,
                    filter, queue, errTask, delivered>>
    BY <1>1 DEF logVars, ringVars, subsVars, stateVars, queueVars
  <1>3. /\ Core /\ hw \in Nat /\ logStart \in Nat /\ edge \in Int /\ floor \in Int
        /\ origin \in Int /\ logStart <= hw
    BY PumpTypes
  <1>4. edge # Unknown /\ edge >= None /\ edge < hw /\ Through = edge /\ Pending = {}
    BY <1>1, EdgeFacts
  <1>5. PICK end \in FetchEnds(edge) : nextAfter' = end /\ batch' = Fetched(edge, end)
    BY DEF LiveFetchOk
  <1> DEFINE from == FetchFrom(edge)
  <1>6. /\ from \in Nat /\ end \in Int /\ end >= None /\ end < hw
        /\ end = None \/ from <= end
        /\ edge # None => from = edge + 1
        /\ edge = None => from = logStart
        /\ Fetched(edge, end) = {o \in visible : from <= o /\ o <= end}
    BY <1>1, <1>3, <1>4, FetchFacts
  <1> HIDE DEF from
  <1>7. /\ batch' = {o \in visible : from <= o /\ o <= end}
        /\ Through' = Larger(end, edge) /\ Pending' = batch'
    BY <1>1, <1>2, <1>5, <1>6 DEF Through, Pending
  <1>8. /\ edge <= Through' /\ end <= Through' /\ Through' \in Int
        /\ Through' = end \/ Through' = edge
        /\ edge < from
    BY <1>3, <1>4, <1>6, <1>7 DEF Larger, None
  <1>9. \A s \in list : ~closed[s]
    BY <1>1, <1>3 DEF Core, PhaseInv
  <1>10. edge = None => /\ floor = None /\ ring = {}
                        /\ \A s \in Ids : delivered[s] = {}
                        /\ \A s \in list : mode[s] = "Live" => cursor[s] = None
    <2> SUFFICES ASSUME edge = None
                 PROVE  /\ floor = None /\ ring = {}
                        /\ \A s \in Ids : delivered[s] = {}
                        /\ \A s \in list : mode[s] = "Live" => cursor[s] = None
      OBVIOUS
    <2>1. floor = None
      BY <1>3, <1>4 DEF Core, EdgeInv, None
    <2>2. ring = {}
      <3>1. ring = {o \in visible : Larger(floor, origin) < o /\ o <= edge /\ o \notin {}}
        BY <1>3, <1>4 DEF Core, RingComplete
      <3> QED BY <3>1, PumpTypes DEF None
    <2>3. \A s \in Ids : delivered[s] = {}
      BY <1>3, <1>4 DEF Core, PhaseInv
    <2>4. ASSUME NEW s \in list, mode[s] = "Live" PROVE cursor[s] = None
      <3>1. s \in Ids /\ ~closed[s]
        BY <1>9, PumpTypes
      <3>2. PlaceInv(s) /\ cursor[s] \in Int
        BY <3>1, SubTypes
      <3>3. cursor[s] <= edge /\ cursor[s] >= None
        BY <1>4, <2>4, <3>1, <3>2 DEF PlaceInv
      <3> QED BY <1>3, <3>2, <3>3 DEF None
    <2> QED BY <2>1, <2>2, <2>3, <2>4
  <1>11. /\ \A s \in Ids : base'[s] = base[s] \/ (/\ edge = None /\ s \in list
                                                  /\ mode[s] = "Live" /\ base'[s] = logStart - 1)
         /\ \A s \in list : mode[s] = "Live" /\ edge = None => base'[s] = logStart - 1
         /\ edge # None => \A s \in Ids : base'[s] = base[s]
    BY <1>1, PumpTypes
  <1>12. PhaseInv'
    <2>1. Through' \in {Unknown, None} => \A s \in Ids : delivered'[s] = {}
      BY <1>2, <1>3, <1>4, <1>8, <1>10 DEF Unknown, None
    <2> QED BY <1>1, <1>2, <1>4, <2>1 DEF PhaseInv
  <1>13. EdgeInv'
    <2>1. EdgeInv /\ RingComplete
      BY <1>3 DEF Core
    <2>2. floor >= None /\ floor <= edge /\ origin >= None /\ (edge # None => origin <= edge)
      BY <1>4, <2>1 DEF EdgeInv
    <2>3. origin' \in Int /\ origin' >= None /\ origin' < from
          /\ (end # None => origin' <= end)
      BY <1>1, <1>3, <1>4, <1>6, <2>2 DEF None
    <2>4. floor <= Through' /\ (edge # None => origin' <= edge)
      BY <1>1, <1>3, <1>8, <2>2
    <2>5. floor < origin' => /\ floor = None /\ origin' < logStart
                             /\ \A s \in Ids : \A o \in delivered[s] : origin' < o
      BY <1>1, <1>3, <1>4, <1>10, <2>1 DEF EdgeInv
    <2>6. \A o \in batch' : o \in Nat /\ o \in visible /\ from <= o /\ o <= end
      BY <1>7, PumpTypes
    <2>7. \A o \in batch' : edge < o /\ o <= nextAfter' /\ floor < o /\ origin' < o
      BY <1>3, <1>5, <1>6, <1>8, <2>2, <2>3, <2>6
    <2>8. \A o \in ring : o \in Nat /\ o <= edge
      BY <1>4, <2>1, PumpTypes DEF RingComplete
    <2>9. \A o \in ring : \A p \in batch' : o < p
      BY <1>3, <1>6, <1>8, <2>6, <2>8
    <2>10. /\ edge' >= Unknown /\ edge' < hw' /\ nextAfter' >= None /\ nextAfter' < hw'
           /\ floor' >= None /\ origin' >= None /\ floor' <= Through'
           /\ edge' # None => origin' <= edge'
      BY <1>2, <1>3, <1>4, <1>5, <1>6, <2>2, <2>3, <2>4 DEF None, Unknown
    <2>11. floor' < origin' =>
              /\ floor' = None /\ origin' < logStart'
              /\ \A s \in Ids : \A o \in delivered'[s] : origin' < o
      BY <1>2, <2>5
    <2>12. /\ batch' \subseteq visible'
           /\ \A o \in batch' : edge' < o /\ o <= nextAfter' /\ floor' < o /\ origin' < o
           /\ \A o \in ring' : \A p \in batch' : o < p
           /\ nextAfter' # None => origin' <= nextAfter'
      BY <1>2, <1>5, <2>3, <2>6, <2>7, <2>9
    <2> QED BY <2>10, <2>11, <2>12 DEF EdgeInv
  <1>14. RunInv'
    BY <1>1 DEF RunInv
  <1>15. RingComplete'
    <2> SUFFICES ring = {o \in visible : /\ Larger(floor, origin') < o /\ o <= Through'
                                         /\ o \notin batch'}
      BY <1>2, <1>7 DEF RingComplete
    <2>1. CASE edge # None
      <3>1. origin' = origin /\ ring = {o \in visible : Larger(floor, origin) < o /\ o <= edge}
        BY <1>1, <1>3, <1>4, <2>1 DEF Core, RingComplete
      <3>2. \A o \in visible : o \in Nat /\ (o <= edge <=> o <= Through' /\ o \notin batch')
        BY <1>3, <1>6, <1>7, <1>8, <2>1, PumpTypes
      <3> QED BY <3>1, <3>2
    <2>2. CASE edge = None
      <3>1. ring = {} /\ origin' = logStart - 1 /\ from = logStart /\ floor = None
        BY <1>1, <1>6, <1>10, <2>2
      <3>2. \A o \in visible : o \in Nat /\ ~(logStart - 1 < o /\ o <= Through' /\ o \notin batch')
        BY <1>3, <1>6, <1>7, <1>8, <2>2, <3>1, PumpTypes DEF None
      <3> QED BY <1>3, <3>1, <3>2 DEF Larger, None
    <2> QED BY <2>1, <2>2
  <1>16. Gapless'
    <2> SUFFICES ASSUME NEW s \in Ids, s < nextId
                 PROVE  delivered[s] = {o \in visible : /\ base'[s] < o /\ o <= cursor[s]
                                                        /\ o \in filter[s]}
      BY <1>2 DEF Gapless
    <2>1. CASE base'[s] = base[s]
      BY <1>3, <2>1 DEF Core, Gapless
    <2>2. CASE edge = None /\ s \in list /\ mode[s] = "Live"
      BY <1>10, <2>2, PumpTypes DEF None
    <2> QED BY <1>11, <2>1, <2>2
  <1>17. LiveIsCurrent'
    <2> SUFFICES ASSUME NEW s \in Shown', NEW o \in visible,
                        Larger(cursor[s], base'[s]) < o, o <= Through'
                 PROVE  o \in batch'
      BY <1>2, <1>7 DEF LiveIsCurrent
    <2>1. s \in list /\ mode[s] = "Live" /\ s \in Ids /\ s \in Shown /\ o \in Nat
      BY <1>2, PumpTypes DEF Shown
    <2>2. from <= o
      <3>1. CASE edge # None
        <4>1. ~(o <= edge)
          BY <1>3, <1>4, <1>11, <2>1, <3>1 DEF Core, LiveIsCurrent
        <4> QED BY <1>3, <1>6, <2>1, <3>1, <4>1
      <3>2. CASE edge = None
        <4>1. base'[s] = logStart - 1 /\ cursor[s] \in Int
          BY <1>11, <2>1, <3>2, SubTypes
        <4> QED BY <1>3, <1>6, <2>1, <3>2, <4>1 DEF Larger
      <3> QED BY <3>1, <3>2
    <2>3. o <= end
      BY <1>3, <1>6, <1>8, <2>1, <2>2
    <2> QED BY <1>7, <2>2, <2>3
  <1>18. ASSUME NEW s \in Ids PROVE PlaceInv(s)'
    <2>1. PlaceInv(s) /\ cursor[s] \in Int /\ base[s] \in Int
      BY SubTypes
    <2>2. base'[s] \in Int /\ base'[s] >= None
      BY <1>3, <1>11, <2>1 DEF PlaceInv, None
    <2>3. cursor[s] < hw \/ cursor[s] <= base'[s]
      BY <1>3, <1>10, <1>11, <2>1 DEF PlaceInv, None
    <2>4. ASSUME s \in list, mode[s] = "CatchingUp"
          PROVE  base'[s] = base[s]
      BY <1>11, <2>4
    <2>5. ASSUME s \in list, mode[s] = "Live"
          PROVE  /\ cursor[s] <= Through'
                 /\ Through' # None => base'[s] <= Through'
                 /\ edge = None => base'[s] < logStart
                 /\ \A o \in batch' : cursor[s] < o /\ base'[s] < o
      <3>1. cursor[s] <= edge /\ (edge # None => base[s] <= edge)
        BY <1>4, <1>9, <2>1, <2>5 DEF PlaceInv
      <3>2. cursor[s] <= Through'
        BY <1>3, <1>8, <2>1, <3>1
      <3>3. base'[s] < from
        BY <1>3, <1>6, <1>8, <1>11, <2>1, <2>5, <3>1
      <3>4. Through' # None => base'[s] <= Through'
        BY <1>3, <1>6, <1>8, <1>11, <2>1, <2>2, <2>5, <3>1, <3>3
      <3>5. \A o \in batch' : o \in Nat /\ from <= o
        BY <1>7, PumpTypes
      <3>6. \A o \in batch' : cursor[s] < o /\ base'[s] < o
        BY <1>3, <1>6, <1>8, <2>1, <2>2, <3>1, <3>3, <3>5
      <3>7. edge = None => base'[s] < logStart
        BY <1>3, <1>11, <2>5
      <3> QED BY <3>2, <3>4, <3>6, <3>7
    <2> QED BY <1>2, <1>7, <2>1, <2>2, <2>3, <2>4, <2>5 DEF PlaceInv
  <1> QED BY <1>12, <1>13, <1>14, <1>15, <1>16, <1>17, <1>18 DEF Core

\* What one event does to one subscriber.
LEMMA Outcome ==
  ASSUME PumpInv, NEW e, PushLiveAll(e), NEW s \in Ids
  PROVE  \/ /\ s \notin Shown
            /\ cursor'[s] = cursor[s] /\ mode'[s] = mode[s] /\ closed'[s] = closed[s]
            /\ queue'[s] = queue[s] /\ delivered'[s] = delivered[s]
         \/ /\ s \in Shown /\ e \notin filter[s]
            /\ cursor'[s] = e /\ mode'[s] = mode[s] /\ closed'[s] = closed[s]
            /\ queue'[s] = queue[s] /\ delivered'[s] = delivered[s]
         \/ /\ s \in Shown /\ e \in filter[s]
            /\ cursor'[s] = e /\ mode'[s] = mode[s] /\ closed'[s] = closed[s]
            /\ queue'[s] = Append(queue[s], e) /\ delivered'[s] = delivered[s] \cup {e}
         \/ /\ s \in Shown /\ ~Room(s)
            /\ cursor'[s] = cursor[s] /\ mode'[s] = "CatchingUp" /\ closed'[s] = closed[s]
            /\ queue'[s] = queue[s] /\ delivered'[s] = delivered[s]
         \/ /\ s \in Shown /\ closed'[s]
            /\ cursor'[s] = cursor[s] /\ mode'[s] = mode[s]
            /\ queue'[s] = queue[s] /\ delivered'[s] = delivered[s]
  <1>1. closed[s] \in BOOLEAN /\ gone[s] \in BOOLEAN
    BY SubTypes
  <1>2. /\ cursor'[s] = IF s \in Declines(e) \cup Accepts(e) THEN e ELSE cursor[s]
        /\ mode'[s] = IF s \in Stalls(e) THEN "CatchingUp" ELSE mode[s]
        /\ closed'[s] = (closed[s] \/ s \in Hangs(e))
        /\ queue'[s] = IF s \in Accepts(e) THEN Append(queue[s], e) ELSE queue[s]
        /\ delivered'[s] = IF s \in Accepts(e) THEN delivered[s] \cup {e} ELSE delivered[s]
    BY DEF PushLiveAll
  <1>3. CASE s \notin Shown
    BY <1>1, <1>2, <1>3 DEF Declines, Accepts, Stalls, Hangs
  <1>4. CASE s \in Shown /\ e \notin filter[s]
    <2>1. s \in Declines(e) /\ s \notin Accepts(e) /\ s \notin Stalls(e) /\ s \notin Hangs(e)
      BY <1>4 DEF Declines, Accepts, Stalls, Hangs
    <2> QED BY <1>1, <1>2, <1>4, <2>1
  <1>5. CASE s \in Shown /\ e \in filter[s] /\ gone[s]
    <2>1. s \notin Declines(e) /\ s \notin Accepts(e) /\ s \notin Stalls(e) /\ s \in Hangs(e)
      BY <1>5 DEF Declines, Accepts, Stalls, Hangs
    <2> QED BY <1>1, <1>2, <1>5, <2>1
  <1>6. CASE s \in Shown /\ e \in filter[s] /\ ~gone[s] /\ Room(s)
    <2>1. s \notin Declines(e) /\ s \in Accepts(e) /\ s \notin Stalls(e) /\ s \notin Hangs(e)
      BY <1>6 DEF Declines, Accepts, Stalls, Hangs
    <2> QED BY <1>1, <1>2, <1>6, <2>1
  <1>7. CASE s \in Shown /\ e \in filter[s] /\ ~gone[s] /\ ~Room(s)
    <2>1. s \notin Declines(e) /\ s \notin Accepts(e) /\ s \in Stalls(e) /\ s \notin Hangs(e)
      BY <1>7 DEF Declines, Accepts, Stalls, Hangs
    <2> QED BY <1>1, <1>2, <1>7, <2>1
  <1> QED BY <1>3, <1>4, <1>5, <1>6, <1>7

\* The window moves by one event, and the floor to what falls out of it.
LEMMA WindowMoves ==
  ASSUME PumpInv, pc = "pushLive", NEW e \in batch, \A o \in batch : e <= o, RingPush(e)
  PROVE  /\ e \in Nat /\ e \in visible /\ e < hw /\ edge < e /\ e <= Through
         /\ floor < e /\ origin < e /\ Through >= 0
         /\ ring' \subseteq ring \cup {e}
         /\ floor' \in Int /\ floor <= floor' /\ floor' <= e
         /\ floor' = floor \/ origin < floor'
         /\ ring' = {o \in visible : /\ Larger(floor', origin) < o /\ o <= Through
                                     /\ o \notin batch \ {e}}
  <1>1. /\ Core /\ hw \in Nat /\ edge \in Int /\ floor \in Int /\ origin \in Int
        /\ nextAfter \in Int /\ Through \in Int /\ batch \subseteq Nat /\ ring \subseteq Nat
    BY PumpTypes
  <1>2. edge # Unknown /\ edge >= None /\ Through = Larger(nextAfter, edge) /\ Pending = batch
    BY EdgeFacts
  <1>3. /\ e \in Nat /\ e \in visible /\ edge < e /\ e <= nextAfter /\ floor < e /\ origin < e
        /\ \A o \in ring : o < e
    BY <1>1 DEF Core, EdgeInv
  <1>4. e < hw /\ e <= Through /\ Through >= 0
    BY <1>1, <1>2, <1>3, PumpTypes DEF Larger
  <1> DEFINE window == ring \cup {e}
  <1>5. ring = {o \in visible : Larger(floor, origin) < o /\ o <= Through /\ o \notin batch}
    BY <1>1, <1>2 DEF Core, RingComplete
  <1>6. window = {o \in visible : /\ Larger(floor, origin) < o /\ o <= Through
                                  /\ o \notin batch \ {e}}
    BY <1>1, <1>3, <1>4, <1>5 DEF Larger
  <1>7. CASE Cardinality(window) > RingCapacity
    <2>1. PICK oldest \in window : /\ \A o \in window : oldest <= o
                                   /\ ring' = window \ {oldest} /\ floor' = oldest
      BY <1>7 DEF RingPush
    <2>2. oldest \in Nat /\ Larger(floor, origin) < oldest /\ oldest <= e
      BY <1>1, <1>3, <1>6, <2>1
    <2>3. floor < oldest /\ origin < oldest /\ Larger(oldest, origin) = oldest
      BY <1>1, <2>2 DEF Larger
    <2>4. \A o \in visible : o \in Nat
      BY PumpTypes
    <2>5. ring' = {o \in visible : oldest < o /\ o <= Through /\ o \notin batch \ {e}}
      <3>1. ASSUME NEW o \in ring'
            PROVE  o \in visible /\ oldest < o /\ o <= Through /\ o \notin batch \ {e}
        BY <1>6, <2>1, <2>2, <2>4
      <3>2. ASSUME NEW o \in visible, oldest < o, o <= Through, o \notin batch \ {e}
            PROVE  o \in ring'
        <4>1. Larger(floor, origin) < o
          BY <1>1, <2>2, <2>4, <3>2 DEF Larger
        <4>2. o \in window
          BY <1>6, <3>2, <4>1
        <4> QED BY <2>1, <2>2, <2>4, <3>2, <4>2
      <3> HIDE DEF window
      <3> QED BY <3>1, <3>2
    <2>6. ring' \subseteq ring \cup {e}
      BY <2>1
    <2> HIDE DEF window
    <2> QED BY <1>1, <1>3, <1>4, <2>1, <2>2, <2>3, <2>5, <2>6
  <1>8. CASE ~(Cardinality(window) > RingCapacity)
    <2>1. ring' = window /\ floor' = floor
      BY <1>8 DEF RingPush
    <2> QED BY <1>1, <1>3, <1>4, <1>6, <2>1
  <1> QED BY <1>7, <1>8

\* A queue that is full holds something, so its stream has begun.
LEMMA FullHasBegun ==
  ASSUME PumpInv, NEW s \in list, ~closed[s], ~Room(s)
  PROVE  base[s] <= cursor[s]
  <1>1. s \in Ids /\ s < nextId /\ Core
    BY PumpTypes
  <1>2. PlaceInv(s) /\ queue[s] \in Seq(Int) /\ cursor[s] \in Int /\ base[s] \in Int
    BY <1>1, SubTypes
  <1>3. queue[s] # <<>>
    BY <1>2, PumpAssumption DEF Room
  <1>4. delivered[s] # {}
    BY <1>2, <1>3 DEF PlaceInv
  <1>5. \E o \in visible : base[s] < o /\ o <= cursor[s]
    BY <1>1, <1>4 DEF Core, Gapless
  <1> QED BY <1>2, <1>5, PumpTypes

\* Between what a live subscriber has seen and the event it is shown lies
\* nothing it is owed.
LEMMA NothingBetween ==
  ASSUME PumpInv, pc = "pushLive", NEW e \in batch, \A o \in batch : e <= o, e <= Through,
         NEW s \in Shown, NEW o \in visible, base[s] < o
  PROVE  o <= e <=> o <= cursor[s] \/ o = e
  <1>1. Core /\ edge # Unknown /\ Pending = batch /\ s \in Ids /\ Through \in Int
        /\ o \in Nat /\ batch \subseteq Nat
    BY PumpTypes, EdgeFacts DEF Shown
  <1>2. PlaceInv(s) /\ cursor[s] \in Int /\ base[s] \in Int
    BY <1>1, SubTypes
  <1>3. cursor[s] < e
    BY <1>1, <1>2 DEF PlaceInv, Shown
  <1>4. ASSUME o <= e, ~(o <= cursor[s]) PROVE o = e
    <2>1. o <= Through /\ Larger(cursor[s], base[s]) < o
      BY <1>1, <1>2, <1>4 DEF Larger
    <2>2. o \in batch
      BY <1>1, <2>1 DEF Core, LiveIsCurrent
    <2> QED BY <1>1, <1>4, <2>2
  <1> QED BY <1>1, <1>2, <1>3, <1>4

LEMMA PushLiveKeeps == ASSUME PumpInv, PushLive PROVE Core'
  <1>1. PICK e \in batch : /\ \A o \in batch : e <= o
                           /\ PushLiveAll(e) /\ RingPush(e) /\ batch' = batch \ {e}
    BY DEF PushLive
  <1>2. /\ UNCHANGED <<hw, visible, logStart, pc, edge, list, nextId, nextAfter, turn, filter, errTask,
                       origin, base>>
        /\ pc = "pushLive"
    BY DEF PushLive, logVars, subsVars
  <1>3. /\ Core /\ hw \in Nat /\ edge \in Int /\ floor \in Int /\ origin \in Int
        /\ Through \in Int /\ batch \subseteq Nat /\ ring \subseteq Nat
        /\ nextAfter \in Int /\ nextId \in Nat
    BY PumpTypes
  <1>4. /\ edge # Unknown /\ Pending = batch /\ Through' = Through /\ Pending' = batch \ {e}
        /\ Through < hw
    BY <1>1, <1>2, EdgeFacts DEF Through, Pending
  <1>5. /\ e \in Nat /\ e \in visible /\ e < hw /\ edge < e /\ e <= Through
        /\ floor < e /\ origin < e /\ Through >= 0
        /\ ring' \subseteq ring \cup {e}
        /\ floor' \in Int /\ floor <= floor' /\ floor' <= e
        /\ floor' = floor \/ origin < floor'
        /\ ring' = {o \in visible : /\ Larger(floor', origin) < o /\ o <= Through
                                    /\ o \notin batch \ {e}}
    BY <1>1, <1>2, WindowMoves
  <1>6. EdgeInv
    BY <1>3 DEF Core
  <1>7. ASSUME NEW s \in list
        PROVE  s \in Ids /\ s < nextId /\ PlaceInv(s) /\ cursor[s] \in Int /\ base[s] \in Int
    BY PumpTypes, SubTypes
  <1>8. PhaseInv'
    BY <1>2, <1>4, <1>5 DEF PhaseInv, None, Unknown
  <1>9. EdgeInv'
    <2>1. /\ edge' >= Unknown /\ edge' < hw' /\ nextAfter' >= None /\ nextAfter' < hw'
          /\ floor' >= None /\ origin' >= None /\ floor' <= Through'
          /\ edge' # None => origin' <= edge'
      BY <1>2, <1>3, <1>4, <1>5, <1>6 DEF EdgeInv, None
    <2>2. ASSUME floor' < origin
          PROVE  /\ floor' = None /\ origin < logStart
                 /\ \A s \in Ids : \A o \in delivered'[s] : origin < o
      <3>1. floor' = floor
        BY <1>3, <1>5, <2>2
      <3>2. /\ floor = None /\ origin < logStart
            /\ \A s \in Ids : \A o \in delivered[s] : origin < o
        BY <1>4, <1>6, <2>2, <3>1 DEF EdgeInv
      <3>3. ASSUME NEW s \in Ids PROVE delivered'[s] \subseteq delivered[s] \cup {e}
        BY <1>1, Outcome
      <3> QED BY <1>5, <3>1, <3>2, <3>3
    <2>3. \A o \in batch' : /\ o \in visible /\ edge < o /\ o <= nextAfter /\ origin < o
                            /\ o \in Nat /\ e < o
      <3>1. \A o \in batch : o \in visible /\ edge < o /\ o <= nextAfter /\ origin < o
        BY <1>2, <1>6 DEF EdgeInv
      <3>2. \A o \in batch' : o \in Nat /\ e < o
        BY <1>1, <1>3, <1>5
      <3> QED BY <1>1, <3>1, <3>2
    <2>4. \A o \in batch' : floor' < o
      BY <1>5, <2>3
    <2>5. \A o \in ring' : \A p \in batch' : o < p
      BY <1>1, <1>2, <1>5, <1>6, <2>3 DEF EdgeInv
    <2>6. nextAfter # None => origin <= nextAfter
      BY <1>2, <1>6 DEF EdgeInv
    <2> QED BY <1>2, <2>1, <2>2, <2>3, <2>4, <2>5, <2>6 DEF EdgeInv
  <1>10. RunInv'
    BY <1>2 DEF RunInv
  <1>11. RingComplete'
    BY <1>2, <1>4, <1>5 DEF RingComplete
  <1>12. Gapless'
    <2> SUFFICES ASSUME NEW s \in Ids, s < nextId
                 PROVE  delivered'[s] = {o \in visible : /\ base[s] < o /\ o <= cursor'[s]
                                                         /\ o \in filter[s]}
      BY <1>2 DEF Gapless
    <2>1. delivered[s] = {o \in visible : base[s] < o /\ o <= cursor[s] /\ o \in filter[s]}
      BY <1>3 DEF Core, Gapless
    <2>2. CASE cursor'[s] = cursor[s] /\ delivered'[s] = delivered[s]
      BY <2>1, <2>2
    <2>3. CASE s \in Shown /\ cursor'[s] = e
      <3>1. \A o \in visible : base[s] < o => (o <= e <=> o <= cursor[s] \/ o = e)
        BY <1>1, <1>2, <1>5, <2>3, NothingBetween
      <3>2. base[s] < e
        BY <1>1, <1>4, <1>7, <2>3 DEF PlaceInv, Shown
      <3>3. CASE e \notin filter[s] /\ delivered'[s] = delivered[s]
        BY <1>5, <2>1, <2>3, <3>1, <3>2, <3>3
      <3>4. CASE e \in filter[s] /\ delivered'[s] = delivered[s] \cup {e}
        BY <1>5, <2>1, <2>3, <3>1, <3>2, <3>4
      <3>5. CASE cursor[s] = e
        BY <1>1, <1>3, <1>4, <1>5, <1>7, <2>3, <3>5 DEF PlaceInv, Shown
      <3> QED BY <1>1, <2>3, <3>3, <3>4, <3>5, Outcome
    <2> QED BY <1>1, <2>2, <2>3, Outcome
  <1>13. ASSUME NEW s \in Shown'
         PROVE  s \in list /\ s \in Shown /\ s \in Ids /\ mode[s] = "Live" /\ cursor'[s] = e
    <2>1. s \in list /\ s \in Ids /\ mode'[s] = "Live" /\ ~closed'[s]
      BY <1>2, <1>7 DEF Shown
    <2>2. s \in Shown /\ cursor'[s] = e
      BY <1>1, <2>1, Outcome DEF Shown
    <2> QED BY <2>1, <2>2 DEF Shown
  <1>14. LiveIsCurrent'
    <2> SUFFICES ASSUME NEW s \in Shown', NEW o \in visible,
                        Larger(e, base[s]) < o, o <= Through
                 PROVE  o \in batch \ {e}
      BY <1>2, <1>4, <1>13 DEF LiveIsCurrent
    <2>1. s \in Shown /\ base[s] \in Int /\ cursor[s] \in Int /\ o \in Nat /\ cursor[s] < e
      BY <1>1, <1>4, <1>7, <1>13, PumpTypes DEF PlaceInv, Shown
    <2>2. e < o /\ Larger(cursor[s], base[s]) < o
      BY <1>5, <2>1 DEF Larger
    <2>3. o \in batch
      BY <1>3, <1>4, <2>1, <2>2 DEF Core, LiveIsCurrent
    <2> QED BY <1>5, <2>1, <2>2, <2>3
  <1>15. ASSUME NEW s \in Ids PROVE PlaceInv(s)'
    <2>1. PlaceInv(s) /\ cursor[s] \in Int /\ base[s] \in Int /\ queue[s] \in Seq(Int)
      BY SubTypes
    <2>2. cursor'[s] = cursor[s] \/ cursor'[s] = e
      BY <1>1, Outcome
    <2>3. /\ cursor'[s] >= None /\ base'[s] >= None
          /\ cursor'[s] < hw' \/ cursor'[s] <= base'[s]
      BY <1>2, <1>5, <2>1, <2>2 DEF PlaceInv, None
    <2>4. ASSUME s >= nextId'
          PROVE  /\ delivered'[s] = {} /\ queue'[s] = <<>>
                 /\ ~closed'[s] /\ errTask'[s] = "none"
      <3>1. s \notin list
        BY <1>2, <1>3, <1>7, <2>4, PumpTypes
      <3>2. s \notin Shown
        BY <3>1 DEF Shown
      <3>3. closed'[s] = closed[s] /\ queue'[s] = queue[s] /\ delivered'[s] = delivered[s]
        BY <1>1, <3>2, Outcome
      <3> QED BY <1>2, <2>1, <2>4, <3>3 DEF PlaceInv
    <2>5. ASSUME s \in list, ~closed'[s]
          PROVE  /\ ~closed[s]
                 /\ errTask'[s] = "none"
                 /\ delivered'[s] = {} => queue'[s] = <<>>
      <3>1. ~closed[s]
        BY <1>1, <2>5, Outcome DEF Shown
      <3> QED BY <1>1, <1>2, <2>1, <2>5, <3>1, Outcome DEF PlaceInv
    <2>6. ASSUME s \in list, ~closed'[s], mode'[s] = "CatchingUp"
          PROVE  \/ base[s] <= cursor'[s]
                 \/ cursor'[s] = None /\ floor' > None /\ base[s] < logStart
      <3>1. CASE s \notin Shown
        <4>1. cursor'[s] = cursor[s] /\ mode[s] = "CatchingUp" /\ ~closed[s]
          BY <1>1, <2>5, <2>6, <3>1, Outcome
        <4> QED BY <1>3, <1>5, <2>1, <2>6, <4>1 DEF PlaceInv, None
      <3>2. CASE s \in Shown /\ ~Room(s) /\ cursor'[s] = cursor[s]
        BY <2>6, <3>2, FullHasBegun DEF Shown
      <3> QED BY <1>1, <2>6, <3>1, <3>2, Outcome DEF Shown
    <2>7. ASSUME s \in list, ~closed'[s], mode'[s] = "Live"
          PROVE  /\ cursor'[s] <= Through
                 /\ base[s] <= Through
                 /\ edge = None => base[s] < logStart
                 /\ \A o \in batch \ {e} : cursor'[s] < o /\ base[s] < o
      <3>1. s \in Shown'
        BY <1>2, <2>7 DEF Shown
      <3>2. mode[s] = "Live" /\ cursor'[s] = e /\ ~closed[s]
        BY <1>13, <3>1, <2>5, <2>7
      <3>3. /\ base[s] <= Through
            /\ edge = None => base[s] < logStart
            /\ \A o \in batch : base[s] < o
        BY <1>4, <1>5, <2>1, <2>7, <3>2 DEF PlaceInv, None
      <3>4. \A o \in batch \ {e} : o \in Nat /\ e < o
        BY <1>1, <1>3, <1>5
      <3> QED BY <1>5, <3>2, <3>3, <3>4
    <2> QED BY <1>2, <1>4, <2>3, <2>4, <2>5, <2>6, <2>7 DEF PlaceInv
  <1> QED BY <1>8, <1>9, <1>10, <1>11, <1>12, <1>14, <1>15 DEF Core

\* The batch is through: the edge takes over what had been read.
LEMMA LiveBatchDoneKeeps == ASSUME PumpInv, LiveBatchDone PROVE Core'
  <1>1. /\ UNCHANGED <<hw, visible, logStart, ring, floor, list, nextId, batch, turn, mode, cursor, closed,
                       filter, queue, errTask, origin, base, delivered>>
        /\ pc = "pushLive" /\ pc' = "ring" /\ batch = {} /\ nextAfter' = None
        /\ edge' = Larger(nextAfter, edge)
    BY DEF LiveBatchDone, logVars, ringVars, subsVars, stateVars, queueVars, historyVars
  <1>2. /\ Core /\ hw \in Nat /\ edge \in Int /\ nextAfter \in Int
    BY PumpTypes
  <1>3. /\ edge # Unknown /\ edge >= None /\ edge < hw /\ nextAfter >= None /\ nextAfter < hw
        /\ Through = Larger(nextAfter, edge) /\ Pending = {}
    BY <1>1, EdgeFacts
  <1>4. /\ Through' = Through /\ Pending' = {} /\ edge' = Through
        /\ Through >= None /\ Through < hw /\ Through \in Int
        /\ Through = nextAfter \/ Through = edge
    BY <1>1, <1>2, <1>3 DEF Through, Pending, Larger
  <1>5. PhaseInv'
    BY <1>1, <1>2, <1>4 DEF Core, PhaseInv, None, Unknown
  <1>6. EdgeInv'
    <2>1. /\ edge' >= Unknown /\ edge' < hw' /\ nextAfter' >= None /\ nextAfter' < hw'
      BY <1>1, <1>2, <1>4 DEF None, Unknown
    <2>2. edge' # None => origin <= edge'
      BY <1>1, <1>2, <1>3, <1>4 DEF Core, EdgeInv
    <2> QED BY <1>1, <1>2, <1>3, <1>4, <2>1, <2>2 DEF Core, EdgeInv
  <1>7. RunInv' /\ RingComplete' /\ Gapless'
    BY <1>1, <1>2, <1>3, <1>4 DEF Core, RunInv, RingComplete, Gapless
  <1>8. LiveIsCurrent'
    BY <1>1, <1>2, <1>3, <1>4 DEF Core, LiveIsCurrent, Shown
  <1>9. ASSUME NEW s \in Ids PROVE PlaceInv(s)'
    <2>1. PlaceInv(s)
      BY SubTypes
    <2>2. edge' = None => edge = None
      BY <1>1, <1>2, <1>3 DEF Larger, None
    <2> QED BY <1>1, <1>3, <1>4, <2>1, <2>2 DEF PlaceInv
  <1> QED BY <1>5, <1>6, <1>7, <1>8, <1>9 DEF Core

-----------------------------------------------------------------------------
(* Catch-up: one subscriber at a time.                                     *)

\* What a step that works for one lagging subscriber has to see to.
LEMMA OneMoves ==
  ASSUME PumpInv, NEW s \in list, mode[s] = "CatchingUp", ~closed[s],
         pc \in {"ring", "catchUp", "pushRun"}, pc' \in {"top", "ring", "pushRun"},
         UNCHANGED <<hw, visible, logStart, edge, ring, floor, filter, nextId, list, errTask, origin>>,
         nextAfter' >= None, nextAfter' < hw,
         \A t \in Ids \ {s} : /\ mode'[t] = mode[t] /\ cursor'[t] = cursor[t]
                              /\ base'[t] = base[t] /\ closed'[t] = closed[t]
                              /\ queue'[t] = queue[t] /\ delivered'[t] = delivered[t],
         cursor'[s] \in Int, base'[s] \in Int,
         cursor'[s] >= None, base'[s] >= None, cursor'[s] < hw \/ cursor'[s] <= base'[s],
         edge = None => delivered'[s] = {},
         floor < origin => \A o \in delivered'[s] : origin < o,
         delivered'[s] = {o \in visible : base'[s] < o /\ o <= cursor'[s] /\ o \in filter[s]},
         ~closed'[s] =>
            /\ delivered'[s] = {} => queue'[s] = <<>>
            /\ mode'[s] = "CatchingUp" =>
                  \/ base'[s] <= cursor'[s]
                  \/ cursor'[s] = None /\ floor > None /\ base'[s] < logStart
            /\ mode'[s] = "Live" =>
                  /\ cursor'[s] <= edge
                  /\ edge # None => base'[s] <= edge
                  /\ edge = None => base'[s] < logStart
                  /\ \A o \in visible : ~(Larger(cursor'[s], base'[s]) < o /\ o <= edge),
         pc' = "pushRun" => /\ turn' = s /\ mode'[s] = "CatchingUp" /\ ~closed'[s]
                            /\ floor > None,
         RunInv'
  PROVE  Core'
  <1>1. /\ Core /\ s \in Ids /\ s < nextId /\ nextId \in Nat
    BY PumpTypes
  <1>2. /\ edge # Unknown /\ Through = edge /\ Pending = {} /\ Through' = edge /\ Pending' = {}
    BY EdgeFacts DEF Through, Pending
  <1>3. PhaseInv'
    <2>1. edge = None => \A t \in Ids : delivered'[t] = {}
      BY <1>1, <1>2 DEF Core, PhaseInv
    <2> QED BY <1>2, <2>1 DEF PhaseInv
  <1>4. EdgeInv'
    <2>1. EdgeInv
      BY <1>1 DEF Core
    <2>2. floor < origin => \A t \in Ids : \A o \in delivered'[t] : origin < o
      BY <1>1, <1>2, <2>1 DEF EdgeInv
    <2> QED BY <1>2, <2>1, <2>2 DEF EdgeInv
  <1>5. RingComplete'
    BY <1>1, <1>2 DEF Core, RingComplete
  <1>6. Gapless'
    <2> SUFFICES ASSUME NEW t \in Ids, t < nextId
                 PROVE  delivered'[t] = {o \in visible : /\ base'[t] < o /\ o <= cursor'[t]
                                                         /\ o \in filter[t]}
      BY DEF Gapless
    <2> QED BY <1>1 DEF Core, Gapless
  <1>7. LiveIsCurrent'
    <2> SUFFICES ASSUME NEW t \in Shown', NEW o \in visible,
                        Larger(cursor'[t], base'[t]) < o, o <= edge
                 PROVE  FALSE
      BY <1>2 DEF LiveIsCurrent
    <2>1. t \in list /\ t \in Ids /\ mode'[t] = "Live" /\ ~closed'[t]
      BY PumpTypes DEF Shown
    <2>2. CASE t # s
      <3>1. t \in Shown /\ Larger(cursor[t], base[t]) < o
        BY <2>1, <2>2 DEF Shown
      <3> QED BY <1>1, <1>2, <3>1 DEF Core, LiveIsCurrent
    <2>3. CASE t = s
      BY <2>1, <2>3
    <2> QED BY <2>2, <2>3
  <1>8. ASSUME NEW t \in Ids PROVE PlaceInv(t)'
    <2>1. PlaceInv(t) /\ PlaceInv(s)
      BY <1>1, SubTypes
    <2>2. CASE t # s
      BY <1>2, <2>1, <2>2 DEF PlaceInv
    <2>3. CASE t = s
      <3>1. ~(t >= nextId) /\ errTask[t] = "none"
        BY <1>1, <2>1, <2>3, PumpTypes DEF PlaceInv
      <3> QED BY <1>2, <2>3, <3>1 DEF PlaceInv
    <2> QED BY <2>2, <2>3
  <1> QED BY <1>3, <1>4, <1>5, <1>6, <1>7, <1>8 DEF Core

\* One event of a run: refused, passed over, or taken.
LEMMA RunOutcome ==
  ASSUME PumpInv, NEW s \in Ids, NEW e, PushRun(s, e), ~closed[s]
  PROVE  /\ \A t \in Ids \ {s} : /\ cursor'[t] = cursor[t] /\ closed'[t] = closed[t]
                                 /\ queue'[t] = queue[t] /\ delivered'[t] = delivered[t]
         /\ \/ /\ Refused(s, e)
               /\ cursor'[s] = cursor[s] /\ queue'[s] = queue[s] /\ delivered'[s] = delivered[s]
               /\ closed'[s] \/ ~Room(s)
            \/ /\ ~Refused(s, e) /\ e \notin filter[s] /\ ~closed'[s]
               /\ cursor'[s] = e /\ queue'[s] = queue[s] /\ delivered'[s] = delivered[s]
            \/ /\ ~Refused(s, e) /\ e \in filter[s] /\ ~closed'[s]
               /\ cursor'[s] = e /\ delivered'[s] = delivered[s] \cup {e}
  <1>1. /\ cursor \in [Ids -> Int] /\ closed \in [Ids -> BOOLEAN]
        /\ queue \in [Ids -> Seq(Int)] /\ delivered \in [Ids -> SUBSET Nat]
    BY PumpTypes DEF TypeInv, TypeOK, StateType, QueueType, HistoryType
  <1>2. gone[s] \in BOOLEAN
    BY SubTypes
  <1>3. \A t \in Ids \ {s} : /\ cursor'[t] = cursor[t] /\ closed'[t] = closed[t]
                             /\ queue'[t] = queue[t] /\ delivered'[t] = delivered[t]
    BY <1>1 DEF PushRun
  <1>4. closed'[s] = (Refused(s, e) /\ gone[s])
    BY <1>1 DEF PushRun
  <1>5. CASE Refused(s, e)
    <2>1. cursor' = cursor /\ queue' = queue /\ delivered' = delivered
      BY <1>5 DEF PushRun
    <2>2. closed'[s] \/ ~Room(s)
      BY <1>2, <1>4, <1>5 DEF Refused
    <2> QED BY <1>3, <1>5, <2>1, <2>2
  <1>6. CASE ~Refused(s, e) /\ e \notin filter[s]
    <2>1. cursor'[s] = e /\ queue' = queue /\ delivered' = delivered
      BY <1>1, <1>6 DEF PushRun
    <2> QED BY <1>3, <1>4, <1>6, <2>1
  <1>7. CASE ~Refused(s, e) /\ e \in filter[s]
    <2>1. cursor'[s] = e /\ delivered'[s] = delivered[s] \cup {e}
      BY <1>1, <1>7 DEF PushRun
    <2> QED BY <1>3, <1>4, <1>7, <2>1
  <1> QED BY <1>5, <1>6, <1>7

\* What the ring serves begins where the subscriber, or the live path, began.
LEMMA RingServesFrom ==
  ASSUME PumpInv, pc = "ring", NEW s \in list, FromRing(s)
  PROVE  /\ base[s] <= cursor[s] /\ floor <= cursor[s] /\ cursor[s] < edge /\ None < edge
         /\ origin <= edge /\ floor >= None /\ origin >= None
         /\ cursor[s] < origin => delivered[s] = {}
         /\ RingStart(s) \in Int /\ RingStart(s) >= None
         /\ origin <= cursor[s] \/ origin = RingStart(s)
         /\ RingStart(s) = base[s] \/ cursor[s] < origin
         /\ ring = {o \in visible : floor < o /\ origin < o /\ o <= edge}
         /\ \A o \in visible : (RingStart(s) < o /\ cursor[s] < o /\ o <= edge)
                               => o \in RingAfter(cursor[s])
  <1>1. /\ Core /\ s \in Ids /\ s < nextId /\ edge \in Int /\ floor \in Int /\ origin \in Int
        /\ hw \in Nat
    BY PumpTypes
  <1>2. edge # Unknown /\ Through = edge /\ Pending = {}
    BY EdgeFacts
  <1>3. PlaceInv(s) /\ cursor[s] \in Int /\ base[s] \in Int
    BY <1>1, SubTypes
  <1>4. mode[s] = "CatchingUp" /\ ~closed[s] /\ cursor[s] < edge /\ cursor[s] >= floor
    BY DEF FromRing, Covers
  <1>5. base[s] <= cursor[s] /\ None <= cursor[s] /\ None < edge /\ None <= base[s]
    BY <1>1, <1>3, <1>4 DEF PlaceInv, None
  <1>6. origin <= edge /\ floor >= None /\ origin >= None
    BY <1>1, <1>2, <1>5 DEF Core, EdgeInv
  <1>7. ASSUME cursor[s] < origin PROVE delivered[s] = {}
    <2>1. floor < origin
      BY <1>1, <1>3, <1>4, <1>7
    <2>2. \A o \in delivered[s] : origin < o
      BY <1>1, <1>2, <2>1 DEF Core, EdgeInv
    <2>3. \A o \in delivered[s] : o <= cursor[s] /\ o \in Nat
      BY <1>1, PumpTypes DEF Core, Gapless
    <2> QED BY <1>1, <1>3, <1>7, <2>2, <2>3
  <1>8. RingStart(s) = IF cursor[s] < origin THEN origin ELSE base[s]
    BY DEF RingStart
  <1>9. ring = {o \in visible : floor < o /\ origin < o /\ o <= edge}
    <2>1. ring = {o \in visible : Larger(floor, origin) < o /\ o <= edge /\ o \notin {}}
      BY <1>1, <1>2 DEF Core, RingComplete
    <2>2. \A o \in visible : Larger(floor, origin) < o <=> floor < o /\ origin < o
      BY <1>1, PumpTypes DEF Larger
    <2> QED BY <2>1, <2>2
  <1>10. ASSUME NEW o \in visible, RingStart(s) < o, cursor[s] < o, o <= edge
         PROVE  o \in RingAfter(cursor[s])
    <2>1. o \in Nat
      BY PumpTypes
    <2>2. floor < o /\ origin < o
      BY <1>1, <1>3, <1>4, <1>8, <1>10, <2>1
    <2> QED BY <1>9, <1>10, <2>2 DEF RingAfter
  <1>11. /\ RingStart(s) \in Int /\ RingStart(s) >= None
         /\ origin <= cursor[s] \/ origin = RingStart(s)
         /\ RingStart(s) = base[s] \/ cursor[s] < origin
    BY <1>1, <1>3, <1>5, <1>6, <1>8
  <1> QED BY <1>4, <1>5, <1>6, <1>7, <1>9, <1>10, <1>11

LEMMA RingServesKeeps == ASSUME PumpInv, RingServes PROVE Core'
  <1>1. PICK s \in todo : /\ FromRing(s)
                          /\ \E e \in RingAfter(cursor[s]) :
                                /\ \A o \in RingAfter(cursor[s]) : e <= o
                                /\ PushRun(s, e)
                          /\ base' = [base EXCEPT ![s] = RingStart(s)]
    BY DEF RingServes
  <1>2. PICK e \in RingAfter(cursor[s]) : /\ \A o \in RingAfter(cursor[s]) : e <= o
                                          /\ PushRun(s, e)
    BY <1>1
  <1>3. /\ UNCHANGED <<hw, visible, logStart, pc, edge, ring, floor, filter, nextId, list, errTask, origin,
                       mode, nextAfter>>
        /\ pc = "ring"
    BY DEF RingServes, logVars, ringVars, subsVars
  <1>4. /\ Core /\ s \in list /\ s \in Ids /\ s < nextId /\ edge \in Int /\ floor \in Int
        /\ origin \in Int /\ hw \in Nat
    BY PumpTypes
  <1>5. /\ mode[s] = "CatchingUp" /\ ~closed[s] /\ cursor[s] \in Int /\ base[s] \in Int
        /\ cursor[s] >= None
        /\ cursor[s] < hw \/ cursor[s] <= base[s]
        /\ delivered[s] = {} => queue[s] = <<>>
    BY <1>1, <1>4, SubTypes DEF FromRing, PlaceInv
  <1>6. /\ base[s] <= cursor[s] /\ floor <= cursor[s] /\ cursor[s] < edge /\ None < edge
        /\ origin <= edge /\ floor >= None /\ origin >= None
        /\ cursor[s] < origin => delivered[s] = {}
        /\ RingStart(s) \in Int /\ RingStart(s) >= None
        /\ origin <= cursor[s] \/ origin = RingStart(s)
        /\ RingStart(s) = base[s] \/ cursor[s] < origin
        /\ ring = {o \in visible : floor < o /\ origin < o /\ o <= edge}
        /\ \A o \in visible : (RingStart(s) < o /\ cursor[s] < o /\ o <= edge)
                              => o \in RingAfter(cursor[s])
    BY <1>1, <1>3, <1>4, RingServesFrom
  <1>7. /\ e \in visible /\ e \in Nat /\ e < hw /\ cursor[s] < e /\ origin < e /\ e <= edge
    BY <1>6, PumpTypes DEF RingAfter
  <1>8. base'[s] = RingStart(s) /\ \A t \in Ids \ {s} : base'[t] = base[t]
    BY <1>1, <1>4, PumpTypes DEF TypeInv, TypeOK, HistoryType
  <1>9. RingStart(s) < e
    BY <1>4, <1>5, <1>6, <1>7
  <1>10. \A o \in visible : RingStart(s) < o => (o <= e <=> o <= cursor[s] \/ o = e)
    <2> SUFFICES ASSUME NEW o \in visible, RingStart(s) < o, o <= e, ~(o <= cursor[s])
                 PROVE  o = e
      BY <1>5, <1>7, PumpTypes
    <2>1. o \in Nat /\ cursor[s] < o /\ o <= edge
      BY <1>4, <1>5, <1>7, PumpTypes
    <2>2. e <= o
      BY <1>2, <1>6, <2>1
    <2> QED BY <1>7, <2>1, <2>2
  <1>11. delivered[s] = {o \in visible : /\ RingStart(s) < o /\ o <= cursor[s]
                                         /\ o \in filter[s]}
    <2>1. delivered[s] = {o \in visible : base[s] < o /\ o <= cursor[s] /\ o \in filter[s]}
      BY <1>4 DEF Core, Gapless
    <2>2. CASE RingStart(s) = base[s]
      BY <2>1, <2>2
    <2>3. CASE cursor[s] < origin /\ RingStart(s) # base[s]
      <3>1. RingStart(s) = origin /\ delivered[s] = {}
        BY <1>4, <1>5, <1>6, <2>3
      <3>2. \A o \in visible : ~(origin < o /\ o <= cursor[s])
        BY <1>4, <1>5, <2>3, PumpTypes
      <3> QED BY <3>1, <3>2
    <2> QED BY <1>6, <2>2, <2>3
  <1>12. /\ \A t \in Ids \ {s} : /\ cursor'[t] = cursor[t] /\ closed'[t] = closed[t]
                                 /\ queue'[t] = queue[t] /\ delivered'[t] = delivered[t]
         /\ \/ /\ Refused(s, e)
               /\ cursor'[s] = cursor[s] /\ queue'[s] = queue[s] /\ delivered'[s] = delivered[s]
               /\ closed'[s] \/ ~Room(s)
            \/ /\ ~Refused(s, e) /\ e \notin filter[s] /\ ~closed'[s]
               /\ cursor'[s] = e /\ queue'[s] = queue[s] /\ delivered'[s] = delivered[s]
            \/ /\ ~Refused(s, e) /\ e \in filter[s] /\ ~closed'[s]
               /\ cursor'[s] = e /\ delivered'[s] = delivered[s] \cup {e}
    BY <1>2, <1>4, <1>5, RunOutcome
  <1>13. delivered'[s] = {o \in visible : /\ RingStart(s) < o /\ o <= cursor'[s]
                                          /\ o \in filter[s]}
    <2>1. CASE cursor'[s] = cursor[s] /\ delivered'[s] = delivered[s]
      BY <1>11, <2>1
    <2>2. CASE e \notin filter[s] /\ cursor'[s] = e /\ delivered'[s] = delivered[s]
      BY <1>10, <1>11, <2>2
    <2>3. CASE e \in filter[s] /\ cursor'[s] = e /\ delivered'[s] = delivered[s] \cup {e}
      BY <1>7, <1>9, <1>10, <1>11, <2>3
    <2> QED BY <1>12, <2>1, <2>2, <2>3
  <1>14. ~closed'[s] => RingStart(s) <= cursor'[s]
    <2>1. CASE ~Room(s) /\ cursor'[s] = cursor[s]
      <3>1. delivered[s] # {}
        <4>1. queue[s] # <<>>
          BY <1>4, <2>1, SubTypes, PumpAssumption DEF Room
        <4> QED BY <1>5, <4>1
      <3>2. RingStart(s) = base[s]
        BY <1>6, <3>1
      <3> QED BY <1>6, <2>1, <3>2
    <2>2. CASE cursor'[s] = e
      BY <1>6, <1>7, <1>9, <2>2
    <2> QED BY <1>12, <2>1, <2>2
  <1>15. cursor'[s] \in Int /\ cursor'[s] >= None
         /\ (cursor'[s] < hw \/ cursor'[s] <= RingStart(s))
    <2>1. cursor[s] < hw
      BY <1>4, <1>5, <1>6, EdgeFacts
    <2>2. cursor'[s] = cursor[s] \/ cursor'[s] = e
      BY <1>12
    <2> QED BY <1>5, <1>7, <2>1, <2>2 DEF None
  <1>16. floor < origin => \A o \in delivered'[s] : origin < o
    <2>1. ASSUME floor < origin PROVE \A o \in delivered[s] : origin < o
      BY <1>3, <1>4, <2>1, EdgeFacts DEF Core, EdgeInv
    <2> QED BY <1>7, <1>12, <2>1
  <1>17. ~closed'[s] => (delivered'[s] = {} => queue'[s] = <<>>)
    BY <1>5, <1>12
  <1>18. RunInv' /\ nextAfter' >= None /\ nextAfter' < hw
    BY <1>3, EdgeFacts DEF RunInv
  <1>19. edge # None
    BY <1>4, <1>6 DEF None
  <1> QED BY <1>3, <1>4, <1>5, <1>6, <1>8, <1>12, <1>13, <1>14, <1>15, <1>16, <1>17, <1>18,
            <1>19, OneMoves

\* Whoever the ring has nothing more for has reached the edge.
LEMMA RingDoneKeeps == ASSUME PumpInv, RingDone PROVE Core'
  <1>1. PICK s \in todo :
               /\ ~(FromRing(s) /\ RingAfter(cursor[s]) # {})
               /\ mode' = IF ReachesEdge(s) THEN [mode EXCEPT ![s] = "Live"] ELSE mode
               /\ base' = [base EXCEPT ![s] = RingStart(s)]
    BY DEF RingDone
  <1>2. /\ UNCHANGED <<hw, visible, logStart, pc, edge, ring, floor, filter, nextId, list, errTask, origin,
                       cursor, closed, queue, delivered, nextAfter, turn>>
        /\ pc = "ring"
    BY DEF RingDone, logVars, ringVars, subsVars, queueVars
  <1>3. /\ Core /\ s \in list /\ s \in Ids /\ s < nextId /\ edge \in Int /\ floor \in Int
        /\ origin \in Int /\ hw \in Nat
        /\ mode \in [Ids -> {"Live", "CatchingUp"}] /\ base \in [Ids -> Int]
    BY PumpTypes DEF TypeInv, TypeOK, HistoryType, StateType
  <1>4. /\ cursor[s] \in Int /\ base[s] \in Int /\ PlaceInv(s)
        /\ edge # Unknown /\ Through = edge
    BY <1>2, <1>3, SubTypes, EdgeFacts
  <1>5. CASE ~ReachesEdge(s)
    <2>1. ~FromRing(s)
      BY <1>5 DEF ReachesEdge, FromRing
    <2>2. base' = base /\ mode' = mode
      BY <1>1, <1>3, <1>5, <2>1 DEF RingStart
    <2> QED BY <1>2, <1>4, <2>2, MovesOn
  <1>6. CASE ReachesEdge(s)
    <2>1. /\ mode[s] = "CatchingUp" /\ ~closed[s]
          /\ delivered[s] = {} => queue[s] = <<>>
      BY <1>3, <1>4, <1>6 DEF ReachesEdge, PlaceInv
    <2>2. /\ mode'[s] = "Live" /\ base'[s] = RingStart(s)
          /\ \A t \in Ids \ {s} : base'[t] = base[t] /\ mode'[t] = mode[t]
      BY <1>1, <1>3, <1>6
    <2>3. /\ RingStart(s) \in Int /\ RingStart(s) >= None
          /\ cursor[s] <= edge
          /\ edge # None => RingStart(s) <= edge
          /\ edge = None => RingStart(s) < logStart
          /\ cursor[s] < hw
          /\ delivered[s] = {o \in visible : /\ RingStart(s) < o /\ o <= cursor[s]
                                             /\ o \in filter[s]}
          /\ \A o \in visible : ~(Larger(cursor[s], RingStart(s)) < o /\ o <= edge)
      <3>1. delivered[s] = {o \in visible : base[s] < o /\ o <= cursor[s] /\ o \in filter[s]}
        BY <1>3 DEF Core, Gapless
      <3>2. CASE FromRing(s)
        <4>1. /\ base[s] <= cursor[s] /\ floor <= cursor[s] /\ cursor[s] < edge /\ None < edge
              /\ origin <= edge
              /\ cursor[s] < origin => delivered[s] = {}
              /\ RingStart(s) \in Int /\ RingStart(s) >= None
              /\ origin <= cursor[s] \/ origin = RingStart(s)
              /\ RingStart(s) = base[s] \/ cursor[s] < origin
              /\ \A o \in visible : (RingStart(s) < o /\ cursor[s] < o /\ o <= edge)
                                    => o \in RingAfter(cursor[s])
          BY <1>2, <1>3, <3>2, RingServesFrom
        <4>2. \A o \in visible : ~(Larger(cursor[s], RingStart(s)) < o /\ o <= edge)
          BY <1>1, <1>3, <1>4, <3>2, <4>1, PumpTypes DEF Larger
        <4>3. delivered[s] = {o \in visible : /\ RingStart(s) < o /\ o <= cursor[s]
                                              /\ o \in filter[s]}
          <5>1. CASE RingStart(s) = base[s]
            BY <3>1, <5>1
          <5>2. CASE cursor[s] < origin /\ RingStart(s) # base[s]
            <6>1. RingStart(s) = origin /\ delivered[s] = {}
              BY <1>3, <1>4, <4>1, <5>2
            <6>2. \A o \in visible : ~(origin < o /\ o <= cursor[s])
              BY <1>3, <1>4, <5>2, PumpTypes
            <6> QED BY <6>1, <6>2
          <5> QED BY <4>1, <5>1, <5>2
        <4>4. RingStart(s) <= edge /\ cursor[s] <= edge /\ cursor[s] < hw /\ edge # None
          BY <1>3, <1>4, <4>1, EdgeFacts
        <4> QED BY <4>1, <4>2, <4>3, <4>4
      <3>3. CASE ~FromRing(s)
        <4>1. cursor[s] = edge /\ RingStart(s) = base[s]
          BY <1>6, <3>3 DEF ReachesEdge, RingStart
        <4>2. base[s] >= None /\ (edge # None => base[s] <= edge)
          BY <1>3, <1>4, <2>1, <4>1 DEF PlaceInv
        <4>3. \A o \in visible : ~(Larger(cursor[s], base[s]) < o /\ o <= edge)
          BY <1>3, <1>4, <4>1, PumpTypes DEF Larger
        <4>4. edge = None => base[s] < logStart
          <5>1. floor <= edge /\ logStart \in Nat
            BY <1>3, <1>4, PumpTypes DEF Core, EdgeInv
          <5> QED BY <1>3, <1>4, <2>1, <4>1, <5>1 DEF PlaceInv, None
        <4> QED BY <1>3, <1>4, <3>1, <4>1, <4>2, <4>3, <4>4, EdgeFacts
      <3> QED BY <3>2, <3>3
    <2>4. edge = None => delivered[s] = {}
      BY <1>3, <1>4 DEF Core, PhaseInv
    <2>5. floor < origin => \A o \in delivered[s] : origin < o
      BY <1>3, <1>4 DEF Core, EdgeInv
    <2>6. RunInv' /\ nextAfter' >= None /\ nextAfter' < hw
      BY <1>2, EdgeFacts DEF RunInv
    <2>7. cursor[s] >= None
      BY <1>4 DEF PlaceInv
    <2> QED BY <1>2, <1>3, <1>4, <2>1, <2>2, <2>3, <2>4, <2>5, <2>6, <2>7, OneMoves
  <1> QED BY <1>5, <1>6

\* The answer to a fetch is what its subscriber is owed next.
LEMMA CatchUpOkKeeps == ASSUME PumpInv, CatchUpOk PROVE Core'
  <1> DEFINE s == turn
             from == FetchFrom(cursor[s])
  <1>1. /\ UNCHANGED <<hw, visible, logStart, edge, ring, floor, filter, nextId, list, errTask, origin, turn,
                       mode, cursor, closed, queue, delivered>>
        /\ base' = [base EXCEPT ![s] = IF cursor[s] = None THEN logStart - 1 ELSE base[s]]
        /\ pc = "catchUp" /\ pc' = "pushRun" /\ Servable(cursor[s])
    BY DEF CatchUpOk, logVars, ringVars, subsVars, queueVars
  <1>2. PICK end \in FetchEnds(cursor[s]) : nextAfter' = end /\ batch' = Fetched(cursor[s], end)
    BY DEF CatchUpOk
  <1>3. /\ Core /\ edge \in Int /\ floor \in Int /\ hw \in Nat /\ logStart \in Nat
        /\ base \in [Ids -> Int]
    BY PumpTypes DEF TypeInv, TypeOK, HistoryType
  <1>4. /\ s \in list /\ mode[s] = "CatchingUp" /\ ~closed[s] /\ floor > None
    BY <1>1, <1>3 DEF Core, PhaseInv
  <1>5. s \in Ids /\ s < nextId
    BY <1>4, PumpTypes
  <1>6. /\ cursor[s] \in Int /\ base[s] \in Int /\ cursor[s] >= None /\ base[s] >= None
        /\ cursor[s] < hw \/ cursor[s] <= base[s]
        /\ delivered[s] = {} => queue[s] = <<>>
        /\ base[s] <= cursor[s] \/ cursor[s] = None
    BY <1>4, <1>5, SubTypes DEF PlaceInv
  <1>7. /\ from \in Nat /\ end \in Int /\ end >= None /\ end < hw
        /\ end = None \/ from <= end
        /\ cursor[s] # None => from = cursor[s] + 1
        /\ cursor[s] = None => from = logStart
        /\ batch' = {o \in visible : from <= o /\ o <= end}
    BY <1>1, <1>2, <1>6, FetchFacts
  <1> HIDE DEF from
  <1>8. /\ base'[s] = IF cursor[s] = None THEN logStart - 1 ELSE base[s]
        /\ \A t \in Ids \ {s} : base'[t] = base[t]
    BY <1>1, <1>3, <1>5
  <1> HIDE DEF s
  <1>9. base'[s] \in Int /\ base'[s] >= None /\ base'[s] < from
        /\ (base'[s] <= cursor[s] \/ (cursor[s] = None /\ base'[s] < logStart))
    BY <1>3, <1>6, <1>7, <1>8 DEF None
  <1>10. cursor[s] < hw \/ cursor[s] <= base'[s]
    BY <1>3, <1>6, <1>8 DEF None
  <1>11. RunInv'
    <2>1. \A o \in visible : from <= o <=> cursor[s] < o /\ base'[s] < o
      BY <1>3, <1>6, <1>7, <1>8, PumpTypes, SMTT(30) DEF None
    <2>2. batch' = {o \in visible : cursor[s] < o /\ base'[s] < o /\ o <= end}
      BY <1>7, <2>1
    <2>3. end = None \/ base'[s] <= end
      BY <1>7, <1>9
    <2> QED BY <1>1, <1>2, <2>2, <2>3 DEF RunInv, s
  <1>12. delivered[s] = {o \in visible : base'[s] < o /\ o <= cursor[s] /\ o \in filter[s]}
    <2>1. delivered[s] = {o \in visible : base[s] < o /\ o <= cursor[s] /\ o \in filter[s]}
      BY <1>3, <1>5 DEF Core, Gapless
    <2>2. \A o \in visible : o \in Nat
      BY PumpTypes
    <2> QED BY <1>8, <2>1, <2>2 DEF None
  <1>13. edge = None => delivered[s] = {}
    BY <1>1, <1>3, <1>5, EdgeFacts DEF Core, PhaseInv
  <1>14. floor < origin => \A o \in delivered[s] : origin < o
    BY <1>1, <1>3, <1>5, EdgeFacts DEF Core, EdgeInv
  <1>15. turn' = s
    BY <1>1 DEF s
  <1>16. nextAfter' >= None /\ nextAfter' < hw
    BY <1>2, <1>7
  <1> QED BY <1>1, <1>4, <1>5, <1>6, <1>8, <1>9, <1>10, <1>11, <1>12, <1>13, <1>14, <1>15, <1>16,
             OneMoves

\* The subscriber a run is being pushed to.
LEMMA RunFacts ==
  ASSUME PumpInv, pc = "pushRun"
  PROVE  /\ turn \in list /\ turn \in Ids /\ mode[turn] = "CatchingUp" /\ ~closed[turn]
         /\ floor > None /\ None < edge /\ ~(floor < origin)
         /\ cursor[turn] \in Int /\ base[turn] \in Int
         /\ cursor[turn] >= None /\ base[turn] >= None
         /\ cursor[turn] < hw \/ cursor[turn] <= base[turn]
         /\ delivered[turn] = {} => queue[turn] = <<>>
         /\ base[turn] <= cursor[turn] \/ (cursor[turn] = None /\ base[turn] < logStart)
         /\ delivered[turn] = {o \in visible : /\ base[turn] < o /\ o <= cursor[turn]
                                               /\ o \in filter[turn]}
         /\ batch = {o \in visible : cursor[turn] < o /\ base[turn] < o /\ o <= nextAfter}
         /\ nextAfter = None \/ base[turn] <= nextAfter
  <1>1. Core /\ floor \in Int /\ edge \in Int /\ origin \in Int
    BY PumpTypes
  <1>2. turn \in list /\ mode[turn] = "CatchingUp" /\ ~closed[turn] /\ floor > None
    BY <1>1 DEF Core, PhaseInv
  <1>3. edge # Unknown /\ Through = edge
    BY EdgeFacts
  <1>4. None < edge /\ ~(floor < origin)
    BY <1>1, <1>2, <1>3 DEF Core, EdgeInv, None
  <1>5. turn \in Ids /\ turn < nextId
    BY <1>2, PumpTypes
  <1>6. /\ cursor[turn] \in Int /\ base[turn] \in Int /\ PlaceInv(turn)
    BY <1>5, SubTypes
  <1>7. delivered[turn] = {o \in visible : /\ base[turn] < o /\ o <= cursor[turn]
                                           /\ o \in filter[turn]}
    BY <1>1, <1>5 DEF Core, Gapless
  <1> QED BY <1>1, <1>2, <1>4, <1>5, <1>6, <1>7 DEF PlaceInv, Core, RunInv

LEMMA CatchUpPushKeeps == ASSUME PumpInv, CatchUpPush PROVE Core'
  <1>1. PICK e \in batch : /\ \A o \in batch : e <= o
                           /\ PushRun(turn, e)
                           /\ IF Refused(turn, e)
                              THEN pc' = "top" /\ EndRun
                              ELSE batch' = batch \ {e} /\ UNCHANGED <<pc, nextAfter, todo, turn>>
    BY DEF CatchUpPush
  <1>2. /\ UNCHANGED <<hw, visible, logStart, edge, ring, floor, filter, nextId, list, errTask, origin,
                       mode, base>>
        /\ pc = "pushRun"
    BY DEF CatchUpPush, logVars, ringVars, subsVars
  <1> DEFINE s == turn
  <1>3. /\ hw \in Nat /\ nextAfter \in Int
    BY PumpTypes
  <1>4. /\ s \in list /\ s \in Ids /\ mode[s] = "CatchingUp" /\ ~closed[s]
        /\ floor > None /\ None < edge /\ ~(floor < origin)
        /\ cursor[s] \in Int /\ base[s] \in Int
        /\ cursor[s] >= None /\ base[s] >= None
        /\ cursor[s] < hw \/ cursor[s] <= base[s]
        /\ delivered[s] = {} => queue[s] = <<>>
        /\ base[s] <= cursor[s] \/ (cursor[s] = None /\ base[s] < logStart)
        /\ delivered[s] = {o \in visible : base[s] < o /\ o <= cursor[s] /\ o \in filter[s]}
        /\ batch = {o \in visible : cursor[s] < o /\ base[s] < o /\ o <= nextAfter}
        /\ nextAfter = None \/ base[s] <= nextAfter
    BY <1>2, RunFacts
  <1>5. /\ \A t \in Ids \ {s} : /\ cursor'[t] = cursor[t] /\ closed'[t] = closed[t]
                                /\ queue'[t] = queue[t] /\ delivered'[t] = delivered[t]
        /\ \/ /\ Refused(s, e)
              /\ cursor'[s] = cursor[s] /\ queue'[s] = queue[s] /\ delivered'[s] = delivered[s]
              /\ closed'[s] \/ ~Room(s)
           \/ /\ ~Refused(s, e) /\ e \notin filter[s] /\ ~closed'[s]
              /\ cursor'[s] = e /\ queue'[s] = queue[s] /\ delivered'[s] = delivered[s]
           \/ /\ ~Refused(s, e) /\ e \in filter[s] /\ ~closed'[s]
              /\ cursor'[s] = e /\ delivered'[s] = delivered[s] \cup {e}
    BY <1>1, <1>4, RunOutcome
  <1>6. /\ Refused(s, e) => pc' = "top" /\ nextAfter' = None
        /\ ~Refused(s, e) => /\ pc' = "pushRun" /\ nextAfter' = nextAfter /\ turn' = s
                             /\ batch' = batch \ {e}
    BY <1>1, <1>2 DEF EndRun
  <1> HIDE DEF s
  <1>7. e \in visible /\ e \in Nat /\ e < hw /\ cursor[s] < e /\ base[s] < e /\ e <= nextAfter
    BY <1>4, PumpTypes
  <1>8. \A o \in visible : base[s] < o => (o <= e <=> o <= cursor[s] \/ o = e)
    <2>0. cursor[s] \in Int /\ \A o \in visible : o \in Nat
      BY <1>4, PumpTypes
    <2> SUFFICES ASSUME NEW o \in visible, base[s] < o, o <= e, ~(o <= cursor[s])
                 PROVE  o = e
      BY <1>7, <2>0
    <2>1. o \in Nat /\ cursor[s] < o /\ o <= nextAfter
      BY <1>3, <1>7, <2>0
    <2>2. e <= o
      BY <1>1, <1>4, <2>1
    <2> QED BY <1>7, <2>1, <2>2
  <1>9. delivered'[s] = {o \in visible : base[s] < o /\ o <= cursor'[s] /\ o \in filter[s]}
    <2>1. CASE cursor'[s] = cursor[s] /\ delivered'[s] = delivered[s]
      BY <1>4, <2>1
    <2>2. CASE e \notin filter[s] /\ cursor'[s] = e /\ delivered'[s] = delivered[s]
      BY <1>4, <1>8, <2>2
    <2>3. CASE e \in filter[s] /\ cursor'[s] = e /\ delivered'[s] = delivered[s] \cup {e}
      BY <1>4, <1>7, <1>8, <2>3
    <2> QED BY <1>5, <2>1, <2>2, <2>3
  <1>10. cursor'[s] = cursor[s] \/ cursor'[s] = e
    BY <1>5
  <1>11. /\ cursor'[s] \in Int /\ cursor'[s] >= None
         /\ cursor'[s] < hw \/ cursor'[s] <= base[s]
    BY <1>4, <1>7, <1>10 DEF None
  <1>12. ~closed'[s] => base[s] <= cursor'[s]
    <2>1. CASE ~Room(s) /\ cursor'[s] = cursor[s]
      BY <1>4, <2>1, FullHasBegun
    <2>2. CASE cursor'[s] = e
      BY <1>4, <1>7, <2>2
    <2> QED BY <1>5, <2>1, <2>2
  <1>13. ~closed'[s] => (delivered'[s] = {} => queue'[s] = <<>>)
    BY <1>4, <1>5
  <1>14. RunInv'
    <2>1. CASE Refused(s, e)
      BY <1>6, <2>1 DEF RunInv
    <2>2. CASE ~Refused(s, e)
      <3>1. cursor'[s] = e
        BY <1>5, <2>2
      <3>2. batch \ {e} = {o \in visible : e < o /\ base[s] < o /\ o <= nextAfter}
        <4>1. \A o \in batch : o \in Nat /\ e <= o
          BY <1>1, <1>4, PumpTypes
        <4>2. ASSUME NEW o \in batch \ {e}
              PROVE  o \in visible /\ e < o /\ base[s] < o /\ o <= nextAfter
          <5>1. o \in Nat /\ e <= o /\ o # e
            BY <4>1, <4>2
          <5>2. e < o
            BY <1>7, <5>1
          <5> QED BY <1>4, <4>2, <5>2
        <4>3. ASSUME NEW o \in visible, e < o, base[s] < o, o <= nextAfter
              PROVE  o \in batch \ {e}
          <5>1. o \in Nat /\ cursor[s] \in Int /\ cursor[s] < o
            BY <1>4, <1>7, <4>3, PumpTypes
          <5>2. o # e
            BY <1>7, <4>3, <5>1
          <5> QED BY <1>4, <4>3, <5>1, <5>2
        <4> QED BY <4>2, <4>3
      <3> QED BY <1>2, <1>4, <1>6, <2>2, <3>1, <3>2 DEF RunInv
    <2> QED BY <2>1, <2>2
  <1>15. nextAfter' >= None /\ nextAfter' < hw
    BY <1>6, EdgeFacts DEF None
  <1>16. pc' \in {"top", "pushRun"} /\ edge # None
    <2>1. edge \in Int
      BY PumpTypes
    <2> QED BY <1>4, <1>6, <2>1 DEF None
  <1>17. pc' = "pushRun" => turn' = s /\ ~closed'[s]
    BY <1>5, <1>6
  <1> QED BY <1>2, <1>4, <1>5, <1>9, <1>11, <1>12, <1>13, <1>14, <1>15, <1>16, <1>17, OneMoves

\* The run was delivered: up to its end there is nothing else.
LEMMA CatchUpDoneKeeps == ASSUME PumpInv, CatchUpDone PROVE Core'
  <1> DEFINE s == turn
  <1>1. /\ UNCHANGED <<hw, visible, logStart, edge, ring, floor, filter, nextId, list, errTask, origin,
                       mode, base, closed, queue, delivered>>
        /\ pc = "pushRun" /\ pc' = "top" /\ batch = {} /\ nextAfter' = None
        /\ cursor' = [cursor EXCEPT ![s] = Larger(cursor[s], nextAfter)]
    BY DEF CatchUpDone, EndRun, logVars, ringVars, subsVars, queueVars, historyVars
  <1>2. /\ hw \in Nat /\ nextAfter \in Int /\ cursor \in [Ids -> Int] /\ edge \in Int
    BY PumpTypes DEF TypeInv, TypeOK, StateType
  <1>3. /\ s \in list /\ s \in Ids /\ mode[s] = "CatchingUp" /\ ~closed[s]
        /\ floor > None /\ None < edge /\ ~(floor < origin)
        /\ cursor[s] \in Int /\ base[s] \in Int
        /\ cursor[s] >= None /\ base[s] >= None
        /\ cursor[s] < hw \/ cursor[s] <= base[s]
        /\ delivered[s] = {} => queue[s] = <<>>
        /\ base[s] <= cursor[s] \/ (cursor[s] = None /\ base[s] < logStart)
        /\ delivered[s] = {o \in visible : base[s] < o /\ o <= cursor[s] /\ o \in filter[s]}
        /\ batch = {o \in visible : cursor[s] < o /\ base[s] < o /\ o <= nextAfter}
        /\ nextAfter = None \/ base[s] <= nextAfter
    BY <1>1, RunFacts
  <1>4. /\ nextAfter >= None /\ nextAfter < hw /\ None < hw
    BY EdgeFacts
  <1>5. /\ cursor'[s] = Larger(cursor[s], nextAfter)
        /\ \A t \in Ids \ {s} : cursor'[t] = cursor[t]
    BY <1>1, <1>2, <1>3
  <1> HIDE DEF s
  <1>6. /\ cursor'[s] \in Int /\ cursor'[s] >= None
        /\ cursor'[s] < hw \/ cursor'[s] <= base[s]
        /\ base[s] <= cursor'[s] \/ (cursor'[s] = None /\ base[s] < logStart)
    BY <1>2, <1>3, <1>4, <1>5 DEF Larger
  <1>7. delivered[s] = {o \in visible : base[s] < o /\ o <= cursor'[s] /\ o \in filter[s]}
    <2>1. \A o \in visible : base[s] < o => (o <= cursor'[s] <=> o <= cursor[s])
      BY <1>1, <1>2, <1>3, <1>5, PumpTypes DEF Larger
    <2> QED BY <1>3, <2>1
  <1>8. RunInv' /\ edge # None
    BY <1>1, <1>2, <1>3 DEF RunInv
  <1> QED BY <1>1, <1>2, <1>3, <1>4, <1>5, <1>6, <1>7, <1>8, OneMoves DEF None

-----------------------------------------------------------------------------
(* The invariant, and what follows from it.                                *)

LEMMA CoreInit == Init => Core
  <1> SUFFICES ASSUME Init PROVE Core
    OBVIOUS
  <1>1. /\ pc = "top" /\ edge = Unknown /\ ring = {} /\ floor = None /\ origin = None
        /\ list = {} /\ nextId = 0 /\ nextAfter = None /\ hw \in Nat
        /\ \A s \in Ids : /\ cursor[s] = None /\ base[s] = None /\ delivered[s] = {}
                          /\ queue[s] = <<>> /\ closed[s] = FALSE /\ errTask[s] = "none"
        /\ \A s \in Ids : s \in Nat
    BY PumpAssumption DEF Init, Ids
  <1>2. Through = Unknown
    BY <1>1 DEF Through
  <1>3. PhaseInv
    BY <1>1 DEF PhaseInv
  <1>4. EdgeInv /\ RunInv /\ RingComplete
    BY <1>1 DEF EdgeInv, RunInv, RingComplete, None, Unknown
  <1>5. Gapless
    BY <1>1 DEF Gapless
  <1>6. LiveIsCurrent
    BY <1>1 DEF LiveIsCurrent, Shown
  <1>7. \A s \in Ids : PlaceInv(s)
    BY <1>1 DEF PlaceInv, None
  <1> QED BY <1>3, <1>4, <1>5, <1>6, <1>7 DEF Core

LEMMA UnchangedKeeps == ASSUME PumpInv, UNCHANGED vars PROVE Core'
  <1>1. UNCHANGED <<hw, visible, logStart, edge, ring, floor, mode, cursor, filter, nextId, origin,
                    base, delivered, pc, batch, nextAfter, list, closed, queue, errTask, turn>>
    BY DEF vars, logVars, taskVars, stateVars, queueVars, historyVars, ringVars, subsVars,
           runVars
  <1>2. Core
    BY PumpTypes
  <1> QED BY <1>1, <1>2, Quiet, Still, EdgeFacts DEF Core, PhaseInv

LEMMA CoreStep == ASSUME PumpInv, [Next]_vars PROVE Core'
  <1>1. CASE PumpStep
    <2>1. CASE RetainLive \/ ReceiveCommand \/ IdleTimeout \/ HandlesGone \/ CommandsDrained
      BY <2>1, RetainKeeps, CommandKeeps, DrainedKeeps
    <2>2. CASE \/ LiveStartOk \/ \E permanent \in BOOLEAN : LiveStartFails(permanent)
               \/ LiveFetchOk \/ \E permanent \in BOOLEAN : LiveFetchFails(permanent)
               \/ PushLive \/ LiveBatchDone
      BY <2>2, LiveStartKeeps, LiveFetchKeeps, LivePathFailsKeeps, PushLiveKeeps,
         LiveBatchDoneKeeps
    <2>3. CASE RingServes \/ RingDone \/ NextFetch
      BY <2>3, RingServesKeeps, RingDoneKeeps, NextFetchKeeps
    <2>4. CASE CatchUpOk \/ CatchUpPush \/ CatchUpDone \/ CatchUpFails
      BY <2>4, CatchUpOkKeeps, CatchUpPushKeeps, CatchUpDoneKeeps, CatchUpFailsKeeps
    <2>5. CASE CatchUpFailsForGood
      BY <2>5, FailSubsKeeps DEF CatchUpFailsForGood
    <2> QED BY <1>1, <2>1, <2>2, <2>3, <2>4, <2>5 DEF PumpStep
  <1>2. CASE LogStep
    BY <1>2, TrimKeeps, ProduceKeeps DEF LogStep
  <1>3. CASE HandleStep
    BY <1>3, HandleKeeps
  <1>4. CASE ReaderStep
    BY <1>4, ReaderKeeps
  <1>5. CASE UNCHANGED vars
    BY <1>5, UnchangedKeeps
  <1> QED BY <1>1, <1>2, <1>3, <1>4, <1>5 DEF Next

LEMMA PumpStepInv == PumpInv /\ [Next]_vars => PumpInv'
  <1> SUFFICES ASSUME PumpInv, [Next]_vars PROVE PumpInv'
    OBVIOUS
  <1>1. Core'
    BY CoreStep
  <1>2. TypeInv'
    BY PumpTypes, TypeStep
  <1> QED BY <1>1, <1>2 DEF PumpInv, Core, TypeInv

\* The ring, the live edge, every subscriber's cursor and queue, and the batch
\* in hand agree with one another wherever run_pump can be suspended, for every
\* log, every number of subscribers and every configuration: what Ring::covers
\* promises is there, a live subscriber is owed nothing the live path has read,
\* and the run of a catch-up fetch is what its subscriber is owed next.
THEOREM PumpTheorem == Spec => []PumpInv
  <1>1. Init => PumpInv
    BY CoreInit, TypeInit DEF PumpInv, Core, TypeInv
  <1> QED BY <1>1, PumpStepInv, PTL DEF Spec

\* Whatever mix of live pushes, stalls, ring runs and catch-up fetches brought
\* a subscriber where it is, push_live, push_run and fetch_catch_up have sent it
\* exactly the records its filter matches from the start of its stream to its
\* cursor.
THEOREM GaplessTheorem == Spec => []Gapless
  <1>1. PumpInv => Gapless
    BY DEF PumpInv
  <1> QED BY <1>1, PumpTheorem, PTL

\* Only an open stream is sent anything, or given up on.
LEMMA OnlyOpenStreams ==
  ASSUME PumpInv, [Next]_vars, NEW s \in Ids, errTask[s] # "none"
  PROVE  /\ delivered'[s] = delivered[s]
         /\ errTask'[s] = "pending" => errTask[s] = "pending"
  <1>1. s \notin list \/ closed[s]
    BY SubTypes DEF PlaceInv
  <1>2. /\ errTask \in [Ids -> {"none", "pending", "done"}]
        /\ todo \subseteq list /\ list \subseteq Ids /\ Core
    BY PumpTypes DEF TypeInv, TypeOK, QueueType
  <1>3. CASE UNCHANGED <<delivered, errTask>>
    BY <1>3
  <1>4. CASE FailSubs
    BY <1>1, <1>4 DEF FailSubs, Return, historyVars
  <1>5. CASE CatchUpFails
    <2>1. turn \in list /\ ~closed[turn]
      BY <1>2, <1>5 DEF CatchUpFails, Core, PhaseInv
    <2>2. errTask'[s] = errTask[s]
      BY <1>1, <1>2, <1>5, <2>1 DEF CatchUpFails
    <2> QED BY <1>5, <2>2 DEF CatchUpFails, historyVars
  <1>6. CASE PushLive
    <2>1. s \notin Shown
      BY <1>1 DEF Shown
    <2> QED BY <1>6, <2>1, Outcome DEF PushLive
  <1>7. ASSUME NEW t \in list, ~closed[t], NEW e, PushRun(t, e), UNCHANGED errTask
        PROVE  /\ delivered'[s] = delivered[s]
               /\ errTask'[s] = "pending" => errTask[s] = "pending"
    BY <1>1, <1>2, <1>7, RunOutcome
  <1>8. CASE RingServes
    <2>1. \E t \in list : ~closed[t] /\ \E e \in RingAfter(cursor[t]) : PushRun(t, e)
      BY <1>2, <1>8 DEF RingServes, FromRing
    <2>2. UNCHANGED errTask
      BY <1>8 DEF RingServes
    <2> QED BY <1>7, <2>1, <2>2
  <1>9. CASE CatchUpPush
    <2>1. turn \in list /\ ~closed[turn]
      BY <1>2, <1>9 DEF CatchUpPush, Core, PhaseInv
    <2> QED BY <1>7, <1>9, <2>1 DEF CatchUpPush
  <1>10. CASE ReaderStep
    <2>1. PICK r \in Ids : Recv(r) \/ DropReceiver(r) \/ SendError(r)
      BY <1>10 DEF ReaderStep
    <2>2. UNCHANGED delivered
      BY <2>1 DEF Recv, DropReceiver, SendError, historyVars
    <2>3. errTask' = errTask \/ errTask' = [errTask EXCEPT ![r] = "done"]
      BY <2>1 DEF Recv, DropReceiver, SendError
    <2> QED BY <1>2, <2>2, <2>3
  <1>11. CASE LogStep \/ HandleStep \/ UNCHANGED vars
    BY <1>3, <1>11 DEF LogStep, Trim, Produce, HandleStep, Subscribe, Shutdown, Send, DropHandle,
                       vars, queueVars, historyVars
  <1>12. CASE RetainLive \/ ReceiveCommand \/ IdleTimeout \/ HandlesGone \/ CommandsDrained
    BY <1>3, <1>12 DEF RetainLive, ReceiveCommand, HandleSubscribe, IdleTimeout, HandlesGone,
                       CommandsDrained, ReturnCleanly, Return, queueVars, historyVars
  <1>13. CASE \/ LiveStartOk \/ \E permanent \in BOOLEAN : LiveStartFails(permanent)
              \/ LiveFetchOk \/ \E permanent \in BOOLEAN : LiveFetchFails(permanent)
              \/ LiveBatchDone
    BY <1>3, <1>4, <1>13 DEF LiveStartOk, LiveStartFails, LiveFetchOk, LiveFetchFails,
                             LivePathFails, LiveBatchDone, queueVars, historyVars
  <1>14. CASE RingDone \/ NextFetch \/ CatchUpOk \/ CatchUpDone \/ CatchUpFailsForGood
    BY <1>3, <1>4, <1>14 DEF RingDone, NextFetch, CatchUpOk, CatchUpDone, CatchUpFailsForGood,
                             queueVars, historyVars
  <1> QED BY <1>5, <1>6, <1>8, <1>9, <1>10, <1>11, <1>12, <1>13, <1>14 DEF Next, PumpStep

\* Once fail_one or fail_subs has handed a stream its terminal error, no record
\* is queued for it any more and no second error follows.
THEOREM ErrorTheorem == Spec => ErrorIsLast
  <1>1. PumpInv /\ [Next]_vars =>
           [\A s \in Ids : errTask[s] # "none" =>
               /\ delivered'[s] = delivered[s]
               /\ errTask'[s] = "pending" => errTask[s] = "pending"]_vars
    BY OnlyOpenStreams
  <1> QED BY <1>1, PumpTheorem, PTL DEF Spec, ErrorIsLast

-----------------------------------------------------------------------------
(* The turns of the laggards.                                              *)

\* Whoever was served while this one waited comes after it in the round.
TurnInv ==
    \A s \in Ids : \A p \in passedBy[s] : p \in Nat /\ ~InTurn(p, s)

LEMMA TurnStep ==
  ASSUME PumpInv, TurnInv, [Next]_vars
  PROVE  /\ TurnInv'
         /\ \A s \in Ids : (pc = "ring" /\ pc' = "catchUp" /\ passedBy'[s] # {})
                              => turn' \notin passedBy[s]
  <1>1. rotor \in Nat /\ list \subseteq Ids /\ \A s \in Ids : s \in Nat
    BY PumpTypes DEF TypeInv, TypeOK, TaskType
  <1>2. CASE UNCHANGED <<passedBy, rotor>> /\ ~(pc = "ring" /\ pc' = "catchUp")
    BY <1>2 DEF TurnInv, InTurn
  <1>3. CASE NextFetch
    <2> DEFINE waiting == {s \in list : NeedsFetch(s)}
    <2>1. CASE waiting = {} /\ pc' = "top" /\ passedBy' = [s \in Ids |-> {}]
      BY <2>1 DEF TurnInv
    <2>2. ASSUME NEW w \in waiting, \A t \in waiting : InTurn(w, t),
                 rotor' = w + 1, turn' = w,
                 passedBy' = [t \in Ids |-> IF t \in waiting \ {w}
                                            THEN passedBy[t] \cup {w} ELSE {}]
          PROVE  /\ TurnInv'
                 /\ \A s \in Ids : passedBy'[s] # {} => turn' \notin passedBy[s]
      <3>1. w \in Nat
        BY <1>1
      <3> HIDE DEF waiting
      <3>2. ASSUME NEW s \in Ids, passedBy'[s] # {} PROVE turn' \notin passedBy[s]
        <4>1. s \in waiting
          BY <2>2, <3>2
        <4>2. InTurn(w, s)
          BY <2>2, <4>1
        <4> QED BY <2>2, <4>2 DEF TurnInv
      <3>3. ASSUME NEW s \in Ids, NEW p \in passedBy'[s]
            PROVE  p \in Nat /\ ~InTurn(p, s)'
        <4>1. /\ s \in waiting /\ s # w /\ s \in Nat
              /\ p \in passedBy[s] \/ p = w
          BY <1>1, <2>2, <3>3
        <4>2. InTurn(w, s)
          BY <2>2, <4>1
        <4>3. CASE p = w
          BY <2>2, <3>1, <4>1, <4>3 DEF InTurn
        <4>4. CASE p \in passedBy[s]
          <5>1. p \in Nat /\ ~InTurn(p, s)
            BY <4>4 DEF TurnInv
          <5> QED BY <1>1, <2>2, <3>1, <4>1, <4>2, <5>1 DEF InTurn
        <4> QED BY <4>1, <4>3, <4>4
      <3> QED BY <3>2, <3>3 DEF TurnInv
    <2> QED BY <1>3, <2>1, <2>2 DEF NextFetch
  <1>4. CASE LogStep \/ HandleStep \/ ReaderStep \/ UNCHANGED vars
    BY <1>2, <1>4 DEF LogStep, Trim, Produce, HandleStep, Subscribe, Shutdown, Send, DropHandle,
                      ReaderStep, Recv, DropReceiver, SendError, vars, historyVars, taskVars,
                      subsVars
  <1>5. CASE RetainLive \/ ReceiveCommand \/ IdleTimeout \/ HandlesGone \/ CommandsDrained
    BY <1>2, <1>5 DEF RetainLive, ReceiveCommand, HandleSubscribe, IdleTimeout, HandlesGone,
                      CommandsDrained, ReturnCleanly, Return, historyVars, subsVars
  <1>6. CASE \/ LiveStartOk \/ \E permanent \in BOOLEAN : LiveStartFails(permanent)
             \/ LiveFetchOk \/ \E permanent \in BOOLEAN : LiveFetchFails(permanent)
             \/ PushLive \/ LiveBatchDone
    BY <1>2, <1>6 DEF LiveStartOk, LiveStartFails, LiveFetchOk, LiveFetchFails, LivePathFails,
                      FailSubs, Return, PushLive, LiveBatchDone, historyVars, subsVars
  <1>7. CASE \/ RingServes \/ RingDone \/ CatchUpOk \/ CatchUpPush \/ CatchUpDone
             \/ CatchUpFails \/ CatchUpFailsForGood
    BY <1>2, <1>7 DEF RingServes, RingDone, CatchUpOk, CatchUpPush, CatchUpDone, CatchUpFails,
                      CatchUpFailsForGood, FailSubs, Return, historyVars, subsVars
  <1> QED BY <1>3, <1>4, <1>5, <1>6, <1>7 DEF Next, PumpStep

\* While a laggard waits for its catch-up fetch Subscribers::next_fetch gives no
\* other one two, whoever joins or leaves meanwhile.
THEOREM TurnsTheorem == Spec => TurnsAreFair
  <1>1. Init => TurnInv
    BY DEF Init, TurnInv
  <1>2. PumpInv /\ TurnInv /\ [Next]_vars => TurnInv'
    BY TurnStep
  <1>3. PumpInv /\ TurnInv /\ [Next]_vars =>
           [\A s \in Ids : (pc = "ring" /\ pc' = "catchUp" /\ passedBy'[s] # {})
                              => turn' \notin passedBy[s]]_vars
    BY TurnStep
  <1> QED BY <1>1, <1>2, <1>3, PumpTheorem, PTL DEF Spec, TurnsAreFair

-----------------------------------------------------------------------------
(* The pump implements the feed.                                           *)

LEMMA StatusNow ==
  ASSUME PumpInv, NEW s \in Ids
  PROVE  /\ s >= nextId => Status[s] = "none"
         /\ (s < nextId /\ (s \notin list \/ closed[s])) => Status[s] = "ended"
         /\ (s \in list /\ ~closed[s]) =>
               /\ s < nextId
               /\ (mode[s] = "Live" /\ edge = Unknown) => Status[s] = "waiting"
               /\ ~(mode[s] = "Live" /\ edge = Unknown) => Status[s] = "open"
  <1>1. nextId \in Nat /\ s \in Nat /\ (s \in list => s < nextId)
    BY PumpTypes
  <1> QED BY <1>1 DEF Status

LEMMA StatusNext ==
  ASSUME PumpInv', NEW s \in Ids
  PROVE  /\ s >= nextId' => Status'[s] = "none"
         /\ (s < nextId' /\ (s \notin list' \/ closed'[s])) => Status'[s] = "ended"
         /\ (s \in list' /\ ~closed'[s]) =>
               /\ s < nextId'
               /\ (mode'[s] = "Live" /\ edge' = Unknown) => Status'[s] = "waiting"
               /\ ~(mode'[s] = "Live" /\ edge' = Unknown) => Status'[s] = "open"
  <1>1. nextId' \in 0 .. MaxSubs /\ list' \subseteq 0 .. nextId' - 1
    BY DEF PumpInv, TypeOK, TaskType
  <1>2. MaxSubs \in Nat /\ s \in Nat
    BY PumpAssumption DEF Ids
  <1>3. nextId' \in Nat /\ (s \in list' => s < nextId')
    <2>1. nextId' \in Nat
      BY <1>1, <1>2
    <2>2. PICK n \in Nat : n = nextId'
      BY <2>1
    <2>3. list' \subseteq 0 .. n - 1
      BY <1>1, <2>2
    <2>4. s \in list' => s < n
      BY <1>2, <2>3
    <2> QED BY <2>1, <2>2, <2>4
  <1> QED BY <1>2, <1>3 DEF Status

LEMMA FeedInit == Init => F!Init
  <1> SUFFICES ASSUME Init PROVE F!Init
    OBVIOUS
  <1>1. /\ hw \in Nat /\ logStart \in 0 .. hw /\ visible \in SUBSET (0 .. hw - 1)
        /\ filter = [s \in Ids |-> {}] /\ base = [s \in Ids |-> -1]
        /\ delivered = [s \in Ids |-> {}]
    BY PumpAssumption DEF Init, None
  <1>2. nextId = 0 /\ \A s \in Ids : s \in Nat
    BY PumpAssumption DEF Init, Ids
  <1>3. Status = [s \in Ids |-> "none"]
    BY <1>2 DEF Status
  <1> QED BY <1>1, <1>3 DEF F!Init

\* A step that ends streams, settles starts and delivers records.
LEMMA FeedMoves ==
  ASSUME PumpInv, PumpInv', UNCHANGED <<hw, visible, logStart, nextId, filter>>,
         list' \subseteq list,
         \A s \in list' : ~closed'[s] =>
            /\ ~closed[s]
            /\ (mode'[s] = "Live" /\ edge' = Unknown) => (mode[s] = "Live" /\ edge = Unknown),
         \A s \in Ids : base'[s] = base[s] \/ F!Settles(s),
         \A s \in Ids : delivered'[s] = delivered[s] \/ F!Delivers(s)
  PROVE  F!Next
  <1> SUFFICES ASSUME NEW s \in Ids PROVE F!StreamStep(s)
    BY DEF F!Next
  <1>1. \/ <<Status[s], Status'[s]>> \in
              {<<"none", "waiting">>, <<"none", "open">>, <<"waiting", "open">>,
               <<"waiting", "ended">>, <<"open", "ended">>}
        \/ Status'[s] = Status[s]
    <2>1. nextId \in Nat /\ s \in Nat
      BY PumpTypes
    <2>2. CASE s >= nextId
      BY <2>2, StatusNow, StatusNext
    <2>3. CASE s < nextId /\ (s \notin list \/ closed[s])
      <3>1. s \notin list' \/ closed'[s]
        BY <2>3
      <3> QED BY <2>3, <3>1, StatusNow, StatusNext
    <2>4. CASE s \in list /\ ~closed[s] /\ (s \notin list' \/ closed'[s])
      BY <2>4, StatusNow, StatusNext
    <2>5. CASE s \in list /\ ~closed[s] /\ s \in list' /\ ~closed'[s]
      BY <2>5, StatusNow, StatusNext
    <2> QED BY <2>1, <2>2, <2>3, <2>4, <2>5
  <1> QED BY <1>1 DEF F!StreamStep

\* The same, when nothing is settled and nothing is delivered.
LEMMA FeedRests ==
  ASSUME PumpInv, PumpInv',
         UNCHANGED <<hw, visible, logStart, nextId, filter, base, delivered>>,
         edge = Unknown <=> edge' = Unknown, list' \subseteq list,
         \A s \in list' : ~closed'[s] =>
            /\ ~closed[s]
            /\ mode'[s] = mode[s]
  PROVE  F!Next
  BY FeedMoves

\* The other tasks do not show.
LEMMA FeedOthers ==
  ASSUME PumpInv, PumpInv', LogStep \/ HandleStep \/ ReaderStep \/ UNCHANGED vars
  PROVE  [F!Next]_F!feedVars
  <1>1. CASE HandleStep \/ ReaderStep \/ UNCHANGED vars
    <2>1. UNCHANGED <<logVars, taskVars, stateVars, historyVars>>
      BY <1>1 DEF HandleStep, Subscribe, Shutdown, Send, DropHandle, ReaderStep, Recv,
                  DropReceiver, SendError, vars
    <2>2. UNCHANGED <<hw, visible, logStart, nextId, list, closed, mode, edge, filter, base,
                      delivered>>
      BY <2>1 DEF logVars, taskVars, stateVars, historyVars, subsVars
    <2>3. UNCHANGED Status
      BY <2>2 DEF Status
    <2> QED BY <2>2, <2>3 DEF F!feedVars
  <1>2. CASE LogStep
    <2>1. UNCHANGED <<taskVars, stateVars, historyVars>>
      BY <1>2 DEF LogStep, Trim, Produce
    <2>2. UNCHANGED <<nextId, list, closed, mode, edge, filter, base, delivered>>
      BY <2>1 DEF taskVars, stateVars, historyVars, subsVars
    <2>3. UNCHANGED Status
      BY <2>2 DEF Status
    <2>4. hw \in Nat /\ logStart \in Int
      BY PumpTypes
    <2>5. \/ hw' = hw /\ visible' = visible /\ logStart' = logStart + 1
          \/ /\ hw' = hw + 1 /\ logStart' = logStart
             /\ visible' = visible \/ visible' = visible \cup {hw}
      BY <1>2 DEF LogStep, Trim, Produce
    <2>6. F!LogStep
      BY <2>4, <2>5 DEF F!LogStep
    <2> QED BY <2>2, <2>3, <2>6 DEF F!Next
  <1> QED BY <1>1, <1>2

LEMMA FeedReturn == ASSUME PumpInv, PumpInv', Return PROVE F!Next
  <1>1. /\ UNCHANGED <<hw, visible, logStart, nextId, filter, base, delivered, edge>>
        /\ list' = {}
    BY DEF Return, logVars, stateVars, historyVars
  <1> QED BY <1>1, FeedRests

\* A new stream: its start and its filter are settled as it is opened.
LEMMA FeedSubscribes ==
  ASSUME PumpInv, PumpInv', ReceiveCommand, Head(commands).kind # "Shutdown"
  PROVE  F!Next
  <1>1. /\ UNCHANGED <<hw, visible, logStart, edge, closed, delivered>>
        /\ nextId' = nextId + 1 /\ list' = list \cup {nextId}
        /\ mode' = [mode EXCEPT ![nextId] =
                       IF Head(commands).position = LatestP THEN "Live" ELSE "CatchingUp"]
        /\ filter' = [filter EXCEPT ![nextId] = Head(commands).filter]
        /\ base' = [base EXCEPT ![nextId] =
                       IF Head(commands).position # LatestP THEN Head(commands).position
                       ELSE IF edge = Unknown THEN None ELSE edge]
    BY DEF ReceiveCommand, HandleSubscribe, logVars
  <1>2. /\ mode \in [Ids -> {"Live", "CatchingUp"}] /\ base \in [Ids -> Int]
        /\ filter \in [Ids -> SUBSET Nat] /\ nextId \in Nat
    BY PumpTypes DEF TypeInv, TypeOK, StateType, HistoryType
  <1> SUFFICES ASSUME NEW s \in Ids PROVE F!StreamStep(s)
    BY <1>1 DEF F!Next
  <1>3. s \in Nat
    BY PumpTypes
  <1>4. CASE s = nextId
    <2>1. Status[s] = "none"
      BY <1>2, <1>4, StatusNow
    <2>2. ~closed[s]
      BY <1>2, <1>4, SubTypes DEF PlaceInv
    <2>3. Status'[s] \in {"waiting", "open"}
      BY <1>1, <1>4, <2>2, StatusNext
    <2> QED BY <1>1, <2>1, <2>3 DEF F!StreamStep
  <1>5. CASE s # nextId
    <2>1. mode'[s] = mode[s] /\ base'[s] = base[s] /\ filter'[s] = filter[s]
      BY <1>1, <1>2, <1>5
    <2>2. /\ s < nextId <=> s < nextId'
          /\ s >= nextId <=> s >= nextId'
          /\ s \in list <=> s \in list'
      BY <1>1, <1>2, <1>3, <1>5
    <2>3. Status'[s] = Status[s]
      <3>1. CASE s >= nextId
        BY <2>2, <3>1, StatusNow, StatusNext
      <3>2. CASE s < nextId /\ (s \notin list \/ closed[s])
        BY <1>1, <2>2, <3>2, StatusNow, StatusNext
      <3>3. CASE s \in list /\ ~closed[s]
        BY <1>1, <2>1, <2>2, <3>3, StatusNow, StatusNext
      <3> QED BY <1>2, <1>3, <3>1, <3>2, <3>3
    <2> QED BY <1>1, <2>1, <2>3 DEF F!StreamStep
  <1> QED BY <1>4, <1>5

\* Where the live path starts is settled before anything is delivered.
LEMMA FeedLiveStarts ==
  ASSUME PumpInv, PumpInv', LiveStartOk \/ LiveFetchOk PROVE F!Next
  <1>1. /\ UNCHANGED <<hw, visible, logStart, nextId, filter, list, closed, mode, delivered>>
        /\ edge' # Unknown
        /\ LiveStartOk => /\ edge = Unknown
                          /\ base' = [s \in Ids |-> IF s \in list /\ mode[s] = "Live"
                                                    THEN hw - 1 ELSE base[s]]
        /\ LiveFetchOk => /\ edge # Unknown /\ edge' = edge
                          /\ base' = [s \in Ids |->
                                IF edge = None /\ s \in list /\ mode[s] = "Live"
                                THEN logStart - 1 ELSE base[s]]
    <2>1. hw - 1 # Unknown
      BY PumpTypes DEF Unknown
    <2>2. LiveStartOk => edge = Unknown
      BY PumpTypes DEF LiveStartOk, Core, PhaseInv
    <2>3. LiveFetchOk => edge # Unknown
      BY EdgeFacts DEF LiveFetchOk
    <2> QED BY <2>1, <2>2, <2>3 DEF LiveStartOk, LiveFetchOk, logVars, subsVars, stateVars
  <1>2. Core /\ hw \in Nat /\ logStart \in Nat /\ \A s \in list : ~closed[s]
    BY PumpTypes DEF LiveStartOk, LiveFetchOk, Core, PhaseInv
  <1>3. ASSUME NEW s \in Ids, base'[s] # base[s] PROVE F!Settles(s)
    <2>1. PlaceInv(s) /\ base[s] \in Int
      BY SubTypes
    <2>2. CASE LiveStartOk
      <3>1. s \in list /\ mode[s] = "Live" /\ base'[s] = hw - 1
        BY <1>1, <1>3, <2>2
      <3>2. base[s] = None
        BY <1>1, <1>2, <2>2, <3>1 DEF Core, PhaseInv
      <3>3. delivered[s] = {}
        BY <1>1, <1>2, <2>2 DEF LiveStartOk, Core, PhaseInv, Through
      <3>4. Status[s] = "waiting"
        BY <1>1, <1>2, <2>2, <3>1, StatusNow
      <3> QED BY <1>2, <1>3, <3>1, <3>2, <3>3, <3>4 DEF F!Settles, None
    <2>3. CASE LiveFetchOk
      <3>1. s \in list /\ mode[s] = "Live" /\ base'[s] = logStart - 1 /\ edge = None
        BY <1>1, <1>3, <2>3
      <3>2. base[s] < logStart
        BY <1>1, <1>2, <2>1, <2>3, <3>1 DEF PlaceInv
      <3>3. delivered[s] = {}
        BY <1>2, <2>3, <3>1 DEF LiveFetchOk, Core, PhaseInv, Through
      <3>4. Status[s] = "open"
        BY <1>1, <1>2, <2>3, <3>1, StatusNow
      <3> QED BY <1>2, <1>3, <2>1, <3>1, <3>2, <3>3, <3>4 DEF F!Settles
    <2> QED BY <2>2, <2>3
  <1> QED BY <1>1, <1>3, FeedMoves

\* What is taken is the least record owed.
LEMMA FeedDelivers ==
  ASSUME PumpInv, NEW s \in list, ~closed[s], edge # Unknown, NEW e \in visible, e \in filter[s],
         base'[s] \in Int, base'[s] < e, cursor[s] < e,
         \A o \in visible : base'[s] < o => (o <= e <=> o <= cursor[s] \/ o = e),
         delivered[s] = {o \in visible : base'[s] < o /\ o <= cursor[s] /\ o \in filter[s]},
         delivered'[s] = delivered[s] \cup {e}
  PROVE  F!Delivers(s)
  <1>1. s \in Ids /\ cursor[s] \in Int /\ \A o \in visible : o \in Nat
    BY PumpTypes, SubTypes
  <1>2. Status[s] = "open"
    BY <1>1, StatusNow
  <1>3. F!Owed(s, base'[s]) = {o \in visible \cap filter[s] : /\ o > base'[s]
                                                              /\ o \notin delivered[s]}
    BY DEF F!Owed
  <1>4. e \in F!Owed(s, base'[s])
    <2>1. ~(e <= cursor[s])
      BY <1>1
    <2> QED BY <1>1, <1>3, <2>1
  <1>5. ASSUME NEW p \in F!Owed(s, base'[s]) PROVE e <= p
    <2>1. p \in visible /\ p \in Nat /\ base'[s] < p /\ ~(p <= cursor[s])
      BY <1>1, <1>3, <1>5
    <2> QED BY <1>1, <2>1
  <1> QED BY <1>2, <1>4, <1>5 DEF F!Delivers

\* push_live: every stream that takes the event is sent the record it is owed.
LEMMA FeedPushes == ASSUME PumpInv, PumpInv', PushLive PROVE F!Next
  <1>1. PICK e \in batch : /\ \A o \in batch : e <= o
                           /\ PushLiveAll(e) /\ RingPush(e)
    BY DEF PushLive
  <1>2. /\ UNCHANGED <<hw, visible, logStart, nextId, filter, list, edge, base>>
        /\ pc = "pushLive"
    BY DEF PushLive, logVars, subsVars
  <1>3. edge # Unknown /\ Core /\ Pending = batch
    BY <1>2, PumpTypes, EdgeFacts
  <1>4. e \in visible /\ e \in Nat /\ e <= Through
    BY <1>1, <1>2, WindowMoves
  <1>5. ASSUME NEW s \in Ids, delivered'[s] # delivered[s] PROVE F!Delivers(s)
    <2>1. /\ s \in Shown /\ e \in filter[s] /\ delivered'[s] = delivered[s] \cup {e}
      BY <1>1, <1>5, Outcome
    <2>2. s \in list /\ ~closed[s] /\ mode[s] = "Live" /\ s < nextId
      BY <2>1, PumpTypes DEF Shown
    <2>3. base'[s] = base[s] /\ base[s] \in Int /\ base[s] < e /\ cursor[s] < e
      BY <1>1, <1>2, <1>3, <2>2, SubTypes DEF PlaceInv
    <2>4. \A o \in visible : base[s] < o => (o <= e <=> o <= cursor[s] \/ o = e)
      BY <1>1, <1>2, <1>4, <2>1, NothingBetween
    <2>5. delivered[s] = {o \in visible : base[s] < o /\ o <= cursor[s] /\ o \in filter[s]}
      BY <1>3, <2>2 DEF Core, Gapless
    <2> QED BY <1>3, <1>4, <2>1, <2>2, <2>3, <2>4, <2>5, FeedDelivers
  <1>6. ASSUME NEW s \in list', ~closed'[s] PROVE ~closed[s]
    <2>1. s \in Ids
      BY <1>2, PumpTypes
    <2> QED BY <1>1, <1>6, <2>1, Outcome DEF Shown
  <1> QED BY <1>2, <1>3, <1>5, <1>6, FeedMoves

\* advance_from_ring: the start it settles lies before what retention has kept.
LEMMA FeedRings == ASSUME PumpInv, PumpInv', RingServes \/ RingDone PROVE F!Next
  <1>1. PICK s \in todo :
               /\ base' = [base EXCEPT ![s] = RingStart(s)]
               /\ \/ /\ FromRing(s) /\ UNCHANGED mode
                     /\ \E e \in RingAfter(cursor[s]) :
                           /\ \A o \in RingAfter(cursor[s]) : e <= o
                           /\ PushRun(s, e)
                  \/ UNCHANGED <<closed, delivered>>
    BY DEF RingServes, RingDone, queueVars
  <1>2. /\ UNCHANGED <<hw, visible, logStart, nextId, filter, list, edge>>
        /\ pc = "ring"
    BY DEF RingServes, RingDone, logVars, subsVars
  <1>3. /\ Core /\ s \in list /\ s \in Ids /\ s < nextId /\ edge \in Int /\ floor \in Int
        /\ origin \in Int /\ edge # Unknown /\ base \in [Ids -> Int]
    BY <1>2, PumpTypes, EdgeFacts DEF TypeInv, TypeOK, HistoryType
  <1>4. base'[s] = RingStart(s) /\ \A t \in Ids \ {s} : base'[t] = base[t]
    BY <1>1, <1>3
  <1>5. /\ cursor[s] \in Int /\ base[s] \in Int
        /\ delivered[s] = {o \in visible : base[s] < o /\ o <= cursor[s] /\ o \in filter[s]}
    BY <1>3, SubTypes DEF Core, Gapless
  <1>6. ASSUME FromRing(s), base'[s] # base[s]
        PROVE  F!Settles(s) /\ delivered[s] = {} /\ base'[s] = origin /\ cursor[s] < origin
    <2>1. /\ base[s] <= cursor[s] /\ floor <= cursor[s] /\ cursor[s] < origin
          /\ delivered[s] = {} /\ RingStart(s) = origin
      BY <1>2, <1>3, <1>4, <1>5, <1>6, RingServesFrom
    <2>2. floor < origin /\ base[s] < origin
      BY <1>3, <1>5, <2>1
    <2>3. origin < logStart
      BY <1>3, <2>2 DEF Core, EdgeInv
    <2>4. Status[s] = "open"
      BY <1>3, <1>6, StatusNow DEF FromRing
    <2> QED BY <1>3, <1>4, <1>5, <2>1, <2>2, <2>3, <2>4 DEF F!Settles
  <1>7. ASSUME NEW t \in Ids, base'[t] # base[t] PROVE F!Settles(t)
    <2>1. t = s
      BY <1>4, <1>7
    <2>2. FromRing(s)
      BY <1>4, <1>7, <2>1 DEF RingStart
    <2> QED BY <1>6, <1>7, <2>1, <2>2
  <1>8. CASE UNCHANGED <<closed, delivered>>
    BY <1>2, <1>3, <1>7, <1>8, FeedMoves
  <1>9. ASSUME FromRing(s), UNCHANGED mode, NEW e \in RingAfter(cursor[s]),
               \A o \in RingAfter(cursor[s]) : e <= o, PushRun(s, e)
        PROVE  F!Next
    <2>1. ~closed[s] /\ mode[s] = "CatchingUp"
      BY <1>9 DEF FromRing
    <2>2. /\ base[s] <= cursor[s] /\ cursor[s] < edge
          /\ RingStart(s) \in Int
          /\ RingStart(s) = base[s] \/ cursor[s] < origin
          /\ origin <= cursor[s] \/ origin = RingStart(s)
          /\ ring = {o \in visible : floor < o /\ origin < o /\ o <= edge}
          /\ \A o \in visible : (RingStart(s) < o /\ cursor[s] < o /\ o <= edge)
                                => o \in RingAfter(cursor[s])
      BY <1>2, <1>3, <1>9, RingServesFrom
    <2>3. /\ e \in visible /\ e \in Nat /\ cursor[s] < e /\ origin < e /\ e <= edge
      BY <2>2, PumpTypes DEF RingAfter
    <2>4. RingStart(s) < e
      BY <1>3, <1>5, <2>2, <2>3
    <2>5. \A o \in visible : RingStart(s) < o => (o <= e <=> o <= cursor[s] \/ o = e)
      <3> SUFFICES ASSUME NEW o \in visible, RingStart(s) < o, o <= e, ~(o <= cursor[s])
                   PROVE  o = e
        BY <1>5, <2>3, PumpTypes
      <3>1. o \in Nat /\ cursor[s] < o /\ o <= edge
        <4>1. o \in Nat /\ cursor[s] \in Int /\ edge \in Int
          BY <1>3, <1>5, PumpTypes
        <4> QED BY <2>3, <4>1
      <3>2. e <= o
        BY <1>9, <2>2, <3>1
      <3> QED BY <2>3, <3>1, <3>2
    <2>6. delivered[s] = {o \in visible : /\ RingStart(s) < o /\ o <= cursor[s]
                                          /\ o \in filter[s]}
      <3>1. CASE RingStart(s) = base[s]
        BY <1>5, <3>1
      <3>2. CASE RingStart(s) # base[s]
        <4>1. delivered[s] = {} /\ RingStart(s) = origin /\ cursor[s] < origin
          BY <1>4, <1>6, <1>9, <3>2
        <4>2. \A o \in visible : ~(origin < o /\ o <= cursor[s])
          BY <1>3, <1>5, <4>1, PumpTypes
        <4> QED BY <4>1, <4>2
      <3> QED BY <3>1, <3>2
    <2>7. /\ \A t \in Ids \ {s} : closed'[t] = closed[t] /\ delivered'[t] = delivered[t]
          /\ \/ delivered'[s] = delivered[s]
             \/ e \in filter[s] /\ delivered'[s] = delivered[s] \cup {e}
      BY <1>3, <1>9, <2>1, RunOutcome
    <2>8. ASSUME NEW t \in Ids, delivered'[t] # delivered[t] PROVE F!Delivers(t)
      <3>1. t = s /\ e \in filter[s] /\ delivered'[s] = delivered[s] \cup {e}
        BY <2>7, <2>8
      <3> QED BY <1>3, <1>4, <2>1, <2>2, <2>3, <2>4, <2>5, <2>6, <3>1, FeedDelivers
    <2>9. \A t \in list' : ~closed'[t] => ~closed[t]
      BY <1>2, <2>1, <2>7, PumpTypes
    <2> QED BY <1>2, <1>3, <1>7, <1>9, <2>8, <2>9, FeedMoves
  <1> QED BY <1>1, <1>8, <1>9

\* fetch_catch_up: what an answer settles lies before what retention has kept,
\* and each event of its run is the record owed next.
LEMMA FeedCatchesUp ==
  ASSUME PumpInv, PumpInv', CatchUpOk \/ CatchUpPush \/ CatchUpDone PROVE F!Next
  <1>1. UNCHANGED <<hw, visible, logStart, nextId, filter, list, edge, mode>>
    BY DEF CatchUpOk, CatchUpPush, CatchUpDone, logVars, subsVars
  <1>2. Core /\ edge # Unknown /\ logStart \in Nat
    BY PumpTypes, EdgeFacts DEF CatchUpOk, CatchUpPush, CatchUpDone
  <1>3. turn \in list /\ turn \in Ids /\ turn < nextId /\ mode[turn] = "CatchingUp" /\ ~closed[turn]
    BY <1>2, PumpTypes DEF CatchUpOk, CatchUpPush, CatchUpDone, Core, PhaseInv
  <1>4. CASE CatchUpDone
    BY <1>1, <1>2, <1>4, FeedRests DEF CatchUpDone, historyVars
  <1>5. CASE CatchUpOk
    <2>1. /\ UNCHANGED <<closed, delivered>>
          /\ base' = [base EXCEPT ![turn] = IF cursor[turn] = None THEN logStart - 1
                                            ELSE base[turn]]
      BY <1>5 DEF CatchUpOk
    <2>2. base \in [Ids -> Int]
      BY PumpTypes DEF TypeInv, TypeOK, HistoryType
    <2>3. ASSUME NEW s \in Ids, base'[s] # base[s] PROVE F!Settles(s)
      <3>1. s = turn /\ cursor[s] = None /\ base'[s] = logStart - 1
        BY <1>3, <2>1, <2>2, <2>3
      <3>2. PlaceInv(s) /\ base[s] \in Int
        BY SubTypes
      <3>3. base[s] < logStart
        BY <1>2, <1>3, <3>1, <3>2 DEF PlaceInv, None
      <3>4. delivered[s] = {}
        BY <1>2, <1>3, <3>1, PumpTypes DEF Core, Gapless, None
      <3>5. Status[s] = "open"
        BY <1>2, <1>3, <3>1, StatusNow
      <3> QED BY <1>2, <2>3, <3>1, <3>2, <3>3, <3>4, <3>5 DEF F!Settles
    <2> QED BY <1>1, <1>2, <2>1, <2>3, FeedMoves
  <1>6. CASE CatchUpPush
    <2>1. PICK e \in batch : (\A o \in batch : e <= o) /\ PushRun(turn, e)
      BY <1>6 DEF CatchUpPush
    <2>2. UNCHANGED base /\ pc = "pushRun"
      BY <1>6 DEF CatchUpPush
    <2>3. /\ cursor[turn] \in Int /\ base[turn] \in Int
          /\ delivered[turn] = {o \in visible : /\ base[turn] < o /\ o <= cursor[turn]
                                                /\ o \in filter[turn]}
          /\ batch = {o \in visible : cursor[turn] < o /\ base[turn] < o /\ o <= nextAfter}
      BY <2>2, RunFacts
    <2>4. /\ e \in visible /\ e \in Nat /\ cursor[turn] < e /\ base[turn] < e /\ e <= nextAfter
          /\ nextAfter \in Int
      BY <2>3, PumpTypes
    <2>5. \A o \in visible : base[turn] < o => (o <= e <=> o <= cursor[turn] \/ o = e)
      <3>0. \A o \in visible : o \in Nat
        BY PumpTypes
      <3> SUFFICES ASSUME NEW o \in visible, base[turn] < o, o <= e, ~(o <= cursor[turn])
                   PROVE  o = e
        BY <2>3, <2>4, <3>0
      <3>1. o \in Nat /\ cursor[turn] < o /\ o <= nextAfter
        <4>1. cursor[turn] \in Int
          BY <2>3
        <4> QED BY <2>4, <3>0, <4>1
      <3>2. e <= o
        BY <2>1, <2>3, <3>1
      <3> QED BY <2>4, <3>1, <3>2
    <2>6. /\ \A t \in Ids \ {turn} : closed'[t] = closed[t] /\ delivered'[t] = delivered[t]
          /\ \/ delivered'[turn] = delivered[turn]
             \/ e \in filter[turn] /\ delivered'[turn] = delivered[turn] \cup {e}
      BY <1>3, <2>1, RunOutcome
    <2>7. ASSUME NEW t \in Ids, delivered'[t] # delivered[t] PROVE F!Delivers(t)
      <3>1. t = turn /\ e \in filter[turn] /\ delivered'[turn] = delivered[turn] \cup {e}
        BY <2>6, <2>7
      <3>2. base'[turn] = base[turn]
        BY <2>2
      <3> QED BY <1>2, <1>3, <2>3, <2>4, <2>5, <3>1, <3>2, FeedDelivers
    <2>8. \A t \in list' : ~closed'[t] => ~closed[t]
      BY <1>1, <1>3, <2>6, PumpTypes
    <2> QED BY <1>1, <1>2, <2>2, <2>7, <2>8, FeedMoves
  <1> QED BY <1>4, <1>5, <1>6

LEMMA FeedStep ==
  ASSUME PumpInv, PumpInv', [Next]_vars PROVE [F!Next]_F!feedVars
  <1>1. CASE LogStep \/ HandleStep \/ ReaderStep \/ UNCHANGED vars
    BY <1>1, FeedOthers
  <1>2. CASE Return
    BY <1>2, FeedReturn
  <1>3. CASE ReceiveCommand /\ Head(commands).kind # "Shutdown"
    BY <1>3, FeedSubscribes
  <1>4. CASE LiveStartOk \/ LiveFetchOk
    BY <1>4, FeedLiveStarts
  <1>5. CASE PushLive
    BY <1>5, FeedPushes
  <1>6. CASE RingServes \/ RingDone
    BY <1>6, FeedRings
  <1>7. CASE CatchUpOk \/ CatchUpPush \/ CatchUpDone
    BY <1>7, FeedCatchesUp
  <1>8. CASE RetainLive \/ CommandsDrained \/ NextFetch
    <2>1. /\ UNCHANGED <<hw, visible, logStart, nextId, filter, base, delivered, edge, closed, mode>>
          /\ list' \subseteq list
      BY <1>8 DEF RetainLive, CommandsDrained, NextFetch, logVars, subsVars, stateVars,
                  historyVars
    <2> QED BY <2>1, FeedRests
  <1>9. CASE CatchUpFails
    <2>1. /\ UNCHANGED <<hw, visible, logStart, nextId, filter, base, delivered, edge, mode, list>>
      BY <1>9 DEF CatchUpFails, logVars, subsVars, historyVars
    <2>2. turn \in list /\ ~closed[turn] /\ closed \in [Ids -> BOOLEAN] /\ list \subseteq Ids
      BY <1>9, PumpTypes DEF CatchUpFails, Core, PhaseInv, TypeInv, TypeOK, StateType
    <2>3. \A s \in Ids \ {turn} : closed'[s] = closed[s]
      BY <1>9, <2>2 DEF CatchUpFails
    <2> QED BY <2>1, <2>2, <2>3, FeedRests
  <1>10. CASE LiveBatchDone
    <2>1. /\ UNCHANGED <<hw, visible, logStart, nextId, filter, base, delivered, mode, list, closed>>
          /\ edge' = Larger(nextAfter, edge) /\ pc = "pushLive"
      BY <1>10 DEF LiveBatchDone, logVars, subsVars, historyVars, stateVars
    <2>2. edge # Unknown /\ edge' # Unknown
      BY <2>1, PumpTypes, EdgeFacts DEF Larger, Unknown, None
    <2> QED BY <2>1, <2>2, FeedRests
  <1>11. CASE \E permanent \in BOOLEAN : LiveStartFails(permanent) \/ LiveFetchFails(permanent)
    <2>1. CASE ~FailSubs
      <3>1. UNCHANGED <<hw, visible, logStart, nextId, filter, base, delivered, mode, list, closed,
                        edge>>
        BY <1>11, <2>1 DEF LiveStartFails, LiveFetchFails, LivePathFails, logVars, subsVars,
                           historyVars, stateVars
      <3> QED BY <3>1, FeedRests
    <2> QED BY <1>2, <2>1 DEF FailSubs
  <1>12. CASE ReceiveCommand \/ IdleTimeout \/ HandlesGone \/ CatchUpFailsForGood
    BY <1>2, <1>3, <1>12 DEF ReceiveCommand, IdleTimeout, HandlesGone, ReturnCleanly,
                             CatchUpFailsForGood, FailSubs
  <1> QED BY <1>1, <1>4, <1>5, <1>6, <1>7, <1>8, <1>9, <1>10, <1>11, <1>12 DEF Next, PumpStep

\* Every step of run_pump, its readers and its error tasks is a step of the
\* abstract feed or does not show in it: no ring, queue, stall or fetch, in any
\* order, gives a stream anything but the next record it is owed.
THEOREM FeedTheorem == Spec => ImplementsFeed
  <1>1. PumpInv /\ PumpInv' /\ [Next]_vars => [F!Next]_F!feedVars
    BY FeedStep
  <1> QED BY <1>1, FeedInit, PumpTheorem, PTL DEF Spec, ImplementsFeed, F!Spec
=============================================================================
