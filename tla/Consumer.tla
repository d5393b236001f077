------------------------------ MODULE Consumer ------------------------------
(* The consumer of odradek-client (consumer.rs, retry.rs) over the shared    *)
(* Cluster: fetches and offset lookups of several tasks, on a partition      *)
(* whose leader takes transactional and plain batches from several           *)
(* producers. A record is its offset. Compression and the limits on what one *)
(* response may materialise are left out.                                    *)
EXTENDS Cluster

CONSTANTS
    Scenarios,      \* bound: what is written to the partition, in portions,
                    \* what may go wrong, and where each task begins: at an
                    \* offset, with a lookup (None), or not at all (Absent)
    Absent,
    Committed       \* the tasks that read with IsolationLevel::ReadCommitted

Markers == {"commit", "abort"}

\* What producers hand to the leader: what is transactional has a producer id.
Written ==
    {b \in [pid : Int, kind : {"plain", "txn"} \cup Markers, len : Nat \ {0}] :
        b.kind # "plain" => b.pid >= 0}

ASSUME ConsumerAssumption ==
    /\ None \notin Nat /\ Absent \notin Nat
    /\ \A s \in Scenarios : /\ s.history \in Seq(Seq(Written))
                            /\ s.from \in [Tasks -> Nat \cup {None, Absent}]

VARIABLES
    history,        \* what is going to be written
    portions,       \* how many portions have been
    log,            \* the batches in the partition
    pos,            \* where each task reads next, None before its lookup
    start,          \* where it began
    seen            \* the records it was given

logVars == <<history, portions, log>>
readVars == <<pos, start, seen>>
vars == <<clusterVars, logVars, readVars>>

----------------------------------------------------------------------------
(* External: the leader's log. A batch is data, the data of a transaction,  *)
(* or the marker that ends one.                                              *)

End(l) == IF l = <<>> THEN 0 ELSE Last(l).last + 1

\* The index of the marker that decides batch i, 0 while there is none.
Decided(l, i) ==
    LET after == {j \in i + 1 .. Len(l) : l[j].pid = l[i].pid /\ l[j].kind \in Markers}
    IN IF after = {} THEN 0 ELSE Min(after)

\* The transactional batches that open a transaction.
Openers(l) ==
    {i \in DOMAIN l :
        /\ l[i].kind = "txn"
        /\ \A j \in 1 .. i - 1 :
              l[j].pid = l[i].pid /\ l[j].kind = "txn" => Decided(l, j) \in 1 .. i}

LastStable(l) ==
    Min({End(l)} \cup {l[i].base : i \in {j \in Openers(l) : Decided(l, j) = 0}})

\* What a reader may be shown.
Readable(t, l) == IF t \in Committed THEN LastStable(l) ELSE End(l)

\* The next batches of the producers, and their markers, are appended.
Appended(l, b) == Append(l, [base |-> End(l), last |-> End(l) + b.len - 1,
                             pid |-> b.pid, kind |-> b.kind])
Write ==
    /\ portions < Len(history)
    /\ portions' = portions + 1
    /\ log' = FoldLeft(Appended, log, history[portions + 1])
    /\ UNCHANGED <<clusterVars, history, readVars>>

\* The batches a fetch at offset from may be answered with: whole ones, from
\* the one that holds the offset.
Available(t, from) ==
    {i \in DOMAIN log : log[i].last >= from /\ log[i].base < Readable(t, log)}

\* The aborted transactions among the batches up to hi that were not over
\* before offset from.
AbortedIn(from, hi) ==
    {[pid |-> log[i].pid, first |-> log[i].base] :
        i \in {j \in Openers(log) :
                  /\ j <= hi
                  /\ Decided(log, j) # 0
                  /\ log[Decided(log, j)].kind = "abort"
                  /\ log[Decided(log, j)].base >= from}}

\* The leader's answer to a fetch: any number of the batches there are, with
\* the aborted transactions in any order.
FetchReplies(t) ==
    LET lots == Available(t, pos[t])
        ends == IF lots = {} THEN {0} ELSE lots
        Lists(hi) == IF t \in Committed THEN SetToSeqs(AbortedIn(pos[t], hi)) ELSE {<<>>}
    IN UNION {{[batches |-> IF hi = 0 THEN <<>> ELSE SubSeq(log, Min(lots), hi),
                aborted |-> a] : a \in Lists(hi)} : hi \in ends}

----------------------------------------------------------------------------
(* BatchFilter and the loop of fetch_once.                                   *)

\* Mutant: the list is trusted to be in order.
TrustedOrder(aborted) == aborted

\* The list of aborted transactions in the order of their first offsets.
InOrder(aborted) ==
    CHOOSE s \in {[k \in DOMAIN aborted |-> aborted[p[k]]] : p \in SetToSeqs(DOMAIN aborted)} :
        \A j, k \in DOMAIN s : j < k => s[j].first <= s[k].first

\* How many entries at the front of a list have begun by offset o.
Begun(list, o) ==
    Max({0} \cup {k \in DOMAIN list : \A j \in 1 .. k : list[j].first <= o})

\* BatchFilter::keeps: batch b moves the filter f along and is kept or not.
Filter(readCommitted, f, b) ==
    LET n == IF readCommitted /\ b.pid >= 0 THEN Begun(f.aborted, b.last) ELSE 0
        disowned == f.disowned \cup {f.aborted[k].pid : k \in 1 .. n}
    IN [aborted  |-> SubSeq(f.aborted, n + 1, Len(f.aborted)),
        disowned |-> IF readCommitted /\ b.kind = "abort"
                     THEN disowned \ {b.pid} ELSE disowned,
        kept     |-> IF \/ b.kind \in Markers
                        \/ (readCommitted /\ b.kind = "txn" /\ b.pid \in disowned)
                     THEN f.kept ELSE Append(f.kept, b)]

Filtered(readCommitted, batches, aborted) ==
    LET all == IF readCommitted THEN InOrder(aborted) ELSE <<>>
    IN FoldLeft(LAMBDA f, b : Filter(readCommitted, f, b),
                [aborted |-> all, disowned |-> {}, kept |-> <<>>], batches).kept

\* push_record: the records of the batches kept, from the offset asked for.
RecordsOf(batches, from) ==
    FoldLeft(LAMBDA out, b : out \o [i \in 1 .. b.last - Max({b.base, from}) + 1
                                       |-> Max({b.base, from}) + i - 1],
             <<>>, batches)

\* FetchResult::next_offset: past every batch, kept or not.
NextOffset(batches, from) == Max({from} \cup {b.last + 1 : b \in ToSet(batches)})

----------------------------------------------------------------------------
(* The calls.                                                                *)

Begin(t, op) ==
    /\ call[t].at \in {"idle", "failed"}
    /\ call' = [call EXCEPT ![t] = [NoCall EXCEPT !.op = op, !.at = "route"]]
    /\ UNCHANGED <<cacheVars, poolVars, worldVars, logVars, readVars>>

\* earliest_offset or latest_offset, and fetch.
Lookup(t) == pos[t] = None /\ Begin(t, "offset")
Fetch(t) == pos[t] \in Nat /\ Begin(t, "fetch")

\* fetch_once looks up who to blame once it holds its lease.
Send(t) ==
    /\ At(t, "send")
    /\ call' = [call EXCEPT ![t].at = "wait", ![t].blame = leaderOf]
    /\ UNCHANGED <<cacheVars, poolVars, worldVars, logVars, readVars>>

\* The leader answers a fetch, which may have waited for records: the lease
\* will be released, and the records are the caller's.
Fetched(t) ==
    /\ At(t, "wait") /\ Blocking(t)
    /\ call[t].conn \notin down /\ call[t].node = leader
    /\ \E r \in FetchReplies(t) :
          /\ pos' = [pos EXCEPT ![t] = NextOffset(r.batches, @)]
          /\ seen' = [seen EXCEPT ![t] = @ \o
                RecordsOf(Filtered(t \in Committed, r.batches, r.aborted), pos[t])]
    /\ call' = [call EXCEPT ![t].at = "release", ![t].verdict = "ok"]
    /\ UNCHANGED <<cacheVars, poolVars, worldVars, logVars, start>>

\* The leader answers an offset lookup.
LookedUp(t) ==
    /\ At(t, "wait") /\ ~Blocking(t)
    /\ call[t].conn \notin down /\ call[t].node = leader
    /\ \E o \in {0, Readable(t, log)} :
          pos' = [pos EXCEPT ![t] = o] /\ start' = [start EXCEPT ![t] = o]
    /\ call' = [call EXCEPT ![t] = NoCall]
    /\ UNCHANGED <<cacheVars, poolVars, worldVars, logVars, seen>>

\* A broker that does not lead the partition says so; the exchange is whole.
Refused(t) ==
    /\ At(t, "wait")
    /\ call[t].conn \notin down /\ call[t].node # leader
    /\ call' = [call EXCEPT ![t].at = IF Blocking(t) THEN "release" ELSE "settle",
                            ![t].verdict = "retry"]
    /\ UNCHANGED <<cacheVars, poolVars, worldVars, logVars, readVars>>

\* The broker whose connections go when the fetch of a task fails.
Blamed(t) == IF Blocking(t) THEN call[t].blame ELSE None

\* The request fails: its connection is dead, or its time is up and it takes the
\* connection with it.
Fail(t) ==
    /\ At(t, "wait")
    /\ \/ call[t].conn \in down /\ UNCHANGED <<mishaps, down>>
       \/ Befalls("timeout") /\ down' = down \cup {call[t].conn}
    /\ call' = [call EXCEPT ![t].at = IF Blocking(t) THEN "drop" ELSE "settle",
                            ![t].verdict = "retry"]
    /\ IF Blamed(t) = None THEN UNCHANGED <<lane, idle>> ELSE Forget(Blamed(t))
    /\ UNCHANGED <<leaderOf, outstanding, peak, leader, logVars, readVars>>

----------------------------------------------------------------------------
Init ==
    /\ ClusterInit
    /\ \E s \in Scenarios :
          history = s.history /\ mishaps = s.mishaps /\ pos = s.from /\ start = s.from
    /\ portions = 0 /\ log = <<>>
    /\ seen = [t \in Tasks |-> <<>>]

Quietly(step) == step /\ UNCHANGED <<logVars, readVars>>
Work(t) ==
    Quietly(ClusterStep(t)) \/ Send(t) \/ Fetched(t) \/ LookedUp(t) \/ Refused(t)
Next ==
    \/ Write
    \/ Quietly(World)
    \/ \E t \in Tasks : Work(t) \/ Fail(t) \/ Lookup(t) \/ Fetch(t)

\* The runtime polls every task, a dead connection fails its requests, an
\* election ends, and a caller that has a position goes on fetching.
Fairness ==
    /\ WF_vars(Write) /\ WF_vars(Quietly(Elect))
    /\ \A t \in Tasks : /\ WF_vars(Work(t)) /\ WF_vars(Fetch(t))
                        /\ WF_vars(Fail(t) /\ call[t].conn \in down)
Spec == Init /\ [][Next]_vars
FairSpec == Spec /\ Fairness

----------------------------------------------------------------------------
\* What a reader with task t's isolation is owed of the offsets from a to b:
\* under ReadCommitted, plain records and those of committed transactions.
Owed(t, a, b) ==
    {o \in a .. b - 1 :
        \E i \in DOMAIN log :
            /\ o \in log[i].base .. log[i].last
            /\ log[i].kind \notin Markers
            /\ t \in Committed /\ log[i].kind = "txn" =>
                  Decided(log, i) # 0 /\ log[Decided(log, i)].kind = "commit"}

\* However transactions interleave, responses are cut, offsets fall inside a
\* batch and fetches are repeated: what a task was given is exactly what it
\* is owed between its first position and its current one, in order, once.
ReadsAreExact ==
    \A t \in Tasks :
        pos[t] \in Nat =>
            /\ ToSet(seen[t]) = Owed(t, start[t], pos[t])
            /\ \A i \in 1 .. Len(seen[t]) - 1 : seen[t][i] < seen[t][i + 1]

\* Once mishaps are over, a task with a position has read all there is to
\* read, whatever dead connections and stale leaders they left behind, unless
\* other tasks look up offsets for ever. (A lookup does not forget the shared
\* connection that failed it, so that the next one fails as well, and each marks
\* the leader stale, maybe just when a fetch has learnt it: that is fatal to it.)
LookupsEnd == <>[](\A t \in Tasks : call[t].op # "offset")
CatchesUp ==
    LookupsEnd => \A t \in Tasks :
        <>[](pos[t] \in Nat => pos[t] = Max({start[t], Readable(t, log)}))
=============================================================================
