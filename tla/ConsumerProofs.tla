--------------------------- MODULE ConsumerProofs ---------------------------
(* Proofs about Consumer and the Cluster under it, for any brokers, tasks,   *)
(* histories, limits and mishaps: the blocking pool keeps its books, and     *)
(* every reader is given exactly the records it is owed.                     *)
EXTENDS Consumer, FiniteSetTheorems, SequenceTheorems, WellFoundedInduction, TLAPS

\* The fields of a call. From the second look at the leader on it has a node;
\* only a fetch counts, sends and gives back, with a connection in its hand.
IsCall(r) ==
    /\ DOMAIN r = {"op", "at", "node", "conn", "blame", "rounds", "verdict"}
    /\ r.node \in Nodes \cup {None} /\ r.conn \in Nat
    /\ r.at \in {"connect", "dial", "count", "send", "wait", "release", "drop"} => r.node \in Nodes
    /\ r.at \in {"count", "send", "release", "drop"} => r.op = "fetch"
    /\ r.at \in {"count", "send", "wait", "release"} /\ r.op = "fetch" => r.conn # 0

TypeInv ==
    /\ leaderOf \in Nodes \cup {None} /\ leader \in Nodes \cup {None}
    /\ lane \in [Nodes -> Nat] /\ idle \in [Nodes -> Seq(Nat \ {0})]
    /\ outstanding \in [Nodes -> Nat] /\ peak \in [Nodes -> Nat]
    /\ call = [t \in Tasks |-> call[t]]
    /\ \A t \in Tasks : IsCall(call[t])

\* Whether a call holds a lease on node n.
Leases(r, n) ==
    r.op = "fetch" /\ r.node = n /\ r.at \in {"send", "wait", "release", "drop"}

\* No more leases were ever out at once than there are tasks.
CountInv ==
    \A n \in Nodes :
        /\ outstanding[n] = Cardinality(Lessees(n))
        /\ outstanding[n] <= peak[n] /\ peak[n] <= Cardinality(Tasks)
        /\ Len(idle[n]) <= peak[n] /\ Len(idle[n]) <= BlockingIdleMax

\* An idle connection is in one place of one pool and nowhere else.
IdleInv ==
    \A n \in Nodes : \A i \in 1 .. Len(idle[n]) :
        /\ \A j \in 1 .. Len(idle[n]) : idle[n][i] = idle[n][j] => i = j
        /\ \A t \in Tasks : call[t].conn # idle[n][i]
        /\ \A m \in Nodes :
              /\ lane[m] # idle[n][i]
              /\ m # n => \A j \in 1 .. Len(idle[m]) : idle[m][j] # idle[n][i]

\* The connection of a fetch is nobody else's, and not a shared one.
HandInv ==
    \A t \in Tasks :
        call[t].op = "fetch" /\ call[t].conn # 0 =>
            /\ \A u \in Tasks \ {t} : call[u].conn # call[t].conn
            /\ \A n \in Nodes : lane[n] # call[t].conn

PoolInv == TypeInv /\ CountInv /\ IdleInv /\ HandInv

-----------------------------------------------------------------------------
(* Least and greatest elements.                                              *)

LEMMA LeastElement ==
    ASSUME NEW S, S \subseteq Nat, S # {}
    PROVE  Min(S) \in S /\ \A y \in S : Min(S) <= y
  <1>1. \E x \in S : \A y \in S : ~(<<y, x>> \in OpToRel(<, Nat))
    BY NatLessThanWellFounded, WFMin
  <1>2. \A x, y \in Nat : y < x => <<y, x>> \in OpToRel(<, Nat)
    BY DEF OpToRel
  <1>3. \A x, y \in Nat : ~(y < x) => x <= y
    OBVIOUS
  <1>4. \E x \in S : \A y \in S : x <= y
    BY <1>1, <1>2, <1>3
  <1> QED
    BY <1>4 DEF Min

LEMMA TwoNumbers ==
    ASSUME NEW a \in Nat, NEW b \in Nat
    PROVE  /\ Min({a, b}) = IF a <= b THEN a ELSE b
           /\ Max({a, b}) = IF a <= b THEN b ELSE a
  BY SMT DEF Min, Max

-----------------------------------------------------------------------------
(* There is always a free number for a new connection.                       *)

LEMMA FreshIsFree ==
    ASSUME TypeInv, CountInv
    PROVE  Fresh \in Nat \ {0} /\ Fresh \notin Held
  <1> DEFINE A == {lane[n] : n \in Nodes}
             B == {call[t].conn : t \in Tasks}
             C == UNION {ToSet(idle[n]) : n \in Nodes}
             N == Cardinality(Nodes)
             T == Cardinality(Tasks)
             P == {p \in Nodes \X (1 .. T) : p[2] <= Len(idle[p[1]])}
  <1>0. N \in Nat /\ T \in Nat /\ N > 0
    BY ClusterAssumption, FS_CardinalityType, FS_EmptySet
  <1>1. IsFiniteSet(A) /\ Cardinality(A) <= N
    <2>1. [n \in Nodes |-> lane[n]] \in Surjection(Nodes, A)
      BY DEF Surjection
    <2> QED
      BY <2>1, FS_Surjection, ClusterAssumption
  <1>2. IsFiniteSet(B) /\ Cardinality(B) <= T
    <2>1. [t \in Tasks |-> call[t].conn] \in Surjection(Tasks, B)
      BY DEF Surjection
    <2> QED
      BY <2>1, FS_Surjection, ClusterAssumption
  <1>3. IsFiniteSet(C) /\ Cardinality(C) <= N * T
    <2>1. IsFiniteSet(1 .. T) /\ Cardinality(1 .. T) = T
      BY <1>0, FS_Interval
    <2>2. IsFiniteSet(Nodes \X (1 .. T)) /\ Cardinality(Nodes \X (1 .. T)) = N * T
      BY <2>1, FS_Product, ClusterAssumption
    <2>3. IsFiniteSet(P) /\ Cardinality(P) <= N * T
      BY <2>2, FS_Subset
    <2>4. ASSUME NEW n \in Nodes
          PROVE  /\ idle[n] \in Seq(Nat \ {0}) /\ Len(idle[n]) \in Nat /\ Len(idle[n]) <= T
                 /\ DOMAIN idle[n] = 1 .. Len(idle[n])
      <3>1. idle[n] \in Seq(Nat \ {0}) /\ peak[n] \in Nat
        BY DEF TypeInv
      <3>2. Len(idle[n]) \in Nat /\ DOMAIN idle[n] = 1 .. Len(idle[n])
        BY <3>1
      <3>3. Len(idle[n]) <= peak[n] /\ peak[n] <= T
        BY DEF CountInv
      <3> QED
        BY <3>1, <3>2, <3>3, <1>0
    <2> DEFINE f == [p \in P |-> idle[p[1]][p[2]]]
    <2>5. ASSUME NEW p \in P PROVE  f[p] \in C
      BY <2>4 DEF ToSet
    <2>6. ASSUME NEW c \in C PROVE  \E p \in P : f[p] = c
      <3>1. PICK n \in Nodes : c \in ToSet(idle[n])
        OBVIOUS
      <3>2. PICK i \in DOMAIN idle[n] : c = idle[n][i]
        BY <3>1 DEF ToSet
      <3>3. i \in 1 .. T /\ i <= Len(idle[n])
        BY <2>4, <1>0
      <3>4. <<n, i>> \in P
        BY <3>3
      <3> QED
        BY <3>2, <3>4
    <2>7. f \in Surjection(P, C)
      BY <2>5, <2>6 DEF Surjection
    <2>8. IsFiniteSet(C) /\ Cardinality(C) <= Cardinality(P)
      BY <2>7, <2>3, FS_Surjection
    <2>9. Cardinality(C) \in Nat /\ Cardinality(P) \in Nat
      BY <2>8, <2>3, FS_CardinalityType
    <2> HIDE DEF C, P, N, T
    <2> QED
      BY <2>3, <2>8, <2>9, <1>0
  <1>4. IsFiniteSet(Held) /\ Cardinality(Held) <= N + T + N * T
    <2>1. Held = (A \cup B) \cup C
      BY DEF Held
    <2> HIDE DEF A, B, C, N, T
    <2>2. /\ Cardinality(A) \in Nat /\ Cardinality(B) \in Nat /\ Cardinality(C) \in Nat
      BY <1>1, <1>2, <1>3, FS_CardinalityType
    <2>3. /\ IsFiniteSet(A \cup B)
          /\ Cardinality(A \cup B) = Cardinality(A) + Cardinality(B) - Cardinality(A \cap B)
      BY <1>1, <1>2, FS_Union
    <2>4. IsFiniteSet(A \cap B) /\ Cardinality(A \cap B) \in Nat
      BY <1>1, FS_Intersection, FS_CardinalityType
    <2>5. /\ IsFiniteSet((A \cup B) \cup C)
          /\ Cardinality((A \cup B) \cup C) =
                Cardinality(A \cup B) + Cardinality(C) - Cardinality((A \cup B) \cap C)
      BY <2>3, <1>3, FS_Union
    <2>6. Cardinality((A \cup B) \cap C) \in Nat
      BY <2>3, FS_Intersection, FS_CardinalityType
    <2>7. N * T \in Nat
      BY <1>0
    <2> QED
      BY <2>1, <2>2, <2>3, <2>4, <2>5, <2>6, <2>7, <1>0, <1>1, <1>2, <1>3
  <1>5. MaxConns \in Nat /\ N + T + N * T < MaxConns
    <2>1. MaxConns = (2 * T + 2) * N
      BY DEF MaxConns
    <2> HIDE DEF N, T
    <2>2. PICK k \in Nat : N = k + 1
      BY <1>0
    <2>3. N * T = k * T + T /\ (2 * T + 2) * N = 2 * (k * T) + 2 * T + 2 * k + 2 /\ k * T \in Nat
      BY <2>2, <1>0
    <2> QED
      BY <2>1, <2>2, <2>3, <1>0
  <1>6. 1 .. MaxConns \ Held # {}
    <2>1. IsFiniteSet(1 .. MaxConns) /\ Cardinality(1 .. MaxConns) = MaxConns
      BY <1>5, <1>0, FS_Interval
    <2>2. SUFFICES ASSUME 1 .. MaxConns \subseteq Held PROVE FALSE
      OBVIOUS
    <2>3. Cardinality(1 .. MaxConns) <= Cardinality(Held)
      BY <2>2, <1>4, FS_Subset
    <2>4. Cardinality(Held) \in Nat /\ N * T \in Nat
      BY <1>4, <1>0, FS_CardinalityType
    <2> HIDE DEF N, T
    <2> QED
      BY <2>1, <2>3, <2>4, <1>4, <1>5, <1>0
  <1>7. 1 .. MaxConns \ Held \subseteq Nat
    BY <1>5
  <1> QED
    BY <1>6, <1>7, LeastElement DEF Fresh

-----------------------------------------------------------------------------
(* The steps of a call that take nothing from a pool and put nothing into one. *)

\* The leases out on a node, told by the calls.
LEMMA LesseesAre ==
    ASSUME NEW n \in Nodes
    PROVE  /\ Lessees(n) = {t \in Tasks : Leases(call[t], n)}
           /\ Lessees(n)' = {t \in Tasks : Leases(call'[t], n)}
           /\ IsFiniteSet(Lessees(n)) /\ Cardinality(Lessees(n)) \in Nat
           /\ Cardinality(Lessees(n)) <= Cardinality(Tasks)
  <1>1. Lessees(n) = {t \in Tasks : Leases(call[t], n)}
    BY DEF Lessees, Leases
  <1>2. Lessees(n)' = {t \in Tasks : Leases(call'[t], n)}
    BY DEF Lessees, Leases
  <1>3. Lessees(n) \subseteq Tasks
    BY DEF Lessees
  <1> QED
    BY <1>1, <1>2, <1>3, FS_Subset, FS_CardinalityType, ClusterAssumption

\* Where a call may have its connection from, if not from a pool.
Takes(r, old) ==
    \/ r.conn = 0
    \/ r.conn = old.conn /\ r.op = old.op
    \/ r.op # "fetch" /\ \E n \in Nodes : r.conn = lane[n]

\* Task t steps, without change to what it leases; shared connections and
\* pools may be forgotten.
LEMMA CallStep ==
    ASSUME PoolInv, NEW t \in Tasks,
           call' = [u \in Tasks |-> call'[u]],
           \A u \in Tasks \ {t} : call'[u] = call[u],
           IsCall(call'[t]), Takes(call'[t], call[t]),
           \A n \in Nodes : Leases(call'[t], n) <=> Leases(call[t], n),
           leaderOf' \in Nodes \cup {None}, leader' = leader,
           lane' \in [Nodes -> Nat], \A n \in Nodes : lane'[n] \in {0, lane[n]},
           idle' \in [Nodes -> Seq(Nat \ {0})], \A n \in Nodes : idle'[n] \in {<<>>, idle[n]},
           UNCHANGED <<outstanding, peak>>
    PROVE  PoolInv'
  <1>1. TypeInv'
    <2>1. \A u \in Tasks : IsCall(call'[u])
      BY DEF PoolInv, TypeInv
    <2>2. \A u \in Tasks : IsCall(call[u])'
      BY <2>1 DEF IsCall
    <2> QED
      BY <2>2 DEF PoolInv, TypeInv
  <1>2. CountInv'
    <2> SUFFICES ASSUME NEW n \in Nodes
                 PROVE  /\ outstanding'[n] = Cardinality(Lessees(n)')
                        /\ outstanding'[n] <= peak'[n] /\ peak'[n] <= Cardinality(Tasks)
                        /\ Len(idle'[n]) <= peak'[n] /\ Len(idle'[n]) <= BlockingIdleMax
      BY DEF CountInv
    <2>1. Lessees(n)' = Lessees(n)
      BY LesseesAre
    <2>2. /\ outstanding[n] = Cardinality(Lessees(n))
          /\ outstanding[n] <= peak[n] /\ peak[n] <= Cardinality(Tasks)
          /\ Len(idle[n]) <= peak[n] /\ Len(idle[n]) <= BlockingIdleMax
      BY DEF PoolInv, CountInv
    <2>3. peak[n] \in Nat /\ BlockingIdleMax \in Nat /\ Len(<<>>) = 0
      BY ClusterAssumption DEF PoolInv, TypeInv
    <2> QED
      BY <2>1, <2>2, <2>3
  <1>3. IdleInv'
    <2> SUFFICES ASSUME NEW n \in Nodes, NEW i \in 1 .. Len(idle'[n])
                 PROVE  /\ \A j \in 1 .. Len(idle'[n]) : idle'[n][i] = idle'[n][j] => i = j
                        /\ \A u \in Tasks : call'[u].conn # idle'[n][i]
                        /\ \A m \in Nodes :
                              /\ lane'[m] # idle'[n][i]
                              /\ m # n => \A j \in 1 .. Len(idle'[m]) : idle'[m][j] # idle'[n][i]
      BY DEF IdleInv
    <2>1. idle'[n] = idle[n]
      BY DEF PoolInv, TypeInv
    <2>2. i \in 1 .. Len(idle[n]) /\ idle[n] \in Seq(Nat \ {0}) /\ idle[n][i] \in Nat \ {0}
      BY <2>1 DEF PoolInv, TypeInv
    <2>3. /\ \A j \in 1 .. Len(idle[n]) : idle[n][i] = idle[n][j] => i = j
          /\ \A u \in Tasks : call[u].conn # idle[n][i]
          /\ \A m \in Nodes :
                /\ lane[m] # idle[n][i]
                /\ m # n => \A j \in 1 .. Len(idle[m]) : idle[m][j] # idle[n][i]
      BY <2>2 DEF PoolInv, IdleInv
    <2>4. call'[t].conn # idle[n][i]
      BY <2>2, <2>3 DEF Takes
    <2>5. ASSUME NEW m \in Nodes, m # n, NEW j \in 1 .. Len(idle'[m])
          PROVE  idle'[m][j] # idle[n][i]
      <3>1. idle'[m] = idle[m]
        BY DEF PoolInv, TypeInv
      <3> QED
        BY <3>1, <2>3, <2>5
    <2>6. ASSUME NEW u \in Tasks PROVE call'[u].conn # idle[n][i]
      <3>1. CASE u = t
        BY <3>1, <2>4
      <3>2. CASE u # t
        BY <3>2, <2>3
      <3> QED BY <3>1, <3>2
    <2>7. ASSUME NEW m \in Nodes PROVE lane'[m] # idle[n][i]
      <3>1. lane'[m] = 0 \/ lane'[m] = lane[m]
        OBVIOUS
      <3> QED BY <3>1, <2>2, <2>3
    <2>8. \A j \in 1 .. Len(idle'[n]) : idle'[n][i] = idle'[n][j] => i = j
      BY <2>1, <2>3
    <2>9. idle'[n][i] = idle[n][i]
      BY <2>1
    <2> QED
      BY <2>5, <2>6, <2>7, <2>8, <2>9, Zenon
  <1>4. HandInv'
    <2> SUFFICES ASSUME NEW u \in Tasks, call'[u].op = "fetch", call'[u].conn # 0
                 PROVE  /\ \A v \in Tasks \ {u} : call'[v].conn # call'[u].conn
                        /\ \A n \in Nodes : lane'[n] # call'[u].conn
      BY DEF HandInv
    <2>1. call'[u].conn = call[u].conn /\ call[u].op = "fetch"
      BY DEF Takes
    <2>2. /\ \A v \in Tasks \ {u} : call[v].conn # call[u].conn
          /\ \A n \in Nodes : lane[n] # call[u].conn
      BY <2>1 DEF PoolInv, HandInv
    <2> QED
      BY <2>1, <2>2 DEF Takes
  <1> QED
    BY <1>1, <1>2, <1>3, <1>4 DEF PoolInv

-----------------------------------------------------------------------------
(* Finding out where to send a request, and the end of a round.              *)

\* A step of task t that changes its call and nothing of the pools.
LEMMA QuietStep ==
    ASSUME PoolInv, NEW t \in Tasks, NEW r,
           call' = [call EXCEPT ![t] = r],
           IsCall(r), Takes(r, call[t]),
           \A n \in Nodes : Leases(r, n) <=> Leases(call[t], n),
           leaderOf' \in Nodes \cup {None}, UNCHANGED <<leader, lane, poolVars>>
    PROVE  PoolInv'
  <1>1. /\ call'[t] = r /\ call' = [u \in Tasks |-> call'[u]]
        /\ \A u \in Tasks \ {t} : call'[u] = call[u]
    BY DEF PoolInv, TypeInv
  <1>2. /\ lane' \in [Nodes -> Nat] /\ lane' = lane
        /\ idle' \in [Nodes -> Seq(Nat \ {0})] /\ idle' = idle
        /\ UNCHANGED <<outstanding, peak, leader>>
    BY DEF PoolInv, TypeInv, poolVars
  <1> QED
    BY <1>1, <1>2, CallStep

LEMMA RoutingSteps ==
    ASSUME PoolInv, NEW t \in Tasks, Route(t) \/ Told(t) \/ Learn(t) \/ Look(t)
    PROVE  PoolInv'
  <1> DEFINE c == call[t]
  <1>0. /\ IsCall(c) /\ leaderOf \in Nodes \cup {None} /\ leader \in Nodes \cup {None}
        /\ call = [u \in Tasks |-> call[u]]
    BY DEF PoolInv, TypeInv
  <1>1. CASE Route(t)
    <2> DEFINE r == [c EXCEPT !.at = IF leaderOf = None THEN "ask" ELSE "look"]
    <2>1. call' = [call EXCEPT ![t] = r] /\ leaderOf' = leaderOf /\ UNCHANGED <<leader, lane, poolVars>>
      BY <1>0, <1>1 DEF Route, Step, cacheVars, worldVars
    <2>2. c.at = "route"
      BY <1>1 DEF Route, At
    <2>3. IsCall(r) /\ Takes(r, c) /\ \A n \in Nodes : Leases(r, n) <=> Leases(c, n)
      BY <1>0, <2>2 DEF IsCall, Takes, Leases
    <2> QED
      BY <1>0, <2>1, <2>3, QuietStep
  <1>2. CASE Told(t)
    <2> DEFINE r == [c EXCEPT !.at = "learn", !.node = leader]
    <2>1. call' = [call EXCEPT ![t] = r] /\ leaderOf' = leaderOf /\ UNCHANGED <<leader, lane, poolVars>>
      BY <1>0, <1>2 DEF Told, cacheVars, worldVars
    <2>2. c.at = "ask"
      BY <1>2 DEF Told, At
    <2>3. IsCall(r) /\ Takes(r, c) /\ \A n \in Nodes : Leases(r, n) <=> Leases(c, n)
      BY <1>0, <2>2 DEF IsCall, Takes, Leases
    <2> QED
      BY <1>0, <2>1, <2>3, QuietStep
  <1>3. CASE Learn(t)
    <2> DEFINE r == [c EXCEPT !.at = "look", !.node = None]
    <2>1. call' = [call EXCEPT ![t] = r] /\ leaderOf' = c.node /\ UNCHANGED <<leader, lane, poolVars>>
      BY <1>0, <1>3 DEF Learn, worldVars
    <2>2. c.at = "learn" /\ c.node \in Nodes \cup {None}
      BY <1>0, <1>3 DEF Learn, At, IsCall
    <2>3. IsCall(r) /\ Takes(r, c) /\ \A n \in Nodes : Leases(r, n) <=> Leases(c, n)
      BY <1>0, <2>2 DEF IsCall, Takes, Leases
    <2> QED
      BY <2>1, <2>2, <2>3, QuietStep
  <1>4. CASE Look(t)
    <2> DEFINE r == IF leaderOf = None THEN [c EXCEPT !.at = "settle", !.verdict = "fatal"]
                    ELSE [c EXCEPT !.at = "connect", !.node = leaderOf]
    <2>1. call' = [call EXCEPT ![t] = r] /\ leaderOf' = leaderOf /\ UNCHANGED <<leader, lane, poolVars>>
      BY <1>0, <1>4 DEF Look, cacheVars, worldVars
    <2>2. c.at = "look"
      BY <1>4 DEF Look, At
    <2>3. IsCall(r) /\ Takes(r, c) /\ \A n \in Nodes : Leases(r, n) <=> Leases(c, n)
      BY <1>0, <2>2 DEF IsCall, Takes, Leases
    <2> QED
      BY <1>0, <2>1, <2>3, QuietStep
  <1> QED
    BY <1>1, <1>2, <1>3, <1>4

LEMMA SettlingSteps ==
    ASSUME PoolInv, NEW t \in Tasks, Retry(t) \/ Fatal(t) \/ Refuse(t)
    PROVE  PoolInv'
  <1> DEFINE c == call[t]
  <1>0. /\ IsCall(c) /\ leaderOf \in Nodes \cup {None}
        /\ call = [u \in Tasks |-> call[u]]
    BY DEF PoolInv, TypeInv
  <1>1. CASE Retry(t)
    <2> DEFINE r == Again(t)
    <2>1. call' = [call EXCEPT ![t] = r] /\ leaderOf' = None /\ UNCHANGED <<leader, lane, poolVars>>
      BY <1>1 DEF Retry, MarkedStale, worldVars
    <2>2. c.at = "settle"
      BY <1>1 DEF Retry, At
    <2>3. IsCall(r) /\ Takes(r, c) /\ \A n \in Nodes : Leases(r, n) <=> Leases(c, n)
      BY <1>0, <2>2 DEF IsCall, Takes, Leases, Again, NoCall
    <2> QED
      BY <2>1, <2>3, QuietStep
  <1>2. CASE Fatal(t)
    <2> DEFINE r == [NoCall EXCEPT !.at = "failed"]
    <2>1. call' = [call EXCEPT ![t] = r] /\ leaderOf' = leaderOf /\ UNCHANGED <<leader, lane, poolVars>>
      BY <1>2 DEF Fatal, cacheVars, worldVars
    <2>2. c.at = "settle"
      BY <1>2 DEF Fatal, At
    <2>3. IsCall(r) /\ Takes(r, c) /\ \A n \in Nodes : Leases(r, n) <=> Leases(c, n)
      BY <1>0, <2>2 DEF IsCall, Takes, Leases, NoCall
    <2> QED
      BY <1>0, <2>1, <2>3, QuietStep
  <1>3. CASE Refuse(t)
    <2> DEFINE r == [c EXCEPT !.at = "settle", !.verdict = "retry"]
    <2>1. call' = [call EXCEPT ![t] = r] /\ leaderOf' = leaderOf /\ UNCHANGED <<leader, lane, poolVars>>
      BY <1>0, <1>3 DEF Refuse, cacheVars
    <2>2. c.at = "dial"
      BY <1>3 DEF Refuse, At
    <2>3. IsCall(r) /\ Takes(r, c) /\ \A n \in Nodes : Leases(r, n) <=> Leases(c, n)
      BY <1>0, <2>2 DEF IsCall, Takes, Leases
    <2> QED
      BY <1>0, <2>1, <2>3, QuietStep
  <1> QED
    BY <1>1, <1>2, <1>3

-----------------------------------------------------------------------------
(* The calls of a consumer.                                                  *)

LEMMA CallingSteps ==
    ASSUME PoolInv, NEW t \in Tasks,
           Lookup(t) \/ Fetch(t) \/ Send(t) \/ Fetched(t) \/ LookedUp(t) \/ Refused(t)
    PROVE  PoolInv'
  <1> DEFINE c == call[t]
  <1>0. /\ IsCall(c) /\ leaderOf \in Nodes \cup {None}
        /\ call = [u \in Tasks |-> call[u]]
    BY DEF PoolInv, TypeInv
  <1>1. ASSUME NEW op, Begin(t, op) PROVE PoolInv'
    <2> DEFINE r == [NoCall EXCEPT !.op = op, !.at = "route"]
    <2>1. call' = [call EXCEPT ![t] = r] /\ leaderOf' = leaderOf /\ UNCHANGED <<leader, lane, poolVars>>
      BY <1>1 DEF Begin, cacheVars, worldVars
    <2>2. c.at \in {"idle", "failed"}
      BY <1>1 DEF Begin
    <2>3. IsCall(r) /\ Takes(r, c) /\ \A n \in Nodes : Leases(r, n) <=> Leases(c, n)
      BY <1>0, <2>2 DEF IsCall, Takes, Leases, NoCall
    <2> QED
      BY <1>0, <2>1, <2>3, QuietStep
  <1>2. CASE Lookup(t) \/ Fetch(t)
    BY <1>1, <1>2 DEF Lookup, Fetch
  <1>3. CASE Send(t)
    <2> DEFINE r == [c EXCEPT !.at = "wait", !.blame = leaderOf]
    <2>1. call' = [call EXCEPT ![t] = r] /\ leaderOf' = leaderOf /\ UNCHANGED <<leader, lane, poolVars>>
      BY <1>0, <1>3 DEF Send, cacheVars, worldVars
    <2>2. c.at = "send"
      BY <1>3 DEF Send, At
    <2>3. IsCall(r) /\ Takes(r, c) /\ \A n \in Nodes : Leases(r, n) <=> Leases(c, n)
      BY <1>0, <2>2 DEF IsCall, Takes, Leases
    <2> QED
      BY <1>0, <2>1, <2>3, QuietStep
  <1>4. CASE Fetched(t)
    <2> DEFINE r == [c EXCEPT !.at = "release", !.verdict = "ok"]
    <2>1. call' = [call EXCEPT ![t] = r] /\ leaderOf' = leaderOf /\ UNCHANGED <<leader, lane, poolVars>>
      BY <1>0, <1>4 DEF Fetched, cacheVars, worldVars
    <2>2. c.at = "wait" /\ c.op = "fetch"
      BY <1>4 DEF Fetched, At, Blocking
    <2>3. IsCall(r) /\ Takes(r, c) /\ \A n \in Nodes : Leases(r, n) <=> Leases(c, n)
      BY <1>0, <2>2 DEF IsCall, Takes, Leases
    <2> QED
      BY <1>0, <2>1, <2>3, QuietStep
  <1>5. CASE LookedUp(t)
    <2>1. call' = [call EXCEPT ![t] = NoCall] /\ leaderOf' = leaderOf /\ UNCHANGED <<leader, lane, poolVars>>
      BY <1>5 DEF LookedUp, cacheVars, worldVars
    <2>2. c.op # "fetch"
      BY <1>5 DEF LookedUp, Blocking
    <2>3. IsCall(NoCall) /\ Takes(NoCall, c) /\ \A n \in Nodes : Leases(NoCall, n) <=> Leases(c, n)
      BY <1>0, <2>2 DEF IsCall, Takes, Leases, NoCall
    <2> QED
      BY <1>0, <2>1, <2>3, QuietStep
  <1>6. CASE Refused(t)
    <2> DEFINE r == [c EXCEPT !.at = IF c.op = "fetch" THEN "release" ELSE "settle",
                              !.verdict = "retry"]
    <2>1. call' = [call EXCEPT ![t] = r] /\ leaderOf' = leaderOf /\ UNCHANGED <<leader, lane, poolVars>>
      BY <1>0, <1>6 DEF Refused, cacheVars, worldVars, Blocking
    <2>2. c.at = "wait"
      BY <1>6 DEF Refused, At
    <2>3. IsCall(r) /\ Takes(r, c) /\ \A n \in Nodes : Leases(r, n) <=> Leases(c, n)
      BY <1>0, <2>2 DEF IsCall, Takes, Leases
    <2> QED
      BY <1>0, <2>1, <2>3, QuietStep
  <1> QED
    BY <1>2, <1>3, <1>4, <1>5, <1>6

\* The request fails, and forget_broker may take a node's connections.
LEMMA FailingStep ==
    ASSUME PoolInv, NEW t \in Tasks, Fail(t)
    PROVE  PoolInv'
  <1> DEFINE c == call[t]
             r == [c EXCEPT !.at = IF c.op = "fetch" THEN "drop" ELSE "settle",
                            !.verdict = "retry"]
  <1>0. /\ IsCall(c) /\ leaderOf \in Nodes \cup {None}
        /\ call = [u \in Tasks |-> call[u]]
        /\ lane \in [Nodes -> Nat] /\ idle \in [Nodes -> Seq(Nat \ {0})]
    BY DEF PoolInv, TypeInv
  <1>1. /\ call' = [call EXCEPT ![t] = r]
        /\ UNCHANGED <<leaderOf, leader, outstanding, peak>>
    BY <1>0 DEF Fail, Blocking
  <1>2. c.at = "wait"
    BY DEF Fail, At
  <1>3. IsCall(r) /\ Takes(r, c) /\ \A n \in Nodes : Leases(r, n) <=> Leases(c, n)
    BY <1>0, <1>2 DEF IsCall, Takes, Leases
  <1>4. /\ call'[t] = r /\ call' = [u \in Tasks |-> call'[u]]
        /\ \A u \in Tasks \ {t} : call'[u] = call[u]
    BY <1>0, <1>1
  <1>5. UNCHANGED <<lane, idle>> \/ Forget(Blamed(t))
    BY DEF Fail
  <1>6. lane' \in [Nodes -> Nat] /\ \A n \in Nodes : lane'[n] \in {0, lane[n]}
    <2>1. CASE UNCHANGED <<lane, idle>>
      BY <1>0, <2>1
    <2>2. CASE Forget(Blamed(t))
      <3>1. PICK b : lane' = [lane EXCEPT ![b] = 0]
        BY <2>2 DEF Forget
      <3> QED
        BY <1>0, <3>1
    <2> QED
      BY <1>5, <2>1, <2>2
  <1>7. <<>> \in Seq(Nat \ {0})
    OBVIOUS
  <1>8. /\ idle' \in [Nodes -> Seq(Nat \ {0})] /\ \A n \in Nodes : idle'[n] \in {<<>>, idle[n]}
    BY <1>0, <1>5, <1>7 DEF Forget
  <1> HIDE DEF r
  <1> QED
    BY <1>0, <1>1, <1>3, <1>4, <1>6, <1>8, CallStep

-----------------------------------------------------------------------------
(* Getting a connection and giving it back.                                  *)

\* An idle connection leaves the pool for the hand of a task.
LEMMA CheckoutStep ==
    ASSUME PoolInv, NEW t \in Tasks, Connect(t), Blocking(t), idle[call[t].node] # <<>>
    PROVE  PoolInv'
  <1> DEFINE c == call[t]
             k == c.node
             x == Last(idle[k])
             r == [c EXCEPT !.at = "count", !.conn = x]
             z == Len(idle[k])
  <1>0. /\ IsCall(c) /\ call = [u \in Tasks |-> call[u]] /\ idle \in [Nodes -> Seq(Nat \ {0})]
    BY DEF PoolInv, TypeInv
  <1>1. c.at = "connect" /\ c.op = "fetch" /\ k \in Nodes
    BY <1>0 DEF Connect, At, Blocking, IsCall
  <1>2. /\ call' = [call EXCEPT ![t] = r] /\ idle' = [idle EXCEPT ![k] = Front(idle[k])]
        /\ UNCHANGED <<leaderOf, leader, lane, outstanding, peak>>
    BY <1>0 DEF Connect, cacheVars, worldVars
  <1>3. /\ z \in Nat \ {0} /\ Front(idle[k]) \in Seq(Nat \ {0}) /\ Len(Front(idle[k])) = z - 1
        /\ \A i \in 1 .. z - 1 : Front(idle[k])[i] = idle[k][i]
        /\ x = idle[k][z] /\ x \in Nat \ {0}
    <2>1. idle[k] \in Seq(Nat \ {0}) /\ idle[k] # <<>>
      BY <1>0, <1>1
    <2> HIDE DEF k
    <2> QED
      BY <2>1, SubSeqProperties DEF Front, Last
  <1>4. /\ call'[t] = r /\ call' = [u \in Tasks |-> call'[u]]
        /\ \A u \in Tasks \ {t} : call'[u] = call[u]
    BY <1>0, <1>2
  <1>5. /\ idle' \in [Nodes -> Seq(Nat \ {0})] /\ idle'[k] = Front(idle[k])
        /\ \A n \in Nodes \ {k} : idle'[n] = idle[n]
    BY <1>0, <1>1, <1>2, <1>3
  <1>6. IsCall(r) /\ r.conn = x /\ r.op = "fetch" /\ \A n \in Nodes : Leases(r, n) <=> Leases(c, n)
    BY <1>0, <1>1, <1>3 DEF IsCall, Leases
  <1> HIDE DEF r, x, k, z
  <1>7. TypeInv'
    <2>1. \A u \in Tasks : IsCall(call'[u])
      BY <1>4, <1>6 DEF PoolInv, TypeInv
    <2>2. \A u \in Tasks : IsCall(call[u])'
      BY <2>1 DEF IsCall
    <2> QED
      BY <1>2, <1>4, <1>5, <2>2 DEF PoolInv, TypeInv
  <1>8. CountInv'
    <2> SUFFICES ASSUME NEW n \in Nodes
                 PROVE  /\ outstanding'[n] = Cardinality(Lessees(n)')
                        /\ outstanding'[n] <= peak'[n] /\ peak'[n] <= Cardinality(Tasks)
                        /\ Len(idle'[n]) <= peak'[n] /\ Len(idle'[n]) <= BlockingIdleMax
      BY DEF CountInv
    <2>0. \A u \in Tasks : Leases(call'[u], n) <=> Leases(call[u], n)
      BY <1>4, <1>6
    <2>1. Lessees(n)' = Lessees(n)
      BY LesseesAre, <2>0
    <2>2. /\ outstanding[n] = Cardinality(Lessees(n))
          /\ outstanding[n] <= peak[n] /\ peak[n] <= Cardinality(Tasks)
          /\ Len(idle[n]) <= peak[n] /\ Len(idle[n]) <= BlockingIdleMax
      BY DEF PoolInv, CountInv
    <2>3. peak[n] \in Nat /\ BlockingIdleMax \in Nat
      BY ClusterAssumption DEF PoolInv, TypeInv
    <2>4. Len(idle'[n]) = IF n = k THEN Len(idle[n]) - 1 ELSE Len(idle[n])
      BY <1>3, <1>5 DEF z
    <2>5. Len(idle[n]) \in Nat
      BY <1>0
    <2> QED
      BY <2>1, <2>2, <2>3, <2>4, <2>5, <1>2
  <1>9. \A n \in Nodes : \A i \in 1 .. Len(idle'[n]) :
            i \in 1 .. Len(idle[n]) /\ idle'[n][i] = idle[n][i] /\ (n = k => i < z)
    <2> TAKE n \in Nodes
    <2> TAKE i \in 1 .. Len(idle'[n])
    <2>1. CASE n = k
      BY <2>1, <1>3, <1>5 DEF z
    <2>2. CASE n # k
      BY <2>2, <1>5
    <2> QED
      BY <2>1, <2>2
  <1>10. z \in 1 .. Len(idle[k]) /\ x = idle[k][z]
    BY <1>3 DEF z
  <1>11. IdleInv'
    <2> SUFFICES ASSUME NEW n \in Nodes, NEW i \in 1 .. Len(idle'[n])
                 PROVE  /\ \A j \in 1 .. Len(idle'[n]) : idle'[n][i] = idle'[n][j] => i = j
                        /\ \A u \in Tasks : call'[u].conn # idle'[n][i]
                        /\ \A m \in Nodes :
                              /\ lane'[m] # idle'[n][i]
                              /\ m # n => \A j \in 1 .. Len(idle'[m]) : idle'[m][j] # idle'[n][i]
      BY DEF IdleInv
    <2>1. i \in 1 .. Len(idle[n]) /\ idle'[n][i] = idle[n][i] /\ (n = k => i < z)
      BY <1>9
    <2>2. /\ \A j \in 1 .. Len(idle[n]) : idle[n][i] = idle[n][j] => i = j
          /\ \A u \in Tasks : call[u].conn # idle[n][i]
          /\ \A m \in Nodes :
                /\ lane[m] # idle[n][i]
                /\ m # n => \A j \in 1 .. Len(idle[m]) : idle[m][j] # idle[n][i]
      BY <2>1 DEF PoolInv, IdleInv
    <2>3. x # idle[n][i]
      BY <2>1, <2>2, <1>1, <1>3, <1>10
    <2>4. \A u \in Tasks : call'[u].conn # idle'[n][i]
      BY <2>1, <2>2, <2>3, <1>4, <1>6
    <2> QED
      BY <2>1, <2>2, <2>4, <1>2, <1>9
  <1>12. HandInv'
    <2> SUFFICES ASSUME NEW u \in Tasks, call'[u].op = "fetch", call'[u].conn # 0
                 PROVE  /\ \A v \in Tasks \ {u} : call'[v].conn # call'[u].conn
                        /\ \A n \in Nodes : lane'[n] # call'[u].conn
      BY DEF HandInv
    <2>1. (\A v \in Tasks : call[v].conn # x) /\ \A n \in Nodes : lane[n] # x
      BY <1>1, <1>10 DEF PoolInv, IdleInv
    <2>2. CASE u = t
      BY <2>1, <2>2, <1>2, <1>4, <1>6
    <2>3. CASE u # t
      <3>1. /\ \A v \in Tasks \ {u} : call[v].conn # call[u].conn
            /\ \A n \in Nodes : lane[n] # call[u].conn
        BY <2>3, <1>4 DEF PoolInv, HandInv
      <3> QED
        BY <3>1, <2>1, <2>3, <1>2, <1>4, <1>6
    <2> QED
      BY <2>2, <2>3
  <1> QED
    BY <1>7, <1>8, <1>11, <1>12 DEF PoolInv

\* A new connection, and it may become the shared one of a node.
LEMMA FreshStep ==
    ASSUME PoolInv, NEW t \in Tasks, NEW r,
           call' = [call EXCEPT ![t] = r], IsCall(r), r.conn = Fresh,
           \A n \in Nodes : Leases(r, n) <=> Leases(call[t], n),
           \/ lane' = lane
           \/ r.op # "fetch" /\ lane' = [lane EXCEPT ![r.node] = Fresh],
           UNCHANGED <<leaderOf, leader, poolVars>>
    PROVE  PoolInv'
  <1> DEFINE x == Fresh
  <1>0. /\ call = [u \in Tasks |-> call[u]] /\ lane \in [Nodes -> Nat]
        /\ idle \in [Nodes -> Seq(Nat \ {0})]
    BY DEF PoolInv, TypeInv
  <1>1. x \in Nat \ {0} /\ x \notin Held
    BY FreshIsFree DEF PoolInv
  <1>2. /\ \A n \in Nodes : lane[n] # x /\ \A i \in 1 .. Len(idle[n]) : idle[n][i] # x
        /\ \A u \in Tasks : call[u].conn # x
    <2>1. \A n \in Nodes : DOMAIN idle[n] = 1 .. Len(idle[n])
      BY <1>0
    <2> HIDE DEF x
    <2> QED
      BY <1>1, <2>1 DEF Held, ToSet
  <1> HIDE DEF x
  <1>3. UNCHANGED <<leaderOf, leader, idle, outstanding, peak>>
    BY DEF poolVars
  <1>4. /\ call'[t] = r /\ call' = [u \in Tasks |-> call'[u]]
        /\ \A u \in Tasks \ {t} : call'[u] = call[u]
    BY <1>0
  <1>5. IsCall(r) /\ r.conn = x
    BY DEF x
  <1>6. /\ lane' \in [Nodes -> Nat] /\ \A n \in Nodes : lane'[n] \in {lane[n], x}
        /\ lane' = lane \/ r.op # "fetch"
    BY <1>0, <1>1 DEF x
  <1>7. TypeInv'
    <2>1. \A u \in Tasks : IsCall(call'[u])
      BY <1>4, <1>5 DEF PoolInv, TypeInv
    <2>2. \A u \in Tasks : IsCall(call[u])'
      BY <2>1 DEF IsCall
    <2> QED
      BY <1>3, <1>4, <1>6, <2>2 DEF PoolInv, TypeInv
  <1>8. CountInv'
    <2> SUFFICES ASSUME NEW n \in Nodes
                 PROVE  /\ outstanding'[n] = Cardinality(Lessees(n)')
                        /\ outstanding'[n] <= peak'[n] /\ peak'[n] <= Cardinality(Tasks)
                        /\ Len(idle'[n]) <= peak'[n] /\ Len(idle'[n]) <= BlockingIdleMax
      BY DEF CountInv
    <2>0. \A u \in Tasks : Leases(call'[u], n) <=> Leases(call[u], n)
      BY <1>4
    <2>1. Lessees(n)' = Lessees(n)
      BY LesseesAre, <2>0
    <2>2. /\ outstanding[n] = Cardinality(Lessees(n))
          /\ outstanding[n] <= peak[n] /\ peak[n] <= Cardinality(Tasks)
          /\ Len(idle[n]) <= peak[n] /\ Len(idle[n]) <= BlockingIdleMax
      BY DEF PoolInv, CountInv
    <2> QED
      BY <2>1, <2>2, <1>3
  <1>9. IdleInv'
    <2> SUFFICES ASSUME NEW n \in Nodes, NEW i \in 1 .. Len(idle'[n])
                 PROVE  /\ \A j \in 1 .. Len(idle'[n]) : idle'[n][i] = idle'[n][j] => i = j
                        /\ \A u \in Tasks : call'[u].conn # idle'[n][i]
                        /\ \A m \in Nodes :
                              /\ lane'[m] # idle'[n][i]
                              /\ m # n => \A j \in 1 .. Len(idle'[m]) : idle'[m][j] # idle'[n][i]
      BY DEF IdleInv
    <2>1. i \in 1 .. Len(idle[n]) /\ idle'[n][i] = idle[n][i]
      BY <1>3
    <2>2. /\ \A j \in 1 .. Len(idle[n]) : idle[n][i] = idle[n][j] => i = j
          /\ \A u \in Tasks : call[u].conn # idle[n][i]
          /\ \A m \in Nodes :
                /\ lane[m] # idle[n][i]
                /\ m # n => \A j \in 1 .. Len(idle[m]) : idle[m][j] # idle[n][i]
      BY <2>1 DEF PoolInv, IdleInv
    <2>3. x # idle[n][i]
      BY <2>1, <1>2
    <2>4. \A u \in Tasks : call'[u].conn # idle'[n][i]
      BY <2>1, <2>2, <2>3, <1>4, <1>5
    <2>5. \A m \in Nodes : lane'[m] # idle'[n][i]
      BY <2>1, <2>2, <2>3, <1>6
    <2> QED
      BY <2>1, <2>2, <2>4, <2>5, <1>3
  <1>10. HandInv'
    <2> SUFFICES ASSUME NEW u \in Tasks, call'[u].op = "fetch", call'[u].conn # 0
                 PROVE  /\ \A v \in Tasks \ {u} : call'[v].conn # call'[u].conn
                        /\ \A n \in Nodes : lane'[n] # call'[u].conn
      BY DEF HandInv
    <2>1. CASE u = t
      BY <2>1, <1>2, <1>4, <1>5, <1>6
    <2>2. CASE u # t
      <3>1. /\ \A v \in Tasks \ {u} : call[v].conn # call[u].conn
            /\ \A n \in Nodes : lane[n] # call[u].conn
        BY <2>2, <1>4 DEF PoolInv, HandInv
      <3>2. call[u].conn # x /\ call'[u] = call[u]
        BY <2>2, <1>2, <1>4
      <3> QED
        BY <3>1, <3>2, <2>2, <1>4, <1>5, <1>6
    <2> QED
      BY <2>1, <2>2
  <1> QED
    BY <1>7, <1>8, <1>9, <1>10 DEF PoolInv

LEMMA ConnectingSteps ==
    ASSUME PoolInv, NEW t \in Tasks, Connect(t) \/ Dial(t)
    PROVE  PoolInv'
  <1> DEFINE c == call[t]
             k == c.node
  <1>0. /\ IsCall(c) /\ call = [u \in Tasks |-> call[u]] /\ leaderOf \in Nodes \cup {None}
        /\ lane \in [Nodes -> Nat]
    BY DEF PoolInv, TypeInv
  <1>1. c.at \in {"connect", "dial"} /\ k \in Nodes /\ lane[k] \in Nat
    BY <1>0 DEF Connect, Dial, At, IsCall
  <1>2. CASE Connect(t) /\ Blocking(t) /\ idle[k] # <<>>
    BY <1>2, CheckoutStep
  <1>3. CASE Connect(t) /\ ~(Blocking(t) /\ idle[k] # <<>>)
    <2> DEFINE r == IF ~Blocking(t) /\ lane[k] # 0
                    THEN [c EXCEPT !.at = "wait", !.conn = lane[k]]
                    ELSE [c EXCEPT !.at = "dial"]
    <2>1. call' = [call EXCEPT ![t] = r] /\ leaderOf' = leaderOf /\ UNCHANGED <<leader, lane, poolVars>>
      BY <1>0, <1>3 DEF Connect, cacheVars, worldVars, poolVars
    <2>2. IsCall(r) /\ Takes(r, c) /\ \A n \in Nodes : Leases(r, n) <=> Leases(c, n)
      BY <1>0, <1>1 DEF IsCall, Takes, Leases, Blocking
    <2> QED
      BY <1>0, <2>1, <2>2, QuietStep
  <1>4. CASE Dial(t) /\ Blocking(t)
    <2> DEFINE r == [c EXCEPT !.at = "count", !.conn = Fresh]
    <2>1. /\ call' = [call EXCEPT ![t] = r] /\ lane' = lane
          /\ UNCHANGED <<leaderOf, leader, poolVars>>
      BY <1>0, <1>4 DEF Dial
    <2>2. Fresh \in Nat \ {0}
      BY FreshIsFree DEF PoolInv
    <2>3. IsCall(r) /\ r.conn = Fresh /\ \A n \in Nodes : Leases(r, n) <=> Leases(c, n)
      BY <1>0, <1>1, <1>4, <2>2 DEF IsCall, Leases, Blocking
    <2> QED
      BY <2>1, <2>3, FreshStep
  <1>5. CASE Dial(t) /\ ~Blocking(t) /\ lane[k] = 0
    <2> DEFINE r == [c EXCEPT !.at = "wait", !.conn = Fresh]
    <2>1. /\ call' = [call EXCEPT ![t] = r] /\ lane' = [lane EXCEPT ![k] = Fresh]
          /\ UNCHANGED <<leaderOf, leader, poolVars>>
      BY <1>0, <1>5 DEF Dial
    <2>2. Fresh \in Nat \ {0}
      BY FreshIsFree DEF PoolInv
    <2>3. /\ IsCall(r) /\ r.conn = Fresh /\ \A n \in Nodes : Leases(r, n) <=> Leases(c, n)
          /\ r.node = k /\ r.op # "fetch"
      BY <1>0, <1>1, <1>5, <2>2 DEF IsCall, Leases, Blocking
    <2> QED
      BY <2>1, <2>3, FreshStep
  <1>6. CASE Dial(t) /\ ~Blocking(t) /\ lane[k] # 0
    <2> DEFINE r == [c EXCEPT !.at = "wait", !.conn = lane[k]]
    <2>1. call' = [call EXCEPT ![t] = r] /\ leaderOf' = leaderOf /\ UNCHANGED <<leader, lane, poolVars>>
      BY <1>0, <1>6 DEF Dial
    <2>2. IsCall(r) /\ Takes(r, c) /\ \A n \in Nodes : Leases(r, n) <=> Leases(c, n)
      BY <1>0, <1>1, <1>6 DEF IsCall, Takes, Leases, Blocking
    <2> QED
      BY <1>0, <2>1, <2>2, QuietStep
  <1> QED
    BY <1>2, <1>3, <1>4, <1>5, <1>6

\* One lease more.
LEMMA CountingStep ==
    ASSUME PoolInv, NEW t \in Tasks, Count(t)
    PROVE  PoolInv'
  <1> DEFINE c == call[t]
             k == c.node
             r == [c EXCEPT !.at = "send"]
  <1>0. /\ IsCall(c) /\ call = [u \in Tasks |-> call[u]]
        /\ outstanding \in [Nodes -> Nat] /\ peak \in [Nodes -> Nat]
    BY DEF PoolInv, TypeInv
  <1>1. c.at = "count" /\ k \in Nodes /\ c.op = "fetch"
    BY <1>0 DEF Count, At, IsCall
  <1>2. /\ call' = [call EXCEPT ![t] = r]
        /\ outstanding' = [outstanding EXCEPT ![k] = @ + 1]
        /\ peak' = [peak EXCEPT ![k] = Max({@, outstanding'[k]})]
        /\ UNCHANGED <<leaderOf, leader, lane, idle>>
    BY <1>0 DEF Count, Step, cacheVars, worldVars
  <1>3. IsCall(r) /\ r.conn = c.conn /\ r.op = c.op
    BY <1>0, <1>1 DEF IsCall
  <1>4. /\ call'[t] = r /\ call' = [u \in Tasks |-> call'[u]]
        /\ \A u \in Tasks \ {t} : call'[u] = call[u]
    BY <1>0, <1>2
  <1>5. Leases(r, k) /\ ~Leases(c, k) /\ \A n \in Nodes \ {k} : ~Leases(r, n) /\ ~Leases(c, n)
    BY <1>0, <1>1 DEF IsCall, Leases
  <1>6. /\ outstanding' \in [Nodes -> Nat] /\ outstanding'[k] = outstanding[k] + 1
        /\ \A n \in Nodes \ {k} : outstanding'[n] = outstanding[n] /\ peak'[n] = peak[n]
    BY <1>0, <1>1, <1>2
  <1>7. /\ peak'[k] \in Nat /\ peak'[k] >= outstanding'[k] /\ peak'[k] >= peak[k]
        /\ peak'[k] = peak[k] \/ peak'[k] = outstanding'[k]
    <2>1. peak[k] \in Nat /\ outstanding'[k] \in Nat
      BY <1>0, <1>1, <1>6
    <2>2. peak'[k] = Max({peak[k], outstanding'[k]})
      BY <1>0, <1>1, <1>2
    <2>3. PICK a \in Nat, b \in Nat : a = peak[k] /\ b = outstanding'[k]
      BY <2>1
    <2> QED
      BY <2>2, <2>3, TwoNumbers
  <1>8. peak' \in [Nodes -> Nat]
    BY <1>0, <1>2, <1>6, <1>7
  <1> HIDE DEF r, k, c
  <1>9. TypeInv'
    <2>1. \A u \in Tasks : IsCall(call'[u])
      BY <1>4, <1>3 DEF PoolInv, TypeInv
    <2>2. \A u \in Tasks : IsCall(call[u])'
      BY <2>1 DEF IsCall
    <2> QED
      BY <1>2, <1>4, <1>6, <1>8, <2>2 DEF PoolInv, TypeInv
  <1>10. CountInv'
    <2> SUFFICES ASSUME NEW n \in Nodes
                 PROVE  /\ outstanding'[n] = Cardinality(Lessees(n)')
                        /\ outstanding'[n] <= peak'[n] /\ peak'[n] <= Cardinality(Tasks)
                        /\ Len(idle'[n]) <= peak'[n] /\ Len(idle'[n]) <= BlockingIdleMax
      BY DEF CountInv
    <2>2. /\ outstanding[n] = Cardinality(Lessees(n))
          /\ outstanding[n] <= peak[n] /\ peak[n] <= Cardinality(Tasks)
          /\ Len(idle[n]) <= peak[n] /\ Len(idle[n]) <= BlockingIdleMax
      BY DEF PoolInv, CountInv
    <2>3. /\ outstanding[n] \in Nat /\ peak[n] \in Nat /\ Cardinality(Tasks) \in Nat
          /\ BlockingIdleMax \in Nat /\ Len(idle[n]) \in Nat /\ idle'[n] = idle[n]
      BY <1>0, <1>2, ClusterAssumption, FS_CardinalityType DEF PoolInv, TypeInv
    <2>4. CASE n # k
      <3>1. \A u \in Tasks : Leases(call'[u], n) <=> Leases(call[u], n)
        BY <2>4, <1>4, <1>5 DEF c
      <3>2. Lessees(n)' = Lessees(n)
        BY LesseesAre, <3>1
      <3> QED
        BY <2>2, <2>3, <2>4, <1>6, <3>2
    <2>5. CASE n = k
      <3>1. t \notin Lessees(n) /\ IsFiniteSet(Lessees(n))
        BY <2>5, <1>5, LesseesAre DEF c
      <3>2. Lessees(n)' = Lessees(n) \cup {t}
        <4>1. \A u \in Tasks : Leases(call'[u], n) <=> (u = t \/ Leases(call[u], n))
          BY <2>5, <1>4, <1>5
        <4> QED
          BY <4>1, LesseesAre
      <3>3. /\ Cardinality(Lessees(n)') = Cardinality(Lessees(n)) + 1
        BY <3>1, <3>2, FS_AddElement
      <3>4. Lessees(n)' \subseteq Tasks
        BY LesseesAre
      <3>5. Cardinality(Lessees(n)') <= Cardinality(Tasks)
        BY <3>4, FS_Subset, ClusterAssumption
      <3> QED
        BY <2>2, <2>3, <2>5, <1>6, <1>7, <3>3, <3>5
    <2> QED
      BY <2>4, <2>5
  <1>11. \A u \in Tasks : call'[u].conn = call[u].conn /\ call'[u].op = call[u].op
    BY <1>3, <1>4 DEF c
  <1>12. IdleInv'
    BY <1>2, <1>11 DEF PoolInv, IdleInv
  <1>13. HandInv'
    BY <1>2, <1>11 DEF PoolInv, HandInv
  <1> QED
    BY <1>9, <1>10, <1>12, <1>13 DEF PoolInv

\* The lease is handed back; the pool takes the connection while it has room.
LEMMA ReleasingStep ==
    ASSUME PoolInv, NEW t \in Tasks, Release(t)
    PROVE  PoolInv'
  <1> DEFINE c == call[t]
             k == c.node
             x == c.conn
             z == Len(idle[k])
             r == [c EXCEPT !.at = "drop", !.conn = 0]
  <1>0. /\ IsCall(c) /\ call = [u \in Tasks |-> call[u]] /\ idle \in [Nodes -> Seq(Nat \ {0})]
        /\ lane \in [Nodes -> Nat]
    BY DEF PoolInv, TypeInv
  <1>1. c.at = "release" /\ k \in Nodes /\ c.op = "fetch" /\ x \in Nat \ {0}
    BY <1>0 DEF Release, At, IsCall
  <1>2. /\ call' = [call EXCEPT ![t] = r]
        /\ UNCHANGED <<leaderOf, leader, lane, outstanding, peak>>
    BY <1>0 DEF Release, cacheVars, worldVars
  <1>3. IsCall(r) /\ r.conn = 0 /\ \A n \in Nodes : Leases(r, n) <=> Leases(c, n)
    BY <1>0, <1>1 DEF IsCall, Leases
  <1>4. /\ call'[t] = r /\ call' = [u \in Tasks |-> call'[u]]
        /\ \A u \in Tasks \ {t} : call'[u] = call[u]
    BY <1>0, <1>2
  <1>5. CASE ~Keeps(k)
    <2>1. idle' = idle
      BY <1>5 DEF Release
    <2>2. Takes(r, c) /\ leaderOf' \in Nodes \cup {None} /\ UNCHANGED poolVars
      BY <1>2, <1>3, <2>1 DEF Takes, PoolInv, TypeInv, poolVars
    <2> HIDE DEF r
    <2> QED
      BY <1>2, <1>3, <2>2, QuietStep
  <1>6. CASE Keeps(k)
    <2>1. idle' = [idle EXCEPT ![k] = Append(idle[k], x)]
      BY <1>6 DEF Release
    <2>2. idle[k] \in Seq(Nat \ {0}) /\ z \in Nat
      BY <1>0, <1>1
    <2>3. /\ Append(idle[k], x) \in Seq(Nat \ {0}) /\ Len(Append(idle[k], x)) = z + 1
          /\ \A i \in 1 .. z : Append(idle[k], x)[i] = idle[k][i]
          /\ Append(idle[k], x)[z + 1] = x
      <3> HIDE DEF k, x
      <3> QED
        BY <1>1, <2>2, AppendProperties
    <2>4. /\ idle' \in [Nodes -> Seq(Nat \ {0})] /\ idle'[k] = Append(idle[k], x)
          /\ \A n \in Nodes \ {k} : idle'[n] = idle[n]
      BY <1>0, <1>1, <2>1, <2>3
    <2>5. z < peak[k] /\ z < BlockingIdleMax
      <3>1. PICK a \in Nat, b \in Nat : a = peak[k] /\ b = BlockingIdleMax
        BY <1>1, ClusterAssumption DEF PoolInv, TypeInv
      <3>2. z < Min({a, b})
        BY <1>6, <3>1 DEF Keeps
      <3> QED
        BY <3>1, <3>2, <2>2, TwoNumbers
    <2> HIDE DEF r, x, k, z, c
    <2>6. TypeInv'
      <3>1. \A u \in Tasks : IsCall(call'[u])
        BY <1>3, <1>4 DEF PoolInv, TypeInv
      <3>2. \A u \in Tasks : IsCall(call[u])'
        BY <3>1 DEF IsCall
      <3> QED
        BY <1>2, <1>4, <2>4, <3>2 DEF PoolInv, TypeInv
    <2>7. CountInv'
      <3> SUFFICES ASSUME NEW n \in Nodes
                   PROVE  /\ outstanding'[n] = Cardinality(Lessees(n)')
                          /\ outstanding'[n] <= peak'[n] /\ peak'[n] <= Cardinality(Tasks)
                          /\ Len(idle'[n]) <= peak'[n] /\ Len(idle'[n]) <= BlockingIdleMax
        BY DEF CountInv
      <3>2. /\ outstanding[n] = Cardinality(Lessees(n))
            /\ outstanding[n] <= peak[n] /\ peak[n] <= Cardinality(Tasks)
            /\ Len(idle[n]) <= peak[n] /\ Len(idle[n]) <= BlockingIdleMax
        BY DEF PoolInv, CountInv
      <3>3. \A u \in Tasks : Leases(call'[u], n) <=> Leases(call[u], n)
        BY <1>3, <1>4 DEF c
      <3>4. Lessees(n)' = Lessees(n)
        BY LesseesAre, <3>3
      <3>5. peak[n] \in Nat /\ BlockingIdleMax \in Nat
        BY ClusterAssumption DEF PoolInv, TypeInv
      <3>6. Len(idle'[n]) = IF n = k THEN z + 1 ELSE Len(idle[n])
        BY <2>3, <2>4
      <3> QED
        BY <3>2, <3>4, <3>5, <3>6, <1>2, <2>2, <2>5
    <2>8. \A n \in Nodes : \A i \in 1 .. Len(idle'[n]) :
              \/ i \in 1 .. Len(idle[n]) /\ idle'[n][i] = idle[n][i]
              \/ n = k /\ i = z + 1 /\ idle'[n][i] = x
      <3> TAKE n \in Nodes
      <3> TAKE i \in 1 .. Len(idle'[n])
      <3>1. CASE n = k
        BY <3>1, <2>2, <2>3, <2>4 DEF z
      <3>2. CASE n # k
        BY <3>2, <2>4
      <3> QED
        BY <3>1, <3>2
    <2>9. /\ \A n \in Nodes : lane[n] # x /\ \A i \in 1 .. Len(idle[n]) : idle[n][i] # x
          /\ \A u \in Tasks \ {t} : call[u].conn # x
      BY <1>1 DEF PoolInv, IdleInv, HandInv, x, c
    <2>10. \A u \in Tasks : call'[u].conn # x
      BY <1>1, <1>3, <1>4, <2>9
    <2>11. IdleInv'
      <3> SUFFICES ASSUME NEW n \in Nodes, NEW i \in 1 .. Len(idle'[n])
                   PROVE  /\ \A j \in 1 .. Len(idle'[n]) : idle'[n][i] = idle'[n][j] => i = j
                          /\ \A u \in Tasks : call'[u].conn # idle'[n][i]
                          /\ \A m \in Nodes :
                                /\ lane'[m] # idle'[n][i]
                                /\ m # n => \A j \in 1 .. Len(idle'[m]) : idle'[m][j] # idle'[n][i]
        BY DEF IdleInv
      <3>1. CASE i \in 1 .. Len(idle[n]) /\ idle'[n][i] = idle[n][i]
        <4>1. /\ \A j \in 1 .. Len(idle[n]) : idle[n][i] = idle[n][j] => i = j
              /\ \A u \in Tasks : call[u].conn # idle[n][i]
              /\ \A m \in Nodes :
                    /\ lane[m] # idle[n][i]
                    /\ m # n => \A j \in 1 .. Len(idle[m]) : idle[m][j] # idle[n][i]
          BY <3>1 DEF PoolInv, IdleInv
        <4>2. idle[n][i] # x /\ idle[n][i] # 0
          BY <3>1, <2>9, <1>0
        <4>3. \A u \in Tasks : call'[u].conn # idle'[n][i]
          BY <3>1, <4>1, <4>2, <1>3, <1>4
        <4> QED
          BY <3>1, <4>1, <4>2, <4>3, <2>8, <1>2
      <3>2. CASE n = k /\ i = z + 1 /\ idle'[n][i] = x
        <4>1. \A j \in 1 .. Len(idle'[n]) : x = idle'[n][j] => j = z + 1
          BY <3>2, <2>8, <2>9
        <4>2. ASSUME NEW m \in Nodes, m # n, NEW j \in 1 .. Len(idle'[m])
              PROVE  idle'[m][j] # x
          BY <3>2, <4>2, <2>8, <2>9
        <4> QED
          BY <3>2, <4>1, <4>2, <2>9, <2>10, <1>2
      <3> QED
        BY <3>1, <3>2, <2>8
    <2>12. HandInv'
      BY <1>2, <1>3, <1>4 DEF PoolInv, HandInv
    <2> QED
      BY <2>6, <2>7, <2>11, <2>12 DEF PoolInv
  <1> QED
    BY <1>5, <1>6

\* One lease less.
LEMMA DroppingStep ==
    ASSUME PoolInv, NEW t \in Tasks, Drop(t)
    PROVE  PoolInv'
  <1> DEFINE c == call[t]
             k == c.node
             r == IF c.verdict = "ok" THEN NoCall ELSE [c EXCEPT !.at = "settle", !.conn = 0]
  <1>0. /\ IsCall(c) /\ call = [u \in Tasks |-> call[u]]
        /\ outstanding \in [Nodes -> Nat] /\ idle \in [Nodes -> Seq(Nat \ {0})]
    BY DEF PoolInv, TypeInv
  <1>1. c.at = "drop" /\ k \in Nodes /\ c.op = "fetch"
    BY <1>0 DEF Drop, At, IsCall
  <1>2. /\ call' = [call EXCEPT ![t] = r]
        /\ outstanding' = [outstanding EXCEPT ![k] = Max({0, @ - 1})]
        /\ UNCHANGED <<leaderOf, leader, lane, idle, peak>>
    BY <1>0 DEF Drop, cacheVars, worldVars
  <1>3. IsCall(r) /\ r.conn = 0 /\ \A n \in Nodes : ~Leases(r, n)
    BY <1>0, <1>1 DEF IsCall, Leases, NoCall
  <1>4. /\ call'[t] = r /\ call' = [u \in Tasks |-> call'[u]]
        /\ \A u \in Tasks \ {t} : call'[u] = call[u]
    BY <1>0, <1>2
  <1>5. Leases(c, k) /\ \A n \in Nodes \ {k} : ~Leases(c, n)
    BY <1>1 DEF Leases
  <1> HIDE DEF r, k, c
  <1>6. /\ t \in Lessees(k) /\ IsFiniteSet(Lessees(k)) /\ Cardinality(Lessees(k)) \in Nat
        /\ outstanding[k] = Cardinality(Lessees(k)) /\ outstanding[k] > 0
    <2>1. t \in Lessees(k) /\ IsFiniteSet(Lessees(k)) /\ Cardinality(Lessees(k)) \in Nat
      BY <1>1, <1>5, LesseesAre DEF c
    <2>2. Cardinality(Lessees(k)) # 0
      BY <2>1, FS_EmptySet
    <2>3. outstanding[k] = Cardinality(Lessees(k))
      BY <1>1 DEF PoolInv, CountInv
    <2> QED
      BY <2>1, <2>2, <2>3
  <1>7. outstanding'[k] = outstanding[k] - 1 /\ outstanding'[k] \in Nat
    <2>1. PICK a \in Nat : a + 1 = outstanding[k]
      BY <1>6
    <2>2. outstanding'[k] = Max({0, a})
      <3>1. outstanding'[k] = Max({0, outstanding[k] - 1})
        BY <1>0, <1>1, <1>2
      <3>2. outstanding[k] - 1 = a
        BY <2>1
      <3> QED
        BY <3>1, <3>2
    <2>3. Max({0, a}) = a
      BY TwoNumbers
    <2>4. outstanding[k] - 1 = a
      BY <2>1
    <2> QED
      BY <2>2, <2>3, <2>4
  <1>8. /\ \A n \in Nodes \ {k} : outstanding'[n] = outstanding[n]
        /\ outstanding' \in [Nodes -> Nat]
    BY <1>0, <1>1, <1>2, <1>7
  <1>9. TypeInv'
    <2>1. \A u \in Tasks : IsCall(call'[u])
      BY <1>4, <1>3 DEF PoolInv, TypeInv
    <2>2. \A u \in Tasks : IsCall(call[u])'
      BY <2>1 DEF IsCall
    <2> QED
      BY <1>2, <1>4, <1>8, <2>2 DEF PoolInv, TypeInv
  <1>10. CountInv'
    <2> SUFFICES ASSUME NEW n \in Nodes
                 PROVE  /\ outstanding'[n] = Cardinality(Lessees(n)')
                        /\ outstanding'[n] <= peak'[n] /\ peak'[n] <= Cardinality(Tasks)
                        /\ Len(idle'[n]) <= peak'[n] /\ Len(idle'[n]) <= BlockingIdleMax
      BY DEF CountInv
    <2>2. /\ outstanding[n] = Cardinality(Lessees(n))
          /\ outstanding[n] <= peak[n] /\ peak[n] <= Cardinality(Tasks)
          /\ Len(idle[n]) <= peak[n] /\ Len(idle[n]) <= BlockingIdleMax
      BY DEF PoolInv, CountInv
    <2>3. outstanding[n] \in Nat /\ peak[n] \in Nat
      BY DEF PoolInv, TypeInv
    <2>4. CASE n # k
      <3>1. \A u \in Tasks : Leases(call'[u], n) <=> Leases(call[u], n)
        BY <2>4, <1>3, <1>4, <1>5 DEF c
      <3>2. Lessees(n)' = Lessees(n)
        BY LesseesAre, <3>1
      <3> QED
        BY <2>2, <2>4, <1>2, <1>8, <3>2
    <2>5. CASE n = k
      <3>1. \A u \in Tasks : Leases(call'[u], n) <=> (u # t /\ Leases(call[u], n))
        BY <2>5, <1>3, <1>4
      <3>2. Lessees(n)' = Lessees(n) \ {t}
        BY <3>1, LesseesAre
      <3>3. Cardinality(Lessees(n)') = Cardinality(Lessees(n)) - 1
        BY <2>5, <3>2, <1>6, FS_RemoveElement
      <3> QED
        BY <2>2, <2>3, <2>5, <1>2, <1>7, <3>3
    <2> QED
      BY <2>4, <2>5
  <1>11. \A u \in Tasks : call'[u] = call[u] \/ call'[u].conn = 0
    BY <1>3, <1>4
  <1>12. IdleInv'
    <2>1. \A n \in Nodes : \A i \in 1 .. Len(idle[n]) : idle[n][i] # 0
      BY <1>0
    <2>2. \A n \in Nodes : \A i \in 1 .. Len(idle[n]) : \A u \in Tasks : call'[u].conn # idle[n][i]
      BY <1>11, <2>1 DEF PoolInv, IdleInv
    <2> QED
      BY <1>2, <2>2 DEF PoolInv, IdleInv
  <1>13. HandInv'
    BY <1>2, <1>11 DEF PoolInv, HandInv
  <1> QED
    BY <1>9, <1>10, <1>12, <1>13 DEF PoolInv

-----------------------------------------------------------------------------
(* The theorem.                                                              *)

LEMMA PoolInit ==
    ASSUME Init
    PROVE  PoolInv
  <1>1. ClusterInit
    BY DEF Init
  <1>2. leader \in Nodes
    BY <1>1, LeastElement, ClusterAssumption DEF ClusterInit
  <1>3. \A t \in Tasks : call[t] = NoCall
    BY <1>1 DEF ClusterInit
  <1>4. TypeInv
    <2>1. \A t \in Tasks : IsCall(call[t])
      BY <1>3 DEF IsCall, NoCall
    <2>2. <<>> \in Seq(Nat \ {0})
      OBVIOUS
    <2>3. /\ lane \in [Nodes -> Nat] /\ idle \in [Nodes -> Seq(Nat \ {0})]
          /\ outstanding \in [Nodes -> Nat] /\ peak \in [Nodes -> Nat]
      BY <1>1, <2>2 DEF ClusterInit
    <2>4. call = [t \in Tasks |-> call[t]] /\ leaderOf = None
      BY <1>1 DEF ClusterInit
    <2> QED
      BY <1>2, <2>1, <2>3, <2>4 DEF TypeInv
  <1>5. \A n \in Nodes : idle[n] = <<>> /\ Len(idle[n]) = 0 /\ outstanding[n] = 0 /\ peak[n] = 0
    BY <1>1 DEF ClusterInit
  <1>6. CountInv
    <2>1. \A n \in Nodes : Lessees(n) = {}
      BY <1>3 DEF Lessees, NoCall
    <2>2. Cardinality(Tasks) \in Nat /\ BlockingIdleMax \in Nat
      BY ClusterAssumption, FS_CardinalityType
    <2>3. \A n \in Nodes : Cardinality(Lessees(n)) = 0
      BY <2>1, FS_EmptySet
    <2> QED
      BY <1>5, <2>2, <2>3 DEF CountInv
  <1>7. IdleInv
    BY <1>5 DEF IdleInv
  <1>8. HandInv
    BY <1>3 DEF HandInv, NoCall
  <1> QED
    BY <1>4, <1>6, <1>7, <1>8 DEF PoolInv

LEMMA PoolStutters ==
    ASSUME PoolInv, UNCHANGED <<leaderOf, lane, poolVars, call>>, leader' \in Nodes \cup {None}
    PROVE  PoolInv'
  <1>1. TypeInv'
    BY DEF PoolInv, TypeInv, IsCall, poolVars
  <1>2. CountInv'
    BY DEF PoolInv, CountInv, Lessees, poolVars
  <1>3. IdleInv' /\ HandInv'
    BY DEF PoolInv, IdleInv, HandInv, poolVars
  <1> QED
    BY <1>1, <1>2, <1>3 DEF PoolInv

LEMMA PoolNext ==
    ASSUME PoolInv, [Next]_vars
    PROVE  PoolInv'
  <1>0. leader \in Nodes \cup {None}
    BY DEF PoolInv, TypeInv
  <1>1. CASE Write \/ UNCHANGED vars
    BY <1>0, <1>1, PoolStutters DEF Write, vars, clusterVars, cacheVars, worldVars
  <1>2. CASE Quietly(World)
    <2>1. CASE Move \/ Elect \/ Break
      BY <1>0, <2>1, PoolStutters DEF Move, Elect, Break, cacheVars
    <2>2. CASE \E t \in Tasks : Refuse(t)
      BY <2>2, SettlingSteps
    <2> QED
      BY <1>2, <2>1, <2>2 DEF Quietly, World
  <1>3. ASSUME NEW t \in Tasks, Work(t) \/ Fail(t) \/ Lookup(t) \/ Fetch(t)
        PROVE  PoolInv'
    <2>1. CASE Quietly(ClusterStep(t))
      BY <2>1, RoutingSteps, ConnectingSteps, CountingStep, ReleasingStep, DroppingStep,
         SettlingSteps DEF Quietly, ClusterStep
    <2>2. CASE ~Quietly(ClusterStep(t))
      BY <1>3, <2>2, CallingSteps, FailingStep DEF Work
    <2> QED
      BY <2>1, <2>2
  <1> QED
    BY <1>1, <1>2, <1>3 DEF Next

\* The parts of the invariant are the property.
LEMMA PoolInvIsSound ==
    ASSUME PoolInv
    PROVE  PoolIsSound
  <1> SUFFICES ASSUME NEW n \in Nodes
               PROVE  /\ outstanding[n] = Cardinality(Lessees(n))
                      /\ outstanding[n] <= peak[n]
                      /\ Len(idle[n]) <= Min({peak[n], BlockingIdleMax})
                      /\ IsInjective(idle[n])
                      /\ \A c \in ToSet(idle[n]) :
                            /\ \A t \in Tasks : call[t].conn # c
                            /\ \A m \in Nodes : lane[m] # c /\ (m # n => c \notin ToSet(idle[m]))
    BY DEF PoolIsSound
  <1>1. \A m \in Nodes : DOMAIN idle[m] = 1 .. Len(idle[m])
    BY DEF PoolInv, TypeInv
  <1>2. /\ outstanding[n] = Cardinality(Lessees(n)) /\ outstanding[n] <= peak[n]
        /\ Len(idle[n]) <= peak[n] /\ Len(idle[n]) <= BlockingIdleMax
    BY DEF PoolInv, CountInv
  <1>3. peak[n] \in Nat /\ BlockingIdleMax \in Nat
    BY ClusterAssumption DEF PoolInv, TypeInv
  <1>4. Len(idle[n]) <= Min({peak[n], BlockingIdleMax})
    BY <1>2, <1>3, TwoNumbers
  <1>5. IsInjective(idle[n])
    BY <1>1 DEF PoolInv, IdleInv, IsInjective
  <1>6. ASSUME NEW c \in ToSet(idle[n])
        PROVE  /\ \A t \in Tasks : call[t].conn # c
               /\ \A m \in Nodes : lane[m] # c /\ (m # n => c \notin ToSet(idle[m]))
    <2>1. PICK i \in 1 .. Len(idle[n]) : c = idle[n][i]
      BY <1>1, <1>6 DEF ToSet
    <2> QED
      BY <2>1, <1>1 DEF PoolInv, IdleInv, ToSet
  <1> QED
    BY <1>2, <1>4, <1>5, <1>6

\* Whatever is released, dropped, forgotten and dialled in whatever order, the
\* count of BlockingPool is that of the leases out, the idle list stays within
\* the peak and blocking_idle_max, and no connection in it is in use, shared,
\* or in it twice.
THEOREM PoolTheorem == Spec => []PoolIsSound
  <1>1. Init => PoolInv
    BY PoolInit
  <1>2. PoolInv /\ [Next]_vars => PoolInv'
    BY PoolNext
  <1>3. PoolInv => PoolIsSound
    BY PoolInvIsSound
  <1> QED
    BY <1>1, <1>2, <1>3, PTL DEF Spec

-----------------------------------------------------------------------------
(* Counting, folds and orders.                                               *)

\* A set that has 0 and, below n, the successor of whatever it has.
LEMMA CountUp ==
    ASSUME NEW n \in Nat, NEW S, 0 \in S, \A k \in 0 .. n - 1 : k \in S => k + 1 \in S
    PROVE  \A k \in 0 .. n : k \in S
  <1> SUFFICES ASSUME NEW k \in 0 .. n, k \notin S PROVE FALSE
    OBVIOUS
  <1> DEFINE Bad == {j \in 0 .. n : j \notin S}
  <1>1. Bad \subseteq Nat /\ Bad # {}
    OBVIOUS
  <1>2. PICK m \in Bad : \A j \in Bad : m <= j
    BY <1>1, LeastElement
  <1>3. m # 0 /\ m - 1 \in 0 .. n - 1 /\ m - 1 \notin Bad
    BY <1>2
  <1> QED BY <1>3

LEMMA GreatestElement ==
    ASSUME NEW n \in Nat, NEW S, S \subseteq 0 .. n, S # {}
    PROVE  Max(S) \in S /\ \A y \in S : y <= Max(S)
  <1> DEFINE Down == {n - x : x \in S}
  <1>0. \A x \in S : n - x \in Nat /\ n - x \in Down
    OBVIOUS
  <1>1. Down \subseteq Nat /\ Down # {}
    BY <1>0
  <1>2. PICK m \in Down : \A d \in Down : m <= d
    BY <1>1, LeastElement
  <1>3. PICK x \in S : m = n - x
    OBVIOUS
  <1>4. \A y \in S : n - y \in Down /\ y \in Int /\ x \in Int
    OBVIOUS
  <1> HIDE DEF Down
  <1>5. \A y \in S : x >= y
    BY <1>2, <1>3, <1>4
  <1>6. \A a, b \in Int : a >= b <=> b <= a
    OBVIOUS
  <1>7. Max(S) \in S /\ \A y \in S : Max(S) >= y
    BY <1>5 DEF Max
  <1> QED BY <1>4, <1>6, <1>7

\* The indices up to the k-th.
LEMMA UpTo ==
    ASSUME NEW n \in Nat, NEW k \in 1 .. n
    PROVE  /\ 1 .. k \in SUBSET (1 .. n) /\ 1 .. k # {} /\ Max(1 .. k) = k
           /\ (1 .. k) \ {k} = 1 .. k - 1
  <1>1. 1 .. k \subseteq 0 .. n /\ k \in 1 .. k
    OBVIOUS
  <1>2. Max(1 .. k) \in 1 .. k /\ k <= Max(1 .. k)
    BY <1>1, GreatestElement
  <1> QED BY <1>2

\* What FoldLeft folds with: the index set is taken apart at its maximum.
FoldStep(g, s, base, F) == IF s = {} THEN base ELSE F[<<g[s \ {Max(s)}], Max(s)>>]
IsStep(F, T, n) == F \in [T \X (1 .. n) -> T]
IsFold(g, F, base, T, n) ==
    /\ g \in [SUBSET (1 .. n) -> T]
    /\ \A s \in SUBSET (1 .. n) : g[s] = FoldStep(g, s, base, F)

\* The results after the first k elements.
IsRun(h, F, base, T, n) ==
    /\ h \in [0 .. n -> T] /\ h[0] = base
    /\ \A k \in 1 .. n : h[k] = F[<<h[k - 1], k>>]

LEMMA BelowMax ==
    ASSUME NEW n \in Nat, NEW k \in 0 .. n, NEW s \in SUBSET (1 .. k), s # {}
    PROVE  /\ Max(s) \in 1 .. k /\ Max(s) \in 1 .. n /\ s \in SUBSET (1 .. n)
           /\ s \ {Max(s)} \in SUBSET (1 .. k - 1) /\ s \ {Max(s)} \in SUBSET (1 .. n)
  <1>1. s \subseteq 0 .. n
    OBVIOUS
  <1>2. PICK m \in s : m = Max(s) /\ \A y \in s : y <= m
    BY <1>1, GreatestElement
  <1>3. m \in 1 .. k /\ m \in 1 .. n /\ s \in SUBSET (1 .. n) /\ s \ {m} \in SUBSET (1 .. n)
    OBVIOUS
  <1>4. ASSUME NEW y \in s \ {m} PROVE y \in 1 .. k - 1
    <2>1. y \in 1 .. k /\ y <= m /\ y # m
      BY <1>2
    <2> QED BY <1>3, <2>1
  <1> QED BY <1>2, <1>3, <1>4

\* Such a fold exists, whatever is folded.
LEMMA FoldExists ==
    ASSUME NEW n \in Nat, NEW T, NEW base \in T, NEW F, IsStep(F, T, n)
    PROVE  \E g : IsFold(g, F, base, T, n)
  <1> DEFINE G == [SUBSET (1 .. n) -> T]
             Good == {k \in 0 .. n : \E g \in G :
                         \A s \in SUBSET (1 .. k) : g[s] = FoldStep(g, s, base, F)}
  <1>1. 0 \in Good
    <2> DEFINE g == [s \in SUBSET (1 .. n) |-> base]
    <2>1. g \in G
      OBVIOUS
    <2>2. ASSUME NEW s \in SUBSET (1 .. 0) PROVE g[s] = FoldStep(g, s, base, F)
      <3>1. s = {} /\ s \in SUBSET (1 .. n)
        OBVIOUS
      <3>2. g[s] = base
        BY <3>1
      <3> HIDE DEF g
      <3> QED BY <3>1, <3>2 DEF FoldStep
    <2> HIDE DEF g, G
    <2>3. \E f \in G : \A s \in SUBSET (1 .. 0) : f[s] = FoldStep(f, s, base, F)
      BY <2>1, <2>2
    <2> QED BY <2>3
  <1>2. ASSUME NEW k \in 0 .. n - 1, k \in Good PROVE k + 1 \in Good
    <2>1. PICK g \in G : \A s \in SUBSET (1 .. k) : g[s] = FoldStep(g, s, base, F)
      BY <1>2
    <2> DEFINE h == [s \in SUBSET (1 .. n) |-> FoldStep(g, s, base, F)]
    <2>2. ASSUME NEW s \in SUBSET (1 .. n) PROVE FoldStep(g, s, base, F) \in T
      <3>1. CASE s = {}
        BY <3>1 DEF FoldStep
      <3>2. CASE s # {}
        <4>1. Max(s) \in 1 .. n /\ s \ {Max(s)} \in SUBSET (1 .. n)
          BY <3>2, BelowMax
        <4>2. g[s \ {Max(s)}] \in T
          BY <4>1
        <4>3. <<g[s \ {Max(s)}], Max(s)>> \in T \X (1 .. n)
          BY <4>1, <4>2
        <4>4. F[<<g[s \ {Max(s)}], Max(s)>>] \in T
          BY <4>3 DEF IsStep
        <4> QED BY <3>2, <4>4 DEF FoldStep
      <3> QED BY <3>1, <3>2
    <2>3. h \in G
      BY <2>2
    <2>4. ASSUME NEW s \in SUBSET (1 .. k + 1) PROVE h[s] = FoldStep(h, s, base, F)
      <3>0. k + 1 \in 0 .. n /\ s \in SUBSET (1 .. n)
        OBVIOUS
      <3>a. h[s] = FoldStep(g, s, base, F)
        BY <3>0
      <3>1. CASE s = {}
        <4> HIDE DEF h
        <4> QED BY <3>1, <3>a DEF FoldStep
      <3>2. CASE s # {}
        <4>1. s \ {Max(s)} \in SUBSET (1 .. k) /\ s \ {Max(s)} \in SUBSET (1 .. n)
          <5>1. s \ {Max(s)} \in SUBSET (1 .. (k + 1) - 1) /\ s \ {Max(s)} \in SUBSET (1 .. n)
            BY <3>0, <3>2, BelowMax
          <5>2. (k + 1) - 1 = k
            OBVIOUS
          <5> QED BY <5>1, <5>2
        <4>2. h[s \ {Max(s)}] = g[s \ {Max(s)}]
          BY <4>1, <2>1
        <4> HIDE DEF h
        <4> QED BY <3>a, <3>2, <4>2 DEF FoldStep
      <3> QED BY <3>1, <3>2
    <2> HIDE DEF h, G
    <2>5. \E f \in G : \A s \in SUBSET (1 .. k + 1) : f[s] = FoldStep(f, s, base, F)
      BY <2>3, <2>4
    <2>6. k + 1 \in 0 .. n
      OBVIOUS
    <2> QED BY <2>5, <2>6
  <1>3. n \in Good
    <2> HIDE DEF Good
    <2> QED BY <1>1, <1>2, CountUp
  <1> QED BY <1>3 DEF IsFold

LEMMA FoldRuns ==
    ASSUME NEW n \in Nat, NEW T, NEW base \in T, NEW F, IsStep(F, T, n), NEW iter,
           iter[1 .. 0] = base,
           \A k \in 1 .. n : iter[1 .. k - 1] \in T => iter[1 .. k] = F[<<iter[1 .. k - 1], k>>]
    PROVE  \E h : IsRun(h, F, base, T, n) /\ iter[1 .. n] = h[n]
  <1> DEFINE Good == {k \in 0 .. n : iter[1 .. k] \in T}
             h == [k \in 0 .. n |-> iter[1 .. k]]
  <1>1. 0 \in Good
    OBVIOUS
  <1>2. ASSUME NEW k \in 0 .. n - 1, k \in Good PROVE k + 1 \in Good
    <2>1. k + 1 \in 1 .. n /\ (k + 1) - 1 = k
      OBVIOUS
    <2>2. iter[1 .. k + 1] = F[<<iter[1 .. k], k + 1>>]
      BY <1>2, <2>1
    <2>3. <<iter[1 .. k], k + 1>> \in T \X (1 .. n)
      BY <1>2, <2>1
    <2> QED BY <2>1, <2>2, <2>3 DEF IsStep
  <1>3. \A k \in 0 .. n : k \in Good
    <2> HIDE DEF Good
    <2> QED BY <1>1, <1>2, CountUp
  <1>4. h \in [0 .. n -> T] /\ h[0] = base /\ iter[1 .. n] = h[n]
    BY <1>3
  <1>5. ASSUME NEW k \in 1 .. n PROVE h[k] = F[<<h[k - 1], k>>]
    <2>1. k \in 0 .. n /\ k - 1 \in 0 .. n
      OBVIOUS
    <2>2. iter[1 .. k - 1] \in T
      BY <1>3, <2>1
    <2>3. iter[1 .. k] = F[<<iter[1 .. k - 1], k>>]
      BY <2>2
    <2>4. h[k] = iter[1 .. k] /\ h[k - 1] = iter[1 .. k - 1]
      BY <2>1
    <2> QED BY <2>3, <2>4
  <1> HIDE DEF h
  <1> QED BY <1>4, <1>5 DEF IsRun

-----------------------------------------------------------------------------
(* The log.                                                                  *)

Kinds == {"plain", "txn"} \cup Markers
Batches == [base : Nat, last : Nat, pid : Int, kind : Kinds]

\* Offsets only go up, and what is transactional has a producer.
Chained(l) ==
    /\ l \in Seq(Batches)
    /\ \A i \in 1 .. Len(l) : /\ l[i].base <= l[i].last
                              /\ l[i].kind # "plain" => l[i].pid >= 0
    /\ \A i, j \in 1 .. Len(l) : i < j => l[i].last < l[j].base

\* Log m is log l with more at its end.
Extends(l, m) ==
    /\ Len(l) <= Len(m)
    /\ \A i \in 1 .. Len(l) : m[i] = l[i]
    /\ \A i \in 1 .. Len(m) : i > Len(l) => End(l) <= m[i].base
    /\ End(l) <= End(m)

LEMMA SeqFacts ==
    ASSUME NEW S, NEW l \in Seq(S)
    PROVE  /\ Len(l) \in Nat /\ DOMAIN l = 1 .. Len(l)
           /\ \A i \in 1 .. Len(l) : l[i] \in S
           /\ l = <<>> <=> Len(l) = 0
           /\ l # <<>> => Len(l) \in 1 .. Len(l)
  OBVIOUS

LEMMA BatchFields ==
    ASSUME NEW b \in Batches
    PROVE  b.base \in Nat /\ b.last \in Nat /\ b.pid \in Int /\ b.kind \in Kinds
  BY DEF Batches

LEMMA EndIsNat ==
    ASSUME NEW l \in Seq(Batches)
    PROVE  End(l) \in Nat
  <1>1. CASE l = <<>>
    BY <1>1 DEF End
  <1>2. CASE l # <<>>
    <2>1. Last(l) \in Batches
      BY <1>2, SeqFacts DEF Last
    <2> QED BY <1>2, <2>1, BatchFields DEF End
  <1> QED BY <1>1, <1>2

LEMMA EndIsPast ==
    ASSUME NEW l, Chained(l), NEW i \in 1 .. Len(l)
    PROVE  l[i].base < End(l) /\ l[i].last < End(l)
  <1>1. l \in Seq(Batches) /\ l # <<>>
    BY DEF Chained
  <1>2. Len(l) \in Nat /\ Len(l) \in 1 .. Len(l) /\ \A j \in 1 .. Len(l) : l[j] \in Batches
    BY <1>1, SeqFacts
  <1>3. End(l) = l[Len(l)].last + 1
    BY <1>1 DEF End, Last
  <1>4. /\ l[i].base <= l[i].last /\ l[Len(l)].base <= l[Len(l)].last
        /\ i = Len(l) \/ l[i].last < l[Len(l)].base
    BY <1>2 DEF Chained
  <1>5. /\ l[i].base \in Nat /\ l[i].last \in Nat
        /\ l[Len(l)].base \in Nat /\ l[Len(l)].last \in Nat
    BY <1>2, BatchFields
  <1> QED BY <1>3, <1>4, <1>5

LEMMA WrittenFields ==
    ASSUME NEW b \in Written
    PROVE  /\ b.len \in Nat /\ b.len >= 1 /\ b.pid \in Int /\ b.kind \in Kinds
           /\ b.kind # "plain" => b.pid >= 0
  BY DEF Written, Kinds

LEMMA AppendedType ==
    ASSUME NEW l \in Seq(Batches), NEW b \in Written
    PROVE  /\ Appended(l, b) \in Seq(Batches) /\ Len(Appended(l, b)) = Len(l) + 1
           /\ \A i \in 1 .. Len(l) : Appended(l, b)[i] = l[i]
           /\ Appended(l, b)[Len(l) + 1] =
                 [base |-> End(l), last |-> End(l) + b.len - 1, pid |-> b.pid, kind |-> b.kind]
           /\ End(Appended(l, b)) = End(l) + b.len
  <1> DEFINE r == [base |-> End(l), last |-> End(l) + b.len - 1, pid |-> b.pid, kind |-> b.kind]
  <1>1. End(l) \in Nat /\ b.len \in Nat /\ b.len >= 1 /\ b.pid \in Int /\ b.kind \in Kinds
    BY EndIsNat, WrittenFields
  <1>2. r \in Batches /\ r.last + 1 = End(l) + b.len
    BY <1>1 DEF Batches
  <1>3. Appended(l, b) = Append(l, r)
    BY DEF Appended
  <1> HIDE DEF r
  <1>4. /\ Append(l, r) \in Seq(Batches) /\ Len(Append(l, r)) = Len(l) + 1
        /\ \A i \in 1 .. Len(l) : Append(l, r)[i] = l[i]
        /\ Append(l, r)[Len(l) + 1] = r /\ Append(l, r) # <<>>
    BY <1>2
  <1>5. End(Append(l, r)) = End(l) + b.len
    BY <1>2, <1>4 DEF End, Last
  <1> QED BY <1>3, <1>4, <1>5 DEF r

LEMMA AppendedChained ==
    ASSUME NEW l, Chained(l), NEW b \in Written
    PROVE  Chained(Appended(l, b)) /\ Extends(l, Appended(l, b))
  <1>1. PICK m : m = Appended(l, b)
    OBVIOUS
  <1>2. PICK r : r = [base |-> End(l), last |-> End(l) + b.len - 1, pid |-> b.pid, kind |-> b.kind]
    OBVIOUS
  <1>3. PICK n \in Nat : n = Len(l)
    BY SeqFacts DEF Chained
  <1>4. /\ m \in Seq(Batches) /\ Len(m) = n + 1 /\ m[n + 1] = r
        /\ \A i \in 1 .. n : m[i] = l[i]
        /\ End(m) = End(l) + b.len
    BY <1>1, <1>2, <1>3, AppendedType DEF Chained
  <1>5. /\ End(l) \in Nat /\ b.len \in Nat /\ b.len >= 1
        /\ b.kind # "plain" => b.pid >= 0
    BY EndIsNat, WrittenFields DEF Chained
  <1>6. r.base = End(l) /\ r.base <= r.last /\ (r.kind # "plain" => r.pid >= 0)
    BY <1>2, <1>5
  <1>7. ASSUME NEW i \in 1 .. n + 1 PROVE i \in 1 .. n \/ i = n + 1
    OBVIOUS
  <1>8. \A i \in 1 .. n : /\ l[i].base <= l[i].last /\ l[i].last < End(l)
                          /\ l[i].kind # "plain" => l[i].pid >= 0
    BY <1>3, EndIsPast DEF Chained
  <1>9. \A i \in 1 .. Len(m) : m[i].base <= m[i].last /\ (m[i].kind # "plain" => m[i].pid >= 0)
    BY <1>4, <1>6, <1>7, <1>8
  <1>10. ASSUME NEW i \in 1 .. n + 1, NEW j \in 1 .. n + 1, i < j
         PROVE  m[i].last < m[j].base
    <2>1. i \in 1 .. n
      BY <1>10
    <2>2. CASE j \in 1 .. n
      BY <2>1, <2>2, <1>3, <1>4, <1>10 DEF Chained
    <2>3. CASE j = n + 1
      BY <2>1, <2>3, <1>4, <1>6, <1>8
    <2> QED BY <1>7, <2>2, <2>3
  <1>11. Chained(m)
    BY <1>4, <1>9, <1>10 DEF Chained
  <1>12. Extends(l, m)
    <2>1. \A i \in 1 .. Len(m) : i > Len(l) => i = n + 1
      BY <1>3, <1>4
    <2>2. \A i \in 1 .. Len(m) : i > Len(l) => End(l) <= m[i].base
      BY <2>1, <1>4, <1>5, <1>6
    <2> QED BY <2>2, <1>3, <1>4, <1>5 DEF Extends
  <1> QED BY <1>1, <1>11, <1>12

LEMMA ExtendsIsTransitive ==
    ASSUME NEW l, NEW m, NEW k, Chained(l), Chained(m), Chained(k), Extends(l, m), Extends(m, k)
    PROVE  Extends(l, k)
  <1>1. PICK x, y, z \in Nat : x = Len(l) /\ y = Len(m) /\ z = Len(k)
    BY SeqFacts DEF Chained
  <1>2. End(l) \in Nat /\ End(m) \in Nat /\ End(k) \in Nat
    BY EndIsNat DEF Chained
  <1>3. x <= y /\ y <= z /\ End(l) <= End(m) /\ End(m) <= End(k)
    BY <1>1 DEF Extends
  <1>4. \A i \in 1 .. x : k[i] = l[i]
    BY <1>1, <1>3 DEF Extends
  <1>5. ASSUME NEW i \in 1 .. z, i > x PROVE End(l) <= k[i].base
    <2>1. CASE i <= y
      BY <2>1, <1>1, <1>5 DEF Extends
    <2>2. CASE i > y
      <3>1. End(m) <= k[i].base
        BY <2>2, <1>1 DEF Extends
      <3>2. k[i].base \in Nat
        BY <1>1, SeqFacts, BatchFields DEF Chained
      <3> QED BY <3>1, <3>2, <1>2, <1>3
    <2> QED BY <2>1, <2>2, <1>1
  <1> QED BY <1>1, <1>2, <1>3, <1>4, <1>5 DEF Extends

LEMMA ExtendsItself ==
    ASSUME NEW l, Chained(l)
    PROVE  Extends(l, l)
  <1>1. Len(l) \in Nat /\ End(l) \in Nat
    BY SeqFacts, EndIsNat DEF Chained
  <1> QED BY <1>1 DEF Extends

\* What the leader's fold over a portion computes, batch by batch.
LEMMA AppendedFold ==
    ASSUME NEW l \in Seq(Batches), NEW w \in Seq(Written)
    PROVE  \E h \in [0 .. Len(w) -> Seq(Batches)] :
              /\ h[0] = l /\ FoldLeft(Appended, l, w) = h[Len(w)]
              /\ \A k \in 1 .. Len(w) : h[k] = Appended(h[k - 1], w[k])
  <1> DEFINE T == Seq(Batches)
             n == Len(w)
             Step1(g, s) == IF s = {} THEN l ELSE Appended(g[s \ {Max(s)}], w[Max(s)])
             F == [p \in T \X (1 .. n) |-> Appended(p[1], w[p[2]])]
             iter == CHOOSE g : g = [s \in SUBSET (1 .. n) |-> Step1(g, s)]
  <1>1. n \in Nat /\ DOMAIN w = 1 .. n /\ \A k \in 1 .. n : w[k] \in Written
    BY SeqFacts
  <1>2. FoldLeft(Appended, l, w) = iter[1 .. n]
    BY <1>1 DEF FoldLeft, MapThenFoldSet
  <1> HIDE DEF T, n
  <1>3. ASSUME NEW x \in T, NEW k \in 1 .. n
        PROVE  Appended(x, w[k]) \in T /\ <<x, k>> \in T \X (1 .. n)
    BY <1>1, AppendedType DEF T
  <1>4. IsStep(F, T, n) /\ \A x \in T, k \in 1 .. n : F[<<x, k>>] = Appended(x, w[k])
    BY <1>3 DEF IsStep
  <1> HIDE DEF F
  <1>a. n \in Nat /\ l \in T
    BY <1>1 DEF T
  <1>5. PICK g : IsFold(g, F, l, T, n)
    <2> HIDE DEF iter, Step1
    <2> QED BY <1>a, <1>4, FoldExists
  <1>6. ASSUME NEW s \in SUBSET (1 .. n) PROVE g[s] = Step1(g, s)
    <2>1. CASE s = {}
      BY <1>5, <2>1 DEF FoldStep, IsFold
    <2>2. CASE s # {}
      <3>1. n \in 0 .. n
        BY <1>1
      <3>2. Max(s) \in 1 .. n /\ s \ {Max(s)} \in SUBSET (1 .. n)
        BY <2>2, <3>1, <1>1, BelowMax
      <3>3. g[s \ {Max(s)}] \in T
        BY <3>2, <1>5 DEF IsFold
      <3>4. F[<<g[s \ {Max(s)}], Max(s)>>] = Appended(g[s \ {Max(s)}], w[Max(s)])
        BY <3>2, <3>3, <1>4
      <3>5. g[s] = F[<<g[s \ {Max(s)}], Max(s)>>]
        BY <1>5, <2>2 DEF FoldStep, IsFold
      <3> QED BY <2>2, <3>4, <3>5
    <2> QED BY <2>1, <2>2
  <1>7. g = [s \in SUBSET (1 .. n) |-> Step1(g, s)]
    BY <1>5, <1>6 DEF IsFold
  <1>8. iter = [s \in SUBSET (1 .. n) |-> Step1(iter, s)]
    <2> HIDE DEF Step1
    <2> QED BY <1>7
  <1> HIDE DEF iter
  <1>9. iter[1 .. 0] = l
    <2>1. 1 .. 0 = {} /\ 1 .. 0 \in SUBSET (1 .. n)
      OBVIOUS
    <2>2. iter[1 .. 0] = Step1(iter, 1 .. 0)
      BY <1>8, <2>1
    <2> QED BY <2>1, <2>2
  <1>10. ASSUME NEW k \in 1 .. n, iter[1 .. k - 1] \in T
         PROVE  iter[1 .. k] = F[<<iter[1 .. k - 1], k>>]
    <2>1. 1 .. k \in SUBSET (1 .. n) /\ 1 .. k # {} /\ Max(1 .. k) = k /\ (1 .. k) \ {k} = 1 .. k - 1
      BY <1>1, UpTo
    <2>2. iter[1 .. k] = Step1(iter, 1 .. k)
      BY <1>8, <2>1
    <2>3. Step1(iter, 1 .. k) = Appended(iter[1 .. k - 1], w[k])
      BY <2>1
    <2> QED BY <2>2, <2>3, <1>4, <1>10
  <1>11. PICK h : IsRun(h, F, l, T, n) /\ iter[1 .. n] = h[n]
    <2>1. \A k \in 1 .. n : iter[1 .. k - 1] \in T => iter[1 .. k] = F[<<iter[1 .. k - 1], k>>]
      BY <1>10
    <2> HIDE DEF Step1
    <2> QED BY <2>1, <1>a, <1>4, <1>9, FoldRuns
  <1>12. h \in [0 .. n -> T] /\ h[0] = l /\ \A k \in 1 .. n : h[k] = F[<<h[k - 1], k>>]
    BY <1>11 DEF IsRun
  <1>13. ASSUME NEW k \in 1 .. n PROVE h[k] = Appended(h[k - 1], w[k])
    <2>1. k - 1 \in 0 .. n
      BY <1>1
    <2>2. h[k - 1] \in T
      BY <2>1, <1>12
    <2> QED BY <2>2, <1>12, <1>4
  <1> QED BY <1>2, <1>11, <1>12, <1>13 DEF T, n

\* A portion of the history is appended.
LEMMA PortionAppended ==
    ASSUME NEW l, Chained(l), NEW w \in Seq(Written)
    PROVE  Chained(FoldLeft(Appended, l, w)) /\ Extends(l, FoldLeft(Appended, l, w))
  <1>0. l \in Seq(Batches)
    BY DEF Chained
  <1>1. PICK h \in [0 .. Len(w) -> Seq(Batches)] :
              /\ h[0] = l /\ FoldLeft(Appended, l, w) = h[Len(w)]
              /\ \A k \in 1 .. Len(w) : h[k] = Appended(h[k - 1], w[k])
    BY <1>0, AppendedFold
  <1> DEFINE Good == {k \in 0 .. Len(w) : Chained(h[k]) /\ Extends(l, h[k])}
  <1>2. Len(w) \in Nat /\ \A k \in 1 .. Len(w) : w[k] \in Written
    BY SeqFacts
  <1>3. 0 \in Good
    BY <1>1, <1>2, ExtendsItself
  <1>4. ASSUME NEW k \in 0 .. Len(w) - 1, k \in Good PROVE k + 1 \in Good
    <2>1. k + 1 \in 1 .. Len(w) /\ k + 1 \in 0 .. Len(w) /\ (k + 1) - 1 = k
      BY <1>2
    <2>2. h[k + 1] = Appended(h[k], w[k + 1]) /\ w[k + 1] \in Written
      BY <1>1, <1>2, <2>1
    <2>3. Chained(h[k]) /\ Extends(l, h[k])
      BY <1>4
    <2>4. Chained(h[k + 1]) /\ Extends(h[k], h[k + 1])
      BY <2>2, <2>3, AppendedChained
    <2>5. Extends(l, h[k + 1])
      BY <2>3, <2>4, ExtendsIsTransitive
    <2> QED BY <2>1, <2>4, <2>5
  <1>5. Len(w) \in Good
    <2> HIDE DEF Good
    <2>1. \A k \in 0 .. Len(w) : k \in Good
      BY <1>2, <1>3, <1>4, CountUp
    <2> QED BY <2>1, <1>2
  <1> QED BY <1>1, <1>5

-----------------------------------------------------------------------------
(* Transactions in the log.                                                  *)

\* Batch j ends the transaction of producer q.
Ends(l, j, q) == l[j].pid = q /\ l[j].kind \in Markers

LEMMA DecidedFacts ==
    ASSUME NEW l \in Seq(Batches), NEW i \in 1 .. Len(l)
    PROVE  /\ Decided(l, i) \in Nat
           /\ Decided(l, i) # 0 => /\ Decided(l, i) \in i + 1 .. Len(l)
                                   /\ Ends(l, Decided(l, i), l[i].pid)
           /\ \A j \in i + 1 .. Len(l) :
                 Ends(l, j, l[i].pid) => Decided(l, i) # 0 /\ Decided(l, i) <= j
  <1> DEFINE after == {j \in i + 1 .. Len(l) : l[j].pid = l[i].pid /\ l[j].kind \in Markers}
  <1>0. Len(l) \in Nat
    BY SeqFacts
  <1>1. after \subseteq Nat /\ \A j \in after : j # 0
    BY <1>0
  <1>2. Decided(l, i) = IF after = {} THEN 0 ELSE Min(after)
    BY DEF Decided
  <1>3. \A j \in i + 1 .. Len(l) : Ends(l, j, l[i].pid) <=> j \in after
    BY DEF Ends
  <1>4. after # {} => Min(after) \in after /\ \A j \in after : Min(after) <= j
    BY <1>1, LeastElement
  <1>5. \A j \in after : j \in i + 1 .. Len(l)
    OBVIOUS
  <1> HIDE DEF after
  <1>6. CASE after = {}
    BY <1>2, <1>3, <1>6
  <1>7. CASE after # {}
    <2>1. PICK d \in after : d = Decided(l, i) /\ \A j \in after : d <= j
      BY <1>2, <1>4, <1>7
    <2>2. d \in Nat /\ d # 0 /\ d \in i + 1 .. Len(l) /\ Ends(l, d, l[i].pid)
      BY <1>1, <1>3, <1>5
    <2> QED BY <2>1, <2>2, <1>3
  <1> QED BY <1>6, <1>7

\* Batches of a producer with no marker of its between them share their fate.
LEMMA SameDecision ==
    ASSUME NEW l \in Seq(Batches), NEW i \in 1 .. Len(l), NEW j \in 1 .. i,
           l[j].pid = l[i].pid, \A x \in j + 1 .. i : ~Ends(l, x, l[i].pid)
    PROVE  Decided(l, j) = Decided(l, i)
  <1>0. Len(l) \in Nat /\ j \in 1 .. Len(l)
    BY SeqFacts
  <1>1. PICK d \in Nat : d = Decided(l, i)
    BY DecidedFacts
  <1>2. PICK e \in Nat : e = Decided(l, j)
    BY <1>0, DecidedFacts
  <1>3. /\ d # 0 => d \in i + 1 .. Len(l) /\ Ends(l, d, l[i].pid)
        /\ \A x \in i + 1 .. Len(l) : Ends(l, x, l[i].pid) => d # 0 /\ d <= x
    BY <1>1, DecidedFacts
  <1>4. /\ e # 0 => e \in j + 1 .. Len(l) /\ Ends(l, e, l[i].pid)
        /\ \A x \in j + 1 .. Len(l) : Ends(l, x, l[i].pid) => e # 0 /\ e <= x
    BY <1>0, <1>2, DecidedFacts
  <1>5. d # 0 => e # 0 /\ e <= d
    BY <1>0, <1>3, <1>4
  <1>6. e # 0 => d # 0 /\ d <= e
    <2> SUFFICES ASSUME e # 0 PROVE d # 0 /\ d <= e
      OBVIOUS
    <2>1. e \in j + 1 .. Len(l) /\ Ends(l, e, l[i].pid)
      BY <1>4
    <2>2. e \notin j + 1 .. i
      BY <2>1
    <2>3. e \in i + 1 .. Len(l)
      BY <1>0, <2>1, <2>2
    <2> QED BY <2>1, <2>3, <1>3
  <1> QED BY <1>1, <1>2, <1>5, <1>6

\* Every transactional batch belongs to a transaction that some batch opened.
LEMMA OpenerOf ==
    ASSUME NEW l \in Seq(Batches), NEW i \in 1 .. Len(l), l[i].kind = "txn"
    PROVE  \E j \in Openers(l) :
              /\ j \in 1 .. i /\ l[j].pid = l[i].pid /\ Decided(l, j) = Decided(l, i)
              /\ \A x \in j + 1 .. i : ~Ends(l, x, l[i].pid)
  <1> DEFINE S == {j \in 1 .. i : /\ l[j].kind = "txn" /\ l[j].pid = l[i].pid
                                  /\ \A x \in j + 1 .. i : ~Ends(l, x, l[i].pid)}
  <1>0. Len(l) \in Nat /\ DOMAIN l = 1 .. Len(l)
    BY SeqFacts
  <1>1. S \subseteq Nat /\ i \in S
    OBVIOUS
  <1>2. PICK j \in S : \A x \in S : j <= x
    BY <1>1, LeastElement
  <1>3. /\ j \in 1 .. i /\ l[j].kind = "txn" /\ l[j].pid = l[i].pid
        /\ \A x \in j + 1 .. i : ~Ends(l, x, l[i].pid)
    OBVIOUS
  <1>4. ASSUME NEW k \in 1 .. j - 1, l[k].pid = l[j].pid, l[k].kind = "txn"
        PROVE  Decided(l, k) \in 1 .. j
    <2>1. k \in 1 .. i /\ k \in 1 .. Len(l) /\ k \notin S
      BY <1>0, <1>2, <1>3
    <2>2. PICK x \in k + 1 .. i : Ends(l, x, l[i].pid)
      BY <2>1, <1>3, <1>4
    <2>3. x \notin j + 1 .. i
      BY <2>2, <1>3
    <2>4. x \in k + 1 .. j /\ x \in k + 1 .. Len(l)
      BY <2>3, <1>0, <1>3
    <2>5. Decided(l, k) # 0 /\ Decided(l, k) <= x /\ Decided(l, k) \in Nat
      BY <2>1, <2>2, <2>4, <1>3, <1>4, DecidedFacts
    <2> QED BY <2>4, <2>5, <1>3
  <1>5. j \in Openers(l)
    BY <1>0, <1>3, <1>4 DEF Openers
  <1>6. Decided(l, j) = Decided(l, i)
    BY <1>3, SameDecision
  <1> QED BY <1>3, <1>5, <1>6

LEMMA OpenerFacts ==
    ASSUME NEW l \in Seq(Batches), NEW j \in Openers(l)
    PROVE  j \in 1 .. Len(l) /\ l[j].kind = "txn" /\ l[j].base \in Nat /\ l[j].pid \in Int
  BY SeqFacts, BatchFields DEF Openers

\* Below the last stable offset every transaction has been decided.
LEMMA StableFacts ==
    ASSUME NEW l, Chained(l)
    PROVE  /\ LastStable(l) \in Nat
           /\ \A i \in 1 .. Len(l) :
                 l[i].kind = "txn" /\ l[i].base < LastStable(l) => Decided(l, i) # 0
  <1> DEFINE Open == {j \in Openers(l) : Decided(l, j) = 0}
             S == {End(l)} \cup {l[i].base : i \in Open}
  <1>0. l \in Seq(Batches) /\ Len(l) \in Nat
    BY SeqFacts DEF Chained
  <1>1. S \subseteq Nat /\ S # {}
    BY <1>0, EndIsNat, OpenerFacts
  <1>2. LastStable(l) = Min(S)
    BY DEF LastStable
  <1>3. Min(S) \in Nat /\ \A x \in S : Min(S) <= x
    BY <1>1, LeastElement
  <1>4. ASSUME NEW i \in 1 .. Len(l), l[i].kind = "txn", l[i].base < Min(S), Decided(l, i) = 0
        PROVE  FALSE
    <2>1. PICK j \in Openers(l) : j \in 1 .. i /\ Decided(l, j) = 0
      BY <1>0, <1>4, OpenerOf
    <2>2. Min(S) <= l[j].base
      BY <2>1, <1>3
    <2>3. j \in 1 .. Len(l) /\ l[j] \in Batches /\ l[i] \in Batches
      BY <1>0, <2>1, SeqFacts
    <2>4. l[j].base \in Nat /\ l[i].base \in Nat /\ l[j].last \in Nat
      BY <2>3, BatchFields
    <2>5. i = j \/ (l[j].base <= l[j].last /\ l[j].last < l[i].base)
      BY <2>1, <2>3 DEF Chained
    <2> HIDE DEF S
    <2> QED BY <2>2, <2>4, <2>5, <1>3, <1>4
  <1> HIDE DEF S
  <1> QED BY <1>2, <1>3, <1>4

-----------------------------------------------------------------------------
(* The list of aborted transactions, and the order BatchFilter puts it in.   *)

Entries == [pid : Int, first : Nat]

\* A listing of a finite set leaves nothing out.
LEMMA ListingIsWhole ==
    ASSUME NEW S, IsFiniteSet(S), NEW f \in SetToSeqs(S)
    PROVE  /\ Cardinality(S) \in Nat /\ f \in [1 .. Cardinality(S) -> S]
           /\ \A i, j \in 1 .. Cardinality(S) : f[i] = f[j] => i = j
           /\ \A x \in S : \E i \in 1 .. Cardinality(S) : f[i] = x
  <1>1. PICK n \in Nat : n = Cardinality(S)
    BY FS_CardinalityType
  <1>2. f \in [1 .. n -> S] /\ \A i, j \in 1 .. n : f[i] = f[j] => i = j
    BY <1>1 DEF SetToSeqs
  <1>3. f \in Injection(1 .. n, S)
    BY <1>2 DEF Injection, IsInjective
  <1>4. Cardinality(1 .. n) = n
    BY FS_Interval
  <1>5. f \in Surjection(1 .. n, S)
    BY <1>1, <1>3, <1>4, FS_Injection
  <1>6. \A x \in S : \E i \in 1 .. n : f[i] = x
    BY <1>5 DEF Surjection
  <1> QED BY <1>1, <1>2, <1>6

LEMMA ShufflingIsWhole ==
    ASSUME NEW n \in Nat, NEW q \in SetToSeqs(1 .. n)
    PROVE  /\ q \in [1 .. n -> 1 .. n]
           /\ \A i, j \in 1 .. n : q[i] = q[j] => i = j
           /\ \A x \in 1 .. n : \E i \in 1 .. n : q[i] = x
  <1>1. IsFiniteSet(1 .. n) /\ Cardinality(1 .. n) = n
    BY FS_Interval
  <1>2. PICK S : S = 1 .. n
    OBVIOUS
  <1>3. IsFiniteSet(S) /\ q \in SetToSeqs(S) /\ Cardinality(S) = n
    BY <1>1, <1>2
  <1>4. /\ q \in [1 .. n -> S]
        /\ \A i, j \in 1 .. n : q[i] = q[j] => i = j
        /\ \A x \in S : \E i \in 1 .. n : q[i] = x
    BY <1>3, ListingIsWhole
  <1> QED BY <1>2, <1>4

\* Different keys can be put in order: every index goes to the place that the
\* number of keys up to its own says.
LEMMA SortExists ==
    ASSUME NEW n \in Nat, NEW key \in [1 .. n -> Nat],
           \A i, j \in 1 .. n : key[i] = key[j] => i = j
    PROVE  \E p \in SetToSeqs(1 .. n) : \A j, k \in 1 .. n : j < k => key[p[j]] <= key[p[k]]
  <1> DEFINE upTo(i) == {j \in 1 .. n : key[j] <= key[i]}
             rank == [i \in 1 .. n |-> Cardinality(upTo(i))]
  <1>1. IsFiniteSet(1 .. n) /\ Cardinality(1 .. n) = n
    BY FS_Interval
  <1>2. ASSUME NEW i \in 1 .. n
        PROVE  IsFiniteSet(upTo(i)) /\ Cardinality(upTo(i)) \in 1 .. n
    <2>1. upTo(i) \in SUBSET (1 .. n) /\ i \in upTo(i)
      OBVIOUS
    <2> HIDE DEF upTo
    <2>2. IsFiniteSet(upTo(i)) /\ Cardinality(upTo(i)) <= n
      BY <1>1, <2>1, FS_Subset
    <2>3. Cardinality(upTo(i)) \in Nat /\ Cardinality(upTo(i)) # 0
      BY <2>1, <2>2, FS_CardinalityType, FS_EmptySet
    <2> QED BY <2>2, <2>3
  <1>3. ASSUME NEW i \in 1 .. n, NEW j \in 1 .. n, key[i] < key[j]
        PROVE  Cardinality(upTo(i)) < Cardinality(upTo(j))
    <2>1. upTo(i) \in SUBSET upTo(j) /\ j \in upTo(j) /\ j \notin upTo(i)
      BY <1>3
    <2>2. IsFiniteSet(upTo(i)) /\ IsFiniteSet(upTo(j))
      BY <1>2
    <2>3. Cardinality(upTo(i)) \in Nat /\ Cardinality(upTo(j)) \in Nat
      BY <2>2, FS_CardinalityType
    <2> HIDE DEF upTo
    <2>4. /\ Cardinality(upTo(i)) <= Cardinality(upTo(j))
          /\ Cardinality(upTo(j)) = Cardinality(upTo(i)) => upTo(j) = upTo(i)
      BY <2>1, <2>2, FS_Subset
    <2> QED BY <2>1, <2>3, <2>4
  <1>4. /\ rank \in [1 .. n -> 1 .. n]
        /\ \A i, j \in 1 .. n : key[i] < key[j] => rank[i] < rank[j]
    BY <1>2, <1>3
  <1> HIDE DEF rank, upTo
  <1>5. \A i, j \in 1 .. n : rank[i] = rank[j] => i = j
    <2> SUFFICES ASSUME NEW i \in 1 .. n, NEW j \in 1 .. n, i # j PROVE rank[i] # rank[j]
      OBVIOUS
    <2>1. key[i] # key[j] /\ key[i] \in Nat /\ key[j] \in Nat
      OBVIOUS
    <2>2. key[i] < key[j] \/ key[j] < key[i]
      BY <2>1
    <2>3. rank[i] < rank[j] \/ rank[j] < rank[i]
      BY <2>2, <1>4
    <2>4. rank[i] \in 1 .. n /\ rank[j] \in 1 .. n
      BY <1>4
    <2> QED BY <2>3, <2>4
  <1>6. rank \in SetToSeqs(1 .. n)
    BY <1>1, <1>4, <1>5 DEF SetToSeqs
  <1>7. \A k \in 1 .. n : \E i \in 1 .. n : rank[i] = k
    BY <1>6, ShufflingIsWhole
  <1> DEFINE p == [k \in 1 .. n |-> CHOOSE i \in 1 .. n : rank[i] = k]
  <1>8. p \in [1 .. n -> 1 .. n] /\ \A k \in 1 .. n : rank[p[k]] = k
    BY <1>7
  <1> HIDE DEF p
  <1>9. p \in SetToSeqs(1 .. n)
    BY <1>1, <1>8 DEF SetToSeqs
  <1>10. ASSUME NEW j \in 1 .. n, NEW k \in 1 .. n, j < k
         PROVE  key[p[j]] <= key[p[k]]
    <2>1. p[j] \in 1 .. n /\ p[k] \in 1 .. n /\ rank[p[j]] = j /\ rank[p[k]] = k
      BY <1>8
    <2>2. ~(key[p[k]] < key[p[j]])
      <3> SUFFICES ASSUME key[p[k]] < key[p[j]] PROVE FALSE
        OBVIOUS
      <3>1. rank[p[k]] < rank[p[j]]
        BY <2>1, <1>4
      <3>2. k < j
        BY <3>1, <2>1
      <3> QED BY <3>2, <1>10
    <2>3. key[p[k]] \in Nat /\ key[p[j]] \in Nat
      BY <2>1
    <2> QED BY <2>2, <2>3
  <1> QED BY <1>9, <1>10

LEMMA InOrderFacts ==
    ASSUME NEW a \in Seq(Entries), \A i, j \in 1 .. Len(a) : a[i].first = a[j].first => i = j
    PROVE  /\ InOrder(a) \in Seq(Entries) /\ Len(InOrder(a)) = Len(a)
           /\ \A j, k \in 1 .. Len(a) : j < k => InOrder(a)[j].first < InOrder(a)[k].first
           /\ \A i \in 1 .. Len(a) : \E k \in 1 .. Len(a) : InOrder(a)[k] = a[i]
           /\ \A k \in 1 .. Len(a) : \E i \in 1 .. Len(a) : InOrder(a)[k] = a[i]
  <1>1. PICK n \in Nat : n = Len(a) /\ DOMAIN a = 1 .. n /\ \A i \in 1 .. n : a[i] \in Entries
    BY SeqFacts
  <1>2. \A i \in 1 .. n : a[i].first \in Nat
    BY <1>1 DEF Entries
  <1> DEFINE key == [i \in 1 .. n |-> a[i].first]
             put(p) == [k \in 1 .. n |-> a[p[k]]]
             Sorted(s) == \A j, k \in DOMAIN s : j < k => s[j].first <= s[k].first
  <1>3. key \in [1 .. n -> Nat] /\ \A i, j \in 1 .. n : key[i] = key[j] => i = j
    BY <1>1, <1>2
  <1>4. PICK p \in SetToSeqs(1 .. n) : \A j, k \in 1 .. n : j < k => key[p[j]] <= key[p[k]]
    <2> HIDE DEF key
    <2> QED BY <1>3, SortExists
  <1>6. ASSUME NEW q \in SetToSeqs(1 .. n)
        PROVE  /\ q \in [1 .. n -> 1 .. n]
               /\ \A i, j \in 1 .. n : q[i] = q[j] => i = j
               /\ \A x \in 1 .. n : \E i \in 1 .. n : q[i] = x
    BY ShufflingIsWhole
  <1>7. Sorted(put(p))
    <2>1. p \in [1 .. n -> 1 .. n]
      BY <1>6
    <2>2. \A k \in 1 .. n : p[k] \in 1 .. n /\ key[p[k]] = a[p[k]].first
      BY <2>1
    <2>3. \A j, k \in 1 .. n : j < k => a[p[j]].first <= a[p[k]].first
      <3> HIDE DEF key
      <3> QED BY <2>2, <1>4
    <2> QED BY <2>3
  <1>8. PICK q \in SetToSeqs(1 .. n) : InOrder(a) = put(q) /\ Sorted(put(q))
    <2> DEFINE S == {put(q) : q \in SetToSeqs(1 .. n)}
    <2>1. InOrder(a) = CHOOSE s \in S : Sorted(s)
      BY <1>1 DEF InOrder
    <2>2. put(p) \in S
      BY <1>4
    <2> HIDE DEF Sorted
    <2>3. InOrder(a) \in S /\ Sorted(InOrder(a))
      <3> HIDE DEF S, put
      <3> QED BY <2>1, <2>2, <1>7
    <2> QED BY <2>3
  <1>9. PICK s : s = InOrder(a)
    OBVIOUS
  <1>10. /\ DOMAIN s = 1 .. n /\ \A k \in 1 .. n : q[k] \in 1 .. n /\ s[k] = a[q[k]]
         /\ \A j, k \in 1 .. n : j < k => s[j].first <= s[k].first
    BY <1>6, <1>8, <1>9
  <1>11. s \in Seq(Entries) /\ Len(s) = n
    <2>1. s = [k \in 1 .. n |-> a[q[k]]]
      BY <1>8, <1>9
    <2>2. \A k \in 1 .. n : a[q[k]] \in Entries
      BY <1>1, <1>10
    <2> QED BY <2>1, <2>2
  <1>12. ASSUME NEW j \in 1 .. n, NEW k \in 1 .. n, j < k
         PROVE  s[j].first < s[k].first
    <2>1. q[j] # q[k]
      BY <1>6, <1>12
    <2>2. s[j].first # s[k].first
      BY <2>1, <1>1, <1>10
    <2>3. s[j].first \in Nat /\ s[k].first \in Nat /\ s[j].first <= s[k].first
      BY <1>2, <1>10, <1>12
    <2> QED BY <2>2, <2>3
  <1>13. \A i \in 1 .. n : \E k \in 1 .. n : s[k] = a[i]
    <2> SUFFICES ASSUME NEW i \in 1 .. n PROVE \E k \in 1 .. n : s[k] = a[i]
      OBVIOUS
    <2>1. PICK k \in 1 .. n : q[k] = i
      BY <1>6
    <2> QED BY <2>1, <1>10
  <1>14. \A k \in 1 .. n : \E i \in 1 .. n : s[k] = a[i]
    BY <1>10
  <1> QED BY <1>1, <1>9, <1>11, <1>12, <1>13, <1>14

-----------------------------------------------------------------------------
(* What the filter and the loop over the batches compute, batch by batch.    *)

LEMMA SuffixFacts ==
    ASSUME NEW S, NEW s \in Seq(S), NEW n \in 0 .. Len(s)
    PROVE  /\ SubSeq(s, n + 1, Len(s)) \in Seq(S)
           /\ Len(SubSeq(s, n + 1, Len(s))) = Len(s) - n
           /\ \A i \in 1 .. Len(s) - n : SubSeq(s, n + 1, Len(s))[i] = s[n + i]
  <1>1. Len(s) \in Nat
    OBVIOUS
  <1>2. \A i \in 1 .. Len(s) - n : (n + 1) + i - 1 = n + i
    BY <1>1
  <1> QED BY <1>1, <1>2

LEMMA BegunFacts ==
    ASSUME NEW s \in Seq(Entries), NEW o \in Nat
    PROVE  /\ Begun(s, o) \in 0 .. Len(s)
           /\ \A j \in 1 .. Begun(s, o) : s[j].first <= o
           /\ Begun(s, o) < Len(s) => ~(s[Begun(s, o) + 1].first <= o)
  <1> DEFINE S == {0} \cup {k \in DOMAIN s : \A j \in 1 .. k : s[j].first <= o}
  <1>1. Len(s) \in Nat /\ DOMAIN s = 1 .. Len(s)
    BY SeqFacts
  <1>2. S \subseteq 0 .. Len(s) /\ S # {}
    BY <1>1
  <1>3. PICK n \in S : n = Max(S) /\ \A y \in S : y <= n
    <2> HIDE DEF S
    <2> QED BY <1>1, <1>2, GreatestElement
  <1>4. n = Begun(s, o)
    BY <1>3 DEF Begun
  <1>5. n \in 0 .. Len(s) /\ \A j \in 1 .. n : s[j].first <= o
    BY <1>1
  <1>6. ASSUME n < Len(s), s[n + 1].first <= o PROVE FALSE
    <2>1. n + 1 \in DOMAIN s
      BY <1>1, <1>5, <1>6
    <2>2. \A j \in 1 .. n + 1 : j \in 1 .. n \/ j = n + 1
      BY <1>5
    <2>3. n + 1 \in S
      BY <2>1, <2>2, <1>5, <1>6
    <2>4. n + 1 <= n
      BY <2>3, <1>3
    <2> QED BY <2>4, <1>5
  <1> QED BY <1>4, <1>5, <1>6

States == [aborted : Seq(Entries), disowned : SUBSET Int, kept : Seq(Batches)]

\* BatchFilter for the reader t.
Keep(t, f, b) == Filter(t \in Committed, f, b)
FilteredFor(t, batches, aborted) == Filtered(t \in Committed, batches, aborted)

\* How many aborted transactions batch b takes from the front of the list.
Taken(t, f, b) == IF t \in Committed /\ b.pid >= 0 THEN Begun(f.aborted, b.last) ELSE 0
DisownedBy(t, f, b) == f.disowned \cup {f.aborted[k].pid : k \in 1 .. Taken(t, f, b)}

LEMMA FilterLeaves ==
    ASSUME NEW t, NEW f, NEW b
    PROVE  Keep(t, f, b).aborted = SubSeq(f.aborted, Taken(t, f, b) + 1, Len(f.aborted))
  BY DEF Filter, Keep, Taken

LEMMA FilterDisowns ==
    ASSUME NEW t, NEW f, NEW b
    PROVE  Keep(t, f, b).disowned =
              IF t \in Committed /\ b.kind = "abort" THEN DisownedBy(t, f, b) \ {b.pid}
                                        ELSE DisownedBy(t, f, b)
  BY DEF Filter, Keep, Taken, DisownedBy

LEMMA FilterKeeps ==
    ASSUME NEW t, NEW f, NEW b
    PROVE  Keep(t, f, b).kept =
              IF \/ b.kind \in Markers
                 \/ (t \in Committed /\ b.kind = "txn" /\ b.pid \in DisownedBy(t, f, b))
              THEN f.kept ELSE Append(f.kept, b)
  BY DEF Filter, Keep, Taken, DisownedBy

LEMMA FilterIsWhole ==
    ASSUME NEW t, NEW f, NEW b
    PROVE  Keep(t, f, b) = [aborted  |-> Keep(t, f, b).aborted,
                            disowned |-> Keep(t, f, b).disowned,
                            kept     |-> Keep(t, f, b).kept]
  BY DEF Filter, Keep

LEMMA TakenFacts ==
    ASSUME NEW t, NEW f \in States, NEW b \in Batches
    PROVE  Taken(t, f, b) \in 0 .. Len(f.aborted)
  <1>1. f.aborted \in Seq(Entries) /\ b.last \in Nat /\ Len(f.aborted) \in Nat
    BY BatchFields DEF States
  <1>2. Begun(f.aborted, b.last) \in 0 .. Len(f.aborted)
    BY <1>1, BegunFacts
  <1> QED BY <1>1, <1>2 DEF Taken

LEMMA FilterType ==
    ASSUME NEW t, NEW f \in States, NEW b \in Batches
    PROVE  Keep(t, f, b) \in States
  <1>1. f.aborted \in Seq(Entries) /\ f.disowned \in SUBSET Int /\ f.kept \in Seq(Batches)
    BY DEF States
  <1>2. PICK n \in 0 .. Len(f.aborted) : n = Taken(t, f, b)
    BY TakenFacts
  <1>3. SubSeq(f.aborted, n + 1, Len(f.aborted)) \in Seq(Entries)
    BY <1>1, SuffixFacts
  <1>4. \A k \in 1 .. n : f.aborted[k].pid \in Int
    <2>1. \A k \in 1 .. n : f.aborted[k] \in Entries
      BY <1>1
    <2> QED BY <2>1 DEF Entries
  <1>5. DisownedBy(t, f, b) \in SUBSET Int
    <2>1. DisownedBy(t, f, b) = f.disowned \cup {f.aborted[k].pid : k \in 1 .. n}
      BY <1>2 DEF DisownedBy
    <2>2. \A x \in f.disowned : x \in Int
      BY <1>1
    <2> QED BY <2>1, <2>2, <1>4
  <1>6. Append(f.kept, b) \in Seq(Batches)
    BY <1>1
  <1>7. Keep(t, f, b).aborted \in Seq(Entries)
    BY <1>2, <1>3, FilterLeaves
  <1>8. Keep(t, f, b).disowned \in SUBSET Int
    <2>1. \/ Keep(t, f, b).disowned = DisownedBy(t, f, b)
          \/ Keep(t, f, b).disowned = DisownedBy(t, f, b) \ {b.pid}
      <3>1. Keep(t, f, b).disowned =
               IF t \in Committed /\ b.kind = "abort" THEN DisownedBy(t, f, b) \ {b.pid}
                                         ELSE DisownedBy(t, f, b)
        BY FilterDisowns
      <3>2. CASE t \in Committed /\ b.kind = "abort"
        BY <3>1, <3>2
      <3>3. CASE ~(t \in Committed /\ b.kind = "abort")
        BY <3>1, <3>3
      <3> QED BY <3>2, <3>3
    <2>2. DisownedBy(t, f, b) \ {b.pid} \in SUBSET Int
      <3> \A x \in DisownedBy(t, f, b) : x \in Int
        BY <1>5
      <3> QED BY Zenon
    <2>3. CASE Keep(t, f, b).disowned = DisownedBy(t, f, b)
      BY <2>3, <1>5
    <2>4. CASE Keep(t, f, b).disowned = DisownedBy(t, f, b) \ {b.pid}
      BY <2>4, <2>2
    <2> QED BY <2>1, <2>3, <2>4
  <1>9. Keep(t, f, b).kept \in Seq(Batches)
    <2>1. Keep(t, f, b).kept \in {f.kept, Append(f.kept, b)}
      BY FilterKeeps
    <2> QED BY <2>1, <1>1, <1>6
  <1>10. Keep(t, f, b) = [aborted  |-> Keep(t, f, b).aborted,
                             disowned |-> Keep(t, f, b).disowned,
                             kept     |-> Keep(t, f, b).kept]
    BY FilterIsWhole
  <1> QED BY <1>7, <1>8, <1>9, <1>10 DEF States

\* Where the filter begins.
Untouched(t, aborted) ==
    [aborted |-> IF t \in Committed THEN InOrder(aborted) ELSE <<>>, disowned |-> {}, kept |-> <<>>]

LEMMA FilterFold ==
    ASSUME NEW t, NEW a, Untouched(t, a) \in States, NEW w \in Seq(Batches)
    PROVE  \E h \in [0 .. Len(w) -> States] :
              /\ h[0] = Untouched(t, a) /\ FilteredFor(t, w, a) = h[Len(w)].kept
              /\ \A k \in 1 .. Len(w) : h[k] = Keep(t, h[k - 1], w[k])
  <1>0. PICK l \in States : l = Untouched(t, a)
    OBVIOUS
  <1> DEFINE T == States
             n == Len(w)
             Step1(g, s) == IF s = {} THEN l ELSE Keep(t, g[s \ {Max(s)}], w[Max(s)])
             F == [p \in T \X (1 .. n) |-> Keep(t, p[1], w[p[2]])]
             iter == CHOOSE g : g = [s \in SUBSET (1 .. n) |-> Step1(g, s)]
  <1>1. n \in Nat /\ DOMAIN w = 1 .. n /\ \A k \in 1 .. n : w[k] \in Batches
    BY SeqFacts
  <1>2. FilteredFor(t, w, a) = iter[1 .. n].kept
    BY <1>0, <1>1 DEF FoldLeft, MapThenFoldSet, FilteredFor, Filtered, Keep, Untouched
  <1> HIDE DEF T, n
  <1>3. ASSUME NEW x \in T, NEW k \in 1 .. n
        PROVE  Keep(t, x, w[k]) \in T /\ <<x, k>> \in T \X (1 .. n)
    BY <1>1, FilterType DEF T
  <1>4. IsStep(F, T, n) /\ \A x \in T, k \in 1 .. n : F[<<x, k>>] = Keep(t, x, w[k])
    BY <1>3 DEF IsStep
  <1> HIDE DEF F
  <1>a. n \in Nat /\ l \in T
    BY <1>1 DEF T
  <1>5. PICK g : IsFold(g, F, l, T, n)
    <2> HIDE DEF iter, Step1
    <2> QED BY <1>a, <1>4, FoldExists
  <1>6. ASSUME NEW s \in SUBSET (1 .. n) PROVE g[s] = Step1(g, s)
    <2>1. CASE s = {}
      BY <1>5, <2>1 DEF FoldStep, IsFold
    <2>2. CASE s # {}
      <3>1. n \in 0 .. n
        BY <1>1
      <3>2. Max(s) \in 1 .. n /\ s \ {Max(s)} \in SUBSET (1 .. n)
        BY <2>2, <3>1, <1>1, BelowMax
      <3>3. g[s \ {Max(s)}] \in T
        BY <3>2, <1>5 DEF IsFold
      <3>4. F[<<g[s \ {Max(s)}], Max(s)>>] = Keep(t, g[s \ {Max(s)}], w[Max(s)])
        BY <3>2, <3>3, <1>4
      <3>5. g[s] = F[<<g[s \ {Max(s)}], Max(s)>>]
        BY <1>5, <2>2 DEF FoldStep, IsFold
      <3> QED BY <2>2, <3>4, <3>5
    <2> QED BY <2>1, <2>2
  <1>7. g = [s \in SUBSET (1 .. n) |-> Step1(g, s)]
    BY <1>5, <1>6 DEF IsFold
  <1>8. iter = [s \in SUBSET (1 .. n) |-> Step1(iter, s)]
    <2> HIDE DEF Step1
    <2> QED BY <1>7
  <1> HIDE DEF iter
  <1>9. iter[1 .. 0] = l
    <2>1. 1 .. 0 = {} /\ 1 .. 0 \in SUBSET (1 .. n)
      OBVIOUS
    <2>2. iter[1 .. 0] = Step1(iter, 1 .. 0)
      BY <1>8, <2>1
    <2> QED BY <2>1, <2>2
  <1>10. ASSUME NEW k \in 1 .. n, iter[1 .. k - 1] \in T
         PROVE  iter[1 .. k] = F[<<iter[1 .. k - 1], k>>]
    <2>1. 1 .. k \in SUBSET (1 .. n) /\ 1 .. k # {} /\ Max(1 .. k) = k /\ (1 .. k) \ {k} = 1 .. k - 1
      BY <1>1, UpTo
    <2>2. iter[1 .. k] = Step1(iter, 1 .. k)
      BY <1>8, <2>1
    <2>3. Step1(iter, 1 .. k) = Keep(t, iter[1 .. k - 1], w[k])
      BY <2>1
    <2> QED BY <2>2, <2>3, <1>4, <1>10
  <1>11. PICK h : IsRun(h, F, l, T, n) /\ iter[1 .. n] = h[n]
    <2>1. \A k \in 1 .. n : iter[1 .. k - 1] \in T => iter[1 .. k] = F[<<iter[1 .. k - 1], k>>]
      BY <1>10
    <2> HIDE DEF Step1
    <2> QED BY <2>1, <1>a, <1>4, <1>9, FoldRuns
  <1>12. h \in [0 .. n -> T] /\ h[0] = l /\ \A k \in 1 .. n : h[k] = F[<<h[k - 1], k>>]
    BY <1>11 DEF IsRun
  <1>13. ASSUME NEW k \in 1 .. n PROVE h[k] = Keep(t, h[k - 1], w[k])
    <2>1. k - 1 \in 0 .. n
      BY <1>1
    <2>2. h[k - 1] \in T
      BY <2>1, <1>12
    <2> QED BY <2>2, <1>12, <1>4
  <1>14. FilteredFor(t, w, a) = h[n].kept
    BY <1>2, <1>11
  <1> QED BY <1>0, <1>14, <1>12, <1>13 DEF T, n

-----------------------------------------------------------------------------
(* BatchFilter over the batches lo to m of the log, ReadCommitted. A is the  *)
(* list of aborted transactions in order, J the batches that opened them.    *)

Listing(l, lo, hi, A, J) ==
    /\ Chained(l) /\ hi \in 1 .. Len(l) /\ lo \in 1 .. hi
    /\ A \in Seq(Entries)
    /\ \A i \in 1 .. Len(A) :
          /\ J[i] \in 1 .. hi /\ l[J[i]].kind = "txn"
          /\ A[i].pid = l[J[i]].pid /\ A[i].first = l[J[i]].base
          /\ Decided(l, J[i]) # 0 /\ Decided(l, J[i]) >= lo
          /\ l[Decided(l, J[i])].kind = "abort"
    /\ \A i, k \in 1 .. Len(A) : i < k => J[i] < J[k]
    /\ \A j \in Openers(l) :
          j <= hi /\ Decided(l, j) > lo /\ l[Decided(l, j)].kind = "abort" =>
              \E i \in 1 .. Len(A) : J[i] = j

\* No batch so far had a producer.
Quiet(l, lo, m) == \A x \in lo .. m : l[x].pid < 0

\* The first c entries have been taken from the list.
IsTaken(l, lo, m, A, J, c) ==
    /\ c \in 0 .. Len(A)
    /\ Quiet(l, lo, m) => c = 0
    /\ ~Quiet(l, lo, m) => \A i \in 1 .. Len(A) : i <= c <=> J[i] <= m

IsLeft(left, A, c) ==
    /\ left \in Seq(Entries) /\ Len(left) = Len(A) - c
    /\ \A i \in 1 .. Len(A) - c : left[i] = A[c + i]

\* The producers whose transaction, aborted after batch m, has been taken.
IsDisowned(l, m, J, c, D) ==
    \A q \in Int : q \in D <=> \E i \in 1 .. c : Decided(l, J[i]) > m /\ l[J[i]].pid = q

LEMMA ListingTypes ==
    ASSUME NEW l, NEW lo, NEW hi, NEW A, NEW J, Listing(l, lo, hi, A, J)
    PROVE  /\ l \in Seq(Batches) /\ Chained(l) /\ Len(l) \in Nat /\ hi \in Nat /\ lo \in Nat
           /\ lo >= 1 /\ lo <= hi /\ hi <= Len(l)
           /\ Len(A) \in Nat
           /\ \A x \in 1 .. Len(l) : /\ l[x].base \in Nat /\ l[x].last \in Nat
                                     /\ l[x].pid \in Int /\ l[x].kind \in Kinds
                                     /\ l[x].kind # "plain" => l[x].pid >= 0
                                     /\ l[x].base <= l[x].last
           /\ \A i \in 1 .. Len(A) : /\ J[i] \in 1 .. Len(l) /\ J[i] \in Nat
                                     /\ Decided(l, J[i]) \in J[i] + 1 .. Len(l)
                                     /\ Decided(l, J[i]) \in Nat
                                     /\ Ends(l, Decided(l, J[i]), l[J[i]].pid)
  <1>1. Chained(l) /\ l \in Seq(Batches) /\ Len(l) \in Nat
    BY SeqFacts DEF Listing, Chained
  <1>2. hi \in Nat /\ lo \in Nat /\ lo >= 1 /\ lo <= hi /\ hi <= Len(l) /\ hi \in 1 .. Len(l)
    BY <1>1 DEF Listing
  <1>3. Len(A) \in Nat
    BY SeqFacts DEF Listing
  <1>4. \A x \in 1 .. Len(l) : /\ l[x].base \in Nat /\ l[x].last \in Nat
                               /\ l[x].pid \in Int /\ l[x].kind \in Kinds
                               /\ l[x].kind # "plain" => l[x].pid >= 0
                               /\ l[x].base <= l[x].last
    <2>1. \A x \in 1 .. Len(l) : l[x] \in Batches
      BY <1>1, SeqFacts
    <2>2. \A x \in 1 .. Len(l) : /\ l[x].base <= l[x].last
                                 /\ l[x].kind # "plain" => l[x].pid >= 0
      BY <1>1 DEF Chained
    <2> QED BY <2>1, <2>2, BatchFields
  <1>5. ASSUME NEW i \in 1 .. Len(A)
        PROVE  /\ J[i] \in 1 .. Len(l) /\ J[i] \in Nat
               /\ Decided(l, J[i]) \in J[i] + 1 .. Len(l)
               /\ Decided(l, J[i]) \in Nat
               /\ Ends(l, Decided(l, J[i]), l[J[i]].pid)
    <2>1. J[i] \in 1 .. hi /\ Decided(l, J[i]) # 0
      BY DEF Listing
    <2>2. J[i] \in 1 .. Len(l) /\ J[i] \in Nat
      BY <2>1, <1>1, <1>2
    <2> QED BY <2>1, <2>2, <1>1, DecidedFacts
  <1> QED BY <1>1, <1>2, <1>3, <1>4, <1>5

LEMMA BasesAscend ==
    ASSUME NEW l, Chained(l), NEW j \in 1 .. Len(l), NEW m \in 1 .. Len(l)
    PROVE  l[j].base <= l[m].last <=> j <= m
  <1>1. l \in Seq(Batches) /\ Len(l) \in Nat
    BY SeqFacts DEF Chained
  <1>2. /\ l[j].base \in Nat /\ l[j].last \in Nat /\ l[m].base \in Nat /\ l[m].last \in Nat
    BY <1>1, SeqFacts, BatchFields
  <1>3. /\ l[j].base <= l[j].last /\ l[m].base <= l[m].last
        /\ j < m => l[j].last < l[m].base
        /\ m < j => l[m].last < l[j].base
    BY DEF Chained
  <1>4. j < m \/ j = m \/ m < j
    OBVIOUS
  <1>5. CASE j < m
    BY <1>5, <1>2, <1>3
  <1>6. CASE j = m
    BY <1>6, <1>3
  <1>7. CASE m < j
    BY <1>7, <1>2, <1>3
  <1> QED BY <1>4, <1>5, <1>6, <1>7

\* Batch m without a producer: nothing is taken, and no transaction ends.
LEMMA PlainStep ==
    ASSUME NEW l, NEW lo, NEW hi, NEW A, NEW J, Listing(l, lo, hi, A, J),
           NEW m \in lo .. hi, NEW c, NEW own, l[m].pid < 0,
           IsTaken(l, lo, m - 1, A, J, c), IsDisowned(l, m - 1, J, c, own)
    PROVE  IsTaken(l, lo, m, A, J, c) /\ IsDisowned(l, m, J, c, own)
  <1>1. m \in 1 .. Len(l) /\ l[m].kind = "plain" /\ lo \in Nat /\ m \in Nat /\ Len(A) \in Nat
    <2>1. m \in 1 .. Len(l)
      BY ListingTypes
    <2>2. l[m].pid \in Int /\ (l[m].kind # "plain" => l[m].pid >= 0)
      BY <2>1, ListingTypes
    <2> QED BY <2>1, <2>2, ListingTypes
  <1>2. c \in 0 .. Len(A) /\ c \in Nat
    BY <1>1 DEF IsTaken
  <1>3. \A i \in 1 .. Len(A) : /\ J[i] # m /\ Decided(l, J[i]) # m
                               /\ J[i] \in Nat /\ Decided(l, J[i]) \in Nat
    <2>1. \A i \in 1 .. Len(A) : J[i] \in Nat /\ Decided(l, J[i]) \in Nat
      BY ListingTypes
    <2>2. \A i \in 1 .. Len(A) : l[J[i]].kind = "txn" /\ l[Decided(l, J[i])].kind = "abort"
      BY DEF Listing
    <2> QED BY <2>1, <2>2, <1>1
  <1>4. Quiet(l, lo, m) <=> Quiet(l, lo, m - 1)
    <2>1. \A x \in lo .. m : x \in lo .. m - 1 \/ x = m
      BY <1>1
    <2>2. \A x \in lo .. m - 1 : x \in lo .. m
      BY <1>1
    <2> QED BY <2>1, <2>2 DEF Quiet
  <1>5. \A i \in 1 .. Len(A) : /\ J[i] <= m <=> J[i] <= m - 1
                               /\ Decided(l, J[i]) > m <=> Decided(l, J[i]) > m - 1
    BY <1>1, <1>3
  <1>6. IsTaken(l, lo, m, A, J, c)
    BY <1>4, <1>5 DEF IsTaken
  <1>7. \A i \in 1 .. c : i \in 1 .. Len(A)
    BY <1>1, <1>2
  <1>8. IsDisowned(l, m, J, c, own)
    BY <1>5, <1>7 DEF IsDisowned
  <1> QED BY <1>6, <1>8

\* Batch m of a producer: all that began by then is taken.
\* Taking n more entries from the front of what is left.
LEMMA LeftAfter ==
    ASSUME NEW A, Len(A) \in Nat, NEW c \in Nat, NEW left, IsLeft(left, A, c),
           NEW n \in 0 .. Len(left)
    PROVE  IsLeft(SubSeq(left, n + 1, Len(left)), A, c + n)
  <1>1. PICK s : s = SubSeq(left, n + 1, Len(left))
    OBVIOUS
  <1>2. /\ left \in Seq(Entries) /\ Len(left) \in Nat /\ n \in Nat
        /\ Len(left) = Len(A) - c /\ \A i \in 1 .. Len(A) - c : left[i] = A[c + i]
    BY DEF IsLeft
  <1>3. PICK x, y \in Nat : x = Len(A) /\ y = Len(left)
    BY <1>2
  <1>4. /\ s \in Seq(Entries) /\ Len(s) = y - n
        /\ \A i \in 1 .. y - n : s[i] = left[n + i]
    BY <1>1, <1>2, <1>3, SuffixFacts
  <1>5. y = x - c /\ y - n = x - (c + n)
    BY <1>2, <1>3
  <1>6. ASSUME NEW i \in 1 .. x - (c + n) PROVE s[i] = A[(c + n) + i]
    <2>1. i \in 1 .. y - n /\ n + i \in 1 .. x - c /\ c + (n + i) = (c + n) + i
      BY <1>2, <1>5
    <2>2. s[i] = left[n + i] /\ left[n + i] = A[c + (n + i)]
      BY <2>1, <1>2, <1>3, <1>4
    <2> QED BY <2>1, <2>2
  <1> QED BY <1>1, <1>3, <1>4, <1>5, <1>6 DEF IsLeft

LEMMA TakingStep ==
    ASSUME NEW l, NEW lo, NEW hi, NEW A, NEW J, Listing(l, lo, hi, A, J),
           NEW m \in lo .. hi, NEW c, IsTaken(l, lo, m - 1, A, J, c), l[m].pid >= 0,
           NEW left, IsLeft(left, A, c), NEW n, n = Begun(left, l[m].last)
    PROVE  /\ n \in 0 .. Len(left)
           /\ IsTaken(l, lo, m, A, J, c + n)
           /\ IsLeft(SubSeq(left, n + 1, Len(left)), A, c + n)
           /\ \A i \in 1 .. c + n : J[i] <= m /\ (i > c => Decided(l, J[i]) > m - 1)
  <1>0. /\ m \in 1 .. Len(l) /\ lo \in Nat /\ m \in Nat /\ Len(A) \in Nat /\ Len(l) \in Nat
        /\ l[m].last \in Nat /\ l[m].pid \in Int
    <2>1. m \in 1 .. Len(l)
      BY ListingTypes
    <2> QED BY <2>1, ListingTypes
  <1>1. c \in 0 .. Len(A) /\ c \in Nat
    BY <1>0 DEF IsTaken
  <1>2. left \in Seq(Entries) /\ Len(left) = Len(A) - c /\ Len(left) \in Nat
    BY <1>0, <1>1 DEF IsLeft
  <1>3. /\ n \in 0 .. Len(left)
        /\ \A j \in 1 .. n : left[j].first <= l[m].last
        /\ n < Len(left) => ~(left[n + 1].first <= l[m].last)
    BY <1>0, <1>2, BegunFacts
  <1>4. n \in Nat /\ c + n \in 0 .. Len(A) /\ c + n \in Nat
    BY <1>0, <1>1, <1>2, <1>3
  <1>5. ASSUME NEW j \in 1 .. Len(left)
        PROVE  c + j \in 1 .. Len(A) /\ (left[j].first <= l[m].last <=> J[c + j] <= m)
    <2>1. c + j \in 1 .. Len(A) /\ left[j] = A[c + j]
      BY <1>0, <1>1, <1>2 DEF IsLeft
    <2>2. left[j].first = l[J[c + j]].base
      BY <2>1 DEF Listing
    <2>3. J[c + j] \in 1 .. Len(l) /\ Chained(l)
      BY <2>1, ListingTypes
    <2> QED BY <2>1, <2>2, <2>3, <1>0, BasesAscend
  <1>6. \A j \in 1 .. n : J[c + j] <= m
    <2>1. \A j \in 1 .. n : j \in 1 .. Len(left)
      BY <1>2, <1>3
    <2> QED BY <2>1, <1>3, <1>5
  <1>7. ASSUME NEW i \in 1 .. Len(A), i > c + n PROVE ~(J[i] <= m)
    <2>0. PICK x, y \in Nat : x = Len(A) /\ y = Len(left)
      BY <1>0, <1>2
    <2>a. c \in Nat /\ n \in Nat /\ y = x - c /\ i \in 1 .. x /\ i > c + n
      BY <2>0, <1>1, <1>2, <1>4, <1>7
    <2>b. n + 1 \in 1 .. y /\ n < y /\ c + (n + 1) \in 1 .. x
      BY <2>a
    <2>1. n + 1 \in 1 .. Len(left) /\ n < Len(left) /\ c + (n + 1) \in 1 .. Len(A)
      BY <2>0, <2>b
    <2>2. ~(J[c + (n + 1)] <= m)
      BY <2>1, <1>3, <1>5
    <2>3. i = c + (n + 1) \/ c + (n + 1) < i
      BY <1>1, <1>4, <1>7
    <2>4. i = c + (n + 1) \/ J[c + (n + 1)] < J[i]
      BY <2>1, <2>3 DEF Listing
    <2>5. J[i] \in Nat /\ J[c + (n + 1)] \in Nat
      BY <2>1, ListingTypes
    <2> QED BY <2>2, <2>4, <2>5, <1>0
  <1>8. ASSUME NEW i \in 1 .. c PROVE J[i] <= m
    <2>1. i \in 1 .. Len(A) /\ c # 0 /\ i <= c
      BY <1>0, <1>1
    <2>2. J[i] <= m - 1
      BY <2>1 DEF IsTaken
    <2>3. J[i] \in Nat
      BY <2>1, ListingTypes
    <2> QED BY <2>2, <2>3, <1>0
  <1>9. ASSUME NEW i \in 1 .. c + n PROVE J[i] <= m
    <2>1. CASE i <= c
      BY <2>1, <1>1, <1>4, <1>8
    <2>2. CASE i > c
      <3>1. i - c \in 1 .. n /\ c + (i - c) = i
        BY <2>2, <1>1, <1>4
      <3> QED BY <3>1, <1>6
    <2> QED BY <2>1, <2>2, <1>1, <1>4
  <1>10. ~Quiet(l, lo, m)
    <2>1. m \in lo .. m
      BY <1>0
    <2> QED BY <2>1, <1>0 DEF Quiet
  <1>11. \A i \in 1 .. Len(A) : i <= c + n <=> J[i] <= m
    <2> SUFFICES ASSUME NEW i \in 1 .. Len(A) PROVE i <= c + n <=> J[i] <= m
      OBVIOUS
    <2>1. CASE i <= c + n
      BY <2>1, <1>4, <1>9
    <2>2. CASE i > c + n
      BY <2>2, <1>4, <1>7
    <2> QED BY <2>1, <2>2, <1>4
  <1>12. IsTaken(l, lo, m, A, J, c + n)
    BY <1>4, <1>10, <1>11 DEF IsTaken
  <1>13. ASSUME NEW i \in 1 .. c + n, i > c PROVE Decided(l, J[i]) > m - 1
    <2>1. i \in 1 .. Len(A)
      BY <1>0, <1>4
    <2>a. J[i] \in Nat /\ Decided(l, J[i]) \in J[i] + 1 .. Len(l) /\ Decided(l, J[i]) \in Nat
      BY <2>1, ListingTypes
    <2>b. l[Decided(l, J[i])].kind = "abort" /\ Decided(l, J[i]) >= lo
      BY <2>1 DEF Listing
    <2>2. /\ J[i] \in Nat /\ Decided(l, J[i]) \in J[i] + 1 .. Len(l) /\ Decided(l, J[i]) \in Nat
          /\ l[Decided(l, J[i])].kind = "abort" /\ Decided(l, J[i]) >= lo
      BY <2>a, <2>b
    <2>3. l[Decided(l, J[i])].pid >= 0 /\ l[Decided(l, J[i])].pid \in Int
      <3>1. Decided(l, J[i]) \in 1 .. Len(l)
        BY <2>2, <1>0
      <3> QED BY <2>2, <3>1, ListingTypes
    <2>4. CASE J[i] = m
      BY <2>2, <2>4, <1>0
    <2>5. CASE J[i] # m
      <3>1. J[i] <= m - 1
        BY <2>2, <2>5, <1>0, <1>9
      <3>2. Quiet(l, lo, m - 1)
        BY <2>1, <3>1, <1>1, <1>13 DEF IsTaken
      <3>3. Decided(l, J[i]) \notin lo .. m - 1
        BY <2>3, <3>2 DEF Quiet
      <3> QED BY <2>2, <3>3, <1>0
    <2> QED BY <2>4, <2>5
  <1>14. IsLeft(SubSeq(left, n + 1, Len(left)), A, c + n)
    BY <1>0, <1>1, <1>3, LeftAfter
  <1> QED BY <1>3, <1>9, <1>12, <1>13, <1>14

\* What is disowned once batch m has taken its entries, before its own marker
\* counts.
IsDisownedAt(l, m, J, c, D) ==
    \A q \in Int : q \in D <=> \E i \in 1 .. c : Decided(l, J[i]) > m - 1 /\ l[J[i]].pid = q

Joined(D, left, n) == D \cup {left[k].pid : k \in 1 .. n}

\* The entries after the c-th are decided at m or later.
Late(l, m, J, c, n) == \A i \in 1 .. c + n : i > c => Decided(l, J[i]) > m - 1

LEMMA DisowningStep ==
    ASSUME NEW l, NEW lo, NEW hi, NEW A, NEW J, Listing(l, lo, hi, A, J),
           NEW m \in lo .. hi, NEW c \in Nat, NEW n \in Nat, c + n <= Len(A),
           NEW D, IsDisowned(l, m - 1, J, c, D),
           NEW left, IsLeft(left, A, c), Late(l, m, J, c, n)
    PROVE  IsDisownedAt(l, m, J, c + n, Joined(D, left, n))
  <1>0. Len(A) \in Nat
    BY ListingTypes
  <1>1. ASSUME NEW k \in 1 .. n
        PROVE  c + k \in 1 .. c + n /\ c + k > c /\ left[k].pid = l[J[c + k]].pid
    <2>1. PICK x \in Nat : x = Len(A)
      BY <1>0
    <2>2. k \in 1 .. x - c /\ c + k \in 1 .. x /\ c + k \in 1 .. c + n /\ c + k > c
      BY <2>1
    <2>3. left[k] = A[c + k] /\ A[c + k].pid = l[J[c + k]].pid
      BY <2>1, <2>2 DEF IsLeft, Listing
    <2> QED BY <2>2, <2>3
  <1> SUFFICES ASSUME NEW q \in Int
               PROVE  q \in Joined(D, left, n) <=>
                      \E i \in 1 .. c + n : Decided(l, J[i]) > m - 1 /\ l[J[i]].pid = q
    BY DEF IsDisownedAt
  <1>2. ASSUME q \in D PROVE \E i \in 1 .. c + n : Decided(l, J[i]) > m - 1 /\ l[J[i]].pid = q
    <2>1. PICK i \in 1 .. c : Decided(l, J[i]) > m - 1 /\ l[J[i]].pid = q
      BY <1>2 DEF IsDisowned
    <2>2. i \in 1 .. c + n
      OBVIOUS
    <2> QED BY <2>1, <2>2
  <1>3. ASSUME NEW k \in 1 .. n, q = left[k].pid
        PROVE  \E i \in 1 .. c + n : Decided(l, J[i]) > m - 1 /\ l[J[i]].pid = q
    <2>1. PICK i \in 1 .. c + n : i = c + k /\ i > c /\ l[J[i]].pid = q
      BY <1>1, <1>3
    <2> QED BY <2>1 DEF Late
  <1>4. ASSUME NEW i \in 1 .. c + n, Decided(l, J[i]) > m - 1, l[J[i]].pid = q
        PROVE  q \in D \/ \E k \in 1 .. n : q = left[k].pid
    <2>1. CASE i <= c
      <3>1. i \in 1 .. c
        BY <2>1
      <3> QED BY <3>1, <1>4 DEF IsDisowned
    <2>2. CASE i > c
      <3>1. PICK k \in 1 .. n : c + k = i
        <4>1. i - c \in 1 .. n /\ c + (i - c) = i
          BY <2>2
        <4> QED BY <4>1
      <3> QED BY <3>1, <1>1, <1>4
    <2> QED BY <2>1, <2>2
  <1>5. q \in Joined(D, left, n) <=> q \in D \/ \E k \in 1 .. n : q = left[k].pid
    BY DEF Joined
  <1> QED BY <1>2, <1>3, <1>4, <1>5

\* Nothing that was taken is decided at m but by m's own abort marker, which
\* ends all that its producer had open.
LEMMA MarkerStep ==
    ASSUME NEW l, NEW lo, NEW hi, NEW A, NEW J, Listing(l, lo, hi, A, J),
           NEW m \in lo .. hi, NEW c \in Nat, c <= Len(A), \A i \in 1 .. c : J[i] <= m,
           NEW D, IsDisownedAt(l, m, J, c, D)
    PROVE  IsDisowned(l, m, J, c, IF l[m].kind = "abort" THEN D \ {l[m].pid} ELSE D)
  <1>0. /\ Len(A) \in Nat /\ m \in Nat /\ Len(l) \in Nat /\ m \in 1 .. Len(l)
        /\ l \in Seq(Batches)
    BY ListingTypes
  <1>1. ASSUME NEW i \in 1 .. c
        PROVE  /\ J[i] \in 1 .. Len(l) /\ J[i] \in Nat /\ Decided(l, J[i]) \in Nat
               /\ Decided(l, J[i]) = m => l[m].kind = "abort" /\ l[J[i]].pid = l[m].pid
               /\ l[m].kind = "abort" /\ l[J[i]].pid = l[m].pid => ~(Decided(l, J[i]) > m)
    <2>1. i \in 1 .. Len(A)
      BY <1>0
    <2>2. /\ J[i] \in 1 .. Len(l) /\ J[i] \in Nat /\ Decided(l, J[i]) \in Nat
          /\ Ends(l, Decided(l, J[i]), l[J[i]].pid)
      BY <2>1, ListingTypes
    <2>3. l[Decided(l, J[i])].kind = "abort" /\ l[J[i]].kind = "txn"
      BY <2>1 DEF Listing
    <2>4. Decided(l, J[i]) = m => l[m].kind = "abort" /\ l[J[i]].pid = l[m].pid
      BY <2>2, <2>3 DEF Ends
    <2>5. ASSUME l[m].kind = "abort", l[J[i]].pid = l[m].pid PROVE Decided(l, J[i]) <= m
      <3>1. J[i] # m /\ J[i] <= m
        BY <2>3, <2>5
      <3>2. m \in J[i] + 1 .. Len(l)
        BY <3>1, <2>2, <1>0
      <3>3. Ends(l, m, l[J[i]].pid)
        BY <2>5 DEF Ends, Markers
      <3> QED BY <3>2, <3>3, <2>2, <1>0, DecidedFacts
    <2>6. Decided(l, J[i]) <= m => ~(Decided(l, J[i]) > m)
      BY <2>2, <1>0
    <2> QED BY <2>2, <2>4, <2>5, <2>6
  <1> DEFINE E == IF l[m].kind = "abort" THEN D \ {l[m].pid} ELSE D
  <1> SUFFICES ASSUME NEW q \in Int
               PROVE  q \in E <=> \E i \in 1 .. c : Decided(l, J[i]) > m /\ l[J[i]].pid = q
    BY DEF IsDisowned
  <1>2. q \in E <=> q \in D /\ ~(l[m].kind = "abort" /\ q = l[m].pid)
    OBVIOUS
  <1> HIDE DEF E
  <1>3. ASSUME q \in E
        PROVE  \E i \in 1 .. c : Decided(l, J[i]) > m /\ l[J[i]].pid = q
    <2>1. PICK i \in 1 .. c : Decided(l, J[i]) > m - 1 /\ l[J[i]].pid = q
      BY <1>2, <1>3 DEF IsDisownedAt
    <2>2. Decided(l, J[i]) # m
      BY <2>1, <1>1, <1>2, <1>3
    <2>3. Decided(l, J[i]) \in Nat
      BY <1>1
    <2>4. Decided(l, J[i]) > m
      BY <2>1, <2>2, <2>3, <1>0
    <2> QED BY <2>1, <2>4
  <1>4. ASSUME NEW i \in 1 .. c, Decided(l, J[i]) > m, l[J[i]].pid = q
        PROVE  q \in E
    <2>1. Decided(l, J[i]) \in Nat
      BY <1>1
    <2>2. Decided(l, J[i]) > m - 1
      BY <2>1, <1>0, <1>4
    <2>3. q \in D
      BY <2>2, <1>4 DEF IsDisownedAt
    <2>4. ~(l[m].kind = "abort" /\ q = l[m].pid)
      BY <1>1, <1>4
    <2> QED BY <2>3, <2>4, <1>2
  <1> QED BY <1>3, <1>4

\* A transactional batch is one of a disowned producer exactly if its
\* transaction was aborted.
LEMMA VerdictIsRight ==
    ASSUME NEW l, NEW lo, NEW hi, NEW A, NEW J, Listing(l, lo, hi, A, J),
           NEW m \in lo .. hi, NEW c, IsTaken(l, lo, m, A, J, c), l[m].kind = "txn",
           Decided(l, m) # 0, NEW D, IsDisownedAt(l, m, J, c, D)
    PROVE  l[m].pid \in D <=> l[Decided(l, m)].kind = "abort"
  <1>0. /\ Len(A) \in Nat /\ m \in Nat /\ Len(l) \in Nat /\ m \in 1 .. Len(l)
        /\ l \in Seq(Batches) /\ lo \in Nat /\ hi \in Nat
    BY ListingTypes
  <1>1. l[m].pid \in Int /\ l[m].pid >= 0
    BY <1>0, ListingTypes
  <1>2. ~Quiet(l, lo, m)
    <2>1. m \in lo .. m
      BY <1>0
    <2> QED BY <2>1, <1>1 DEF Quiet
  <1>3. c \in 0 .. Len(A) /\ \A i \in 1 .. Len(A) : i <= c <=> J[i] <= m
    BY <1>2 DEF IsTaken
  <1>4. Decided(l, m) \in m + 1 .. Len(l)
    BY <1>0, DecidedFacts
  <1>5. ASSUME l[m].pid \in D PROVE l[Decided(l, m)].kind = "abort"
    <2>1. PICK i \in 1 .. c : Decided(l, J[i]) > m - 1 /\ l[J[i]].pid = l[m].pid
      BY <1>1, <1>5 DEF IsDisownedAt
    <2>2. i \in 1 .. Len(A) /\ i <= c
      BY <1>0, <1>3
    <2>3. /\ J[i] \in 1 .. Len(l) /\ J[i] \in Nat /\ Decided(l, J[i]) \in Nat
          /\ Ends(l, Decided(l, J[i]), l[J[i]].pid)
      BY <2>2, ListingTypes
    <2>4. l[Decided(l, J[i])].kind = "abort"
      BY <2>2 DEF Listing
    <2>5. J[i] \in 1 .. m
      BY <2>2, <2>3, <1>0, <1>3
    <2>6. Decided(l, J[i]) # m
      BY <2>4
    <2>7. Decided(l, J[i]) > m
      BY <2>1, <2>3, <2>6, <1>0
    <2>8. ASSUME NEW x \in J[i] + 1 .. m, Ends(l, x, l[m].pid) PROVE FALSE
      <3>1. x \in J[i] + 1 .. Len(l) /\ x <= m /\ x \in Nat
        BY <2>3, <1>0
      <3>2. Decided(l, J[i]) <= x
        BY <2>1, <2>3, <2>8, <3>1, <1>0, DecidedFacts
      <3> QED BY <3>1, <3>2, <2>3, <2>7, <1>0
    <2>9. Decided(l, J[i]) = Decided(l, m)
      BY <2>1, <2>5, <2>8, <1>0, SameDecision
    <2> QED BY <2>4, <2>9
  <1>6. ASSUME l[Decided(l, m)].kind = "abort" PROVE l[m].pid \in D
    <2>1. PICK j \in Openers(l) : j \in 1 .. m /\ l[j].pid = l[m].pid /\ Decided(l, j) = Decided(l, m)
      BY <1>0, OpenerOf
    <2>2. j <= hi /\ Decided(l, j) > lo /\ l[Decided(l, j)].kind = "abort"
      BY <2>1, <1>0, <1>4, <1>6
    <2>3. PICK i \in 1 .. Len(A) : J[i] = j
      BY <2>2 DEF Listing
    <2>4. i \in 1 .. c
      BY <2>1, <2>3, <1>0, <1>3
    <2>5. Decided(l, J[i]) > m - 1 /\ l[J[i]].pid = l[m].pid
      BY <2>1, <2>3, <1>0, <1>4
    <2> QED BY <2>4, <2>5, <1>1 DEF IsDisownedAt
  <1> QED BY <1>5, <1>6

\* What a reader is to be shown of the log.
Shown(t, l, i) ==
    /\ l[i].kind \notin Markers
    /\ t \in Committed /\ l[i].kind = "txn" =>
          Decided(l, i) # 0 /\ l[Decided(l, i)].kind = "commit"

\* The batches kept of those from lo to m are the ones to be shown, in order.
IsKept(t, l, lo, m, kept) ==
    /\ kept \in Seq(Batches)
    /\ \A a \in 1 .. Len(kept) : \E i \in lo .. m : Shown(t, l, i) /\ kept[a] = l[i]
    /\ \A i \in lo .. m : Shown(t, l, i) => \E a \in 1 .. Len(kept) : kept[a] = l[i]
    /\ \A a, b \in 1 .. Len(kept) : a < b => kept[a].last < kept[b].base

LEMMA KeepingStep ==
    ASSUME NEW t, NEW l, Chained(l), NEW lo \in 1 .. Len(l), NEW m \in lo .. Len(l),
           NEW kept, IsKept(t, l, lo, m - 1, kept)
    PROVE  /\ Shown(t, l, m) => IsKept(t, l, lo, m, Append(kept, l[m]))
           /\ ~Shown(t, l, m) => IsKept(t, l, lo, m, kept)
  <1>0. /\ l \in Seq(Batches) /\ Len(l) \in Nat /\ m \in 1 .. Len(l) /\ m \in Nat /\ lo \in Nat
        /\ l[m] \in Batches
    BY SeqFacts DEF Chained
  <1>1. kept \in Seq(Batches) /\ Len(kept) \in Nat
    BY DEF IsKept
  <1>2. (\A i \in lo .. m : i \in lo .. m - 1 \/ i = m) /\ (\A i \in lo .. m - 1 : i \in lo .. m)
        /\ m \in lo .. m
    BY <1>0
  <1>3. ASSUME ~Shown(t, l, m) PROVE IsKept(t, l, lo, m, kept)
    <2>1. \A a \in 1 .. Len(kept) : \E i \in lo .. m : Shown(t, l, i) /\ kept[a] = l[i]
      BY <1>2 DEF IsKept
    <2>2. \A i \in lo .. m : Shown(t, l, i) => \E a \in 1 .. Len(kept) : kept[a] = l[i]
      BY <1>2, <1>3 DEF IsKept
    <2> QED BY <2>1, <2>2 DEF IsKept
  <1>4. ASSUME Shown(t, l, m) PROVE IsKept(t, l, lo, m, Append(kept, l[m]))
    <2>1. PICK k : k = Append(kept, l[m])
      OBVIOUS
    <2>2. /\ k \in Seq(Batches) /\ Len(k) = Len(kept) + 1 /\ k[Len(kept) + 1] = l[m]
          /\ \A a \in 1 .. Len(kept) : k[a] = kept[a]
      BY <2>1, <1>0, <1>1
    <2>3. \A a \in 1 .. Len(k) : a \in 1 .. Len(kept) \/ a = Len(kept) + 1
      BY <2>2, <1>1
    <2>4. (\A a \in 1 .. Len(kept) : a \in 1 .. Len(k)) /\ Len(kept) + 1 \in 1 .. Len(k)
      BY <2>2, <1>1
    <2>5. \A a \in 1 .. Len(kept) : \E i \in lo .. m - 1 : Shown(t, l, i) /\ kept[a] = l[i]
      BY DEF IsKept
    <2>6. ASSUME NEW a \in 1 .. Len(k) PROVE \E i \in lo .. m : Shown(t, l, i) /\ k[a] = l[i]
      <3>1. CASE a = Len(kept) + 1
        BY <3>1, <2>2, <1>2, <1>4
      <3>2. CASE a \in 1 .. Len(kept)
        BY <3>2, <2>2, <2>5, <1>2
      <3> QED BY <2>3, <3>1, <3>2
    <2>7. ASSUME NEW i \in lo .. m, Shown(t, l, i) PROVE \E a \in 1 .. Len(k) : k[a] = l[i]
      <3>1. CASE i = m
        BY <3>1, <2>2, <2>4
      <3>2. CASE i \in lo .. m - 1
        <4>1. PICK a \in 1 .. Len(kept) : kept[a] = l[i]
          BY <3>2, <2>7 DEF IsKept
        <4> QED BY <4>1, <2>2, <2>4
      <3> QED BY <1>2, <3>1, <3>2
    <2>8. ASSUME NEW a \in 1 .. Len(k), NEW b \in 1 .. Len(k), a < b PROVE k[a].last < k[b].base
      <3>1. a \in 1 .. Len(kept)
        BY <2>2, <2>8, <1>1
      <3>2. CASE b \in 1 .. Len(kept)
        BY <3>1, <3>2, <2>2, <2>8 DEF IsKept
      <3>3. CASE b = Len(kept) + 1
        <4>1. PICK i \in lo .. m - 1 : kept[a] = l[i]
          BY <3>1, <2>5
        <4>2. i \in 1 .. Len(l) /\ i < m
          BY <1>0
        <4>3. l[i].last < l[m].base
          BY <4>2, <1>0 DEF Chained
        <4> QED BY <3>1, <3>3, <4>1, <4>3, <2>2
      <3> QED BY <2>3, <3>2, <3>3
    <2>9. IsKept(t, l, lo, m, k)
      BY <2>2, <2>6, <2>7, <2>8 DEF IsKept
    <2> QED BY <2>1, <2>9
  <1> QED BY <1>3, <1>4

FilterInv(t, l, lo, m, A, J, f) ==
    /\ \E c : /\ IsTaken(l, lo, m, A, J, c) /\ IsLeft(f.aborted, A, c)
              /\ IsDisowned(l, m, J, c, f.disowned)
    /\ IsKept(t, l, lo, m, f.kept)

LEMMA FilterStep ==
    ASSUME NEW t \in Committed, NEW l, NEW lo, NEW hi, NEW A, NEW J, Listing(l, lo, hi, A, J),
           NEW m \in lo .. hi, l[m].kind = "txn" => Decided(l, m) # 0,
           NEW f \in States, FilterInv(t, l, lo, m - 1, A, J, f)
    PROVE  FilterInv(t, l, lo, m, A, J, Keep(t, f, l[m]))
  <1>0. /\ Len(A) \in Nat /\ m \in Nat /\ Len(l) \in Nat /\ m \in 1 .. Len(l) /\ Chained(l)
        /\ l \in Seq(Batches) /\ lo \in 1 .. Len(l) /\ m \in lo .. Len(l)
    BY ListingTypes
  <1>1. /\ l[m].last \in Nat /\ l[m].pid \in Int /\ l[m].kind \in Kinds
        /\ l[m].kind # "plain" => l[m].pid >= 0
    BY <1>0, ListingTypes
  <1>2. PICK c : /\ IsTaken(l, lo, m - 1, A, J, c) /\ IsLeft(f.aborted, A, c)
                 /\ IsDisowned(l, m - 1, J, c, f.disowned)
    BY DEF FilterInv
  <1>3. c \in 0 .. Len(A) /\ c \in Nat /\ Len(f.aborted) = Len(A) - c /\ Len(f.aborted) \in Nat
    BY <1>0, <1>2 DEF IsTaken, IsLeft
  <1>4. PICK g : g = Keep(t, f, l[m])
    OBVIOUS
  <1>5. PICK n : n = Taken(t, f, l[m])
    OBVIOUS
  <1>6. PICK D : D = f.disowned \cup {f.aborted[k].pid : k \in 1 .. n}
    OBVIOUS
  <1>7. D = DisownedBy(t, f, l[m])
    BY <1>5, <1>6 DEF DisownedBy
  <1>a. PICK b : b = l[m]
    OBVIOUS
  <1>x. Keep(t, f, b).aborted = SubSeq(f.aborted, Taken(t, f, b) + 1, Len(f.aborted))
    BY FilterLeaves
  <1>y. Keep(t, f, b).disowned =
           IF t \in Committed /\ b.kind = "abort" THEN DisownedBy(t, f, b) \ {b.pid}
                                     ELSE DisownedBy(t, f, b)
    BY FilterDisowns
  <1>z. Keep(t, f, b).kept =
           IF \/ b.kind \in Markers
              \/ (t \in Committed /\ b.kind = "txn" /\ b.pid \in DisownedBy(t, f, b))
           THEN f.kept ELSE Append(f.kept, b)
    BY FilterKeeps
  <1>c. g = Keep(t, f, b) /\ n = Taken(t, f, b) /\ D = DisownedBy(t, f, b)
    BY <1>4, <1>5, <1>7, <1>a
  <1>8. /\ g.aborted = SubSeq(f.aborted, n + 1, Len(f.aborted))
        /\ g.disowned = IF l[m].kind = "abort" THEN D \ {l[m].pid} ELSE D
        /\ g.kept = IF l[m].kind \in Markers \/ (l[m].kind = "txn" /\ l[m].pid \in D)
                    THEN f.kept ELSE Append(f.kept, l[m])
    BY <1>a, <1>c, <1>x, <1>y, <1>z
  <1>9. IsKept(t, l, lo, m - 1, f.kept)
    BY DEF FilterInv
  <1>10. CASE l[m].pid < 0
    <2>1. l[m].kind = "plain" /\ n = 0
      BY <1>1, <1>5, <1>10 DEF Taken
    <2>2. g.aborted = f.aborted
      <3>1. f.aborted \in Seq(Entries)
        BY <1>2 DEF IsLeft
      <3> QED BY <3>1, <2>1, <1>8
    <2>3. D = f.disowned
      <3>1. 1 .. n = {}
        BY <2>1
      <3> QED BY <3>1, <1>6
    <2>4. g.disowned = f.disowned /\ g.kept = Append(f.kept, l[m])
      BY <2>1, <2>3, <1>8 DEF Markers
    <2>5. IsTaken(l, lo, m, A, J, c) /\ IsDisowned(l, m, J, c, f.disowned)
      BY <1>2, <1>10, PlainStep
    <2>6. Shown(t, l, m)
      BY <2>1 DEF Shown, Markers
    <2>7. IsKept(t, l, lo, m, g.kept)
      BY <2>4, <2>6, <1>0, <1>9, KeepingStep
    <2> QED BY <2>2, <2>4, <2>5, <2>7, <1>2, <1>4 DEF FilterInv
  <1>11. CASE l[m].pid >= 0
    <2>1. n = Begun(f.aborted, l[m].last)
      BY <1>5, <1>11 DEF Taken
    <2>2. /\ n \in 0 .. Len(f.aborted) /\ IsTaken(l, lo, m, A, J, c + n)
          /\ IsLeft(SubSeq(f.aborted, n + 1, Len(f.aborted)), A, c + n)
          /\ \A i \in 1 .. c + n : J[i] <= m /\ (i > c => Decided(l, J[i]) > m - 1)
      BY <2>1, <1>2, <1>11, TakingStep
    <2>3. n \in Nat /\ c + n <= Len(A) /\ c + n \in Nat
      BY <2>2, <1>0, <1>3
    <2>4. IsDisownedAt(l, m, J, c + n, D)
      <3>1. Late(l, m, J, c, n)
        BY <2>2 DEF Late
      <3>2. PICK left, own : left = f.aborted /\ own = f.disowned
        OBVIOUS
      <3>3. D = Joined(own, left, n)
        BY <3>2, <1>6 DEF Joined
      <3>4. IsLeft(left, A, c) /\ IsDisowned(l, m - 1, J, c, own)
        BY <3>2, <1>2
      <3>5. c \in Nat /\ n \in Nat /\ c + n <= Len(A)
        BY <2>3, <1>3
      <3>6. IsDisownedAt(l, m, J, c + n, Joined(own, left, n))
        BY <3>1, <3>4, <3>5, DisowningStep
      <3> QED BY <3>3, <3>6
    <2>5. IsDisowned(l, m, J, c + n, g.disowned)
      <3>1. IsDisowned(l, m, J, c + n, IF l[m].kind = "abort" THEN D \ {l[m].pid} ELSE D)
        BY <2>2, <2>3, <2>4, MarkerStep
      <3> QED BY <3>1, <1>8
    <2>6. l[m].kind = "txn" => (l[m].pid \in D <=> l[Decided(l, m)].kind = "abort")
      BY <2>2, <2>4, VerdictIsRight
    <2>7. ASSUME l[m].kind = "txn" PROVE l[Decided(l, m)].kind \in Markers
      BY <2>7, <1>0, DecidedFacts DEF Ends
    <2>8. Shown(t, l, m) <=> ~(l[m].kind \in Markers \/ (l[m].kind = "txn" /\ l[m].pid \in D))
      BY <2>6, <2>7 DEF Shown, Markers
    <2>9. IsKept(t, l, lo, m, g.kept)
      <3>1. CASE Shown(t, l, m)
        <4>1. g.kept = Append(f.kept, l[m])
          BY <3>1, <2>8, <1>8
        <4> QED BY <3>1, <4>1, <1>0, <1>9, KeepingStep
      <3>2. CASE ~Shown(t, l, m)
        <4>1. g.kept = f.kept
          BY <3>2, <2>8, <1>8
        <4> QED BY <3>2, <4>1, <1>0, <1>9, KeepingStep
      <3> QED BY <3>1, <3>2
    <2>10. IsLeft(g.aborted, A, c + n)
      BY <2>2, <1>8
    <2> QED BY <2>2, <2>5, <2>9, <2>10, <1>4 DEF FilterInv
  <1>12. l[m].pid < 0 \/ l[m].pid >= 0
    BY <1>1
  <1> QED BY <1>10, <1>11, <1>12

\* A part of the log.
LEMMA PartFacts ==
    ASSUME NEW l \in Seq(Batches), NEW hi \in 1 .. Len(l), NEW lo \in 1 .. hi
    PROVE  /\ SubSeq(l, lo, hi) \in Seq(Batches)
           /\ Len(SubSeq(l, lo, hi)) = hi - lo + 1 /\ hi - lo + 1 \in Nat
           /\ \A k \in 1 .. hi - lo + 1 : /\ lo - 1 + k \in lo .. hi
                                          /\ SubSeq(l, lo, hi)[k] = l[lo - 1 + k]
  <1>1. Len(l) \in Nat
    OBVIOUS
  <1>2. \A k \in 1 .. hi - lo + 1 : lo - 1 + k \in lo .. hi /\ lo + k - 1 = lo - 1 + k
    BY <1>1
  <1> QED BY <1>1, <1>2

\* ReadCommitted: what BatchFilter keeps is what the reader is to be shown.
LEMMA FilterIsExact ==
    ASSUME NEW t \in Committed, NEW l, NEW lo, NEW hi, NEW A, NEW J, Listing(l, lo, hi, A, J),
           \A i \in 1 .. hi : l[i].kind = "txn" => Decided(l, i) # 0,
           NEW a, InOrder(a) = A
    PROVE  IsKept(t, l, lo, hi, FilteredFor(t, SubSeq(l, lo, hi), a))
  <1>0. /\ l \in Seq(Batches) /\ Len(l) \in Nat /\ hi \in 1 .. Len(l) /\ lo \in 1 .. hi
        /\ hi \in Nat /\ lo \in Nat /\ A \in Seq(Entries) /\ Len(A) \in Nat
    <2>1. hi \in 1 .. Len(l) /\ lo \in 1 .. hi /\ A \in Seq(Entries)
      BY DEF Listing
    <2> QED BY <2>1, ListingTypes
  <1>1. PICK w : w = SubSeq(l, lo, hi)
    OBVIOUS
  <1>2. PICK N \in Nat : N = hi - lo + 1
    BY <1>0, PartFacts
  <1>3. /\ w \in Seq(Batches) /\ Len(w) = N
        /\ \A k \in 1 .. N : lo - 1 + k \in lo .. hi /\ w[k] = l[lo - 1 + k]
    BY <1>0, <1>1, <1>2, PartFacts
  <1>4. Untouched(t, a) = [aborted |-> A, disowned |-> {}, kept |-> <<>>]
    BY DEF Untouched
  <1>5. Untouched(t, a) \in States
    <2>1. PICK x \in Seq(Batches) : x = <<>>
      <3>1. <<>> \in Seq(Batches)
        OBVIOUS
      <3> QED BY <3>1
    <2>2. PICK y \in SUBSET Int : y = {}
      OBVIOUS
    <2>3. [aborted |-> A, disowned |-> y, kept |-> x] \in States
      BY <1>0 DEF States
    <2> QED BY <2>1, <2>2, <2>3, <1>4
  <1>6. PICK h \in [0 .. N -> States] :
              /\ h[0] = Untouched(t, a) /\ FilteredFor(t, w, a) = h[N].kept
              /\ \A k \in 1 .. N : h[k] = Keep(t, h[k - 1], w[k])
    <2>1. PICK h \in [0 .. Len(w) -> States] :
              /\ h[0] = Untouched(t, a) /\ FilteredFor(t, w, a) = h[Len(w)].kept
              /\ \A k \in 1 .. Len(w) : h[k] = Keep(t, h[k - 1], w[k])
      <3>1. w \in Seq(Batches)
        BY <1>3
      <3> QED BY <3>1, <1>5, FilterFold
    <2> QED BY <2>1, <1>3
  <1> DEFINE Good == {k \in 0 .. N : FilterInv(t, l, lo, lo - 1 + k, A, J, h[k])}
  <1>7. 0 \in Good
    <2>1. PICK f : f = h[0]
      OBVIOUS
    <2>2. f.aborted = A /\ f.disowned = {} /\ f.kept = <<>>
      BY <2>1, <1>4, <1>6
    <2>3. lo .. lo - 1 = {} /\ 1 .. 0 = {} /\ lo - 1 + 0 = lo - 1
      BY <1>0
    <2>4. IsTaken(l, lo, lo - 1, A, J, 0)
      <3>1. 0 \in 0 .. Len(A)
        BY <1>0
      <3>2. Quiet(l, lo, lo - 1)
        BY <2>3 DEF Quiet
      <3> QED BY <3>1, <3>2 DEF IsTaken
    <2>5. IsLeft(f.aborted, A, 0)
      BY <2>2, <1>0 DEF IsLeft
    <2>6. IsDisowned(l, lo - 1, J, 0, f.disowned)
      BY <2>2, <2>3 DEF IsDisowned
    <2>7. IsKept(t, l, lo, lo - 1, f.kept)
      <3>1. <<>> \in Seq(Batches) /\ Len(<<>>) = 0
        OBVIOUS
      <3> QED BY <3>1, <2>2, <2>3 DEF IsKept
    <2>8. FilterInv(t, l, lo, lo - 1, A, J, f)
      BY <2>4, <2>5, <2>6, <2>7 DEF FilterInv
    <2>9. FilterInv(t, l, lo, lo - 1 + 0, A, J, h[0])
      BY <2>1, <2>3, <2>8
    <2>10. 0 \in 0 .. N
      OBVIOUS
    <2> QED BY <2>9, <2>10
  <1>8. ASSUME NEW k \in 0 .. N - 1, k \in Good PROVE k + 1 \in Good
    <2>1. /\ k + 1 \in 1 .. N /\ k + 1 \in 0 .. N /\ (k + 1) - 1 = k /\ k \in 0 .. N
          /\ (lo - 1 + (k + 1)) - 1 = lo - 1 + k
      <3> HIDE DEF Good
      <3>1. /\ k + 1 \in 1 .. N /\ k + 1 \in 0 .. N /\ (k + 1) - 1 = k /\ k \in 0 .. N
        OBVIOUS
      <3>2. lo \in Int /\ k \in Int
        BY <1>0
      <3> QED BY <3>1, <3>2
    <2>2. PICK m \in lo .. hi : m = lo - 1 + (k + 1) /\ w[k + 1] = l[m] /\ m - 1 = lo - 1 + k
      BY <2>1, <1>3
    <2>3. h[k] \in States /\ h[k + 1] = Keep(t, h[k], l[m])
      BY <2>1, <2>2, <1>6
    <2>4. FilterInv(t, l, lo, m - 1, A, J, h[k])
      BY <2>2, <1>8
    <2>5. l[m].kind = "txn" => Decided(l, m) # 0
      <3>1. m \in 1 .. hi
        BY <1>0
      <3> QED BY <3>1
    <2>6. FilterInv(t, l, lo, m, A, J, h[k + 1])
      BY <2>3, <2>4, <2>5, FilterStep
    <2> QED BY <2>1, <2>2, <2>6
  <1>9. N \in Good
    <2> HIDE DEF Good
    <2>1. \A k \in 0 .. N : k \in Good
      BY <1>7, <1>8, CountUp
    <2> QED BY <2>1
  <1>10. lo - 1 + N = hi
    BY <1>0, <1>2
  <1>11. FilterInv(t, l, lo, hi, A, J, h[N])
    BY <1>9, <1>10
  <1> QED BY <1>1, <1>6, <1>11 DEF FilterInv

\* ReadUncommitted: only the markers are left out.
LEMMA FilterIsPlain ==
    ASSUME NEW t, t \notin Committed, NEW l, Chained(l),
           NEW hi \in 1 .. Len(l), NEW lo \in 1 .. hi, NEW a
    PROVE  IsKept(t, l, lo, hi, FilteredFor(t, SubSeq(l, lo, hi), a))
  <1>0. /\ l \in Seq(Batches) /\ Len(l) \in Nat /\ hi \in Nat /\ lo \in Nat /\ lo \in 1 .. Len(l)
    BY SeqFacts DEF Chained
  <1>1. PICK w : w = SubSeq(l, lo, hi)
    OBVIOUS
  <1>2. PICK N \in Nat : N = hi - lo + 1
    BY <1>0, PartFacts
  <1>3. /\ w \in Seq(Batches) /\ Len(w) = N
        /\ \A k \in 1 .. N : lo - 1 + k \in lo .. hi /\ w[k] = l[lo - 1 + k]
    BY <1>0, <1>1, <1>2, PartFacts
  <1>4. Untouched(t, a) = [aborted |-> <<>>, disowned |-> {}, kept |-> <<>>]
    BY DEF Untouched
  <1>5. Untouched(t, a) \in States
    <2>1. PICK x \in Seq(Batches) : x = <<>>
      <3>1. <<>> \in Seq(Batches)
        OBVIOUS
      <3> QED BY <3>1
    <2>2. PICK y \in SUBSET Int : y = {}
      OBVIOUS
    <2>3. PICK z \in Seq(Entries) : z = <<>>
      <3>1. <<>> \in Seq(Entries)
        OBVIOUS
      <3> QED BY <3>1
    <2>4. [aborted |-> z, disowned |-> y, kept |-> x] \in States
      BY DEF States
    <2> QED BY <2>1, <2>2, <2>3, <2>4, <1>4
  <1>6. PICK h \in [0 .. N -> States] :
              /\ h[0] = Untouched(t, a) /\ FilteredFor(t, w, a) = h[N].kept
              /\ \A k \in 1 .. N : h[k] = Keep(t, h[k - 1], w[k])
    <2>1. PICK h \in [0 .. Len(w) -> States] :
              /\ h[0] = Untouched(t, a) /\ FilteredFor(t, w, a) = h[Len(w)].kept
              /\ \A k \in 1 .. Len(w) : h[k] = Keep(t, h[k - 1], w[k])
      <3>1. w \in Seq(Batches)
        BY <1>3
      <3> QED BY <3>1, <1>5, FilterFold
    <2> QED BY <2>1, <1>3
  <1> DEFINE Good == {k \in 0 .. N : IsKept(t, l, lo, lo - 1 + k, h[k].kept)}
  <1>7. 0 \in Good
    <2>1. PICK s : s = h[0].kept
      OBVIOUS
    <2>2. s = <<>>
      BY <2>1, <1>4, <1>6
    <2>3. lo .. lo - 1 = {} /\ 1 .. 0 = {} /\ lo - 1 + 0 = lo - 1
      BY <1>0
    <2>4. IsKept(t, l, lo, lo - 1, s)
      <3>1. <<>> \in Seq(Batches) /\ Len(<<>>) = 0
        OBVIOUS
      <3> QED BY <3>1, <2>2, <2>3 DEF IsKept
    <2> QED BY <2>1, <2>3, <2>4
  <1>8. ASSUME NEW k \in 0 .. N - 1, k \in Good PROVE k + 1 \in Good
    <2>1. /\ k + 1 \in 1 .. N /\ k + 1 \in 0 .. N /\ (k + 1) - 1 = k /\ k \in 0 .. N
          /\ (lo - 1 + (k + 1)) - 1 = lo - 1 + k
      <3> HIDE DEF Good
      <3>1. /\ k + 1 \in 1 .. N /\ k + 1 \in 0 .. N /\ (k + 1) - 1 = k /\ k \in 0 .. N
        OBVIOUS
      <3>2. lo \in Int /\ k \in Int
        BY <1>0
      <3> QED BY <3>1, <3>2
    <2>2. PICK m \in lo .. hi : m = lo - 1 + (k + 1) /\ w[k + 1] = l[m] /\ m - 1 = lo - 1 + k
      BY <2>1, <1>3
    <2>3. h[k + 1] = Keep(t, h[k], l[m])
      BY <2>1, <2>2, <1>6
    <2>4. IsKept(t, l, lo, m - 1, h[k].kept)
      BY <2>2, <1>8
    <2>5. h[k + 1].kept = IF l[m].kind \in Markers THEN h[k].kept ELSE Append(h[k].kept, l[m])
      <3>1. PICK f, g : f = h[k] /\ g = h[k + 1]
        OBVIOUS
      <3>2. g = Keep(t, f, l[m])
        BY <2>3, <3>1
      <3>3. g.kept = IF \/ l[m].kind \in Markers
                        \/ (t \in Committed /\ l[m].kind = "txn" /\ l[m].pid \in DisownedBy(t, f, l[m]))
                     THEN f.kept ELSE Append(f.kept, l[m])
        <4>1. PICK b : b = l[m]
          OBVIOUS
        <4>2. Keep(t, f, b).kept =
                 IF \/ b.kind \in Markers
                    \/ (t \in Committed /\ b.kind = "txn" /\ b.pid \in DisownedBy(t, f, b))
                 THEN f.kept ELSE Append(f.kept, b)
          BY FilterKeeps
        <4> QED BY <4>1, <4>2, <3>2
      <3> QED BY <3>1, <3>3
    <2>6. m \in lo .. Len(l)
      BY <1>0
    <2>7. Shown(t, l, m) <=> l[m].kind \notin Markers
      BY DEF Shown
    <2>8. IsKept(t, l, lo, m, h[k + 1].kept)
      BY <2>4, <2>5, <2>6, <2>7, <1>0, KeepingStep
    <2> QED BY <2>1, <2>2, <2>8
  <1>9. N \in Good
    <2> HIDE DEF Good
    <2>1. \A k \in 0 .. N : k \in Good
      BY <1>7, <1>8, CountUp
    <2> QED BY <2>1
  <1>10. lo - 1 + N = hi
    BY <1>0, <1>2
  <1> QED BY <1>1, <1>6, <1>9, <1>10

-----------------------------------------------------------------------------
(* The records of the batches kept.                                          *)

Ascends(s) == \A i, j \in 1 .. Len(s) : i < j => s[i] < s[j]
Has(s, o) == \E i \in 1 .. Len(s) : s[i] = o

LEMMA GreaterOfTwo ==
    ASSUME NEW a \in Nat, NEW b \in Nat
    PROVE  Max({a, b}) \in Nat /\ Max({a, b}) >= a /\ Max({a, b}) >= b /\ Max({a, b}) \in {a, b}
  <1>1. a + b \in Nat /\ {a, b} \subseteq 0 .. a + b /\ {a, b} # {}
    OBVIOUS
  <1>2. Max({a, b}) \in {a, b} /\ \A y \in {a, b} : y <= Max({a, b})
    BY <1>1, GreatestElement
  <1>3. PICK m \in {a, b} : m = Max({a, b}) /\ a <= m /\ b <= m
    BY <1>2
  <1> QED BY <1>3

\* One ascending sequence after another.
LEMMA ConcatFacts ==
    ASSUME NEW s \in Seq(Nat), NEW u \in Seq(Nat), Ascends(s), Ascends(u),
           \A i \in 1 .. Len(s), j \in 1 .. Len(u) : s[i] < u[j]
    PROVE  /\ s \o u \in Seq(Nat) /\ Ascends(s \o u)
           /\ \A o \in Nat : Has(s \o u, o) <=> Has(s, o) \/ Has(u, o)
  <1>1. PICK m, n \in Nat : m = Len(s) /\ n = Len(u)
    OBVIOUS
  <1>2. PICK v : v = s \o u
    OBVIOUS
  <1>3. /\ v \in Seq(Nat) /\ Len(v) = m + n
        /\ \A i \in 1 .. m : v[i] = s[i]
        /\ \A i \in 1 .. n : v[m + i] = u[i]
    BY <1>1, <1>2
  <1>4. ASSUME NEW i \in 1 .. m + n PROVE i \in 1 .. m \/ \E k \in 1 .. n : i = m + k
    <2>1. i \in 1 .. m \/ (i - m \in 1 .. n /\ i = m + (i - m))
      OBVIOUS
    <2> QED BY <2>1
  <1>5. Ascends(v)
    <2> SUFFICES ASSUME NEW i \in 1 .. m + n, NEW j \in 1 .. m + n, i < j PROVE v[i] < v[j]
      BY <1>3 DEF Ascends
    <2>1. CASE j \in 1 .. m
      <3>1. i \in 1 .. m
        BY <2>1
      <3>2. s[i] < s[j]
        BY <2>1, <3>1, <1>1 DEF Ascends
      <3> QED BY <2>1, <3>1, <3>2, <1>3
    <2>2. ASSUME NEW k \in 1 .. n, j = m + k PROVE v[i] < v[j]
      <3>1. CASE i \in 1 .. m
        BY <2>2, <3>1, <1>1, <1>3
      <3>2. ASSUME NEW h \in 1 .. n, i = m + h PROVE v[i] < v[j]
        <4>1. h < k
          BY <2>2, <3>2
        <4>2. u[h] < u[k]
          BY <4>1, <1>1 DEF Ascends
        <4> QED BY <2>2, <3>2, <4>2, <1>3
      <3> QED BY <3>1, <3>2, <1>4
    <2> QED BY <2>1, <2>2, <1>4
  <1>6. ASSUME NEW o \in Nat PROVE Has(v, o) <=> Has(s, o) \/ Has(u, o)
    <2>1. ASSUME Has(v, o) PROVE Has(s, o) \/ Has(u, o)
      <3>1. PICK i \in 1 .. m + n : v[i] = o
        BY <2>1, <1>3 DEF Has
      <3>2. CASE i \in 1 .. m
        BY <3>1, <3>2, <1>1, <1>3 DEF Has
      <3>3. ASSUME NEW k \in 1 .. n, i = m + k PROVE Has(u, o)
        BY <3>1, <3>3, <1>1, <1>3 DEF Has
      <3> QED BY <3>2, <3>3, <1>4
    <2>2. ASSUME Has(s, o) PROVE Has(v, o)
      <3>1. PICK i \in 1 .. m : s[i] = o
        BY <2>2, <1>1 DEF Has
      <3>2. i \in 1 .. Len(v) /\ v[i] = o
        BY <3>1, <1>3
      <3> QED BY <3>2 DEF Has
    <2>3. ASSUME Has(u, o) PROVE Has(v, o)
      <3>1. PICK k \in 1 .. n : u[k] = o
        BY <2>3, <1>1 DEF Has
      <3>2. m + k \in 1 .. Len(v) /\ v[m + k] = o
        BY <3>1, <1>3
      <3> QED BY <3>2 DEF Has
    <2> QED BY <2>1, <2>2, <2>3
  <1> QED BY <1>2, <1>3, <1>5, <1>6

\* The records of one batch.
Piece(b, from) == [i \in 1 .. b.last - Max({b.base, from}) + 1 |-> Max({b.base, from}) + i - 1]

LEMMA PieceFacts ==
    ASSUME NEW b \in Batches, NEW from \in Nat
    PROVE  /\ Piece(b, from) \in Seq(Nat) /\ Ascends(Piece(b, from))
           /\ \A o \in Nat : Has(Piece(b, from), o) <=> o >= from /\ o \in b.base .. b.last
  <1>1. b.base \in Nat /\ b.last \in Nat
    BY BatchFields
  <1>2. PICK x \in Nat : x = Max({b.base, from}) /\ x >= b.base /\ x >= from /\ x \in {b.base, from}
    BY <1>1, GreaterOfTwo
  <1>3. PICK y \in Nat : y = b.last
    BY <1>1
  <1>4. PICK n \in Nat : 1 .. n = 1 .. y - x + 1 /\ (y - x + 1 >= 0 => n = y - x + 1)
                         /\ (~(y - x + 1 >= 0) => n = 0)
    <2>1. CASE y - x + 1 >= 0
      <3>1. y - x + 1 \in Nat
        BY <2>1
      <3> QED BY <2>1, <3>1
    <2>2. CASE ~(y - x + 1 >= 0)
      <3>1. 1 .. 0 = 1 .. y - x + 1
        BY <2>2
      <3> QED BY <2>2, <3>1
    <2> QED BY <2>1, <2>2
  <1>5. PICK s : s = Piece(b, from)
    OBVIOUS
  <1>6. s = [i \in 1 .. n |-> x + i - 1]
    BY <1>2, <1>3, <1>4, <1>5 DEF Piece
  <1>7. \A i \in 1 .. n : x + i - 1 \in Nat
    OBVIOUS
  <1>8. s \in Seq(Nat) /\ Len(s) = n /\ \A i \in 1 .. n : s[i] = x + i - 1
    BY <1>6, <1>7
  <1>9. Ascends(s)
    <2> SUFFICES ASSUME NEW i \in 1 .. n, NEW j \in 1 .. n, i < j PROVE s[i] < s[j]
      BY <1>8 DEF Ascends
    <2>1. x + i - 1 < x + j - 1
      OBVIOUS
    <2> QED BY <2>1, <1>8
  <1>10. ASSUME NEW o \in Nat PROVE Has(s, o) <=> o >= from /\ o \in b.base .. b.last
    <2>1. ASSUME Has(s, o) PROVE o >= x /\ o <= y
      <3>1. PICK i \in 1 .. n : o = x + i - 1
        BY <2>1, <1>8 DEF Has
      <3>2. n = y - x + 1
        BY <1>4
      <3> QED BY <3>1, <3>2
    <2>2. ASSUME o >= x, o <= y PROVE Has(s, o)
      <3>1. y - x + 1 >= 0
        BY <2>2
      <3>2. o - x + 1 \in 1 .. n /\ x + (o - x + 1) - 1 = o
        BY <2>2, <3>1, <1>4
      <3> QED BY <3>2, <1>8 DEF Has
    <2>3. o >= x <=> o >= b.base /\ o >= from
      BY <1>1, <1>2
    <2>4. o \in b.base .. b.last <=> o >= b.base /\ o <= y
      BY <1>1, <1>3
    <2> QED BY <2>1, <2>2, <2>3, <2>4
  <1> QED BY <1>5, <1>8, <1>9, <1>10

Longer(out, b, from) == out \o Piece(b, from)

LEMMA RecordsFold ==
    ASSUME NEW from \in Nat, NEW w \in Seq(Batches)
    PROVE  \E h \in [0 .. Len(w) -> Seq(Nat)] :
              /\ h[0] = <<>> /\ RecordsOf(w, from) = h[Len(w)]
              /\ \A k \in 1 .. Len(w) : h[k] = Longer(h[k - 1], w[k], from)
  <1>0. PICK l \in Seq(Nat) : l = <<>>
    <2>1. <<>> \in Seq(Nat)
      OBVIOUS
    <2> QED BY <2>1
  <1> DEFINE T == Seq(Nat)
             n == Len(w)
             Step1(g, s) == IF s = {} THEN l ELSE Longer(g[s \ {Max(s)}], w[Max(s)], from)
             F == [p \in T \X (1 .. n) |-> Longer(p[1], w[p[2]], from)]
             iter == CHOOSE g : g = [s \in SUBSET (1 .. n) |-> Step1(g, s)]
  <1>1. n \in Nat /\ DOMAIN w = 1 .. n /\ \A k \in 1 .. n : w[k] \in Batches
    BY SeqFacts
  <1>2. RecordsOf(w, from) = iter[1 .. n]
    BY <1>0, <1>1 DEF FoldLeft, MapThenFoldSet, RecordsOf, Longer, Piece
  <1> HIDE DEF T, n
  <1>3. ASSUME NEW x \in T, NEW k \in 1 .. n
        PROVE  Longer(x, w[k], from) \in T /\ <<x, k>> \in T \X (1 .. n)
    <2>1. Piece(w[k], from) \in Seq(Nat)
      BY <1>1, PieceFacts
    <2> QED BY <2>1 DEF T, Longer
  <1>4. IsStep(F, T, n) /\ \A x \in T, k \in 1 .. n : F[<<x, k>>] = Longer(x, w[k], from)
    BY <1>3 DEF IsStep
  <1> HIDE DEF F
  <1>a. n \in Nat /\ l \in T
    BY <1>1 DEF T
  <1>5. PICK g : IsFold(g, F, l, T, n)
    <2> HIDE DEF iter, Step1
    <2> QED BY <1>a, <1>4, FoldExists
  <1>6. ASSUME NEW s \in SUBSET (1 .. n) PROVE g[s] = Step1(g, s)
    <2>1. CASE s = {}
      BY <1>5, <2>1 DEF FoldStep, IsFold
    <2>2. CASE s # {}
      <3>1. n \in 0 .. n
        BY <1>1
      <3>2. Max(s) \in 1 .. n /\ s \ {Max(s)} \in SUBSET (1 .. n)
        BY <2>2, <3>1, <1>1, BelowMax
      <3>3. g[s \ {Max(s)}] \in T
        BY <3>2, <1>5 DEF IsFold
      <3>4. F[<<g[s \ {Max(s)}], Max(s)>>] = Longer(g[s \ {Max(s)}], w[Max(s)], from)
        BY <3>2, <3>3, <1>4
      <3>5. g[s] = F[<<g[s \ {Max(s)}], Max(s)>>]
        BY <1>5, <2>2 DEF FoldStep, IsFold
      <3> QED BY <2>2, <3>4, <3>5
    <2> QED BY <2>1, <2>2
  <1>7. g = [s \in SUBSET (1 .. n) |-> Step1(g, s)]
    BY <1>5, <1>6 DEF IsFold
  <1>8. iter = [s \in SUBSET (1 .. n) |-> Step1(iter, s)]
    <2> HIDE DEF Step1
    <2> QED BY <1>7
  <1> HIDE DEF iter
  <1>9. iter[1 .. 0] = l
    <2>1. 1 .. 0 = {} /\ 1 .. 0 \in SUBSET (1 .. n)
      OBVIOUS
    <2>2. iter[1 .. 0] = Step1(iter, 1 .. 0)
      BY <1>8, <2>1
    <2> QED BY <2>1, <2>2
  <1>10. ASSUME NEW k \in 1 .. n, iter[1 .. k - 1] \in T
         PROVE  iter[1 .. k] = F[<<iter[1 .. k - 1], k>>]
    <2>1. 1 .. k \in SUBSET (1 .. n) /\ 1 .. k # {} /\ Max(1 .. k) = k /\ (1 .. k) \ {k} = 1 .. k - 1
      BY <1>1, UpTo
    <2>2. iter[1 .. k] = Step1(iter, 1 .. k)
      BY <1>8, <2>1
    <2>3. Step1(iter, 1 .. k) = Longer(iter[1 .. k - 1], w[k], from)
      BY <2>1
    <2> QED BY <2>2, <2>3, <1>4, <1>10
  <1>11. PICK h : IsRun(h, F, l, T, n) /\ iter[1 .. n] = h[n]
    <2>1. \A k \in 1 .. n : iter[1 .. k - 1] \in T => iter[1 .. k] = F[<<iter[1 .. k - 1], k>>]
      BY <1>10
    <2> HIDE DEF Step1
    <2> QED BY <2>1, <1>a, <1>4, <1>9, FoldRuns
  <1>12. h \in [0 .. n -> T] /\ h[0] = l /\ \A k \in 1 .. n : h[k] = F[<<h[k - 1], k>>]
    BY <1>11 DEF IsRun
  <1>13. ASSUME NEW k \in 1 .. n PROVE h[k] = Longer(h[k - 1], w[k], from)
    <2>1. k - 1 \in 0 .. n
      BY <1>1
    <2>2. h[k - 1] \in T
      BY <2>1, <1>12
    <2> QED BY <2>2, <1>12, <1>4
  <1>14. RecordsOf(w, from) = h[n]
    BY <1>2, <1>11
  <1> QED BY <1>0, <1>14, <1>12, <1>13 DEF T, n

\* The records of the first k batches, from an offset on.
Gathered(w, k, from, out) ==
    /\ out \in Seq(Nat) /\ Ascends(out)
    /\ \A o \in Nat : Has(out, o) <=> o >= from /\ \E a \in 1 .. k : o \in w[a].base .. w[a].last

LEMMA RecordsAreAll ==
    ASSUME NEW from \in Nat, NEW w \in Seq(Batches),
           \A a, b \in 1 .. Len(w) : a < b => w[a].last < w[b].base
    PROVE  Gathered(w, Len(w), from, RecordsOf(w, from))
  <1>1. PICK n \in Nat : n = Len(w) /\ \A k \in 1 .. n : w[k] \in Batches
    BY SeqFacts
  <1>2. PICK h \in [0 .. n -> Seq(Nat)] :
              /\ h[0] = <<>> /\ RecordsOf(w, from) = h[n]
              /\ \A k \in 1 .. n : h[k] = Longer(h[k - 1], w[k], from)
    BY <1>1, RecordsFold
  <1> DEFINE Good == {k \in 0 .. n : Gathered(w, k, from, h[k])}
  <1>3. 0 \in Good
    <2>1. PICK s : s = <<>>
      OBVIOUS
    <2>2. s \in Seq(Nat) /\ Len(s) = 0 /\ 1 .. 0 = {}
      BY <2>1
    <2>3. Gathered(w, 0, from, s)
      BY <2>2 DEF Gathered, Ascends, Has
    <2>4. 0 \in 0 .. n
      OBVIOUS
    <2> QED BY <2>1, <2>3, <2>4, <1>2
  <1>4. ASSUME NEW k \in 0 .. n - 1, k \in Good PROVE k + 1 \in Good
    <2>1. k + 1 \in 1 .. n /\ k + 1 \in 0 .. n /\ (k + 1) - 1 = k /\ k \in 0 .. n /\ k \in Nat
      <3> HIDE DEF Good
      <3> QED OBVIOUS
    <2>2. PICK s, u, b : s = h[k] /\ b = w[k + 1] /\ u = Piece(b, from)
      OBVIOUS
    <2>3. b \in Batches /\ h[k + 1] = s \o u
      BY <2>1, <2>2, <1>1, <1>2 DEF Longer
    <2>4. /\ s \in Seq(Nat) /\ Ascends(s)
          /\ \A o \in Nat : Has(s, o) <=> o >= from /\ \E a \in 1 .. k : o \in w[a].base .. w[a].last
      BY <2>2, <1>4 DEF Gathered
    <2>5. /\ u \in Seq(Nat) /\ Ascends(u)
          /\ \A o \in Nat : Has(u, o) <=> o >= from /\ o \in b.base .. b.last
      BY <2>2, <2>3, PieceFacts
    <2>6. ASSUME NEW i \in 1 .. Len(s), NEW j \in 1 .. Len(u) PROVE s[i] < u[j]
      <3>1. s[i] \in Nat /\ u[j] \in Nat
        BY <2>4, <2>5
      <3>2. Has(s, s[i]) /\ Has(u, u[j])
        BY DEF Has
      <3>3. PICK a \in 1 .. k : s[i] \in w[a].base .. w[a].last
        BY <2>4, <3>1, <3>2
      <3>4. u[j] \in b.base .. b.last
        BY <2>5, <3>1, <3>2
      <3>5. a \in 1 .. n /\ a < k + 1
        BY <2>1
      <3>6. w[a].last < b.base
        BY <2>1, <2>2, <3>5, <1>1
      <3>7. w[a].base \in Nat /\ w[a].last \in Nat /\ b.base \in Nat /\ b.last \in Nat
        BY <2>3, <3>5, <1>1, BatchFields
      <3>8. s[i] <= w[a].last
        BY <3>1, <3>3, <3>7
      <3>9. b.base <= u[j]
        BY <3>1, <3>4, <3>7
      <3>10. PICK p, q, r, z \in Nat : p = s[i] /\ q = w[a].last /\ r = b.base /\ z = u[j]
        BY <3>1, <3>7
      <3>11. p <= q /\ q < r /\ r <= z
        BY <3>6, <3>8, <3>9, <3>10
      <3>12. p < z
        BY <3>11
      <3> QED BY <3>10, <3>12
    <2>7. /\ s \o u \in Seq(Nat) /\ Ascends(s \o u)
          /\ \A o \in Nat : Has(s \o u, o) <=> Has(s, o) \/ Has(u, o)
      BY <2>4, <2>5, <2>6, ConcatFacts
    <2>8. ASSUME NEW o \in Nat
          PROVE  Has(s \o u, o) <=> o >= from /\ \E a \in 1 .. k + 1 : o \in w[a].base .. w[a].last
      <3>1. Has(s \o u, o) <=> \/ o >= from /\ \E a \in 1 .. k : o \in w[a].base .. w[a].last
                               \/ o >= from /\ o \in b.base .. b.last
        BY <2>4, <2>5, <2>7
      <3>2. \A a \in 1 .. k + 1 : a \in 1 .. k \/ a = k + 1
        BY <2>1
      <3>3. (\A a \in 1 .. k : a \in 1 .. k + 1) /\ k + 1 \in 1 .. k + 1
        BY <2>1
      <3>4. (\E a \in 1 .. k + 1 : o \in w[a].base .. w[a].last) <=>
               (\E a \in 1 .. k : o \in w[a].base .. w[a].last) \/ o \in b.base .. b.last
        BY <2>2, <3>2, <3>3
      <3> QED BY <3>1, <3>4
    <2>9. Gathered(w, k + 1, from, s \o u)
      BY <2>7, <2>8 DEF Gathered
    <2> QED BY <2>1, <2>3, <2>9
  <1>5. n \in Good
    <2> HIDE DEF Good
    <2>1. \A k \in 0 .. n : k \in Good
      BY <1>3, <1>4, CountUp
    <2> QED BY <2>1
  <1> QED BY <1>1, <1>2, <1>5

-----------------------------------------------------------------------------
(* The leader's answers.                                                     *)

LEMMA BaseOrder ==
    ASSUME NEW l, Chained(l), NEW i \in 1 .. Len(l), NEW j \in 1 .. Len(l)
    PROVE  /\ l[i].base < l[j].base => i < j
           /\ l[i].base = l[j].base => i = j
           /\ i < j => l[i].base < l[j].base /\ l[i].last < l[j].last /\ l[i].last < l[j].base
  <1>1. l \in Seq(Batches) /\ Len(l) \in Nat
    BY SeqFacts DEF Chained
  <1>2. /\ l[i].base \in Nat /\ l[i].last \in Nat /\ l[j].base \in Nat /\ l[j].last \in Nat
    BY <1>1, SeqFacts, BatchFields
  <1>3. /\ l[i].base <= l[i].last /\ l[j].base <= l[j].last
        /\ i < j => l[i].last < l[j].base
        /\ j < i => l[j].last < l[i].base
    BY DEF Chained
  <1>4. PICK a, b, c, d \in Nat : a = l[i].base /\ b = l[i].last /\ c = l[j].base /\ d = l[j].last
    BY <1>2
  <1>5. a <= b /\ c <= d /\ (i < j => b < c) /\ (j < i => d < a)
    BY <1>3, <1>4
  <1>6. (a < c => i < j) /\ (a = c => i = j) /\ (i < j => a < c /\ b < d /\ b < c)
    <2>1. i \in Int /\ j \in Int /\ (i < j \/ i = j \/ j < i)
      BY <1>1
    <2>2. CASE i < j
      BY <2>1, <2>2, <1>5
    <2>3. CASE i = j
      BY <2>1, <2>3, <1>4
    <2>4. CASE j < i
      BY <2>1, <2>4, <1>5
    <2> QED BY <2>1, <2>2, <2>3, <2>4
  <1> QED BY <1>4, <1>6

LEMMA ReadableFacts ==
    ASSUME NEW t, NEW l, Chained(l)
    PROVE  /\ Readable(t, l) \in Nat
           /\ t \in Committed => \A i \in 1 .. Len(l) :
                 l[i].kind = "txn" /\ l[i].base < Readable(t, l) => Decided(l, i) # 0
  <1>1. End(l) \in Nat
    BY EndIsNat DEF Chained
  <1>2. /\ LastStable(l) \in Nat
        /\ \A i \in 1 .. Len(l) :
              l[i].kind = "txn" /\ l[i].base < LastStable(l) => Decided(l, i) # 0
    BY StableFacts
  <1>3. CASE t \in Committed
    BY <1>2, <1>3 DEF Readable
  <1>4. CASE t \notin Committed
    BY <1>1, <1>4 DEF Readable
  <1> QED BY <1>3, <1>4

\* Where the batches of an answer to a fetch at offset from begin and end.
Covers(t, l, from, lo, hi) ==
    /\ hi \in 1 .. Len(l) /\ lo \in 1 .. hi
    /\ l[hi].base < Readable(t, l) /\ l[hi].last >= from
    /\ \A d \in 1 .. Len(l) : /\ l[d].base >= from => d >= lo
                              /\ d > lo => l[d].base >= from
                              /\ d <= hi /\ l[d].last >= from => d >= lo

LEMMA AvailableFacts ==
    ASSUME Chained(log), NEW t, NEW from \in Nat, NEW hi \in Available(t, from)
    PROVE  Covers(t, log, from, Min(Available(t, from)), hi)
  <1>0. log \in Seq(Batches) /\ Len(log) \in Nat /\ DOMAIN log = 1 .. Len(log)
    BY SeqFacts DEF Chained
  <1>1. PICK S : S = Available(t, from)
    OBVIOUS
  <1>2. PICK R \in Nat : R = Readable(t, log)
    BY ReadableFacts
  <1>3. \A i : i \in S <=> i \in 1 .. Len(log) /\ log[i].last >= from /\ log[i].base < R
    BY <1>0, <1>1, <1>2 DEF Available
  <1>4. S \subseteq Nat /\ hi \in S /\ S # {}
    BY <1>0, <1>1, <1>3
  <1>5. PICK lo \in S : lo = Min(S) /\ \A y \in S : lo <= y
    BY <1>4, LeastElement
  <1>6. hi \in 1 .. Len(log) /\ lo \in 1 .. hi /\ lo \in 1 .. Len(log) /\ lo <= hi
    <2>1. hi \in 1 .. Len(log) /\ lo \in 1 .. Len(log) /\ lo <= hi
      BY <1>3, <1>4, <1>5
    <2> QED BY <2>1, <1>0
  <1>7. log[hi].base < R /\ log[hi].last >= from /\ log[lo].last >= from
    BY <1>3, <1>4, <1>5
  <1>8. \A i \in 1 .. Len(log) : log[i].base \in Nat /\ log[i].last \in Nat
    BY <1>0, SeqFacts, BatchFields
  <1>9. ASSUME NEW d \in 1 .. Len(log), d <= hi, log[d].last >= from PROVE d >= lo
    <2>1. d = hi \/ log[d].base < log[hi].base
      BY <1>0, <1>6, <1>9, BaseOrder
    <2>2. PICK x, y \in Nat : x = log[d].base /\ y = log[hi].base
      BY <1>6, <1>8
    <2>3. (x = y \/ x < y) /\ y < R
      BY <2>1, <2>2, <1>7
    <2>4. x < R
      BY <2>3
    <2>5. d \in S
      BY <2>2, <2>4, <1>3, <1>9
    <2>6. lo <= d
      BY <2>5, <1>5
    <2> QED BY <2>6, <1>6
  <1>10. ASSUME NEW d \in 1 .. Len(log), d > lo PROVE log[d].base >= from
    <2>1. log[lo].last < log[d].base
      BY <1>6, <1>10, BaseOrder
    <2>2. PICK x, y \in Nat : x = log[lo].last /\ y = log[d].base
      BY <1>6, <1>8
    <2>3. x < y /\ x >= from
      BY <2>1, <2>2, <1>7
    <2>4. y >= from
      BY <2>3
    <2> QED BY <2>2, <2>4
  <1>11. ASSUME NEW d \in 1 .. Len(log), log[d].base >= from PROVE d >= lo
    <2>1. CASE d > hi
      BY <2>1, <1>6
    <2>2. CASE d <= hi
      <3>1. log[d].last >= from
        <4>1. log[d].base <= log[d].last
          BY DEF Chained
        <4>2. PICK x, y \in Nat : x = log[d].base /\ y = log[d].last
          BY <1>8
        <4>3. x <= y /\ x >= from
          BY <4>1, <4>2, <1>11
        <4>4. y >= from
          BY <4>3
        <4> QED BY <4>2, <4>4
      <3> QED BY <2>2, <3>1, <1>9
    <2> QED BY <2>1, <2>2, <1>6
  <1>12. Covers(t, log, from, lo, hi)
    BY <1>2, <1>6, <1>7, <1>9, <1>10, <1>11 DEF Covers
  <1> QED BY <1>1, <1>5, <1>12

\* The batches that opened the transactions an answer lists.
Listed(l, from, hi) ==
    {j \in Openers(l) : /\ j <= hi
                        /\ Decided(l, j) # 0
                        /\ l[Decided(l, j)].kind = "abort"
                        /\ l[Decided(l, j)].base >= from}
Entry(l, i) == [pid |-> l[i].pid, first |-> l[i].base]

LEMMA EntryFacts ==
    ASSUME NEW l, Chained(l), NEW i \in Openers(l), NEW j \in Openers(l)
    PROVE  /\ Entry(l, i) \in Entries
           /\ Entry(l, i).pid = l[i].pid /\ Entry(l, i).first = l[i].base
           /\ Entry(l, i).first = Entry(l, j).first => i = j
  <1>1. l \in Seq(Batches)
    BY DEF Chained
  <1>2. i \in 1 .. Len(l) /\ j \in 1 .. Len(l) /\ l[i].base \in Nat /\ l[i].pid \in Int
    BY <1>1, OpenerFacts
  <1>3. Entry(l, i).pid = l[i].pid /\ Entry(l, i).first = l[i].base /\ Entry(l, j).first = l[j].base
    BY DEF Entry
  <1>4. Entry(l, i) \in Entries
    BY <1>2 DEF Entry, Entries
  <1> QED BY <1>2, <1>3, <1>4, BaseOrder

LEMMA ListedIsFinite ==
    ASSUME NEW l, Chained(l), NEW from, NEW hi
    PROVE  IsFiniteSet({Entry(l, i) : i \in Listed(l, from, hi)})
  <1>1. Len(l) \in Nat /\ l \in Seq(Batches)
    BY SeqFacts DEF Chained
  <1>2. PICK O : O = Listed(l, from, hi)
    OBVIOUS
  <1>3. O \in SUBSET (1 .. Len(l))
    BY <1>1, <1>2, OpenerFacts DEF Listed
  <1>4. IsFiniteSet(O)
    <2>1. IsFiniteSet(1 .. Len(l))
      BY <1>1, FS_Interval
    <2> QED BY <2>1, <1>3, FS_Subset
  <1> DEFINE T == {Entry(l, i) : i \in O}
             f == [i \in O |-> Entry(l, i)]
  <1>5. f \in Surjection(O, T)
    BY DEF Surjection
  <1>6. IsFiniteSet(T)
    <2> HIDE DEF f, T
    <2> QED BY <1>4, <1>5, FS_Surjection
  <1> QED BY <1>2, <1>6

LEMMA ListingExists ==
    ASSUME Chained(log), NEW t, NEW from \in Nat, NEW lo, NEW hi, Covers(t, log, from, lo, hi),
           NEW a \in SetToSeqs(AbortedIn(from, hi))
    PROVE  \E J : Listing(log, lo, hi, InOrder(a), J)
  <1>1. PICK l : l = log
    OBVIOUS
  <1>2. Chained(l) /\ Covers(t, l, from, lo, hi) /\ l \in Seq(Batches) /\ Len(l) \in Nat
    BY <1>1, SeqFacts DEF Chained
  <1>3. /\ hi \in 1 .. Len(l) /\ lo \in 1 .. hi /\ hi \in Nat /\ lo \in Nat
        /\ \A d \in 1 .. Len(l) : /\ l[d].base >= from => d >= lo
                                  /\ d > lo => l[d].base >= from
    <2>1. /\ hi \in 1 .. Len(l) /\ lo \in 1 .. hi
          /\ \A d \in 1 .. Len(l) : /\ l[d].base >= from => d >= lo
                                    /\ d > lo => l[d].base >= from
      BY <1>2 DEF Covers
    <2> QED BY <2>1, <1>2
  <1>4. PICK O : O = Listed(l, from, hi)
    OBVIOUS
  <1>5. PICK S : S = {Entry(l, i) : i \in O}
    OBVIOUS
  <1>6. S = AbortedIn(from, hi)
    BY <1>1, <1>4, <1>5 DEF AbortedIn, Listed, Entry
  <1>7. \A j : j \in O <=> /\ j \in Openers(l) /\ j <= hi /\ Decided(l, j) # 0
                           /\ l[Decided(l, j)].kind = "abort"
                           /\ l[Decided(l, j)].base >= from
    BY <1>4 DEF Listed
  <1>8. IsFiniteSet(S) /\ a \in SetToSeqs(S)
    <2>1. IsFiniteSet({Entry(l, i) : i \in Listed(l, from, hi)})
      BY <1>2, ListedIsFinite
    <2>2. S = {Entry(l, i) : i \in Listed(l, from, hi)}
      BY <1>4, <1>5
    <2>3. IsFiniteSet(S)
      BY <2>1, <2>2
    <2> QED BY <2>3, <1>6
  <1>9. PICK n \in Nat : n = Cardinality(S)
    BY <1>8, FS_CardinalityType
  <1>10. /\ a \in [1 .. n -> S] /\ \A i, j \in 1 .. n : a[i] = a[j] => i = j
         /\ \A x \in S : \E i \in 1 .. n : a[i] = x
    BY <1>8, <1>9, ListingIsWhole
  <1>11. \A i \in 1 .. n : \E x \in O : a[i] = Entry(l, x)
    BY <1>5, <1>10
  <1>12. \A x, y \in O : /\ Entry(l, x) \in Entries /\ Entry(l, x).pid = l[x].pid
                         /\ Entry(l, x).first = l[x].base
                         /\ Entry(l, x).first = Entry(l, y).first => x = y
    BY <1>2, <1>7, EntryFacts
  <1>13. a \in Seq(Entries) /\ Len(a) = n
    <2>1. \A i \in 1 .. n : a[i] \in Entries
      BY <1>11, <1>12
    <2>2. a = [i \in 1 .. n |-> a[i]]
      BY <1>10
    <2> QED BY <2>1, <2>2
  <1>14. ASSUME NEW i \in 1 .. Len(a), NEW j \in 1 .. Len(a), a[i].first = a[j].first PROVE i = j
    <2>1. PICK x \in O : a[i] = Entry(l, x)
      BY <1>11, <1>13
    <2>2. PICK y \in O : a[j] = Entry(l, y)
      BY <1>11, <1>13
    <2>3. x = y
      BY <2>1, <2>2, <1>12, <1>14
    <2> QED BY <2>1, <2>2, <2>3, <1>10, <1>13
  <1>15. PICK A : A = InOrder(a)
    OBVIOUS
  <1>16. /\ A \in Seq(Entries) /\ Len(A) = n
         /\ \A j, k \in 1 .. n : j < k => A[j].first < A[k].first
         /\ \A i \in 1 .. n : \E k \in 1 .. n : A[k] = a[i]
         /\ \A k \in 1 .. n : \E i \in 1 .. n : A[k] = a[i]
    BY <1>13, <1>14, <1>15, InOrderFacts
  <1>17. \A k \in 1 .. n : \E x \in O : A[k] = Entry(l, x)
    <2> SUFFICES ASSUME NEW k \in 1 .. n PROVE \E x \in O : A[k] = Entry(l, x)
      OBVIOUS
    <2>1. PICK i \in 1 .. n : A[k] = a[i]
      BY <1>16
    <2> QED BY <2>1, <1>11
  <1> DEFINE J == [k \in 1 .. n |-> CHOOSE x \in O : A[k] = Entry(l, x)]
  <1>18. \A k \in 1 .. n : J[k] \in O /\ A[k] = Entry(l, J[k])
    BY <1>17
  <1> HIDE DEF J
  <1>19. ASSUME NEW i \in 1 .. n
         PROVE  /\ J[i] \in 1 .. hi /\ l[J[i]].kind = "txn"
                /\ A[i].pid = l[J[i]].pid /\ A[i].first = l[J[i]].base
                /\ Decided(l, J[i]) # 0 /\ Decided(l, J[i]) >= lo
                /\ l[Decided(l, J[i])].kind = "abort"
    <2>1. PICK x \in O : x = J[i] /\ A[i] = Entry(l, x)
      BY <1>18
    <2>2. /\ x \in Openers(l) /\ x <= hi /\ Decided(l, x) # 0
          /\ l[Decided(l, x)].kind = "abort" /\ l[Decided(l, x)].base >= from
      BY <1>7
    <2>3. x \in 1 .. Len(l) /\ l[x].kind = "txn"
      BY <2>2, <1>2, OpenerFacts
    <2>4. x \in 1 .. hi
      BY <2>2, <2>3, <1>3
    <2>5. Decided(l, x) \in 1 .. Len(l)
      <3>1. Decided(l, x) \in x + 1 .. Len(l)
        BY <2>2, <2>3, <1>2, DecidedFacts
      <3> QED BY <3>1, <2>3, <1>2
    <2>6. Decided(l, x) >= lo
      BY <2>2, <2>5, <1>3
    <2>7. A[i].pid = l[x].pid /\ A[i].first = l[x].base
      BY <2>1, <1>12
    <2> QED BY <2>1, <2>2, <2>3, <2>4, <2>6, <2>7
  <1>20. ASSUME NEW i \in 1 .. n, NEW k \in 1 .. n, i < k PROVE J[i] < J[k]
    <2>1. l[J[i]].base < l[J[k]].base
      BY <1>16, <1>19, <1>20
    <2>2. J[i] \in 1 .. Len(l) /\ J[k] \in 1 .. Len(l)
      <3>1. J[i] \in 1 .. hi /\ J[k] \in 1 .. hi
        BY <1>19
      <3> QED BY <3>1, <1>2, <1>3
    <2> QED BY <2>1, <2>2, <1>2, BaseOrder
  <1>21. ASSUME NEW j \in Openers(l), j <= hi, Decided(l, j) > lo, l[Decided(l, j)].kind = "abort"
         PROVE  \E i \in 1 .. n : J[i] = j
    <2>1. j \in 1 .. Len(l)
      BY <1>2, OpenerFacts
    <2>2. Decided(l, j) \in Nat /\ Decided(l, j) # 0
      BY <2>1, <1>2, <1>3, <1>21, DecidedFacts
    <2>3. Decided(l, j) \in 1 .. Len(l)
      <3>1. Decided(l, j) \in j + 1 .. Len(l)
        BY <2>1, <2>2, <1>2, DecidedFacts
      <3> QED BY <3>1, <2>1, <1>2
    <2>4. l[Decided(l, j)].base >= from
      BY <2>3, <1>3, <1>21
    <2>5. j \in O
      BY <2>2, <2>4, <1>7, <1>21
    <2>6. PICK i \in 1 .. n : a[i] = Entry(l, j)
      BY <2>5, <1>5, <1>10
    <2>7. PICK k \in 1 .. n : A[k] = a[i]
      BY <1>16
    <2>8. J[k] \in O /\ Entry(l, J[k]) = Entry(l, j)
      BY <2>6, <2>7, <1>18
    <2>9. J[k] = j
      BY <2>5, <2>8, <1>12
    <2> QED BY <2>9
  <1>22. Listing(l, lo, hi, A, J)
    BY <1>2, <1>3, <1>16, <1>19, <1>20, <1>21 DEF Listing
  <1> QED BY <1>1, <1>15, <1>22

-----------------------------------------------------------------------------
(* What an answer gives its reader.                                          *)

OwedIn(t, l, a, b) ==
    {o \in a .. b - 1 : \E i \in 1 .. Len(l) : o \in l[i].base .. l[i].last /\ Shown(t, l, i)}

\* Nothing written later changes what the reader is owed below offset p.
Settled(t, l, p) ==
    /\ p <= End(l)
    /\ t \in Committed => \A i \in 1 .. Len(l) :
          l[i].kind = "txn" /\ l[i].base < p => Decided(l, i) # 0

\* A step from offset p to q that brings the records out.
Advance(t, l, p, q, out) ==
    /\ q \in Nat /\ p <= q
    /\ out \in Seq(Nat) /\ Ascends(out)
    /\ \A o \in Nat : Has(out, o) <=> o \in OwedIn(t, l, p, q)
    /\ q # p => Settled(t, l, q)

LEMMA NextIs ==
    ASSUME NEW l, Chained(l), NEW hi \in 1 .. Len(l), NEW lo \in 1 .. hi, NEW from \in Nat,
           l[hi].last >= from
    PROVE  NextOffset(SubSeq(l, lo, hi), from) = l[hi].last + 1
  <1>1. l \in Seq(Batches) /\ Len(l) \in Nat
    BY SeqFacts DEF Chained
  <1>2. PICK w : w = SubSeq(l, lo, hi)
    OBVIOUS
  <1>3. PICK N \in Nat : N = hi - lo + 1
    BY <1>1
  <1>4. /\ w \in Seq(Batches) /\ Len(w) = N
        /\ \A k \in 1 .. N : lo - 1 + k \in lo .. hi /\ w[k] = l[lo - 1 + k]
    BY <1>1, <1>2, <1>3, PartFacts
  <1>5. N \in 1 .. N /\ lo - 1 + N = hi
    BY <1>1, <1>3
  <1>6. PICK n \in Nat : n = l[hi].last + 1
    <2>1. l[hi].last \in Nat
      BY <1>1, SeqFacts, BatchFields
    <2> QED BY <2>1
  <1> DEFINE S == {from} \cup {b.last + 1 : b \in ToSet(w)}
  <1>7. NextOffset(w, from) = Max(S)
    BY DEF NextOffset
  <1>8. \A b : b \in ToSet(w) <=> \E k \in 1 .. N : b = w[k]
    <2>1. DOMAIN w = 1 .. N
      BY <1>4
    <2> QED BY <2>1 DEF ToSet
  <1>9. n \in S
    <2>1. w[N] = l[hi]
      BY <1>4, <1>5
    <2>2. l[hi] \in ToSet(w)
      BY <2>1, <1>5, <1>8
    <2> QED BY <2>2, <1>6
  <1>10. ASSUME NEW k \in 1 .. N PROVE w[k].last + 1 \in 0 .. n
    <2>1. PICK i \in lo .. hi : w[k] = l[i]
      BY <1>4
    <2>2. i \in 1 .. Len(l) /\ i <= hi
      BY <1>1
    <2>3. l[i].last \in Nat /\ l[hi].last \in Nat
      BY <1>1, <2>2, SeqFacts, BatchFields
    <2>4. i = hi \/ l[i].last < l[hi].last
      BY <2>2, <1>1, BaseOrder
    <2>5. PICK x, y \in Nat : x = l[i].last /\ y = l[hi].last
      BY <2>3
    <2>6. (x = y \/ x < y) /\ n = y + 1
      BY <2>4, <2>5, <1>6
    <2>7. x + 1 \in 0 .. n
      BY <2>6
    <2> QED BY <2>1, <2>5, <2>7
  <1>11. from \in 0 .. n
    <2>1. PICK y \in Nat : y = l[hi].last
      BY <1>1, SeqFacts, BatchFields
    <2>2. y >= from /\ n = y + 1
      BY <2>1, <1>6
    <2> QED BY <2>2
  <1>12. S \subseteq 0 .. n
    BY <1>8, <1>10, <1>11
  <1> HIDE DEF S
  <1>13. Max(S) \in S /\ n <= Max(S)
    BY <1>9, <1>12, GreatestElement
  <1>14. Max(S) = n
    <2>1. PICK x : x = Max(S)
      OBVIOUS
    <2>2. x \in 0 .. n /\ n <= x
      BY <2>1, <1>12, <1>13
    <2>3. x = n
      BY <2>2
    <2> QED BY <2>1, <2>3
  <1> QED BY <1>2, <1>6, <1>7, <1>14

\* An answer without batches.
LEMMA EmptyAnswer ==
    ASSUME NEW t, NEW l, NEW p \in Nat, NEW a \in SetToSeqs({})
    PROVE  Advance(t, l, p, NextOffset(<<>>, p), RecordsOf(FilteredFor(t, <<>>, a), p))
  <1>1. NextOffset(<<>>, p) = p
    <2>1. {p} \cup {b.last + 1 : b \in ToSet(<<>>)} = {p, p}
      BY DEF ToSet
    <2>2. NextOffset(<<>>, p) = Max({p, p})
      BY <2>1 DEF NextOffset
    <2> QED BY <2>2, GreaterOfTwo
  <1>2. a \in Seq(Entries) /\ Len(a) = 0
    <2>1. IsFiniteSet({}) /\ Cardinality({}) = 0
      BY FS_EmptySet
    <2>2. a \in [1 .. 0 -> {}]
      BY <2>1 DEF SetToSeqs
    <2>3. a = <<>>
      BY <2>2
    <2> QED BY <2>3
  <1>3. InOrder(a) \in Seq(Entries)
    <2>1. \A i, j \in 1 .. Len(a) : a[i].first = a[j].first => i = j
      <3>1. 1 .. Len(a) = {}
        BY <1>2
      <3> QED BY <3>1
    <2> QED BY <2>1, <1>2, InOrderFacts
  <1>4. Untouched(t, a) \in States
    <2>1. PICK x \in Seq(Batches) : x = <<>>
      <3>1. <<>> \in Seq(Batches)
        OBVIOUS
      <3> QED BY <3>1
    <2>2. PICK y \in SUBSET Int : y = {}
      OBVIOUS
    <2>3. PICK z \in Seq(Entries) : z = IF t \in Committed THEN InOrder(a) ELSE <<>>
      <3>1. <<>> \in Seq(Entries)
        OBVIOUS
      <3> QED BY <3>1, <1>3
    <2>4. [aborted |-> z, disowned |-> y, kept |-> x] \in States
      BY DEF States
    <2> QED BY <2>1, <2>2, <2>3, <2>4 DEF Untouched
  <1>5. FilteredFor(t, <<>>, a) = <<>>
    <2>1. PICK w \in Seq(Batches) : w = <<>> /\ Len(w) = 0
      <3>1. <<>> \in Seq(Batches) /\ Len(<<>>) = 0
        OBVIOUS
      <3> QED BY <3>1
    <2>2. PICK h : h[0] = Untouched(t, a) /\ FilteredFor(t, w, a) = h[Len(w)].kept
      BY <1>4, FilterFold
    <2> QED BY <2>1, <2>2 DEF Untouched
  <1>6. PICK w \in Seq(Batches) : w = <<>> /\ Len(w) = 0
    <2>1. <<>> \in Seq(Batches) /\ Len(<<>>) = 0
      OBVIOUS
    <2> QED BY <2>1
  <1>7. Gathered(w, 0, p, RecordsOf(w, p))
    <2>1. \A i, j \in 1 .. Len(w) : i < j => w[i].last < w[j].base
      BY <1>6
    <2> QED BY <2>1, <1>6, RecordsAreAll
  <1>8. PICK out : out = RecordsOf(w, p)
    OBVIOUS
  <1>9. out \in Seq(Nat) /\ Ascends(out) /\ \A o \in Nat : ~Has(out, o)
    <2>1. 1 .. 0 = {}
      OBVIOUS
    <2> QED BY <2>1, <1>7, <1>8 DEF Gathered
  <1>10. OwedIn(t, l, p, p) = {}
    <2>1. p .. p - 1 = {}
      OBVIOUS
    <2> QED BY <2>1 DEF OwedIn
  <1>11. Advance(t, l, p, p, out)
    BY <1>9, <1>10 DEF Advance
  <1> QED BY <1>1, <1>5, <1>6, <1>8, <1>11

\* The batches kept from lo to hi hold what is owed from offset p on.
LEMMA KeptIsOwed ==
    ASSUME NEW t, NEW l, Chained(l), NEW p \in Nat, NEW lo, NEW hi, Covers(t, l, p, lo, hi),
           NEW kept, IsKept(t, l, lo, hi, kept)
    PROVE  Advance(t, l, p, l[hi].last + 1, RecordsOf(kept, p))
  <1>0. l \in Seq(Batches) /\ Len(l) \in Nat
    BY SeqFacts DEF Chained
  <1>1. /\ hi \in 1 .. Len(l) /\ lo \in 1 .. hi /\ l[hi].base < Readable(t, l) /\ l[hi].last >= p
        /\ \A d \in 1 .. Len(l) : d <= hi /\ l[d].last >= p => d >= lo
    BY DEF Covers
  <1>2. \A i \in 1 .. Len(l) : l[i].base \in Nat /\ l[i].last \in Nat
    BY <1>0, SeqFacts, BatchFields
  <1>3. PICK y \in Nat : y = l[hi].last
    BY <1>1, <1>2
  <1>4. kept \in Seq(Batches) /\ Gathered(kept, Len(kept), p, RecordsOf(kept, p))
    BY RecordsAreAll DEF IsKept
  <1>5. PICK out : out = RecordsOf(kept, p)
    OBVIOUS
  <1>6. /\ out \in Seq(Nat) /\ Ascends(out)
        /\ \A o \in Nat : Has(out, o) <=>
              o >= p /\ \E a \in 1 .. Len(kept) : o \in kept[a].base .. kept[a].last
    BY <1>4, <1>5 DEF Gathered
  <1>7. ASSUME NEW o \in Nat
        PROVE  (\E a \in 1 .. Len(kept) : o \in kept[a].base .. kept[a].last) <=>
               \E i \in lo .. hi : o \in l[i].base .. l[i].last /\ Shown(t, l, i)
    <2>1. ASSUME NEW a \in 1 .. Len(kept), o \in kept[a].base .. kept[a].last
          PROVE  \E i \in lo .. hi : o \in l[i].base .. l[i].last /\ Shown(t, l, i)
      <3>1. PICK i \in lo .. hi : Shown(t, l, i) /\ kept[a] = l[i]
        BY DEF IsKept
      <3> QED BY <2>1, <3>1
    <2>2. ASSUME NEW i \in lo .. hi, o \in l[i].base .. l[i].last, Shown(t, l, i)
          PROVE  \E a \in 1 .. Len(kept) : o \in kept[a].base .. kept[a].last
      <3>1. PICK a \in 1 .. Len(kept) : kept[a] = l[i]
        BY <2>2 DEF IsKept
      <3> QED BY <2>2, <3>1
    <2> QED BY <2>1, <2>2
  <1>8. ASSUME NEW o \in Nat
        PROVE  o \in OwedIn(t, l, p, y + 1) <=>
               o >= p /\ \E i \in lo .. hi : o \in l[i].base .. l[i].last /\ Shown(t, l, i)
    <2>1. ASSUME o \in OwedIn(t, l, p, y + 1)
          PROVE  o >= p /\ \E i \in lo .. hi : o \in l[i].base .. l[i].last /\ Shown(t, l, i)
      <3>1. o \in p .. (y + 1) - 1
        BY <2>1 DEF OwedIn
      <3>2. PICK i \in 1 .. Len(l) : o \in l[i].base .. l[i].last /\ Shown(t, l, i)
        BY <2>1 DEF OwedIn
      <3>3. PICK b, e \in Nat : b = l[i].base /\ e = l[i].last
        BY <1>2
      <3>4. o >= p /\ o <= y /\ b <= o /\ o <= e
        BY <3>1, <3>2, <3>3
      <3>5. b <= y /\ e >= p
        BY <3>4
      <3>6. i <= hi
        <4>1. l[i].base <= l[hi].last
          BY <3>3, <3>5, <1>3
        <4> QED BY <4>1, <1>1, BasesAscend
      <3>7. i >= lo
        BY <3>3, <3>5, <3>6, <1>1
      <3>8. i \in lo .. hi
        BY <3>6, <3>7, <1>0, <1>1
      <3> QED BY <3>2, <3>4, <3>8
    <2>2. ASSUME NEW i \in lo .. hi, o >= p, o \in l[i].base .. l[i].last, Shown(t, l, i)
          PROVE  o \in OwedIn(t, l, p, y + 1)
      <3>1. i \in 1 .. Len(l) /\ i <= hi
        BY <1>0, <1>1
      <3>2. PICK b, e \in Nat : b = l[i].base /\ e = l[i].last
        BY <3>1, <1>2
      <3>3. i = hi \/ l[i].last < l[hi].last
        BY <3>1, <1>1, BaseOrder
      <3>4. (e = y \/ e < y) /\ o <= e
        BY <2>2, <3>2, <3>3, <1>3
      <3>5. o \in p .. (y + 1) - 1
        BY <2>2, <3>4
      <3> QED BY <2>2, <3>1, <3>5 DEF OwedIn
    <2> QED BY <2>1, <2>2
  <1>9. Settled(t, l, y + 1)
    <2>1. y + 1 <= End(l)
      <3>1. y < End(l) /\ End(l) \in Nat
        BY <1>0, <1>1, <1>3, EndIsPast, EndIsNat
      <3> QED BY <3>1
    <2>2. ASSUME t \in Committed, NEW i \in 1 .. Len(l), l[i].kind = "txn", l[i].base < y + 1
          PROVE  Decided(l, i) # 0
      <3>1. PICK b, c, R \in Nat : b = l[i].base /\ c = l[hi].base /\ R = Readable(t, l)
        BY <1>1, <1>2, ReadableFacts
      <3>2. b <= y
        BY <2>2, <3>1
      <3>3. i <= hi
        BY <3>1, <3>2, <1>1, <1>3, BasesAscend
      <3>4. i = hi \/ l[i].base < l[hi].base
        BY <3>3, <1>1, BaseOrder
      <3>5. (b = c \/ b < c) /\ c < R
        BY <3>1, <3>4, <1>1
      <3>6. b < R
        BY <3>5
      <3> QED BY <2>2, <3>1, <3>6, ReadableFacts
    <2> QED BY <2>1, <2>2 DEF Settled
  <1>10. p <= y + 1 /\ y + 1 \in Nat
    BY <1>1, <1>3
  <1>11. Advance(t, l, p, y + 1, out)
    BY <1>6, <1>7, <1>8, <1>9, <1>10 DEF Advance
  <1> QED BY <1>3, <1>5, <1>11

\* The one list of nothing.
LEMMA NothingListed == <<>> \in SetToSeqs({})
  <1>1. Cardinality({}) = 0
    BY FS_EmptySet
  <1>2. <<>> \in [1 .. Cardinality({}) -> {}]
    BY <1>1
  <1> QED
    BY <1>1, <1>2 DEF SetToSeqs

\* Every answer the leader may give to a fetch.
LEMMA FetchedAdvances ==
    ASSUME Chained(log), NEW t, NEW p \in Nat, p = pos[t], NEW r \in FetchReplies(t)
    PROVE  Advance(t, log, p, NextOffset(r.batches, p),
                   RecordsOf(FilteredFor(t, r.batches, r.aborted), p))
  <1> DEFINE lots == Available(t, p)
  <1>0. log \in Seq(Batches) /\ Len(log) \in Nat /\ DOMAIN log = 1 .. Len(log)
    BY SeqFacts DEF Chained
  <1> DEFINE ends == IF lots = {} THEN {0} ELSE lots
             Lists(hi) == IF t \in Committed THEN SetToSeqs(AbortedIn(p, hi)) ELSE {<<>>}
             Of(hi) == {[batches |-> IF hi = 0 THEN <<>> ELSE SubSeq(log, Min(lots), hi),
                         aborted |-> a] : a \in Lists(hi)}
  <1>1. FetchReplies(t) = UNION {Of(hi) : hi \in ends}
    BY DEF FetchReplies
  <1>2. PICK hi \in ends : r \in Of(hi)
    <2> HIDE DEF Of, ends
    <2> QED BY <1>1
  <1>3. PICK a \in IF t \in Committed THEN SetToSeqs(AbortedIn(p, hi)) ELSE {<<>>} :
            r = [batches |-> IF hi = 0 THEN <<>> ELSE SubSeq(log, Min(lots), hi), aborted |-> a]
    BY <1>2
  <1>4. r.aborted = a /\ r.batches = IF hi = 0 THEN <<>> ELSE SubSeq(log, Min(lots), hi)
    BY <1>3
  <1>5. CASE lots = {}
    <2>1. hi = 0 /\ r.batches = <<>>
      BY <1>2, <1>4, <1>5
    <2>2. ASSUME t \in Committed PROVE a \in SetToSeqs({})
      <3>1. \A j \in Openers(log) : ~(j <= 0)
        <4>1. \A j \in Openers(log) : j \in 1 .. Len(log)
          BY <1>0, OpenerFacts
        <4> QED BY <4>1, <1>0
      <3>2. AbortedIn(p, 0) = {}
        BY <3>1 DEF AbortedIn
      <3> QED BY <2>1, <2>2, <3>2, <1>3
    <2>3. ASSUME t \notin Committed PROVE a \in SetToSeqs({})
      <3>1. a = <<>>
        BY <1>3, <2>3
      <3> QED BY <3>1, NothingListed
    <2> QED BY <2>1, <2>2, <2>3, <1>4, EmptyAnswer
  <1>6. CASE lots # {}
    <2>1. hi \in lots
      BY <1>2, <1>6
    <2>2. PICK lo : lo = Min(lots)
      OBVIOUS
    <2>3. Covers(t, log, p, lo, hi)
      BY <2>1, <2>2, AvailableFacts
    <2>4. /\ hi \in 1 .. Len(log) /\ lo \in 1 .. hi
          /\ log[hi].base < Readable(t, log) /\ log[hi].last >= p
      BY <2>3 DEF Covers
    <2>5. hi # 0
      BY <2>4, <1>0
    <2>6. r.batches = SubSeq(log, lo, hi)
      BY <1>4, <2>2, <2>5
    <2>7. IsKept(t, log, lo, hi, FilteredFor(t, SubSeq(log, lo, hi), a))
      <3>1. CASE t \notin Committed
        BY <3>1, <2>4, FilterIsPlain
      <3>2. CASE t \in Committed
        <4>1. a \in SetToSeqs(AbortedIn(p, hi))
          BY <1>3, <3>2
        <4>2. PICK J : Listing(log, lo, hi, InOrder(a), J)
          BY <4>1, <2>3, ListingExists
        <4>3. ASSUME NEW i \in 1 .. hi, log[i].kind = "txn" PROVE Decided(log, i) # 0
          <5>1. i \in 1 .. Len(log)
            BY <2>4, <1>0
          <5>2. i < hi \/ i = hi
            BY <2>4
          <5>3. log[i].base < log[hi].base \/ i = hi
            BY <5>1, <5>2, <2>4, BaseOrder
          <5>4. PICK x, y, z \in Nat : x = log[i].base /\ y = log[hi].base /\ z = Readable(t, log)
            BY <5>1, <2>4, <1>0, SeqFacts, BatchFields, ReadableFacts
          <5>5. x < z
            BY <5>3, <5>4, <2>4
          <5> QED
            BY <3>2, <4>3, <5>1, <5>4, <5>5, ReadableFacts
        <4> QED
          BY <3>2, <4>2, <4>3, FilterIsExact
      <3> QED BY <3>1, <3>2
    <2>8. Advance(t, log, p, log[hi].last + 1, RecordsOf(FilteredFor(t, SubSeq(log, lo, hi), a), p))
      BY <2>3, <2>7, KeptIsOwed
    <2>9. NextOffset(SubSeq(log, lo, hi), p) = log[hi].last + 1
      BY <2>4, NextIs
    <2> QED
      BY <2>6, <2>8, <2>9, <1>4
  <1> QED BY <1>5, <1>6

-----------------------------------------------------------------------------
(* What has been read stays right while the log grows.                       *)

LEMMA DecidedKept ==
    ASSUME NEW l, NEW m, Chained(l), Chained(m), Extends(l, m),
           NEW i \in 1 .. Len(l), Decided(l, i) # 0
    PROVE  /\ Decided(m, i) = Decided(l, i) /\ Decided(l, i) \in 1 .. Len(l)
           /\ m[Decided(m, i)] = l[Decided(l, i)]
  <1>0. /\ l \in Seq(Batches) /\ m \in Seq(Batches) /\ Len(l) \in Nat /\ Len(m) \in Nat
    BY SeqFacts DEF Chained
  <1>1. /\ Len(l) <= Len(m) /\ \A j \in 1 .. Len(l) : m[j] = l[j]
    BY DEF Extends
  <1>2. i \in 1 .. Len(m) /\ i \in Nat /\ m[i] = l[i]
    BY <1>0, <1>1
  <1>3. PICK d : d = Decided(l, i)
    OBVIOUS
  <1>4. d \in i + 1 .. Len(l) /\ Ends(l, d, l[i].pid)
    BY <1>0, <1>3, DecidedFacts
  <1>5. d \in 1 .. Len(l) /\ d \in i + 1 .. Len(m)
    BY <1>0, <1>1, <1>2, <1>4
  <1>6. Ends(m, d, m[i].pid)
    BY <1>1, <1>2, <1>4, <1>5 DEF Ends
  <1>7. PICK e : e = Decided(m, i)
    OBVIOUS
  <1>8. e # 0 /\ e <= d /\ e \in i + 1 .. Len(m) /\ Ends(m, e, m[i].pid)
    BY <1>0, <1>2, <1>5, <1>6, <1>7, DecidedFacts
  <1>9. e \in i + 1 .. Len(l) /\ e \in 1 .. Len(l)
    BY <1>0, <1>2, <1>5, <1>8
  <1>10. Ends(l, e, l[i].pid)
    BY <1>1, <1>2, <1>8, <1>9 DEF Ends
  <1>11. d <= e
    BY <1>0, <1>3, <1>9, <1>10, DecidedFacts
  <1>12. d = e
    BY <1>5, <1>8, <1>9, <1>11
  <1> QED BY <1>1, <1>3, <1>5, <1>7, <1>12

LEMMA ShownKept ==
    ASSUME NEW t, NEW l, NEW m, Chained(l), Chained(m), Extends(l, m), NEW i \in 1 .. Len(l),
           t \in Committed /\ l[i].kind = "txn" => Decided(l, i) # 0
    PROVE  Shown(t, m, i) <=> Shown(t, l, i)
  <1>1. m[i] = l[i]
    BY DEF Extends
  <1>2. CASE t \in Committed /\ l[i].kind = "txn"
    <2>1. Decided(m, i) = Decided(l, i) /\ m[Decided(m, i)] = l[Decided(l, i)]
      BY <1>2, DecidedKept
    <2> QED BY <1>1, <2>1 DEF Shown
  <1>3. CASE ~(t \in Committed /\ l[i].kind = "txn")
    BY <1>1, <1>3 DEF Shown
  <1> QED BY <1>2, <1>3

LEMMA AdvanceKept ==
    ASSUME NEW t, NEW l, NEW m, Chained(l), Chained(m), Extends(l, m),
           NEW a \in Nat, NEW p, NEW out, Advance(t, l, a, p, out)
    PROVE  Advance(t, m, a, p, out)
  <1>1. /\ p \in Nat /\ a <= p /\ out \in Seq(Nat) /\ Ascends(out)
        /\ \A o \in Nat : Has(out, o) <=> o \in OwedIn(t, l, a, p)
        /\ p # a => Settled(t, l, p)
    BY DEF Advance
  <1>2. CASE p = a
    <2>1. OwedIn(t, l, a, p) = {} /\ OwedIn(t, m, a, p) = {}
      BY <1>2 DEF OwedIn
    <2> QED BY <1>1, <1>2, <2>1 DEF Advance
  <1>3. CASE p # a
    <2>0. /\ l \in Seq(Batches) /\ m \in Seq(Batches) /\ Len(l) \in Nat /\ Len(m) \in Nat
      BY SeqFacts DEF Chained
    <2>1. PICK x, y \in Nat : x = End(l) /\ y = End(m)
      BY <2>0, EndIsNat
    <2>2. /\ Len(l) <= Len(m) /\ \A i \in 1 .. Len(l) : m[i] = l[i]
          /\ \A i \in 1 .. Len(m) : i > Len(l) => x <= m[i].base
          /\ x <= y
      BY <2>1 DEF Extends
    <2>3. /\ p <= x
          /\ t \in Committed => \A i \in 1 .. Len(l) :
               l[i].kind = "txn" /\ l[i].base < p => Decided(l, i) # 0
      BY <1>1, <1>3, <2>1 DEF Settled
    <2>4. ASSUME NEW i \in 1 .. Len(m), m[i].base < p
          PROVE  i \in 1 .. Len(l) /\ m[i] = l[i] /\ (Shown(t, m, i) <=> Shown(t, l, i))
      <3>1. PICK b \in Nat : b = m[i].base
        BY <2>0, SeqFacts, BatchFields
      <3>2. ~(i > Len(l))
        BY <2>2, <2>3, <2>4, <3>1, <1>1
      <3>3. i \in 1 .. Len(l)
        BY <3>2, <2>0
      <3>4. m[i] = l[i]
        BY <3>3, <2>2
      <3>5. t \in Committed /\ l[i].kind = "txn" => Decided(l, i) # 0
        BY <3>3, <3>4, <2>3, <2>4
      <3> QED BY <3>3, <3>4, <3>5, ShownKept
    <2>5. ASSUME NEW o \in Nat PROVE o \in OwedIn(t, m, a, p) <=> o \in OwedIn(t, l, a, p)
      <3>1. ASSUME o \in OwedIn(t, m, a, p) PROVE o \in OwedIn(t, l, a, p)
        <4>1. PICK i \in 1 .. Len(m) : o \in m[i].base .. m[i].last /\ Shown(t, m, i)
          BY <3>1 DEF OwedIn
        <4>2. o \in a .. p - 1
          BY <3>1 DEF OwedIn
        <4>3. PICK b \in Nat : b = m[i].base
          BY <2>0, SeqFacts, BatchFields
        <4>4. b <= o
          BY <4>1, <4>3
        <4>5. m[i].base < p
          BY <4>2, <4>3, <4>4, <1>1
        <4>6. i \in 1 .. Len(l) /\ m[i] = l[i] /\ Shown(t, l, i)
          BY <4>1, <4>5, <2>4
        <4>7. o \in l[i].base .. l[i].last
          BY <4>1, <4>6
        <4> QED BY <4>2, <4>6, <4>7 DEF OwedIn
      <3>2. ASSUME o \in OwedIn(t, l, a, p) PROVE o \in OwedIn(t, m, a, p)
        <4>1. PICK i \in 1 .. Len(l) : o \in l[i].base .. l[i].last /\ Shown(t, l, i)
          BY <3>2 DEF OwedIn
        <4>2. o \in a .. p - 1
          BY <3>2 DEF OwedIn
        <4>3. PICK b \in Nat : b = l[i].base
          BY <2>0, SeqFacts, BatchFields
        <4>4. b <= o
          BY <4>1, <4>3
        <4>5. i \in 1 .. Len(m) /\ m[i] = l[i]
          BY <2>0, <2>2
        <4>6. b < p
          BY <4>2, <4>4, <1>1
        <4>7. m[i].base < p
          BY <4>3, <4>5, <4>6
        <4>8. Shown(t, m, i)
          BY <4>1, <4>5, <4>7, <2>4
        <4>9. o \in m[i].base .. m[i].last
          BY <4>1, <4>5
        <4> QED BY <4>2, <4>5, <4>8, <4>9 DEF OwedIn
      <3> QED BY <3>1, <3>2
    <2>6. ASSUME t \in Committed, NEW i \in 1 .. Len(m), m[i].kind = "txn", m[i].base < p
          PROVE  Decided(m, i) # 0
      <3>1. i \in 1 .. Len(l) /\ m[i] = l[i]
        BY <2>4, <2>6
      <3>2. Decided(l, i) # 0
        BY <3>1, <2>3, <2>6
      <3>3. Decided(m, i) = Decided(l, i)
        BY <3>1, <3>2, DecidedKept
      <3> QED BY <3>2, <3>3
    <2>7. p <= y
      BY <1>1, <2>1, <2>2, <2>3
    <2>8. Settled(t, m, p)
      BY <2>1, <2>6, <2>7 DEF Settled
    <2> QED
      BY <1>1, <2>5, <2>8 DEF Advance
  <1> QED BY <1>2, <1>3

\* One step after the other.
LEMMA AdvanceTwice ==
    ASSUME NEW t, NEW l, NEW a \in Nat, NEW p, NEW q, NEW s, NEW u,
           Advance(t, l, a, p, s), Advance(t, l, p, q, u)
    PROVE  Advance(t, l, a, q, s \o u)
  <1>1. /\ p \in Nat /\ a <= p /\ s \in Seq(Nat) /\ Ascends(s)
        /\ \A o \in Nat : Has(s, o) <=> o \in OwedIn(t, l, a, p)
        /\ p # a => Settled(t, l, p)
    BY DEF Advance
  <1>2. /\ q \in Nat /\ p <= q /\ u \in Seq(Nat) /\ Ascends(u)
        /\ \A o \in Nat : Has(u, o) <=> o \in OwedIn(t, l, p, q)
        /\ q # p => Settled(t, l, q)
    BY <1>1 DEF Advance
  <1>3. ASSUME NEW o \in Nat
        PROVE  o \in OwedIn(t, l, a, q) <=> o \in OwedIn(t, l, a, p) \/ o \in OwedIn(t, l, p, q)
    <2>1. o \in a .. q - 1 <=> o \in a .. p - 1 \/ o \in p .. q - 1
      BY <1>1, <1>2
    <2> QED BY <2>1 DEF OwedIn
  <1>4. ASSUME NEW i \in 1 .. Len(s), NEW j \in 1 .. Len(u) PROVE s[i] < u[j]
    <2>1. PICK x, y \in Nat : x = s[i] /\ y = u[j]
      BY <1>1, <1>2, SeqFacts
    <2>2. Has(s, x) /\ Has(u, y)
      BY <2>1 DEF Has
    <2>3. x \in OwedIn(t, l, a, p) /\ y \in OwedIn(t, l, p, q)
      BY <2>2, <1>1, <1>2
    <2>4. x \in a .. p - 1 /\ y \in p .. q - 1
      BY <2>3 DEF OwedIn
    <2>5. x < y
      BY <2>4, <1>1, <1>2
    <2> QED BY <2>1, <2>5
  <1>5. /\ s \o u \in Seq(Nat) /\ Ascends(s \o u)
        /\ \A o \in Nat : Has(s \o u, o) <=> Has(s, o) \/ Has(u, o)
    BY <1>1, <1>2, <1>4, ConcatFacts
  <1>6. \A o \in Nat : Has(s \o u, o) <=> o \in OwedIn(t, l, a, q)
    BY <1>1, <1>2, <1>3, <1>5
  <1>7. q # a => Settled(t, l, q)
    <2>1. CASE q # p
      BY <2>1, <1>2
    <2>2. CASE q = p
      BY <2>2, <1>1
    <2> QED BY <2>1, <2>2
  <1>8. a <= q
    BY <1>1, <1>2
  <1> QED
    BY <1>2, <1>5, <1>6, <1>7, <1>8 DEF Advance

LEMMA AdvanceNowhere ==
    ASSUME NEW t, NEW l, NEW p \in Nat
    PROVE  Advance(t, l, p, p, <<>>)
  <1>1. OwedIn(t, l, p, p) = {}
    BY DEF OwedIn
  <1>2. <<>> \in Seq(Nat) /\ Len(<<>>) = 0
    OBVIOUS
  <1> QED
    BY <1>1, <1>2 DEF Advance, Ascends, Has

-----------------------------------------------------------------------------
(* The invariant of the readers.                                             *)

Active(r) == r.at \notin {"idle", "failed"}

\* A task with call r on log l, from offset a to p, that was given records s.
\* A fetch knows its position, a lookup is made for want of one.
IsReader(t, r, l, a, p, s) ==
    /\ p \in Nat \cup {None, Absent}
    /\ Active(r) => (p \in Nat <=> r.op = "fetch")
    /\ p \notin Nat => s = <<>>
    /\ p \in Nat => a \in Nat /\ Advance(t, l, a, p, s)

ReadInv ==
    /\ Chained(log) /\ portions \in Nat /\ history \in Seq(Seq(Written))
    /\ pos = [t \in Tasks |-> pos[t]] /\ start = [t \in Tasks |-> start[t]]
    /\ seen = [t \in Tasks |-> seen[t]]
    /\ \A t \in Tasks : IsReader(t, call[t], log, start[t], pos[t], seen[t])

\* What a call becomes may end it, and changes nothing of what it is.
GoesOn(r, c) == Active(r) => Active(c) /\ r.op = c.op

LEMMA CallGoesOn ==
    ASSUME ReadInv, PoolInv, NEW t \in Tasks, NEW r,
           call' = [call EXCEPT ![t] = r], GoesOn(r, call[t]), UNCHANGED <<logVars, readVars>>
    PROVE  ReadInv'
  <1>1. /\ UNCHANGED <<history, portions, log, pos, start, seen>>
    BY DEF logVars, readVars
  <1>2. ASSUME NEW u \in Tasks
        PROVE  IsReader(u, call'[u], log, start[u], pos[u], seen[u])
    <2>1. IsReader(u, call[u], log, start[u], pos[u], seen[u])
      BY DEF ReadInv
    <2>2. GoesOn(call'[u], call[u])
      BY DEF GoesOn, PoolInv, TypeInv
    <2> QED BY <2>1, <2>2 DEF IsReader, GoesOn
  <1>3. \A u \in Tasks : IsReader(u, call'[u], log', start'[u], pos'[u], seen'[u])
    BY <1>1, <1>2
  <1>4. /\ Chained(log') /\ portions' \in Nat /\ history' \in Seq(Seq(Written))
        /\ pos' = [u \in Tasks |-> pos'[u]] /\ start' = [u \in Tasks |-> start'[u]]
        /\ seen' = [u \in Tasks |-> seen'[u]]
    BY <1>1 DEF ReadInv
  <1> QED BY <1>3, <1>4 DEF ReadInv

\* What a task does on its way to an answer or from it.
LEMMA ReadWorkGoesOn ==
    ASSUME PoolInv, NEW t \in Tasks, ClusterStep(t) \/ Refuse(t) \/ Send(t) \/ Refused(t) \/ Fail(t)
    PROVE  \E r : call' = [call EXCEPT ![t] = r] /\ GoesOn(r, call[t])
  <1> DEFINE c == call[t]
  <1>0. IsCall(c) /\ call = [u \in Tasks |-> call[u]]
    BY DEF PoolInv, TypeInv
  <1>1. CASE Route(t)
    <2> DEFINE r == [c EXCEPT !.at = IF leaderOf = None THEN "ask" ELSE "look"]
    <2>1. call' = [call EXCEPT ![t] = r] /\ c.at = "route"
      BY <1>0, <1>1 DEF Route, Step, At
    <2>2. GoesOn(r, c)
      BY <1>0, <2>1 DEF GoesOn, Active, IsCall
    <2> QED BY <2>1, <2>2
  <1>2. CASE Told(t)
    <2> DEFINE r == [c EXCEPT !.at = "learn", !.node = leader]
    <2>1. call' = [call EXCEPT ![t] = r] /\ c.at = "ask"
      BY <1>0, <1>2 DEF Told, At
    <2>2. GoesOn(r, c)
      BY <1>0, <2>1 DEF GoesOn, Active, IsCall
    <2> QED BY <2>1, <2>2
  <1>3. CASE Learn(t)
    <2> DEFINE r == [c EXCEPT !.at = "look", !.node = None]
    <2>1. call' = [call EXCEPT ![t] = r] /\ c.at = "learn"
      BY <1>0, <1>3 DEF Learn, At
    <2>2. GoesOn(r, c)
      BY <1>0, <2>1 DEF GoesOn, Active, IsCall
    <2> QED BY <2>1, <2>2
  <1>4. CASE Look(t)
    <2> DEFINE r == IF leaderOf = None THEN [c EXCEPT !.at = "settle", !.verdict = "fatal"]
                    ELSE [c EXCEPT !.at = "connect", !.node = leaderOf]
    <2>1. call' = [call EXCEPT ![t] = r] /\ c.at = "look"
      BY <1>0, <1>4 DEF Look, At
    <2>2. GoesOn(r, c)
      BY <1>0, <2>1 DEF GoesOn, Active, IsCall
    <2> QED BY <2>1, <2>2
  <1>5. CASE Connect(t)
    <2> DEFINE r == IF c.op = "fetch" /\ idle[c.node] # <<>>
                    THEN [c EXCEPT !.at = "count", !.conn = Last(idle[c.node])]
                    ELSE IF c.op # "fetch" /\ lane[c.node] # 0
                    THEN [c EXCEPT !.at = "wait", !.conn = lane[c.node]]
                    ELSE [c EXCEPT !.at = "dial"]
    <2>1. call' = [call EXCEPT ![t] = r] /\ c.at = "connect"
      BY <1>0, <1>5 DEF Connect, At, Blocking
    <2>2. GoesOn(r, c)
      BY <1>0, <2>1 DEF GoesOn, Active, IsCall
    <2> QED BY <2>1, <2>2
  <1>6. CASE Dial(t)
    <2> DEFINE r == IF c.op = "fetch" THEN [c EXCEPT !.at = "count", !.conn = Fresh]
                    ELSE IF lane[c.node] = 0 THEN [c EXCEPT !.at = "wait", !.conn = Fresh]
                    ELSE [c EXCEPT !.at = "wait", !.conn = lane[c.node]]
    <2>1. call' = [call EXCEPT ![t] = r] /\ c.at = "dial"
      BY <1>0, <1>6 DEF Dial, At, Blocking
    <2>2. GoesOn(r, c)
      BY <1>0, <2>1 DEF GoesOn, Active, IsCall
    <2> QED BY <2>1, <2>2
  <1>7. CASE Count(t)
    <2> DEFINE r == [c EXCEPT !.at = "send"]
    <2>1. call' = [call EXCEPT ![t] = r] /\ c.at = "count"
      BY <1>0, <1>7 DEF Count, Step, At
    <2>2. GoesOn(r, c)
      BY <1>0, <2>1 DEF GoesOn, Active, IsCall
    <2> QED BY <2>1, <2>2
  <1>8. CASE Release(t)
    <2> DEFINE r == [c EXCEPT !.at = "drop", !.conn = 0]
    <2>1. call' = [call EXCEPT ![t] = r] /\ c.at = "release"
      BY <1>0, <1>8 DEF Release, At
    <2>2. GoesOn(r, c)
      BY <1>0, <2>1 DEF GoesOn, Active, IsCall
    <2> QED BY <2>1, <2>2
  <1>9. CASE Drop(t)
    <2> DEFINE r == IF c.verdict = "ok" THEN NoCall ELSE [c EXCEPT !.at = "settle", !.conn = 0]
    <2>1. call' = [call EXCEPT ![t] = r] /\ c.at = "drop"
      BY <1>0, <1>9 DEF Drop, At
    <2>2. GoesOn(r, c)
      BY <1>0, <2>1 DEF GoesOn, Active, IsCall, NoCall
    <2> QED BY <2>1, <2>2
  <1>10. CASE Retry(t)
    <2>1. call' = [call EXCEPT ![t] = Again(t)] /\ c.at = "settle"
      BY <1>10 DEF Retry, At
    <2>2. GoesOn(Again(t), c)
      BY <1>0, <2>1 DEF GoesOn, Active, Again, NoCall
    <2> QED BY <2>1, <2>2
  <1>11. CASE Fatal(t)
    <2> DEFINE r == [NoCall EXCEPT !.at = "failed"]
    <2>1. call' = [call EXCEPT ![t] = r]
      BY <1>11 DEF Fatal
    <2>2. GoesOn(r, c)
      BY DEF GoesOn, Active, NoCall
    <2> QED BY <2>1, <2>2
  <1>12. CASE Refuse(t)
    <2> DEFINE r == [c EXCEPT !.at = "settle", !.verdict = "retry"]
    <2>1. call' = [call EXCEPT ![t] = r] /\ c.at = "dial"
      BY <1>0, <1>12 DEF Refuse, At
    <2>2. GoesOn(r, c)
      BY <1>0, <2>1 DEF GoesOn, Active, IsCall
    <2> QED BY <2>1, <2>2
  <1>13. CASE Send(t)
    <2> DEFINE r == [c EXCEPT !.at = "wait", !.blame = leaderOf]
    <2>1. call' = [call EXCEPT ![t] = r] /\ c.at = "send"
      BY <1>0, <1>13 DEF Send, At
    <2>2. GoesOn(r, c)
      BY <1>0, <2>1 DEF GoesOn, Active, IsCall
    <2> QED BY <2>1, <2>2
  <1>14. CASE Refused(t)
    <2> DEFINE r == [c EXCEPT !.at = IF c.op = "fetch" THEN "release" ELSE "settle",
                              !.verdict = "retry"]
    <2>1. call' = [call EXCEPT ![t] = r] /\ c.at = "wait"
      BY <1>0, <1>14 DEF Refused, At, Blocking
    <2>2. GoesOn(r, c)
      BY <1>0, <2>1 DEF GoesOn, Active, IsCall
    <2> QED BY <2>1, <2>2
  <1>15. CASE Fail(t)
    <2> DEFINE r == [c EXCEPT !.at = IF c.op = "fetch" THEN "drop" ELSE "settle", !.verdict = "retry"]
    <2>1. call' = [call EXCEPT ![t] = r] /\ c.at = "wait"
      BY <1>0, <1>15 DEF Fail, At, Blocking
    <2>2. GoesOn(r, c)
      BY <1>0, <2>1 DEF GoesOn, Active, IsCall
    <2> QED BY <2>1, <2>2
  <1> QED
    BY <1>1, <1>2, <1>3, <1>4, <1>5, <1>6, <1>7, <1>8, <1>9, <1>10, <1>11, <1>12, <1>13,
       <1>14, <1>15 DEF ClusterStep

\* Task t's reader is as it should be after the step, and the others stand still.
LEMMA OneReader ==
    ASSUME ReadInv, NEW t \in Tasks, UNCHANGED logVars,
           call' = [u \in Tasks |-> call'[u]],
           pos' = [u \in Tasks |-> pos'[u]], start' = [u \in Tasks |-> start'[u]],
           seen' = [u \in Tasks |-> seen'[u]],
           \A u \in Tasks \ {t} : /\ call'[u] = call[u] /\ pos'[u] = pos[u]
                                  /\ start'[u] = start[u] /\ seen'[u] = seen[u],
           IsReader(t, call'[t], log, start'[t], pos'[t], seen'[t])
    PROVE  ReadInv'
  <1>1. UNCHANGED <<history, portions, log>>
    BY DEF logVars
  <1>2. ASSUME NEW u \in Tasks PROVE IsReader(u, call'[u], log, start'[u], pos'[u], seen'[u])
    <2>1. CASE u = t
      BY <2>1
    <2>2. CASE u # t
      BY <2>2 DEF ReadInv
    <2> QED BY <2>1, <2>2
  <1>3. \A u \in Tasks : IsReader(u, call'[u], log', start'[u], pos'[u], seen'[u])
    BY <1>1, <1>2
  <1>4. Chained(log') /\ portions' \in Nat /\ history' \in Seq(Seq(Written))
    BY <1>1 DEF ReadInv
  <1> QED BY <1>3, <1>4 DEF ReadInv

LEMMA BeginningStep ==
    ASSUME ReadInv, PoolInv, NEW t \in Tasks, Lookup(t) \/ Fetch(t)
    PROVE  ReadInv'
  <1>1. PICK op : Begin(t, op) /\ (pos[t] \in Nat <=> op = "fetch")
    BY ConsumerAssumption DEF Lookup, Fetch
  <1> DEFINE r == [NoCall EXCEPT !.op = op, !.at = "route"]
  <1>2. call = [u \in Tasks |-> call[u]]
    BY DEF PoolInv, TypeInv
  <1>3. call' = [call EXCEPT ![t] = r] /\ UNCHANGED <<logVars, readVars>>
    BY <1>1 DEF Begin
  <1>4. UNCHANGED <<logVars, pos, start, seen>>
    BY <1>3 DEF readVars
  <1>5. /\ call' = [u \in Tasks |-> call'[u]] /\ call'[t] = r
        /\ \A u \in Tasks \ {t} : call'[u] = call[u]
    BY <1>2, <1>3
  <1>6. r.op = op
    BY DEF NoCall
  <1>7. IsReader(t, call[t], log, start[t], pos[t], seen[t])
    BY DEF ReadInv
  <1>8. IsReader(t, r, log, start[t], pos[t], seen[t])
    BY <1>1, <1>6, <1>7 DEF IsReader
  <1>9. /\ pos = [u \in Tasks |-> pos[u]] /\ start = [u \in Tasks |-> start[u]]
        /\ seen = [u \in Tasks |-> seen[u]]
    BY DEF ReadInv
  <1>10. IsReader(t, call'[t], log, start'[t], pos'[t], seen'[t])
    BY <1>4, <1>5, <1>8
  <1> QED
    BY <1>4, <1>5, <1>9, <1>10, OneReader

LEMMA FetchedStep ==
    ASSUME ReadInv, PoolInv, NEW t \in Tasks, Fetched(t)
    PROVE  ReadInv'
  <1> DEFINE c == call[t]
             p == pos[t]
             a == start[t]
             s == seen[t]
             r == [c EXCEPT !.at = "release", !.verdict = "ok"]
  <1>0. IsCall(c) /\ call = [u \in Tasks |-> call[u]]
    BY DEF PoolInv, TypeInv
  <1>1. /\ pos = [u \in Tasks |-> pos[u]] /\ start = [u \in Tasks |-> start[u]]
        /\ seen = [u \in Tasks |-> seen[u]] /\ Chained(log)
        /\ IsReader(t, c, log, a, p, s)
    BY DEF ReadInv
  <1>2. /\ c.at = "wait" /\ c.op = "fetch"
        /\ call' = [call EXCEPT ![t] = r] /\ UNCHANGED <<logVars, start>>
    BY <1>0 DEF Fetched, At, Blocking
  <1>3. p \in Nat /\ a \in Nat /\ Advance(t, log, a, p, s)
    BY <1>1, <1>2 DEF IsReader, Active
  <1>4. PICK w \in FetchReplies(t) :
          /\ pos' = [pos EXCEPT ![t] = NextOffset(w.batches, @)]
          /\ seen' = [seen EXCEPT ![t] = @ \o
                RecordsOf(Filtered(t \in Committed, w.batches, w.aborted), pos[t])]
    BY DEF Fetched
  <1>5. PICK q : q = NextOffset(w.batches, p)
    OBVIOUS
  <1>6. PICK u : u = RecordsOf(FilteredFor(t, w.batches, w.aborted), p)
    OBVIOUS
  <1>7. Advance(t, log, p, q, u)
    BY <1>1, <1>3, <1>5, <1>6, FetchedAdvances
  <1>8. Advance(t, log, a, q, s \o u) /\ q \in Nat
    <2>1. q \in Nat
      BY <1>7 DEF Advance
    <2> QED BY <2>1, <1>3, <1>7, AdvanceTwice
  <1>9. pos' = [pos EXCEPT ![t] = q]
    BY <1>4, <1>5
  <1>10. u = RecordsOf(Filtered(t \in Committed, w.batches, w.aborted), pos[t])
    BY <1>6 DEF FilteredFor
  <1>11. seen' = [seen EXCEPT ![t] = s \o u]
    BY <1>4, <1>10
  <1>12. /\ call' = [v \in Tasks |-> call'[v]] /\ call'[t] = r
         /\ \A v \in Tasks \ {t} : call'[v] = call[v]
    BY <1>0, <1>2
  <1>13. /\ pos' = [v \in Tasks |-> pos'[v]] /\ pos'[t] = q
         /\ \A v \in Tasks \ {t} : pos'[v] = pos[v]
    BY <1>1, <1>9
  <1>14. /\ seen' = [v \in Tasks |-> seen'[v]] /\ seen'[t] = s \o u
         /\ \A v \in Tasks \ {t} : seen'[v] = seen[v]
    BY <1>1, <1>11
  <1>15. r.op = "fetch"
    BY <1>0, <1>2 DEF IsCall
  <1>16. IsReader(t, r, log, a, q, s \o u)
    BY <1>3, <1>8, <1>15 DEF IsReader
  <1>17. start' = start /\ UNCHANGED logVars
    BY <1>2
  <1>18. IsReader(t, call'[t], log, start'[t], pos'[t], seen'[t])
    BY <1>12, <1>13, <1>14, <1>16, <1>17
  <1> QED
    BY <1>1, <1>12, <1>13, <1>14, <1>17, <1>18, OneReader

LEMMA LookedUpStep ==
    ASSUME ReadInv, PoolInv, NEW t \in Tasks, LookedUp(t)
    PROVE  ReadInv'
  <1> DEFINE c == call[t]
  <1>0. call = [u \in Tasks |-> call[u]]
    BY DEF PoolInv, TypeInv
  <1>1. /\ pos = [u \in Tasks |-> pos[u]] /\ start = [u \in Tasks |-> start[u]]
        /\ seen = [u \in Tasks |-> seen[u]] /\ Chained(log)
        /\ IsReader(t, c, log, start[t], pos[t], seen[t])
    BY DEF ReadInv
  <1>2. /\ c.at = "wait" /\ c.op # "fetch"
        /\ call' = [call EXCEPT ![t] = NoCall] /\ UNCHANGED <<logVars, seen>>
    BY DEF LookedUp, At, Blocking
  <1>3. seen[t] = <<>>
    BY <1>1, <1>2 DEF IsReader, Active
  <1>4. PICK o \in {0, Readable(t, log)} :
          pos' = [pos EXCEPT ![t] = o] /\ start' = [start EXCEPT ![t] = o]
    BY DEF LookedUp
  <1>5. o \in Nat
    BY <1>1, <1>4, ReadableFacts
  <1>6. Advance(t, log, o, o, <<>>)
    BY <1>5, AdvanceNowhere
  <1>7. ~Active(NoCall)
    BY DEF Active, NoCall
  <1>8. IsReader(t, NoCall, log, o, o, <<>>)
    BY <1>5, <1>6, <1>7 DEF IsReader
  <1>9. /\ call' = [v \in Tasks |-> call'[v]] /\ call'[t] = NoCall
        /\ \A v \in Tasks \ {t} : call'[v] = call[v]
    BY <1>0, <1>2
  <1>10. /\ pos' = [v \in Tasks |-> pos'[v]] /\ pos'[t] = o
         /\ \A v \in Tasks \ {t} : pos'[v] = pos[v]
    BY <1>1, <1>4
  <1>11. /\ start' = [v \in Tasks |-> start'[v]] /\ start'[t] = o
         /\ \A v \in Tasks \ {t} : start'[v] = start[v]
    BY <1>1, <1>4
  <1>12. seen' = seen /\ UNCHANGED logVars
    BY <1>2
  <1>13. IsReader(t, call'[t], log, start'[t], pos'[t], seen'[t])
    BY <1>3, <1>8, <1>9, <1>10, <1>11, <1>12
  <1> QED
    BY <1>1, <1>9, <1>10, <1>11, <1>12, <1>13, OneReader

LEMMA WritingStep ==
    ASSUME ReadInv, Write
    PROVE  ReadInv'
  <1>1. /\ portions < Len(history) /\ portions' = portions + 1
        /\ log' = FoldLeft(Appended, log, history[portions + 1])
        /\ UNCHANGED <<call, history, pos, start, seen>>
    BY DEF Write, clusterVars, readVars
  <1>2. /\ Chained(log) /\ portions \in Nat /\ history \in Seq(Seq(Written))
        /\ pos = [u \in Tasks |-> pos[u]] /\ start = [u \in Tasks |-> start[u]]
        /\ seen = [u \in Tasks |-> seen[u]]
    BY DEF ReadInv
  <1>3. history[portions + 1] \in Seq(Written)
    BY <1>1, <1>2
  <1>4. Chained(log') /\ Extends(log, log')
    BY <1>1, <1>2, <1>3, PortionAppended
  <1>5. ASSUME NEW t \in Tasks PROVE IsReader(t, call[t], log', start[t], pos[t], seen[t])
    <2>1. IsReader(t, call[t], log, start[t], pos[t], seen[t])
      BY DEF ReadInv
    <2>2. ASSUME pos[t] \in Nat PROVE start[t] \in Nat /\ Advance(t, log', start[t], pos[t], seen[t])
      <3>1. start[t] \in Nat /\ Advance(t, log, start[t], pos[t], seen[t])
        BY <2>1, <2>2 DEF IsReader
      <3> QED BY <3>1, <1>2, <1>4, AdvanceKept
    <2> QED BY <2>1, <2>2 DEF IsReader
  <1>6. \A t \in Tasks : IsReader(t, call'[t], log', start'[t], pos'[t], seen'[t])
    BY <1>1, <1>5
  <1>7. portions' \in Nat /\ history' \in Seq(Seq(Written))
    BY <1>1, <1>2
  <1>8. /\ pos' = [u \in Tasks |-> pos'[u]] /\ start' = [u \in Tasks |-> start'[u]]
        /\ seen' = [u \in Tasks |-> seen'[u]]
    BY <1>1, <1>2
  <1> QED BY <1>4, <1>6, <1>7, <1>8 DEF ReadInv

LEMMA ReadStutters ==
    ASSUME ReadInv, UNCHANGED <<call, logVars, readVars>>
    PROVE  ReadInv'
  <1>1. UNCHANGED <<call, history, portions, log, pos, start, seen>>
    BY DEF logVars, readVars
  <1>2. \A u \in Tasks : IsReader(u, call'[u], log', start'[u], pos'[u], seen'[u])
    BY <1>1 DEF ReadInv
  <1>3. /\ Chained(log') /\ portions' \in Nat /\ history' \in Seq(Seq(Written))
        /\ pos' = [u \in Tasks |-> pos'[u]] /\ start' = [u \in Tasks |-> start'[u]]
        /\ seen' = [u \in Tasks |-> seen'[u]]
    BY <1>1 DEF ReadInv
  <1> QED BY <1>2, <1>3 DEF ReadInv

LEMMA ReadNext ==
    ASSUME ReadInv, PoolInv, [Next]_vars
    PROVE  ReadInv'
  <1>1. CASE Write
    BY <1>1, WritingStep
  <1>2. CASE UNCHANGED vars
    BY <1>2, ReadStutters DEF vars, clusterVars
  <1>3. CASE Quietly(World)
    <2>1. UNCHANGED <<logVars, readVars>>
      BY <1>3 DEF Quietly
    <2>2. CASE Move \/ Elect \/ Break
      BY <2>1, <2>2, ReadStutters DEF Move, Elect, Break
    <2>3. ASSUME NEW t \in Tasks, Refuse(t) PROVE ReadInv'
      BY <2>1, <2>3, ReadWorkGoesOn, CallGoesOn
    <2> QED
      BY <1>3, <2>2, <2>3 DEF Quietly, World
  <1>4. ASSUME NEW t \in Tasks, Work(t) \/ Fail(t) \/ Lookup(t) \/ Fetch(t)
        PROVE  ReadInv'
    <2>1. CASE Quietly(ClusterStep(t))
      <3>1. ClusterStep(t) /\ UNCHANGED <<logVars, readVars>>
        BY <2>1 DEF Quietly
      <3> QED BY <3>1, ReadWorkGoesOn, CallGoesOn
    <2>2. CASE Send(t) \/ Refused(t) \/ Fail(t)
      <3>1. UNCHANGED <<logVars, readVars>>
        BY <2>2 DEF Send, Refused, Fail
      <3> QED BY <2>2, <3>1, ReadWorkGoesOn, CallGoesOn
    <2>3. CASE Fetched(t)
      BY <2>3, FetchedStep
    <2>4. CASE LookedUp(t)
      BY <2>4, LookedUpStep
    <2>5. CASE Lookup(t) \/ Fetch(t)
      BY <2>5, BeginningStep
    <2> QED
      BY <1>4, <2>1, <2>2, <2>3, <2>4, <2>5 DEF Work
  <1> QED
    BY <1>1, <1>2, <1>3, <1>4 DEF Next

LEMMA ReadInit ==
    ASSUME Init
    PROVE  ReadInv
  <1>1. PICK s \in Scenarios : history = s.history /\ pos = s.from /\ start = s.from
    BY DEF Init
  <1>2. /\ portions = 0 /\ log = <<>> /\ seen = [t \in Tasks |-> <<>>]
        /\ call = [t \in Tasks |-> NoCall]
    BY DEF Init, ClusterInit
  <1>3. history \in Seq(Seq(Written)) /\ pos \in [Tasks -> Nat \cup {None, Absent}] /\ start = pos
    BY <1>1, ConsumerAssumption
  <1>4. Chained(<<>>)
    BY DEF Chained
  <1>5. ASSUME NEW t \in Tasks PROVE IsReader(t, call[t], log, start[t], pos[t], seen[t])
    <2>1. /\ seen[t] = <<>> /\ start[t] = pos[t] /\ pos[t] \in Nat \cup {None, Absent}
          /\ call[t] = NoCall
      BY <1>2, <1>3
    <2>2. ~Active(call[t])
      BY <2>1 DEF Active, NoCall
    <2>3. ASSUME pos[t] \in Nat PROVE Advance(t, log, start[t], pos[t], seen[t])
      BY <2>1, <2>3, AdvanceNowhere
    <2> QED BY <2>1, <2>2, <2>3 DEF IsReader
  <1>6. /\ pos = [t \in Tasks |-> pos[t]] /\ start = [t \in Tasks |-> start[t]]
        /\ seen = [t \in Tasks |-> seen[t]]
    BY <1>2, <1>3
  <1>7. Chained(log) /\ portions \in Nat
    BY <1>2, <1>4
  <1> QED BY <1>3, <1>5, <1>6, <1>7 DEF ReadInv

\* The records a reader has are those it is owed, each once and in order.
LEMMA ReadInvIsExact ==
    ASSUME ReadInv
    PROVE  ReadsAreExact
  <1> SUFFICES ASSUME NEW t \in Tasks, pos[t] \in Nat
               PROVE  /\ ToSet(seen[t]) = Owed(t, start[t], pos[t])
                      /\ \A i \in 1 .. Len(seen[t]) - 1 : seen[t][i] < seen[t][i + 1]
    BY DEF ReadsAreExact
  <1>1. PICK a, p, s : a = start[t] /\ p = pos[t] /\ s = seen[t]
    OBVIOUS
  <1>2. p \in Nat /\ a \in Nat /\ Advance(t, log, a, p, s)
    BY <1>1 DEF ReadInv, IsReader
  <1>3. /\ s \in Seq(Nat) /\ Ascends(s)
        /\ \A o \in Nat : Has(s, o) <=> o \in OwedIn(t, log, a, p)
    BY <1>2 DEF Advance
  <1>4. DOMAIN log = 1 .. Len(log)
    BY SeqFacts DEF ReadInv, Chained
  <1>5. Owed(t, a, p) = OwedIn(t, log, a, p)
    BY <1>4 DEF Owed, OwedIn, Shown
  <1>6. \A o \in OwedIn(t, log, a, p) : o \in Nat
    BY <1>2 DEF OwedIn
  <1>7. /\ DOMAIN s = 1 .. Len(s) /\ Len(s) \in Nat /\ \A i \in 1 .. Len(s) : s[i] \in Nat
    BY <1>3
  <1>8. \A o : o \in ToSet(s) <=> o \in Nat /\ Has(s, o)
    BY <1>7 DEF ToSet, Has
  <1>9. ToSet(s) = OwedIn(t, log, a, p)
    BY <1>3, <1>6, <1>8
  <1>10. ASSUME NEW i \in 1 .. Len(s) - 1 PROVE s[i] < s[i + 1]
    <2>1. i \in 1 .. Len(s) /\ i + 1 \in 1 .. Len(s) /\ i < i + 1
      BY <1>7
    <2> QED BY <2>1, <1>3 DEF Ascends
  <1> QED BY <1>1, <1>5, <1>9, <1>10

\* Whatever is written, in whatever transactions, however a fetch is cut, its
\* list of aborted transactions ordered, and the request repeated: BatchFilter
\* and next_offset give every task exactly the records its isolation level
\* owes it between its first position and its current one, in order, once.
THEOREM ReadsTheorem == Spec => []ReadsAreExact
  <1>1. Init => PoolInv /\ ReadInv
    BY PoolInit, ReadInit
  <1>2. (PoolInv /\ ReadInv) /\ [Next]_vars => (PoolInv /\ ReadInv)'
    BY PoolNext, ReadNext
  <1>3. PoolInv /\ ReadInv => ReadsAreExact
    BY ReadInvIsExact
  <1> QED
    BY <1>1, <1>2, <1>3, PTL DEF Spec
=============================================================================
