---------------------------- MODULE GroupProofs ----------------------------
(* Proofs about Group, for any clients, subscriptions, partition counts,    *)
(* attempts and troubles: the coordinator takes commits only for partitions *)
(* that the plan in force gives their sender, and that plan gives every     *)
(* partition to one subscriber.                                             *)
EXTENDS Group, FiniteSetTheorems, WellFoundedInduction, TLAPS

\* The fields of a member, of the group and of a commit.
IsMember(r) ==
    /\ DOMAIN r = {"at", "in", "id", "generation_id", "is_leader", "assignment", "plan",
                   "rounds", "cached"}
    /\ r.id \in Nat /\ r.generation_id \in Int

Sane(subscriptions) ==
    /\ DOMAIN subscriptions \subseteq Nat \ {0} /\ IsFiniteSet(DOMAIN subscriptions)
    /\ \A m \in DOMAIN subscriptions : subscriptions[m] \subseteq DOMAIN Partitions

IsGroup(g) ==
    /\ g = [state |-> g.state, generation |-> g.generation, members |-> g.members,
            pending |-> g.pending, joined |-> g.joined, leader |-> g.leader, plan |-> g.plan]
    /\ g.generation \in Nat
    /\ Sane(g.members) /\ IsFiniteSet(DOMAIN g.plan)
    /\ g.pending \subseteq Nat \ {0} /\ IsFiniteSet(g.pending)

\* A generation begins without a plan, and is stable once it has one: the range
\* assignment of its members, which stays in force until the next begins.
Planned(g) ==
    /\ g.plan = <<>> \/ \E s : Sane(s) /\ g.plan = RangeAssign(s)
    /\ g.state = "completing" => g.plan = <<>>
    /\ g.state = "stable" => g.plan = RangeAssign(g.members)

\* A member of the present generation: its leader is about to sync the range
\* assignment, whoever waits is in, and whoever is between calls acts on the
\* plan, unless it has given up its id.
Fine(g, r) ==
    /\ IsMember(r) /\ r.generation_id <= g.generation
    /\ g.state = "completing" /\ r.at = "sync" /\ r.id = g.leader
          /\ r.generation_id = g.generation => r.plan = RangeAssign(g.members)
    /\ r.at = "waiting" => /\ g.state = "completing" /\ r.id \in DOMAIN g.members
                           /\ r.generation_id = g.generation
    /\ r.at \in {"idle", "stale"} /\ r.id # 0 /\ r.generation_id = g.generation =>
          r.id \in DOMAIN g.plan /\ r.assignment = g.plan[r.id]

\* A commit of the present generation was sent by somebody who acted on its
\* plan.
Valid(g, m) ==
    /\ m.generation \in Int /\ m.generation <= g.generation
    /\ ~m.astray /\ m.id # 0 /\ m.generation = g.generation =>
          m.id \in DOMAIN g.plan /\ m.of = g.plan[m.id]

IInv ==
    /\ IsGroup(group) /\ Planned(group)
    /\ member = [c \in Clients |-> member[c]]
    /\ \A c \in Clients : Fine(group, member[c])
    /\ IsFiniteSet(commits) /\ \A m \in commits : Valid(group, m)

-----------------------------------------------------------------------------
(* range_assign. The running sum over the members before one is, whatever the *)
(* order it is taken in, their number times the quotient, and one more for    *)
(* each of them that shares the remainder.                                    *)

\* Where the range of subscriber i begins.
Begin(i, q, r) == i * q + (IF i < r THEN i ELSE r)

\* Those of S that share the remainder.
Low(S, r) == {j \in S : j < r}

\* q and r are the quotient and the remainder.
Divides(count, n, q, r) == \A j \in Nat : Take(j, count, n) = q + (IF j < r THEN 1 ELSE 0)

\* The sum of what the subscribers in S take.
Total(S, count, n) ==
    (CHOOSE g : g = [s \in SUBSET S |->
        IF s = {} THEN 0
        ELSE Take(CHOOSE x \in s : TRUE, count, n) + g[s \ {CHOOSE x \in s : TRUE}]])[S]

LEMMA LeastElement ==
    ASSUME NEW S, S \subseteq Nat, S # {}
    PROVE  \E x \in S : \A y \in S : x <= y
  <1>1. \E x \in S : \A y \in S : ~(<<y, x>> \in OpToRel(<, Nat))
    BY WFMin, NatLessThanWellFounded
  <1>2. \A x, y \in Nat : y < x => <<y, x>> \in OpToRel(<, Nat)
    BY DEF OpToRel
  <1>3. \A x, y \in Nat : ~(y < x) => x <= y
    OBVIOUS
  <1> QED BY <1>1, <1>2, <1>3

LEMMA SumOfTakes ==
    ASSUME NEW q \in Nat, NEW r \in Nat, NEW count, NEW n, NEW S, S \subseteq Nat, IsFiniteSet(S),
           Divides(count, n, q, r)
    PROVE  Total(S, count, n) = Cardinality(S) * q + Cardinality(Low(S, r))
  <1> DEFINE Any(s) == CHOOSE x \in s : TRUE
             Step(g, s) == IF s = {} THEN 0 ELSE Take(Any(s), count, n) + g[s \ {Any(s)}]
             Sum == [s \in SUBSET S |-> Cardinality(s) * q + Cardinality(Low(s, r))]
  <1>1. \A s \in SUBSET S : IsFiniteSet(s) /\ Cardinality(s) \in Nat
    BY FS_Subset, FS_CardinalityType
  <1>2. \A s \in SUBSET S : s # {} => Any(s) \in s
    OBVIOUS
  <1> HIDE DEF Any
  <1>3. ASSUME NEW s \in SUBSET S
        PROVE  Sum[s] = Step(Sum, s)
    <2>1. CASE s = {}
      <3>1. Low(s, r) = {} /\ Cardinality(s) = 0 /\ Cardinality(Low(s, r)) = 0
        BY <2>1, FS_EmptySet DEF Low
      <3> QED BY <2>1, <3>1
    <2>2. CASE s # {}
      <3> PICK x : x = Any(s)
        OBVIOUS
      <3>1. x \in s /\ x \in Nat /\ s \ {x} \in SUBSET S
        BY <1>2, <2>2
      <3>2. Cardinality(s \ {x}) = Cardinality(s) - 1
        BY <1>1, <3>1, FS_RemoveElement
      <3>3. Cardinality(Low(s, r)) = Cardinality(Low(s \ {x}, r)) + (IF x < r THEN 1 ELSE 0)
        <4>1. Low(s, r) \in SUBSET S
          BY DEF Low
        <4>2. CASE x < r
          <5>1. Low(s \ {x}, r) = Low(s, r) \ {x} /\ x \in Low(s, r)
            BY <3>1, <4>2 DEF Low
          <5>2. IsFiniteSet(Low(s, r)) /\ Cardinality(Low(s, r)) \in Nat
            BY <1>1, <4>1
          <5>3. Cardinality(Low(s, r) \ {x}) = Cardinality(Low(s, r)) - 1
            BY <5>1, <5>2, FS_RemoveElement
          <5>4. Cardinality(Low(s \ {x}, r)) = Cardinality(Low(s, r)) - 1
            BY <5>1, <5>3
          <5> QED BY <4>2, <5>2, <5>4
        <4>3. CASE ~(x < r)
          <5>1. Low(s \ {x}, r) = Low(s, r)
            BY <4>3 DEF Low
          <5> QED BY <1>1, <4>1, <4>3, <5>1
        <4> QED BY <4>2, <4>3
      <3>4. Cardinality(Low(s \ {x}, r)) \in Nat /\ Cardinality(s) \in Nat
        <4>1. Low(s \ {x}, r) \in SUBSET S
          BY DEF Low
        <4> QED BY <1>1, <4>1
      <3>5. Sum[s] = Cardinality(s) * q + Cardinality(Low(s, r))
        OBVIOUS
      <3>6. Sum[s \ {x}] = (Cardinality(s) - 1) * q + Cardinality(Low(s \ {x}, r))
        BY <3>1, <3>2
      <3>7. Step(Sum, s) = Take(x, count, n) + Sum[s \ {x}]
        BY <2>2
      <3>8. Take(x, count, n) = q + (IF x < r THEN 1 ELSE 0)
        BY <3>1 DEF Divides
      <3> HIDE DEF Sum, Step
      <3>9. \A a, b \in Nat, k \in Nat, e \in {0, 1} :
               k * q + (b + e) = (q + e) + ((k - 1) * q + b)
        OBVIOUS
      <3> QED BY <3>3, <3>4, <3>5, <3>6, <3>7, <3>8, <3>9
    <2> QED BY <2>1, <2>2
  <1>4. Sum = [s \in SUBSET S |-> Step(Sum, s)]
    BY <1>3
  <1> DEFINE iter == CHOOSE g : g = [s \in SUBSET S |-> Step(g, s)]
  <1>5. iter = [s \in SUBSET S |-> Step(iter, s)]
    <2> HIDE DEF Sum, Step
    <2> QED BY <1>4
  <1>6. Total(S, count, n) = iter[S]
    BY DEF Total, Any
  <1> HIDE DEF iter
  <1>7. ASSUME NEW s \in SUBSET S, iter[s] # Sum[s]
        PROVE  FALSE
    <2> DEFINE Bad == {k \in Nat : \E t \in SUBSET S : Cardinality(t) = k /\ iter[t] # Sum[t]}
    <2> HIDE DEF Sum, Step
    <2>1. Cardinality(s) \in Bad
      BY <1>1, <1>7
    <2>2. PICK k \in Bad : \A l \in Bad : k <= l
      BY <2>1, LeastElement
    <2>3. PICK t \in SUBSET S : Cardinality(t) = k /\ iter[t] # Sum[t]
      OBVIOUS
    <2>4. Step(iter, t) # Step(Sum, t)
      BY <1>3, <1>5, <2>3
    <2>5. t # {} /\ iter[t \ {Any(t)}] # Sum[t \ {Any(t)}]
      BY <2>4 DEF Step
    <2>6. t \ {Any(t)} \in SUBSET S /\ Cardinality(t \ {Any(t)}) = Cardinality(t) - 1
      BY <1>1, <1>2, <2>5, FS_RemoveElement
    <2>7. Cardinality(t) - 1 \in Bad
      BY <1>1, <2>5, <2>6
    <2> QED BY <2>2, <2>3, <2>7
  <1>8. iter[S] = Sum[S]
    BY <1>7
  <1> QED BY <1>6, <1>8

LEMMA BeginFacts ==
    ASSUME NEW q \in Nat, NEW r \in Nat
    PROVE  /\ \A i \in Nat : Begin(i, q, r) \in Nat
           /\ Begin(0, q, r) = 0
           /\ \A i \in Nat : Begin(i + 1, q, r) = Begin(i, q, r) + q + (IF i < r THEN 1 ELSE 0)
           /\ \A i, j \in Nat : i <= j => Begin(i, q, r) <= Begin(j, q, r)
  <1>1. \A i \in Nat : i * q \in Nat /\ (i + 1) * q = i * q + q
    OBVIOUS
  <1>2. ASSUME NEW i \in Nat, NEW j \in Nat, i <= j
        PROVE  i * q <= j * q
    <2>1. j - i \in Nat /\ j * q = i * q + (j - i) * q
      BY <1>2
    <2>2. (j - i) * q \in Nat /\ i * q \in Nat
      BY <1>1, <2>1
    <2> QED BY <2>1, <2>2
  <1>3. 0 * q = 0
    OBVIOUS
  <1>4. \A i \in Nat : Begin(i, q, r) \in Nat
    BY <1>1 DEF Begin
  <1>5. Begin(0, q, r) = 0
    BY <1>3 DEF Begin
  <1>6. \A i \in Nat : Begin(i + 1, q, r) = Begin(i, q, r) + q + (IF i < r THEN 1 ELSE 0)
    BY <1>1 DEF Begin
  <1>7. ASSUME NEW i \in Nat, NEW j \in Nat, i <= j
        PROVE  Begin(i, q, r) <= Begin(j, q, r)
    BY <1>1, <1>2, <1>7 DEF Begin
  <1> QED BY <1>4, <1>5, <1>6, <1>7

\* The ranges lie end to end, and the last one ends with the last partition.
LEMMA RangeFacts ==
    ASSUME NEW count \in Nat, NEW n \in Nat, n # 0
    PROVE  \E q, r \in Nat :
             /\ \A i \in Nat : /\ RangeOf(i, count, n) = Begin(i, q, r) .. Begin(i + 1, q, r) - 1
                               /\ Take(i, count, n) \in {q, q + 1}
                               /\ Take(i, count, n) = Begin(i + 1, q, r) - Begin(i, q, r)
             /\ Begin(n, q, r) = count
  <1>0. PICK q, r : q = count \div n /\ r = count % n
    OBVIOUS
  <1>1. /\ q \in Nat /\ r \in Nat /\ r < n /\ count = n * q + r
    BY <1>0
  <1>b. q \in Nat /\ r \in Nat
    BY <1>1
  <1>2. /\ Divides(count, n, q, r)
        /\ \A j \in Nat : Take(j, count, n) = q + (IF j < r THEN 1 ELSE 0)
    BY <1>0 DEF Take, Divides
  <1>3. ASSUME NEW i \in Nat
        PROVE  RangeOf(i, count, n) = Begin(i, q, r) .. Begin(i + 1, q, r) - 1
    <2>1. 0 .. i - 1 \subseteq Nat /\ IsFiniteSet(0 .. i - 1) /\ Cardinality(0 .. i - 1) = i
      BY FS_Interval
    <2>2. Cardinality(Low(0 .. i - 1, r)) = IF i < r THEN i ELSE r
      <3>1. CASE i < r
        <4>1. Low(0 .. i - 1, r) = 0 .. i - 1
          BY <1>1, <3>1 DEF Low
        <4> QED BY <2>1, <3>1, <4>1
      <3>2. CASE ~(i < r)
        <4>1. Low(0 .. i - 1, r) = 0 .. r - 1
          BY <1>1, <3>2 DEF Low
        <4>2. Cardinality(0 .. r - 1) = r
          BY <1>1, FS_Interval
        <4> QED BY <3>2, <4>1, <4>2
      <3> QED BY <3>1, <3>2
    <2>3. Total(0 .. i - 1, count, n) = Begin(i, q, r)
      <3>1. Total(0 .. i - 1, count, n)
              = Cardinality(0 .. i - 1) * q + Cardinality(Low(0 .. i - 1, r))
        BY <1>1, <1>2, <2>1, SumOfTakes
      <3> QED BY <2>1, <2>2, <3>1 DEF Begin
    <2>4. Begin(i + 1, q, r) = Begin(i, q, r) + Take(i, count, n)
      <3>1. /\ Begin(i + 1, q, r) = Begin(i, q, r) + q + (IF i < r THEN 1 ELSE 0)
            /\ Begin(i, q, r) \in Nat
        BY <1>b, BeginFacts
      <3> HIDE DEF Begin
      <3> QED BY <1>1, <1>2, <3>1
    <2>5. RangeOf(i, count, n) = Begin(i, q, r) .. Begin(i, q, r) + Take(i, count, n) - 1
      BY <2>3 DEF RangeOf, MapThenSumSet, MapThenFoldSet, Total
    <2>6. Begin(i, q, r) \in Nat /\ Take(i, count, n) \in Nat
      <3>1. Begin(i, q, r) \in Nat
        BY <1>b, BeginFacts
      <3>2. Take(i, count, n) = q + (IF i < r THEN 1 ELSE 0)
        BY <1>2
      <3> QED BY <1>1, <3>1, <3>2
    <2> HIDE DEF Begin
    <2>7. Begin(i, q, r) + Take(i, count, n) - 1 = Begin(i + 1, q, r) - 1
      BY <2>4, <2>6
    <2> QED BY <2>5, <2>7
  <1>4. ASSUME NEW i \in Nat
        PROVE  /\ Take(i, count, n) \in {q, q + 1}
               /\ Take(i, count, n) = Begin(i + 1, q, r) - Begin(i, q, r)
    <2>1. /\ Begin(i + 1, q, r) = Begin(i, q, r) + q + (IF i < r THEN 1 ELSE 0)
          /\ Begin(i, q, r) \in Nat
      BY <1>b, BeginFacts
    <2>2. Take(i, count, n) = q + (IF i < r THEN 1 ELSE 0)
      BY <1>2
    <2> QED BY <1>1, <2>1, <2>2
  <1>5. Begin(n, q, r) = count
    BY <1>1 DEF Begin
  <1> QED BY <1>1, <1>3, <1>4, <1>5

\* Every partition is in the range of exactly one subscriber, and no range is
\* longer than another by more than one.
LEMMA RangesPartition ==
    ASSUME NEW count \in Nat, NEW n \in Nat, n # 0
    PROVE  /\ \A i \in 0 .. n - 1 : RangeOf(i, count, n) \subseteq 0 .. count - 1
           /\ \A p \in 0 .. count - 1 : \E i \in 0 .. n - 1 : p \in RangeOf(i, count, n)
           /\ \A i, j \in 0 .. n - 1 :
                 i # j => \A p \in RangeOf(i, count, n) : p \notin RangeOf(j, count, n)
           /\ \A i \in 0 .. n - 1 : IsFiniteSet(RangeOf(i, count, n))
           /\ \E q \in Nat : \A i \in 0 .. n - 1 :
                 Cardinality(RangeOf(i, count, n)) \in {q, q + 1}
  <1>1. PICK q, r \in Nat :
             /\ \A i \in Nat : /\ RangeOf(i, count, n) = Begin(i, q, r) .. Begin(i + 1, q, r) - 1
                               /\ Take(i, count, n) \in {q, q + 1}
                               /\ Take(i, count, n) = Begin(i + 1, q, r) - Begin(i, q, r)
             /\ Begin(n, q, r) = count
    BY RangeFacts
  <1>2. PICK b : b = [i \in Nat |-> Begin(i, q, r)]
    OBVIOUS
  <1> HIDE DEF Begin, Take, RangeOf
  <1>3. /\ b \in [Nat -> Nat] /\ b[0] = 0 /\ b[n] = count
        /\ \A i, j \in Nat : i <= j => b[i] <= b[j]
        /\ \A i \in Nat : b[i + 1] - b[i] \in {q, q + 1}
        /\ \A i \in Nat : RangeOf(i, count, n) = b[i] .. b[i + 1] - 1
    <2>1. \A i \in Nat : b[i] = Begin(i, q, r)
      BY <1>2
    <2>2. b \in [Nat -> Nat]
      BY <1>2, BeginFacts
    <2>3. b[0] = 0 /\ b[n] = count
      BY <1>1, <2>1, BeginFacts
    <2>4. \A i, j \in Nat : i <= j => b[i] <= b[j]
      <3> SUFFICES ASSUME NEW i \in Nat, NEW j \in Nat, i <= j PROVE b[i] <= b[j]
        OBVIOUS
      <3>1. Begin(i, q, r) <= Begin(j, q, r)
        BY BeginFacts
      <3> QED BY <2>1, <3>1
    <2>5. \A i \in Nat : i + 1 \in Nat
      OBVIOUS
    <2>6. /\ \A i \in Nat : b[i + 1] - b[i] \in {q, q + 1}
          /\ \A i \in Nat : RangeOf(i, count, n) = b[i] .. b[i + 1] - 1
      BY <1>1, <2>1, <2>5
    <2> QED BY <2>2, <2>3, <2>4, <2>6
  <1>4. ASSUME NEW i \in 0 .. n - 1
        PROVE  /\ RangeOf(i, count, n) \subseteq 0 .. count - 1
               /\ IsFiniteSet(RangeOf(i, count, n))
               /\ Cardinality(RangeOf(i, count, n)) \in {q, q + 1}
    <2>1. i \in Nat /\ i + 1 \in Nat /\ i + 1 <= n /\ b[i] \in Nat /\ b[i + 1] \in Nat
      <3>1. i \in Nat /\ i + 1 \in Nat /\ i + 1 <= n
        OBVIOUS
      <3> QED BY <1>3, <3>1
    <2>2. b[i + 1] <= count /\ b[i] <= b[i + 1]
      BY <1>3, <2>1
    <2>3. RangeOf(i, count, n) = b[i] .. b[i + 1] - 1
      BY <1>3, <2>1
    <2>4. Cardinality(b[i] .. b[i + 1] - 1) = b[i + 1] - b[i] /\ IsFiniteSet(b[i] .. b[i + 1] - 1)
      <3> PICK lo, hi : lo = b[i] /\ hi = b[i + 1] - 1
        OBVIOUS
      <3>1. lo \in Int /\ hi \in Int /\ lo <= hi + 1 /\ hi + 1 = b[i + 1]
        BY <2>1, <2>2
      <3>2. IsFiniteSet(lo .. hi) /\ Cardinality(lo .. hi) = IF lo > hi THEN 0 ELSE hi - lo + 1
        BY <3>1, FS_Interval
      <3>3. Cardinality(lo .. hi) = (hi + 1) - lo
        BY <3>1, <3>2
      <3> QED BY <3>1, <3>2, <3>3
    <2>5. RangeOf(i, count, n) \subseteq 0 .. count - 1
      BY <2>1, <2>2, <2>3
    <2> QED BY <1>3, <2>1, <2>3, <2>4, <2>5
  <1>5. ASSUME NEW p \in 0 .. count - 1
        PROVE  \E i \in 0 .. n - 1 : p \in RangeOf(i, count, n)
    <2> DEFINE Ends == {i \in Nat : p < b[i + 1]}
    <2>1. n - 1 \in Ends
      BY <1>3
    <2>2. PICK i \in Ends : \A j \in Ends : i <= j
      BY <2>1, LeastElement
    <2>3. i \in Nat /\ i <= n - 1 /\ p < b[i + 1]
      BY <2>1, <2>2
    <2>4. b[i] <= p
      <3>1. CASE i = 0
        BY <1>3, <3>1
      <3>2. CASE i # 0
        <4>1. i - 1 \in Nat /\ (i - 1) + 1 = i /\ ~(i <= i - 1)
          BY <2>3, <3>2
        <4>2. i - 1 \notin Ends
          BY <2>2, <4>1
        <4>3. ~(p < b[i]) /\ b[i] \in Nat
          BY <1>3, <2>3, <4>1, <4>2
        <4> QED BY <4>3
      <3> QED BY <3>1, <3>2
    <2>5. b[i] \in Nat /\ b[i + 1] \in Nat /\ RangeOf(i, count, n) = b[i] .. b[i + 1] - 1
      <3>1. i \in Nat /\ i + 1 \in Nat
        BY <2>3
      <3> QED BY <1>3, <3>1
    <2>6. p \in RangeOf(i, count, n) /\ i \in 0 .. n - 1
      BY <2>3, <2>4, <2>5
    <2> QED BY <2>6
  <1>6. ASSUME NEW i \in 0 .. n - 1, NEW j \in 0 .. n - 1, i < j
        PROVE  \A p : ~(p \in RangeOf(i, count, n) /\ p \in RangeOf(j, count, n))
    <2>1. /\ i \in Nat /\ j \in Nat /\ i + 1 \in Nat /\ j + 1 \in Nat /\ i + 1 <= j
      BY <1>6
    <2>2. /\ b[i + 1] <= b[j] /\ b[i] \in Nat /\ b[i + 1] \in Nat /\ b[j] \in Nat
          /\ b[j + 1] \in Nat
      BY <1>3, <2>1
    <2>3. /\ RangeOf(i, count, n) = b[i] .. b[i + 1] - 1
          /\ RangeOf(j, count, n) = b[j] .. b[j + 1] - 1
      BY <1>3, <2>1
    <2> QED BY <2>2, <2>3
  <1>7. \A i, j \in 0 .. n - 1 :
           i # j => \A p \in RangeOf(i, count, n) : p \notin RangeOf(j, count, n)
    <2>1. \A i, j \in 0 .. n - 1 : i # j => i < j \/ j < i
      OBVIOUS
    <2> QED BY <1>6, <2>1
  <1> QED BY <1>4, <1>5, <1>7

\* How many of the subscribers come before m.
Rank(all, m) == Cardinality({o \in all : o < m})

\* The subscribers in the order of their ids are numbered from 0, each number
\* being one's own.
LEMMA RanksNumber ==
    ASSUME NEW all, all \subseteq Nat, IsFiniteSet(all)
    PROVE  /\ \A m \in all : Rank(all, m) \in 0 .. Cardinality(all) - 1
           /\ \A m, o \in all : m # o => Rank(all, m) # Rank(all, o)
           /\ \A i \in 0 .. Cardinality(all) - 1 : \E m \in all : Rank(all, m) = i
  <1> DEFINE Below(m) == {o \in all : o < m}
             n == Cardinality(all)
  <1>1. n \in Nat
    BY FS_CardinalityType
  <1>2. \A m \in all : /\ IsFiniteSet(Below(m)) /\ Cardinality(Below(m)) \in Nat
                       /\ Rank(all, m) = Cardinality(Below(m))
    <2> SUFFICES ASSUME NEW m \in all
                 PROVE  /\ IsFiniteSet(Below(m)) /\ Cardinality(Below(m)) \in Nat
                        /\ Rank(all, m) = Cardinality(Below(m))
      OBVIOUS
    <2>1. Below(m) \in SUBSET all
      OBVIOUS
    <2>2. IsFiniteSet(Below(m))
      BY <2>1, FS_Subset
    <2> QED BY <2>2, FS_CardinalityType DEF Rank
  <1>3. ASSUME NEW m \in all, NEW T, T \in SUBSET all, IsFiniteSet(T),
               Below(m) \subseteq T, m \in T
        PROVE  Rank(all, m) < Cardinality(T)
    <2>1. m \notin Below(m)
      OBVIOUS
    <2> PICK B : B = Below(m)
      OBVIOUS
    <2>2. /\ IsFiniteSet(B \cup {m}) /\ Cardinality(B \cup {m}) = Cardinality(B) + 1
      BY <1>2, <2>1, FS_AddElement
    <2>3. B \cup {m} \in SUBSET T
      BY <1>3
    <2>4. Cardinality(B \cup {m}) <= Cardinality(T)
      BY <1>3, <2>3, FS_Subset
    <2>5. Cardinality(T) \in Nat /\ Cardinality(B) \in Nat /\ Rank(all, m) = Cardinality(B)
      BY <1>2, <1>3, FS_CardinalityType
    <2> QED BY <2>2, <2>4, <2>5
  <1>4. \A m \in all : Rank(all, m) \in 0 .. n - 1
    <2> SUFFICES ASSUME NEW m \in all PROVE Rank(all, m) \in 0 .. n - 1
      OBVIOUS
    <2>1. Rank(all, m) < n
      <3>1. all \in SUBSET all /\ Below(m) \subseteq all
        OBVIOUS
      <3> QED BY <1>3, <3>1
    <2>2. Rank(all, m) \in Nat
      BY <1>2
    <2> QED BY <1>1, <2>1, <2>2
  <1>5. ASSUME NEW m \in all, NEW o \in all, m < o
        PROVE  Rank(all, m) # Rank(all, o)
    <2>1. /\ Below(o) \in SUBSET all /\ m \in Below(o)
      BY <1>5
    <2>2. Below(m) \subseteq Below(o)
      <3> SUFFICES ASSUME NEW k \in all, k < m PROVE k < o
        OBVIOUS
      <3>1. k \in Nat /\ m \in Nat /\ o \in Nat
        OBVIOUS
      <3> QED BY <1>5, <3>1
    <2>3. Rank(all, m) < Cardinality(Below(o))
      BY <1>2, <1>3, <2>1, <2>2
    <2>4. Rank(all, o) = Cardinality(Below(o)) /\ Rank(all, m) \in Nat /\ Rank(all, o) \in Nat
      BY <1>2
    <2> HIDE DEF Below
    <2> QED BY <2>3, <2>4
  <1> HIDE DEF Below
  <1>6. \A m, o \in all : m # o => Rank(all, m) # Rank(all, o)
    <2>1. \A m, o \in all : m # o => m < o \/ o < m
      OBVIOUS
    <2> QED BY <1>5, <2>1
  <1>7. \A i \in 0 .. n - 1 : \E m \in all : Rank(all, m) = i
    <2> DEFINE f == [m \in all |-> Rank(all, m)]
    <2>1. f \in Injection(all, 0 .. n - 1)
      BY <1>4, <1>6 DEF Injection, IsInjective
    <2>2. IsFiniteSet(0 .. n - 1) /\ Cardinality(0 .. n - 1) = n
      <3> HIDE DEF n
      <3>1. 0 \in Int /\ n - 1 \in Int
        BY <1>1
      <3> QED BY <1>1, <3>1, FS_Interval
    <2> HIDE DEF f
    <2>3. f \in Surjection(all, 0 .. n - 1)
      BY <2>1, <2>2, FS_Injection
    <2>4. \A i \in 0 .. n - 1 : \E m \in all : f[m] = i
      BY <2>3 DEF Surjection
    <2> QED BY <2>4 DEF f
  <1> QED BY <1>4, <1>6, <1>7

\* A set of partitions of one topic has as many members as there are numbers.
LEMMA OneTopic ==
    ASSUME NEW topic, NEW R, IsFiniteSet(R)
    PROVE  Cardinality({topic} \X R) = Cardinality(R)
  <1> DEFINE f == [p \in R |-> <<topic, p>>]
  <1>1. f \in Bijection(R, {topic} \X R)
    <2>1. f \in [R -> {topic} \X R]
      OBVIOUS
    <2>2. f \in Injection(R, {topic} \X R)
      BY <2>1 DEF Injection, IsInjective
    <2>3. f \in Surjection(R, {topic} \X R)
      BY <2>1 DEF Surjection
    <2> QED BY <2>2, <2>3 DEF Bijection
  <1> HIDE DEF f
  <1> QED BY <1>1, FS_Bijection DEF ExistsBijection

\* What a plan gives m of a topic.
Of(plan, m, topic) == {part \in plan[m] : part[1] = topic}

LEMMA PartFacts ==
    ASSUME NEW subs, NEW m \in DOMAIN subs, NEW topic, NEW all, all = Subscribers(topic, subs)
    PROVE  Of(RangeAssign(subs), m, topic)
             = IF m \in all
               THEN {topic} \X RangeOf(Rank(all, m), Partitions[topic], Cardinality(all))
               ELSE {}
  <1> DEFINE Part(t) == {t} \X RangeOf(Rank(Subscribers(t, subs), m), Partitions[t],
                                       Cardinality(Subscribers(t, subs)))
  <1>1. RangeAssign(subs)[m] = UNION {Part(t) : t \in subs[m]}
    BY DEF RangeAssign, Rank
  <1>2. \A t : \A part \in Part(t) : part[1] = t
    OBVIOUS
  <1> HIDE DEF Part
  <1>3. Of(RangeAssign(subs), m, topic) = IF topic \in subs[m] THEN Part(topic) ELSE {}
    BY <1>1, <1>2 DEF Of
  <1>4. m \in all <=> topic \in subs[m]
    BY DEF Subscribers
  <1> QED BY <1>3, <1>4 DEF Part

LEMMA PartTopic ==
    ASSUME NEW subs, Sane(subs), NEW m \in DOMAIN subs, NEW part \in RangeAssign(subs)[m]
    PROVE  \E topic \in DOMAIN Partitions : part[1] = topic
  <1>1. PICK topic \in subs[m] :
           part \in {topic} \X RangeOf(Rank(Subscribers(topic, subs), m), Partitions[topic],
                                      Cardinality(Subscribers(topic, subs)))
    BY DEF RangeAssign, Rank
  <1>2. part[1] = topic
    BY <1>1
  <1> QED BY <1>2 DEF Sane

\* What range_assign gives the subscribers of a topic is a partition of it,
\* and a fair one; the others are given none of it.
LEMMA RangeAssignPartitions ==
    ASSUME NEW subs, DOMAIN subs \subseteq Nat, IsFiniteSet(DOMAIN subs),
           NEW topic, Partitions[topic] \in Nat,
           NEW all, all = Subscribers(topic, subs), NEW plan, plan = RangeAssign(subs)
    PROVE  /\ all # {} => UNION {Of(plan, m, topic) : m \in all}
                            = {topic} \X (0 .. Partitions[topic] - 1)
           /\ \A m, o \in DOMAIN plan : m # o => Of(plan, m, topic) \cap Of(plan, o, topic) = {}
           /\ \A m, o \in all : Cardinality(Of(plan, m, topic)) <= Cardinality(Of(plan, o, topic)) + 1
           /\ \A m \in DOMAIN plan \ all : Of(plan, m, topic) = {}
  <1> PICK count, n : count = Partitions[topic] /\ n = Cardinality(all)
    OBVIOUS
  <1> DEFINE R(m) == RangeOf(Rank(all, m), count, n)
  <1>1. all \subseteq DOMAIN subs /\ DOMAIN plan = DOMAIN subs
    BY DEF Subscribers, RangeAssign
  <1>2. all \subseteq Nat /\ IsFiniteSet(all) /\ n \in Nat
    BY <1>1, FS_Subset, FS_CardinalityType
  <1>3. all # {} => n # 0
    BY <1>2, FS_EmptySet
  <1>4. \A m \in DOMAIN plan : Of(plan, m, topic) = IF m \in all THEN {topic} \X R(m) ELSE {}
    BY <1>1, PartFacts
  <1>5. /\ \A m \in all : Rank(all, m) \in 0 .. n - 1
        /\ \A m, o \in all : m # o => Rank(all, m) # Rank(all, o)
        /\ \A i \in 0 .. n - 1 : \E m \in all : Rank(all, m) = i
    BY <1>2, RanksNumber
  <1>6. ASSUME all # {}
        PROVE  UNION {Of(plan, m, topic) : m \in all} = {topic} \X (0 .. count - 1)
    <2>1. /\ \A i \in 0 .. n - 1 : RangeOf(i, count, n) \subseteq 0 .. count - 1
          /\ \A p \in 0 .. count - 1 : \E i \in 0 .. n - 1 : p \in RangeOf(i, count, n)
      BY <1>2, <1>3, <1>6, RangesPartition
    <2>2. \A m \in all : R(m) \subseteq 0 .. count - 1
      BY <1>5, <2>1
    <2>3. \A p \in 0 .. count - 1 : \E m \in all : p \in R(m)
      BY <1>5, <2>1
    <2>4. \A m \in all : Of(plan, m, topic) = {topic} \X R(m)
      BY <1>1, <1>4
    <2> HIDE DEF R, Of
    <2>5. \A x \in UNION {Of(plan, m, topic) : m \in all} : x \in {topic} \X (0 .. count - 1)
      BY <2>2, <2>4
    <2>6. \A x \in {topic} \X (0 .. count - 1) : \E m \in all : x \in Of(plan, m, topic)
      <3> SUFFICES ASSUME NEW x \in {topic} \X (0 .. count - 1)
                   PROVE  \E m \in all : x \in Of(plan, m, topic)
        OBVIOUS
      <3>1. PICK p \in 0 .. count - 1 : x = <<topic, p>>
        OBVIOUS
      <3>2. PICK m \in all : p \in R(m)
        BY <2>3
      <3> QED BY <2>4, <3>1, <3>2
    <2> QED BY <2>5, <2>6
  <1>7. ASSUME NEW m \in DOMAIN plan, NEW o \in DOMAIN plan, m # o
        PROVE  Of(plan, m, topic) \cap Of(plan, o, topic) = {}
    <2>1. CASE m \in all /\ o \in all
      <3>1. n \in Nat /\ n # 0 /\ count \in Nat
        BY <1>2, <1>3, <2>1
      <3>2. R(m) \cap R(o) = {}
        <4> PICK i, j : i = Rank(all, m) /\ j = Rank(all, o)
          OBVIOUS
        <4>1. i \in 0 .. n - 1 /\ j \in 0 .. n - 1 /\ i # j
          BY <1>5, <1>7, <2>1
        <4>2. \A p \in RangeOf(i, count, n) : p \notin RangeOf(j, count, n)
          BY <3>1, <4>1, RangesPartition
        <4> QED BY <4>2
      <3>3. Of(plan, m, topic) = {topic} \X R(m) /\ Of(plan, o, topic) = {topic} \X R(o)
        BY <1>4, <2>1
      <3> HIDE DEF R
      <3> QED BY <3>2, <3>3
    <2>2. CASE ~(m \in all /\ o \in all)
      BY <1>4, <2>2
    <2> QED BY <2>1, <2>2
  <1>8. ASSUME NEW m \in all, NEW o \in all
        PROVE  Cardinality(Of(plan, m, topic)) <= Cardinality(Of(plan, o, topic)) + 1
    <2>1. n \in Nat /\ n # 0 /\ count \in Nat
      BY <1>2, <1>3
    <2>2. PICK q \in Nat : \A i \in 0 .. n - 1 : Cardinality(RangeOf(i, count, n)) \in {q, q + 1}
      BY <2>1, RangesPartition
    <2>3. \A i \in 0 .. n - 1 : IsFiniteSet(RangeOf(i, count, n))
      BY <2>1, RangesPartition
    <2>4. \A k \in all : /\ IsFiniteSet(R(k)) /\ Cardinality(R(k)) \in {q, q + 1}
                         /\ Of(plan, k, topic) = {topic} \X R(k)
      BY <1>1, <1>4, <1>5, <2>2, <2>3
    <2> HIDE DEF R
    <2>5. \A k \in all : Cardinality(Of(plan, k, topic)) \in {q, q + 1}
      <3> SUFFICES ASSUME NEW k \in all
                   PROVE  Cardinality(Of(plan, k, topic)) \in {q, q + 1}
        OBVIOUS
      <3>1. Cardinality({topic} \X R(k)) = Cardinality(R(k))
        BY <2>4, OneTopic
      <3> QED BY <2>4, <3>1
    <2>6. /\ Cardinality(Of(plan, m, topic)) \in {q, q + 1}
          /\ Cardinality(Of(plan, o, topic)) \in {q, q + 1}
      BY <2>5
    <2> QED BY <2>6
  <1>9. \A m \in DOMAIN plan \ all : Of(plan, m, topic) = {}
    BY <1>4
  <1> QED BY <1>6, <1>7, <1>8, <1>9
-----------------------------------------------------------------------------
(* How a member takes an answer.                                             *)

LEMMA NewcomerFacts ==
    /\ IsMember(Newcomer) /\ Newcomer.at = "new" /\ Newcomer.generation_id = -1
    /\ \A x : /\ IsMember([Newcomer EXCEPT !.cached = x])
              /\ [Newcomer EXCEPT !.cached = x].at = "new"
              /\ [Newcomer EXCEPT !.cached = x].generation_id = -1
  BY DEF Newcomer, IsMember

LEMMA AfterFacts ==
    ASSUME NEW r, NEW code, IsMember(r)
    PROVE  /\ IsMember(After(r, code))
           /\ After(r, code).at \in {"join", "failed", "new"}
           /\ After(r, code).generation_id \in {r.generation_id, -1}
  <1> DEFINE next == [r EXCEPT !.id = IF code = "UNKNOWN_MEMBER_ID" THEN 0 ELSE @,
                               !.cached = IF code = "RETRIABLE" THEN Forgotten(r) ELSE @,
                               !.plan = <<>>]
  <1>1. IsMember(next) /\ next.generation_id = r.generation_id
    BY DEF IsMember
  <1>2. \/ After(r, code) = [next EXCEPT !.at = "join", !.rounds = @ + 1]
        \/ After(r, code) = [next EXCEPT !.at = "failed", !.rounds = 0]
        \/ After(r, code) = [Newcomer EXCEPT !.cached = next.cached]
    BY DEF After
  <1> HIDE DEF next
  <1>3. CASE After(r, code) = [next EXCEPT !.at = "join", !.rounds = @ + 1]
    BY <1>1, <1>3 DEF IsMember
  <1>4. CASE After(r, code) = [next EXCEPT !.at = "failed", !.rounds = 0]
    BY <1>1, <1>4 DEF IsMember
  <1>5. CASE After(r, code) = [Newcomer EXCEPT !.cached = next.cached]
    BY <1>5, NewcomerFacts
  <1> QED BY <1>2, <1>3, <1>4, <1>5

LEMMA GrantedFacts ==
    ASSUME NEW r, NEW g, IsMember(r), IsGroup(g)
    PROVE  /\ IsMember(Granted(r, g)) /\ Granted(r, g).at = "sync"
           /\ Granted(r, g).generation_id = g.generation /\ Granted(r, g).id = r.id
           /\ r.id = g.leader => Granted(r, g).plan = RangeAssign(g.members)
  <1> HIDE DEF RangeAssign
  <1> QED BY DEF Granted, IsMember, IsGroup

LEMMA AssignedFacts ==
    ASSUME NEW r, NEW g, IsMember(r)
    PROVE  /\ IsMember(Assigned(r, g)) /\ Assigned(r, g).at = "idle"
           /\ Assigned(r, g).generation_id = r.generation_id /\ Assigned(r, g).id = r.id
           /\ Assigned(r, g).assignment = g.plan[r.id]
  BY DEF Assigned, IsMember

LEMMA RangeAssignDomain ==
    ASSUME NEW s
    PROVE  DOMAIN RangeAssign(s) = DOMAIN s
  BY DEF RangeAssign

\* Where nothing is asked of a member but what it has adopted.
LEMMA RestingIsFine ==
    ASSUME NEW g, NEW r, IsMember(r), r.generation_id <= g.generation,
           r.at \in {"new", "join", "parked", "failed", "gone"}
    PROVE  Fine(g, r)
  BY DEF Fine

LEMMA AfterIsFine ==
    ASSUME NEW g, NEW r, NEW code, g.generation \in Nat, Fine(g, r)
    PROVE  Fine(g, After(r, code))
  <1>1. IsMember(r) /\ r.generation_id \in Int /\ r.generation_id <= g.generation
    BY DEF Fine, IsMember
  <1>2. /\ IsMember(After(r, code)) /\ After(r, code).at \in {"join", "failed", "new"}
        /\ After(r, code).generation_id <= g.generation
    BY <1>1, AfterFacts
  <1> QED BY <1>2, RestingIsFine

\* A member given its part of the plan, in the generation it belongs to.
LEMMA AssignedIsFine ==
    ASSUME NEW g, NEW r, IsMember(r), r.generation_id = g.generation, g.generation \in Nat,
           r.id \in DOMAIN g.plan
    PROVE  Fine(g, Assigned(r, g))
  BY AssignedFacts DEF Fine

LEMMA GrantedIsFine ==
    ASSUME NEW g, NEW r, IsMember(r), IsGroup(g)
    PROVE  Fine(g, Granted(r, g))
  <1>1. g.generation \in Nat
    BY DEF IsGroup
  <1> QED BY <1>1, GrantedFacts DEF Fine

-----------------------------------------------------------------------------
(* Kinds of step.                                                            *)

\* A step of one member that the coordinator does not notice.
LEMMA OneMember ==
    ASSUME IInv, NEW c \in Clients, NEW r, Fine(group, r),
           member' = [member EXCEPT ![c] = r], UNCHANGED <<group, commits>>
    PROVE  IInv'
  <1>1. /\ \A d \in Clients : member'[d] = IF d = c THEN r ELSE member[d]
        /\ member' = [d \in Clients |-> member'[d]]
    BY DEF IInv
  <1> QED BY <1>1 DEF IInv

\* A rebalance begins or goes on: generation and plan stay, nobody waits.
LEMMA Rebalances ==
    ASSUME IInv, IsGroup(group'), group'.state \in {"empty", "preparing"},
           group'.generation = group.generation, group'.plan = group.plan,
           member' = [c \in Clients |-> member'[c]],
           \A c \in Clients : \/ member'[c] = member[c] /\ member[c].at # "waiting"
                              \/ Fine(group', member'[c]),
           commits' = commits
    PROVE  IInv'
  <1> HIDE DEF RangeAssign
  <1>1. Planned(group')
    BY DEF IInv, Planned
  <1>2. \A r : Fine(group, r) /\ r.at # "waiting" => Fine(group', r)
    BY DEF Fine
  <1>3. \A c \in Clients : Fine(group', member'[c])
    BY <1>2 DEF IInv
  <1>4. \A m \in commits : Valid(group', m)
    BY DEF IInv, Valid
  <1> QED BY <1>1, <1>3, <1>4 DEF IInv

LEMMA RebalanceFacts ==
    ASSUME IInv, NEW members, NEW joins, Sane(members)
    PROVE  /\ IsGroup(Rebalance(members, joins))
           /\ Rebalance(members, joins).state \in {"empty", "preparing"}
           /\ Rebalance(members, joins).generation = group.generation
           /\ Rebalance(members, joins).plan = group.plan
  <1> DEFINE g == Rebalance(members, joins)
             joined == ((IF group.state = "preparing" THEN group.joined ELSE {}) \cup joins)
                         \cap DOMAIN members
  <1>1. IsGroup(group)
    BY DEF IInv
  <1>2. g = [group EXCEPT !.state = IF members = <<>> THEN "empty" ELSE "preparing",
                          !.members = members, !.pending = group.pending \ joins,
                          !.joined = joined]
    BY DEF Rebalance
  <1> HIDE DEF joined
  <1>3. g = [state |-> IF members = <<>> THEN "empty" ELSE "preparing",
             generation |-> group.generation, members |-> members,
             pending |-> group.pending \ joins, joined |-> joined,
             leader |-> group.leader, plan |-> group.plan]
    BY <1>1, <1>2 DEF IsGroup
  <1>4. IsFiniteSet(group.pending \ joins) /\ group.pending \ joins \subseteq Nat \ {0}
    BY <1>1, FS_Subset DEF IsGroup
  <1> QED BY <1>1, <1>3, <1>4 DEF IsGroup

\* Whoever waited is turned away.
LEMMA InterruptedFacts ==
    ASSUME IInv, NEW c \in Clients, NEW all, all[c] = member[c]
    PROVE  \/ Interrupted(all)[c] = member[c] /\ member[c].at # "waiting"
           \/ Fine(group, Interrupted(all)[c]) /\ Interrupted(all)[c].at # "waiting"
  <1>1. CASE member[c].at # "waiting"
    BY <1>1 DEF Interrupted
  <1>2. CASE member[c].at = "waiting"
    <2>1. Interrupted(all)[c] = After(member[c], "REBALANCE_IN_PROGRESS")
      BY <1>2 DEF Interrupted
    <2>2. Fine(group, member[c]) /\ group.generation \in Nat /\ IsMember(member[c])
      BY DEF IInv, IsGroup, Fine
    <2> QED BY <2>1, <2>2, AfterIsFine, AfterFacts
  <1> QED BY <1>1, <1>2

\* What is fine for the group is fine for the group in a rebalance.
LEMMA FineInRebalance ==
    ASSUME NEW g, NEW h, h.state \in {"empty", "preparing"}, h.generation = g.generation,
           h.plan = g.plan, NEW r, Fine(g, r), r.at # "waiting"
    PROVE  Fine(h, r)
  BY DEF Fine

LEMMA WithoutFacts ==
    ASSUME IInv, NEW id
    PROVE  Sane(Without(id))
  <1>1. /\ DOMAIN Without(id) = DOMAIN group.members \ {id}
        /\ \A m \in DOMAIN Without(id) : Without(id)[m] = group.members[m]
    BY DEF Without, Restrict
  <1>2. Sane(group.members)
    BY DEF IInv, IsGroup
  <1>3. IsFiniteSet(DOMAIN group.members \ {id})
    BY <1>2, FS_Subset DEF Sane
  <1> QED BY <1>1, <1>2, <1>3 DEF Sane

LEMMA DismissKeeps ==
    ASSUME IInv, NEW id, Dismiss(id), commits' = commits
    PROVE  IInv'
  <1>1. group' = Rebalance(Without(id), {}) /\ member' = Interrupted(member)
    BY DEF Dismiss
  <1>2. /\ IsGroup(group') /\ group'.state \in {"empty", "preparing"}
        /\ group'.generation = group.generation /\ group'.plan = group.plan
    BY <1>1, WithoutFacts, RebalanceFacts
  <1>3. member' = [c \in Clients |-> member'[c]]
    BY <1>1 DEF Interrupted
  <1>4. \A c \in Clients : \/ member'[c] = member[c] /\ member[c].at # "waiting"
                           \/ Fine(group', member'[c])
    BY <1>1, <1>2, InterruptedFacts, FineInRebalance
  <1> QED BY <1>2, <1>3, <1>4, Rebalances

-----------------------------------------------------------------------------
(* New ids.                                                                  *)

LEMMA FreshFacts ==
    ASSUME IInv
    PROVE  Fresh \in Nat \ {0}
  <1> DEFINE ids == {member[c].id : c \in Clients}
             senders == {m.id : m \in commits}
             used == DOMAIN group.members \cup group.pending \cup DOMAIN group.plan
                     \cup {group.leader} \cup ids \cup senders
             n == Cardinality(used)
  <1>1. IsFiniteSet(ids)
    <2>1. [c \in Clients |-> member[c].id] \in Surjection(Clients, ids)
      BY DEF Surjection
    <2> QED BY <2>1, FS_Surjection, GroupAssumption
  <1>2. IsFiniteSet(senders)
    <2>1. [m \in commits |-> m.id] \in Surjection(commits, senders)
      BY DEF Surjection
    <2> QED BY <2>1, FS_Surjection DEF IInv
  <1>3. IsFiniteSet(used)
    <2>1. /\ IsFiniteSet(DOMAIN group.members) /\ IsFiniteSet(group.pending)
          /\ IsFiniteSet(DOMAIN group.plan) /\ IsFiniteSet({group.leader})
      BY FS_Singleton DEF IInv, IsGroup, Sane
    <2> HIDE DEF ids, senders
    <2>2. IsFiniteSet(DOMAIN group.members \cup group.pending)
      BY <2>1, FS_Union
    <2>3. IsFiniteSet(DOMAIN group.members \cup group.pending \cup DOMAIN group.plan)
      BY <2>1, <2>2, FS_Union
    <2>4. IsFiniteSet(DOMAIN group.members \cup group.pending \cup DOMAIN group.plan
                      \cup {group.leader})
      BY <2>1, <2>3, FS_Union
    <2>5. IsFiniteSet(DOMAIN group.members \cup group.pending \cup DOMAIN group.plan
                      \cup {group.leader} \cup ids)
      BY <1>1, <2>4, FS_Union
    <2> QED BY <1>2, <2>5, FS_Union
  <1> HIDE DEF used
  <1>4. n \in Nat
    BY <1>3, FS_CardinalityType
  <1>5. (1 .. n + 1) \ used # {}
    <2> SUFFICES ASSUME 1 .. n + 1 \subseteq used PROVE FALSE
      OBVIOUS
    <2>1. Cardinality(1 .. n + 1) <= n
      BY <1>3, FS_Subset
    <2>2. Cardinality(1 .. n + 1) = n + 1
      BY <1>4, FS_Interval
    <2> QED BY <1>4, <2>1, <2>2
  <1>6. Fresh = Min((1 .. n + 1) \ used)
    BY DEF Fresh, used
  <1>7. \E x \in (1 .. n + 1) \ used : \A y \in (1 .. n + 1) \ used : x <= y
    <2>1. (1 .. n + 1) \ used \subseteq Nat
      BY <1>4
    <2> QED BY <1>5, <2>1, LeastElement
  <1>8. Fresh \in (1 .. n + 1) \ used
    BY <1>6, <1>7 DEF Min
  <1> QED BY <1>4, <1>8


-----------------------------------------------------------------------------
(* What the steps of a member preserve.                                      *)

LEMMA MemberFacts ==
    ASSUME IInv, NEW c \in Clients
    PROVE  /\ Fine(group, member[c]) /\ IsMember(member[c])
           /\ member[c].generation_id <= group.generation
           /\ group.generation \in Nat
  BY DEF IInv, IsGroup, Fine

\* A step after which the member is at rest.
LEMMA OneRests ==
    ASSUME IInv, NEW c \in Clients, NEW r, IsMember(r),
           r.generation_id = member[c].generation_id,
           r.at \in {"new", "join", "parked", "failed", "gone"},
           member' = [member EXCEPT ![c] = r], UNCHANGED <<group, commits>>
    PROVE  IInv'
  BY MemberFacts, RestingIsFine, OneMember

LEMMA RejoinKeeps ==
    ASSUME IInv, NEW c \in Clients, Rejoin(c)
    PROVE  IInv'
  <1> DEFINE r == [member[c] EXCEPT !.at = "join", !.rounds = 0]
  <1>1. IsMember(r) /\ r.generation_id = member[c].generation_id /\ r.at = "join"
    BY MemberFacts DEF IsMember
  <1>2. member' = [member EXCEPT ![c] = r] /\ UNCHANGED <<group, commits>>
    BY DEF Rejoin
  <1> QED BY <1>1, <1>2, OneRests

\* What the member knows of the coordinator says nothing about the group.
LEMMA CachedIsFine ==
    ASSUME NEW g, NEW r, NEW x, Fine(g, r)
    PROVE  Fine(g, [r EXCEPT !.cached = x])
  <1> DEFINE s == [r EXCEPT !.cached = x]
  <1>1. /\ IsMember(s) /\ s.at = r.at /\ s.id = r.id /\ s.generation_id = r.generation_id
        /\ s.plan = r.plan /\ s.assignment = r.assignment
    BY DEF Fine, IsMember
  <1> HIDE DEF s
  <1>2. Fine(g, s)
    BY <1>1 DEF Fine
  <1> QED BY <1>2 DEF s

LEMMA DiscoverKeeps ==
    ASSUME IInv, NEW c \in Clients, Discover(c) \/ HeartbeatAstray(c)
    PROVE  IInv'
  <1>1. PICK x : /\ member' = [member EXCEPT ![c] = [member[c] EXCEPT !.cached = x]]
                 /\ UNCHANGED <<group, commits>>
    BY DEF Discover, HeartbeatAstray
  <1>2. Fine(group, [member[c] EXCEPT !.cached = x])
    BY MemberFacts, CachedIsFine
  <1> QED BY <1>1, <1>2, OneMember

\* A call that fails, whatever the answer.
LEMMA FailureKeeps ==
    ASSUME IInv, NEW c \in Clients,
           NotCoordinator(c) \/ JoinRefused(c) \/ SyncRefused(c) \/ Lose(c)
    PROVE  IInv'
  <1>1. PICK code : /\ member' = [member EXCEPT ![c] = After(member[c], code)]
                    /\ UNCHANGED <<group, commits>>
    BY DEF NotCoordinator, JoinRefused, SyncRefused, Lose, Unsynced
  <1>2. Fine(group, After(member[c], code))
    BY MemberFacts, AfterIsFine
  <1> QED BY <1>1, <1>2, OneMember

\* The group's members and plan, its generation and its leader are all that
\* the rest of the state depends on.
LEMMA SameGroup ==
    ASSUME IInv, IsGroup(group'), group'.state = group.state,
           group'.generation = group.generation, group'.members = group.members,
           group'.leader = group.leader, group'.plan = group.plan,
           member' = [c \in Clients |-> member'[c]],
           \A c \in Clients : Fine(group, member'[c]), commits' = commits
    PROVE  IInv'
  <1> HIDE DEF RangeAssign
  <1>1. Planned(group')
    BY DEF IInv, Planned
  <1>2. \A r : Fine(group, r) => Fine(group', r)
    BY DEF Fine
  <1>3. \A m : Valid(group, m) => Valid(group', m)
    BY DEF Valid
  <1> QED BY <1>1, <1>2, <1>3 DEF IInv

LEMMA PendingFacts ==
    ASSUME IInv, NEW ids, IsFiniteSet(ids), ids \subseteq Nat \ {0},
           group' = [group EXCEPT !.pending = ids]
    PROVE  /\ IsGroup(group') /\ group'.state = group.state
           /\ group'.generation = group.generation /\ group'.members = group.members
           /\ group'.leader = group.leader /\ group'.plan = group.plan
  <1>1. IsGroup(group)
    BY DEF IInv
  <1>2. group' = [state |-> group.state, generation |-> group.generation,
                  members |-> group.members, pending |-> ids, joined |-> group.joined,
                  leader |-> group.leader, plan |-> group.plan]
    BY <1>1 DEF IsGroup
  <1> QED BY <1>1, <1>2 DEF IsGroup

LEMMA MintKeeps ==
    ASSUME IInv, NEW c \in Clients, Mint(c)
    PROVE  IInv'
  <1>1. PICK id : id = Fresh
    OBVIOUS
  <1>2. id \in Nat \ {0}
    BY <1>1, FreshFacts
  <1>3. /\ group' = [group EXCEPT !.pending = group.pending \cup {id}]
        /\ member' = [member EXCEPT ![c] = [member[c] EXCEPT !.id = id]]
        /\ member[c].at = "join" /\ commits' = commits
    BY <1>1 DEF Mint, Joins, At
  <1>4. IsFiniteSet(group.pending \cup {id}) /\ group.pending \cup {id} \subseteq Nat \ {0}
    BY <1>2, FS_AddElement DEF IInv, IsGroup
  <1> DEFINE r == [member[c] EXCEPT !.id = id]
  <1>5. IsMember(r) /\ r.generation_id = member[c].generation_id /\ r.at = "join"
    BY <1>2, <1>3, MemberFacts DEF IsMember
  <1>6. Fine(group, r)
    BY <1>5, MemberFacts, RestingIsFine
  <1> HIDE DEF r
  <1>7. \A d \in Clients : member'[d] = IF d = c THEN r ELSE member[d]
    BY <1>3 DEF IInv, r
  <1>8. member' = [d \in Clients |-> member'[d]]
    BY <1>3 DEF IInv
  <1>9. \A d \in Clients : Fine(group, member'[d])
    BY <1>6, <1>7, MemberFacts
  <1> QED BY <1>3, <1>4, <1>8, <1>9, PendingFacts, SameGroup

LEMMA JoinKeeps ==
    ASSUME IInv, NEW c \in Clients, Join(c)
    PROVE  IInv'
  <1>1. PICK id, members, all :
           /\ id = member[c].id
           /\ members = [m \in DOMAIN group.members \cup {id} |->
                            IF m = id THEN Subscribed[c] ELSE group.members[m]]
           /\ all = [member EXCEPT ![c] = [member[c] EXCEPT !.at = "parked"]]
    OBVIOUS
  <1>2. /\ id \in DOMAIN group.members \cup group.pending
        /\ group' = Rebalance(members, {id}) /\ member' = Interrupted(all)
        /\ commits' = commits
    BY <1>1 DEF Join, Known
  <1>3. Sane(members)
    <2>1. /\ DOMAIN members = DOMAIN group.members \cup {id}
          /\ \A m \in DOMAIN members :
                \/ members[m] = Subscribed[c]
                \/ m \in DOMAIN group.members /\ members[m] = group.members[m]
      BY <1>1
    <2>2. Sane(group.members) /\ group.pending \subseteq Nat \ {0}
      BY DEF IInv, IsGroup
    <2>3. Subscribed[c] \subseteq DOMAIN Partitions
      BY GroupAssumption
    <2>4. IsFiniteSet(DOMAIN group.members \cup {id})
      BY <2>2, FS_AddElement DEF Sane
    <2> QED BY <1>2, <2>1, <2>2, <2>3, <2>4 DEF Sane
  <1>4. /\ IsGroup(group') /\ group'.state \in {"empty", "preparing"}
        /\ group'.generation = group.generation /\ group'.plan = group.plan
    BY <1>2, <1>3, RebalanceFacts
  <1>5. member' = [d \in Clients |-> member'[d]]
    BY <1>2 DEF Interrupted
  <1>6. /\ all[c] = [member[c] EXCEPT !.at = "parked"]
        /\ \A d \in Clients \ {c} : all[d] = member[d]
    BY <1>1 DEF IInv
  <1>7. ASSUME NEW d \in Clients, d # c
        PROVE  \/ member'[d] = member[d] /\ member[d].at # "waiting"
               \/ Fine(group', member'[d])
    BY <1>2, <1>4, <1>6, <1>7, InterruptedFacts, FineInRebalance
  <1>8. Fine(group', member'[c])
    <2>1. IsMember(all[c]) /\ all[c].at = "parked" /\ all[c].generation_id <= group.generation
      BY <1>6, MemberFacts DEF IsMember
    <2>2. member'[c] = all[c]
      BY <1>2, <2>1 DEF Interrupted
    <2> QED BY <1>4, <2>1, <2>2, RestingIsFine
  <1>9. \A d \in Clients : \/ member'[d] = member[d] /\ member[d].at # "waiting"
                           \/ Fine(group', member'[d])
    BY <1>7, <1>8
  <1> QED BY <1>2, <1>4, <1>5, <1>9, Rebalances

LEMMA JoinAgainKeeps ==
    ASSUME IInv, NEW c \in Clients, JoinAgain(c)
    PROVE  IInv'
  <1>1. /\ member' = [member EXCEPT ![c] = Granted(member[c], group)]
        /\ UNCHANGED <<group, commits>>
    BY DEF JoinAgain
  <1>2. Fine(group, Granted(member[c], group))
    BY MemberFacts, GrantedIsFine DEF IInv
  <1> QED BY <1>1, <1>2, OneMember

LEMMA VerdictFacts ==
    ASSUME NEW c \in Clients, Verdict(c) = "NONE"
    PROVE  member[c].id \in DOMAIN group.members /\ member[c].generation_id = group.generation
  BY DEF Verdict, Fence, Known

LEMMA SyncFollowsKeeps ==
    ASSUME IInv, NEW c \in Clients, SyncFollows(c)
    PROVE  IInv'
  <1>1. /\ Verdict(c) = "NONE" /\ UNCHANGED <<group, commits>>
    BY DEF SyncFollows
  <1>2. CASE /\ group.state = "completing"
             /\ member' = [member EXCEPT ![c] = [member[c] EXCEPT !.at = "waiting"]]
    <2> DEFINE r == [member[c] EXCEPT !.at = "waiting"]
    <2>1. /\ IsMember(r) /\ r.generation_id = member[c].generation_id /\ r.at = "waiting"
          /\ r.id = member[c].id
      BY MemberFacts DEF IsMember
    <2> HIDE DEF r
    <2>2. Fine(group, r)
      BY <1>1, <1>2, <2>1, MemberFacts, VerdictFacts DEF Fine
    <2> QED BY <1>1, <1>2, <2>2, OneMember DEF r
  <1>3. CASE /\ group.state = "stable"
             /\ member' = [member EXCEPT ![c] = Assigned(member[c], group)]
    <2>1. DOMAIN group.plan = DOMAIN group.members
      BY <1>3, RangeAssignDomain DEF IInv, Planned
    <2>2. Fine(group, Assigned(member[c], group))
      BY <1>1, <2>1, MemberFacts, VerdictFacts, AssignedIsFine
    <2> QED BY <1>1, <1>3, <2>2, OneMember
  <1> QED BY <1>2, <1>3 DEF SyncFollows

LEMMA HeartbeatKeeps ==
    ASSUME IInv, NEW c \in Clients, Heartbeat(c)
    PROVE  IInv'
  <1>1. PICK r : /\ \/ r = [member[c] EXCEPT !.id = 0, !.at = "stale"]
                    \/ r = [member[c] EXCEPT !.at = "stale"]
                    \/ r = [member[c] EXCEPT !.at = "idle"]
                 /\ member' = [member EXCEPT ![c] = r]
    BY DEF Heartbeat
  <1>2. member[c].at = "idle" /\ UNCHANGED <<group, commits>>
    BY DEF Heartbeat, At
  <1>3. /\ IsMember(r) /\ r.at \in {"idle", "stale"} /\ r.id \in {0, member[c].id}
        /\ r.generation_id = member[c].generation_id
        /\ r.assignment = member[c].assignment
    <2> PICK old : old = member[c]
      OBVIOUS
    <2>1. IsMember(old) /\ old.at = "idle"
      BY <1>2, MemberFacts
    <2>2. CASE r = [old EXCEPT !.id = 0, !.at = "stale"]
      BY <2>1, <2>2 DEF IsMember
    <2>3. CASE r = [old EXCEPT !.at = "stale"]
      BY <2>1, <2>3 DEF IsMember
    <2>4. CASE r = [old EXCEPT !.at = "idle"]
      BY <2>1, <2>4 DEF IsMember
    <2> QED BY <1>1, <2>2, <2>3, <2>4
  <1>4. Fine(group, r)
    BY <1>2, <1>3, MemberFacts DEF Fine
  <1> QED BY <1>1, <1>2, <1>4, OneMember

\* Before its plan nobody acts in a generation: the leader's sync finds no
\* member and no commit that could be at odds with the plan it brings.
LEMMA SyncLeadsKeeps ==
    ASSUME IInv, NEW c \in Clients, SyncLeads(c)
    PROVE  IInv'
  <1> HIDE DEF RangeAssign
  <1>1. /\ member[c].at = "sync" /\ Verdict(c) = "NONE" /\ group.state = "completing"
        /\ group.leader = member[c].id /\ commits' = commits
        /\ group' = [group EXCEPT !.state = "stable", !.plan = member[c].plan]
    BY DEF SyncLeads, Syncs, At
  <1>2. member[c].plan = RangeAssign(group.members)
    BY <1>1, MemberFacts, VerdictFacts DEF Fine
  <1>3. group.plan = <<>> /\ DOMAIN group.plan = {}
    BY <1>1 DEF IInv, Planned
  <1>4. /\ IsGroup(group') /\ group'.state = "stable" /\ group'.generation = group.generation
        /\ group'.members = group.members /\ group'.plan = RangeAssign(group.members)
    <2>1. IsGroup(group)
      BY DEF IInv
    <2>2. group' = [state |-> "stable", generation |-> group.generation,
                    members |-> group.members, pending |-> group.pending,
                    joined |-> group.joined, leader |-> group.leader,
                    plan |-> RangeAssign(group.members)]
      BY <1>1, <1>2, <2>1 DEF IsGroup
    <2> QED BY <2>1, <2>2, RangeAssignDomain DEF IsGroup, Sane
  <1>5. Planned(group')
    BY <1>4 DEF Planned, IInv, IsGroup
  <1>6. \A r : Fine(group, r) /\ r.at # "waiting" => Fine(group', r)
    BY <1>3, <1>4 DEF Fine
  <1>7. \A m : Valid(group, m) => Valid(group', m)
    BY <1>3, <1>4 DEF Valid
  <1>8. DOMAIN group'.plan = DOMAIN group.members
    BY <1>4, RangeAssignDomain
  <1>9. ASSUME NEW d \in Clients, member[d].at = "waiting" \/ d = c
        PROVE  Fine(group', Assigned(member[d], group'))
    <2>1. IsMember(member[d]) /\ group.generation \in Nat
      BY MemberFacts
    <2>2. member[d].id \in DOMAIN group.members /\ member[d].generation_id = group.generation
      BY <1>1, <1>9, MemberFacts, VerdictFacts DEF Fine
    <2> QED BY <1>4, <1>8, <2>1, <2>2, AssignedIsFine
  <1> DEFINE others == [d \in Clients |-> IF At(d, "waiting") THEN Assigned(member[d], group')
                                          ELSE member[d]]
  <1>10. others[c] = member[c]
    BY <1>1 DEF At
  <1>11. \A d \in Clients : d # c => Fine(group', others[d])
    BY <1>6, <1>9, MemberFacts DEF At
  <1>12. PICK r : member' = [others EXCEPT ![c] = r] /\ Fine(group', r)
    <2>1. CASE member' = [others EXCEPT ![c] = Assigned(@, group')]
      BY <1>9, <1>10, <2>1
    <2>2. CASE member' = [others EXCEPT ![c] = After(@, "RETRIABLE")]
      <3>1. Fine(group', member[c])
        BY <1>1, <1>6, MemberFacts
      <3>2. Fine(group', After(member[c], "RETRIABLE"))
        BY <1>4, <3>1, MemberFacts, AfterIsFine
      <3> QED BY <1>10, <2>2, <3>2
    <2> QED BY <2>1, <2>2 DEF SyncLeads
  <1> HIDE DEF others
  <1>13. DOMAIN others = Clients
    BY DEF others
  <1>14. \A d \in Clients : Fine(group', member'[d])
    BY <1>11, <1>12, <1>13
  <1>15. member' = [d \in Clients |-> member'[d]]
    <2>1. others = [d \in Clients |-> others[d]]
      BY DEF others
    <2> QED BY <1>12, <2>1
  <1> QED BY <1>1, <1>4, <1>5, <1>7, <1>14, <1>15 DEF IInv

LEMMA CommitKeeps ==
    ASSUME IInv, NEW c \in Clients, Commit(c)
    PROVE  IInv'
  <1> DEFINE m == [id |-> member[c].id, generation |-> member[c].generation_id,
                   of |-> member[c].assignment, astray |-> At(c, "failed")]
  <1>1. /\ commits' = commits \cup {m} /\ UNCHANGED <<group, member>>
        /\ member[c].at \in {"idle", "stale", "failed"}
    BY DEF Commit
  <1>2. /\ m.id = member[c].id /\ m.generation = member[c].generation_id
        /\ m.of = member[c].assignment
    OBVIOUS
  <1>3. m.astray = (member[c].at = "failed")
    BY Zenon DEF At
  <1> HIDE DEF m
  <1>4. Valid(group, m)
    <2>1. m.generation \in Int /\ m.generation <= group.generation
      BY <1>2, MemberFacts DEF IsMember
    <2>2. ASSUME ~m.astray, m.id # 0, m.generation = group.generation
          PROVE  m.id \in DOMAIN group.plan /\ m.of = group.plan[m.id]
      <3>1. member[c].at \in {"idle", "stale"}
        BY <1>1, <1>3, <2>2
      <3> QED BY <1>2, <2>2, <3>1, MemberFacts DEF Fine
    <2> QED BY <2>1, <2>2 DEF Valid
  <1>5. IsFiniteSet(commits')
    BY <1>1, FS_AddElement DEF IInv
  <1> QED BY <1>1, <1>4, <1>5 DEF IInv

LEMMA SettleKeeps ==
    ASSUME IInv, NEW m, Settle(m)
    PROVE  IInv'
  <1>1. commits' \subseteq commits /\ UNCHANGED <<group, member>>
    BY DEF Settle
  <1>2. IsFiniteSet(commits')
    BY <1>1, FS_Subset DEF IInv
  <1> QED BY <1>1, <1>2 DEF IInv

LEMMA LeaveKeeps ==
    ASSUME IInv, NEW c \in Clients, Leave(c)
    PROVE  IInv'
  <1> DEFINE gone == [Newcomer EXCEPT !.at = "gone"]
  <1>1. IsMember(gone) /\ gone.at = "gone" /\ gone.generation_id = -1
    BY DEF Newcomer, IsMember
  <1> HIDE DEF gone
  <1>2. commits' = commits
    BY DEF Leave
  <1>3. CASE /\ group' = Rebalance(Without(member[c].id), {})
             /\ member' = [Interrupted(member) EXCEPT ![c] = gone]
    <2>1. /\ IsGroup(group') /\ group'.state \in {"empty", "preparing"}
          /\ group'.generation = group.generation /\ group'.plan = group.plan
      BY <1>3, WithoutFacts, RebalanceFacts
    <2>2. /\ member' = [d \in Clients |-> member'[d]]
          /\ \A d \in Clients : member'[d] = IF d = c THEN gone ELSE Interrupted(member)[d]
      BY <1>3 DEF Interrupted
    <2>3. Fine(group', gone)
      <3>1. -1 <= group'.generation
        BY <2>1, MemberFacts
      <3> QED BY <1>1, <3>1, RestingIsFine
    <2>4. \A d \in Clients : \/ member'[d] = member[d] /\ member[d].at # "waiting"
                             \/ Fine(group', member'[d])
      BY <2>1, <2>2, <2>3, InterruptedFacts, FineInRebalance
    <2> QED BY <1>2, <2>1, <2>2, <2>4, Rebalances
  <1>4. CASE UNCHANGED group /\ member' = [member EXCEPT ![c] = gone]
    <2>1. Fine(group, gone)
      <3>1. -1 <= group.generation
        BY MemberFacts
      <3> QED BY <1>1, <3>1, RestingIsFine
    <2> QED BY <1>2, <1>4, <2>1, OneMember
  <1> QED BY <1>3, <1>4 DEF Leave, gone

-----------------------------------------------------------------------------
(* What the coordinator's steps preserve.                                    *)

LEMMA ExpireKeeps ==
    ASSUME IInv, NEW id, Expire(id)
    PROVE  IInv'
  <1>1. commits' = commits
    BY DEF Expire
  <1>2. CASE Dismiss(id)
    BY <1>1, <1>2, DismissKeeps
  <1>3. CASE group' = [group EXCEPT !.pending = group.pending \ {id}] /\ UNCHANGED member
    <2>1. IsFiniteSet(group.pending \ {id}) /\ group.pending \ {id} \subseteq Nat \ {0}
      BY FS_Subset DEF IInv, IsGroup
    <2>2. /\ member' = [d \in Clients |-> member'[d]]
          /\ \A d \in Clients : Fine(group, member'[d])
      BY <1>3 DEF IInv
    <2> QED BY <1>1, <1>3, <2>1, <2>2, PendingFacts, SameGroup
  <1> QED BY <1>2, <1>3 DEF Expire

LEMMA MoveKeeps ==
    ASSUME IInv, Move
    PROVE  IInv'
  <1>1. /\ UNCHANGED <<group, commits>>
        /\ member' = [c \in Clients |-> member'[c]]
        /\ \A c \in Clients : \/ member'[c] = After(member[c], "RETRIABLE")
                              \/ member'[c] = [member[c] EXCEPT !.cached = "stale"]
                              \/ member'[c] = member[c]
    BY DEF Move
  <1>2. \A c \in Clients : Fine(group, member'[c])
    <2> SUFFICES ASSUME NEW c \in Clients PROVE Fine(group, member'[c])
      OBVIOUS
    <2>1. Fine(group, After(member[c], "RETRIABLE"))
      BY MemberFacts, AfterIsFine
    <2>2. Fine(group, [member[c] EXCEPT !.cached = "stale"])
      BY MemberFacts, CachedIsFine
    <2> QED BY <1>1, <2>1, <2>2, MemberFacts
  <1> QED BY <1>1, <1>2 DEF IInv

\* The new generation is one that no member and no commit has heard of.
LEMMA CompleteJoinKeeps ==
    ASSUME IInv, CompleteJoin
    PROVE  IInv'
  <1>1. /\ group.state = "preparing" /\ commits' = commits
        /\ \E leader : group' = [group EXCEPT !.state = "completing", !.generation = @ + 1,
                                              !.leader = leader, !.joined = {}, !.plan = <<>>]
        /\ member' = [c \in Clients |-> IF At(c, "parked") THEN Granted(member[c], group')
                                        ELSE member[c]]
    BY DEF CompleteJoin
  <1>2. /\ IsGroup(group') /\ group'.state = "completing"
        /\ group'.generation = group.generation + 1 /\ group'.plan = <<>>
    <2>1. IsGroup(group)
      BY DEF IInv
    <2>2. PICK leader :
             group' = [state |-> "completing", generation |-> group.generation + 1,
                       members |-> group.members, pending |-> group.pending,
                       joined |-> {}, leader |-> leader, plan |-> <<>>]
      BY <1>1, <2>1 DEF IsGroup
    <2>3. IsFiniteSet(DOMAIN <<>>)
      BY FS_EmptySet
    <2> QED BY <2>1, <2>2, <2>3 DEF IsGroup
  <1>3. Planned(group')
    BY <1>2 DEF Planned
  <1>4. ASSUME NEW c \in Clients
        PROVE  Fine(group', member'[c])
    <2>1. CASE member[c].at = "parked"
      <3>1. member'[c] = Granted(member[c], group')
        BY <1>1, <2>1 DEF At
      <3> QED BY <1>2, <3>1, MemberFacts, GrantedIsFine
    <2>2. CASE member[c].at # "parked"
      <3>1. member'[c] = member[c]
        BY <1>1, <2>2 DEF At
      <3>2. IsMember(member[c]) /\ member[c].generation_id < group'.generation
        BY <1>2, MemberFacts DEF IsMember
      <3>3. member[c].at # "waiting"
        BY <1>1, MemberFacts DEF Fine
      <3>4. /\ member[c].generation_id <= group'.generation
            /\ member[c].generation_id # group'.generation
        BY <1>2, <3>2, MemberFacts DEF IsMember
      <3> QED BY <3>1, <3>2, <3>3, <3>4 DEF Fine
    <2> QED BY <2>1, <2>2
  <1>5. \A m \in commits : Valid(group', m)
    BY <1>2 DEF IInv, IsGroup, Valid
  <1>6. member' = [c \in Clients |-> member'[c]]
    BY <1>1
  <1> QED BY <1>1, <1>2, <1>3, <1>4, <1>5, <1>6 DEF IInv

-----------------------------------------------------------------------------
(* The theorems.                                                             *)

LEMMA InitHolds == Init => IInv
  <1> SUFFICES ASSUME Init PROVE IInv
    OBVIOUS
  <1>1. group = NoGroup /\ member = [c \in Clients |-> Newcomer] /\ commits = {}
    BY DEF Init
  <1>2. IsFiniteSet({}) /\ DOMAIN <<>> = {}
    BY FS_EmptySet
  <1>3. IsGroup(group) /\ group.generation = 0 /\ group.state = "empty" /\ group.plan = <<>>
    <2>1. Sane(<<>>)
      BY <1>2 DEF Sane
    <2> QED BY <1>1, <1>2, <2>1 DEF NoGroup, IsGroup
  <1>4. Planned(group)
    BY <1>3 DEF Planned
  <1>5. Fine(group, Newcomer)
    BY <1>3, NewcomerFacts, RestingIsFine
  <1> QED BY <1>1, <1>2, <1>3, <1>4, <1>5 DEF IInv

LEMMA NextKeeps == IInv /\ [Next]_vars => IInv'
  <1> SUFFICES ASSUME IInv, [Next]_vars PROVE IInv'
    OBVIOUS
  <1>1. CASE CompleteJoin
    BY <1>1, CompleteJoinKeeps
  <1>2. CASE Move
    BY <1>2, MoveKeeps
  <1>3. CASE \E id \in DOMAIN group.members \cup group.pending : Expire(id)
    BY <1>3, ExpireKeeps
  <1>4. CASE \E m \in commits : Settle(m)
    BY <1>4, SettleKeeps
  <1>5. ASSUME NEW c \in Clients, Proceed(c)
        PROVE  IInv'
    BY <1>5, RejoinKeeps, DiscoverKeeps, FailureKeeps, MintKeeps, JoinKeeps, JoinAgainKeeps,
       SyncLeadsKeeps, SyncFollowsKeeps, HeartbeatKeeps DEF Proceed
  <1>6. ASSUME NEW c \in Clients, Commit(c) \/ Leave(c) \/ Lose(c)
        PROVE  IInv'
    BY <1>6, CommitKeeps, LeaveKeeps, FailureKeeps
  <1>7. ASSUME NEW c \in Clients, Evict(c)
        PROVE  IInv'
    <2>1. Dismiss(member[c].id) /\ commits' = commits
      BY <1>7 DEF Evict
    <2> QED BY <2>1, DismissKeeps
  <1>8. CASE UNCHANGED vars
    BY <1>8 DEF vars, IInv
  <1> QED BY <1>1, <1>2, <1>3, <1>4, <1>5, <1>6, <1>7, <1>8 DEF Next

LEMMA SpecHolds == Spec => []IInv
  BY InitHolds, NextKeeps, PTL DEF Spec

LEMMA OwnedHolds == IInv => CommitsAreOwned
  <1> SUFFICES ASSUME IInv, NEW m \in commits, Accepts(m), ~m.astray
               PROVE  m.id \in DOMAIN group.plan /\ m.of \subseteq group.plan[m.id]
    BY DEF CommitsAreOwned
  <1>1. m.id \in DOMAIN group.members /\ m.generation = group.generation
    BY DEF Accepts, Fence, Known
  <1>2. m.id # 0
    BY <1>1 DEF IInv, IsGroup, Sane
  <1> QED BY <1>1, <1>2 DEF IInv, Valid

\* A commit of group.rs that the coordinator would take, however long it was
\* under way and whatever rebalance has come between, is one for partitions
\* that the plan in force gives its sender (unless it followed a failed
\* rejoin).
THEOREM OwnedTheorem == Spec => []CommitsAreOwned
  BY OwnedHolds, SpecHolds, PTL

LEMMA PlanInForce ==
    ASSUME IInv, NEW c \in Clients, At(c, "idle"), Verdict(c) = "NONE"
    PROVE  group.plan # <<>> /\ member[c].assignment = group.plan[member[c].id]
  <1>1. member[c].id \in DOMAIN group.members /\ member[c].generation_id = group.generation
    BY VerdictFacts
  <1>2. member[c].id # 0
    BY <1>1 DEF IInv, IsGroup, Sane
  <1>3. member[c].id \in DOMAIN group.plan /\ member[c].assignment = group.plan[member[c].id]
    BY <1>1, <1>2, MemberFacts DEF Fine, At
  <1>4. DOMAIN <<>> = {}
    OBVIOUS
  <1> QED BY <1>3, <1>4

\* However many members and partitions there are, and whatever befalls the
\* members: in a stable group range_assign has given every partition of a
\* topic that somebody subscribes to to exactly one member, a subscriber, as
\* evenly as they go; and every member that is between calls, in the
\* generation of the moment, acts on its own part of the plan (group.rs
\* rejoin).
THEOREM PartitionTheorem == Spec => []GenerationIsPartitioned
  <1>1. IInv => GenerationIsPartitioned
    <2> SUFFICES ASSUME IInv PROVE GenerationIsPartitioned
      OBVIOUS
    <2>1. ASSUME group.state = "stable", NEW topic \in DOMAIN Partitions
          PROVE  LET of(m) == {part \in group.plan[m] : part[1] = topic}
                     all == Subscribers(topic, group.members)
                 IN /\ DOMAIN group.plan = DOMAIN group.members
                    /\ all # {} => UNION {of(m) : m \in all}
                                     = {topic} \X (0 .. Partitions[topic] - 1)
                    /\ \A m, o \in DOMAIN group.plan : m # o => of(m) \cap of(o) = {}
                    /\ \A m, o \in all : Cardinality(of(m)) <= Cardinality(of(o)) + 1
                    /\ \A m \in DOMAIN group.plan \ all : of(m) = {}
      <3> HIDE DEF RangeAssign
      <3>1. group.plan = RangeAssign(group.members) /\ Sane(group.members)
        BY <2>1 DEF IInv, Planned, IsGroup
      <3>2. Partitions[topic] \in Nat
        BY GroupAssumption
      <3>3. DOMAIN group.plan = DOMAIN group.members
        BY <3>1, RangeAssignDomain
      <3> PICK all : all = Subscribers(topic, group.members)
        OBVIOUS
      <3>4. DOMAIN group.members \subseteq Nat /\ IsFiniteSet(DOMAIN group.members)
        BY <3>1 DEF Sane
      <3>5. /\ all # {} => UNION {Of(group.plan, m, topic) : m \in all}
                            = {topic} \X (0 .. Partitions[topic] - 1)
            /\ \A m, o \in DOMAIN group.plan :
                  m # o => Of(group.plan, m, topic) \cap Of(group.plan, o, topic) = {}
            /\ \A m, o \in all : Cardinality(Of(group.plan, m, topic))
                                    <= Cardinality(Of(group.plan, o, topic)) + 1
            /\ \A m \in DOMAIN group.plan \ all : Of(group.plan, m, topic) = {}
        BY <3>1, <3>2, <3>4, RangeAssignPartitions
      <3> QED BY <3>3, <3>5 DEF Of
    <2> QED BY <2>1, PlanInForce DEF GenerationIsPartitioned
  <1> QED BY <1>1, SpecHolds, PTL

\* No two members commit for the same partition: of any two commits under way
\* that the coordinator would take and that do not follow a failed rejoin,
\* those of different senders are for different partitions, also while a
\* rebalance is in progress and the plan is that of members who have left.
NoTwoOwners ==
    \A m, o \in commits :
        /\ Accepts(m) /\ ~m.astray
        /\ Accepts(o) /\ ~o.astray
        /\ m.id # o.id
        => m.of \cap o.of = {}

\* What commit_offset gives members whose rejoins succeed: in every state of
\* the group two commits of theirs that would both be taken never contend for
\* a partition. It says nothing of a commit sent after a failed rejoin, where
\* group.rs has the new generation and the old assignment: such a commit can be
\* taken for a partition another member owns, so that the theorem would be
\* false if it counted it in.
THEOREM NoTwoOwnersTheorem == Spec => []NoTwoOwners
  <1>1. IInv => NoTwoOwners
    <2> SUFFICES ASSUME IInv, NEW m \in commits, NEW o \in commits,
                        Accepts(m), ~m.astray, Accepts(o), ~o.astray, m.id # o.id,
                        NEW part \in m.of, part \in o.of
                 PROVE  FALSE
      BY DEF NoTwoOwners
    <2> HIDE DEF RangeAssign
    <2>1. CommitsAreOwned
      BY OwnedHolds
    <2>2. /\ m.id \in DOMAIN group.plan /\ part \in group.plan[m.id]
          /\ o.id \in DOMAIN group.plan /\ part \in group.plan[o.id]
      BY <2>1 DEF CommitsAreOwned
    <2>3. PICK s : Sane(s) /\ group.plan = RangeAssign(s)
      <3>1. DOMAIN <<>> = {}
        OBVIOUS
      <3> QED BY <2>2, <3>1 DEF IInv, Planned
    <2>4. m.id \in DOMAIN s /\ o.id \in DOMAIN s
      BY <2>2, <2>3, RangeAssignDomain
    <2>5. PICK topic \in DOMAIN Partitions : part[1] = topic
      BY <2>2, <2>3, <2>4, PartTopic
    <2>6. part \in Of(group.plan, m.id, topic) \cap Of(group.plan, o.id, topic)
      BY <2>2, <2>5 DEF Of
    <2>7. \A k, l \in DOMAIN group.plan :
             k # l => Of(group.plan, k, topic) \cap Of(group.plan, l, topic) = {}
      <3>1. DOMAIN s \subseteq Nat /\ IsFiniteSet(DOMAIN s) /\ Partitions[topic] \in Nat
        BY <2>3, GroupAssumption DEF Sane
      <3> QED BY <2>3, <3>1, RangeAssignPartitions
    <2> QED BY <2>2, <2>6, <2>7
  <1> QED BY <1>1, SpecHolds, PTL
=============================================================================
