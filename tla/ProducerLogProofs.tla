-------------------------- MODULE ProducerLogProofs --------------------------
(***************************************************************************)
(* Proofs about Producer: what reaches the partition logs.  As long as     *)
(* fewer records are handed over than there are sequence numbers, no       *)
(* record is written twice or out of order, healthy partitions hold what   *)
(* was reported, and a transaction writes only where it was announced.     *)
(***************************************************************************)
EXTENDS ProducerProofs

\* No caller hands over more records than there are sequence numbers: past
\* i32::MAX the producer's numbers go negative and the broker does not read
\* them as numbers.
Fits == \A s \in Plans : Len(s) <= MaxSeq

-----------------------------------------------------------------------------
(* The inductive invariant.                                                *)

\* What a partition still has to deliver, whether its batch has its number,
\* the number the batch has or will get, what its log holds and what may
\* still reach it.
Live(p) == Range(hand[p]) \cup Range(pending[p])
Here(p) == at = "deliver" /\ hand[p] # <<>>
Due(p) == IF Here(p) THEN stamp[p] ELSE sequences[p]
Recs(p) == {log[p][i].rec : i \in DOMAIN log[p]}
To(p) == {r \in wire : r.to = p}

Increasing(s) == \A i, j \in DOMAIN s : i < j => s[i] < s[j]
Distinct(s) == \A i, j \in DOMAIN s : s[i] = s[j] => i = j
Below(A, B) == \A a \in A, b \in B : a < b

IsRequest(r) ==
    /\ DOMAIN r = {"to", "records", "seq", "round"}
    /\ r.to \in Partitions /\ r.records \in Seq(Nat) /\ r.records # <<>>
    /\ r.seq \in Nat /\ r.seq + Len(r.records) <= given
    /\ Range(r.records) \subseteq 1 .. given

Outcomes == {"none", "trying", "waiting", "ok", "timeout", "fenced", "refused"}

FormInv ==
    /\ \A r \in wire : IsRequest(r)
    /\ sequences \in [Partitions -> Nat] /\ stamp \in [Partitions -> Nat]
    /\ log \in [Partitions -> Seq(Entries)]
    /\ last \in [Partitions -> [base : Int, next : Nat]]
    /\ outcome \in [Partitions -> Outcomes]
    /\ op = "produce" => Filled(hand) \subseteq direct
    /\ txnState = "Uninitialized" => sequences = Zeros

\* Numbers are counted in records: those given out and those still needed
\* are no more than the records handed over.
Numbered(p) ==
    /\ Here(p) => sequences[p] = stamp[p] + Len(hand[p])
    /\ sequences[p] + Len(pending[p]) + (IF Here(p) THEN 0 ELSE Len(hand[p])) <= given
    /\ outcome[p] # "none" => Here(p)
    /\ last[p] = NoBatch => log[p] = <<>>
    /\ last[p].base < last[p].next
    /\ Recs(p) \subseteq 1 .. given
    /\ Distinct(pending[p]) /\ Distinct(hand[p])

\* The batch in hand is the next one the leader expects, or the last it took.
Ahead(p) == last[p].next = stamp[p] /\ Recs(p) \cap Range(hand[p]) = {}
Landed(p) ==
    /\ last[p].base = stamp[p] /\ last[p].next = sequences[p]
    /\ Range(hand[p]) \subseteq Recs(p)

\* While no delivery has failed: producer and leader agree on the number, and
\* a request of an earlier batch bears a number the leader has passed.
Healthy(p) ==
    /\ ~Here(p) => sequences[p] = last[p].next /\ Recs(p) \cap Range(hand[p]) = {}
    /\ Here(p) => Ahead(p) \/ Landed(p)
    /\ outcome[p] = "ok" => Landed(p)
    /\ \A r \in To(p) : \/ Here(p) /\ r.seq = stamp[p] /\ r.records = hand[p]
                        \/ r.seq < Due(p)
    /\ Recs(p) \cap Range(pending[p]) = {}
    /\ \A i, j \in DOMAIN log[p] : log[p][i].rec = log[p][j].rec => i = j

\* While every batch goes through the buffer, failed or not: numbers and
\* records rise together, so that what bears a number the leader has not
\* passed comes after all it has.
Ordered(p) ==
    /\ Increasing(pending[p]) /\ Increasing(hand[p])
    /\ hand[p] = <<>> \/ pending[p] = <<>>
    /\ \A i, j \in DOMAIN log[p] : i < j => log[p][i].rec < log[p][j].rec
    /\ \A r \in To(p) :
         /\ Increasing(r.records) /\ r.seq <= Due(p)
         /\ r.seq < Due(p) => Below(Range(r.records), Live(p))
         /\ r.seq >= last[p].next => Below(Recs(p), Range(r.records))
         /\ \A q \in To(p) : r.seq < q.seq => Below(Range(r.records), Range(q.records))
    /\ Due(p) >= last[p].next => Below(Recs(p), Live(p))

Sound(p) ==
    /\ Numbered(p)
    /\ p \notin spoiled => Healthy(p)
    /\ p \notin direct => Ordered(p)

LogInv == FormInv /\ \A p \in Partitions : Sound(p)

-----------------------------------------------------------------------------
(* What a step does to one partition.                                      *)

LEMMA HeldFacts ==
    ASSUME IInv, NEW p \in Partitions
    PROVE  /\ pending[p] \in Seq(Nat) /\ hand[p] \in Seq(Nat) /\ given \in Nat
           /\ Range(pending[p]) \subseteq 1 .. given /\ Range(hand[p]) \subseteq 1 .. given
           /\ Range(pending[p]) \cap Range(hand[p]) = {}
           /\ Len(pending[p]) \in Nat /\ Len(hand[p]) \in Nat
<1>1. pending[p] \in Seq(Nat) /\ hand[p] \in Seq(Nat)
  BY DEF IInv, Shapes, Seqs
<1>2. given \in Nat /\ Records(pending) \subseteq 1 .. given /\ Records(hand) \subseteq 1 .. given
  BY HeldIsGiven
<1>3. Records(pending) \cap Records(hand) = {}
  BY DEF IInv, BooksInv, LostOnlyForNoId, Accounted
<1>4. Range(pending[p]) \subseteq Records(pending) /\ Range(hand[p]) \subseteq Records(hand)
  BY DEF Records
<1>5. Len(pending[p]) \in Nat /\ Len(hand[p]) \in Nat
  BY <1>1
<1> QED BY <1>1, <1>2, <1>3, <1>4, <1>5

LEMMA EmptySequence ==
    Distinct(<<>>) /\ Increasing(<<>>) /\ Range(<<>>) = {} /\ Len(<<>>) = 0
  BY RangeFacts DEF Distinct, Increasing

LEMMA EmptyDomain ==
    ASSUME NEW S, NEW s \in Seq(S), DOMAIN s = {}
    PROVE  s = <<>>
<1>1. PICK n \in Nat : n = Len(s)
  OBVIOUS
<1>2. DOMAIN s = 1 .. n
  BY <1>1
<1>3. CASE n = 0
  BY <1>1, <1>3
<1>4. CASE n # 0
  <2>1. 1 \in 1 .. n
    BY <1>4
  <2> QED BY <1>2, <2>1
<1> QED BY <1>3, <1>4

\* The next record goes behind those of a sequence.
LEMMA OneMoreRecord ==
    ASSUME NEW g \in Nat, NEW s \in Seq(Nat), Range(s) \subseteq 1 .. g
    PROVE  /\ Append(s, g + 1) \in Seq(Nat) /\ Len(Append(s, g + 1)) = Len(s) + 1
           /\ Distinct(s) => Distinct(Append(s, g + 1))
           /\ Increasing(s) => Increasing(Append(s, g + 1))
<1>1. PICK t \in Seq(Nat) : t = Append(s, g + 1)
  <2>1. Append(s, g + 1) \in Seq(Nat)
    OBVIOUS
  <2> QED BY <2>1
<1>2. PICK n \in Nat : n = Len(s)
  OBVIOUS
<1>3. /\ DOMAIN s = 1 .. n /\ DOMAIN t = 1 .. n + 1 /\ Len(t) = n + 1
      /\ t[n + 1] = g + 1 /\ \A i \in 1 .. n : t[i] = s[i]
  BY <1>1, <1>2
<1>4. \A i \in 1 .. n : s[i] \in Nat /\ s[i] <= g
  <2> SUFFICES ASSUME NEW i \in 1 .. n PROVE s[i] \in Nat /\ s[i] <= g
    OBVIOUS
  <2>1. s[i] \in Range(s)
    BY <1>3 DEF Range
  <2> QED BY <2>1
<1>5. Distinct(s) => Distinct(t)
  <2> SUFFICES ASSUME Distinct(s), NEW i \in 1 .. n + 1, NEW j \in 1 .. n + 1, t[i] = t[j]
               PROVE  i = j
    BY <1>3 DEF Distinct
  <2>1. i \in 1 .. n \/ i = n + 1
    OBVIOUS
  <2>2. j \in 1 .. n \/ j = n + 1
    OBVIOUS
  <2>3. CASE i \in 1 .. n /\ j \in 1 .. n
    BY <2>3, <1>3 DEF Distinct
  <2>4. CASE i \in 1 .. n /\ j = n + 1
    BY <2>4, <1>3, <1>4
  <2>5. CASE i = n + 1 /\ j \in 1 .. n
    BY <2>5, <1>3, <1>4
  <2> QED BY <2>1, <2>2, <2>3, <2>4, <2>5
<1>6. Increasing(s) => Increasing(t)
  <2> SUFFICES ASSUME Increasing(s), NEW i \in 1 .. n + 1, NEW j \in 1 .. n + 1, i < j
               PROVE  t[i] < t[j]
    BY <1>3 DEF Increasing
  <2>1. i \in 1 .. n
    OBVIOUS
  <2>2. CASE j \in 1 .. n
    BY <2>1, <2>2, <1>3 DEF Increasing
  <2>3. CASE j = n + 1
    BY <2>1, <2>3, <1>3, <1>4
  <2> QED BY <2>2, <2>3
<1> QED BY <1>1, <1>2, <1>3, <1>5, <1>6

\* Two sequences with no record in common, one behind the other.
LEMMA JoinedRecords ==
    ASSUME NEW s \in Seq(Nat), NEW t \in Seq(Nat), Distinct(s), Distinct(t),
           Range(s) \cap Range(t) = {}
    PROVE  s \o t \in Seq(Nat) /\ Len(s \o t) = Len(s) + Len(t) /\ Distinct(s \o t)
<1>1. PICK a \in Nat, b \in Nat : a = Len(s) /\ b = Len(t)
  OBVIOUS
<1>2. PICK u \in Seq(Nat) : u = s \o t
  <2>1. s \o t \in Seq(Nat)
    OBVIOUS
  <2> QED BY <2>1
<1>3. /\ Len(u) = a + b /\ DOMAIN u = 1 .. a + b /\ DOMAIN s = 1 .. a /\ DOMAIN t = 1 .. b
      /\ \A i \in 1 .. a : u[i] = s[i]
      /\ \A i \in 1 .. b : u[a + i] = t[i]
  BY <1>1, <1>2
<1>4. \A k \in 1 .. a + b : k \in 1 .. a \/ \E l \in 1 .. b : k = a + l
  <2> SUFFICES ASSUME NEW k \in 1 .. a + b, k \notin 1 .. a PROVE \E l \in 1 .. b : k = a + l
    OBVIOUS
  <2>1. k - a \in 1 .. b /\ k = a + (k - a)
    OBVIOUS
  <2> QED BY <2>1
<1>5. ASSUME NEW k \in 1 .. a, NEW l \in 1 .. b PROVE s[k] # t[l]
  <2>1. s[k] \in Range(s) /\ t[l] \in Range(t)
    BY <1>3 DEF Range
  <2> QED BY <2>1
<1>6. Distinct(u)
  <2> SUFFICES ASSUME NEW i \in 1 .. a + b, NEW j \in 1 .. a + b, u[i] = u[j] PROVE i = j
    BY <1>3 DEF Distinct
  <2>1. CASE i \in 1 .. a /\ j \in 1 .. a
    BY <2>1, <1>3 DEF Distinct
  <2>2. CASE i \in 1 .. a /\ j \notin 1 .. a
    <3>1. PICK l \in 1 .. b : j = a + l
      BY <2>2, <1>4
    <3> QED BY <2>2, <3>1, <1>3, <1>5
  <2>3. CASE i \notin 1 .. a /\ j \in 1 .. a
    <3>1. PICK l \in 1 .. b : i = a + l
      BY <2>3, <1>4
    <3> QED BY <2>3, <3>1, <1>3, <1>5
  <2>4. CASE i \notin 1 .. a /\ j \notin 1 .. a
    <3>1. PICK k \in 1 .. b, l \in 1 .. b : i = a + k /\ j = a + l
      BY <2>4, <1>4
    <3>2. t[k] = t[l]
      BY <3>1, <1>3
    <3> QED BY <3>1, <3>2, <1>3 DEF Distinct
  <2> QED BY <2>1, <2>2, <2>3, <2>4
<1> QED BY <1>1, <1>2, <1>3, <1>6

\* Nothing that matters changes.
LEMMA SameView ==
    ASSUME IInv, FormInv, NEW p \in Partitions, Sound(p),
           pending'[p] = pending[p], hand'[p] = hand[p], sequences'[p] = sequences[p],
           Here(p)' <=> Here(p), Here(p) => stamp'[p] = stamp[p],
           To(p)' \subseteq To(p), last'[p] = last[p],
           log'[p] \in Seq(Entries), DOMAIN log'[p] = DOMAIN log[p],
           \A i \in DOMAIN log[p] : log'[p][i].rec = log[p][i].rec,
           outcome'[p] # "none" => Here(p),
           outcome'[p] = "ok" => outcome[p] = "ok" \/ (p \notin spoiled => Landed(p)),
           given' \in Nat, given <= given', spoiled \subseteq spoiled', direct \subseteq direct'
    PROVE  Sound(p)'
<1>1. /\ Recs(p)' = Recs(p) /\ Live(p)' = Live(p) /\ Due(p)' = Due(p)
      /\ Landed(p) /\ Here(p) => Landed(p)'
  <2>1. Recs(p)' = Recs(p)
    BY DEF Recs
  <2> QED BY <2>1 DEF Live, Due, Landed
<1>2. Numbered(p)'
  <2>1. /\ given \in Nat /\ sequences[p] \in Nat /\ Len(pending[p]) \in Nat /\ Len(hand[p]) \in Nat
    BY HeldFacts DEF FormInv
  <2>2. /\ Here(p) => sequences[p] = stamp[p] + Len(hand[p])
        /\ sequences[p] + Len(pending[p]) + (IF Here(p) THEN 0 ELSE Len(hand[p])) <= given
        /\ last[p] = NoBatch => log[p] = <<>>
        /\ last[p].base < last[p].next
        /\ Recs(p) \subseteq 1 .. given
        /\ Distinct(pending[p]) /\ Distinct(hand[p])
    BY DEF Sound, Numbered
  <2>3. sequences[p] + Len(pending[p]) + (IF Here(p) THEN 0 ELSE Len(hand[p])) <= given'
    BY <2>1, <2>2
  <2>4. Recs(p) \subseteq 1 .. given'
    BY <2>1, <2>2
  <2>5. last'[p] = NoBatch => log'[p] = <<>>
    <3> SUFFICES ASSUME last[p] = NoBatch PROVE log'[p] = <<>>
      OBVIOUS
    <3>1. log[p] = <<>> /\ DOMAIN log'[p] = {}
      BY <2>2
    <3> QED BY <3>1, EmptyDomain
  <2>6. Distinct(pending'[p]) /\ Distinct(hand'[p])
    BY <2>2
  <2> QED BY <1>1, <2>2, <2>3, <2>4, <2>5, <2>6 DEF Numbered
<1>3. ASSUME p \notin spoiled' PROVE Healthy(p)'
  <2>1. p \notin spoiled
    BY <1>3
  <2>2. Healthy(p)
    BY <2>1 DEF Sound
  <2>3. outcome'[p] = "ok" => Landed(p)'
    BY <2>1, <2>2, <1>1 DEF Healthy
  <2>4. \A r \in To(p)' : \/ Here(p)' /\ r.seq = stamp'[p] /\ r.records = hand'[p]
                          \/ r.seq < Due(p)'
    BY <2>2, <1>1 DEF Healthy
  <2>5. \A i, j \in DOMAIN log'[p] : log'[p][i].rec = log'[p][j].rec => i = j
    BY <2>2 DEF Healthy
  <2>6. /\ ~Here(p)' => sequences'[p] = last'[p].next /\ Recs(p)' \cap Range(hand'[p]) = {}
        /\ Here(p)' => Ahead(p)' \/ Landed(p)'
        /\ Recs(p)' \cap Range(pending'[p]) = {}
    BY <2>2, <1>1 DEF Healthy, Ahead, Landed
  <2> QED BY <2>3, <2>4, <2>5, <2>6 DEF Healthy
<1>4. ASSUME p \notin direct' PROVE Ordered(p)'
  <2>1. p \notin direct
    BY <1>4
  <2>2. Ordered(p)
    BY <2>1 DEF Sound
  <2>3. \A i, j \in DOMAIN log'[p] : i < j => log'[p][i].rec < log'[p][j].rec
    BY <2>2 DEF Ordered
  <2>4. Increasing(pending'[p]) /\ Increasing(hand'[p]) /\ (hand'[p] = <<>> \/ pending'[p] = <<>>)
    BY <2>2 DEF Ordered
  <2>5. \A r \in To(p)' :
         /\ Increasing(r.records) /\ r.seq <= Due(p)'
         /\ r.seq < Due(p)' => Below(Range(r.records), Live(p)')
         /\ r.seq >= last'[p].next => Below(Recs(p)', Range(r.records))
         /\ \A q \in To(p)' : r.seq < q.seq => Below(Range(r.records), Range(q.records))
    BY <2>2, <1>1 DEF Ordered
  <2>6. Due(p)' >= last'[p].next => Below(Recs(p)', Live(p)')
    BY <2>2, <1>1 DEF Ordered
  <2> QED BY <2>3, <2>4, <2>5, <2>6 DEF Ordered
<1> QED BY <1>2, <1>3, <1>4 DEF Sound

\* Records are handed over, drained, restored or discarded, while the partition
\* has no number given out.
LEMMA MovedRecords ==
    ASSUME IInv, FormInv, NEW p \in Partitions, Sound(p), ~Here(p), ~Here(p)',
           sequences'[p] = sequences[p], To(p)' = To(p), log'[p] = log[p], last'[p] = last[p],
           outcome'[p] = "none", spoiled' = spoiled, direct \subseteq direct',
           given' \in {given, given + 1},
           pending'[p] \in Seq(Nat), hand'[p] \in Seq(Nat),
           Live(p)' \subseteq Live(p) \cup (IF given' = given THEN {} ELSE {given + 1}),
           Len(pending'[p]) + Len(hand'[p]) <= Len(pending[p]) + Len(hand[p]) + (given' - given),
           Distinct(pending'[p]), Distinct(hand'[p]),
           p \notin direct' =>
               /\ Increasing(pending'[p]) /\ Increasing(hand'[p])
               /\ hand'[p] = <<>> \/ pending'[p] = <<>>
    PROVE  Sound(p)'
<1>0. /\ given \in Nat /\ sequences[p] \in Nat /\ Len(pending[p]) \in Nat /\ Len(hand[p]) \in Nat
      /\ Len(pending'[p]) \in Nat /\ Len(hand'[p]) \in Nat
  BY HeldFacts DEF FormInv
<1>1. Recs(p)' = Recs(p) /\ Due(p)' = Due(p)
  BY DEF Recs, Due
<1>2. /\ Recs(p) \subseteq 1 .. given
      /\ sequences[p] + Len(pending[p]) + Len(hand[p]) <= given
      /\ last[p] = NoBatch => log[p] = <<>>
      /\ last[p].base < last[p].next
  BY DEF Sound, Numbered
<1>3. Numbered(p)'
  <2>1. sequences[p] + Len(pending'[p]) + Len(hand'[p]) <= given'
    <3>1. PICK a \in Nat, b \in Nat : a = Len(pending'[p]) /\ b = Len(hand'[p])
      BY <1>0
    <3>2. PICK g \in Nat : g = given'
      BY <1>0
    <3>3. a + b <= Len(pending[p]) + Len(hand[p]) + (g - given)
      BY <3>1, <3>2
    <3>4. PICK x \in Nat, y \in Nat, z \in Nat, h \in Nat :
              x = sequences[p] /\ y = Len(pending[p]) /\ z = Len(hand[p]) /\ h = given
      BY <1>0
    <3>5. a + b <= y + z + (g - h) /\ x + y + z <= h
      BY <3>3, <3>4, <1>2
    <3>6. x + a + b <= g
      BY <3>5
    <3> QED BY <3>1, <3>2, <3>4, <3>6
  <2>2. Recs(p)' \subseteq 1 .. given'
    BY <1>0, <1>1, <1>2
  <2> QED BY <1>2, <2>1, <2>2 DEF Numbered
<1>4. ASSUME p \notin spoiled PROVE Healthy(p)'
  <2>1. Healthy(p)
    BY <1>4 DEF Sound
  <2>2. Recs(p) \cap Live(p) = {}
    BY <2>1 DEF Healthy, Live
  <2>3. Recs(p) \cap Live(p)' = {}
    BY <2>2, <1>0, <1>2
  <2>4. Recs(p)' \cap Range(hand'[p]) = {} /\ Recs(p)' \cap Range(pending'[p]) = {}
    BY <2>3, <1>1 DEF Live
  <2>5. \A r \in To(p)' : r.seq < Due(p)'
    BY <2>1, <1>1 DEF Healthy
  <2> QED BY <2>1, <2>4, <2>5 DEF Healthy
<1>5. ASSUME p \notin direct' PROVE Ordered(p)'
  <2>1. Ordered(p)
    BY <1>5 DEF Sound
  <2>2. ASSUME NEW A, A \subseteq 1 .. given, Below(A, Live(p))
        PROVE  Below(A, Live(p)')
    BY <2>2, <1>0 DEF Below
  <2>3. \A r \in To(p) : Range(r.records) \subseteq 1 .. given
    BY DEF FormInv, To, IsRequest
  <2>4. \A r \in To(p)' :
         /\ Increasing(r.records) /\ r.seq <= Due(p)'
         /\ r.seq < Due(p)' => Below(Range(r.records), Live(p)')
         /\ r.seq >= last'[p].next => Below(Recs(p)', Range(r.records))
         /\ \A q \in To(p)' : r.seq < q.seq => Below(Range(r.records), Range(q.records))
    BY <2>1, <2>2, <2>3, <1>1 DEF Ordered
  <2>5. Due(p)' >= last'[p].next => Below(Recs(p)', Live(p)')
    BY <2>1, <2>2, <1>1, <1>2 DEF Ordered
  <2> QED BY <1>5, <2>1, <2>4, <2>5 DEF Ordered
<1> QED BY <1>3, <1>4, <1>5 DEF Sound

\* The batch in hand gets its number.
LEMMA StampedBatch ==
    ASSUME IInv, FormInv, NEW p \in Partitions, Sound(p), ~Here(p), hand[p] # <<>>, Here(p)',
           pending'[p] = pending[p], hand'[p] = hand[p],
           stamp'[p] = sequences[p], sequences'[p] = sequences[p] + Len(hand[p]),
           To(p)' = To(p), log'[p] = log[p], last'[p] = last[p],
           outcome'[p] = "trying", spoiled' = spoiled, direct' = direct, given' = given
    PROVE  Sound(p)'
<1>0. /\ given \in Nat /\ sequences[p] \in Nat /\ Len(pending[p]) \in Nat /\ Len(hand[p]) \in Nat
  BY HeldFacts DEF FormInv
<1>1. Recs(p)' = Recs(p) /\ Due(p)' = Due(p) /\ Live(p)' = Live(p)
  BY DEF Recs, Due, Live
<1>2. Numbered(p)'
  <2>1. /\ sequences[p] + Len(pending[p]) + Len(hand[p]) <= given
        /\ last[p] = NoBatch => log[p] = <<>>
        /\ last[p].base < last[p].next
        /\ Recs(p) \subseteq 1 .. given
        /\ Distinct(pending[p]) /\ Distinct(hand[p])
    BY DEF Sound, Numbered
  <2>2. sequences'[p] + Len(pending'[p]) + 0 <= given
    BY <1>0, <2>1
  <2>3. Distinct(pending'[p]) /\ Distinct(hand'[p])
    BY <2>1
  <2> QED BY <1>1, <2>1, <2>2, <2>3 DEF Numbered
<1>3. ASSUME p \notin spoiled PROVE Healthy(p)'
  <2>1. Healthy(p)
    BY <1>3 DEF Sound
  <2>2. Ahead(p)'
    BY <2>1, <1>1 DEF Healthy, Ahead
  <2>3. \A r \in To(p)' : r.seq < Due(p)'
    BY <2>1, <1>1 DEF Healthy
  <2> QED BY <2>1, <2>2, <2>3, <1>1 DEF Healthy
<1>4. ASSUME p \notin direct PROVE Ordered(p)'
  <2>1. Ordered(p)
    BY <1>4 DEF Sound
  <2>2. Increasing(pending'[p]) /\ Increasing(hand'[p]) /\ (hand'[p] = <<>> \/ pending'[p] = <<>>)
    BY <2>1 DEF Ordered
  <2> QED BY <2>1, <2>2, <1>1 DEF Ordered
<1> QED BY <1>2, <1>3, <1>4 DEF Sound

\* A request with the batch in hand goes out.
LEMMA SentRequest ==
    ASSUME IInv, FormInv, NEW p \in Partitions, Sound(p), Here(p), Here(p)',
           pending'[p] = pending[p], hand'[p] = hand[p],
           stamp'[p] = stamp[p], sequences'[p] = sequences[p],
           NEW r, r.seq = stamp[p], r.records = hand[p],
           To(p)' = To(p) \cup {r}, log'[p] = log[p], last'[p] = last[p],
           outcome'[p] = "waiting", spoiled' = spoiled, direct' = direct, given' = given
    PROVE  Sound(p)'
<1>0. stamp[p] \in Nat /\ \A q \in To(p) : q.seq \in Nat
  BY DEF FormInv, To, IsRequest
<1>1. Recs(p)' = Recs(p) /\ Due(p)' = Due(p) /\ Live(p)' = Live(p) /\ Due(p) = stamp[p]
  BY DEF Recs, Due, Live
<1>2. Numbered(p)'
  <2>1. Distinct(pending'[p]) /\ Distinct(hand'[p])
    BY DEF Sound, Numbered
  <2> QED BY <1>1, <2>1 DEF Sound, Numbered
<1>3. ASSUME p \notin spoiled PROVE Healthy(p)'
  <2>1. Healthy(p)
    BY <1>3 DEF Sound
  <2>2. Ahead(p)' \/ Landed(p)'
    BY <2>1, <1>1 DEF Healthy, Ahead, Landed
  <2>3. \A q \in To(p)' : \/ q.seq = stamp'[p] /\ q.records = hand'[p]
                          \/ q.seq < Due(p)'
    BY <2>1, <1>1 DEF Healthy
  <2> QED BY <2>1, <2>2, <2>3, <1>1 DEF Healthy
<1>4. ASSUME p \notin direct PROVE Ordered(p)'
  <2>1. Ordered(p)
    BY <1>4 DEF Sound
  <2>2. Increasing(pending'[p]) /\ Increasing(hand'[p]) /\ (hand'[p] = <<>> \/ pending'[p] = <<>>)
    BY <2>1 DEF Ordered
  <2>3. Range(hand[p]) \subseteq Live(p)
    BY DEF Live
  <2>4. ASSUME NEW q \in To(p)'
        PROVE /\ Increasing(q.records) /\ q.seq <= Due(p)
              /\ q.seq < Due(p) => Below(Range(q.records), Live(p))
              /\ q.seq >= last[p].next => Below(Recs(p), Range(q.records))
    <3>1. CASE q \in To(p)
      BY <3>1, <2>1 DEF Ordered
    <3>2. CASE q = r
      BY <3>2, <2>1, <2>3, <1>0, <1>1 DEF Ordered, Below
    <3> QED BY <3>1, <3>2
  <2>5. ASSUME NEW a \in To(p)', NEW b \in To(p)', a.seq < b.seq
        PROVE  Below(Range(a.records), Range(b.records))
    <3>1. CASE a \in To(p) /\ b \in To(p)
      BY <3>1, <2>1, <2>5 DEF Ordered
    <3>2. CASE a \in To(p) /\ b = r
      <4>1. Below(Range(a.records), Live(p))
        BY <3>2, <2>5, <2>4, <1>1
      <4> QED BY <4>1, <3>2, <2>3 DEF Below
    <3>3. CASE a = r
      <4>1. b.seq <= stamp[p]
        BY <2>4, <1>1
      <4>2. b.seq \in Nat
        BY <1>0
      <4> QED BY <3>3, <4>1, <4>2, <2>5, <1>0
    <3> QED BY <3>1, <3>2, <3>3
  <2> QED BY <2>1, <2>2, <2>4, <2>5, <1>1 DEF Ordered
<1> QED BY <1>2, <1>3, <1>4 DEF Sound

\* The entries of a request's records.
LEMMA AppendedIsLogged ==
    ASSUME NEW r, IsRequest(r)
    PROVE  /\ Appended(r) \in Seq(Entries) /\ Len(Appended(r)) = Len(r.records)
           /\ \A i \in 1 .. Len(r.records) : Appended(r)[i].rec = r.records[i]
<1>1. PICK m \in Nat : m = Len(r.records) /\ DOMAIN r.records = 1 .. m
  BY DEF IsRequest
<1>f. PICK f \in {"open", "plain"} : f = IF Transactional THEN "open" ELSE "plain"
  <2>1. CASE Transactional
    BY <2>1
  <2>2. CASE ~Transactional
    BY <2>2
  <2> QED BY <2>1, <2>2
<1>2. Appended(r) = [i \in 1 .. m |-> [rec |-> r.records[i], fate |-> f]]
  BY <1>f, <1>1, Zenon DEF Appended
<1>3. \A i \in 1 .. m : r.records[i] \in Nat
  BY <1>1 DEF IsRequest
<1>4. \A i \in 1 .. m : [rec |-> r.records[i], fate |-> f] \in Entries
  BY <1>3 DEF Entries
<1>5. Appended(r) \in [1 .. m -> Entries]
  BY <1>2, <1>4
<1>6. Appended(r) \in Seq(Entries) /\ Len(Appended(r)) = m
  BY <1>2, <1>5
<1>7. \A i \in 1 .. m : Appended(r)[i].rec = r.records[i]
  BY <1>2
<1> QED BY <1>1, <1>6, <1>7

\* The leader appends the batch of a request.
LEMMA AppendedBatch ==
    ASSUME IInv, FormInv, NEW p \in Partitions, Sound(p), Here(p)' <=> Here(p),
           pending'[p] = pending[p], hand'[p] = hand[p],
           Here(p) => stamp'[p] = stamp[p], sequences'[p] = sequences[p],
           NEW r \in To(p), last[p] = NoBatch \/ (r.seq = last[p].next /\ r.seq # last[p].base),
           To(p)' \subseteq To(p),
           log'[p] = log[p] \o Appended(r),
           last'[p] = [base |-> r.seq, next |-> r.seq + Len(r.records)],
           outcome'[p] # "none" => Here(p),
           outcome'[p] = "ok" => outcome[p] = "ok" \/ (r.seq = stamp[p] /\ r.records = hand[p]),
           spoiled' = spoiled, direct' = direct, given' = given
    PROVE  Sound(p)'
<1> DEFINE R == Range(r.records)
<1>r. IsRequest(r)
  BY DEF FormInv, To
<1>l. PICK L \in Nat : L = Len(log[p])
  BY DEF FormInv
<1>m. PICK m \in Nat : m = Len(r.records) /\ m # 0
  BY <1>r DEF IsRequest
<1>0. /\ given \in Nat /\ sequences[p] \in Nat /\ stamp[p] \in Nat
      /\ last[p].base \in Int /\ last[p].next \in Nat /\ log[p] \in Seq(Entries)
      /\ DOMAIN log[p] = 1 .. L
  BY <1>l, HeldFacts DEF FormInv
<1>1. /\ r.records \in Seq(Nat) /\ r.records # <<>> /\ r.seq \in Nat
      /\ DOMAIN r.records = 1 .. m /\ R \subseteq 1 .. given
  BY <1>r, <1>m DEF IsRequest
<1>2. /\ DOMAIN log'[p] = 1 .. L + m /\ log'[p] \in Seq(Entries)
      /\ \A i \in 1 .. L : log'[p][i].rec = log[p][i].rec
      /\ \A i \in 1 .. m : log'[p][L + i].rec = r.records[i]
  <2>1. /\ Appended(r) \in Seq(Entries) /\ Len(Appended(r)) = m
        /\ \A i \in 1 .. m : Appended(r)[i].rec = r.records[i]
    BY <1>r, <1>m, AppendedIsLogged
  <2>2. /\ log'[p] \in Seq(Entries) /\ Len(log'[p]) = L + m
        /\ \A i \in 1 .. L : log'[p][i] = log[p][i]
        /\ \A i \in 1 .. m : log'[p][L + i] = Appended(r)[i]
    <3>1. PICK s \in Seq(Entries), t \in Seq(Entries) : s = log[p] /\ t = Appended(r)
      BY <2>1, <1>0
    <3>2. Len(s) = L /\ Len(t) = m /\ log'[p] = s \o t
      BY <2>1, <3>1, <1>l
    <3>3. /\ s \o t \in Seq(Entries) /\ Len(s \o t) = Len(s) + Len(t)
          /\ \A i \in 1 .. Len(s) : (s \o t)[i] = s[i]
          /\ \A i \in 1 .. Len(t) : (s \o t)[Len(s) + i] = t[i]
      OBVIOUS
    <3> QED BY <3>1, <3>2, <3>3
  <2>3. DOMAIN log'[p] = 1 .. L + m
    BY <2>2
  <2> QED BY <2>1, <2>2, <2>3
<1>3. \A i \in 1 .. L + m : i \in 1 .. L \/ (\E k \in 1 .. m : i = L + k)
  <2> SUFFICES ASSUME NEW i \in 1 .. L + m, i \notin 1 .. L
               PROVE  \E k \in 1 .. m : i = L + k
    OBVIOUS
  <2>1. i - L \in 1 .. m /\ i = L + (i - L)
    OBVIOUS
  <2> QED BY <2>1
<1>4. \A i \in 1 .. L : log[p][i].rec \in Recs(p)
  BY <1>0 DEF Recs
<1>5. \A k \in 1 .. m : r.records[k] \in R
  BY <1>1 DEF Range
<1>6. Recs(p)' = Recs(p) \cup R
  <2>1. Recs(p)' \subseteq Recs(p) \cup R
    <3> SUFFICES ASSUME NEW x \in Recs(p)' PROVE x \in Recs(p) \cup R
      OBVIOUS
    <3>1. PICK i \in 1 .. L + m : x = log'[p][i].rec
      BY <1>2 DEF Recs
    <3> QED BY <3>1, <1>2, <1>3, <1>4, <1>5
  <2>2. Recs(p) \subseteq Recs(p)'
    <3>1. \A i \in 1 .. L : i \in 1 .. L + m
      OBVIOUS
    <3> QED BY <3>1, <1>0, <1>2 DEF Recs
  <2>3. R \subseteq Recs(p)'
    <3> SUFFICES ASSUME NEW x \in R PROVE x \in Recs(p)'
      OBVIOUS
    <3>1. PICK k \in 1 .. m : x = r.records[k]
      BY <1>1 DEF Range
    <3>2. L + k \in 1 .. L + m
      OBVIOUS
    <3>3. log'[p][L + k].rec = x
      BY <3>1, <1>2
    <3> QED BY <3>2, <3>3, <1>2 DEF Recs
  <2> QED BY <2>1, <2>2, <2>3
<1>7. Due(p)' = Due(p) /\ Live(p)' = Live(p) /\ Due(p) \in Nat
  BY <1>0 DEF Due, Live
<1>8. last'[p].base = r.seq /\ last'[p].next = r.seq + m /\ last'[p] # NoBatch
  BY <1>1, <1>m DEF NoBatch
<1>9. last[p] = NoBatch => log[p] = <<>> /\ Recs(p) = {} /\ L = 0 /\ last[p].base = -1 /\ last[p].next = 0
  BY <1>l DEF Sound, Numbered, NoBatch, Recs
<1>10. Numbered(p)'
  <2>1. Distinct(pending'[p]) /\ Distinct(hand'[p])
    BY DEF Sound, Numbered
  <2>2. last'[p].base < last'[p].next
    BY <1>1, <1>m, <1>8
  <2>3. Recs(p)' \subseteq 1 .. given'
    BY <1>1, <1>6 DEF Sound, Numbered
  <2>4. /\ Here(p)' => sequences'[p] = stamp'[p] + Len(hand'[p])
        /\ sequences'[p] + Len(pending'[p]) + (IF Here(p)' THEN 0 ELSE Len(hand'[p])) <= given'
        /\ outcome'[p] # "none" => Here(p)'
    BY DEF Sound, Numbered
  <2> QED BY <1>8, <2>1, <2>2, <2>3, <2>4 DEF Numbered
<1>11. ASSUME p \notin spoiled PROVE Healthy(p)'
  <2>1. Healthy(p) /\ Numbered(p)
    BY <1>11 DEF Sound
  <2>2. Here(p) /\ r.seq = stamp[p] /\ r.records = hand[p] /\ Ahead(p)
    <3>0. Len(hand[p]) \in Nat
      BY HeldFacts
    <3>1. last[p].base # Due(p) \/ ~Here(p)
      <4> SUFFICES ASSUME Here(p), last[p].base = stamp[p] PROVE FALSE
        BY DEF Due
      <4>1. last[p] # NoBatch
        BY <1>0, <1>9
      <4>2. Landed(p)
        <5>1. ~Ahead(p)
          BY <2>1, <1>0 DEF Numbered, Ahead
        <5> QED BY <5>1, <2>1 DEF Healthy
      <4>3. r.seq = sequences[p] /\ sequences[p] = stamp[p] + Len(hand[p])
        BY <4>1, <4>2, <2>1 DEF Landed, Numbered
      <4>4. r.seq = stamp[p] \/ r.seq < stamp[p]
        BY <2>1 DEF Healthy, Due
      <4>5. r.seq # stamp[p]
        BY <4>1, <4>2 DEF Landed
      <4> QED BY <4>3, <4>4, <4>5, <3>0, <1>0, <1>1
    <3>2. Here(p) => Ahead(p)
      BY <3>1, <2>1 DEF Healthy, Landed, Due
    <3>3. last[p].next = Due(p)
      BY <3>2, <2>1 DEF Healthy, Ahead, Due
    <3>4. ~(r.seq < Due(p))
      BY <3>3, <1>0, <1>1, <1>9
    <3> QED BY <3>2, <3>4, <2>1 DEF Healthy
  <2>3. Landed(p)'
    BY <2>1, <2>2, <1>6, <1>8, <1>m DEF Landed, Numbered
  <2>4. \A q \in To(p)' : \/ q.seq = stamp'[p] /\ q.records = hand'[p]
                          \/ q.seq < Due(p)'
    BY <2>1, <2>2, <1>7 DEF Healthy
  <2>5. Recs(p)' \cap Range(pending'[p]) = {}
    BY <2>1, <2>2, <1>6, HeldFacts DEF Healthy
  <2>6. ASSUME NEW i \in DOMAIN log'[p], NEW j \in DOMAIN log'[p], log'[p][i].rec = log'[p][j].rec
        PROVE  i = j
    <3>1. \A a \in 1 .. L, b \in 1 .. m : log'[p][a].rec # log'[p][L + b].rec
      BY <2>2, <1>2, <1>4, <1>5 DEF Ahead
    <3>2. \A a, b \in 1 .. L : log'[p][a].rec = log'[p][b].rec => a = b
      BY <2>1, <1>0, <1>2 DEF Healthy
    <3>3. \A a, b \in 1 .. m : log'[p][L + a].rec = log'[p][L + b].rec => a = b
      <4>1. Distinct(r.records)
        BY <2>1, <2>2 DEF Numbered
      <4>2. \A a \in 1 .. m : log'[p][L + a].rec = r.records[a]
        BY <1>2
      <4>3. DOMAIN r.records = 1 .. m
        BY <1>1
      <4>4. ASSUME NEW a \in 1 .. m, NEW b \in 1 .. m, r.records[a] = r.records[b]
            PROVE  a = b
        BY <4>1, <4>3, <4>4 DEF Distinct
      <4> QED BY <4>2, <4>4
    <3>4. i \in 1 .. L + m /\ j \in 1 .. L + m
      BY <1>2
    <3>5. CASE i \in 1 .. L /\ j \in 1 .. L
      BY <3>5, <3>2, <2>6
    <3>6. CASE i \in 1 .. L /\ j \notin 1 .. L
      BY <3>6, <3>4, <3>1, <2>6, <1>3
    <3>7. CASE i \notin 1 .. L /\ j \in 1 .. L
      BY <3>7, <3>4, <3>1, <2>6, <1>3
    <3>8. CASE i \notin 1 .. L /\ j \notin 1 .. L
      BY <3>8, <3>4, <3>3, <2>6, <1>3
    <3> QED BY <3>5, <3>6, <3>7, <3>8
  <2> QED BY <2>2, <2>3, <2>4, <2>5, <2>6 DEF Healthy
<1>12. ASSUME p \notin direct PROVE Ordered(p)'
  <2>1. Ordered(p)
    BY <1>12 DEF Sound
  <2>2. Increasing(pending'[p]) /\ Increasing(hand'[p]) /\ (hand'[p] = <<>> \/ pending'[p] = <<>>)
    BY <2>1 DEF Ordered
  <2>3. Below(Recs(p), R)
    <3>1. CASE last[p] = NoBatch
      BY <3>1, <1>9 DEF Below
    <3>2. CASE last[p] # NoBatch
      BY <3>2, <2>1, <1>0 DEF Ordered
    <3> QED BY <3>1, <3>2
  <2>4. last[p].next <= r.seq
    BY <1>0, <1>1, <1>9
  <2>5. r.seq < last'[p].next /\ last[p].next <= last'[p].next /\ last'[p].next \in Nat
    BY <2>4, <1>0, <1>1, <1>m, <1>8
  <2>6. Due(p) >= last'[p].next => Below(Recs(p)', Live(p))
    <3> SUFFICES ASSUME Due(p) >= last'[p].next PROVE Below(Recs(p)', Live(p))
      OBVIOUS
    <3>1. Due(p) >= last[p].next /\ r.seq < Due(p)
      BY <2>5, <1>0, <1>1, <1>7
    <3>2. Below(Recs(p), Live(p)) /\ Below(R, Live(p))
      BY <3>1, <2>1 DEF Ordered
    <3> QED BY <3>2, <1>6 DEF Below
  <2>7. ASSUME NEW q \in To(p)
        PROVE  q.seq >= last'[p].next => Below(Recs(p)', Range(q.records))
    <3> SUFFICES ASSUME q.seq >= last'[p].next PROVE Below(Recs(p)', Range(q.records))
      OBVIOUS
    <3>0. q.seq \in Nat
      BY DEF FormInv, To, IsRequest
    <3>1. q.seq >= last[p].next /\ r.seq < q.seq
      BY <2>5, <3>0, <1>0, <1>1
    <3>2. Below(Recs(p), Range(q.records)) /\ Below(R, Range(q.records))
      BY <3>1, <2>1 DEF Ordered
    <3> QED BY <3>2, <1>6 DEF Below
  <2>8. ASSUME NEW i \in DOMAIN log'[p], NEW j \in DOMAIN log'[p], i < j
        PROVE  log'[p][i].rec < log'[p][j].rec
    <3>1. \A a \in 1 .. L, b \in 1 .. m : log'[p][a].rec < log'[p][L + b].rec
      BY <2>3, <1>2, <1>4, <1>5 DEF Below
    <3>2. \A a, b \in 1 .. L : a < b => log'[p][a].rec < log'[p][b].rec
      BY <2>1, <1>0, <1>2 DEF Ordered
    <3>3. \A a, b \in 1 .. m : a < b => log'[p][L + a].rec < log'[p][L + b].rec
      <4>1. Increasing(r.records)
        BY <2>1 DEF Ordered
      <4> SUFFICES ASSUME NEW a \in 1 .. m, NEW b \in 1 .. m, a < b
                   PROVE  log'[p][L + a].rec < log'[p][L + b].rec
        OBVIOUS
      <4>2. r.records[a] < r.records[b]
        BY <4>1, <1>1 DEF Increasing
      <4> QED BY <4>2, <1>2
    <3>4. i \in 1 .. L + m /\ j \in 1 .. L + m
      BY <1>2
    <3>5. CASE i \in 1 .. L /\ j \in 1 .. L
      BY <3>5, <3>2, <2>8
    <3>6. CASE i \in 1 .. L /\ j \notin 1 .. L
      BY <3>6, <3>4, <3>1, <1>3
    <3>7. CASE i \notin 1 .. L
      <4>1. j \notin 1 .. L
        BY <3>7, <3>4, <2>8, <1>0, <1>1
      <4>2. PICK a \in 1 .. m : i = L + a
        BY <3>7, <3>4, <1>3
      <4>3. PICK b \in 1 .. m : j = L + b
        BY <4>1, <3>4, <1>3
      <4>4. a < b
        BY <4>2, <4>3, <2>8, <1>0, <1>1
      <4> QED BY <4>2, <4>3, <4>4, <3>3
    <3> QED BY <3>5, <3>6, <3>7
  <2>9. \A q \in To(p)' :
         /\ Increasing(q.records) /\ q.seq <= Due(p)'
         /\ q.seq < Due(p)' => Below(Range(q.records), Live(p)')
         /\ q.seq >= last'[p].next => Below(Recs(p)', Range(q.records))
         /\ \A s \in To(p)' : q.seq < s.seq => Below(Range(q.records), Range(s.records))
    BY <2>1, <2>7, <1>7 DEF Ordered
  <2> QED BY <2>2, <2>6, <2>8, <2>9, <1>7 DEF Ordered
<1> QED BY <1>10, <1>11, <1>12 DEF Sound

\* The delivery is through: a batch that was acknowledged is done with.
LEMMA FinishedBatch ==
    ASSUME IInv, FormInv, NEW p \in Partitions, Sound(p), Here(p), ~Here(p)', outcome[p] = "ok",
           pending'[p] = pending[p], hand'[p] = <<>>, sequences'[p] = sequences[p],
           To(p)' = To(p), log'[p] = log[p], last'[p] = last[p],
           outcome'[p] = "none", spoiled \subseteq spoiled', direct' = direct, given' = given
    PROVE  Sound(p)'
<1>0. /\ sequences[p] \in Nat /\ stamp[p] \in Nat /\ given \in Nat /\ hand[p] # <<>>
      /\ Len(hand[p]) \in Nat /\ hand[p] \in Seq(Nat) /\ Len(pending[p]) \in Nat
      /\ Range(<<>>) = {} /\ Len(<<>>) = 0
  BY HeldFacts, RangeFacts DEF FormInv, Here
<1>1. Recs(p)' = Recs(p) /\ Due(p)' = sequences[p] /\ Due(p) = stamp[p]
  BY DEF Recs, Due
<1>2. stamp[p] < sequences[p]
  <2>1. sequences[p] = stamp[p] + Len(hand[p])
    BY DEF Sound, Numbered
  <2>2. Len(hand[p]) # 0
    BY <1>0
  <2> QED BY <2>1, <2>2, <1>0
<1>3. Numbered(p)'
  <2>1. Distinct(pending'[p]) /\ Distinct(hand'[p])
    BY DEF Sound, Numbered, Distinct
  <2>2. sequences[p] + Len(pending[p]) + 0 <= given
    BY DEF Sound, Numbered
  <2> QED BY <2>1, <2>2, <1>0, <1>1 DEF Sound, Numbered
<1>4. ASSUME p \notin spoiled PROVE Healthy(p)'
  <2>1. Healthy(p)
    BY <1>4 DEF Sound
  <2>2. \A r \in To(p)' : r.seq < Due(p)'
    <3> SUFFICES ASSUME NEW r \in To(p) PROVE r.seq < sequences[p]
      BY <1>1
    <3>1. r.seq \in Nat
      BY DEF FormInv, To, IsRequest
    <3>2. r.seq <= stamp[p]
      BY <2>1, <3>1, <1>0, <1>1 DEF Healthy
    <3> QED BY <3>1, <3>2, <1>0, <1>2
  <2>3. sequences[p] = last[p].next
    BY <2>1 DEF Healthy, Landed
  <2> QED BY <2>1, <2>2, <2>3, <1>0, <1>1 DEF Healthy
<1>5. ASSUME p \notin direct PROVE Ordered(p)'
  <2>1. Ordered(p)
    BY <1>5 DEF Sound
  <2>2. pending[p] = <<>> /\ Live(p)' = {}
    BY <2>1, <1>0 DEF Ordered, Live
  <2>3. Increasing(pending'[p]) /\ Increasing(hand'[p])
    BY <2>2 DEF Increasing
  <2>4. \A r \in To(p)' : r.seq <= Due(p)'
    <3> SUFFICES ASSUME NEW r \in To(p) PROVE r.seq <= sequences[p]
      BY <1>1
    <3>1. r.seq \in Nat
      BY DEF FormInv, To, IsRequest
    <3>2. r.seq <= stamp[p]
      BY <2>1, <1>1 DEF Ordered
    <3> QED BY <3>1, <3>2, <1>0, <1>2
  <2>5. \A A : Below(A, Live(p)')
    BY <2>2 DEF Below
  <2> QED BY <2>1, <2>3, <2>4, <2>5, <1>1 DEF Ordered
<1> QED BY <1>3, <1>4, <1>5 DEF Sound

\* The arithmetic of a number handed back: the a records of the batch free a
\* numbers, and at most a records join the b buffered ones.
LEMMA NumbersGivenBack ==
    ASSUME NEW st \in Nat, NEW sq \in Nat, NEW g \in Nat, NEW a \in Nat, NEW b \in Nat,
           NEW n, n = a + b \/ n = b, sq = st + a, sq + b + 0 <= g
    PROVE  st + n + 0 <= g
  OBVIOUS

\* A failed batch goes back to its buffer, or is dropped, and its number is
\* handed back.
LEMMA FailedBatch ==
    ASSUME IInv, FormInv, NEW p \in Partitions, Sound(p), Here(p), ~Here(p)',
           hand'[p] = <<>>, sequences'[p] = stamp[p],
           \/ pending'[p] = hand[p] \o pending[p]
           \/ pending'[p] = pending[p] /\ p \in direct,
           To(p)' = To(p), log'[p] = log[p], last'[p] = last[p],
           outcome'[p] = "none", p \in spoiled', direct' = direct, given' = given
    PROVE  Sound(p)'
<1>0. /\ sequences[p] \in Nat /\ stamp[p] \in Nat /\ given \in Nat /\ hand[p] # <<>>
      /\ hand[p] \in Seq(Nat) /\ pending[p] \in Seq(Nat)
      /\ Range(<<>>) = {} /\ Len(<<>>) = 0
      /\ Range(pending[p]) \cap Range(hand[p]) = {}
  BY HeldFacts, RangeFacts DEF FormInv, Here
<1>1. Recs(p)' = Recs(p) /\ Due(p)' = Due(p)
  BY DEF Recs, Due
<1>2. PICK a \in Nat, b \in Nat : a = Len(hand[p]) /\ b = Len(pending[p])
  BY <1>0
<1>4. Numbered(p)'
  <2>1. Distinct(pending[p]) /\ Distinct(hand[p]) /\ Distinct(hand'[p])
    BY EmptySequence DEF Sound, Numbered
  <2>2. Distinct(hand[p] \o pending[p]) /\ Len(hand[p] \o pending[p]) = a + b
    BY <2>1, <1>0, <1>2, JoinedRecords
  <2>3. Distinct(pending'[p])
    BY <2>1, <2>2
  <2>4. sequences'[p] + Len(pending'[p]) + Len(hand'[p]) <= given
    <3>1. sequences[p] = stamp[p] + a /\ sequences[p] + b + 0 <= given
      BY <1>2 DEF Sound, Numbered
    <3>2. Len(pending'[p]) = a + b \/ Len(pending'[p]) = b
      BY <1>2, <2>2
    <3> QED BY <3>1, <3>2, <1>0, NumbersGivenBack
  <2> QED BY <2>1, <2>3, <2>4, <1>1 DEF Sound, Numbered
<1>5. ASSUME p \notin direct PROVE Ordered(p)'
  <2>1. Ordered(p)
    BY <1>5 DEF Sound
  <2>2. pending[p] = <<>>
    BY <2>1, <1>0 DEF Ordered
  <2>3. pending'[p] = hand[p]
    <3>1. hand[p] \o <<>> = hand[p]
      BY <1>0
    <3> QED BY <1>5, <2>2, <3>1
  <2>4. Live(p)' = Live(p)
    BY <2>2, <2>3, <1>0 DEF Live
  <2>5. Increasing(pending'[p]) /\ Increasing(hand'[p])
    BY <2>1, <2>2, <2>3 DEF Ordered, Increasing
  <2> QED BY <2>1, <2>4, <2>5, <1>1 DEF Ordered
<1> QED BY <1>4, <1>5 DEF Sound

-----------------------------------------------------------------------------
(* What each step does to all of them.                                     *)

\* A step that moves no record and no number.
LEMMA QuietStep ==
    ASSUME IInv, LogInv, UNCHANGED <<pending, hand, sequences, wire, last, given, direct, spoiled>>,
           log' \in [Partitions -> Seq(Entries)],
           \A p \in Partitions : /\ DOMAIN log'[p] = DOMAIN log[p]
                                 /\ \A i \in DOMAIN log[p] : log'[p][i].rec = log[p][i].rec,
           (at' = "deliver") <=> (at = "deliver"),
           stamp' \in [Partitions -> Nat], at = "deliver" => stamp' = stamp,
           outcome' \in [Partitions -> Outcomes],
           \A p \in Partitions : /\ outcome'[p] # "none" => outcome[p] # "none"
                                 /\ outcome'[p] = "ok" => outcome[p] = "ok",
           op' = "produce" => op = "produce",
           txnState' = "Uninitialized" => txnState = "Uninitialized"
    PROVE  LogInv'
<1>1. FormInv'
  BY DEF LogInv, FormInv, IsRequest, Filled
<1>2. ASSUME NEW p \in Partitions PROVE Sound(p)'
  <2>1. Sound(p) /\ FormInv /\ given \in Nat
    BY HeldFacts DEF LogInv
  <2>2. Here(p)' <=> Here(p)
    BY DEF Here
  <2>3. To(p)' \subseteq To(p)
    BY DEF To
  <2>4. Here(p) => stamp'[p] = stamp[p]
    BY DEF Here
  <2>5. outcome'[p] # "none" => Here(p)
    BY <2>1 DEF Sound, Numbered
  <2>6. /\ log'[p] \in Seq(Entries) /\ DOMAIN log'[p] = DOMAIN log[p]
        /\ \A i \in DOMAIN log[p] : log'[p][i].rec = log[p][i].rec
    OBVIOUS
  <2>7. given' \in Nat /\ given <= given'
    BY <2>1
  <2> QED BY <2>1, <2>2, <2>3, <2>4, <2>5, <2>6, <2>7, SameView
<1> QED BY <1>1, <1>2 DEF LogInv

\* What a step that moves records does to the buffer and the batch of one
\* partition.
Moved(p) ==
    /\ Live(p)' \subseteq Live(p) \cup (IF given' = given THEN {} ELSE {given + 1})
    /\ Len(pending'[p]) + Len(hand'[p]) <= Len(pending[p]) + Len(hand[p]) + (given' - given)
    /\ Distinct(pending'[p]) /\ Distinct(hand'[p])
    /\ p \notin direct' => /\ Increasing(pending'[p]) /\ Increasing(hand'[p])
                           /\ hand'[p] = <<>> \/ pending'[p] = <<>>

\* A step that moves records while no number is given out.
LEMMA MoveStep ==
    ASSUME IInv, IInv', LogInv, at # "deliver", at' # "deliver",
           UNCHANGED <<sequences, wire, log, last, spoiled>>,
           stamp' \in [Partitions -> Nat], outcome' = Unsent,
           direct \subseteq direct', given' \in {given, given + 1},
           op' = "produce" => Filled(hand') \subseteq direct',
           txnState' = "Uninitialized" => txnState = "Uninitialized",
           \A p \in Partitions : Moved(p)
    PROVE  LogInv'
<1>0. given \in Nat
  BY HeldIsGiven
<1>1. FormInv'
  <2>1. ASSUME NEW r \in wire PROVE IsRequest(r)'
    <3>1. IsRequest(r)
      BY DEF LogInv, FormInv
    <3>2. PICK n \in Nat, g \in Nat : n = Len(r.records) /\ g = given
      BY <1>0, <3>1 DEF IsRequest
    <3>3. r.seq \in Nat /\ r.seq + n <= g /\ Range(r.records) \subseteq 1 .. g
      BY <3>1, <3>2 DEF IsRequest
    <3>4. given' = g \/ given' = g + 1
      BY <3>2
    <3>5. r.seq + n <= given' /\ Range(r.records) \subseteq 1 .. given'
      BY <3>3, <3>4
    <3> QED BY <3>1, <3>2, <3>5 DEF IsRequest
  <2>2. outcome' \in [Partitions -> Outcomes]
    BY DEF Unsent, Outcomes
  <2> QED BY <2>1, <2>2 DEF LogInv, FormInv, Filled
<1>2. ASSUME NEW p \in Partitions PROVE Sound(p)'
  <2>1. Sound(p) /\ FormInv
    BY DEF LogInv
  <2>2. ~Here(p) /\ ~Here(p)' /\ To(p)' = To(p) /\ outcome'[p] = "none"
    BY DEF Here, To, Unsent
  <2>3. pending'[p] \in Seq(Nat) /\ hand'[p] \in Seq(Nat)
    BY DEF IInv, Shapes, Seqs
  <2>4. Moved(p)
    OBVIOUS
  <2> QED BY <2>1, <2>2, <2>3, <2>4, MovedRecords DEF Moved
<1> QED BY <1>1, <1>2 DEF LogInv

\* Partitions that a moving step leaves alone.
LEMMA Unmoved ==
    ASSUME IInv, LogInv, NEW p \in Partitions, pending'[p] = pending[p], hand'[p] = hand[p],
           given' \in {given, given + 1}, direct \subseteq direct'
    PROVE  Moved(p)
<1>1. /\ Distinct(pending[p]) /\ Distinct(hand[p])
      /\ p \notin direct => Increasing(pending[p]) /\ Increasing(hand[p])
                              /\ (hand[p] = <<>> \/ pending[p] = <<>>)
  BY DEF LogInv, Sound, Numbered, Ordered
<1>2. Live(p)' = Live(p)
  BY DEF Live
<1>3. PICK a \in Nat, b \in Nat, g \in Nat : a = Len(pending[p]) /\ b = Len(hand[p]) /\ g = given
  BY HeldFacts
<1>4. Len(pending'[p]) + Len(hand'[p]) <= Len(pending[p]) + Len(hand[p]) + (given' - given)
  <2>0. given' = g \/ given' = g + 1
    BY <1>3
  <2>1. a + b <= a + b + (given' - g)
    BY <2>0
  <2> QED BY <2>1, <1>3
<1>5. Distinct(pending'[p]) /\ Distinct(hand'[p])
  BY <1>1
<1>6. p \notin direct' => /\ Increasing(pending'[p]) /\ Increasing(hand'[p])
                          /\ hand'[p] = <<>> \/ pending'[p] = <<>>
  BY <1>1
<1> QED BY <1>2, <1>4, <1>5, <1>6 DEF Moved

LEMMA IdleFacts ==
    /\ Zeros \in [Partitions -> Nat] /\ Unsent \in [Partitions -> Outcomes]
    /\ \A p \in Partitions : Unsent[p] = "none" /\ Nothing[p] = <<>>
    /\ LogInv /\ at # "deliver" => outcome = Unsent
<1>1. Zeros \in [Partitions -> Nat] /\ Unsent \in [Partitions -> Outcomes]
  BY DEF Zeros, Unsent, Outcomes
<1>2. \A p \in Partitions : Unsent[p] = "none" /\ Nothing[p] = <<>>
  BY DEF Unsent, Nothing
<1>3. ASSUME LogInv, at # "deliver" PROVE outcome = Unsent
  <2>1. \A p \in Partitions : outcome[p] = "none"
    BY <1>3 DEF LogInv, Sound, Numbered, Here
  <2>2. outcome \in [Partitions -> Outcomes]
    BY <1>3 DEF LogInv, FormInv
  <2> QED BY <2>1, <2>2 DEF Unsent
<1> QED BY <1>1, <1>2, <1>3

\* Between calls, and while a coordinator is asked to end or to take offsets,
\* the call holds nothing.
LEMMA HoldsNothing ==
    ASSUME IInv, op = "none" \/ at \in {"none", "end", "offsets"}
    PROVE  hand = Nothing /\ at # "deliver"
  BY DEF IInv, BooksInv, CallInv

\* The books of the transaction: nothing here is about logs.
LEMMA BookkeepingLog ==
    ASSUME IInv, LogInv,
           \/ InitTransactions \/ BeginTransaction \/ SendOffsets \/ ClaimOk \/ ClaimUnheard
           \/ OffsetsOk \/ OffsetsFail \/ EndFails \/ Successor
    PROVE  LogInv'
<1>0. /\ log \in [Partitions -> Seq(Entries)] /\ stamp \in [Partitions -> Nat]
      /\ outcome \in [Partitions -> Outcomes]
      /\ txnState = "Uninitialized" => sequences = Zeros
  BY DEF LogInv, FormInv
<1>i. txnState = "Uninitialized" => op \notin {"flush", "produce", "commit", "offsets", "abort"}
  BY DEF IInv, BooksInv, CallInv, Producible
<1>1. CASE InitTransactions
  <2>1. UNCHANGED <<pending, hand, sequences, wire, last, given, direct, spoiled, log, at, stamp, outcome, op>>
    BY <1>1, <1>0 DEF InitTransactions, callVars, brokerVars, historyVars
  <2>2. txnState' # "Uninitialized"
    BY <1>1 DEF InitTransactions
  <2> QED BY <1>0, <2>1, <2>2, QuietStep
<1>2. CASE BeginTransaction
  <2>1. UNCHANGED <<pending, hand, sequences, wire, last, given, direct, spoiled, log, at, stamp, outcome, op>>
    BY <1>2 DEF BeginTransaction, callVars, brokerVars, bufferVars
  <2>2. txnState' # "Uninitialized"
    BY <1>2 DEF BeginTransaction
  <2> QED BY <1>0, <2>1, <2>2, QuietStep
<1>3. CASE SendOffsets
  <2>1. UNCHANGED <<pending, hand, sequences, wire, last, given, direct, spoiled, log, stamp, outcome>>
    BY <1>3 DEF SendOffsets, brokerVars, bufferVars
  <2>2. /\ txnState' # "Uninitialized" /\ op' # "produce" /\ at # "deliver" /\ at' # "deliver"
    BY <1>3, HoldsNothing DEF SendOffsets, txnVars
  <2> QED BY <1>0, <2>1, <2>2, QuietStep
<1>4. CASE ClaimOk \/ ClaimUnheard
  <2>1. UNCHANGED <<pending, hand, sequences, wire, last, given, direct, spoiled, log, stamp, outcome, op>>
    BY <1>4 DEF ClaimOk, ClaimUnheard, Await, callVars, bufferVars, historyVars
  <2>2. /\ txnState' = txnState /\ at # "deliver" /\ at' # "deliver"
    BY <1>4 DEF ClaimOk, ClaimUnheard, Await, callVars, txnVars
  <2> QED BY <1>0, <2>1, <2>2, QuietStep
<1>5. CASE OffsetsOk \/ OffsetsFail \/ EndFails
  <2>0. at \in {"end", "offsets"}
    BY <1>5 DEF OffsetsOk, OffsetsFail, EndFails
  <2>1. UNCHANGED <<pending, hand, sequences, wire, last, given, direct, spoiled, log>>
    BY <1>5, <2>0, HoldsNothing
       DEF OffsetsOk, OffsetsFail, EndFails, Return, Release, bufferVars, brokerVars, historyVars
  <2>2. stamp' = Zeros /\ outcome' = Unsent /\ op' = "none" /\ at' = "none" /\ at # "deliver"
    BY <1>5, <2>0 DEF OffsetsOk, OffsetsFail, EndFails, Return, Release
  <2>3. txnState' # "Uninitialized"
    <3>1. txnState \in {"Open", "Abortable"}
      BY <2>0 DEF IInv, BooksInv, CallInv
    <3>2. txnState' = txnState \/ \E e : txnState' = AfterFailure(txnState, e)
      BY <1>5 DEF OffsetsOk, OffsetsFail, EndFails, txnVars, Poison
    <3> QED BY <3>1, <3>2, AfterFailureFacts
  <2> QED BY <1>0, <2>1, <2>2, <2>3, QuietStep, IdleFacts
<1>6. CASE Successor
  <2>1. UNCHANGED <<pending, hand, sequences, wire, last, given, direct, spoiled, log, at, stamp, outcome, op>>
    BY <1>6 DEF Successor, callVars, historyVars, bufferVars
  <2>2. txnState' = txnState
    BY <1>6 DEF Successor, txnVars
  <2> QED BY <1>0, <2>1, <2>2, QuietStep
<1> QED BY <1>1, <1>2, <1>3, <1>4, <1>5, <1>6

\* The end of a transaction decides fates and leaves the records where they are.
LEMMA EndLog ==
    ASSUME IInv, LogInv, EndOk \/ EndUnheard
    PROVE  LogInv'
<1>0. /\ log \in [Partitions -> Seq(Entries)] /\ stamp \in [Partitions -> Nat]
      /\ outcome \in [Partitions -> Outcomes]
  BY DEF LogInv, FormInv
<1>1. at = "end" /\ hand = Nothing /\ op \in {"commit", "abort"} /\ txnState \in {"Open", "Abortable"}
  BY DEF EndOk, EndUnheard, IInv, BooksInv, CallInv
<1>2. PICK f \in {"committed", "aborted"} : EndTxn(f)
  BY DEF EndOk, EndUnheard, Fate
<1>3. ASSUME NEW e \in Entries
      PROVE  [e EXCEPT !.fate = f] \in Entries /\ [e EXCEPT !.fate = f].rec = e.rec
  BY DEF Entries
<1>4. ASSUME NEW p \in Partitions
      PROVE  /\ log'[p] \in Seq(Entries) /\ DOMAIN log'[p] = DOMAIN log[p]
             /\ \A i \in DOMAIN log[p] : log'[p][i].rec = log[p][i].rec
  <2>1. log'[p] = [i \in DOMAIN log[p] |->
                     IF log[p][i].fate = "open" THEN [log[p][i] EXCEPT !.fate = f] ELSE log[p][i]]
    BY <1>2 DEF EndTxn
  <2>2. PICK n \in Nat : DOMAIN log[p] = 1 .. n /\ \A i \in 1 .. n : log[p][i] \in Entries
    BY <1>0
  <2>3. \A i \in 1 .. n : log'[p][i] \in Entries /\ log'[p][i].rec = log[p][i].rec
    BY <2>1, <2>2, <1>3
  <2>4. log'[p] \in [1 .. n -> Entries]
    BY <2>1, <2>2, <2>3
  <2>5. log'[p] \in Seq(Entries)
    BY <2>4
  <2> QED BY <2>1, <2>2, <2>3, <2>5
<1>5. log' \in [Partitions -> Seq(Entries)]
  BY <1>2, <1>4 DEF EndTxn
<1>6. /\ UNCHANGED <<pending, hand, sequences, wire, last, given, direct, spoiled>>
      /\ at' # "deliver" /\ txnState' # "Uninitialized" /\ op' # "produce"
      /\ \/ stamp' = stamp /\ outcome' = outcome
         \/ stamp' = Zeros /\ outcome' = Unsent
  BY <1>1 DEF EndOk, EndUnheard, Return, Release, bufferVars, historyVars, callVars, txnVars
<1> QED BY <1>0, <1>1, <1>4, <1>5, <1>6, QuietStep, IdleFacts

\* A failed attempt is tried again, or not.
LEMMA AttemptLog ==
    ASSUME IInv, LogInv, NEW p \in Partitions, AttemptFails(p)
    PROVE  LogInv'
<1>0. /\ log \in [Partitions -> Seq(Entries)] /\ stamp \in [Partitions -> Nat]
      /\ outcome \in [Partitions -> Outcomes]
  BY DEF LogInv, FormInv
<1>1. UNCHANGED <<pending, hand, sequences, wire, last, given, direct, spoiled, log, at, stamp, op, txnState>>
  BY DEF AttemptFails, brokerVars, historyVars, bufferVars, txnVars
<1>2. PICK o \in {"trying", "timeout"} : outcome' = [outcome EXCEPT ![p] = o]
  BY DEF AttemptFails
<1>3. outcome' \in [Partitions -> Outcomes]
  BY <1>0, <1>2 DEF Outcomes
<1>4. ASSUME NEW q \in Partitions
      PROVE  /\ outcome'[q] # "none" => outcome[q] # "none"
             /\ outcome'[q] = "ok" => outcome[q] = "ok"
  BY <1>0, <1>2 DEF AttemptFails
<1> QED BY <1>0, <1>1, <1>3, <1>4, QuietStep

\* enqueue and produce: the next record comes behind all that was handed over
\* before it.
LEMMA HandOverLog ==
    ASSUME IInv, IInv', LogInv, NEW p \in Partitions,
           Enqueue(p) \/ EnqueueFull(p) \/ Produce(p)
    PROVE  LogInv'
<1>0. /\ hand = Nothing /\ at # "deliver" /\ outcome = Unsent /\ stamp \in [Partitions -> Nat]
      /\ pending \in [Partitions -> Seq(Nat)] /\ given \in Nat /\ given' = given + 1
      /\ \A q \in Partitions : hand[q] = <<>>
  <2>1. hand = Nothing /\ at # "deliver" /\ given' = given + 1
    BY HoldsNothing DEF Enqueue, EnqueueFull, Produce, HandOver
  <2> QED BY <2>1, IdleFacts, HeldIsGiven DEF LogInv, FormInv, IInv, Shapes, Seqs
<1>1. /\ UNCHANGED <<sequences, wire, log, last, spoiled, stamp, outcome, txnState>>
      /\ direct \subseteq direct' /\ at' # "deliver"
  BY <1>0 DEF Enqueue, EnqueueFull, Produce, Deliver, callVars, brokerVars, bufferVars, txnVars
<1>2. op' = "produce" => Filled(hand') \subseteq direct'
  <2>1. CASE Enqueue(p) \/ EnqueueFull(p)
    BY <2>1 DEF Enqueue, EnqueueFull, HandOver, Deliver, callVars
  <2>2. CASE Produce(p)
    <3>1. hand' = [Nothing EXCEPT ![p] = <<given + 1>>] /\ direct' = direct \cup {p}
      BY <2>2 DEF Produce, Deliver
    <3> QED BY <3>1 DEF Filled, Nothing
  <2> QED BY <2>1, <2>2
<1>3. ASSUME NEW q \in Partitions, q # p
      PROVE  pending'[q] = pending[q] /\ hand'[q] = hand[q]
  <2>1. CASE Enqueue(p)
    BY <2>1, <1>3, <1>0 DEF Enqueue, callVars
  <2>2. CASE EnqueueFull(p)
    BY <2>2, <1>3, <1>0, IdleFacts DEF EnqueueFull, Deliver, Nothing
  <2>3. CASE Produce(p)
    BY <2>3, <1>3, <1>0, IdleFacts DEF Produce, Deliver, bufferVars, Nothing
  <2> QED BY <2>1, <2>2, <2>3
<1>4. Moved(p)
  <2>0. /\ pending[p] \in Seq(Nat) /\ Range(pending[p]) \subseteq 1 .. given /\ hand[p] = <<>>
        /\ Distinct(pending[p]) /\ (p \notin direct => Increasing(pending[p]))
    BY <1>0, HeldFacts DEF LogInv, Sound, Numbered, Ordered
  <2>1. PICK n \in Nat : n = Len(pending[p])
    BY <2>0
  <2>2. PICK t \in Seq(Nat) : /\ t = Append(pending[p], given + 1) /\ Len(t) = n + 1
                              /\ Distinct(t) /\ (p \notin direct => Increasing(t))
                              /\ Range(t) = Range(pending[p]) \cup {given + 1}
    <3>1. PICK g \in Nat : g = given
      BY <1>0
    <3>2. Range(pending[p]) \subseteq 1 .. g
      BY <2>0, <3>1
    <3>3. /\ Append(pending[p], g + 1) \in Seq(Nat)
          /\ Len(Append(pending[p], g + 1)) = Len(pending[p]) + 1
          /\ Distinct(Append(pending[p], g + 1))
          /\ p \notin direct => Increasing(Append(pending[p], g + 1))
      BY <3>2, <2>0, OneMoreRecord
    <3>4. Range(Append(pending[p], g + 1)) = Range(pending[p]) \cup {g + 1}
      BY <2>0, RangeFacts
    <3> QED BY <3>1, <3>3, <3>4, <2>1
  <2>3. CASE Enqueue(p)
    <3>1. pending'[p] = t /\ hand'[p] = <<>>
      BY <2>3, <2>2, <1>0 DEF Enqueue, callVars
    <3>2. Live(p)' \subseteq Live(p) \cup {given + 1}
      BY <3>1, <2>2, EmptySequence DEF Live
    <3>3. Len(pending'[p]) + Len(hand'[p]) <= Len(pending[p]) + Len(hand[p]) + (given' - given)
      <4>1. (n + 1) + 0 <= n + 0 + ((given + 1) - given)
        BY <1>0
      <4> QED BY <4>1, <3>1, <2>0, <2>1, <2>2, <1>0, EmptySequence
    <3> QED BY <1>0, <1>1, <2>2, <3>1, <3>2, <3>3, EmptySequence DEF Moved
  <2>4. CASE EnqueueFull(p)
    <3>1. pending'[p] = <<>> /\ hand'[p] = t
      BY <2>4, <2>2, <1>0 DEF EnqueueFull, Deliver, Nothing
    <3>2. Live(p)' \subseteq Live(p) \cup {given + 1}
      BY <3>1, <2>2, EmptySequence DEF Live
    <3>3. Len(pending'[p]) + Len(hand'[p]) <= Len(pending[p]) + Len(hand[p]) + (given' - given)
      <4>1. 0 + (n + 1) <= n + 0 + ((given + 1) - given)
        BY <1>0
      <4> QED BY <4>1, <3>1, <2>0, <2>1, <2>2, <1>0, EmptySequence
    <3> QED BY <1>0, <1>1, <2>2, <3>1, <3>2, <3>3, EmptySequence DEF Moved
  <2>5. CASE Produce(p)
    <3>1. pending'[p] = pending[p] /\ hand'[p] = <<given + 1>> /\ p \in direct'
      BY <2>5, <1>0 DEF Produce, Deliver, bufferVars, Nothing
    <3>2. Live(p)' \subseteq Live(p) \cup {given + 1}
      BY <3>1 DEF Live, Range
    <3>3. Len(pending'[p]) + Len(hand'[p]) <= Len(pending[p]) + Len(hand[p]) + (given' - given)
      <4>1. n + 1 <= n + 0 + ((given + 1) - given)
        BY <1>0
      <4>2. Len(<<given + 1>>) = 1
        BY <1>0
      <4> QED BY <4>1, <4>2, <3>1, <2>0, <2>1, <1>0, EmptySequence
    <3>4. Distinct(<<given + 1>>)
      BY DEF Distinct
    <3> QED BY <1>0, <2>0, <3>1, <3>2, <3>3, <3>4 DEF Moved
  <2> QED BY <2>3, <2>4, <2>5
<1>5. ASSUME NEW q \in Partitions PROVE Moved(q)
  BY <1>0, <1>1, <1>3, <1>4, Unmoved
<1> QED BY <1>0, <1>1, <1>2, <1>5, MoveStep

\* flush, commit_transaction and abort_transaction empty the buffers.
LEMMA DrainLog ==
    ASSUME IInv, IInv', LogInv, Flush \/ CommitTransaction \/ AbortTransaction
    PROVE  LogInv'
<1>0. /\ hand = Nothing /\ at # "deliver" /\ outcome = Unsent /\ stamp \in [Partitions -> Nat]
      /\ pending \in [Partitions -> Seq(Nat)] /\ given \in Nat
      /\ \A q \in Partitions : hand[q] = <<>> /\ Nothing[q] = <<>>
  <2>1. hand = Nothing /\ at # "deliver"
    BY HoldsNothing DEF Flush, CommitTransaction, AbortTransaction
  <2> QED BY <2>1, IdleFacts, HeldIsGiven DEF LogInv, FormInv, IInv, Shapes, Seqs
<1>1. /\ UNCHANGED <<sequences, wire, log, last, spoiled, txnState, given, direct>>
      /\ outcome' = Unsent /\ stamp' \in [Partitions -> Nat]
      /\ at' # "deliver" /\ op' # "produce" /\ pending' = Nothing
  <2>1. CASE Flush
    BY <2>1, <1>0 DEF Flush, Deliver, brokerVars, historyVars, txnVars
  <2>2. CASE CommitTransaction
    <3>1. /\ UNCHANGED <<sequences, wire, log, last, spoiled, txnState, given, direct>>
          /\ pending' = Nothing
      BY <2>2 DEF CommitTransaction, brokerVars, historyVars, txnVars
    <3>2. Release("commit", "end") \/ Deliver("commit", pending)
      BY <2>2 DEF CommitTransaction
    <3> QED BY <3>1, <3>2, <1>0, IdleFacts DEF Release, Deliver
  <2>3. CASE AbortTransaction
    BY <2>3, <1>0 DEF AbortTransaction, brokerVars, historyVars, txnVars
  <2> QED BY <2>1, <2>2, <2>3
<1>2. hand' = pending \/ hand' = Nothing
  BY <1>0 DEF Flush, CommitTransaction, AbortTransaction, Deliver, Release
<1>3. ASSUME NEW p \in Partitions PROVE Moved(p)
  <2>0. /\ Distinct(pending[p]) /\ (p \notin direct => Increasing(pending[p]))
    BY DEF LogInv, Sound, Numbered, Ordered
  <2>1. PICK n \in Nat : n = Len(pending[p])
    BY <1>0
  <2>2. PICK t \in {pending[p], <<>>} : hand'[p] = t /\ pending'[p] = <<>>
    BY <1>0, <1>1, <1>2
  <2>3. Live(p)' \subseteq Live(p)
    BY <2>2, EmptySequence DEF Live
  <2>4. Len(pending'[p]) + Len(hand'[p]) <= Len(pending[p]) + Len(hand[p]) + (given' - given)
    <3>1. PICK m \in Nat : m = Len(hand'[p]) /\ m <= n
      BY <2>1, <2>2, EmptySequence
    <3>2. 0 + m <= n + 0 + (given - given)
      BY <3>1, <1>0
    <3> QED BY <3>1, <3>2, <2>1, <2>2, <1>0, <1>1, EmptySequence
  <2>5. Distinct(t) /\ (p \notin direct => Increasing(t))
    BY <2>0, EmptySequence
  <2> QED BY <1>1, <2>2, <2>3, <2>4, <2>5, EmptySequence DEF Moved
<1> QED BY <1>0, <1>1, <1>3, MoveStep

\* A call that fails before its batches have numbers restores them, or some.
LEMMA RestoreLog ==
    ASSUME IInv, IInv', LogInv, ClaimFails \/ StampFails
    PROVE  LogInv'
<1>0. /\ at \in {"claim", "stamp"} /\ Return
      /\ UNCHANGED <<sequences, wire, log, last, spoiled, given, direct>>
      /\ \/ pending' = Restored(hand)
         \/ \E first \in Keys : pending' = Restored(Part({first}))
  BY DEF ClaimFails, StampFails, brokerVars
<1>4. \A p \in Partitions :
         /\ op = "produce" => pending'[p] = pending[p]
         /\ op # "produce" => \/ pending'[p] = hand[p] \o pending[p]
                              \/ pending'[p] = <<>> \o pending[p]
  BY <1>0 DEF Restored, Part
<1>1. /\ pending \in Seqs /\ hand \in Seqs /\ given \in Nat
      /\ hand' = Nothing /\ outcome' = Unsent /\ stamp' = Zeros /\ op' = "none" /\ at' = "none"
  BY <1>0, HeldIsGiven DEF Return, Release, IInv, Shapes
<1>2. txnState' # "Uninitialized"
  <2>1. txnState \in {"Disabled", "Open"}
    BY <1>0 DEF IInv, BooksInv, CallInv, Producible
  <2>2. txnState' = txnState \/ \E e : txnState' = AfterFailure(txnState, e)
    BY DEF ClaimFails, StampFails, txnVars, Poison
  <2> QED BY <2>1, <2>2, AfterFailureFacts
<1>3. ASSUME NEW p \in Partitions PROVE Moved(p)
  <2>0. /\ Distinct(pending[p]) /\ Distinct(hand[p])
        /\ p \notin direct => /\ Increasing(pending[p]) /\ Increasing(hand[p])
                              /\ (hand[p] = <<>> \/ pending[p] = <<>>)
    BY DEF LogInv, Sound, Numbered, Ordered
  <2>1. PICK n \in Nat, m \in Nat : n = Len(pending[p]) /\ m = Len(hand[p])
    BY HeldFacts
  <2>2. /\ pending[p] \in Seq(Nat) /\ hand[p] \in Seq(Nat) /\ hand'[p] = <<>>
        /\ Range(hand[p]) \cap Range(pending[p]) = {}
    BY <1>1, HeldFacts, IdleFacts
  <2>3. CASE pending'[p] = pending[p]
    <3>1. pending'[p] = pending[p]
      BY <2>3
    <3>2. Live(p)' \subseteq Live(p)
      BY <3>1, <2>2, EmptySequence DEF Live
    <3>3. Len(pending'[p]) + Len(hand'[p]) <= Len(pending[p]) + Len(hand[p]) + (given' - given)
      <4>1. n + 0 <= n + m + (given - given)
        BY <1>1
      <4> QED BY <4>1, <3>1, <2>1, <2>2, <1>0, EmptySequence
    <3> QED BY <1>0, <2>0, <2>2, <3>1, <3>2, <3>3, EmptySequence DEF Moved
  <2>4. CASE pending'[p] = hand[p] \o pending[p]
    <3>1. pending'[p] = hand[p] \o pending[p]
      BY <2>4
    <3>2. Live(p)' \subseteq Live(p)
      BY <3>1, <2>2, RangeFacts DEF Live
    <3>3. Distinct(pending'[p]) /\ Len(pending'[p]) = m + n
      BY <3>1, <2>0, <2>1, <2>2, JoinedRecords
    <3>4. Len(pending'[p]) + Len(hand'[p]) <= Len(pending[p]) + Len(hand[p]) + (given' - given)
      <4>1. (m + n) + 0 <= n + m + (given - given)
        BY <1>1
      <4> QED BY <4>1, <3>3, <2>1, <2>2, <1>0, EmptySequence
    <3>5. p \notin direct => Increasing(pending'[p])
      <4>1. hand[p] \o <<>> = hand[p] /\ <<>> \o pending[p] = pending[p]
        BY <2>2
      <4> QED BY <3>1, <4>1, <2>0
    <3> QED BY <1>0, <2>2, <3>2, <3>3, <3>4, <3>5, EmptySequence DEF Moved
  <2>5. <<>> \o pending[p] = pending[p]
    BY <2>2
  <2> QED BY <2>3, <2>4, <2>5, <1>4
<1> QED BY <1>0, <1>1, <1>2, <1>3, MoveStep, IdleFacts

\* Fewer records than numbers: none of the numbers in use wraps.
LEMMA NoWrap ==
    ASSUME IInv, Fits
    PROVE  given <= MaxSeq /\ \A n \in Nat : n <= given => Wrapped(n) = n
<1>1. plan \in Plans /\ given \in 0 .. Len(plan) /\ given \in Nat
  BY HeldIsGiven DEF IInv, Shapes
<1>2. PICK n \in Nat : n = Len(plan)
  BY <1>1, ProducerAssumption
<1>3. n <= MaxSeq /\ given <= n /\ MaxSeq \in Nat
  BY <1>1, <1>2, ProducerAssumption DEF Fits
<1>4. given <= MaxSeq
  BY <1>1, <1>3
<1> QED BY <1>1, <1>3, <1>4 DEF Wrapped

\* next_stamp gives every batch as many numbers as it has records.
LEMMA StampLog ==
    ASSUME IInv, LogInv, Fits, Stamp
    PROVE  LogInv'
<1>0. /\ at = "stamp" /\ at' = "deliver"
      /\ UNCHANGED <<pending, hand, op, txnState, wire, log, last, given, direct, spoiled>>
      /\ txnState # "Uninitialized"
  BY DEF Stamp, txnVars, brokerVars, historyVars, IInv, BooksInv, CallInv, Producible
<1>1. FormInv /\ outcome = Unsent
  BY <1>0, IdleFacts DEF LogInv
<1>2. ASSUME NEW p \in Partitions
      PROVE  /\ p \in Keys <=> hand[p] # <<>>
             /\ p \in Keys => /\ stamp'[p] = sequences[p] /\ outcome'[p] = "trying"
                              /\ sequences'[p] = sequences[p] + Len(hand[p])
             /\ p \notin Keys => /\ stamp'[p] = 0 /\ outcome'[p] = "none"
                                 /\ sequences'[p] = sequences[p]
             /\ sequences[p] \in Nat /\ Len(hand[p]) \in Nat
  <2>1. PICK n \in Nat, g \in Nat, l \in Nat, s \in Nat :
            n = Len(hand[p]) /\ g = given /\ l = Len(pending[p]) /\ s = sequences[p]
    BY <1>1, HeldFacts DEF FormInv
  <2>2. s + l + n <= g
    BY <2>1, <1>0 DEF LogInv, Sound, Numbered, Here
  <2>3. s + n \in Nat /\ s + n <= g
    BY <2>2
  <2>4. Wrapped(s + n) = s + n
    BY <2>3, <2>1, NoWrap
  <2>5. p \in Keys => sequences'[p] = s + n
    BY <2>1, <2>4 DEF Stamp, NextStamp
  <2> QED BY <2>1, <2>5 DEF Stamp, Keys, Filled
<1>3. FormInv'
  <2>1. /\ sequences' = [p \in Partitions |-> sequences'[p]] /\ stamp' = [p \in Partitions |-> stamp'[p]]
        /\ outcome' = [p \in Partitions |-> outcome'[p]]
    BY DEF Stamp
  <2>2. \A p \in Partitions : /\ sequences'[p] \in Nat /\ stamp'[p] \in Nat
                              /\ outcome'[p] \in {"trying", "none"}
    BY <1>2
  <2>3. /\ sequences' \in [Partitions -> Nat] /\ stamp' \in [Partitions -> Nat]
        /\ outcome' \in [Partitions -> Outcomes]
    BY <2>1, <2>2 DEF Outcomes
  <2> QED BY <1>0, <1>1, <2>3 DEF FormInv, IsRequest, Filled
<1>4. ASSUME NEW p \in Partitions PROVE Sound(p)'
  <2>0. Sound(p) /\ ~Here(p) /\ To(p)' = To(p) /\ given' \in Nat /\ given <= given'
        /\ log'[p] \in Seq(Entries)
    BY <1>0, <1>1, HeldFacts DEF LogInv, Here, To, FormInv
  <2>1. CASE p \in Keys
    <3>1. hand[p] # <<>> /\ Here(p)'
      BY <2>1, <1>0, <1>2 DEF Here
    <3> QED BY <3>1, <2>0, <2>1, <1>0, <1>1, <1>2, StampedBatch
  <2>2. CASE p \notin Keys
    <3>1. ~Here(p)'
      BY <2>2, <1>0, <1>2 DEF Here
    <3> QED BY <3>1, <2>0, <2>2, <1>0, <1>1, <1>2, SameView
  <2> QED BY <2>1, <2>2
<1> QED BY <1>3, <1>4 DEF LogInv

\* What the batch in hand is sent as.
LEMMA RequestFacts ==
    ASSUME IInv, LogInv, NEW p \in Partitions, Here(p)
    PROVE  /\ IsRequest(Request(p))
           /\ Request(p).to = p /\ Request(p).seq = stamp[p] /\ Request(p).records = hand[p]
<1>1. /\ DOMAIN Request(p) = {"to", "records", "seq", "round"}
      /\ Request(p).to = p /\ Request(p).seq = stamp[p] /\ Request(p).records = hand[p]
  BY DEF Request
<1>2. /\ hand[p] \in Seq(Nat) /\ hand[p] # <<>> /\ stamp[p] \in Nat
      /\ Range(hand[p]) \subseteq 1 .. given
  BY HeldFacts DEF LogInv, FormInv, Here
<1>3. stamp[p] + Len(hand[p]) <= given
  <2>1. PICK n \in Nat, g \in Nat, l \in Nat, s \in Nat :
            n = Len(hand[p]) /\ g = given /\ l = Len(pending[p]) /\ s = stamp[p]
    BY <1>2, HeldFacts
  <2>2. sequences[p] = s + n /\ sequences[p] + l + 0 <= g
    BY <2>1 DEF LogInv, Sound, Numbered
  <2>3. s + n <= g
    BY <2>2
  <2> QED BY <2>1, <2>3
<1> QED BY <1>1, <1>2, <1>3 DEF IsRequest

LEMMA TryOnceLog ==
    ASSUME IInv, LogInv, NEW p \in Partitions, TryOnce(p)
    PROVE  LogInv'
<1>0. /\ UNCHANGED <<pending, hand, op, at, txnState, log, last, given, direct, spoiled,
                     sequences, stamp>>
      /\ wire' = wire \cup {Request(p)} /\ outcome' = [outcome EXCEPT ![p] = "waiting"]
      /\ outcome[p] = "trying"
  BY DEF TryOnce, bufferVars, txnVars, historyVars
<1>1. FormInv /\ Here(p) /\ outcome \in [Partitions -> Outcomes]
  BY <1>0 DEF LogInv, FormInv, Sound, Numbered
<1>2. /\ IsRequest(Request(p)) /\ Request(p).to = p
      /\ Request(p).seq = stamp[p] /\ Request(p).records = hand[p]
  BY <1>1, RequestFacts
<1>3. FormInv'
  <2>1. outcome' \in [Partitions -> Outcomes]
    BY <1>0, <1>1 DEF Outcomes
  <2>2. \A r \in wire' : IsRequest(r)'
    BY <1>0, <1>1, <1>2 DEF FormInv, IsRequest
  <2> QED BY <1>0, <1>1, <2>1, <2>2 DEF FormInv, Filled
<1>4. ASSUME NEW q \in Partitions PROVE Sound(q)'
  <2>0. /\ Sound(q) /\ (Here(q)' <=> Here(q)) /\ given' \in Nat /\ given <= given'
        /\ log'[q] \in Seq(Entries) /\ (outcome[q] # "none" => Here(q))
    <3>1. Sound(q)
      BY DEF LogInv
    <3>2. outcome[q] # "none" => Here(q)
      BY <3>1 DEF Sound, Numbered
    <3>3. Here(q)' <=> Here(q)
      BY <1>0 DEF Here
    <3>4. given' \in Nat /\ given <= given' /\ log'[q] \in Seq(Entries)
      BY <1>0, <1>1, HeldIsGiven DEF FormInv
    <3> QED BY <3>1, <3>2, <3>3, <3>4
  <2>1. CASE q = p
    <3>1. To(p)' = To(p) \cup {Request(p)}
      BY <1>0, <1>2 DEF To
    <3>2. outcome'[p] = "waiting" /\ Here(p)'
      BY <2>0, <2>1, <1>0, <1>1
    <3> QED BY <3>1, <3>2, <2>0, <2>1, <1>0, <1>1, <1>2, SentRequest
  <2>2. CASE q # p
    <3>1. To(q)' \subseteq To(q)
      BY <1>0, <1>2, <2>2 DEF To
    <3>2. outcome'[q] = outcome[q]
      BY <1>0, <1>1, <2>2
    <3> QED BY <3>1, <3>2, <2>0, <1>0, <1>1, SameView
  <2> QED BY <2>1, <2>2
<1> QED BY <1>3, <1>4 DEF LogInv

\* The leader's answer to one request: it appends what comes next, and knows
\* again what it took last.
LEMMA HandleLog ==
    ASSUME IInv, LogInv, Fits, NEW r \in wire, Handle(r),
           UNCHANGED <<pending, hand, op, at, txnState, given, direct, spoiled, sequences, stamp>>,
           outcome' \in [Partitions -> Outcomes],
           \A q \in Partitions : outcome'[q] # outcome[q] =>
               /\ outcome[q] = "waiting" /\ q = r.to /\ r.seq = stamp[q] /\ r.records = hand[q]
               /\ outcome'[q] = "ok" => Verdict(r) \in {"append", "duplicate"}
    PROVE  LogInv'
<1>0. FormInv /\ IsRequest(r) /\ given \in Nat
  BY HeldIsGiven DEF LogInv, FormInv
<1>1. PICK m \in Nat : m = Len(r.records) /\ r.seq \in Nat /\ r.seq + m <= given /\ r.to \in Partitions
  BY <1>0 DEF IsRequest
<1>2. Stamped(r) /\ LastBatch(r) = [base |-> r.seq, next |-> r.seq + m]
  <2>1. r.seq + m \in Nat /\ r.seq >= 0
    BY <1>1
  <2>2. Wrapped(r.seq + m) = r.seq + m
    BY <2>1, <1>1, NoWrap
  <2> QED BY <2>1, <2>2, <1>1 DEF Stamped, LastBatch
<1>3. wire' = wire \ {r}
  BY DEF Handle
<1>4. ASSUME Verdict(r) = "append"
      PROVE  /\ log' = [log EXCEPT ![r.to] = @ \o Appended(r)]
             /\ last' = [last EXCEPT ![r.to] = [base |-> r.seq, next |-> r.seq + m]]
             /\ last[r.to] = NoBatch \/ (r.seq = last[r.to].next /\ r.seq # last[r.to].base)
  <2>1. /\ log' = [log EXCEPT ![r.to] = @ \o Appended(r)]
        /\ last' = [last EXCEPT ![r.to] = LastBatch(r)]
    BY <1>2, <1>4 DEF Handle
  <2>2. ~superseded
    BY <1>4 DEF Verdict
  <2>3. ASSUME Known(r) PROVE r.seq = last[r.to].next /\ r.seq # last[r.to].base
    BY <1>4, <2>2, <2>3 DEF Verdict
  <2> QED BY <1>2, <2>1, <2>3 DEF Known
<1>5. Verdict(r) # "append" => UNCHANGED <<log, last>>
  BY DEF Handle
<1>6. FormInv'
  <2>1. log' \in [Partitions -> Seq(Entries)] /\ last' \in [Partitions -> [base : Int, next : Nat]]
    <3>1. CASE Verdict(r) # "append"
      BY <3>1, <1>0, <1>5 DEF FormInv
    <3>2. CASE Verdict(r) = "append"
      <4>1. Appended(r) \in Seq(Entries)
        BY <1>0, AppendedIsLogged
      <4>2. log[r.to] \o Appended(r) \in Seq(Entries)
        BY <4>1, <1>0, <1>1 DEF FormInv
      <4>3. [base |-> r.seq, next |-> r.seq + m] \in [base : Int, next : Nat]
        BY <1>1
      <4>4. /\ log \in [Partitions -> Seq(Entries)]
            /\ last \in [Partitions -> [base : Int, next : Nat]]
        BY <1>0 DEF FormInv
      <4>5. log' \in [Partitions -> Seq(Entries)]
        BY <3>2, <4>2, <4>4, <1>4
      <4>6. last' \in [Partitions -> [base : Int, next : Nat]]
        <5>1. PICK b \in [base : Int, next : Nat] : b = [base |-> r.seq, next |-> r.seq + m]
          BY <4>3
        <5>2. last' = [last EXCEPT ![r.to] = b]
          BY <3>2, <5>1, <1>4
        <5> QED BY <5>2, <4>4
      <4> QED BY <4>5, <4>6
    <3> QED BY <3>1, <3>2
  <2> QED BY <1>0, <1>3, <2>1 DEF FormInv, IsRequest, Filled
<1>7. ASSUME NEW p \in Partitions PROVE Sound(p)'
  <2>0. Sound(p)
    BY DEF LogInv
  <2>1. Here(p)' <=> Here(p)
    BY DEF Here
  <2>2. outcome[p] # "none" => Here(p)
    BY <2>0 DEF Sound, Numbered
  <2>3. outcome'[p] # "none" => Here(p)
    BY <2>2
  <2>4. To(p)' \subseteq To(p)
    BY <1>3 DEF To
  <2>5. given' \in Nat /\ given <= given' /\ log[p] \in Seq(Entries)
    BY <1>0 DEF FormInv
  <2>6. CASE p = r.to /\ Verdict(r) = "append"
    <3>1. r \in To(p) /\ log'[p] = log[p] \o Appended(r)
      BY <2>6, <1>0, <1>4 DEF To, FormInv
    <3>2. last'[p] = [base |-> r.seq, next |-> r.seq + Len(r.records)]
      BY <2>6, <1>0, <1>1, <1>4 DEF FormInv
    <3>3. last[p] = NoBatch \/ (r.seq = last[p].next /\ r.seq # last[p].base)
      BY <2>6, <1>4
    <3>4. outcome'[p] = "ok" => outcome[p] = "ok" \/ (r.seq = stamp[p] /\ r.records = hand[p])
      OBVIOUS
    <3> QED BY <3>1, <3>2, <3>3, <3>4, <2>0, <2>1, <2>3, <2>4, <1>0, AppendedBatch
  <2>7. CASE ~(p = r.to /\ Verdict(r) = "append")
    <3>1. log'[p] = log[p] /\ last'[p] = last[p]
      BY <2>7, <1>0, <1>1, <1>4, <1>5 DEF FormInv
    <3>2. outcome'[p] = "ok" => outcome[p] = "ok" \/ (p \notin spoiled => Landed(p))
      <4> SUFFICES ASSUME outcome'[p] = "ok", outcome[p] # "ok", p \notin spoiled
                   PROVE  Landed(p)
        OBVIOUS
      <4>1. /\ outcome[p] = "waiting" /\ p = r.to /\ r.seq = stamp[p]
            /\ Verdict(r) \in {"append", "duplicate"}
        OBVIOUS
      <4>2. Verdict(r) = "duplicate"
        BY <4>1, <2>7
      <4>3. r.seq = last[p].base
        BY <4>1, <4>2 DEF Verdict
      <4>4. Here(p) /\ last[p].base < last[p].next /\ Healthy(p)
        BY <4>1, <2>0, <2>2 DEF Sound, Numbered
      <4>5. ~Ahead(p)
        BY <4>1, <4>3, <4>4, <1>1 DEF Ahead
      <4> QED BY <4>4, <4>5 DEF Healthy
    <3> QED BY <3>1, <3>2, <2>0, <2>1, <2>3, <2>4, <2>5, <1>0, SameView
  <2> QED BY <2>6, <2>7
<1> QED BY <1>6, <1>7 DEF LogInv

LEMMA ArriveLog ==
    ASSUME IInv, LogInv, Fits, NEW r \in wire, Arrive(r)
    PROVE  LogInv'
<1>1. /\ Handle(r)
      /\ UNCHANGED <<pending, hand, op, at, txnState, given, direct, spoiled, sequences, stamp, outcome>>
  BY DEF Arrive, bufferVars, txnVars, callVars, historyVars
<1>2. outcome' \in [Partitions -> Outcomes]
  BY <1>1 DEF LogInv, FormInv
<1> QED BY <1>1, <1>2, HandleLog

LEMMA AnswerLog ==
    ASSUME IInv, LogInv, Fits, NEW p \in Partitions, Answer(p)
    PROVE  LogInv'
<1>1. /\ Handle(Request(p)) /\ Request(p) \in wire /\ outcome[p] = "waiting"
      /\ UNCHANGED <<pending, hand, op, at, txnState, given, direct, spoiled, sequences, stamp>>
  BY DEF Answer, bufferVars, txnVars, historyVars
<1>2. PICK r \in wire : r = Request(p)
  BY <1>1
<1>3. Here(p) /\ outcome \in [Partitions -> Outcomes]
  BY <1>1 DEF LogInv, FormInv, Sound, Numbered
<1>4. r.to = p /\ r.seq = stamp[p] /\ r.records = hand[p]
  BY <1>2, <1>3, RequestFacts
<1>5. outcome' = [outcome EXCEPT ![p] = IF Verdict(r) \in {"append", "duplicate"} THEN "ok"
                                        ELSE Verdict(r)]
  BY <1>2 DEF Answer
<1>6. Verdict(r) \in {"fenced", "duplicate", "refused", "append"}
  BY DEF Verdict
<1>7. PICK o \in Outcomes : /\ outcome' = [outcome EXCEPT ![p] = o]
                            /\ o = "ok" => Verdict(r) \in {"append", "duplicate"}
  BY <1>5, <1>6 DEF Outcomes
<1>8. outcome' \in [Partitions -> Outcomes]
  BY <1>3, <1>7
<1>9. ASSUME NEW q \in Partitions, outcome'[q] # outcome[q]
      PROVE  /\ outcome[q] = "waiting" /\ q = r.to /\ r.seq = stamp[q] /\ r.records = hand[q]
             /\ outcome'[q] = "ok" => Verdict(r) \in {"append", "duplicate"}
  BY <1>1, <1>3, <1>4, <1>7, <1>9
<1> QED BY <1>1, <1>2, <1>8, <1>9, HandleLog

\* The end of a delivery: what was acknowledged is done with, the rest goes
\* back with its number.
LEMMA FinishLog ==
    ASSUME IInv, LogInv, Finish
    PROVE  LogInv'
<1>0. /\ at = "deliver" /\ at' # "deliver" /\ op' # "produce"
      /\ hand' = Nothing /\ stamp' = Zeros /\ outcome' = Unsent
      /\ UNCHANGED <<wire, log, last, given, direct>>
      /\ sequences' = NumbersAfter /\ pending' = Restored(Part(Lost)) /\ spoiled' = spoiled \cup Lost
  <2>1. Release("commit", "end") \/ Return
    BY DEF Finish
  <2> QED BY <2>1 DEF Finish, Release, Return, brokerVars
<1>1. FormInv /\ hand \in Seqs /\ pending \in Seqs /\ given \in Nat /\ Lost \subseteq Partitions
  BY HeldIsGiven DEF LogInv, IInv, Shapes, Lost, Keys, Filled
<1>2. txnState' # "Uninitialized"
  <2>1. txnState \in {"Disabled", "Open"}
    BY <1>0 DEF IInv, BooksInv, CallInv, Producible
  <2>2. txnState' = txnState \/ \E e : txnState' = AfterFailure(txnState, e)
    BY DEF Finish, Poison
  <2> QED BY <2>1, <2>2, AfterFailureFacts
<1>3. FormInv'
  <2>1. sequences' \in [Partitions -> Nat]
    BY <1>0, <1>1 DEF NumbersAfter, FormInv
  <2> QED BY <1>0, <1>1, <1>2, <2>1, IdleFacts DEF FormInv, IsRequest
<1>4. ASSUME NEW p \in Partitions PROVE Sound(p)'
  <2>0. /\ Sound(p) /\ ~Here(p)' /\ To(p)' = To(p) /\ outcome'[p] = "none" /\ hand'[p] = <<>>
        /\ log[p] \in Seq(Entries) /\ (Here(p) <=> hand[p] # <<>>)
    BY <1>0, <1>1, IdleFacts DEF LogInv, Here, To, FormInv
  <2>1. /\ pending[p] \in Seq(Nat) /\ hand[p] \in Seq(Nat)
        /\ p \in Keys <=> hand[p] # <<>>
    BY <1>1 DEF Seqs, Keys, Filled
  <2>2. /\ p \in Lost => pending'[p] = hand[p] \o pending[p] \/ op = "produce"
        /\ p \notin Lost => pending'[p] = pending[p]
        /\ op = "produce" => pending' = pending
    <3>1. /\ p \in Lost => Part(Lost)[p] = hand[p]
          /\ p \notin Lost => Part(Lost)[p] = <<>>
      BY <1>1, PartFacts
    <3>2. <<>> \o pending[p] = pending[p]
      BY <2>1
    <3>3. op # "produce" => pending'[p] = Part(Lost)[p] \o pending[p]
      BY <1>0 DEF Restored
    <3>4. op = "produce" => pending' = pending
      BY <1>0 DEF Restored
    <3> QED BY <3>1, <3>2, <3>3, <3>4
  <2>3. CASE p \in Lost
    <3>1. hand[p] # <<>> /\ Here(p) /\ sequences'[p] = stamp[p] /\ p \in spoiled'
      BY <2>3, <2>0, <1>0 DEF Lost, Keys, Filled, NumbersAfter
    <3>2. op = "produce" => p \in direct
      BY <2>1, <3>1, <1>1 DEF FormInv, Keys
    <3> QED BY <3>1, <3>2, <2>0, <2>2, <2>3, <1>0, <1>1, FailedBatch
  <2>4. CASE p \notin Lost /\ hand[p] # <<>>
    <3>1. outcome[p] = "ok" /\ Here(p) /\ sequences'[p] = sequences[p] /\ spoiled \subseteq spoiled'
      BY <2>4, <2>0, <2>1, <1>0 DEF Lost, NumbersAfter
    <3> QED BY <3>1, <2>0, <2>2, <2>4, <1>0, <1>1, FinishedBatch
  <2>5. CASE hand[p] = <<>>
    <3>1. p \notin Lost
      BY <2>5, <2>1 DEF Lost
    <3>2. ~Here(p) /\ sequences'[p] = sequences[p] /\ spoiled \subseteq spoiled'
      BY <2>5, <2>0, <3>1, <1>0 DEF NumbersAfter
    <3>3. given' \in Nat /\ given <= given'
      BY <1>0, <1>1
    <3> QED BY <3>1, <3>2, <3>3, <2>0, <2>2, <2>5, <1>0, <1>1, SameView
  <2> QED BY <2>3, <2>4, <2>5
<1> QED BY <1>3, <1>4 DEF LogInv

LEMMA InitLog == Init => LogInv
<1> SUFFICES ASSUME Init PROVE LogInv
  OBVIOUS
<1>1. FormInv
  <2>1. <<>> \in Seq(Entries)
    OBVIOUS
  <2>2. log \in [Partitions -> Seq(Entries)]
    BY <2>1 DEF Init, Nothing
  <2>3. last \in [Partitions -> [base : Int, next : Nat]]
    BY DEF Init, NoBatch
  <2> QED BY <2>2, <2>3, IdleFacts DEF Init, FormInv
<1>2. ASSUME NEW p \in Partitions PROVE Sound(p)
  <2>1. /\ pending[p] = <<>> /\ hand[p] = <<>> /\ log[p] = <<>> /\ wire = {} /\ sequences[p] = 0
        /\ outcome[p] = "none" /\ last[p] = NoBatch /\ given = 0
    BY DEF Init, Nothing, Zeros, Unsent
  <2>2. ~Here(p) /\ To(p) = {} /\ Recs(p) = {} /\ Live(p) = {}
    BY <2>1, EmptySequence DEF Here, To, Recs, Live
  <2>3. last[p].base = -1 /\ last[p].next = 0
    BY <2>1 DEF NoBatch
  <2>4. Numbered(p)
    <3>1. sequences[p] + Len(pending[p]) + Len(hand[p]) <= given
      BY <2>1, EmptySequence
    <3> QED BY <2>1, <2>2, <2>3, <3>1, EmptySequence DEF Numbered
  <2>5. Healthy(p)
    BY <2>1, <2>2, <2>3 DEF Healthy
  <2>6. Ordered(p)
    BY <2>1, <2>2, EmptySequence DEF Ordered, Below
  <2> QED BY <2>4, <2>5, <2>6 DEF Sound
<1> QED BY <1>1, <1>2 DEF LogInv

LEMMA StutterLog ==
    ASSUME IInv, LogInv, UNCHANGED vars
    PROVE  LogInv'
<1>1. /\ UNCHANGED <<pending, hand, sequences, wire, last, given, direct, spoiled, log, at, stamp,
                     outcome, op, txnState>>
  BY DEF vars, bufferVars, txnVars, callVars, brokerVars, historyVars
<1>2. /\ log \in [Partitions -> Seq(Entries)] /\ stamp \in [Partitions -> Nat]
      /\ outcome \in [Partitions -> Outcomes]
  BY DEF LogInv, FormInv
<1> QED BY <1>1, <1>2, QuietStep

LEMMA NextLog ==
    ASSUME Fits, IInv, LogInv, [Next]_vars
    PROVE  LogInv'
<1>0. IInv'
  BY NextBooks
<1>1. CASE Caller
  <2>1. CASE InitTransactions \/ BeginTransaction \/ SendOffsets
    BY <2>1, BookkeepingLog
  <2>2. CASE Flush \/ CommitTransaction \/ AbortTransaction
    BY <2>2, <1>0, DrainLog
  <2>3. CASE \E p \in Partitions : Enqueue(p) \/ EnqueueFull(p) \/ Produce(p)
    BY <2>3, <1>0, HandOverLog
  <2> QED BY <1>1, <2>1, <2>2, <2>3 DEF Caller
<1>2. CASE CallStep
  <2>1. CASE ClaimOk \/ OffsetsOk \/ OffsetsFail \/ EndFails
    BY <2>1, BookkeepingLog
  <2>2. CASE EndOk
    BY <2>2, EndLog
  <2>3. CASE ClaimFails \/ StampFails
    BY <2>3, <1>0, RestoreLog
  <2>4. CASE Stamp
    BY <2>4, StampLog
  <2>5. CASE Finish
    BY <2>5, FinishLog
  <2>6. CASE \E p \in Partitions : TryOnce(p) \/ AttemptFails(p) \/ Answer(p)
    BY <2>6, TryOnceLog, AttemptLog, AnswerLog
  <2> QED BY <1>2, <2>1, <2>2, <2>3, <2>4, <2>5, <2>6 DEF CallStep
<1>3. CASE Network
  <2>1. CASE Successor \/ ClaimUnheard
    BY <2>1, BookkeepingLog
  <2>2. CASE EndUnheard
    BY <2>2, EndLog
  <2>3. CASE \E r \in wire : Arrive(r)
    BY <2>3, ArriveLog
  <2> QED BY <1>3, <2>1, <2>2, <2>3 DEF Network
<1>4. CASE UNCHANGED vars
  BY <1>4, StutterLog
<1> QED BY <1>1, <1>2, <1>3, <1>4 DEF Next

-----------------------------------------------------------------------------
(* The theorems about the logs.                                            *)

LEMMA LogSteps == Fits /\ IInv /\ LogInv /\ [Next]_vars => IInv' /\ LogInv'
  BY NextBooks, NextLog

\* No record of a partition is written twice and buffered ones are written in
\* the order they were enqueued, whatever acknowledgement is lost, however late
\* a request arrives and however often a failed batch is restored and sent
\* again: stamp, retry_loop and restore together with the leader's check of
\* sequence numbers, while those do not wrap.
THEOREM WrittenOnce == ASSUME Fits PROVE Spec => []OnceInOrder
<1>1. ASSUME IInv, LogInv PROVE OnceInOrder
  <2> SUFFICES ASSUME NEW p \in Partitions, p \notin direct \cap spoiled,
                      NEW i \in DOMAIN log[p], NEW j \in DOMAIN log[p], i < j
               PROVE  /\ log[p][i].rec # log[p][j].rec
                      /\ p \notin direct => log[p][i].rec < log[p][j].rec
    BY DEF OnceInOrder
  <2>0. log[p] \in Seq(Entries) /\ Sound(p)
    BY <1>1 DEF LogInv, FormInv
  <2>1. log[p][i].rec \in Nat /\ log[p][j].rec \in Nat /\ i \in Nat /\ j \in Nat
    <3>1. i \in 1 .. Len(log[p]) /\ j \in 1 .. Len(log[p])
      BY <2>0
    <3>2. log[p][i] \in Entries /\ log[p][j] \in Entries
      BY <2>0, <3>1
    <3> QED BY <3>1, <3>2 DEF Entries
  <2>2. CASE p \notin direct
    BY <2>0, <2>1, <2>2 DEF Sound, Ordered
  <2>3. CASE p \in direct
    BY <2>0, <2>1, <2>3 DEF Sound, Healthy
  <2> QED BY <2>2, <2>3
<1>2. IInv /\ LogInv /\ [Next]_vars => IInv' /\ LogInv'
  BY LogSteps
<1> QED BY <1>1, <1>2, InitBooks, InitLog, PTL DEF Spec

\* While no delivery to a partition has failed, the next number the producer
\* will stamp is the one the leader expects, and an acknowledged batch is in
\* the log: next_stamp counts what the leader counts, whatever was retried.
THEOREM HealthyExact == ASSUME Fits PROVE Spec => []HealthyIsExact
<1>1. ASSUME IInv, LogInv PROVE HealthyIsExact
  <2> SUFFICES ASSUME NEW p \in Partitions, p \notin spoiled, op = "none" \/ outcome[p] = "ok"
               PROVE  /\ sequences[p] = last[p].next
                      /\ outcome[p] = "ok" =>
                            Range(hand[p]) \subseteq {e.rec : e \in Range(log[p])}
    BY DEF HealthyIsExact
  <2>0. Healthy(p)
    BY <1>1 DEF LogInv, Sound
  <2>1. CASE outcome[p] = "ok"
    <3>1. last[p].next = sequences[p] /\ Range(hand[p]) \subseteq Recs(p)
      BY <2>0, <2>1 DEF Healthy, Landed
    <3>2. Recs(p) \subseteq {e.rec : e \in Range(log[p])}
      BY DEF Recs, Range
    <3> QED BY <3>1, <3>2
  <2>2. CASE outcome[p] # "ok"
    <3>1. ~Here(p)
      BY <1>1, <2>2, HoldsNothing DEF Here
    <3> QED BY <2>0, <2>2, <3>1 DEF Healthy
  <2> QED BY <2>1, <2>2
<1>2. IInv /\ LogInv /\ [Next]_vars => IInv' /\ LogInv'
  BY LogSteps
<1> QED BY <1>1, <1>2, InitBooks, InitLog, PTL DEF Spec

-----------------------------------------------------------------------------
(* What the coordinator was told.                                          *)

\* What claim_partitions remembers is known to the coordinator as long as the
\* transaction is open, nothing is numbered or sent that it does not remember,
\* and no transaction begins with the memory of another.
ClaimInv ==
    /\ outcome \in [Partitions -> Outcomes]
    /\ \A p \in Partitions : outcome[p] # "none" => at = "deliver" /\ p \in Keys
    /\ ~superseded /\ txnState = "Open" /\ at # "end" => txnPartitions \subseteq claimed
    /\ Transactional /\ at \in {"stamp", "deliver"} => Keys \subseteq txnPartitions
    /\ txnState \in {"Uninitialized", "Ready"} => txnPartitions = {}

LEMMA InitClaim == Init => ClaimInv
  BY IdleFacts DEF Init, ClaimInv

\* The start of a call, before anything is sent.
LEMMA DeliverClaim ==
    ASSUME ClaimInv, at # "deliver", at # "end", NEW b, NEW c, Deliver(c, b),
           UNCHANGED <<txnState, txnPartitions, claimed, superseded>>
    PROVE  ClaimInv'
<1>1. outcome' = outcome /\ hand' = b /\ at' \in {"claim", "stamp"}
  BY DEF Deliver
<1>2. \A p \in Partitions : outcome[p] = "none"
  BY DEF ClaimInv
<1>3. Transactional /\ at' = "stamp" => Filled(b) \subseteq txnPartitions
  BY DEF Deliver, Fresh
<1>4. Keys' = Filled(b)
  BY <1>1 DEF Keys, Filled
<1>5. Transactional' <=> Transactional
  BY DEF Transactional
<1> QED BY <1>1, <1>2, <1>3, <1>4, <1>5 DEF ClaimInv

LEMMA NextClaim ==
    ASSUME IInv, ClaimInv, [Next]_vars
    PROVE  ClaimInv'
<1>0. /\ outcome \in [Partitions -> Outcomes]
      /\ \A p \in Partitions : outcome[p] # "none" => at = "deliver" /\ p \in Keys
      /\ ~superseded /\ txnState = "Open" /\ at # "end" => txnPartitions \subseteq claimed
      /\ Transactional /\ at \in {"stamp", "deliver"} => Keys \subseteq txnPartitions
      /\ txnState \in {"Uninitialized", "Ready"} => txnPartitions = {}
  BY DEF ClaimInv
<1>b. op = "none" => at = "none" /\ \A p \in Partitions : outcome[p] = "none"
  BY <1>0 DEF IInv, BooksInv, CallInv
<1>1. CASE Caller
  <2>1. CASE InitTransactions
    BY <2>1, <1>0, <1>b DEF InitTransactions, ClaimInv, callVars, Keys, Filled
  <2>2. CASE BeginTransaction
    BY <2>2, <1>0, <1>b DEF BeginTransaction, ClaimInv, callVars, brokerVars, Keys, Filled
  <2>3. CASE CommitTransaction
    <3>1. op = "none" /\ UNCHANGED <<txnState, txnPartitions, claimed, superseded>>
          /\ txnState = "Open" /\ (Release("commit", "end") \/ Deliver("commit", pending))
      BY <2>3 DEF CommitTransaction, txnVars, brokerVars
    <3>2. CASE Deliver("commit", pending)
      BY <3>1, <3>2, <1>b, DeliverClaim
    <3>3. CASE Release("commit", "end")
      BY <3>1, <3>3, <1>0, IdleFacts DEF Release, ClaimInv
    <3> QED BY <3>1, <3>2, <3>3
  <2>4. CASE AbortTransaction
    BY <2>4, <1>0, <1>b DEF AbortTransaction, ClaimInv, txnVars
  <2>5. CASE SendOffsets
    BY <2>5, <1>0, <1>b DEF SendOffsets, ClaimInv, txnVars, brokerVars
  <2>6. CASE Flush
    BY <2>6, <1>b, DeliverClaim DEF Flush, txnVars, brokerVars
  <2>7. CASE \E p \in Partitions : Enqueue(p)
    BY <2>7, <1>0, <1>b DEF Enqueue, HandOver, ClaimInv, txnVars, brokerVars, callVars
  <2>8. CASE \E p \in Partitions : EnqueueFull(p)
    BY <2>8, <1>b, DeliverClaim DEF EnqueueFull, HandOver, txnVars, brokerVars
  <2>9. CASE \E p \in Partitions : Produce(p)
    BY <2>9, <1>b, DeliverClaim DEF Produce, HandOver, txnVars, brokerVars
  <2> QED BY <1>1, <2>1, <2>2, <2>3, <2>4, <2>5, <2>6, <2>7, <2>8, <2>9 DEF Caller
<1>r. ASSUME Return, UNCHANGED <<claimed, superseded, txnPartitions>>, at # "end" \/ txnState' # "Open",
             txnState' = "Open" => txnState = "Open",
             txnState' \notin {"Uninitialized", "Ready"}
      PROVE  ClaimInv'
  BY <1>0, <1>r, IdleFacts DEF Return, Release, ClaimInv
<1>f. \A e : /\ AfterFailure("Disabled", e) = "Disabled"
             /\ AfterFailure("Open", e) \in {"Abortable", "Fenced"}
             /\ AfterFailure("Abortable", e) \in {"Abortable", "Fenced"}
  BY AfterFailureFacts
<1>c. /\ at \in {"claim", "stamp", "deliver", "offsets"} => txnState \in {"Disabled", "Open"}
      /\ at = "end" => txnState \in {"Open", "Abortable"}
  BY DEF IInv, BooksInv, CallInv, Producible
<1>2. CASE CallStep
  <2>1. CASE ClaimOk
    <3>1. /\ UNCHANGED <<outcome, hand, superseded, txnState>> /\ at = "claim" /\ at' = "stamp"
          /\ claimed' = claimed \cup (Keys \ txnPartitions)
          /\ txnPartitions' = txnPartitions \cup (Keys \ txnPartitions)
      BY <2>1 DEF ClaimOk, Await, Fresh
    <3>2. Keys' = Keys
      BY <3>1 DEF Keys, Filled
    <3> QED BY <3>1, <3>2, <1>0, <1>c DEF ClaimInv
  <2>2. CASE ClaimFails
    BY <2>2, <1>r, <1>c, <1>f DEF ClaimFails, Poison, brokerVars
  <2>3. CASE OffsetsOk
    BY <2>3, <1>r, <1>c DEF OffsetsOk, txnVars, brokerVars
  <2>4. CASE OffsetsFail \/ EndFails
    BY <2>4, <1>r, <1>c, <1>f DEF OffsetsFail, EndFails, Poison, brokerVars
  <2>5. CASE EndOk
    BY <2>5, IdleFacts DEF EndOk, Return, Release, ClaimInv
  <2>6. CASE Stamp
    <3>1. /\ UNCHANGED <<hand, superseded, txnState, claimed, txnPartitions>> /\ at = "stamp" /\ at' = "deliver"
          /\ outcome' = [p \in Partitions |-> IF p \in Keys THEN "trying" ELSE "none"]
      BY <2>6 DEF Stamp, txnVars, brokerVars
    <3>2. Keys' = Keys /\ (Transactional' <=> Transactional)
      BY <3>1 DEF Keys, Filled, Transactional
    <3>3. outcome' \in [Partitions -> Outcomes]
      BY <3>1 DEF Outcomes
    <3>4. \A p \in Partitions : outcome'[p] # "none" => p \in Keys
      BY <3>1
    <3> QED BY <3>1, <3>2, <3>3, <3>4, <1>0 DEF ClaimInv
  <2>7. CASE StampFails
    BY <2>7, <1>r, <1>c, <1>f DEF StampFails, txnVars, brokerVars
  <2>8. CASE Finish
    <3>1. /\ UNCHANGED <<claimed, superseded, txnPartitions>> /\ at = "deliver"
          /\ txnState' = txnState \/ \E e : txnState' = AfterFailure(txnState, e)
          /\ Return \/ Release("commit", "end")
      BY <2>8 DEF Finish, Poison, brokerVars
    <3>2. /\ txnState' = "Open" => txnState = "Open"
          /\ txnState' \notin {"Uninitialized", "Ready"}
      BY <3>1, <1>c, <1>f
    <3>3. CASE Return
      BY <3>1, <3>2, <3>3, <1>r
    <3>4. CASE Release("commit", "end")
      BY <3>2, <3>4, IdleFacts DEF Release, ClaimInv
    <3> QED BY <3>1, <3>3, <3>4
  <2>9. CASE \E p \in Partitions : TryOnce(p) \/ AttemptFails(p) \/ Answer(p)
    <3>1. PICK p \in Partitions : TryOnce(p) \/ AttemptFails(p) \/ Answer(p)
      BY <2>9
    <3>2. /\ UNCHANGED <<hand, at, superseded, txnState, claimed, txnPartitions>>
          /\ outcome[p] # "none"
      BY <3>1 DEF TryOnce, AttemptFails, Answer, Handle, txnVars, brokerVars
    <3>3. PICK o \in Outcomes : outcome' = [outcome EXCEPT ![p] = o]
      <4>1. Verdict(Request(p)) \in Outcomes \cup {"append", "duplicate"}
        BY DEF Verdict, Outcomes
      <4> QED BY <3>1, <4>1 DEF TryOnce, AttemptFails, Answer, Outcomes
    <3>4. Keys' = Keys /\ (Transactional' <=> Transactional)
      BY <3>2 DEF Keys, Filled, Transactional
    <3>5. /\ outcome' \in [Partitions -> Outcomes]
          /\ \A q \in Partitions : outcome'[q] # "none" => outcome[q] # "none"
      BY <3>2, <3>3, <1>0
    <3> QED BY <3>2, <3>4, <3>5, <1>0 DEF ClaimInv
  <2> QED BY <1>2, <2>1, <2>2, <2>3, <2>4, <2>5, <2>6, <2>7, <2>8, <2>9 DEF CallStep
<1>3. CASE Network
  <2>1. CASE Successor
    BY <2>1, <1>0 DEF Successor, ClaimInv, callVars, txnVars, Keys, Filled, Transactional
  <2>2. CASE ClaimUnheard
    BY <2>2, <1>0 DEF ClaimUnheard, ClaimInv, callVars, txnVars, Keys, Filled, Transactional
  <2>3. CASE EndUnheard
    BY <2>3, <1>0 DEF EndUnheard, ClaimInv, callVars, txnVars, Keys, Filled, Transactional
  <2>4. CASE \E r \in wire : Arrive(r)
    BY <2>4, <1>0 DEF Arrive, Handle, ClaimInv, callVars, txnVars, Keys, Filled, Transactional
  <2> QED BY <1>3, <2>1, <2>2, <2>3, <2>4 DEF Network
<1>4. CASE UNCHANGED vars
  BY <1>4, <1>0 DEF vars, ClaimInv, callVars, txnVars, brokerVars, Keys, Filled, Transactional
<1> QED BY <1>1, <1>2, <1>3, <1>4 DEF Next

\* A transactional produce is on its way only to partitions the coordinator was
\* told of in this transaction: what claim_partitions skips as announced was
\* announced to it, whatever answer was lost and however earlier transactions
\* ended.
THEOREM WritesClaimed == Spec => []WritesAreClaimed
<1>1. ASSUME IInv, ClaimInv PROVE WritesAreClaimed
  <2> SUFFICES ASSUME NEW p \in Partitions, Transactional,
                      outcome[p] \in {"trying", "waiting"}, ~superseded
               PROVE  p \in claimed
    BY DEF WritesAreClaimed
  <2>1. at = "deliver" /\ p \in Keys /\ Keys \subseteq txnPartitions
    BY <1>1 DEF ClaimInv
  <2>2. txnState = "Open"
    BY <1>1, <2>1 DEF IInv, BooksInv, CallInv, Producible, Transactional
  <2>3. txnPartitions \subseteq claimed
    BY <1>1, <2>1, <2>2 DEF ClaimInv
  <2> QED BY <2>1, <2>3
<1>2. IInv /\ ClaimInv /\ [Next]_vars => IInv' /\ ClaimInv'
  BY NextBooks, NextClaim
<1> QED BY <1>1, <1>2, InitBooks, InitClaim, PTL DEF Spec
=============================================================================
