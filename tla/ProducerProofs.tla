--------------------------- MODULE ProducerProofs ---------------------------
(***************************************************************************)
(* Proofs about Producer: whatever fails, every record that was handed     *)
(* over is accounted for, and lost only by a flush that got no producer    *)
(* id; a commit is asked for only when everything the transaction was      *)
(* given has been delivered.  For any partitions, any plan of the caller   *)
(* and any number of attempts.                                             *)
(***************************************************************************)
EXTENDS Producer, TLAPS

\* The shapes the invariant is stated over.
Shapes ==
    /\ pending \in Seqs /\ hand \in Seqs
    /\ plan \in Plans /\ given \in 0 .. Len(plan)
IInv == Shapes /\ BooksInv

-----------------------------------------------------------------------------
(* What batches hold.                                                      *)

\* The records of an empty, an extended and a joined buffer.
LEMMA RangeFacts ==
    /\ Range(<<>>) = {}
    /\ \A s \in Seq(Nat), n \in Nat : Range(Append(s, n)) = Range(s) \cup {n}
    /\ \A s, t \in Seq(Nat) : Range(s \o t) = Range(s) \cup Range(t)
    /\ \A s \in Seq(Nat) : Range(s) \subseteq Nat
<1>1. Range(<<>>) = {}
  BY DEF Range
<1>2. ASSUME NEW s \in Seq(Nat), NEW n \in Nat
      PROVE  Range(Append(s, n)) = Range(s) \cup {n}
  <2>1. /\ DOMAIN Append(s, n) = 1 .. Len(s) + 1
        /\ \A i \in 1 .. Len(s) : Append(s, n)[i] = s[i]
        /\ Append(s, n)[Len(s) + 1] = n
        /\ DOMAIN s = 1 .. Len(s) /\ Len(s) \in Nat
    OBVIOUS
  <2> QED BY <2>1 DEF Range
<1>3. ASSUME NEW s \in Seq(Nat), NEW t \in Seq(Nat)
      PROVE  Range(s \o t) = Range(s) \cup Range(t)
  <2>1. /\ DOMAIN (s \o t) = 1 .. Len(s) + Len(t)
        /\ \A i \in 1 .. Len(s) : (s \o t)[i] = s[i]
        /\ \A i \in 1 .. Len(t) : (s \o t)[Len(s) + i] = t[i]
        /\ DOMAIN s = 1 .. Len(s) /\ Len(s) \in Nat
        /\ DOMAIN t = 1 .. Len(t) /\ Len(t) \in Nat
    OBVIOUS
  <2>2. \A i \in 1 .. Len(s) + Len(t) :
            i \in 1 .. Len(s) \/ (i - Len(s) \in 1 .. Len(t) /\ i = Len(s) + (i - Len(s)))
    BY <2>1
  <2>3. Range(s \o t) \subseteq Range(s) \cup Range(t)
    <3> SUFFICES ASSUME NEW x \in Range(s \o t)
                 PROVE  x \in Range(s) \cup Range(t)
      OBVIOUS
    <3>1. PICK i \in 1 .. Len(s) + Len(t) : x = (s \o t)[i]
      BY <2>1 DEF Range
    <3>2. CASE i \in 1 .. Len(s)
      BY <2>1, <3>1, <3>2 DEF Range
    <3>3. CASE i - Len(s) \in 1 .. Len(t) /\ i = Len(s) + (i - Len(s))
      <4>1. (s \o t)[Len(s) + (i - Len(s))] = t[i - Len(s)]
        BY <2>1, <3>3
      <4>2. x = t[i - Len(s)] /\ i - Len(s) \in DOMAIN t
        BY <2>1, <3>1, <3>3, <4>1
      <4> QED BY <4>2, Zenon DEF Range
    <3> QED BY <2>2, <3>1, <3>2, <3>3
  <2>4. Range(s) \subseteq Range(s \o t)
    BY <2>1 DEF Range
  <2>5. Range(t) \subseteq Range(s \o t)
    <3> SUFFICES ASSUME NEW x \in Range(t) PROVE x \in Range(s \o t)
      OBVIOUS
    <3>1. PICK i \in 1 .. Len(t) : x = t[i]
      BY <2>1 DEF Range
    <3>2. Len(s) + i \in DOMAIN (s \o t) /\ (s \o t)[Len(s) + i] = x
      BY <2>1, <3>1
    <3> QED BY <3>2, Zenon DEF Range
  <2> QED BY <2>3, <2>4, <2>5
<1>4. ASSUME NEW s \in Seq(Nat) PROVE Range(s) \subseteq Nat
  BY DEF Range
<1> QED BY <1>1, <1>2, <1>3, <1>4

\* What is in nobody's hand, in one partition's, and in two sets of batches.
LEMMA NothingFacts == Nothing \in Seqs /\ Records(Nothing) = {}
  BY RangeFacts DEF Nothing, Seqs, Records

\* A call with one batch holds that batch.
LEMMA OneBatch ==
    ASSUME NEW p \in Partitions, NEW s \in Seq(Nat)
    PROVE  /\ [Nothing EXCEPT ![p] = s] \in Seqs
           /\ Records([Nothing EXCEPT ![p] = s]) = Range(s)
<1> DEFINE o == [Nothing EXCEPT ![p] = s]
<1>1. o = [q \in Partitions |-> IF q = p THEN s ELSE <<>>]
  BY Zenon DEF Nothing
<1>2. o \in Seqs
  <2>1. <<>> \in Seq(Nat)
    OBVIOUS
  <2> HIDE DEF o
  <2> QED BY <1>1, <2>1, Zenon DEF Seqs
<1>3. o[p] = s /\ \A q \in Partitions \ {p} : o[q] = <<>>
  BY <1>1
<1> HIDE DEF o
<1>4. Range(o[p]) = Range(s) /\ \A q \in Partitions \ {p} : Range(o[q]) = {}
  BY <1>3, RangeFacts
<1>5. Records(o) = Range(s)
  BY <1>4 DEF Records
<1> QED BY <1>2, <1>5 DEF o

\* Batches put in front of buffers: nothing but the two.
LEMMA JoinedBatches ==
    ASSUME NEW a \in Seqs, NEW b \in Seqs
    PROVE  /\ [p \in Partitions |-> a[p] \o b[p]] \in Seqs
           /\ Records([p \in Partitions |-> a[p] \o b[p]])
                 = Records(a) \cup Records(b)
<1> DEFINE j == [p \in Partitions |-> a[p] \o b[p]]
<1>1. \A p \in Partitions : a[p] \in Seq(Nat) /\ b[p] \in Seq(Nat)
  BY DEF Seqs
<1>2. ASSUME NEW p \in Partitions
      PROVE  j[p] = a[p] \o b[p] /\ j[p] \in Seq(Nat)
  <2>1. j[p] = a[p] \o b[p]
    OBVIOUS
  <2>2. a[p] \o b[p] \in Seq(Nat)
    BY <1>1
  <2> QED BY <2>1, <2>2
<1>3. \A p \in Partitions : Range(j[p]) = Range(a[p]) \cup Range(b[p])
  BY <1>1, <1>2, RangeFacts
<1>4. j \in Seqs
  BY <1>2 DEF Seqs
<1> HIDE DEF j
<1>5. Records(j) = Records(a) \cup Records(b)
  BY <1>3 DEF Records
<1> QED BY <1>4, <1>5 DEF j

\* A set of batches is the batches of some partitions and of the others.
LEMMA PartFacts ==
    ASSUME hand \in Seqs, NEW K \in SUBSET Partitions
    PROVE  /\ Part(K) \in Seqs
           /\ \A p \in K : Part(K)[p] = hand[p]
           /\ \A p \in Partitions \ K : Part(K)[p] = <<>>
           /\ Records(Part(K)) = UNION {Range(hand[p]) : p \in K}
<1>1. Part(K) \in Seqs
  BY DEF Part, Seqs
<1>2. /\ \A p \in K : Part(K)[p] = hand[p]
      /\ \A p \in Partitions \ K : Part(K)[p] = <<>>
  BY DEF Part
<1>3. Records(Part(K)) = UNION {Range(hand[p]) : p \in K}
  BY <1>2, RangeFacts DEF Records
<1> QED BY <1>1, <1>2, <1>3

-----------------------------------------------------------------------------
(* Every step keeps the invariant.                                         *)

bookVars == <<pending, hand, plan, given, op, at, txnState, identity, done,
              failed, dropped, owed>>

\* Steps of the network, of the broker and of a delivery leave the books alone.
LEMMA SameBooks == IInv /\ UNCHANGED bookVars => IInv'
<1> SUFFICES ASSUME IInv, UNCHANGED bookVars PROVE IInv'
  OBVIOUS
<1>0. Records(pending)' = Records(pending) /\ Records(hand)' = Records(hand)
  BY DEF bookVars, Records
<1>1. Shapes'
  BY DEF IInv, Shapes, bookVars
<1>2. CallInv'
  BY DEF IInv, BooksInv, CallInv, Producible, bookVars
<1>3. PlaceInv'
  BY <1>0 DEF IInv, BooksInv, PlaceInv, bookVars
<1>4. Accounted'
  BY <1>0 DEF IInv, BooksInv, LostOnlyForNoId, Accounted, bookVars
<1>5. OpenInv'
  BY <1>0 DEF IInv, BooksInv, OpenInv, bookVars
<1>6. DroppedInv'
  BY <1>0 DEF IInv, BooksInv, LostOnlyForNoId, DroppedInv, Kept, Transactional, bookVars
<1> QED BY <1>1, <1>2, <1>3, <1>4, <1>5, <1>6 DEF IInv, BooksInv, LostOnlyForNoId

\* One more record is handed over.
LEMMA OneMore ==
    ASSUME NEW g \in Nat
    PROVE  /\ 1 .. g + 1 = (1 .. g) \cup {g + 1} /\ g + 1 \notin 0 .. g
           /\ 0 .. g \subseteq 0 .. g + 1 /\ 1 .. g \subseteq 0 .. g
           /\ g + 1 \in 0 .. g + 1 /\ g + 1 # 0
  OBVIOUS

\* What has been handed over bounds everything that is still held, and two
\* partitions hold nothing in common.
LEMMA HeldIsGiven ==
    ASSUME IInv
    PROVE  /\ Records(pending) \subseteq 1 .. given
           /\ Records(hand) \subseteq 1 .. given
           /\ given \in Nat
           /\ \A p, q \in Partitions : p # q =>
                 Range(hand[p]) \cap Range(hand[q]) = {}
<1>1. \A p \in Partitions : \A n \in Range(pending[p]) \cup Range(hand[p]) :
          n \in 1 .. given /\ plan[n] = p
  BY DEF IInv, BooksInv, PlaceInv
<1>2. given \in Nat
  BY ProducerAssumption DEF IInv, Shapes
<1>3. Records(pending) \subseteq 1 .. given /\ Records(hand) \subseteq 1 .. given
  BY <1>1, ZenonT(60) DEF Records
<1>4. ASSUME NEW p \in Partitions, NEW q \in Partitions, p # q
      PROVE  Range(hand[p]) \cap Range(hand[q]) = {}
  BY <1>1, <1>4, Zenon
<1> QED BY <1>2, <1>3, <1>4

\* What has been dropped stays so: no other step takes a record from anywhere
\* but the caller.
LEMMA DropsStand ==
    ASSUME IInv, dropped' = dropped, plan' = plan,
           given' \in {given, given + 1},
           txnState = "Disabled" => txnState' = "Disabled",
           Kept' \subseteq Kept \cup {0, given + 1}
    PROVE  DroppedInv'
<1>1. /\ dropped \subseteq 1 .. given /\ given \in Nat /\ dropped \cap Kept = {}
      /\ \A n \in dropped : \E m \in 1 .. given : plan[m] # plan[n]
      /\ txnState # "Disabled" => dropped = {}
  BY HeldIsGiven
     DEF IInv, BooksInv, PlaceInv, LostOnlyForNoId, DroppedInv, Transactional
<1>2. 0 \notin 1 .. given /\ given + 1 \notin 1 .. given /\ 1 .. given \subseteq 1 .. given'
  BY <1>1
<1>3. dropped' \cap Kept' = {}
  BY <1>1, <1>2
<1>4. \A n \in dropped' : \E m \in 1 .. given' : plan'[m] # plan'[n]
  BY <1>1, <1>2
<1> QED BY <1>1, <1>3, <1>4 DEF DroppedInv, Transactional

\* init_transactions touches no record.
LEMMA InitTransactionsStep ==
    ASSUME IInv, InitTransactions
    PROVE  IInv'
<1>1. Shapes'
  BY DEF IInv, Shapes, InitTransactions, historyVars, callVars
<1>2. CallInv'
  BY DEF IInv, BooksInv, CallInv, InitTransactions, callVars
<1>3. PlaceInv'
  BY DEF IInv, BooksInv, PlaceInv, InitTransactions, historyVars, callVars
<1>4. Accounted'
  BY DEF IInv, BooksInv, LostOnlyForNoId, Accounted, InitTransactions, historyVars, callVars
<1>5. OpenInv'
  BY DEF OpenInv, InitTransactions
<1>6. DroppedInv'
  <2>1. /\ dropped' = dropped /\ plan' = plan /\ given' \in {given, given + 1}
        /\ txnState = "Disabled" => txnState' = "Disabled"
    BY HeldIsGiven DEF InitTransactions, historyVars, callVars, Records
  <2>2. Kept' \subseteq Kept \cup {0, given + 1}
    BY HeldIsGiven DEF Kept, InitTransactions, historyVars, callVars, Records
  <2> QED BY <2>1, <2>2, DropsStand
<1> QED BY <1>1, <1>2, <1>3, <1>4, <1>5, <1>6 DEF IInv, BooksInv, LostOnlyForNoId

\* begin_transaction: what it owes is what is buffered.
LEMMA BeginTransactionStep ==
    ASSUME IInv, BeginTransaction
    PROVE  IInv'
<1>1. Shapes'
  BY DEF IInv, Shapes, BeginTransaction, bufferVars, callVars
<1>2. CallInv'
  BY DEF IInv, BooksInv, CallInv, BeginTransaction, bufferVars, callVars
<1>3. PlaceInv'
  BY DEF IInv, BooksInv, PlaceInv, BeginTransaction, bufferVars, callVars
<1>4. Accounted'
  BY DEF IInv, BooksInv, LostOnlyForNoId, Accounted, BeginTransaction, bufferVars, callVars
<1>5. OpenInv'
  BY DEF OpenInv, BeginTransaction, bufferVars
<1>6. DroppedInv'
  <2>1. /\ dropped' = dropped /\ plan' = plan /\ given' \in {given, given + 1}
        /\ txnState = "Disabled" => txnState' = "Disabled"
    BY HeldIsGiven DEF BeginTransaction, bufferVars, callVars, Records
  <2>2. Kept' \subseteq Kept \cup {0, given + 1}
    BY HeldIsGiven DEF Kept, BeginTransaction, bufferVars, callVars, Records
  <2> QED BY <2>1, <2>2, DropsStand
<1> QED BY <1>1, <1>2, <1>3, <1>4, <1>5, <1>6 DEF IInv, BooksInv, LostOnlyForNoId

\* What an error leaves of the transaction.
LEMMA AfterFailureFacts ==
    \A e : /\ AfterFailure("Disabled", e) = "Disabled"
           /\ AfterFailure("Open", e) \in {"Abortable", "Fenced"}
           /\ AfterFailure("Abortable", e) \in {"Abortable", "Fenced"}
  BY DEF AfterFailure

\* restore puts batches back where they came from, except for produce.
LEMMA RestoredFacts ==
    ASSUME pending \in Seqs, NEW b \in Seqs
    PROVE  /\ op = "produce" => Restored(b) = pending
           /\ op # "produce" =>
                 /\ Restored(b) \in Seqs
                 /\ Records(Restored(b)) = Records(b) \cup Records(pending)
                 /\ \A p \in Partitions :
                       Range(Restored(b)[p]) = Range(b[p]) \cup Range(pending[p])
<1>1. \A p \in Partitions : b[p] \in Seq(Nat) /\ pending[p] \in Seq(Nat)
  BY DEF Seqs
<1>2. \A p \in Partitions : Range(b[p] \o pending[p]) = Range(b[p]) \cup Range(pending[p])
  BY <1>1, RangeFacts
<1> QED BY <1>2, JoinedBatches DEF Restored

\* send_offsets_to_transaction: the positions are owed until accepted.
LEMMA SendOffsetsStep ==
    ASSUME IInv, SendOffsets
    PROVE  IInv'
<1>b. Records(pending)' = Records(pending) /\ Records(hand)' = Records(hand)
  BY DEF SendOffsets, bufferVars, callVars, Records
<1>1. Shapes'
  BY DEF IInv, Shapes, SendOffsets, bufferVars
<1>2. CallInv'
  BY DEF IInv, BooksInv, CallInv, SendOffsets, bufferVars, txnVars
<1>3. PlaceInv'
  BY DEF IInv, BooksInv, PlaceInv, SendOffsets, bufferVars
<1>4. Accounted'
  BY <1>b DEF IInv, BooksInv, LostOnlyForNoId, Accounted, SendOffsets
<1>5. OpenInv'
  BY <1>b DEF IInv, BooksInv, OpenInv, SendOffsets
<1>6. DroppedInv'
  <2>1. /\ dropped' = dropped /\ plan' = plan /\ given' \in {given, given + 1}
        /\ txnState = "Disabled" => txnState' = "Disabled"
    BY <1>b, HeldIsGiven DEF SendOffsets
  <2>2. Kept' \subseteq Kept \cup {0, given + 1}
    BY <1>b DEF Kept, SendOffsets
  <2> QED BY <2>1, <2>2, DropsStand
<1> QED BY <1>1, <1>2, <1>3, <1>4, <1>5, <1>6 DEF IInv, BooksInv, LostOnlyForNoId

\* enqueue: the new record joins the buffer of its partition.
LEMMA EnqueueStep ==
    ASSUME IInv, NEW p \in Partitions, Enqueue(p)
    PROVE  IInv'
<1>a. Records(Nothing) = {} /\ Nothing \in Seqs
  BY NothingFacts
<1>d. given + 1 \in Nat /\ given + 1 \in 0 .. Len(plan) /\ plan[given + 1] = p
  BY ProducerAssumption DEF IInv, Shapes, Enqueue, HandOver
<1>b. /\ pending' \in Seqs
      /\ Range(pending'[p]) = Range(pending[p]) \cup {given + 1}
      /\ \A q \in Partitions \ {p} : Range(pending'[q]) = Range(pending[q])
  <2>1. /\ pending' = [pending EXCEPT ![p] = Append(@, given + 1)]
        /\ pending \in [Partitions -> Seq(Nat)]
    BY DEF IInv, Shapes, Seqs, Enqueue
  <2>2. /\ pending' \in [Partitions -> Seq(Nat)]
        /\ pending'[p] = Append(pending[p], given + 1)
        /\ \A q \in Partitions \ {p} : pending'[q] = pending[q]
    BY <1>d, <2>1
  <2> QED BY <1>d, <2>1, <2>2, RangeFacts DEF Seqs
<1>c. Records(pending)' = Records(pending) \cup {given + 1} /\ Records(hand)' = Records(hand)
  BY <1>b DEF Records, Enqueue, callVars
<1>h. hand' = hand
  BY DEF Enqueue, callVars
<1>1. Shapes'
  BY <1>b DEF IInv, Shapes, Enqueue, callVars, HandOver
<1>2. CallInv'
  BY DEF IInv, BooksInv, CallInv, Enqueue, txnVars, callVars, HandOver
<1>i. /\ given' = given + 1 /\ plan' = plan /\ failed' = failed /\ done' = done
      /\ dropped' = dropped
      /\ hand = Nothing /\ Records(hand) = {}
  BY <1>a DEF Enqueue, HandOver, IInv, BooksInv, CallInv
<1>j. /\ 1 .. given' = (1 .. given) \cup {given + 1} /\ given + 1 \notin 0 .. given
      /\ 0 .. given \subseteq 0 .. given' /\ 1 .. given \subseteq 0 .. given
      /\ given + 1 # 0
      /\ Records(pending) \subseteq 1 .. given
  BY <1>i, OneMore, HeldIsGiven
<1>k. /\ \A q \in Partitions : \A n \in Range(pending[q]) \cup Range(hand[q]) :
            n \in 1 .. given /\ plan[n] = q
      /\ done \subseteq 0 .. given /\ failed \subseteq 1 .. given
      /\ dropped \subseteq 1 .. given
      /\ 1 .. given = Records(pending) \cup (done \ {0}) \cup failed \cup dropped
      /\ Records(pending) \cap (done \cup failed) = {}
  BY <1>i DEF IInv, BooksInv, PlaceInv, LostOnlyForNoId, Accounted, Offsets
<1>3. PlaceInv'
  <2>1. \A q \in Partitions : \A n \in Range(pending'[q]) \cup Range(hand'[q]) :
            n \in 1 .. given' /\ plan'[n] = q
    BY <1>b, <1>c, <1>h, <1>d, <1>i, <1>j, <1>k
  <2>2. /\ done' \subseteq 0 .. given' /\ failed' \subseteq 1 .. given'
        /\ dropped' \subseteq 1 .. given'
    BY <1>i, <1>j, <1>k
  <2>3. Records(hand)' \cap (done' \cup failed') = {}
    BY <1>b, <1>c, <1>h, <1>i, <1>j, <1>k
  <2> QED BY <2>1, <2>2, <2>3 DEF PlaceInv
<1>4. Accounted'
  BY <1>b, <1>c, <1>h, <1>i, <1>j, <1>k DEF Accounted, Offsets
<1>5. OpenInv'
  BY <1>c DEF IInv, BooksInv, OpenInv, Enqueue, txnVars, HandOver
<1>6. DroppedInv'
  <2>1. /\ dropped' = dropped /\ plan' = plan /\ given' \in {given, given + 1}
        /\ txnState = "Disabled" => txnState' = "Disabled"
    BY <1>c, <1>i, <1>j, HeldIsGiven DEF Enqueue, txnVars
  <2>2. Kept' \subseteq Kept \cup {0, given + 1}
    BY <1>c, <1>i, <1>j DEF Kept, Enqueue, txnVars
  <2> QED BY <2>1, <2>2, DropsStand
<1> QED BY <1>1, <1>2, <1>3, <1>4, <1>5, <1>6 DEF IInv, BooksInv, LostOnlyForNoId

\* enqueue of a filling record: the buffer and the record are in hand.
LEMMA EnqueueFullStep ==
    ASSUME IInv, NEW p \in Partitions, EnqueueFull(p)
    PROVE  IInv'
<1>a. Records(Nothing) = {} /\ Nothing \in Seqs
  BY NothingFacts
<1>d. given + 1 \in Nat /\ given + 1 \in 0 .. Len(plan) /\ plan[given + 1] = p
  BY ProducerAssumption DEF IInv, Shapes, EnqueueFull, HandOver
<1> DEFINE s == Append(pending[p], given + 1)
<1>s. s \in Seq(Nat) /\ Range(s) = Range(pending[p]) \cup {given + 1}
  <2>1. pending[p] \in Seq(Nat)
    BY DEF IInv, Shapes, Seqs
  <2> QED BY <1>d, <2>1, RangeFacts
<1>h. hand' = [Nothing EXCEPT ![p] = s]
  BY DEF EnqueueFull, Deliver
<1> HIDE DEF s
<1>b. /\ hand' \in Seqs
      /\ hand'[p] = s
      /\ \A q \in Partitions \ {p} : hand'[q] = <<>>
  BY <1>s, <1>h, OneBatch DEF Nothing
<1>c. /\ Range(hand'[p]) = Range(pending[p]) \cup {given + 1}
      /\ \A q \in Partitions \ {p} : Range(hand'[q]) = {}
      /\ Records(hand)' = Range(pending[p]) \cup {given + 1}
  BY <1>s, <1>h, <1>b, OneBatch, RangeFacts DEF Records
<1>e. /\ pending' \in Seqs
      /\ Range(pending'[p]) = {}
      /\ \A q \in Partitions \ {p} : Range(pending'[q]) = Range(pending[q])
      /\ Records(pending)' = Records(pending) \ Range(pending[p])
      /\ Range(pending[p]) \subseteq Records(pending)
  <2>1. /\ pending' = [pending EXCEPT ![p] = <<>>]
        /\ pending \in [Partitions -> Seq(Nat)]
    BY DEF IInv, Shapes, Seqs, EnqueueFull
  <2>2. /\ pending' \in [Partitions -> Seq(Nat)]
        /\ pending'[p] = <<>>
        /\ \A q \in Partitions \ {p} : pending'[q] = pending[q]
    BY <2>1
  <2>3. /\ Range(pending'[p]) = {}
        /\ \A q \in Partitions \ {p} : Range(pending'[q]) = Range(pending[q])
    BY <2>2, RangeFacts
  <2>4. \A q \in Partitions \ {p} : Range(pending[q]) \cap Range(pending[p]) = {}
    BY DEF IInv, BooksInv, PlaceInv
  <2> QED BY <2>2, <2>3, <2>4 DEF Seqs, Records
<1>1. Shapes'
  BY <1>b, <1>e DEF IInv, Shapes, EnqueueFull, HandOver
<1>2. CallInv'
  BY DEF IInv, BooksInv, CallInv, Producible, EnqueueFull, txnVars, Deliver
<1>i. /\ given' = given + 1 /\ plan' = plan /\ failed' = failed /\ done' = done
      /\ dropped' = dropped
      /\ hand = Nothing /\ Records(hand) = {}
  BY <1>a DEF EnqueueFull, HandOver, IInv, BooksInv, CallInv
<1>j. /\ 1 .. given' = (1 .. given) \cup {given + 1} /\ given + 1 \notin 0 .. given
      /\ 0 .. given \subseteq 0 .. given' /\ 1 .. given \subseteq 0 .. given
      /\ given + 1 # 0
      /\ Records(pending) \subseteq 1 .. given
  BY <1>i, OneMore, HeldIsGiven
<1>k. /\ \A q \in Partitions : \A n \in Range(pending[q]) \cup Range(hand[q]) :
            n \in 1 .. given /\ plan[n] = q
      /\ done \subseteq 0 .. given /\ failed \subseteq 1 .. given
      /\ dropped \subseteq 1 .. given
      /\ 1 .. given = Records(pending) \cup (done \ {0}) \cup failed \cup dropped
      /\ Records(pending) \cap (done \cup failed) = {}
  BY <1>i DEF IInv, BooksInv, PlaceInv, LostOnlyForNoId, Accounted, Offsets
<1>3. PlaceInv'
  <2>1. \A q \in Partitions : \A n \in Range(pending'[q]) \cup Range(hand'[q]) :
            n \in 1 .. given' /\ plan'[n] = q
    <3> TAKE q \in Partitions
    <3>1. CASE q = p
      <4>1. Range(pending'[q]) \cup Range(hand'[q]) = Range(pending[q]) \cup {given + 1}
        BY <3>1, <1>c, <1>e
      <4>2. \A n \in Range(pending[q]) : n \in 1 .. given' /\ plan'[n] = q
        BY <1>i, <1>j, <1>k
      <4>3. given + 1 \in 1 .. given' /\ plan'[given + 1] = q
        BY <3>1, <1>d, <1>i, <1>j
      <4> QED BY <4>1, <4>2, <4>3
    <3>2. CASE q # p
      <4>1. Range(pending'[q]) \cup Range(hand'[q]) = Range(pending[q])
        BY <3>2, <1>c, <1>e
      <4> QED BY <4>1, <1>i, <1>j, <1>k
    <3> QED BY <3>1, <3>2
  <2>2. /\ done' \subseteq 0 .. given' /\ failed' \subseteq 1 .. given'
        /\ dropped' \subseteq 1 .. given'
    BY <1>i, <1>j, <1>k
  <2>3. Records(hand)' \cap (done' \cup failed') = {}
    BY <1>c, <1>e, <1>i, <1>j, <1>k
  <2> QED BY <2>1, <2>2, <2>3 DEF PlaceInv
<1>4. Accounted'
  BY <1>c, <1>e, <1>i, <1>j, <1>k DEF Accounted, Offsets
<1>5. OpenInv'
  BY <1>a, <1>c, <1>e
     DEF IInv, BooksInv, CallInv, OpenInv, EnqueueFull, txnVars,
         HandOver
<1>6. DroppedInv'
  <2>1. /\ dropped' = dropped /\ plan' = plan /\ given' \in {given, given + 1}
        /\ txnState = "Disabled" => txnState' = "Disabled"
    BY <1>c, <1>e, <1>i, <1>j, HeldIsGiven DEF EnqueueFull, txnVars
  <2>2. Kept' \subseteq Kept \cup {0, given + 1}
    BY <1>c, <1>e, <1>i, <1>j DEF Kept, EnqueueFull, txnVars
  <2> QED BY <2>1, <2>2, DropsStand
<1> QED BY <1>1, <1>2, <1>3, <1>4, <1>5, <1>6 DEF IInv, BooksInv, LostOnlyForNoId

\* produce: the new record alone is in hand.
LEMMA ProduceStep ==
    ASSUME IInv, NEW p \in Partitions, Produce(p)
    PROVE  IInv'
<1>a. Records(Nothing) = {} /\ Nothing \in Seqs
  BY NothingFacts
<1>d. given + 1 \in Nat /\ given + 1 \in 0 .. Len(plan) /\ plan[given + 1] = p
  BY ProducerAssumption DEF IInv, Shapes, Produce, HandOver
<1>s. <<given + 1>> \in Seq(Nat) /\ Range(<<given + 1>>) = {given + 1}
  BY <1>d DEF Range
<1>h. hand' = [Nothing EXCEPT ![p] = <<given + 1>>]
  BY DEF Produce, Deliver
<1>b. /\ hand' \in Seqs
      /\ hand'[p] = <<given + 1>>
      /\ \A q \in Partitions \ {p} : hand'[q] = <<>>
  BY <1>s, <1>h, OneBatch DEF Nothing
<1>c. /\ Range(hand'[p]) = {given + 1}
      /\ \A q \in Partitions \ {p} : Range(hand'[q]) = {}
      /\ Records(hand)' = {given + 1}
  BY <1>s, <1>h, <1>b, OneBatch, RangeFacts DEF Records
<1>e. Records(pending)' = Records(pending)
  BY DEF Produce, bufferVars, Records
<1>h2. pending' = pending
  BY DEF Produce, bufferVars
<1>1. Shapes'
  BY <1>b DEF IInv, Shapes, Produce, bufferVars, HandOver
<1>2. CallInv'
  BY DEF IInv, BooksInv, CallInv, Producible, Produce, bufferVars,
         txnVars, Deliver
<1>i. /\ given' = given + 1 /\ plan' = plan /\ failed' = failed /\ done' = done
      /\ dropped' = dropped
      /\ hand = Nothing /\ Records(hand) = {}
  BY <1>a DEF Produce, HandOver, IInv, BooksInv, CallInv
<1>j. /\ 1 .. given' = (1 .. given) \cup {given + 1} /\ given + 1 \notin 0 .. given
      /\ 0 .. given \subseteq 0 .. given' /\ 1 .. given \subseteq 0 .. given
      /\ given + 1 # 0
      /\ Records(pending) \subseteq 1 .. given
  BY <1>i, OneMore, HeldIsGiven
<1>k. /\ \A q \in Partitions : \A n \in Range(pending[q]) \cup Range(hand[q]) :
            n \in 1 .. given /\ plan[n] = q
      /\ done \subseteq 0 .. given /\ failed \subseteq 1 .. given
      /\ dropped \subseteq 1 .. given
      /\ 1 .. given = Records(pending) \cup (done \ {0}) \cup failed \cup dropped
      /\ Records(pending) \cap (done \cup failed) = {}
  BY <1>i DEF IInv, BooksInv, PlaceInv, LostOnlyForNoId, Accounted, Offsets
<1>3. PlaceInv'
  <2>1. \A q \in Partitions : \A n \in Range(pending'[q]) \cup Range(hand'[q]) :
            n \in 1 .. given' /\ plan'[n] = q
    BY <1>c, <1>e, <1>h2, <1>d, <1>i, <1>j, <1>k
  <2>2. /\ done' \subseteq 0 .. given' /\ failed' \subseteq 1 .. given'
        /\ dropped' \subseteq 1 .. given'
    BY <1>i, <1>j, <1>k
  <2>3. Records(hand)' \cap (done' \cup failed') = {}
    BY <1>c, <1>e, <1>h2, <1>i, <1>j, <1>k
  <2> QED BY <2>1, <2>2, <2>3 DEF PlaceInv
<1>4. Accounted'
  BY <1>c, <1>e, <1>h2, <1>i, <1>j, <1>k DEF Accounted, Offsets
<1>5. OpenInv'
  BY <1>a, <1>c, <1>e
     DEF IInv, BooksInv, CallInv, OpenInv, Produce, txnVars, HandOver
<1>6. DroppedInv'
  <2>1. /\ dropped' = dropped /\ plan' = plan /\ given' \in {given, given + 1}
        /\ txnState = "Disabled" => txnState' = "Disabled"
    BY <1>c, <1>e, <1>i, <1>j, HeldIsGiven DEF Produce, txnVars
  <2>2. Kept' \subseteq Kept \cup {0, given + 1}
    BY <1>c, <1>e, <1>i, <1>j DEF Kept, Produce, txnVars
  <2> QED BY <2>1, <2>2, DropsStand
<1> QED BY <1>1, <1>2, <1>3, <1>4, <1>5, <1>6 DEF IInv, BooksInv, LostOnlyForNoId

\* flush: what was buffered is in hand.
LEMMA FlushStep ==
    ASSUME IInv, Flush
    PROVE  IInv'
<1>a. Records(Nothing) = {} /\ Nothing \in Seqs
  BY NothingFacts
<1>n. \A q \in Partitions : Range(Nothing[q]) = {}
  BY RangeFacts DEF Nothing
<1>b. Records(pending)' = {} /\ pending' = Nothing
  BY <1>a DEF Flush, Records
<1>c. hand' = pending /\ Records(hand)' = Records(pending)
  BY DEF Flush, Deliver, Records
<1>1. Shapes'
  BY <1>a, <1>c DEF IInv, Shapes, Flush, historyVars
<1>2. CallInv'
  BY DEF IInv, BooksInv, CallInv, Producible, Flush, txnVars, Deliver
<1>3. PlaceInv'
  BY <1>n, <1>c DEF IInv, BooksInv, PlaceInv, LostOnlyForNoId, Accounted, Flush, historyVars
<1>4. Accounted'
  BY <1>b, <1>c DEF IInv, BooksInv, CallInv, LostOnlyForNoId, Accounted, Flush, historyVars
<1>5. OpenInv'
  BY <1>c DEF IInv, BooksInv, CallInv, OpenInv, Flush, historyVars, txnVars
<1>6. DroppedInv'
  <2>1. /\ dropped' = dropped /\ plan' = plan /\ given' \in {given, given + 1}
        /\ txnState = "Disabled" => txnState' = "Disabled"
    BY <1>b, <1>c, HeldIsGiven DEF Flush, historyVars, txnVars
  <2>2. Kept' \subseteq Kept \cup {0, given + 1}
    BY <1>b, <1>c DEF Kept, Flush, historyVars, txnVars
  <2> QED BY <2>1, <2>2, DropsStand
<1> QED BY <1>1, <1>2, <1>3, <1>4, <1>5, <1>6 DEF IInv, BooksInv, LostOnlyForNoId

\* commit_transaction: what was buffered is in hand, or nothing was.
LEMMA CommitTransactionStep ==
    ASSUME IInv, CommitTransaction
    PROVE  IInv'
<1>a. Records(Nothing) = {} /\ Nothing \in Seqs
  BY NothingFacts
<1>n. \A q \in Partitions : Range(Nothing[q]) = {}
  BY RangeFacts DEF Nothing
<1>b. Records(pending)' = {} /\ pending' = Nothing
  BY <1>a DEF CommitTransaction, Records
<1>c. hand' = pending /\ Records(hand)' = Records(pending)
  BY DEF CommitTransaction, Deliver, Release, Records
<1>1. Shapes'
  BY <1>a, <1>c DEF IInv, Shapes, CommitTransaction, historyVars
<1>2. CallInv'
  BY DEF IInv, BooksInv, CallInv, CommitTransaction, txnVars, Deliver, Release
<1>3. PlaceInv'
  BY <1>n, <1>c
     DEF IInv, BooksInv, PlaceInv, LostOnlyForNoId, Accounted, CommitTransaction,
         historyVars
<1>4. Accounted'
  BY <1>b, <1>c
     DEF IInv, BooksInv, CallInv, LostOnlyForNoId, Accounted, CommitTransaction,
         historyVars
<1>5. OpenInv'
  BY <1>c DEF IInv, BooksInv, CallInv, OpenInv, CommitTransaction, historyVars
<1>6. DroppedInv'
  <2>1. /\ dropped' = dropped /\ plan' = plan /\ given' \in {given, given + 1}
        /\ txnState = "Disabled" => txnState' = "Disabled"
    BY <1>b, <1>c, HeldIsGiven DEF CommitTransaction, historyVars, txnVars
  <2>2. Kept' \subseteq Kept \cup {0, given + 1}
    BY <1>b, <1>c DEF Kept, CommitTransaction, historyVars, txnVars
  <2> QED BY <2>1, <2>2, DropsStand
<1> QED BY <1>1, <1>2, <1>3, <1>4, <1>5, <1>6 DEF IInv, BooksInv, LostOnlyForNoId

\* abort_transaction: what was buffered is reported discarded.
LEMMA AbortTransactionStep ==
    ASSUME IInv, AbortTransaction
    PROVE  IInv'
<1>a. Records(Nothing) = {} /\ Nothing \in Seqs
  BY NothingFacts
<1>n. \A q \in Partitions : Range(Nothing[q]) = {}
  BY RangeFacts DEF Nothing
<1>b. Records(pending)' = {} /\ pending' = Nothing
  BY <1>a DEF AbortTransaction, Records
<1>1. Shapes'
  BY <1>a DEF IInv, Shapes, AbortTransaction
<1>2. CallInv'
  BY DEF IInv, BooksInv, CallInv, AbortTransaction, txnVars
<1>3. PlaceInv'
  BY <1>n DEF IInv, BooksInv, PlaceInv, LostOnlyForNoId, Accounted, AbortTransaction
<1>4. Accounted'
  BY <1>b DEF IInv, BooksInv, LostOnlyForNoId, Accounted, AbortTransaction
<1>5. OpenInv'
  BY DEF OpenInv, AbortTransaction
<1>6. DroppedInv'
  <2>1. /\ dropped' = dropped /\ plan' = plan /\ given' \in {given, given + 1}
        /\ txnState = "Disabled" => txnState' = "Disabled"
    BY <1>b, HeldIsGiven DEF AbortTransaction, txnVars, Records
  <2>2. Kept' \subseteq Kept \cup {0, given + 1}
    BY <1>b DEF Kept, AbortTransaction, txnVars, Records
  <2> QED BY <2>1, <2>2, DropsStand
<1> QED BY <1>1, <1>2, <1>3, <1>4, <1>5, <1>6 DEF IInv, BooksInv, LostOnlyForNoId

\* claim_partitions succeeds: the batches stay in hand.
LEMMA ClaimOkStep ==
    ASSUME IInv, ClaimOk
    PROVE  IInv'
<1>b. Records(pending)' = Records(pending) /\ Records(hand)' = Records(hand)
  BY DEF ClaimOk, Await, bufferVars, callVars, Records
<1>1. Shapes'
  BY DEF IInv, Shapes, ClaimOk, historyVars, bufferVars, Await
<1>2. CallInv'
  BY DEF IInv, BooksInv, CallInv, Producible, ClaimOk, bufferVars, Await
<1>3. PlaceInv'
  BY DEF IInv, BooksInv, PlaceInv, ClaimOk, historyVars, bufferVars, Await
<1>4. Accounted'
  BY <1>b DEF IInv, BooksInv, LostOnlyForNoId, Accounted, ClaimOk, historyVars
<1>5. OpenInv'
  BY <1>b DEF IInv, BooksInv, OpenInv, ClaimOk, historyVars, Await
<1>6. DroppedInv'
  <2>1. /\ dropped' = dropped /\ plan' = plan /\ given' \in {given, given + 1}
        /\ txnState = "Disabled" => txnState' = "Disabled"
    BY <1>b, HeldIsGiven DEF ClaimOk, historyVars
  <2>2. Kept' \subseteq Kept \cup {0, given + 1}
    BY <1>b DEF Kept, ClaimOk, historyVars
  <2> QED BY <2>1, <2>2, DropsStand
<1> QED BY <1>1, <1>2, <1>3, <1>4, <1>5, <1>6 DEF IInv, BooksInv, LostOnlyForNoId

\* batch_stamp: the batches stay in hand.
LEMMA StampStep ==
    ASSUME IInv, Stamp
    PROVE  IInv'
<1>1. Shapes'
  BY DEF IInv, Shapes, Stamp, historyVars
<1>2. CallInv'
  BY DEF IInv, BooksInv, CallInv, Producible, Stamp, txnVars
<1>3. PlaceInv'
  BY DEF IInv, BooksInv, PlaceInv, Stamp, historyVars
<1>4. Accounted'
  BY DEF IInv, BooksInv, LostOnlyForNoId, Accounted, Stamp, historyVars
<1>5. OpenInv'
  BY DEF IInv, BooksInv, OpenInv, Stamp, historyVars, txnVars
<1>6. DroppedInv'
  <2>1. /\ dropped' = dropped /\ plan' = plan /\ given' \in {given, given + 1}
        /\ txnState = "Disabled" => txnState' = "Disabled"
    BY HeldIsGiven DEF Stamp, historyVars, txnVars, Records
  <2>2. Kept' \subseteq Kept \cup {0, given + 1}
    BY HeldIsGiven DEF Kept, Stamp, historyVars, txnVars, Records
  <2> QED BY <2>1, <2>2, DropsStand
<1> QED BY <1>1, <1>2, <1>3, <1>4, <1>5, <1>6 DEF IInv, BooksInv, LostOnlyForNoId

\* The positions are accepted, hence no longer owed.
LEMMA OffsetsOkStep ==
    ASSUME IInv, OffsetsOk
    PROVE  IInv'
<1>a. Records(Nothing) = {} /\ Nothing \in Seqs
  BY NothingFacts
<1>n. \A q \in Partitions : Range(Nothing[q]) = {}
  BY RangeFacts DEF Nothing
<1>b. Records(pending)' = Records(pending)
  BY DEF OffsetsOk, bufferVars, Records
<1>c. hand' = Nothing /\ Records(hand)' = {} /\ Records(hand) = {}
  BY <1>a DEF OffsetsOk, Return, Release, Records, IInv, BooksInv, CallInv
<1>1. Shapes'
  BY <1>a, <1>c DEF IInv, Shapes, OffsetsOk, bufferVars
<1>2. CallInv'
  BY DEF IInv, BooksInv, CallInv, OffsetsOk, bufferVars, Release, Return
<1>3. PlaceInv'
  BY <1>n, <1>c
     DEF IInv, Shapes, BooksInv, PlaceInv, Offsets, OffsetsOk,
         bufferVars
<1>4. Accounted'
  BY <1>b, <1>c DEF IInv, BooksInv, LostOnlyForNoId, Accounted, Offsets, OffsetsOk
<1>5. OpenInv'
  BY <1>b, <1>c DEF IInv, BooksInv, CallInv, OpenInv, OffsetsOk
<1>6. DroppedInv'
  <2>1. /\ dropped' = dropped /\ plan' = plan /\ given' \in {given, given + 1}
        /\ txnState = "Disabled" => txnState' = "Disabled"
    BY <1>b, <1>c, HeldIsGiven DEF OffsetsOk, txnVars, Offsets
  <2>2. Kept' \subseteq Kept \cup {0, given + 1}
    BY <1>b, <1>c DEF Kept, OffsetsOk, txnVars, Offsets
  <2> QED BY <2>1, <2>2, DropsStand
<1> QED BY <1>1, <1>2, <1>3, <1>4, <1>5, <1>6 DEF IInv, BooksInv, LostOnlyForNoId

\* The positions are not accepted: the transaction is no longer open.
LEMMA OffsetsFailStep ==
    ASSUME IInv, OffsetsFail
    PROVE  IInv'
<1>a. Records(Nothing) = {} /\ Nothing \in Seqs
  BY NothingFacts
<1>n. \A q \in Partitions : Range(Nothing[q]) = {}
  BY RangeFacts DEF Nothing
<1>b. Records(pending)' = Records(pending)
  BY DEF OffsetsFail, bufferVars, Records
<1>c. hand' = Nothing /\ Records(hand)' = {} /\ Records(hand) = {}
  BY <1>a DEF OffsetsFail, Return, Release, Records, IInv, BooksInv, CallInv
<1>1. Shapes'
  BY <1>a, <1>c DEF IInv, Shapes, OffsetsFail, historyVars, bufferVars
<1>2. CallInv'
  BY DEF IInv, BooksInv, CallInv, OffsetsFail, bufferVars, Release, Return
<1>3. PlaceInv'
  BY <1>n, <1>c
     DEF IInv, BooksInv, PlaceInv, OffsetsFail, historyVars,
         bufferVars
<1>4. Accounted'
  BY <1>b, <1>c DEF IInv, BooksInv, LostOnlyForNoId, Accounted, OffsetsFail, historyVars
<1>5. OpenInv'
  BY AfterFailureFacts DEF IInv, BooksInv, CallInv, OpenInv, OffsetsFail, Poison
<1>6. DroppedInv'
  <2>1. /\ dropped' = dropped /\ plan' = plan /\ given' \in {given, given + 1}
        /\ txnState = "Disabled" => txnState' = "Disabled"
    BY <1>b, <1>c, AfterFailureFacts, HeldIsGiven DEF OffsetsFail, historyVars, Poison
  <2>2. Kept' \subseteq Kept \cup {0, given + 1}
    BY <1>b, <1>c, AfterFailureFacts DEF Kept, OffsetsFail, historyVars, Poison
  <2> QED BY <2>1, <2>2, DropsStand
<1> QED BY <1>1, <1>2, <1>3, <1>4, <1>5, <1>6 DEF IInv, BooksInv, LostOnlyForNoId

\* end_transaction: nothing is owed any more.
LEMMA EndOkStep ==
    ASSUME IInv, EndOk
    PROVE  IInv'
<1>a. Records(Nothing) = {} /\ Nothing \in Seqs
  BY NothingFacts
<1>n. \A q \in Partitions : Range(Nothing[q]) = {}
  BY RangeFacts DEF Nothing
<1>b. Records(pending)' = Records(pending)
  BY DEF EndOk, bufferVars, Records
<1>c. hand' = Nothing /\ Records(hand)' = {} /\ Records(hand) = {}
  BY <1>a DEF EndOk, Return, Release, Records, IInv, BooksInv, CallInv
<1>1. Shapes'
  BY <1>a, <1>c DEF IInv, Shapes, EndOk, bufferVars
<1>2. CallInv'
  BY DEF IInv, BooksInv, CallInv, EndOk, bufferVars, Release, Return
<1>3. PlaceInv'
  BY <1>n, <1>c DEF IInv, BooksInv, PlaceInv, EndOk, bufferVars
<1>4. Accounted'
  BY <1>b, <1>c DEF IInv, BooksInv, LostOnlyForNoId, Accounted, EndOk
<1>5. OpenInv'
  BY DEF OpenInv, EndOk
<1>6. DroppedInv'
  <2>1. /\ dropped' = dropped /\ plan' = plan /\ given' \in {given, given + 1}
        /\ txnState = "Disabled" => txnState' = "Disabled"
    BY DEF EndOk, IInv, BooksInv, CallInv
  <2>2. Kept' \subseteq Kept \cup {0, given + 1}
    BY <1>b, <1>c DEF Kept, EndOk
  <2> QED BY <2>1, <2>2, DropsStand
<1> QED BY <1>1, <1>2, <1>3, <1>4, <1>5, <1>6 DEF IInv, BooksInv, LostOnlyForNoId

\* end_transaction fails: the transaction is no longer open.
LEMMA EndFailsStep ==
    ASSUME IInv, EndFails
    PROVE  IInv'
<1>a. Records(Nothing) = {} /\ Nothing \in Seqs
  BY NothingFacts
<1>n. \A q \in Partitions : Range(Nothing[q]) = {}
  BY RangeFacts DEF Nothing
<1>b. Records(pending)' = Records(pending)
  BY DEF EndFails, bufferVars, Records
<1>c. hand' = Nothing /\ Records(hand)' = {} /\ Records(hand) = {}
  BY <1>a DEF EndFails, Return, Release, Records, IInv, BooksInv, CallInv
<1>1. Shapes'
  BY <1>a, <1>c DEF IInv, Shapes, EndFails, historyVars, bufferVars
<1>2. CallInv'
  BY DEF IInv, BooksInv, CallInv, EndFails, bufferVars, Release, Return
<1>3. PlaceInv'
  BY <1>n, <1>c DEF IInv, BooksInv, PlaceInv, EndFails, historyVars, bufferVars
<1>4. Accounted'
  BY <1>b, <1>c DEF IInv, BooksInv, LostOnlyForNoId, Accounted, EndFails, historyVars
<1>5. OpenInv'
  BY AfterFailureFacts DEF IInv, BooksInv, CallInv, OpenInv, EndFails, Poison
<1>6. DroppedInv'
  <2>1. /\ dropped' = dropped /\ plan' = plan /\ given' \in {given, given + 1}
        /\ txnState = "Disabled" => txnState' = "Disabled"
    BY <1>b, <1>c, AfterFailureFacts, HeldIsGiven DEF EndFails, historyVars, Poison
  <2>2. Kept' \subseteq Kept \cup {0, given + 1}
    BY <1>b, <1>c, AfterFailureFacts DEF Kept, EndFails, historyVars, Poison
  <2> QED BY <2>1, <2>2, DropsStand
<1> QED BY <1>1, <1>2, <1>3, <1>4, <1>5, <1>6 DEF IInv, BooksInv, LostOnlyForNoId

\* claim_partitions fails: every batch goes back, or is reported by produce.
LEMMA ClaimFailsStep ==
    ASSUME IInv, ClaimFails
    PROVE  IInv'
<1>a. Records(Nothing) = {} /\ Nothing \in Seqs
  BY NothingFacts
<1>n. \A q \in Partitions : Range(Nothing[q]) = {}
  BY RangeFacts DEF Nothing
<1>b. hand' = Nothing /\ Records(hand)' = {}
  BY <1>a DEF ClaimFails, Return, Release, Records
<1>r. pending' = Restored(hand) /\ pending \in Seqs /\ hand \in Seqs
  BY DEF ClaimFails, IInv, Shapes
<1>c. op = "produce" => pending' = pending /\ Records(pending)' = Records(pending)
  BY <1>r, RestoredFacts DEF Records
<1>d. op # "produce" =>
         /\ pending' \in Seqs
         /\ Records(pending)' = Records(hand) \cup Records(pending)
         /\ \A p \in Partitions :
               Range(pending'[p]) = Range(hand[p]) \cup Range(pending[p])
  <2>1. Records(pending)' = Records(Restored(hand))
    BY <1>r DEF Records
  <2> QED BY <1>r, <2>1, RestoredFacts
<1>1. Shapes'
  BY <1>a, <1>b, <1>c, <1>d DEF IInv, Shapes, ClaimFails
<1>2. CallInv'
  BY AfterFailureFacts
     DEF IInv, BooksInv, CallInv, Producible, ClaimFails, Release,
         Return, Poison
<1>3. PlaceInv'
  <2>1. /\ given' = given /\ plan' = plan /\ dropped' = dropped
        /\ done' = done
        /\ failed' = IF op = "produce" THEN failed \cup Records(hand) ELSE failed
        /\ Records(hand) \subseteq 1 .. given /\ 1 .. given \subseteq 0 .. given
    BY HeldIsGiven, OneMore DEF ClaimFails, GivenUp
  <2>2. /\ \A p \in Partitions : \A n \in Range(pending[p]) \cup Range(hand[p]) :
              n \in 1 .. given /\ plan[n] = p
        /\ done \subseteq 0 .. given /\ failed \subseteq 1 .. given
        /\ dropped \subseteq 1 .. given
    BY DEF IInv, BooksInv, PlaceInv
  <2>3. \A p \in Partitions : Range(hand'[p]) = {}
    BY <1>n, <1>b
  <2>4. \A p \in Partitions :
            Range(pending'[p]) \subseteq Range(hand[p]) \cup Range(pending[p])
    BY <1>c, <1>d
  <2>5. \A p \in Partitions : \A n \in Range(pending'[p]) \cup Range(hand'[p]) :
            n \in 1 .. given' /\ plan'[n] = p
    BY <2>1, <2>2, <2>3, <2>4
  <2>6. /\ done' \subseteq 0 .. given' /\ failed' \subseteq 1 .. given'
        /\ dropped' \subseteq 1 .. given'
    BY <2>1, <2>2
  <2> QED BY <1>b, <2>5, <2>6 DEF PlaceInv
<1>4. Accounted'
  BY <1>b, <1>c, <1>d
     DEF IInv, BooksInv, PlaceInv, LostOnlyForNoId, Accounted, ClaimFails, GivenUp
<1>5. OpenInv'
  BY AfterFailureFacts
     DEF IInv, BooksInv, CallInv, OpenInv, Producible, ClaimFails,
         Poison
<1>6. DroppedInv'
  <2>1. /\ dropped' = dropped /\ plan' = plan /\ given' \in {given, given + 1}
        /\ txnState = "Disabled" => txnState' = "Disabled"
    BY <1>b, <1>c, <1>d, AfterFailureFacts, HeldIsGiven DEF ClaimFails, GivenUp, Poison
  <2>2. Kept' \subseteq Kept \cup {0, given + 1}
    BY <1>b, <1>c, <1>d, AfterFailureFacts DEF Kept, ClaimFails, GivenUp, Poison
  <2> QED BY <2>1, <2>2, DropsStand
<1> QED BY <1>1, <1>2, <1>3, <1>4, <1>5, <1>6 DEF IInv, BooksInv, LostOnlyForNoId

\* Some batches and the others are the whole of what is in hand.
LEMMA PartsOfHand ==
    ASSUME IInv, NEW K \in SUBSET Keys
    PROVE  /\ K \in SUBSET Partitions /\ Keys \ K \in SUBSET Partitions
           /\ Part(K) \in Seqs
           /\ Records(Part(K)) = UNION {Range(hand[p]) : p \in K}
           /\ Records(Part(Keys \ K)) = UNION {Range(hand[p]) : p \in Keys \ K}
           /\ \A p \in Partitions : Range(Part(K)[p]) \subseteq Range(hand[p])
           /\ Records(Part(K)) \cup Records(Part(Keys \ K)) = Records(hand)
           /\ Records(Part(K)) \cap Records(Part(Keys \ K)) = {}
           /\ K = {} => Records(Part(K)) = {}
<1>l. Keys \subseteq Partitions /\ K \in SUBSET Partitions /\ Keys \ K \in SUBSET Partitions
  BY DEF Keys, Filled
<1>m. /\ Part(K) \in Seqs
      /\ Records(Part(K)) = UNION {Range(hand[p]) : p \in K}
      /\ Records(Part(Keys \ K)) = UNION {Range(hand[p]) : p \in Keys \ K}
      /\ \A p \in Partitions : Range(Part(K)[p]) \subseteq Range(hand[p])
  BY <1>l, PartFacts, RangeFacts DEF IInv, Shapes
<1>1. \A p \in Partitions \ Keys : Range(hand[p]) = {}
  BY RangeFacts DEF Keys, Filled
<1>2. \A p, q \in Partitions : p # q => Range(hand[p]) \cap Range(hand[q]) = {}
  BY HeldIsGiven
<1>3. Records(Part(K)) \cup Records(Part(Keys \ K)) = Records(hand)
  <2>1. ASSUME NEW x \in Records(hand)
        PROVE  x \in Records(Part(K)) \cup Records(Part(Keys \ K))
    <3>1. PICK p \in Partitions : x \in Range(hand[p])
      BY DEF Records
    <3>2. p \in K \/ p \in Keys \ K
      BY <1>1, <3>1
    <3> QED BY <1>m, <3>1, <3>2
  <2>2. ASSUME NEW x \in Records(Part(K)) \cup Records(Part(Keys \ K))
        PROVE  x \in Records(hand)
    <3>1. PICK p \in Partitions : x \in Range(hand[p])
      BY <1>l, <1>m, <2>2
    <3> QED BY <3>1 DEF Records
  <2> QED BY <2>1, <2>2
<1>4. Records(Part(K)) \cap Records(Part(Keys \ K)) = {}
  <2> SUFFICES ASSUME NEW x \in Records(Part(K)), x \in Records(Part(Keys \ K))
               PROVE  FALSE
    OBVIOUS
  <2>1. PICK p \in K : x \in Range(hand[p])
    BY <1>m
  <2>2. PICK q \in Keys \ K : x \in Range(hand[q])
    BY <1>m
  <2> QED BY <1>l, <1>2, <2>1, <2>2
<1>5. K = {} => Records(Part(K)) = {}
  BY <1>m
<1> QED BY <1>l, <1>m, <1>3, <1>4, <1>5

\* init_producer_id fails: one batch goes back, or is reported by produce, and
\* the others are dropped, of a producer that is not transactional.
LEMMA StampFailsStep ==
    ASSUME IInv, StampFails
    PROVE  IInv'
<1>a. Records(Nothing) = {} /\ Nothing \in Seqs
  BY NothingFacts
<1>n. \A q \in Partitions : Range(Nothing[q]) = {}
  BY RangeFacts DEF Nothing
<1>b. hand' = Nothing /\ Records(hand)' = {}
  BY <1>a DEF StampFails, Return, Release, Records
<1>0. PICK first \in Keys :
          /\ pending' = Restored(Part({first}))
          /\ failed' = GivenUp(Part({first}))
          /\ dropped' = dropped \cup Records(Part(Keys \ {first}))
  BY DEF StampFails
<1> DEFINE one == Records(Part({first}))
           rest == Records(Part(Keys \ {first}))
<1>p. /\ Part({first}) \in Seqs /\ Keys \subseteq Partitions
      /\ rest = UNION {Range(hand[p]) : p \in Keys \ {first}}
      /\ \A p \in Partitions : Range(Part({first})[p]) \subseteq Range(hand[p])
      /\ one \cup rest = Records(hand) /\ one \cap rest = {}
  <2>1. {first} \in SUBSET Keys /\ Keys \subseteq Partitions
    BY DEF Keys, Filled
  <2> QED BY <2>1, PartsOfHand
<1>t. txnState = "Disabled"
  <2>1. ~identity /\ op \in {"flush", "produce", "commit"}
    BY DEF StampFails, IInv, BooksInv, CallInv
  <2>2. txnState \in {"Disabled", "Open"}
    BY <2>1 DEF IInv, BooksInv, CallInv, Producible
  <2> QED BY <2>1, <2>2 DEF IInv, BooksInv, CallInv
<1>u. /\ dropped' = dropped \cup rest
      /\ failed' = IF op = "produce" THEN failed \cup one ELSE failed
  BY <1>0 DEF GivenUp
<1> HIDE DEF one, rest
<1>s. /\ given' = given /\ plan' = plan /\ done' = done
      /\ dropped' = dropped \cup rest
      /\ failed' = IF op = "produce" THEN failed \cup one ELSE failed
      /\ txnState = "Disabled" /\ txnState' = "Disabled"
  BY <1>t, <1>u DEF StampFails, txnVars
<1>c. op = "produce" => pending' = pending /\ Records(pending)' = Records(pending)
  <2>1. op = "produce" => pending' = pending
    BY <1>0 DEF Restored
  <2> QED BY <2>1 DEF Records
<1>d. op # "produce" =>
         /\ pending' \in Seqs
         /\ Records(pending)' = one \cup Records(pending)
         /\ \A p \in Partitions :
               Range(pending'[p]) = Range(Part({first})[p]) \cup Range(pending[p])
  <2>1. Records(pending)' = Records(Restored(Part({first})))
    BY <1>0 DEF Records
  <2> QED BY <1>0, <1>p, <2>1, RestoredFacts DEF IInv, Shapes, one
<1>g. /\ Records(hand) \subseteq 1 .. given /\ given \in Nat /\ 0 \notin 1 .. given
      /\ \A p \in Partitions : \A n \in Range(pending[p]) \cup Range(hand[p]) :
            n \in 1 .. given /\ plan[n] = p
      /\ done \subseteq 0 .. given /\ failed \subseteq 1 .. given
      /\ dropped \subseteq 1 .. given
      /\ Records(hand) \cap (done \cup failed) = {}
  BY HeldIsGiven DEF IInv, BooksInv, PlaceInv
<1>k. /\ 1 .. given = Records(pending) \cup Records(hand) \cup (done \ {0}) \cup failed
               \cup dropped
      /\ Records(pending) \cap (Records(hand) \cup done \cup failed) = {}
  BY DEF IInv, BooksInv, LostOnlyForNoId, Accounted, Offsets
<1>1. Shapes'
  BY <1>a, <1>b, <1>c, <1>d, <1>s DEF IInv, Shapes
<1>2. CallInv'
  BY DEF IInv, BooksInv, CallInv, StampFails, txnVars, Release, Return
<1>3. PlaceInv'
  <2>1. \A p \in Partitions : Range(hand'[p]) = {}
    BY <1>n, <1>b
  <2>2. \A p \in Partitions :
            Range(pending'[p]) \subseteq Range(hand[p]) \cup Range(pending[p])
    BY <1>c, <1>d, <1>p
  <2>3. \A p \in Partitions : \A n \in Range(pending'[p]) \cup Range(hand'[p]) :
            n \in 1 .. given' /\ plan'[n] = p
    BY <1>g, <1>s, <2>1, <2>2
  <2>4. /\ done' \subseteq 0 .. given' /\ failed' \subseteq 1 .. given'
        /\ dropped' \subseteq 1 .. given'
    BY <1>g, <1>p, <1>s
  <2> QED BY <1>b, <2>3, <2>4 DEF PlaceInv
<1>4. Accounted'
  BY <1>b, <1>c, <1>d, <1>g, <1>k, <1>p, <1>s DEF Accounted, Offsets
<1>5. OpenInv'
  BY <1>s DEF OpenInv
<1>6. DroppedInv'
  <2>1. /\ dropped \cap Kept = {}
        /\ \A n \in dropped : \E m \in 1 .. given : plan[m] # plan[n]
    BY DEF IInv, BooksInv, LostOnlyForNoId, DroppedInv
  <2>2. dropped' \cap Kept' = {}
    <3>1. Kept' \subseteq Kept /\ rest \cap Kept' = {}
      BY <1>b, <1>c, <1>d, <1>g, <1>k, <1>p, <1>s DEF Kept
    <3> QED BY <1>s, <2>1, <3>1
  <2>3. ASSUME NEW n \in rest PROVE \E m \in 1 .. given : plan[m] # plan[n]
    <3>1. PICK p \in Keys \ {first} : n \in Range(hand[p])
      BY <1>p
    <3>2. PICK m : m \in Range(hand[first])
      <4>1. hand[first] \in Seq(Nat) /\ hand[first] # <<>>
        BY DEF IInv, Shapes, Seqs, Keys, Filled
      <4>2. hand[first][1] \in Range(hand[first])
        BY <4>1 DEF Range
      <4> QED BY <4>2
    <3>3. m \in 1 .. given /\ plan[m] = first /\ plan[n] = p /\ p # first
      BY <1>g, <1>p, <3>1, <3>2
    <3> QED BY <3>3
  <2> QED BY <1>s, <2>1, <2>2, <2>3 DEF DroppedInv, Transactional
<1> QED BY <1>1, <1>2, <1>3, <1>4, <1>5, <1>6 DEF IInv, BooksInv, LostOnlyForNoId

\* Deliveries are through: batches are delivered, or go back, each to its
\* buffer.
LEMMA FinishStep ==
    ASSUME IInv, Finish
    PROVE  IInv'
<1>a. Records(Nothing) = {} /\ Nothing \in Seqs
  BY NothingFacts
<1>n. \A q \in Partitions : Range(Nothing[q]) = {}
  BY RangeFacts DEF Nothing
<1>b. hand' = Nothing /\ Records(hand)' = {}
  BY <1>a DEF Finish, Return, Release, Records
<1>l. Lost \in SUBSET Keys
  BY DEF Lost
<1>m. /\ Part(Lost) \in Seqs
      /\ \A p \in Partitions : Range(Part(Lost)[p]) \subseteq Range(hand[p])
  BY <1>l, PartsOfHand
<1>e. /\ Records(Part(Lost)) \cup Records(Part(Keys \ Lost)) = Records(hand)
      /\ Records(Part(Lost)) \cap Records(Part(Keys \ Lost)) = {}
      /\ Lost = {} => Records(Part(Lost)) = {}
  BY <1>l, PartsOfHand
<1>r. pending' = Restored(Part(Lost)) /\ pending \in Seqs /\ hand \in Seqs
  BY DEF Finish, IInv, Shapes
<1>c. op = "produce" => pending' = pending /\ Records(pending)' = Records(pending)
  BY <1>m, <1>r, RestoredFacts DEF Records
<1>d. op # "produce" =>
         /\ pending' \in Seqs
         /\ Records(pending)' = Records(Part(Lost)) \cup Records(pending)
         /\ \A p \in Partitions :
               Range(pending'[p]) = Range(Part(Lost)[p]) \cup Range(pending[p])
  <2>1. Records(pending)' = Records(Restored(Part(Lost)))
    BY <1>r DEF Records
  <2> QED BY <1>m, <1>r, <2>1, RestoredFacts
<1>f. op = "commit" /\ Lost = {} => pending' = Nothing
  <2> SUFFICES ASSUME op = "commit", Lost = {} PROVE pending' = Nothing
    OBVIOUS
  <2>1. pending = Nothing
    BY DEF IInv, BooksInv, CallInv
  <2>2. pending' = [p \in Partitions |-> Part(Lost)[p] \o pending[p]]
    BY DEF Finish, Restored
  <2>3. \A p \in Partitions : Part(Lost)[p] = <<>> /\ pending[p] = <<>>
    BY <2>1 DEF Part, Nothing
  <2> QED BY <2>2, <2>3 DEF Nothing
<1>g. /\ done' = done \cup Records(Part(Keys \ Lost))
      /\ Lost = {} => txnState' = txnState
      /\ Lost # {} => \E e : txnState' = AfterFailure(txnState, e)
  BY DEF Finish, Poison
<1>1. Shapes'
  BY <1>a, <1>b, <1>c, <1>d DEF IInv, Shapes, Finish
<1>2. CallInv'
  BY <1>f, <1>g, AfterFailureFacts
     DEF IInv, BooksInv, CallInv, Producible, Finish, Release, Return
<1>3. PlaceInv'
  <2>1. /\ given' = given /\ plan' = plan /\ dropped' = dropped
        /\ done' = done \cup Records(Part(Keys \ Lost))
        /\ failed' = IF op = "produce" THEN failed \cup Records(Part(Lost)) ELSE failed
        /\ Records(hand) \subseteq 1 .. given /\ 1 .. given \subseteq 0 .. given
    BY HeldIsGiven, OneMore DEF Finish, GivenUp
  <2>2. /\ \A p \in Partitions : \A n \in Range(pending[p]) \cup Range(hand[p]) :
              n \in 1 .. given /\ plan[n] = p
        /\ done \subseteq 0 .. given /\ failed \subseteq 1 .. given
        /\ dropped \subseteq 1 .. given
    BY DEF IInv, BooksInv, PlaceInv
  <2>3. \A p \in Partitions : Range(hand'[p]) = {}
    BY <1>n, <1>b
  <2>4. \A p \in Partitions :
            Range(pending'[p]) \subseteq Range(hand[p]) \cup Range(pending[p])
    BY <1>c, <1>d, <1>m
  <2>5. \A p \in Partitions : \A n \in Range(pending'[p]) \cup Range(hand'[p]) :
            n \in 1 .. given' /\ plan'[n] = p
    BY <2>1, <2>2, <2>3, <2>4
  <2>6. /\ done' \subseteq 0 .. given' /\ failed' \subseteq 1 .. given'
        /\ dropped' \subseteq 1 .. given'
    BY <1>e, <2>1, <2>2
  <2> QED BY <1>b, <2>5, <2>6 DEF PlaceInv
<1>4. Accounted'
  <2>1. /\ given' = given /\ done' = done \cup Records(Part(Keys \ Lost))
        /\ dropped' = dropped
        /\ failed' = IF op = "produce" THEN failed \cup Records(Part(Lost)) ELSE failed
        /\ Records(hand) \subseteq 1 .. given /\ 0 \notin 1 .. given
    BY HeldIsGiven DEF Finish, GivenUp
  <2>2. /\ 1 .. given = Records(pending) \cup Records(hand) \cup (done \ {0}) \cup failed
               \cup dropped
        /\ Records(pending) \cap (Records(hand) \cup done \cup failed) = {}
        /\ Records(hand) \cap (done \cup failed) = {}
    BY DEF IInv, BooksInv, LostOnlyForNoId, Accounted, PlaceInv, Offsets
  <2> QED BY <1>b, <1>c, <1>d, <1>e, <2>1, <2>2 DEF Accounted, Offsets
<1>5. OpenInv'
  BY <1>e, <1>g, AfterFailureFacts
     DEF IInv, BooksInv, CallInv, OpenInv, Producible, Finish
<1>6. DroppedInv'
  <2>1. /\ dropped' = dropped /\ plan' = plan /\ given' \in {given, given + 1}
        /\ txnState = "Disabled" => txnState' = "Disabled"
    BY <1>b, <1>c, <1>d, <1>e, <1>g, AfterFailureFacts, HeldIsGiven DEF Finish, GivenUp
  <2>2. Kept' \subseteq Kept \cup {0, given + 1}
    BY <1>b, <1>c, <1>d, <1>e, <1>g, AfterFailureFacts DEF Kept, Finish, GivenUp
  <2> QED BY <2>1, <2>2, DropsStand
<1> QED BY <1>1, <1>2, <1>3, <1>4, <1>5, <1>6 DEF IInv, BooksInv, LostOnlyForNoId

-----------------------------------------------------------------------------
(* The theorems.                                                           *)

\* The coordinator's unheard work, the attempts of a delivery, the leader and
\* a successor leave the books alone.
LEMMA OtherSteps ==
    ASSUME IInv,
           \/ ClaimUnheard \/ EndUnheard \/ Successor
           \/ \E p \in Partitions : TryOnce(p) \/ AttemptFails(p) \/ Answer(p)
           \/ \E r \in wire : Arrive(r)
    PROVE  IInv'
<1>1. CASE ClaimUnheard
  BY <1>1, SameBooks
     DEF ClaimUnheard, bookVars, bufferVars, txnVars, callVars,
         historyVars
<1>2. CASE EndUnheard
  BY <1>2, SameBooks
     DEF EndUnheard, bookVars, bufferVars, txnVars, callVars,
         historyVars
<1>3. CASE Successor
  BY <1>3, SameBooks
     DEF Successor, bookVars, bufferVars, txnVars, callVars,
         historyVars
<1>4. ASSUME NEW p \in Partitions, TryOnce(p) PROVE IInv'
  BY <1>4, SameBooks DEF TryOnce, bookVars, bufferVars, txnVars, historyVars
<1>5. ASSUME NEW p \in Partitions, AttemptFails(p) PROVE IInv'
  BY <1>5, SameBooks
     DEF AttemptFails, bookVars, bufferVars, txnVars, historyVars
<1>6. ASSUME NEW p \in Partitions, Answer(p) PROVE IInv'
  BY <1>6, SameBooks DEF Answer, bookVars, bufferVars, txnVars, historyVars
<1>7. ASSUME NEW r \in wire, Arrive(r) PROVE IInv'
  BY <1>7, SameBooks
     DEF Arrive, bookVars, bufferVars, txnVars, callVars, historyVars
<1> QED BY <1>1, <1>2, <1>3, <1>4, <1>5, <1>6, <1>7

\* A new producer has nothing on its books.
LEMMA InitBooks == Init => IInv
<1> SUFFICES ASSUME Init PROVE IInv
  OBVIOUS
<1>1. /\ pending = Nothing /\ hand = Nothing /\ given = 0
      /\ done = {} /\ failed = {} /\ dropped = {} /\ owed = {} /\ plan \in Plans
      /\ op = "none" /\ at = "none"
      /\ txnState \in {"Disabled", "Uninitialized"}
  BY DEF Init
<1>2. \A p \in Partitions : Range(Nothing[p]) = {}
  BY RangeFacts DEF Nothing
<1>3. Shapes
  BY <1>1, NothingFacts, ProducerAssumption DEF Shapes
<1>4. CallInv
  BY <1>1 DEF CallInv
<1>5. PlaceInv
  BY <1>1, <1>2, NothingFacts DEF PlaceInv
<1>6. LostOnlyForNoId
  BY <1>1, NothingFacts DEF LostOnlyForNoId, Accounted, DroppedInv
<1>7. OpenInv
  BY <1>1 DEF OpenInv
<1> QED BY <1>3, <1>4, <1>5, <1>6, <1>7 DEF IInv, BooksInv

\* Every step keeps the books.
LEMMA NextBooks == IInv /\ [Next]_vars => IInv'
<1> SUFFICES ASSUME IInv, [Next]_vars PROVE IInv'
  OBVIOUS
<1>1. CASE Caller
  <2>1. CASE \E p \in Partitions : Enqueue(p) \/ EnqueueFull(p) \/ Produce(p)
    BY <2>1, EnqueueStep, EnqueueFullStep, ProduceStep
  <2> QED BY <1>1, <2>1, InitTransactionsStep, BeginTransactionStep,
             CommitTransactionStep, AbortTransactionStep, SendOffsetsStep,
             FlushStep DEF Caller
<1>2. CASE CallStep
  BY <1>2, ClaimOkStep, ClaimFailsStep, OffsetsOkStep, OffsetsFailStep,
     EndOkStep, EndFailsStep, StampStep, StampFailsStep, FinishStep, OtherSteps
     DEF CallStep
<1>3. CASE Network
  BY <1>3, OtherSteps DEF Network
<1>4. CASE UNCHANGED vars
  BY <1>4, SameBooks
     DEF vars, bookVars, bufferVars, txnVars, callVars, historyVars
<1> QED BY <1>1, <1>2, <1>3, <1>4 DEF Next

\* The books hold in every reachable state: of the buffers, of the batches a
\* call has drained and of the reports the caller got, after any failure, with
\* what a flush without a producer id let go entered as dropped.
THEOREM BooksHold == Spec => []BooksInv
<1>1. IInv => BooksInv
  BY DEF IInv
<1> QED BY <1>1, InitBooks, NextBooks, PTL DEF Spec

\* Only a flush whose init_producer_id fails loses records: those of every
\* partition but one, of a producer that is not transactional.  No other
\* failing step of enqueue, flush, produce or commit_transaction loses any,
\* and none is kept for another try after it was reported.
THEOREM OnlyForNoId == Spec => []LostOnlyForNoId
<1>1. IInv => LostOnlyForNoId
  BY DEF IInv, BooksInv
<1> QED BY <1>1, InitBooks, NextBooks, PTL DEF Spec

\* A step that leads to the request for a commit leaves what the transaction
\* owes alone.
LEMMA OwedStands ==
    ASSUME IInv, [Next]_vars, op' = "commit", at' = "end"
    PROVE  owed' = owed
<1>1. CASE Caller
  BY <1>1 DEF Caller, InitTransactions, BeginTransaction, CommitTransaction,
              AbortTransaction, SendOffsets, Flush, Enqueue, EnqueueFull,
              Produce, HandOver, Deliver, callVars, historyVars,
              IInv, BooksInv, CallInv
<1>2. CASE CallStep
  BY <1>2 DEF CallStep, ClaimOk, ClaimFails, OffsetsOk, OffsetsFail, EndOk,
              EndFails, Stamp, StampFails, Finish, TryOnce, AttemptFails,
              Answer, Return, Release, historyVars
<1>3. CASE Network
  BY <1>3 DEF Network, Successor, ClaimUnheard, EndUnheard, Arrive, historyVars
<1>4. CASE UNCHANGED vars
  BY <1>4 DEF vars, historyVars
<1> QED BY <1>1, <1>2, <1>3, <1>4 DEF Next

\* commit_transaction asks for the commit only when everything the transaction
\* was given has been delivered and its offsets were accepted.
THEOREM CommitsWhole == Spec => CommitIsWhole
<1>1. ASSUME IInv, [Next]_vars
      PROVE  (op' = "commit" /\ at' = "end") => owed \subseteq done'
  <2> SUFFICES ASSUME op' = "commit", at' = "end" PROVE owed \subseteq done'
    OBVIOUS
  <2>1. IInv'
    BY <1>1, NextBooks
  <2>2. pending' = Nothing /\ hand' = Nothing /\ txnState' = "Open"
    BY <2>1 DEF IInv, BooksInv, CallInv
  <2>3. Records(pending)' = {} /\ Records(hand)' = {}
    BY <2>2, NothingFacts DEF Records
  <2>4. owed' \subseteq done'
    BY <2>1, <2>2, <2>3 DEF IInv, BooksInv, OpenInv
  <2> QED BY <1>1, <2>4, OwedStands
<1>2. IInv /\ [Next]_vars =>
          [(op' = "commit" /\ at' = "end") => owed \subseteq done']_vars
  BY <1>1
<1> QED BY <1>2, InitBooks, NextBooks, PTL DEF Spec, CommitIsWhole
=============================================================================
