---------------------------- MODULE StreamProofs ----------------------------
(* Proof about Stream, for any partitions, capacity, log and number of       *)
(* connections: a client that reconnects resumes exactly.                    *)
(*                                                                           *)
(* A record passes a partition's queue, its forwarder and the merged stream. *)
(* Each holds a run of the partition's offsets in order; the runs join up,   *)
(* from the pump's position at one end to the running cursor at the other,   *)
(* and the running cursor is the client's token while it is connected.       *)
EXTENDS Stream, TLAPS

Items == [partition : Partitions, offset : Nat]
Maps(S) == UNION {[D -> S] : D \in SUBSET Partitions}
Forwarders == [at : {"recv", "send", "done"}, item : Items \cup {<<>>}]

StreamTypes ==
    stream \in [open : BOOLEAN, covered : SUBSET Partitions, merged : Seq(Items),
                running : Maps(Nat), position : Maps(Nat), queue : Maps(Seq(Items)),
                pump : Maps({"live", "ended"}), forwarder : Maps(Forwarders)]

\* What each function of the stream is defined on.
Domains ==
    /\ DOMAIN stream.position = stream.covered
    /\ DOMAIN stream.queue = stream.covered
    /\ DOMAIN stream.pump = stream.covered
    /\ DOMAIN stream.forwarder = stream.covered

ClientTypes ==
    client \in [transport : {"sse", "ws"}, from : {"earliest", "latest"},
                connected : BOOLEAN, token : Maps(Nat), received : [Partitions -> Seq(Nat)]]

TypeInv ==
    /\ StreamTypes /\ Domains /\ ClientTypes
    /\ log \in [Partitions -> Nat] /\ exists \subseteq Partitions
    /\ stream.covered \subseteq exists
    /\ DOMAIN client.token \subseteq exists

\* The records of p in seq are those with the offsets above lo up to hi, in
\* this order; between them there may be anything else.
Holds(seq, p, lo, hi) ==
    /\ lo <= hi
    /\ \A i \in 1 .. Len(seq) :
          seq[i].partition = p /\ seq[i].offset # 0 =>
              lo < seq[i].offset /\ seq[i].offset <= hi
    /\ \A i, j \in 1 .. Len(seq) :
          /\ i < j
          /\ seq[i].partition = p /\ seq[i].offset # 0
          /\ seq[j].partition = p /\ seq[j].offset # 0
          => seq[i].offset < seq[j].offset
    /\ \A x \in lo + 1 .. hi : \E i \in 1 .. Len(seq) :
          seq[i].partition = p /\ seq[i].offset = x

\* From the last record written, through the merged stream and the forwarder,
\* to the last one pushed: lo is where the merged stream begins, mid where
\* it ends.
Joined(p, lo, mid) ==
    /\ Holds(stream.merged, p, lo, mid)
    /\ ~At(p, "done") =>
          IF At(p, "send") /\ ~IsFailure(stream.forwarder[p].item)
          THEN /\ stream.forwarder[p].item.offset = mid + 1
               /\ Holds(stream.queue[p], p, mid + 1, stream.position[p])
          ELSE Holds(stream.queue[p], p, mid, stream.position[p])

\* lo is the running cursor; for a partition it does not name yet, where the
\* stream began.
Begins(p, lo) ==
    IF p \in DOMAIN stream.running THEN lo = stream.running[p]
    ELSE client.from = "earliest" => lo = 0

\* What is under way belongs to the partition it is under way for.
Sorted ==
    \A p \in stream.covered :
        /\ \A i \in 1 .. Len(stream.queue[p]) : stream.queue[p][i].partition = p
        /\ At(p, "send") => stream.forwarder[p].item \in Items
        /\ At(p, "send") => stream.forwarder[p].item.partition = p

PipeInv ==
    stream.open =>
        /\ DOMAIN stream.running \subseteq stream.covered
        /\ \A i \in 1 .. Len(stream.merged) : stream.merged[i].partition \in stream.covered
        /\ \A p \in stream.covered : \E lo, mid \in Nat : Joined(p, lo, mid) /\ Begins(p, lo)

\* While the client is there, the running cursor is its token.
CursorInv ==
    client.connected =>
        /\ stream.open
        /\ DOMAIN stream.running = DOMAIN client.token
        /\ \A p \in DOMAIN client.token : stream.running[p] = client.token[p]

IInv == TypeInv /\ Sorted /\ PipeInv /\ CursorInv /\ ResumesExactly

-----------------------------------------------------------------------------
(* Partial functions on the partitions.                                      *)

LEMMA MapFacts ==
    ASSUME NEW S, NEW f \in Maps(S)
    PROVE  /\ f \in [DOMAIN f -> S] /\ DOMAIN f \subseteq Partitions
           /\ \A p \in DOMAIN f : f[p] \in S
  BY DEF Maps

LEMMA MapIs ==
    ASSUME NEW S, NEW D \in SUBSET Partitions, NEW f \in [D -> S]
    PROVE  f \in Maps(S) /\ DOMAIN f = D
  BY DEF Maps

LEMMA MapSet ==
    ASSUME NEW S, NEW f \in Maps(S), NEW p \in DOMAIN f, NEW x \in S
    PROVE  /\ [f EXCEPT ![p] = x] \in Maps(S) /\ DOMAIN [f EXCEPT ![p] = x] = DOMAIN f
           /\ [f EXCEPT ![p] = x][p] = x
           /\ \A q \in DOMAIN f \ {p} : [f EXCEPT ![p] = x][q] = f[q]
  <1>1. f \in [DOMAIN f -> S] /\ DOMAIN f \in SUBSET Partitions
    BY MapFacts
  <1>2. [f EXCEPT ![p] = x] \in [DOMAIN f -> S]
    BY <1>1
  <1> QED BY <1>1, <1>2, MapIs

LEMMA EmptyMap ==
    ASSUME NEW S
    PROVE  <<>> \in Maps(S) /\ DOMAIN <<>> = {}
  <1>1. <<>> \in [{} -> S]
    OBVIOUS
  <1> QED BY <1>1, MapIs

-----------------------------------------------------------------------------
(* Runs of offsets.                                                          *)

LEMMA AppendFacts ==
    ASSUME NEW seq \in Seq(Items), NEW item \in Items
    PROVE  /\ Append(seq, item) \in Seq(Items)
           /\ \A i \in 1 .. Len(Append(seq, item)) :
                 \/ Append(seq, item)[i] = item
                 \/ i \in 1 .. Len(seq) /\ Append(seq, item)[i] = seq[i]
  <1> DEFINE new == Append(seq, item)
             n == Len(seq)
  <1>1. /\ new \in Seq(Items) /\ Len(new) = n + 1 /\ new[n + 1] = item /\ n \in Nat
        /\ \A i \in 1 .. n : new[i] = seq[i]
    OBVIOUS
  <1> HIDE DEF new, n
  <1>2. \A i \in 1 .. n + 1 : i \in 1 .. n \/ i = n + 1
    BY <1>1
  <1>3. \A i \in 1 .. Len(new) : new[i] = item \/ (i \in 1 .. n /\ new[i] = seq[i])
    BY <1>1, <1>2
  <1> QED BY <1>1, <1>3 DEF new, n

\* What the client has once another offset has reached it.
LEMMA OneMoreOffset ==
    ASSUME NEW got \in Seq(Nat), NEW x \in Nat
    PROVE  LET longer == Append(got, x) IN
             /\ longer # <<>> /\ Len(longer) = Len(got) + 1 /\ longer[Len(longer)] = x
             /\ Len(got) \in Nat /\ \A i \in 1 .. Len(got) : longer[i] = got[i]
             /\ Last(longer) = x
  <1>1. PICK t : t = Append(got, x)
    OBVIOUS
  <1>2. /\ Len(t) = Len(got) + 1 /\ Len(got) \in Nat /\ t[Len(got) + 1] = x
        /\ \A i \in 1 .. Len(got) : t[i] = got[i]
    BY <1>1
  <1>3. t # <<>>
    BY <1>2
  <1>4. Last(t) = x
    BY <1>2 DEF Last
  <1> QED BY <1>1, <1>2, <1>3, <1>4

LEMMA HoldsEmpty ==
    ASSUME NEW p, NEW lo \in Nat
    PROVE  Holds(<<>>, p, lo, lo)
  BY DEF Holds

LEMMA HoldsAppend ==
    ASSUME NEW seq \in Seq(Items), NEW item \in Items, NEW p, NEW lo \in Nat, NEW hi \in Nat,
           Holds(seq, p, lo, hi), item.partition = p, item.offset = hi + 1
    PROVE  Holds(Append(seq, item), p, lo, hi + 1)
  <1> DEFINE new == Append(seq, item)
             n == Len(seq)
  <1>1. /\ new \in Seq(Items) /\ Len(new) = n + 1 /\ new[n + 1] = item /\ n \in Nat
        /\ \A i \in 1 .. n : new[i] = seq[i] /\ seq[i] \in Items
    OBVIOUS
  <1> HIDE DEF new, n
  <1>2. \A i \in 1 .. n + 1 : i \in 1 .. n \/ i = n + 1
    BY <1>1
  <1>3. lo <= hi + 1
    BY DEF Holds
  <1>4. ASSUME NEW i \in 1 .. Len(new), new[i].partition = p, new[i].offset # 0
        PROVE  lo < new[i].offset /\ new[i].offset <= hi + 1
    <2>1. CASE i \in 1 .. n
      <3>1. lo < seq[i].offset /\ seq[i].offset <= hi
        BY <2>1, <1>1, <1>4 DEF Holds, n
      <3>2. seq[i].offset \in Nat
        BY <2>1, <1>1 DEF Items
      <3> QED BY <3>1, <3>2, <2>1, <1>1
    <2>2. CASE i = n + 1
      BY <2>2, <1>1 DEF Holds
    <2> QED BY <1>1, <1>2, <2>1, <2>2
  <1>5. ASSUME NEW i \in 1 .. Len(new), NEW j \in 1 .. Len(new), i < j,
               new[i].partition = p, new[i].offset # 0,
               new[j].partition = p, new[j].offset # 0
        PROVE  new[i].offset < new[j].offset
    <2>1. i \in 1 .. n
      BY <1>1, <1>5
    <2>2. CASE j \in 1 .. n
      BY <2>1, <2>2, <1>1, <1>5 DEF Holds, n
    <2>3. CASE j = n + 1
      BY <2>1, <2>3, <1>1, <1>5 DEF Holds, Items, n
    <2> QED BY <1>1, <1>2, <2>2, <2>3
  <1>6. ASSUME NEW x \in lo + 1 .. hi + 1
        PROVE  \E i \in 1 .. Len(new) : new[i].partition = p /\ new[i].offset = x
    <2>1. CASE x = hi + 1
      BY <2>1, <1>1
    <2>2. CASE x # hi + 1
      <3>0. x \in lo + 1 .. hi
        BY <2>2
      <3>1. PICK i \in 1 .. n : seq[i].partition = p /\ seq[i].offset = x
        BY <3>0, SMTT(30) DEF Holds, n
      <3>2. i \in 1 .. Len(new) /\ new[i] = seq[i]
        BY <1>1
      <3> QED BY <3>1, <3>2
    <2> QED BY <2>1, <2>2
  <1> QED BY <1>3, <1>4, <1>5, <1>6 DEF Holds, new

LEMMA HoldsAppendOther ==
    ASSUME NEW seq \in Seq(Items), NEW item \in Items, NEW p, NEW lo \in Nat, NEW hi \in Nat,
           Holds(seq, p, lo, hi), item.partition # p \/ item.offset = 0
    PROVE  Holds(Append(seq, item), p, lo, hi)
  <1> DEFINE new == Append(seq, item)
             n == Len(seq)
  <1>1. /\ new \in Seq(Items) /\ Len(new) = n + 1 /\ new[n + 1] = item /\ n \in Nat
        /\ \A i \in 1 .. n : new[i] = seq[i]
    OBVIOUS
  <1> HIDE DEF new
  <1>2. \A i \in 1 .. n + 1 : i \in 1 .. n \/ i = n + 1
    BY <1>1
  <1>3. \A i \in 1 .. Len(new) : new[i].partition = p /\ new[i].offset # 0 =>
           i \in 1 .. n /\ new[i] = seq[i]
    BY <1>1, <1>2
  <1>4. ASSUME NEW i \in 1 .. Len(new), new[i].partition = p, new[i].offset # 0
        PROVE  lo < new[i].offset /\ new[i].offset <= hi
    BY <1>3, <1>4 DEF Holds
  <1>5. ASSUME NEW i \in 1 .. Len(new), NEW j \in 1 .. Len(new), i < j,
               new[i].partition = p, new[i].offset # 0,
               new[j].partition = p, new[j].offset # 0
        PROVE  new[i].offset < new[j].offset
    BY <1>3, <1>5 DEF Holds
  <1>6. ASSUME NEW x \in lo + 1 .. hi
        PROVE  \E i \in 1 .. Len(new) : new[i].partition = p /\ new[i].offset = x
    <2>1. PICK i \in 1 .. n : seq[i].partition = p /\ seq[i].offset = x
      BY DEF Holds
    <2> QED BY <2>1, <1>1
  <1>7. lo <= hi
    BY DEF Holds
  <1> QED BY <1>4, <1>5, <1>6, <1>7 DEF Holds, new

LEMMA TailFacts ==
    ASSUME NEW seq \in Seq(Items), seq # <<>>
    PROVE  /\ Head(seq) = seq[1] /\ Head(seq) \in Items
           /\ Tail(seq) \in Seq(Items) /\ Len(Tail(seq)) = Len(seq) - 1
           /\ Len(seq) \in Nat \ {0} /\ 1 \in 1 .. Len(seq)
           /\ \A i \in 1 .. Len(Tail(seq)) : i + 1 \in 1 .. Len(seq) /\ Tail(seq)[i] = seq[i + 1]
           /\ \A i \in 1 .. Len(seq) : i # 1 =>
                 i - 1 \in 1 .. Len(Tail(seq)) /\ Tail(seq)[i - 1] = seq[i]
           /\ \A i \in 1 .. Len(seq) : seq[i] \in Items
  OBVIOUS

LEMMA HoldsTail ==
    ASSUME NEW seq \in Seq(Items), NEW p, NEW lo \in Nat, NEW hi \in Nat,
           seq # <<>>, Holds(seq, p, lo, hi), Head(seq).partition = p, Head(seq).offset # 0
    PROVE  Head(seq).offset = lo + 1 /\ Holds(Tail(seq), p, lo + 1, hi)
  <1> USE TailFacts
  <1> DEFINE t == Tail(seq)
  <1>1. lo < seq[1].offset /\ seq[1].offset <= hi /\ seq[1].offset \in Nat /\ lo + 1 <= hi
    <2>1. lo < seq[1].offset /\ seq[1].offset <= hi
      BY DEF Holds
    <2>2. seq[1].offset \in Nat
      BY DEF Items
    <2> QED BY <2>1, <2>2
  <1>2. seq[1].offset = lo + 1
    <2> SUFFICES ASSUME seq[1].offset # lo + 1 PROVE FALSE
      OBVIOUS
    <2>1. PICK i \in 1 .. Len(seq) : seq[i].partition = p /\ seq[i].offset = lo + 1
      BY <1>1 DEF Holds
    <2>2. 1 < i /\ lo + 1 # 0
      BY <2>1
    <2>3. seq[1].offset < seq[i].offset
      BY <2>1, <2>2 DEF Holds
    <2> QED BY <2>1, <2>3, <1>1
  <1>3. ASSUME NEW i \in 1 .. Len(t), t[i].partition = p, t[i].offset # 0
        PROVE  lo + 1 < t[i].offset /\ t[i].offset <= hi
    <2>1. t[i] = seq[i + 1] /\ i + 1 \in 1 .. Len(seq) /\ 1 < i + 1
      OBVIOUS
    <2>2. seq[1].offset < seq[i + 1].offset
      BY <2>1, <1>3 DEF Holds
    <2> QED BY <2>1, <2>2, <1>2, <1>3 DEF Holds
  <1>4. ASSUME NEW i \in 1 .. Len(t), NEW j \in 1 .. Len(t), i < j,
               t[i].partition = p, t[i].offset # 0, t[j].partition = p, t[j].offset # 0
        PROVE  t[i].offset < t[j].offset
    <2>1. /\ t[i] = seq[i + 1] /\ i + 1 \in 1 .. Len(seq)
          /\ t[j] = seq[j + 1] /\ j + 1 \in 1 .. Len(seq) /\ i + 1 < j + 1
      BY <1>4
    <2> QED BY <2>1, <1>4 DEF Holds
  <1>5. ASSUME NEW x \in lo + 1 + 1 .. hi
        PROVE  \E i \in 1 .. Len(t) : t[i].partition = p /\ t[i].offset = x
    <2>1. PICK i \in 1 .. Len(seq) : seq[i].partition = p /\ seq[i].offset = x
      BY DEF Holds
    <2>2. i # 1
      BY <2>1, <1>2
    <2>3. i - 1 \in 1 .. Len(t) /\ t[i - 1] = seq[i]
      BY <2>2
    <2> QED BY <2>1, <2>3
  <1> QED BY <1>1, <1>2, <1>3, <1>4, <1>5 DEF Holds

LEMMA HoldsTailOther ==
    ASSUME NEW seq \in Seq(Items), NEW p, NEW lo \in Nat, NEW hi \in Nat,
           seq # <<>>, Holds(seq, p, lo, hi), Head(seq).partition # p \/ Head(seq).offset = 0
    PROVE  Holds(Tail(seq), p, lo, hi)
  <1> USE TailFacts
  <1> DEFINE t == Tail(seq)
  <1>1. ASSUME NEW i \in 1 .. Len(t), t[i].partition = p, t[i].offset # 0
        PROVE  lo < t[i].offset /\ t[i].offset <= hi
    BY <1>1 DEF Holds
  <1>2. ASSUME NEW i \in 1 .. Len(t), NEW j \in 1 .. Len(t), i < j,
               t[i].partition = p, t[i].offset # 0, t[j].partition = p, t[j].offset # 0
        PROVE  t[i].offset < t[j].offset
    <2>1. /\ t[i] = seq[i + 1] /\ i + 1 \in 1 .. Len(seq)
          /\ t[j] = seq[j + 1] /\ j + 1 \in 1 .. Len(seq) /\ i + 1 < j + 1
      BY <1>2
    <2> QED BY <2>1, <1>2 DEF Holds
  <1>3. ASSUME NEW x \in lo + 1 .. hi
        PROVE  \E i \in 1 .. Len(t) : t[i].partition = p /\ t[i].offset = x
    <2>1. PICK i \in 1 .. Len(seq) : seq[i].partition = p /\ seq[i].offset = x
      BY DEF Holds
    <2>2. i # 1
      BY <2>1
    <2> QED BY <2>1, <2>2
  <1>4. lo <= hi
    BY DEF Holds
  <1> QED BY <1>1, <1>2, <1>3, <1>4 DEF Holds

-----------------------------------------------------------------------------
(* The stream and its fields.                                                *)

LEMMA ShapeFacts ==
    ASSUME TypeInv
    PROVE  /\ stream.open \in BOOLEAN /\ stream.covered \subseteq Partitions
           /\ stream.merged \in Seq(Items) /\ stream.running \in Maps(Nat)
           /\ stream.position \in Maps(Nat) /\ stream.queue \in Maps(Seq(Items))
           /\ stream.pump \in Maps({"live", "ended"}) /\ stream.forwarder \in Maps(Forwarders)
           /\ \A p \in stream.covered :
                 /\ p \in DOMAIN stream.position /\ stream.position[p] \in Nat
                 /\ p \in DOMAIN stream.queue /\ stream.queue[p] \in Seq(Items)
                 /\ p \in DOMAIN stream.pump
                 /\ p \in DOMAIN stream.forwarder /\ stream.forwarder[p] \in Forwarders
  <1>1. /\ stream.open \in BOOLEAN /\ stream.covered \subseteq Partitions
        /\ stream.merged \in Seq(Items) /\ stream.running \in Maps(Nat)
        /\ stream.position \in Maps(Nat) /\ stream.queue \in Maps(Seq(Items))
        /\ stream.pump \in Maps({"live", "ended"}) /\ stream.forwarder \in Maps(Forwarders)
    BY DEF TypeInv, StreamTypes
  <1> QED BY <1>1, MapFacts DEF TypeInv, Domains

\* A partition whose part of the stream a step leaves alone.
LEMMA JoinedSame ==
    ASSUME NEW q, stream'.covered = stream.covered, stream'.merged = stream.merged,
           stream'.running = stream.running, client'.from = client.from,
           stream'.queue[q] = stream.queue[q], stream'.position[q] = stream.position[q],
           stream'.forwarder[q] = stream.forwarder[q], NEW lo, NEW mid
    PROVE  /\ Joined(q, lo, mid) => Joined(q, lo, mid)'
           /\ Begins(q, lo) => Begins(q, lo)'
  BY DEF Joined, Begins, At

LEMMA ClientSame ==
    ASSUME CursorInv, ResumesExactly, client' = client, stream'.running = stream.running,
           stream'.open = stream.open
    PROVE  CursorInv' /\ ResumesExactly'
  BY DEF CursorInv, ResumesExactly

\* A step in one partition that leaves the merged stream alone.
LEMMA OnePartition ==
    ASSUME IInv, TypeInv', client' = client, NEW p \in stream.covered,
           stream'.open = stream.open, stream'.covered = stream.covered,
           stream'.running = stream.running, stream'.merged = stream.merged,
           \A q \in stream.covered \ {p} : /\ stream'.queue[q] = stream.queue[q]
                                           /\ stream'.position[q] = stream.position[q]
                                           /\ stream'.forwarder[q] = stream.forwarder[q],
           \A i \in 1 .. Len(stream'.queue[p]) : stream'.queue[p][i].partition = p,
           stream'.forwarder[p].at = "send" =>
              stream'.forwarder[p].item \in Items /\ stream'.forwarder[p].item.partition = p,
           stream.open => \A lo, mid \in Nat : Joined(p, lo, mid) => Joined(p, lo, mid)'
    PROVE  IInv'
  <1> USE DEF IInv
  <1>1. Sorted'
    BY DEF Sorted, At
  <1>2. PipeInv'
    <2> SUFFICES ASSUME stream.open
                 PROVE  /\ DOMAIN stream'.running \subseteq stream'.covered
                        /\ \A i \in 1 .. Len(stream'.merged) :
                              stream'.merged[i].partition \in stream'.covered
                        /\ \A q \in stream.covered :
                              \E lo, mid \in Nat : Joined(q, lo, mid)' /\ Begins(q, lo)'
      BY DEF PipeInv
    <2>1. ASSUME NEW q \in stream.covered
          PROVE  \E lo, mid \in Nat : Joined(q, lo, mid)' /\ Begins(q, lo)'
      <3>1. PICK lo \in Nat, mid \in Nat : Joined(q, lo, mid) /\ Begins(q, lo)
        BY DEF PipeInv
      <3>2. Begins(q, lo)'
        BY <3>1 DEF Begins
      <3>3. CASE q = p
        BY <3>1, <3>2, <3>3
      <3>4. CASE q # p
        BY <3>1, <3>2, <3>4, JoinedSame
      <3> QED BY <3>3, <3>4
    <2> QED BY <2>1 DEF PipeInv
  <1> QED BY <1>1, <1>2, ClientSame

LEMMA PushKeeps ==
    ASSUME IInv, NEW p \in Partitions, Push(p)
    PROVE  IInv'
  <1> USE DEF IInv
  <1> DEFINE item == Record(p, stream.position[p] + 1)
             next == stream.position[p] + 1
             position == [stream.position EXCEPT ![p] = next]
             longer == Append(stream.queue[p], item)
             queue == [stream.queue EXCEPT ![p] = longer]
  <1>1. /\ p \in stream.covered /\ stream.forwarder[p].at # "done"
        /\ stream' = [stream EXCEPT !.position = position, !.queue = queue]
        /\ UNCHANGED <<log, exists, down, client, connects>>
    BY DEF Push, Pumps
  <1>2. item \in Items /\ item.partition = p /\ item.offset = stream.position[p] + 1
    BY <1>1, ShapeFacts DEF Record, Items
  <1>3. longer \in Seq(Items) /\ next \in Nat
    BY <1>1, <1>2, ShapeFacts
  <1> HIDE DEF item, longer, next
  <1>4. /\ position \in Maps(Nat) /\ DOMAIN position = DOMAIN stream.position
        /\ position[p] = next
        /\ \A q \in stream.covered \ {p} : position[q] = stream.position[q]
    BY <1>1, <1>3, ShapeFacts, MapSet DEF TypeInv, Domains
  <1>5. /\ queue \in Maps(Seq(Items)) /\ DOMAIN queue = DOMAIN stream.queue
        /\ queue[p] = longer
        /\ \A q \in stream.covered \ {p} : queue[q] = stream.queue[q]
    BY <1>1, <1>3, ShapeFacts, MapSet DEF TypeInv, Domains
  <1> HIDE DEF position, queue
  <1>6. /\ StreamTypes' /\ stream'.position = position /\ stream'.queue = queue
        /\ stream'.open = stream.open /\ stream'.covered = stream.covered
        /\ stream'.merged = stream.merged /\ stream'.running = stream.running
        /\ stream'.pump = stream.pump /\ stream'.forwarder = stream.forwarder
    BY <1>1, <1>4, <1>5 DEF TypeInv, StreamTypes
  <1>7. TypeInv'
    BY <1>1, <1>4, <1>5, <1>6 DEF TypeInv, Domains, ClientTypes
  <1>8. \A i \in 1 .. Len(stream'.queue[p]) : stream'.queue[p][i].partition = p
    <2>1. \A i \in 1 .. Len(stream.queue[p]) : stream.queue[p][i].partition = p
      BY <1>1 DEF Sorted
    <2>2. stream.queue[p] \in Seq(Items)
      BY <1>1, ShapeFacts
    <2>3. \A i \in 1 .. Len(longer) :
             \/ longer[i] = item
             \/ i \in 1 .. Len(stream.queue[p]) /\ longer[i] = stream.queue[p][i]
      BY <1>2, <2>2, AppendFacts DEF longer
    <2> QED BY <1>2, <1>5, <1>6, <2>1, <2>3
  <1>9. ASSUME NEW lo \in Nat, NEW mid \in Nat, Joined(p, lo, mid)
        PROVE  Joined(p, lo, mid)'
    <2>1. ~At(p, "done")
      BY <1>1 DEF At
    <2>2. stream.queue[p] \in Seq(Items) /\ stream.position[p] \in Nat
      BY <1>1, ShapeFacts
    <2>3. \A low \in Nat : Holds(stream.queue[p], p, low, stream.position[p]) =>
             Holds(stream'.queue[p], p, low, stream'.position[p])
      <3>1. stream'.queue[p] = Append(stream.queue[p], item)
            /\ stream'.position[p] = stream.position[p] + 1
        BY <1>4, <1>5, <1>6 DEF longer, next
      <3> QED BY <1>2, <2>2, <3>1, HoldsAppend
    <2>4. stream'.forwarder[p] = stream.forwarder[p] /\ stream'.covered = stream.covered
          /\ stream'.merged = stream.merged
      BY <1>6
    <2> QED BY <1>9, <2>1, <2>3, <2>4 DEF Joined, At
  <1>10. stream'.forwarder[p].at = "send" =>
            stream'.forwarder[p].item \in Items /\ stream'.forwarder[p].item.partition = p
    BY <1>1, <1>6 DEF Sorted, At
  <1> QED BY <1>1, <1>4, <1>5, <1>6, <1>7, <1>8, <1>9, <1>10, OnePartition

LEMMA FailKeeps ==
    ASSUME IInv, NEW p \in Partitions, Fail(p)
    PROVE  IInv'
  <1> USE DEF IInv
  <1> DEFINE item == Failure(p)
             pump == [stream.pump EXCEPT ![p] = "ended"]
             longer == Append(stream.queue[p], item)
             queue == [stream.queue EXCEPT ![p] = longer]
  <1>1. /\ p \in stream.covered /\ stream.forwarder[p].at # "done"
        /\ stream' = [stream EXCEPT !.pump = pump, !.queue = queue]
        /\ UNCHANGED <<log, exists, down, client, connects>>
    BY DEF Fail, Pumps
  <1>2. item \in Items /\ item.partition = p /\ item.offset = 0
    BY <1>1, ShapeFacts DEF Failure, Items
  <1>3. longer \in Seq(Items)
    BY <1>1, <1>2, ShapeFacts
  <1> HIDE DEF item, longer
  <1>4. pump \in Maps({"live", "ended"}) /\ DOMAIN pump = DOMAIN stream.pump
    BY <1>1, ShapeFacts, MapSet
  <1>5. /\ queue \in Maps(Seq(Items)) /\ DOMAIN queue = DOMAIN stream.queue
        /\ queue[p] = longer
        /\ \A q \in stream.covered \ {p} : queue[q] = stream.queue[q]
    BY <1>1, <1>3, ShapeFacts, MapSet DEF TypeInv, Domains
  <1> HIDE DEF pump, queue
  <1>6. /\ StreamTypes' /\ stream'.pump = pump /\ stream'.queue = queue
        /\ stream'.open = stream.open /\ stream'.covered = stream.covered
        /\ stream'.merged = stream.merged /\ stream'.running = stream.running
        /\ stream'.position = stream.position /\ stream'.forwarder = stream.forwarder
    BY <1>1, <1>4, <1>5 DEF TypeInv, StreamTypes
  <1>7. TypeInv'
    BY <1>1, <1>4, <1>5, <1>6 DEF TypeInv, Domains, ClientTypes
  <1>8. \A i \in 1 .. Len(stream'.queue[p]) : stream'.queue[p][i].partition = p
    <2>1. \A i \in 1 .. Len(stream.queue[p]) : stream.queue[p][i].partition = p
      BY <1>1 DEF Sorted
    <2>2. stream.queue[p] \in Seq(Items)
      BY <1>1, ShapeFacts
    <2>3. \A i \in 1 .. Len(longer) :
             \/ longer[i] = item
             \/ i \in 1 .. Len(stream.queue[p]) /\ longer[i] = stream.queue[p][i]
      BY <1>2, <2>2, AppendFacts DEF longer
    <2> QED BY <1>2, <1>5, <1>6, <2>1, <2>3
  <1>9. ASSUME NEW lo \in Nat, NEW mid \in Nat, Joined(p, lo, mid)
        PROVE  Joined(p, lo, mid)'
    <2>1. ~At(p, "done")
      BY <1>1 DEF At
    <2>2. stream.queue[p] \in Seq(Items) /\ stream.position[p] \in Nat
      BY <1>1, ShapeFacts
    <2>3. \A low \in Nat : Holds(stream.queue[p], p, low, stream.position[p]) =>
             Holds(stream'.queue[p], p, low, stream'.position[p])
      BY <1>2, <1>5, <1>6, <2>2, HoldsAppendOther DEF longer
    <2>4. stream'.forwarder[p] = stream.forwarder[p] /\ stream'.covered = stream.covered
          /\ stream'.merged = stream.merged
      BY <1>6
    <2> QED BY <1>9, <2>1, <2>3, <2>4 DEF Joined, At
  <1>10. stream'.forwarder[p].at = "send" =>
            stream'.forwarder[p].item \in Items /\ stream'.forwarder[p].item.partition = p
    BY <1>1, <1>6 DEF Sorted, At
  <1> QED BY <1>1, <1>5, <1>6, <1>7, <1>8, <1>9, <1>10, OnePartition

\* A new state for the forwarder of p, and a new queue.
LEMMA ForwarderSet ==
    ASSUME TypeInv, NEW p \in stream.covered, NEW f \in Forwarders, NEW s \in Seq(Items),
           stream' = [stream EXCEPT !.forwarder[p] = f, !.queue[p] = s],
           UNCHANGED <<log, exists, client>>
    PROVE  /\ TypeInv' /\ stream'.forwarder[p] = f /\ stream'.queue[p] = s
           /\ stream'.open = stream.open /\ stream'.covered = stream.covered
           /\ stream'.merged = stream.merged /\ stream'.running = stream.running
           /\ stream'.position = stream.position
           /\ \A q \in stream.covered \ {p} : /\ stream'.queue[q] = stream.queue[q]
                                              /\ stream'.forwarder[q] = stream.forwarder[q]
  <1> DEFINE forwarder == [stream.forwarder EXCEPT ![p] = f]
             queue == [stream.queue EXCEPT ![p] = s]
  <1>1. /\ forwarder \in Maps(Forwarders) /\ DOMAIN forwarder = DOMAIN stream.forwarder
        /\ forwarder[p] = f
        /\ \A q \in stream.covered \ {p} : forwarder[q] = stream.forwarder[q]
    BY ShapeFacts, MapSet DEF TypeInv, Domains
  <1>2. /\ queue \in Maps(Seq(Items)) /\ DOMAIN queue = DOMAIN stream.queue
        /\ queue[p] = s
        /\ \A q \in stream.covered \ {p} : queue[q] = stream.queue[q]
    BY ShapeFacts, MapSet DEF TypeInv, Domains
  <1>3. stream' = [stream EXCEPT !.forwarder = forwarder, !.queue = queue]
    OBVIOUS
  <1> HIDE DEF forwarder, queue
  <1>4. /\ StreamTypes' /\ stream'.forwarder = forwarder /\ stream'.queue = queue
        /\ stream'.open = stream.open /\ stream'.covered = stream.covered
        /\ stream'.merged = stream.merged /\ stream'.running = stream.running
        /\ stream'.pump = stream.pump /\ stream'.position = stream.position
    BY <1>1, <1>2, <1>3 DEF TypeInv, StreamTypes
  <1> QED BY <1>1, <1>2, <1>4 DEF TypeInv, Domains, ClientTypes

LEMMA ForwardKeeps ==
    ASSUME IInv, NEW p \in Partitions, Forward(p)
    PROVE  IInv'
  <1> USE DEF IInv
  <1> DEFINE item == Head(stream.queue[p])
             rest == Tail(stream.queue[p])
             f == [at |-> "send", item |-> item]
  <1>1. /\ p \in stream.covered /\ stream.forwarder[p].at = "recv" /\ stream.queue[p] # <<>>
        /\ stream' = [stream EXCEPT !.forwarder[p] = f, !.queue[p] = rest]
        /\ UNCHANGED <<log, exists, down, client, connects>>
    BY DEF Forward, At
  <1>2. stream.queue[p] \in Seq(Items) /\ stream.position[p] \in Nat
    BY <1>1, ShapeFacts
  <1>3. item \in Items /\ rest \in Seq(Items) /\ item.partition = p
    BY <1>1, <1>2, TailFacts DEF Sorted
  <1>4. \A i \in 1 .. Len(rest) : rest[i].partition = p
    BY <1>1, <1>2, TailFacts DEF Sorted
  <1>5. \A low \in Nat : Holds(stream.queue[p], p, low, stream.position[p]) =>
           IF item.offset = 0 THEN Holds(rest, p, low, stream.position[p])
           ELSE item.offset = low + 1 /\ Holds(rest, p, low + 1, stream.position[p])
    BY <1>1, <1>2, <1>3, HoldsTail, HoldsTailOther
  <1> HIDE DEF item, rest
  <1>6. f \in Forwarders /\ f.at = "send" /\ f.item = item
    BY <1>3 DEF Forwarders
  <1> HIDE DEF f
  <1>7. /\ TypeInv' /\ stream'.forwarder[p] = f /\ stream'.queue[p] = rest
        /\ stream'.open = stream.open /\ stream'.covered = stream.covered
        /\ stream'.merged = stream.merged /\ stream'.running = stream.running
        /\ stream'.position = stream.position
        /\ \A q \in stream.covered \ {p} : /\ stream'.queue[q] = stream.queue[q]
                                           /\ stream'.forwarder[q] = stream.forwarder[q]
    BY <1>1, <1>3, <1>6, ForwarderSet
  <1>8. ASSUME NEW lo \in Nat, NEW mid \in Nat, Joined(p, lo, mid)
        PROVE  Joined(p, lo, mid)'
    <2>1. Holds(stream.merged, p, lo, mid) /\ Holds(stream.queue[p], p, mid, stream.position[p])
      BY <1>1, <1>8 DEF Joined, At
    <2> QED BY <2>1, <1>1, <1>5, <1>6, <1>7 DEF Joined, At, IsFailure
  <1> QED BY <1>1, <1>3, <1>4, <1>6, <1>7, <1>8, OnePartition

LEMMA EndedKeeps ==
    ASSUME IInv, NEW p \in stream.covered, stream' = Ended(p),
           UNCHANGED <<log, exists, client>>
    PROVE  IInv'
  <1> USE DEF IInv
  <1> DEFINE f == [at |-> "done", item |-> <<>>]
  <1>1. f \in Forwarders /\ f.at = "done" /\ <<>> \in Seq(Items)
    BY DEF Forwarders
  <1>2. stream' = [stream EXCEPT !.forwarder[p] = f, !.queue[p] = <<>>]
    BY DEF Ended
  <1> HIDE DEF f
  <1>3. /\ TypeInv' /\ stream'.forwarder[p] = f /\ stream'.queue[p] = <<>>
        /\ stream'.open = stream.open /\ stream'.covered = stream.covered
        /\ stream'.merged = stream.merged /\ stream'.running = stream.running
        /\ stream'.position = stream.position
        /\ \A q \in stream.covered \ {p} : /\ stream'.queue[q] = stream.queue[q]
                                           /\ stream'.forwarder[q] = stream.forwarder[q]
    BY <1>1, <1>2, ForwarderSet
  <1>4. ASSUME NEW lo \in Nat, NEW mid \in Nat, Joined(p, lo, mid)
        PROVE  Joined(p, lo, mid)'
    BY <1>1, <1>3, <1>4 DEF Joined, At
  <1>5. Len(stream'.queue[p]) = 0
    BY <1>3
  <1> QED BY <1>1, <1>3, <1>4, <1>5, OnePartition

LEMMA ForwardSendsKeeps ==
    ASSUME IInv, NEW p \in Partitions, ForwardSends(p)
    PROVE  IInv'
  <1> USE DEF IInv
  <1> DEFINE item == stream.forwarder[p].item
             f == [at |-> "recv", item |-> <<>>]
             forwarder == [stream.forwarder EXCEPT ![p] = f]
             merged == Append(stream.merged, item)
  <1>1. /\ p \in stream.covered /\ stream.forwarder[p].at = "send" /\ stream.open
        /\ stream' = [stream EXCEPT !.merged = merged, !.forwarder = forwarder]
        /\ UNCHANGED <<log, exists, down, client, connects>>
    BY DEF ForwardSends, At
  <1>2. item \in Items /\ item.partition = p
    BY <1>1 DEF Sorted, At
  <1>3. merged \in Seq(Items) /\ stream.merged \in Seq(Items)
    BY <1>2, ShapeFacts
  <1>4. f \in Forwarders /\ f.at = "recv"
    BY DEF Forwarders
  <1> HIDE DEF item, f
  <1>5. /\ forwarder \in Maps(Forwarders) /\ DOMAIN forwarder = DOMAIN stream.forwarder
        /\ forwarder[p] = f
        /\ \A q \in stream.covered \ {p} : forwarder[q] = stream.forwarder[q]
    BY <1>1, <1>4, ShapeFacts, MapSet DEF TypeInv, Domains
  <1> HIDE DEF forwarder, merged
  <1>6. /\ StreamTypes' /\ stream'.forwarder = forwarder /\ stream'.merged = merged
        /\ stream'.open = stream.open /\ stream'.covered = stream.covered
        /\ stream'.queue = stream.queue /\ stream'.running = stream.running
        /\ stream'.pump = stream.pump /\ stream'.position = stream.position
    BY <1>1, <1>3, <1>5 DEF TypeInv, StreamTypes
  <1>7. TypeInv'
    BY <1>1, <1>5, <1>6 DEF TypeInv, Domains, ClientTypes
  <1>8. Sorted'
    BY <1>1, <1>4, <1>5, <1>6 DEF Sorted, At
  <1>9. \A i \in 1 .. Len(stream'.merged) : stream'.merged[i].partition \in stream'.covered
    <2>1. \A i \in 1 .. Len(merged) :
             \/ merged[i] = item
             \/ i \in 1 .. Len(stream.merged) /\ merged[i] = stream.merged[i]
      BY <1>2, <1>3, AppendFacts DEF merged
    <2> QED BY <1>1, <1>2, <1>6, <2>1 DEF PipeInv
  <1>10. ASSUME NEW q \in stream.covered
         PROVE  \E lo, mid \in Nat : Joined(q, lo, mid)' /\ Begins(q, lo)'
    <2>1. PICK lo \in Nat, mid \in Nat : Joined(q, lo, mid) /\ Begins(q, lo)
      BY <1>1 DEF PipeInv
    <2>2. Begins(q, lo)'
      BY <1>1, <1>6, <2>1 DEF Begins
    <2>3. CASE q # p \/ item.offset = 0
      <3>1. item.partition # q \/ item.offset = 0
        BY <2>3, <1>2
      <3>2. Holds(stream.merged, q, lo, mid)
        BY <2>1 DEF Joined
      <3>3. Holds(merged, q, lo, mid)
        BY <3>1, <3>2, <1>2, <1>3, HoldsAppendOther DEF merged
      <3>4. ASSUME q # p PROVE Joined(q, lo, mid)'
        BY <3>3, <3>4, <2>1, <1>5, <1>6 DEF Joined, At, IsFailure
      <3>5. ASSUME q = p, item.offset = 0 PROVE Joined(q, lo, mid)'
        <4>1. Holds(stream.queue[q], q, mid, stream.position[q])
          BY <3>5, <2>1, <1>1 DEF Joined, At, IsFailure, item
        <4> QED BY <4>1, <3>3, <3>5, <1>4, <1>5, <1>6 DEF Joined, At
      <3>6. Joined(q, lo, mid)'
        BY <2>3, <3>4, <3>5
      <3> QED BY <3>6, <2>2
    <2>4. CASE q = p /\ item.offset # 0
      <3>1. /\ item.offset = mid + 1 /\ Holds(stream.merged, q, lo, mid)
            /\ Holds(stream.queue[q], q, mid + 1, stream.position[q])
        BY <2>1, <2>4, <1>1 DEF Joined, At, IsFailure, item
      <3>2. Holds(merged, q, lo, mid + 1)
        BY <3>1, <2>4, <1>2, <1>3, HoldsAppend DEF merged
      <3>3. Joined(q, lo, mid + 1)'
        BY <3>1, <3>2, <2>4, <1>4, <1>5, <1>6 DEF Joined, At
      <3> QED BY <3>3, <2>2
    <2> QED BY <2>3, <2>4
  <1>11. PipeInv'
    BY <1>1, <1>6, <1>9, <1>10 DEF PipeInv
  <1> QED BY <1>1, <1>6, <1>7, <1>8, <1>11, ClientSame

-----------------------------------------------------------------------------
(* Connections.                                                              *)

\* The stream is dropped: nothing is owed to anybody.
LEMMA DroppedKeeps ==
    ASSUME IInv, stream' = Dropped, UNCHANGED <<log, exists>>,
           client' = [client EXCEPT !.connected = FALSE]
    PROVE  IInv'
  <1> USE DEF IInv
  <1>1. /\ StreamTypes' /\ stream'.open = FALSE /\ stream'.covered = stream.covered
        /\ stream'.queue = stream.queue /\ stream'.pump = stream.pump
        /\ stream'.position = stream.position /\ stream'.forwarder = stream.forwarder
    <2>1. <<>> \in Seq(Items)
      OBVIOUS
    <2> QED BY <2>1 DEF TypeInv, StreamTypes, Dropped
  <1>2. /\ ClientTypes' /\ client'.connected = FALSE /\ client'.token = client.token
        /\ client'.received = client.received /\ client'.from = client.from
    BY DEF TypeInv, ClientTypes
  <1>3. TypeInv'
    BY <1>1, <1>2 DEF TypeInv, Domains
  <1>4. Sorted' /\ PipeInv' /\ CursorInv'
    BY <1>1, <1>2 DEF Sorted, At, PipeInv, CursorInv
  <1>5. ResumesExactly'
    BY <1>2 DEF ResumesExactly
  <1> QED BY <1>3, <1>4, <1>5

LEMMA DisconnectKeeps ==
    ASSUME IInv, Disconnect
    PROVE  IInv'
  <1> USE DEF IInv
  <1>1. UNCHANGED <<log, exists, stream>>
    BY DEF Disconnect
  <1>2. /\ ClientTypes' /\ client'.connected = FALSE /\ client'.token = client.token
        /\ client'.received = client.received /\ client'.from = client.from
    BY DEF TypeInv, ClientTypes, Disconnect
  <1>3. TypeInv'
    BY <1>1, <1>2 DEF TypeInv, Domains, StreamTypes
  <1>4. Sorted' /\ CursorInv' /\ ResumesExactly'
    BY <1>1, <1>2 DEF Sorted, At, CursorInv, ResumesExactly
  <1>5. PipeInv'
    BY <1>1, <1>2 DEF PipeInv, Joined, Begins, At
  <1> QED BY <1>3, <1>4, <1>5

LEMMA ConnectKeeps ==
    ASSUME IInv, Connect
    PROVE  IInv'
  <1> USE DEF IInv
  <1> DEFINE position == [p \in exists |-> PartitionPosition(p)]
             queue == [p \in exists |-> <<>>]
             pump == [p \in exists |-> "live"]
             forwarder == [p \in exists |-> [at |-> "recv", item |-> <<>>]]
  <1>1. UNCHANGED <<log, exists>> /\ exists \in SUBSET Partitions
    BY DEF Connect, TypeInv
  <1>2. /\ ClientTypes' /\ client'.token = client.token
        /\ client'.received = client.received /\ client'.from = client.from
    BY DEF TypeInv, ClientTypes, Connect
  <1>3. /\ client.token \in Maps(Nat) /\ DOMAIN client.token \subseteq exists
        /\ \A p \in DOMAIN client.token : client.token[p] \in Nat
    <2>1. client.token \in Maps(Nat)
      BY DEF TypeInv, ClientTypes
    <2> QED BY <2>1, MapFacts DEF TypeInv
  <1>4. /\ DOMAIN Seeded(exists) = DOMAIN client.token
        /\ \A p \in DOMAIN client.token : Seeded(exists)[p] = client.token[p]
        /\ Seeded(exists) \in Maps(Nat)
    <2>1. Seeded(exists) = [p \in DOMAIN client.token |-> client.token[p]]
      BY <1>3 DEF Seeded, Restrict
    <2>2. /\ [p \in DOMAIN client.token |-> client.token[p]] \in [DOMAIN client.token -> Nat]
          /\ DOMAIN client.token \in SUBSET Partitions
      BY <1>1, <1>3
    <2> QED BY <2>1, <2>2, MapIs
  <1>5. \A p \in exists :
           /\ PartitionPosition(p) \in Nat
           /\ p \in DOMAIN client.token => PartitionPosition(p) = client.token[p]
           /\ p \notin DOMAIN client.token /\ client.from = "earliest"
                 => PartitionPosition(p) = 0
    <2>1. client.token = <<>> => DOMAIN client.token = {}
      BY EmptyMap
    <2> QED BY <1>1, <1>3, <2>1 DEF PartitionPosition, TypeInv
  <1>6. position \in Maps(Nat) /\ DOMAIN position = exists
    <2>1. position \in [exists -> Nat]
      BY <1>5
    <2> QED BY <1>1, <2>1, MapIs
  <1>7. queue \in Maps(Seq(Items)) /\ DOMAIN queue = exists
    <2>1. queue \in [exists -> Seq(Items)]
      OBVIOUS
    <2> QED BY <1>1, <2>1, MapIs
  <1>8. pump \in Maps({"live", "ended"}) /\ DOMAIN pump = exists
    <2>1. pump \in [exists -> {"live", "ended"}]
      OBVIOUS
    <2> QED BY <1>1, <2>1, MapIs
  <1>9. forwarder \in Maps(Forwarders) /\ DOMAIN forwarder = exists
    <2>1. forwarder \in [exists -> Forwarders]
      BY DEF Forwarders
    <2> QED BY <1>1, <2>1, MapIs
  <1>10. \A p \in exists : /\ position[p] = PartitionPosition(p) /\ queue[p] = <<>>
                           /\ forwarder[p].at = "recv"
    OBVIOUS
  <1>11. stream' = [NoStream EXCEPT !.open = TRUE, !.covered = exists,
                       !.running = Seeded(exists), !.position = position, !.queue = queue,
                       !.pump = pump, !.forwarder = forwarder]
    BY DEF Connect
  <1> HIDE DEF position, queue, pump, forwarder
  <1>12. /\ stream' = [open |-> TRUE, covered |-> exists, merged |-> <<>>,
                       running |-> Seeded(exists), position |-> position, queue |-> queue,
                       pump |-> pump, forwarder |-> forwarder]
    BY <1>11 DEF NoStream
  <1>13. StreamTypes' /\ Domains'
    BY <1>1, <1>4, <1>6, <1>7, <1>8, <1>9, <1>12 DEF StreamTypes, Domains
  <1>14. TypeInv'
    BY <1>1, <1>2, <1>12, <1>13 DEF TypeInv
  <1>15. Sorted'
    BY <1>10, <1>12 DEF Sorted, At
  <1>16. PipeInv'
    <2>1. ASSUME NEW p \in exists
          PROVE  \E lo, mid \in Nat : Joined(p, lo, mid)' /\ Begins(p, lo)'
      <3>1. PICK lo \in Nat : lo = PartitionPosition(p)
        BY <1>5
      <3>2. Begins(p, lo)'
        BY <1>2, <1>4, <1>5, <1>12, <3>1 DEF Begins
      <3>3. Holds(<<>>, p, lo, lo)
        BY <3>1, HoldsEmpty
      <3>4. Joined(p, lo, lo)'
        BY <3>1, <3>3, <1>10, <1>12 DEF Joined, At
      <3> QED BY <3>1, <3>2, <3>4
    <2>2. Len(stream'.merged) = 0
      BY <1>12
    <2> QED BY <2>1, <2>2, <1>3, <1>4, <1>12 DEF PipeInv
  <1>17. CursorInv'
    BY <1>2, <1>4, <1>12 DEF CursorInv
  <1>18. ResumesExactly'
    BY <1>2 DEF ResumesExactly
  <1> QED BY <1>14, <1>15, <1>16, <1>17, <1>18

\* A record is written: it is the next one after the running cursor, so after
\* the client's token when the client is there to see it.
LEMMA ReadRecordKeeps ==
    ASSUME IInv, ReadRecord
    PROVE  IInv'
  <1> USE DEF IInv
  <1>0. PICK item \in Items : item = Head(stream.merged)
    BY TailFacts, ShapeFacts DEF ReadRecord
  <1> DEFINE p == item.partition
             x == item.offset
             inserted(cursor) == [q \in DOMAIN cursor \cup {p} |->
                                     IF q = p THEN x ELSE cursor[q]]
             rest == Tail(stream.merged)
             running == inserted(stream.running)
  <1>1. /\ stream.open /\ stream.merged # <<>> /\ x # 0
        /\ stream' = [stream EXCEPT !.merged = rest, !.running = running]
        /\ UNCHANGED <<log, exists, down, connects>>
        /\ IF ~client.connected THEN UNCHANGED client
           ELSE Receives(item, inserted(IF client.transport = "sse" THEN stream.running
                                        ELSE client.token))
    BY <1>0 DEF ReadRecord, IsFailure
  <1>2. stream.merged \in Seq(Items) /\ stream.running \in Maps(Nat)
    BY ShapeFacts
  <1>3. /\ item \in Items /\ p \in stream.covered /\ x \in Nat /\ rest \in Seq(Items)
        /\ \A i \in 1 .. Len(rest) : rest[i].partition \in stream.covered
    <2>1. \A i \in 1 .. Len(stream.merged) : stream.merged[i].partition \in stream.covered
      BY <1>1 DEF PipeInv
    <2>2. item \in Items /\ x \in Nat
      BY <1>0, <1>1, <1>2, TailFacts DEF Items
    <2> QED BY <1>0, <1>1, <1>2, <2>1, <2>2, TailFacts
  <1>4. p \in Partitions /\ p \in exists
    BY <1>3, ShapeFacts DEF TypeInv
  <1>5. ASSUME NEW cursor \in Maps(Nat)
        PROVE  /\ inserted(cursor) \in Maps(Nat)
               /\ DOMAIN inserted(cursor) = DOMAIN cursor \cup {p}
               /\ inserted(cursor)[p] = x
               /\ \A q \in DOMAIN cursor \ {p} : inserted(cursor)[q] = cursor[q]
    <2>1. inserted(cursor) \in [DOMAIN cursor \cup {p} -> Nat]
      BY <1>3, MapFacts
    <2>2. DOMAIN cursor \cup {p} \in SUBSET Partitions
      BY <1>4, MapFacts
    <2>3. inserted(cursor)[p] = x /\ \A q \in DOMAIN cursor \ {p} : inserted(cursor)[q] = cursor[q]
      OBVIOUS
    <2> HIDE DEF inserted
    <2> QED BY <2>1, <2>2, <2>3, MapIs
  <1>6. /\ running \in Maps(Nat) /\ DOMAIN running = DOMAIN stream.running \cup {p}
        /\ running[p] = x /\ \A q \in DOMAIN stream.running \ {p} : running[q] = stream.running[q]
    BY <1>2, <1>5
  <1> HIDE DEF running, rest
  <1>7. /\ StreamTypes' /\ stream'.merged = rest /\ stream'.running = running
        /\ stream'.open = stream.open /\ stream'.covered = stream.covered
        /\ stream'.queue = stream.queue /\ stream'.forwarder = stream.forwarder
        /\ stream'.pump = stream.pump /\ stream'.position = stream.position
    BY <1>1, <1>3, <1>6 DEF TypeInv, StreamTypes
  <1>8. Sorted'
    BY <1>7 DEF Sorted, At
  <1>9. PICK next \in Nat : /\ x = next + 1 /\ Begins(p, next)
                            /\ \E mid \in Nat : Joined(p, next, mid) /\ Joined(p, next + 1, mid)'
    <2>1. PICK lo \in Nat, mid \in Nat : Joined(p, lo, mid) /\ Begins(p, lo)
      BY <1>1, <1>3 DEF PipeInv
    <2>2. Holds(stream.merged, p, lo, mid)
      BY <2>1 DEF Joined
    <2>3. x = lo + 1 /\ Holds(rest, p, lo + 1, mid)
      BY <2>2, <1>0, <1>1, <1>2, HoldsTail DEF rest
    <2>4. Joined(p, lo + 1, mid)'
      BY <2>1, <2>3, <1>7 DEF Joined, At, IsFailure
    <2> QED BY <2>1, <2>3, <2>4
  <1> HIDE DEF inserted
  <1>10. client'.from = client.from
    BY <1>1 DEF Receives, TypeInv, ClientTypes
  <1>11. PipeInv'
    <2>1. ASSUME NEW q \in stream.covered
          PROVE  \E lo, mid \in Nat : Joined(q, lo, mid)' /\ Begins(q, lo)'
      <3>1. CASE q = p
        <4>1. PICK mid \in Nat : Joined(p, next + 1, mid)'
          BY <1>9
        <4>2. Begins(q, next + 1)'
          BY <3>1, <1>6, <1>7, <1>9 DEF Begins
        <4> QED BY <3>1, <4>1, <4>2
      <3>2. CASE q # p
        <4>1. PICK lo \in Nat, mid \in Nat : Joined(q, lo, mid) /\ Begins(q, lo)
          BY <1>1 DEF PipeInv
        <4>2. Begins(q, lo)'
          BY <3>2, <4>1, <1>6, <1>7, <1>10 DEF Begins
        <4>3. Holds(stream.merged, q, lo, mid)
          BY <4>1 DEF Joined
        <4>4. Holds(rest, q, lo, mid)
          BY <3>2, <4>3, <1>0, <1>1, <1>2, HoldsTailOther DEF rest
        <4>5. Joined(q, lo, mid)'
          BY <4>1, <4>4, <1>7 DEF Joined, At, IsFailure
        <4> QED BY <4>2, <4>5
      <3> QED BY <3>1, <3>2
    <2>2. DOMAIN running \subseteq stream.covered
      BY <1>1, <1>3, <1>6 DEF PipeInv
    <2> QED BY <2>1, <2>2, <1>3, <1>7 DEF PipeInv
  <1>12. CASE ~client.connected
    <2>1. client' = client
      BY <1>1, <1>12
    <2>2. TypeInv'
      BY <2>1, <1>1, <1>7 DEF TypeInv, Domains, ClientTypes
    <2>3. CursorInv' /\ ResumesExactly'
      BY <2>1, <1>12 DEF CursorInv, ResumesExactly
    <2> QED BY <2>2, <2>3, <1>8, <1>11
  <1>13. CASE client.connected
    <2> DEFINE got == client.received[p]
               longer == Append(got, x)
               old == IF client.transport = "sse" THEN stream.running ELSE client.token
               token == inserted(old)
    <2>1. /\ client.token \in Maps(Nat) /\ client.received \in [Partitions -> Seq(Nat)]
          /\ got \in Seq(Nat)
      BY <1>4 DEF TypeInv, ClientTypes
    <2>2. /\ DOMAIN old = DOMAIN client.token /\ old \in Maps(Nat)
          /\ \A q \in DOMAIN client.token : old[q] = client.token[q]
          /\ DOMAIN stream.running = DOMAIN client.token
          /\ \A q \in DOMAIN client.token : stream.running[q] = client.token[q]
      BY <1>2, <1>13, <2>1 DEF CursorInv
    <2> HIDE DEF old
    <2>3. /\ token \in Maps(Nat) /\ DOMAIN token = DOMAIN client.token \cup {p}
          /\ token[p] = x
          /\ \A q \in DOMAIN client.token \ {p} : token[q] = client.token[q]
      BY <1>5, <2>2
    <2>4. longer \in Seq(Nat) /\ [client.received EXCEPT ![p] = longer] \in [Partitions -> Seq(Nat)]
      <3>1. longer \in Seq(Nat)
        BY <1>3, <2>1
      <3> HIDE DEF longer
      <3> QED BY <3>1, <1>4, <2>1
    <2>5. client' = [client EXCEPT !.token = token,
                                   !.received = [client.received EXCEPT ![p] = longer]]
      BY <1>1, <1>13 DEF Receives, old
    <2> HIDE DEF token
    <2>6. /\ ClientTypes' /\ client'.token = token /\ client'.connected
          /\ client'.received = [client.received EXCEPT ![p] = longer]
      <3> HIDE DEF longer
      <3> QED BY <1>13, <2>3, <2>4, <2>5 DEF TypeInv, ClientTypes
    <2>7. TypeInv'
      BY <1>1, <1>4, <1>7, <2>3, <2>6 DEF TypeInv, Domains
    <2>8. CursorInv'
      BY <1>1, <1>6, <1>7, <2>2, <2>3, <2>6 DEF CursorInv
    <2>9. ResumesExactly'
      <3> SUFFICES ASSUME NEW q \in Partitions
                   PROVE  /\ \A i \in 2 .. Len(client'.received[q]) :
                                client'.received[q][i] = client'.received[q][i - 1] + 1
                          /\ client'.from = "earliest" /\ client'.received[q] # <<>>
                                => client'.received[q][1] = 1
                          /\ q \in DOMAIN client'.token <=> client'.received[q] # <<>>
                          /\ client'.received[q] # <<>> =>
                                client'.token[q] = Last(client'.received[q])
        BY DEF ResumesExactly
      <3>1. CASE q # p
        <4>1. client'.received[q] = client.received[q]
          BY <3>1, <2>1, <2>6
        <4>2. q \in DOMAIN client.token => client'.token[q] = client.token[q]
          BY <3>1, <2>3, <2>6
        <4>3. q \in DOMAIN client'.token <=> q \in DOMAIN client.token
          BY <3>1, <2>3, <2>6
        <4> QED BY <4>1, <4>2, <4>3, <1>10 DEF ResumesExactly
      <3>2. CASE q = p
        <4>1. client'.received[q] = longer
          BY <3>2, <1>4, <2>1, <2>6
        <4>2. /\ longer # <<>> /\ Len(longer) = Len(got) + 1 /\ longer[Len(longer)] = x
              /\ Len(got) \in Nat /\ \A i \in 1 .. Len(got) : longer[i] = got[i]
              /\ Last(longer) = x
          BY <1>3, <2>1, OneMoreOffset
        <4>3. client'.token[q] = x /\ q \in DOMAIN client'.token
          BY <3>2, <2>3, <2>6
        <4>4. got = <<>> <=> Len(got) = 0
          BY <2>1
        <4>5. /\ \A i \in 2 .. Len(got) : got[i] = got[i - 1] + 1
              /\ client.from = "earliest" /\ got # <<>> => got[1] = 1
              /\ p \in DOMAIN client.token <=> got # <<>>
              /\ got # <<>> => client.token[p] = got[Len(got)]
          BY <1>4, <2>1 DEF ResumesExactly, Last
        <4>6. CASE got = <<>>
          <5>1. client.from = "earliest" => x = 1
            BY <4>5, <4>6, <2>2, <1>9 DEF Begins
          <5>2. Len(longer) = 1 /\ longer[1] = x
            BY <4>2, <4>4, <4>6
          <5>3. \A i \in 2 .. Len(longer) : longer[i] = longer[i - 1] + 1
            BY <5>2
          <5> QED BY <5>1, <5>2, <5>3, <4>1, <4>2, <4>3, <1>10
        <4>7. CASE got # <<>>
          <5>1. x = got[Len(got)] + 1
            BY <4>5, <4>7, <2>2, <1>9 DEF Begins
          <5>2. \A i \in 2 .. Len(longer) : longer[i] = longer[i - 1] + 1
            <6> TAKE i \in 2 .. Len(longer)
            <6>1. CASE i = Len(got) + 1
              BY <6>1, <5>1, <4>2, <4>4, <4>7
            <6>2. CASE i # Len(got) + 1
              <7>1. i \in 2 .. Len(got) /\ i \in 1 .. Len(got) /\ i - 1 \in 1 .. Len(got)
                BY <6>2, <4>2
              <7> QED BY <7>1, <4>2, <4>5
            <6> QED BY <6>1, <6>2
          <5>3. longer[1] = got[1]
            BY <4>2, <4>4, <4>7
          <5> QED BY <5>2, <5>3, <4>1, <4>2, <4>3, <4>5, <4>7, <1>10
        <4> QED BY <4>6, <4>7
      <3> QED BY <3>1, <3>2
    <2> QED BY <2>7, <2>8, <2>9, <1>8, <1>11
  <1> QED BY <1>12, <1>13

LEMMA ReadFailureKeeps ==
    ASSUME IInv, ReadFailure
    PROVE  IInv'
  <1> USE DEF IInv
  <1>1. CASE client.transport # "sse"
    BY <1>1, DroppedKeeps DEF ReadFailure
  <1>2. CASE client.transport = "sse"
    <2> DEFINE item == Head(stream.merged)
               rest == Tail(stream.merged)
    <2>1. /\ stream.open /\ stream.merged # <<>> /\ item.offset = 0
          /\ stream' = [stream EXCEPT !.merged = rest]
          /\ UNCHANGED <<log, exists, down, connects, client>>
      BY <1>2 DEF ReadFailure, IsFailure
    <2>2. stream.merged \in Seq(Items)
      BY ShapeFacts
    <2>3. rest \in Seq(Items) /\ \A i \in 1 .. Len(rest) : rest[i].partition \in stream.covered
      BY <2>1, <2>2, TailFacts DEF PipeInv
    <2>4. \A q, lo, mid : lo \in Nat /\ mid \in Nat /\ Holds(stream.merged, q, lo, mid)
             => Holds(rest, q, lo, mid)
      BY <2>1, <2>2, HoldsTailOther
    <2> HIDE DEF rest
    <2>5. /\ StreamTypes' /\ stream'.merged = rest /\ stream'.running = stream.running
          /\ stream'.open = stream.open /\ stream'.covered = stream.covered
          /\ stream'.queue = stream.queue /\ stream'.forwarder = stream.forwarder
          /\ stream'.pump = stream.pump /\ stream'.position = stream.position
      BY <2>1, <2>3 DEF TypeInv, StreamTypes
    <2>6. TypeInv' /\ Sorted'
      BY <2>1, <2>5 DEF TypeInv, Domains, ClientTypes, Sorted, At
    <2>7. ASSUME NEW q \in stream.covered
          PROVE  \E lo, mid \in Nat : Joined(q, lo, mid)' /\ Begins(q, lo)'
      <3>1. PICK lo \in Nat, mid \in Nat : Joined(q, lo, mid) /\ Begins(q, lo)
        BY <2>1 DEF PipeInv
      <3>2. Begins(q, lo)'
        BY <3>1, <2>1, <2>5 DEF Begins
      <3>3. Holds(rest, q, lo, mid)
        BY <3>1, <2>4 DEF Joined
      <3>4. Joined(q, lo, mid)'
        BY <3>1, <3>3, <2>5 DEF Joined, At, IsFailure
      <3> QED BY <3>2, <3>4
    <2>8. PipeInv'
      BY <2>1, <2>3, <2>5, <2>7 DEF PipeInv
    <2> QED BY <2>1, <2>5, <2>6, <2>8, ClientSame
  <1> QED BY <1>1, <1>2

LEMMA ShutdownKeeps ==
    ASSUME IInv, Shutdown
    PROVE  IInv'
  <1> USE DEF IInv
  <1> DEFINE pump == [p \in DOMAIN stream.pump |-> "ended"]
  <1>1. stream' = [stream EXCEPT !.pump = pump] /\ UNCHANGED <<log, exists, client, connects>>
    BY DEF Shutdown
  <1>2. pump \in Maps({"live", "ended"}) /\ DOMAIN pump = DOMAIN stream.pump
    <2>1. DOMAIN stream.pump \in SUBSET Partitions
      BY ShapeFacts, MapFacts
    <2>2. pump \in [DOMAIN stream.pump -> {"live", "ended"}]
      OBVIOUS
    <2> QED BY <2>1, <2>2, MapIs
  <1> HIDE DEF pump
  <1>3. /\ StreamTypes' /\ stream'.pump = pump /\ stream'.queue = stream.queue
        /\ stream'.open = stream.open /\ stream'.covered = stream.covered
        /\ stream'.merged = stream.merged /\ stream'.running = stream.running
        /\ stream'.position = stream.position /\ stream'.forwarder = stream.forwarder
    BY <1>1, <1>2 DEF TypeInv, StreamTypes
  <1>4. TypeInv' /\ Sorted'
    BY <1>1, <1>2, <1>3 DEF TypeInv, Domains, ClientTypes, Sorted, At
  <1>5. PipeInv'
    BY <1>1, <1>3, JoinedSame DEF PipeInv
  <1> QED BY <1>1, <1>3, <1>4, <1>5, ClientSame

\* The log grows, or a partition is added: nothing of the stream moves.
LEMMA LogKeeps ==
    ASSUME IInv, NEW p \in Partitions, Produce(p) \/ AddPartition(p)
    PROVE  IInv'
  <1> USE DEF IInv
  <1>1. UNCHANGED <<stream, client>>
    BY DEF Produce, AddPartition
  <1>2. log' \in [Partitions -> Nat] /\ exists' \subseteq Partitions /\ exists \subseteq exists'
    BY DEF Produce, AddPartition, TypeInv
  <1>3. TypeInv'
    BY <1>1, <1>2 DEF TypeInv, StreamTypes, Domains, ClientTypes
  <1> QED BY <1>1, <1>3 DEF Sorted, PipeInv, Joined, Begins, At, CursorInv, ResumesExactly

-----------------------------------------------------------------------------
LEMMA InitHolds == Init => IInv
  <1> SUFFICES ASSUME Init PROVE IInv OBVIOUS
  <1>1. /\ \A S : <<>> \in Maps(S)
        /\ DOMAIN <<>> = {} /\ <<>> \in Seq(Items)
    BY EmptyMap
  <1>2. StreamTypes /\ Domains
    BY <1>1 DEF Init, NoStream, StreamTypes, Domains
  <1>3. ClientTypes /\ DOMAIN client.token = {} /\ \A p \in Partitions : client.received[p] = <<>>
    <2>1. client \in [transport : Transports, from : Froms, connected : {FALSE}, token : {<<>>},
                      received : {[p \in Partitions |-> <<>>]}]
      BY DEF Init
    <2>2. /\ client.transport \in {"sse", "ws"} /\ client.from \in {"earliest", "latest"}
          /\ client.connected = FALSE /\ client.token = <<>>
          /\ client.received = [p \in Partitions |-> <<>>]
      BY <2>1, StreamAssumption
    <2>3. [p \in Partitions |-> <<>>] \in [Partitions -> Seq(Nat)]
      OBVIOUS
    <2>4. client = [transport |-> client.transport, from |-> client.from,
                    connected |-> client.connected, token |-> client.token,
                    received |-> client.received]
      BY <2>1
    <2>5. ClientTypes
      BY <1>1, <2>2, <2>3, <2>4 DEF ClientTypes
    <2> QED BY <1>1, <2>2, <2>5
  <1>4. TypeInv
    BY <1>2, <1>3 DEF TypeInv, Init, NoStream
  <1>5. Sorted /\ PipeInv /\ CursorInv
    BY DEF Init, NoStream, Sorted, PipeInv, CursorInv
  <1>6. ResumesExactly
    BY <1>3 DEF ResumesExactly
  <1> QED BY <1>4, <1>5, <1>6 DEF IInv

LEMMA NextKeeps == IInv /\ [Next]_vars => IInv'
  <1> SUFFICES ASSUME IInv, [Next]_vars PROVE IInv' OBVIOUS
  <1>1. ASSUME NEW p \in Partitions, Forwards(p) PROVE IInv'
    <2>1. At(p, "recv") \/ At(p, "send") => p \in stream.covered
      BY DEF At
    <2>2. ForwardEnds(p) \/ ForwardFails(p) \/ ForwardStops(p) => IInv'
      BY <2>1, EndedKeeps DEF ForwardEnds, ForwardFails, ForwardStops
    <2> QED BY <1>1, <2>2, ForwardKeeps, ForwardSendsKeeps DEF Forwards
  <1>2. ReadEnd \/ Notice => IInv'
    <2>1. Notice => client' = [client EXCEPT !.connected = FALSE]
      BY DEF Notice, IInv, TypeInv, ClientTypes
    <2> QED BY <2>1, DroppedKeeps DEF ReadEnd, Notice
  <1>3. CASE KeepAlive \/ UNCHANGED vars
    <2>1. UNCHANGED <<log, exists, stream, client>>
      BY <1>3 DEF vars, KeepAlive
    <2>2. TypeInv'
      BY <2>1 DEF IInv, TypeInv, StreamTypes, Domains, ClientTypes
    <2> QED BY <2>1, <2>2 DEF IInv, Sorted, PipeInv, Joined, Begins, At, CursorInv, ResumesExactly
  <1> QED BY <1>1, <1>2, <1>3, LogKeeps, PushKeeps, FailKeeps, ReadRecordKeeps, ReadFailureKeeps,
             ConnectKeeps, DisconnectKeeps, ShutdownKeeps DEF Next, Reads

\* A client of a topic stream resumes exactly, for any number of partitions,
\* records and lost connections, any queue capacity and both transports: the
\* token it comes back with (cursor.rs, params.rs) says what it has received,
\* and the merge of the hub (hub.rs) and the two writers hand it what follows,
\* in order, none twice and none left out.
THEOREM ResumeTheorem == Spec => []ResumesExactly
  <1>1. Spec => []IInv
    BY InitHolds, NextKeeps, PTL DEF Spec
  <1>2. IInv => ResumesExactly
    BY DEF IInv
  <1> QED BY <1>1, <1>2, PTL
=============================================================================
