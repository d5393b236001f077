------------------------------ MODULE Producer ------------------------------
(***************************************************************************)
(* The producer of odradek-client (producer.rs, txn.rs, retry.rs) over a   *)
(* partition leader and a transaction coordinator that keep the books the  *)
(* reference broker of odradek-acceptance (subject.rs) keeps.              *)
(*                                                                         *)
(* A producer is used through &mut self, so one call runs at a time; what  *)
(* runs beside it are the deliveries of one flush, the network, which may  *)
(* lose an acknowledgement or bring a request long after its attempt was   *)
(* given up, and a successor that takes the transactional id.              *)
(*                                                                         *)
(* Records are numbered in the order in which the caller hands them over.  *)
(* The producer is idempotent with acks = -1, the default; a call that the *)
(* transaction state refuses changes nothing and is left out.              *)
(***************************************************************************)
EXTENDS Integers, Sequences, Functions

CONSTANTS
    Partitions,     \* the partitions written to
    Plans,          \* bound: the partitions of the records a caller hands over
    MaxAttempts,    \* ProducerConfig::max_attempts
    MaxSeq          \* i32::MAX, where sequence numbers wrap

ASSUME ProducerAssumption ==
    /\ Partitions \subseteq Nat
    /\ Plans \subseteq Seq(Partitions)
    /\ MaxAttempts \in Nat \ {0}
    /\ MaxSeq \in Nat

VARIABLES
    \* the fields of Producer
    pending,        \* buffered records, by partition
    identity,       \* whether the broker has issued a producer id
    sequences,      \* the next sequence number owed, by partition
    txnState,       \* TransactionState
    txnPartitions,  \* partitions announced for the open transaction
    \* the call in progress, its batches and their deliveries
    op, at,         \* which call, and the await it is suspended at
    hand,           \* records drained from the buffers or passed to produce
    stamp,          \* BatchStamp::base_sequence of each batch
    tries,          \* rounds of retry_loop behind each delivery
    outcome,        \* how far each delivery is
    \* the network and the broker
    wire,           \* produce requests that may still arrive
    log,            \* PartitionLog: its records and what became of each
    last,           \* PartitionLog::last_batch of this producer's id
    claimed,        \* TxnState::partitions at the coordinator
    superseded,     \* whether another producer has taken the transactional id
    \* the caller, and history that no action reads
    plan,           \* where its records go
    given,          \* records handed over so far
    direct,         \* partitions that produce was used on
    done,           \* what the caller was told is delivered
    failed,         \* what the caller was told is not, or discarded itself
    dropped,        \* what a failed flush has let go of without a word
    owed,           \* what the open transaction is to commit
    promised,       \* records of transactions whose commit returned
    spoiled         \* partitions on which a delivery has failed

bufferVars == <<pending, identity, sequences>>
txnVars == <<txnState, txnPartitions>>
callVars == <<op, at, hand, stamp, tries, outcome>>
brokerVars == <<wire, log, last, claimed, superseded>>
historyVars ==
    <<plan, given, direct, done, failed, dropped, owed, promised, spoiled>>
vars == <<bufferVars, txnVars, callVars, brokerVars, historyVars>>

Offsets == 0            \* the consumed positions, as something owed
Nothing == [p \in Partitions |-> <<>>]
Zeros == [p \in Partitions |-> 0]
Unsent == [p \in Partitions |-> "none"]
NoBatch == [base |-> -1, next |-> 0]
Wrapped(n) == IF n > MaxSeq THEN n - 2 * (MaxSeq + 1) ELSE n

Transactional == txnState # "Disabled"
Records(batches) == UNION {Range(batches[p]) : p \in Partitions}
Filled(batches) == {p \in Partitions : batches[p] # <<>>}
Keys == Filled(hand)

Init ==
    /\ pending = Nothing /\ identity = FALSE /\ sequences = Zeros
    /\ txnState \in {"Disabled", "Uninitialized"} /\ txnPartitions = {}
    /\ op = "none" /\ at = "none" /\ hand = Nothing
    /\ stamp = Zeros /\ tries = Zeros /\ outcome = Unsent
    /\ wire = {} /\ log = Nothing /\ last = [p \in Partitions |-> NoBatch]
    /\ claimed = {} /\ superseded = FALSE
    /\ plan \in Plans /\ given = 0 /\ direct = {} /\ done = {} /\ failed = {}
    /\ dropped = {} /\ owed = {} /\ promised = {} /\ spoiled = {}

-----------------------------------------------------------------------------
(* The transaction state machine.                                          *)

\* Mutant: only fencing matters.
AfterFailureFencingOnly(state, error) ==
    IF state # "Disabled" /\ error = "fenced" THEN "Fenced" ELSE state

\* after_failure: what an error does to the open transaction.
AfterFailure(state, error) ==
    CASE state = "Disabled" -> "Disabled"
      [] state # "Disabled" /\ error = "fenced" -> "Fenced"
      [] state = "Open" /\ error # "fenced" -> "Abortable"
      [] OTHER -> state

Poison(error) == txnState' = AfterFailure(txnState, error)

\* require_producible.
Producible == txnState \in {"Disabled", "Open"}

\* The batches in hand are dropped, and the call goes on or returns.
Release(call, where) ==
    /\ op' = call /\ at' = where /\ hand' = Nothing
    /\ stamp' = Zeros /\ tries' = Zeros /\ outcome' = Unsent
Return == Release("none", "none")

\* The call goes on to its next await.
Await(where) == at' = where /\ UNCHANGED <<op, hand, stamp, tries, outcome>>

\* init_transactions; a failed one leaves everything as it was.
InitTransactions ==
    /\ op = "none"
    /\ txnState = "Uninitialized"
    /\ identity' = TRUE
    /\ sequences' = Zeros
    /\ txnPartitions' = {}
    /\ txnState' = "Ready"
    /\ UNCHANGED <<pending, callVars, brokerVars, historyVars>>

\* begin_transaction: what is already buffered will go with it.
BeginTransaction ==
    /\ op = "none"
    /\ txnState = "Ready"
    /\ txnState' = "Open"
    /\ owed' = Records(pending)
    /\ done' = done \ {Offsets}
    /\ UNCHANGED <<bufferVars, txnPartitions, callVars, brokerVars, plan,
                   given, direct, failed, promised, spoiled, dropped>>

-----------------------------------------------------------------------------
(* Handing records over, and the start of a delivery.                      *)

\* Mutant: one announcement serves for every partition.
FreshWhenNone(keys) == IF txnPartitions = {} THEN keys ELSE {}

\* claim_partitions: what the coordinator has not been told of.
Fresh(keys) == keys \ txnPartitions

\* A call that delivers these batches begins.
Deliver(call, batches) ==
    /\ op' = call
    /\ hand' = batches
    /\ at' = IF Transactional /\ Fresh(Filled(batches)) # {}
             THEN "claim" ELSE "stamp"
    /\ UNCHANGED <<stamp, tries, outcome>>

\* The caller's next record is for p.
HandOver(p) ==
    /\ op = "none"
    /\ given < Len(plan)
    /\ plan[given + 1] = p
    /\ given' = given + 1
    /\ owed' = IF txnState = "Open" THEN owed \cup {given + 1} ELSE owed
    /\ UNCHANGED plan

\* enqueue, when the buffer stays below batch_max_bytes (or the transaction
\* state refuses to deliver it).
Enqueue(p) ==
    /\ HandOver(p)
    /\ pending' = [pending EXCEPT ![p] = Append(@, given + 1)]
    /\ UNCHANGED <<identity, sequences, txnVars, callVars, brokerVars,
                   direct, done, failed, promised, spoiled, dropped>>

\* enqueue, when the record fills the buffer: flush_partition.
EnqueueFull(p) ==
    /\ HandOver(p)
    /\ Producible
    /\ Deliver("flush", [Nothing EXCEPT ![p] = Append(pending[p], given + 1)])
    /\ pending' = [pending EXCEPT ![p] = <<>>]
    /\ UNCHANGED <<identity, sequences, txnVars, brokerVars, direct, done,
                   failed, promised, spoiled, dropped>>

\* produce: one batch of its own, past the buffers.
Produce(p) ==
    /\ HandOver(p)
    /\ Producible
    /\ Deliver("produce", [Nothing EXCEPT ![p] = <<given + 1>>])
    /\ direct' = direct \cup {p}
    /\ UNCHANGED <<bufferVars, txnVars, brokerVars, done, failed, promised,
                   spoiled, dropped>>

\* flush.
Flush ==
    /\ op = "none"
    /\ Producible
    /\ pending # Nothing
    /\ Deliver("flush", pending)
    /\ pending' = Nothing
    /\ UNCHANGED <<identity, sequences, txnVars, brokerVars, historyVars>>

\* commit_transaction: what is buffered is flushed first.
CommitTransaction ==
    /\ op = "none"
    /\ txnState = "Open"
    /\ IF pending = Nothing
       THEN Release("commit", "end")
       ELSE Deliver("commit", pending)
    /\ pending' = Nothing
    /\ UNCHANGED <<identity, sequences, txnVars, brokerVars, historyVars>>

\* abort_transaction: what is buffered is discarded.
AbortTransaction ==
    /\ op = "none"
    /\ txnState \in {"Open", "Abortable"}
    /\ failed' = failed \cup Records(pending)
    /\ pending' = Nothing
    /\ op' = "abort" /\ at' = "end"
    /\ UNCHANGED <<identity, sequences, txnVars, hand, stamp, tries, outcome,
                   brokerVars, plan, given, direct, done, owed, promised,
                   spoiled, dropped>>

\* send_offsets_to_transaction.
SendOffsets ==
    /\ op = "none"
    /\ txnState = "Open"
    /\ op' = "offsets" /\ at' = "offsets"
    /\ owed' = owed \cup {Offsets}
    /\ done' = done \ {Offsets}
    /\ UNCHANGED <<bufferVars, txnVars, hand, stamp, tries, outcome,
                   brokerVars, plan, given, direct, failed, promised,
                   spoiled, dropped>>

-----------------------------------------------------------------------------
(* The coordinator's answers.  A request may be carried out, more than     *)
(* once, without its sender hearing of it; none arrives after its call has *)
(* given up.                                                               *)

\* The batches in hand for these partitions.
Part(keys) == [p \in Partitions |-> IF p \in keys THEN hand[p] ELSE <<>>]

\* Mutant: the error is returned and the drained batches with it dropped.
RestoredNowhere(batches) == pending

\* restore: an undelivered batch goes back in front of its buffer; produce
\* keeps no buffer and hands the error to its caller.
Restored(batches) ==
    IF op = "produce" THEN pending
    ELSE [p \in Partitions |-> batches[p] \o pending[p]]
GivenUp(batches) ==
    IF op = "produce" THEN failed \cup Records(batches) ELSE failed

\* add_partitions.
ClaimOk ==
    /\ at = "claim"
    /\ ~superseded
    /\ claimed' = claimed \cup Fresh(Keys)
    /\ txnPartitions' = txnPartitions \cup Fresh(Keys)
    /\ Await("stamp")
    /\ UNCHANGED <<bufferVars, txnState, wire, log, last, superseded,
                   historyVars>>

\* add_partitions_to_txn_exchange, its answer lost.
ClaimUnheard ==
    /\ at = "claim"
    /\ ~superseded
    /\ claimed' = claimed \cup Fresh(Keys)
    /\ UNCHANGED <<bufferVars, txnVars, callVars, wire, log, last,
                   superseded, historyVars>>

\* What the attempts of a request to the coordinator may end in: after every
\* round of retry_loop, or at once with txn_epoch_check's verdict.
Failures == IF superseded THEN {"fenced", "timeout"} ELSE {"timeout"}

ClaimFails ==
    /\ at = "claim"
    /\ \E error \in Failures : Poison(error)
    /\ pending' = Restored(hand)
    /\ failed' = GivenUp(hand)
    /\ Return
    /\ UNCHANGED <<identity, sequences, txnPartitions, brokerVars, plan,
                   given, direct, done, owed, promised, spoiled, dropped>>

\* add_offsets and offset_commit.
OffsetsOk ==
    /\ at = "offsets"
    /\ ~superseded
    /\ done' = done \cup {Offsets}
    /\ Return
    /\ UNCHANGED <<bufferVars, txnVars, brokerVars, plan, given, direct,
                   failed, owed, promised, spoiled, dropped>>

OffsetsFail ==
    /\ at = "offsets"
    /\ \E error \in Failures : Poison(error)
    /\ Return
    /\ UNCHANGED <<bufferVars, txnPartitions, brokerVars, historyVars>>

\* end_txn_exchange: the fate of every record the open transaction wrote.
EndTxn(fate) ==
    /\ log' = [p \in Partitions |-> [i \in DOMAIN log[p] |->
                  IF log[p][i].fate = "open"
                  THEN [log[p][i] EXCEPT !.fate = fate]
                  ELSE log[p][i]]]
    /\ claimed' = {}

Fate == IF op = "commit" THEN "committed" ELSE "aborted"

\* end_transaction.
EndOk ==
    /\ at = "end"
    /\ ~superseded
    /\ EndTxn(Fate)
    /\ txnPartitions' = {}
    /\ txnState' = "Ready"
    /\ promised' = promised \cup IF op = "commit" THEN owed \ {Offsets} ELSE {}
    /\ owed' = {}
    /\ Return
    /\ UNCHANGED <<bufferVars, wire, last, superseded, plan, given, direct,
                   done, failed, spoiled, dropped>>

EndUnheard ==
    /\ at = "end"
    /\ ~superseded
    /\ EndTxn(Fate)
    /\ UNCHANGED <<bufferVars, txnVars, callVars, wire, last, superseded,
                   historyVars>>

EndFails ==
    /\ at = "end"
    /\ \E error \in Failures : Poison(error)
    /\ Return
    /\ UNCHANGED <<bufferVars, txnPartitions, brokerVars, historyVars>>

-----------------------------------------------------------------------------
(* Delivery.                                                               *)

\* Mutant: a number per batch, not per record.
NextStampPerBatch(p) == Wrapped(sequences[p] + 1)

\* next_stamp: the number owed to the batch after this one.
NextStamp(p) == Wrapped(sequences[p] + Len(hand[p]))

\* batch_stamp for every batch: a plain producer takes its id now, once, and
\* every partition's numbers are claimed before anything is sent.
Stamp ==
    /\ at = "stamp"
    /\ identity' = TRUE
    /\ stamp' = [p \in Partitions |-> IF p \in Keys THEN sequences[p] ELSE 0]
    /\ sequences' = [p \in Partitions |->
                        IF p \in Keys THEN NextStamp(p) ELSE sequences[p]]
    /\ outcome' = [p \in Partitions |-> IF p \in Keys THEN "trying" ELSE "none"]
    /\ at' = "deliver"
    /\ UNCHANGED <<pending, txnVars, op, hand, tries, brokerVars,
                   historyVars>>

\* init_producer_id fails, at the first batch of the loop, which is any of
\* them: the batch goes back, and those the loop has not come to are dropped.
StampFails ==
    /\ at = "stamp"
    /\ ~identity
    /\ \E first \in Keys :
          /\ pending' = Restored(Part({first}))
          /\ failed' = GivenUp(Part({first}))
          /\ dropped' = dropped \cup Records(Part(Keys \ {first}))
    /\ Return
    /\ UNCHANGED <<identity, sequences, txnVars, brokerVars, plan, given,
                   direct, done, owed, promised, spoiled>>

Request(p) ==
    [to |-> p, records |-> hand[p], seq |-> stamp[p], round |-> tries[p]]

\* try_once: the request goes out; every round sends the same bytes.
TryOnce(p) ==
    /\ outcome[p] = "trying"
    /\ outcome' = [outcome EXCEPT ![p] = "waiting"]
    /\ wire' = wire \cup {Request(p)}
    /\ UNCHANGED <<bufferVars, txnVars, op, at, hand, stamp, tries, log,
                   last, claimed, superseded, historyVars>>

\* retry_loop: whether a round is left.
AnotherRound(p) == tries[p] + 1 < MaxAttempts

\* Mutant: rounds are not counted.
AttemptFailsForever(p) ==
    /\ outcome[p] \in {"trying", "waiting"}
    /\ outcome' = [outcome EXCEPT ![p] = "trying"]
    /\ UNCHANGED <<bufferVars, txnVars, op, at, hand, stamp, tries,
                   brokerVars, historyVars>>

\* or_mark_stale: no answer came, or one that says to ask again.
AttemptFails(p) ==
    /\ outcome[p] \in {"trying", "waiting"}
    /\ IF AnotherRound(p)
       THEN /\ tries' = [tries EXCEPT ![p] = @ + 1]
            /\ outcome' = [outcome EXCEPT ![p] = "trying"]
       ELSE /\ outcome' = [outcome EXCEPT ![p] = "timeout"]
            /\ UNCHANGED tries
    /\ UNCHANGED <<bufferVars, txnVars, op, at, hand, stamp, brokerVars,
                   historyVars>>

\* stamped_verdict and duplicate_of.  A negative number, which is what one past
\* i32::MAX becomes, is read as none at all.
Stamped(r) == r.seq >= 0
Known(r) == Stamped(r) /\ last[r.to] # NoBatch
Verdict(r) ==
    CASE superseded -> "fenced"
      [] ~superseded /\ Known(r) /\ r.seq = last[r.to].base -> "duplicate"
      [] ~superseded /\ Known(r)
            /\ r.seq \notin {last[r.to].base, last[r.to].next} -> "refused"
      [] OTHER -> "append"

Appended(r) ==
    [i \in DOMAIN r.records |->
        [rec |-> r.records[i],
         fate |-> IF Transactional THEN "open" ELSE "plain"]]
LastBatch(r) == [base |-> r.seq, next |-> Wrapped(r.seq + Len(r.records))]

\* produce_exchange: the leader handles a request.
Handle(r) ==
    /\ wire' = wire \ {r}
    /\ IF Verdict(r) = "append"
       THEN /\ log' = [log EXCEPT ![r.to] = @ \o Appended(r)]
            /\ last' = IF Stamped(r) THEN [last EXCEPT ![r.to] = LastBatch(r)]
                       ELSE last
       ELSE UNCHANGED <<log, last>>
    /\ UNCHANGED <<claimed, superseded>>

\* The answer reaches the attempt that waits for it.
Answer(p) ==
    /\ outcome[p] = "waiting"
    /\ Request(p) \in wire
    /\ Handle(Request(p))
    /\ outcome' = [outcome EXCEPT ![p] =
                      IF Verdict(Request(p)) \in {"append", "duplicate"}
                      THEN "ok" ELSE Verdict(Request(p))]
    /\ UNCHANGED <<bufferVars, txnVars, op, at, hand, stamp, tries,
                   historyVars>>

\* A request arrives and its answer reaches nobody.
Arrive(r) ==
    /\ Handle(r)
    /\ UNCHANGED <<bufferVars, txnVars, callVars, historyVars>>

Settled == {p \in Keys : outcome[p] \in {"ok", "timeout", "fenced", "refused"}}
Lost == {p \in Keys : outcome[p] # "ok"}

\* Mutant: the numbers of a failed batch are spent.
NumbersAfterSpent == sequences

\* The numbers of failed batches are handed back.
NumbersAfter ==
    [p \in Partitions |-> IF p \in Lost THEN stamp[p] ELSE sequences[p]]

\* Every delivery is through: failed batches go back with their numbers, and
\* the lowest partition's error is the call's.
Finish ==
    /\ at = "deliver"
    /\ Settled = Keys
    /\ done' = done \cup Records(Part(Keys \ Lost))
    /\ pending' = Restored(Part(Lost))
    /\ failed' = GivenUp(Part(Lost))
    /\ sequences' = NumbersAfter
    /\ spoiled' = spoiled \cup Lost
    /\ IF Lost = {} THEN UNCHANGED txnState
       ELSE \E p \in Lost : (\A q \in Lost : p <= q) /\ Poison(outcome[p])
    /\ IF op = "commit" /\ Lost = {} THEN Release("commit", "end")
       ELSE Return
    /\ UNCHANGED <<identity, txnPartitions, brokerVars, plan, given, direct,
                   dropped, owed, promised>>

\* Another producer runs init_transactions under the same id.
Successor ==
    /\ Transactional /\ identity
    /\ ~superseded
    /\ superseded' = TRUE
    /\ claimed' = {}
    /\ UNCHANGED <<bufferVars, txnVars, callVars, wire, log, last,
                   historyVars>>

-----------------------------------------------------------------------------
Caller ==
    \/ InitTransactions \/ BeginTransaction \/ CommitTransaction
    \/ AbortTransaction \/ SendOffsets \/ Flush
    \/ \E p \in Partitions : Enqueue(p) \/ EnqueueFull(p) \/ Produce(p)

CallStep ==
    \/ ClaimOk \/ ClaimFails \/ OffsetsOk \/ OffsetsFail \/ EndOk \/ EndFails
    \/ Stamp \/ StampFails \/ Finish
    \/ \E p \in Partitions : TryOnce(p) \/ AttemptFails(p) \/ Answer(p)

Network ==
    \/ Successor \/ ClaimUnheard \/ EndUnheard
    \/ \E r \in wire : Arrive(r)

Next == Caller \/ CallStep \/ Network

Spec == Init /\ [][Next]_vars

\* A call that is awaited is polled, and the request timeout bounds every
\* attempt; neither caller nor network owes anything.
Fairness == WF_vars(CallStep)
FairSpec == Spec /\ Fairness
-----------------------------------------------------------------------------
(* Properties.                                                             *)

States == {"Disabled", "Uninitialized", "Ready", "Open", "Abortable", "Fenced"}
Seqs == [Partitions -> Seq(Nat)]
SeqNumbers == -1 - MaxSeq .. MaxSeq
Requests ==
    [to : Partitions, records : Seq(Nat), seq : SeqNumbers, round : Nat]
Entries == [rec : Nat, fate : {"plain", "open", "committed", "aborted"}]

\* The type invariant: the fields of Producer, the locals of the call in
\* progress, and the broker's books.
TypeOK ==
    /\ pending \in Seqs /\ identity \in BOOLEAN
    /\ sequences \in [Partitions -> SeqNumbers]
    /\ txnState \in States /\ txnPartitions \subseteq Partitions
    /\ op \in {"none", "flush", "produce", "commit", "abort", "offsets"}
    /\ at \in {"none", "claim", "stamp", "deliver", "end", "offsets"}
    /\ (op = "none") <=> (at = "none")
    /\ hand \in Seqs /\ (at \in {"none", "end", "offsets"} => hand = Nothing)
    /\ stamp \in [Partitions -> SeqNumbers]
    /\ tries \in [Partitions -> 0 .. MaxAttempts - 1]
    /\ outcome \in [Partitions -> {"none", "trying", "waiting", "ok", "timeout",
                                    "fenced", "refused"}]
    /\ \A p \in Partitions :
          outcome[p] # "none" <=> (at = "deliver" /\ p \in Keys)
    /\ wire \subseteq Requests
    /\ log \in [Partitions -> Seq(Entries)]
    /\ last \in [Partitions -> [base : SeqNumbers, next : SeqNumbers]]
    /\ claimed \subseteq Partitions /\ superseded \in BOOLEAN
    /\ plan \in Plans /\ given \in 0 .. Len(plan) /\ direct \subseteq Partitions
    /\ done \subseteq 0 .. given
    /\ failed \subseteq 1 .. given /\ dropped \subseteq 1 .. given
    /\ owed \subseteq 0 .. given /\ promised \subseteq 1 .. given
    /\ spoiled \subseteq Partitions

\* No record is in the log twice, and buffered ones are there in the order they
\* were enqueued, though acknowledgements get lost, requests arrive after
\* their attempt was given up and failed batches are sent again with more in
\* them: what a retry under the same producer id and numbers is for.  (Where
\* produce takes the number of a buffered batch that failed, this is lost.)
OnceInOrder ==
    \A p \in Partitions \ (direct \cap spoiled) :
        \A i, j \in DOMAIN log[p] : i < j =>
            /\ log[p][i].rec # log[p][j].rec
            /\ p \notin direct => log[p][i].rec < log[p][j].rec

\* What is buffered, on its way or reported.
Kept == Records(pending) \cup Records(hand) \cup done \cup failed

\* All that was handed over is accounted for, and nothing that was reported is
\* still buffered.
Accounted ==
    /\ 1 .. given = Records(pending) \cup Records(hand)
                       \cup (done \ {Offsets}) \cup failed \cup dropped
    /\ Records(pending) \cap (Records(hand) \cup done \cup failed) = {}

\* What was dropped had company in another partition, and is gone for good.
DroppedInv ==
    /\ dropped \cap Kept = {}
    /\ \A n \in dropped : \E m \in 1 .. given : plan[m] # plan[n]
    /\ Transactional => dropped = {}

\* Every record handed over is buffered, on its way or reported, or was let go
\* by a flush that got no producer id: a call that fails at any other of its
\* steps loses nothing, and keeps nothing for another try that it reported.
\* What is let go was flushed beside records of another partition, is never
\* reported delivered, and is never a transactional producer's.
LostOnlyForNoId == Accounted /\ DroppedInv

\* A transactional produce is on its way only to partitions the coordinator
\* was told of in this transaction, unless a successor has taken the id: what
\* claim_partitions remembers is never left over from an earlier one.
WritesAreClaimed ==
    \A p \in Partitions :
        (Transactional /\ outcome[p] \in {"trying", "waiting"} /\ ~superseded)
            => p \in claimed

\* As long as no delivery to a partition has failed, its log holds every record
\* reported delivered there, and between calls the next number is the one the
\* leader expects: next_stamp leaves no gap, whatever was retried.
HealthyIsExact ==
    \A p \in Partitions \ spoiled :
        (op = "none" \/ outcome[p] = "ok") =>
            /\ sequences[p] = last[p].next
            /\ outcome[p] = "ok" =>
                  Range(hand[p]) \subseteq {e.rec : e \in Range(log[p])}

\* commit_transaction asks for a commit only when everything handed over in
\* the transaction was delivered and its offsets were accepted: a failure in
\* between, on any partition, leaves nothing but the abort.
CommitIsWhole ==
    [][(op' = "commit" /\ at' = "end") => owed \subseteq done']_vars

\* Every call returns, whatever is lost: retry_loop gives up after
\* max_attempts rounds.
CallsReturn == op # "none" ~> op = "none"

-----------------------------------------------------------------------------
(* The inductive invariant behind LostOnlyForNoId and CommitIsWhole.       *)

\* What the call in progress may hold, and in which states it runs.
CallInv ==
    /\ (op = "none") <=> (at = "none")
    /\ at \in {"none", "end", "offsets"} => hand = Nothing
    /\ at \in {"claim", "stamp", "deliver"} => op \in {"flush", "produce", "commit"}
    /\ at = "offsets" => op = "offsets"
    /\ at = "end" => op \in {"commit", "abort"}
    /\ op \in {"flush", "produce"} => Producible
    /\ op \in {"commit", "offsets"} => txnState = "Open"
    /\ op = "abort" => txnState \in {"Open", "Abortable"}
    /\ op \in {"commit", "abort"} => pending = Nothing
    /\ txnState \notin {"Disabled", "Uninitialized"} => identity

\* A record that is held is in the buffer or the batch of its own partition, and
\* what is in hand has not been reported.
PlaceInv ==
    /\ \A p \in Partitions : \A n \in Range(pending[p]) \cup Range(hand[p]) :
          n \in 1 .. given /\ plan[n] = p
    /\ done \subseteq 0 .. given /\ failed \subseteq 1 .. given
    /\ dropped \subseteq 1 .. given
    /\ Records(hand) \cap (done \cup failed) = {}

\* An open transaction still has before it whatever is not yet delivered.
OpenInv ==
    txnState = "Open" /\ op # "abort" =>
        owed \subseteq done \cup Records(pending) \cup Records(hand)
                          \cup (IF op = "offsets" THEN {Offsets} ELSE {})

\* The inductive invariant of the producer's books: what its buffers, the call
\* in progress and its reports hold between them, after any failure, but for
\* what a flush without a producer id let go.
BooksInv == CallInv /\ PlaceInv /\ LostOnlyForNoId /\ OpenInv
-----------------------------------------------------------------------------
\* ProducerConfig::transactional_id: "a `read_committed` consumer sees either
\* all of them or none": what a transaction whose commit returned had to write
\* is in the log, committed.
CommittedIsThere ==
    \A n \in promised : \E p \in Partitions : \E e \in Range(log[p]) :
        e.rec = n /\ e.fate = "committed"

\* flush: "On error the partitions that failed keep their buffers, so a later
\* flush or a caller-level retry does not lose records": every record handed
\* over is buffered, on its way or reported.
NothingLost == 1 .. given \subseteq Kept
=============================================================================
