# A TLA+ development of odradek

odradek is a Kafka client and a web bridge written in Rust. This directory
holds TLA+ modules that model its parts, the TLC configurations that check them
on small instances, and TLAPS proofs of what holds for every instance. It is
meant to be read beside `src/`; `PROJECT.json` maps every definition to the
lines it models, and lists the runs, the mutants that show each property has
teeth, the hazards of the code and the theorems.

## The system and its parts

| part | where | state it keeps | operations | speaks to |
|------|-------|----------------|------------|-----------|
| partition pump | `odradek-web-core/src/pump.rs` | live edge, ring and floor, error count, subscriber list with rotor, one cursor, mode and queue per subscriber | `run_pump` (one task), `PumpHandle::{subscribe, shutdown}`, `Subscription::recv` | hub (commands), source (fetches), readers (bounded queues) |
| record source | `odradek-web-core/src/source.rs` | a shared `Cluster`, a consumer per pump | `fetch`, `live_start`, `partitions`, `create` | client |
| hub | `odradek-web-core/src/hub.rs` | map of pumps, cached partition lists, `shut_down` | `subscribe`, `subscribe_topic`, `shutdown`, `reap_exited_pumps`, `forget_topics` | pumps, source factory, transports |
| merged topic streams | `hub.rs` (`merge`) | one forwarder task per partition | forwarding, noticing the end of either side | pumps, transports |
| events, cursors, parameters | `event.rs`, `cursor.rs`, `params.rs` | none | parsing and encoding of resume tokens, filters | hub front door, transports |
| SSE and WebSocket transports | `odradek-web-sse`, `odradek-web-ws` | a running cursor per topic stream | stream to frames | hub |
| connection | `odradek-client/src/conn.rs` | in-flight table, `closed`, next correlation id, throttle deadline | `request`, reader task, two drop guards | broker |
| cluster | `cluster.rs`, `join.rs` | caches of brokers, leaders and coordinators, blocking pool | leader and coordinator lookup, refresh, leases | connection |
| producer and transactions | `producer.rs`, `txn.rs`, `retry.rs` | buffers, sequences, transaction state, announced partitions | `enqueue`, `flush`, `produce`, begin/commit/abort, `send_offsets_to_transaction` | cluster |
| consumer | `consumer.rs`, `offsets.rs` | none of its own: callers keep positions | `fetch`, offset lookup | cluster |
| consumer groups | `group.rs`, `consumer_group.rs` | member id, generation or epoch, assignment | join, sync, heartbeat, leave, commit | cluster |
| authentication | `sasl.rs`, `tls.rs`, `odradek-sasl` | SCRAM exchange state | handshakes | connection |
| negotiation, admin | `negotiate.rs`, `admin.rs` | the version ranges of a connection | `negotiate`, `pick`, one exchange per admin call | connection |
| wire layer | `odradek-protocol` | none (budgets while decoding) | integers and varints, strings, tagged fields, frames, headers, record batches | everything in the client |
| generated messages, xtask | `odradek-protocol/src/messages`, `xtask` | none | `encode` and `decode` of every message in every version, generated from schemas | wire layer |
| acceptance suite | `odradek-acceptance` | the reference broker's logs, transactions and groups | conformance tests | not part of the running system |

What is hard about it:

* **The pump** is one task, but its readers and the tasks that carry terminal
  errors run on other threads. Any queue may gain room, or lose its receiver,
  between two `try_send`s. Three paths feed a subscriber (live push, replay from
  the ring, a catch-up fetch) and it moves between them at any record. It must
  be sent exactly the log it asked for: nothing twice, nothing missing, in
  order. A fetch may cross records that yield no event, retention may remove
  what a subscriber has yet to read, and the source may fail at any call.
* **The hub** makes its round trips to pumps outside its mutex. Between lookup
  and answer the pump may die, be replaced by another caller, be rolled back or
  be shut down, and the call itself may be dropped.
* **The connection** multiplexes requests whose callers may go away at any await
  point, with part of a frame on the wire.
* **Producer, transactions and groups** are protocols over lossy requests, with
  retries of what may already have been done.
* **The cluster's caches** are shared by every task and locked only for a moment
  at a time: a leader, a coordinator or a connection that was looked up may be
  forgotten, replaced or dead when it is used.
* **A topic stream** passes through a pump, a forwarder, a merge and a transport,
  each a task of its own; a client that lost its connection comes back with the
  cursor of the last frame it saw, not of the last one written.
* **The bytes** differ from version to version of every message, and two ends of
  different ages meet: the same request must be readable in each version both
  claim to speak, and nothing else may be read as if it were whole.

What makes each part right, in a line: a *pump* delivers each stream gaplessly,
in order, and ends it with at most one error; a *hub* never loses track of a
running pump, never cuts off somebody else's, and answers every call; a *merged
stream* ends when its parts do, holds nothing open once dropped, and can be
resumed exactly; a *connection* gives each answer to the request it belongs to
and leaves no entry behind; a *cluster* never keeps more idle connections than
were needed at once, and routes around what has moved; a *producer* writes each
record once and in order and loses no batch when a sibling fails, and a
*transaction* that failed can only be aborted; a *consumer* shows no record of
an aborted transaction and skips no other; a *group* gives each partition one
owner, and only the owner's commits count; a *codec* gives back what was
encoded, in every version, and refuses what was cut off.

## Modules

| module | what it is |
|--------|------------|
| `Feed` | abstract: what a partition pump promises its subscribers |
| `Pump` | `run_pump` with its handles, readers, error tasks and the log behind it |
| `MCPump` | instances of `Pump` for TLC |
| `PumpProofs` | TLAPS proofs about `Pump` |
| `Hub` | `SharedHub`: concurrent subscribes, the pump map, dying pumps |
| `MCHub` | an instance of `Hub` for TLC |
| `HubProofs` | TLAPS proofs about `Hub` |
| `Connection` | one broker connection: pipelined requests, the reader, a broker |
| `ConnectionProofs` | TLAPS proofs about `Connection` |
| `Producer` | an idempotent or transactional producer, its broker and the network between |
| `MCProducer` | instances of `Producer` for TLC |
| `ProducerProofs` | TLAPS proofs about `Producer`: what its buffers, calls and reports hold |
| `ProducerLogProofs` | TLAPS proofs about `Producer`: what reaches the logs |
| `Cluster` | what the tasks of one `Cluster` share: leaders, connections, the blocking pool |
| `Consumer` | fetches and offset lookups over `Cluster`, among transactions |
| `MCConsumer` | instances of `Consumer` for TLC |
| `ConsumerProofs` | TLAPS proofs about `Consumer` and the `Cluster` under it |
| `Group` | a classic consumer group: its members and their coordinator |
| `MCGroup` | instances of `Group` for TLC |
| `GroupProofs` | TLAPS proofs about `Group` |
| `Stream` | merged topic streams, their transports and a client that reconnects |
| `StreamProofs` | TLAPS proof about `Stream` |
| `Wire` | the primitives of `wire.rs` and the framing of `frame.rs`, on bytes |
| `Schema` | the encoder and decoder that `xtask` generates, over schemas |
| `ClusterMessages`, `LogMessages`, `GroupMessages` | the schemas of the messages the client exchanges |
| `Records` | record batches, record sets and the consumer protocol |
| `Requests` | every request the client builds, and the versions it speaks |
| `Exchange` | a connection at the level of bytes: negotiation, requests, answers |

### Pump

The pump task is cut wherever another task can act, and only there:

* `pc = "top"`: `RetainLive`, then `"idle"` (nobody listens: `ReceiveCommand`,
  `IdleTimeout`, `HandlesGone`) or `"drain"` (`ReceiveCommand` until
  `CommandsDrained`);
* `"liveStart"`, `"liveFetch"`: a source round trip, which answers
  (`LiveStartOk`, `LiveFetchOk`) or fails (`LiveStartFails`, `LiveFetchFails`,
  transient or permanent);
* `"pushLive"`: one event of the live batch per step (`PushLive`: every
  subscriber's `push_live`, then `Ring::push`), then `LiveBatchDone`;
* `"ring"`: `advance_from_ring` for each subscriber in list order, one event per
  step (`RingServes`, `RingDone`), then `NextFetch` (the rotor);
* `"catchUp"`, `"pushRun"`: `fetch_catch_up` (`CatchUpOk`, `CatchUpPush`,
  `CatchUpDone`, `CatchUpFails`, `CatchUpFailsForGood`);
* `"done"`: `run_pump` has returned.

Positions are integers with `None = -1`, which gives the derived order of
`Option<i64>`; an event is its offset and a filter is the set of offsets it
matches. A subscriber is named by the id `Subscribers::add` gives it. The log
(`hw`, `visible`, `logStart`) is external: it grows, with records or with
offsets that yield no event, and retention trims it. What a fetch answers comes
from `KafkaSource::fetch`: it starts at the log start when the position is
`None`, fails outside the log, and may end anywhere within `BatchMax` offsets,
reporting no progress only when there is nothing to read.

Five variables are history that no action reads. `base[s]` is the position the
stream of `s` really starts after (settled when it is first fetched for, since
`Earliest` means wherever the log starts at that moment), `origin` the same for
the live path, `delivered[s]` what its queue ever accepted; `resume` and
`passedBy` serve one property each.

### Hub

A caller is one `subscribe` or `subscribe_topic` at a time, kept as a record in
`call`. Work done under the mutex in one go is one action (`Subscribe`,
`Respawn`, `GivesUp`, `TopicLookup`, `Shutdown`...); the acquire loop of a topic
subscribe holds `lock` over one action per partition, since pumps die
meanwhile. Each round trip is a `trip`: to send, in the pump's channel, in the
channel behind a `Shutdown`, answered, or closed. Of the pump itself only this
channel is kept: it may return at any time (`PumpExits`), and when it does every
command in its channel is answered with `PumpClosed`. That is the contract
`Pump` satisfies: `Return` empties the channel. `Drop` drops a call at whichever
await it is, the lock with it.

### Feed, and how Pump implements it

`Feed` has a log and streams. A stream, once open, is sent the least record it
is owed, one at a time; its start settles once, before its first record, and
for a stream that named a position only past records that retention has already
removed. `ImplementsFeed` is `Feed`'s specification under the mapping in `Pump`:
a stream is `waiting` while it is live and the live edge is unknown, `open`
while it is in the list and not closed, `ended` afterwards. Rings, queues,
modes, turns and fetches are all invisible to it.

### Connection

A request is cut at its awaits, and between its look at `closed` and its entry
in the table (callers run on several threads): `Begin`, `Register`,
`LockWriter`, `WriteSome`, `WriteDone` or `WriteFails`, `Return`. `Cancel` drops
its future at any await; `Timeout` does the same and `Expire` then fails the
connection. `DropFuture` is what the two guards do when that happens. The reader
takes an entry out of the table (`ReaderTakes`) and sends the reply in a second
step (`ReaderReplies`), since a caller may go away in between. `fail_all` is one
step: whoever sees `closed` between its store and its sweep could as well have
looked after the sweep. The broker is external: it answers what it has read in
any order, or hangs up; once bytes follow a truncated frame it may answer under
any correlation id.

### Producer

A producer is used through `&mut self`, so one call runs at a time: `op` is the
call, `at` the await it is suspended at (`claim`: AddPartitionsToTxn, `stamp`:
InitProducerId, `deliver`, `offsets`, `end`: EndTxn), `hand` the batches it has
taken out of the buffers. The deliveries of one flush run side by side, each
with its rounds (`TryOnce`, `AttemptFails`, `Answer`), and `Finish` is what the
call does once all are through. Beside the call there are a network, where a
request may arrive after its attempt was given up (`Arrive`) or be carried out
without an answer (`ClaimUnheard`, `EndUnheard`), and a `Successor` that takes
the transactional id.

The broker is the reference broker of `odradek-acceptance/src/subject.rs`
without its faults: it keeps the last batch of each producer id per partition,
answers a repeat of its first number with success and refuses a gap
(`Verdict`). Kafka keeps five batches and also compares the last number; what
the runs show does not rest on the difference, except that where this broker
drops a failed batch merged with newer records as a duplicate, Kafka refuses it.

Records are numbered in the order in which they are handed over; `plan` says
which partition each goes to. `given`, `done`, `failed`, `dropped`, `owed`,
`promised`, `direct` and `spoiled` are history that no action reads.

Where a call fails, what it has drained goes back into the buffers
(`Restored`), with one exception. `flush` asks for the producer id inside its
loop over the drained batches, and its error path (`producer.rs:729`) puts back
the batch at hand and those stamped before it; the ones the loop has not come
to are dropped. `StampFails` does the same: any batch may be the first (the
buffers are a hash map), it goes back, and the rest is `dropped`.

### Cluster and Consumer

`Cluster` has the state behind the lock of `cluster.rs` for one partition: the
cached leader, the shared connection of each node, and the `BlockingPool`. A
call is cut at every acquisition of the lock: `Route`, `Told`, `Learn`, `Look`
find the leader; `Connect`, `Dial`, `Count` get a connection; `Release` and
`Drop` are the two acquisitions in which a lease goes back; `Retry` and `Fatal`
are `or_mark_stale` under `retry_loop`. `Consumer` adds the calls: `Send` (which
reads once more whom to blame), `Fetched`, `LookedUp`, `Refused`, `Fail`. The
log, with transactional batches and markers of several producers, is external,
and so is what a leader answers: any number of whole batches from the one that
holds the offset, and the aborted transactions among them in any order.
`Filter` is `BatchFilter::keeps`. Leaders move, connections die whether in use
or idle, dials are refused and requests time out, which closes their connection.

### Group

A member is its `GroupMember` and the await it is suspended at. `rejoin` is
`Joins`, `Mint`, `Join` or `JoinAgain`, the barrier (`CompleteJoin`), and
`SyncLeads` or `SyncFollows`; `After` is what it makes of a failure, for every
error it tells apart. The leader computes `RangeAssign` from the subscriptions
of the generation. A commit is a request of its own that may arrive at any later
time, since its future may be dropped. The coordinator is the reference broker's
where that has the behaviour (minting, the fence, the answer to a member that is
in) and Kafka's where it has not (the barrier, evictions, a move).

### Stream

A pump is taken as what `Feed` promises. For each partition there are a bounded
queue, a forwarder that waits for it and for the end of the merged stream at
once, and the merged queue; the transport turns items into frames. The client
has its token (the last id of SSE, or the cursor a WebSocket client keeps) and
what it received. `Disconnect` is unnoticed until `Notice`; in between, frames
go out that nobody sees and that move the server's running cursor only. The
connection is closed or reset, which the server can see, or lost in silence
(`silent`): then nothing fails before something has been written to it. An SSE
response writes a comment when it is idle (`KeepAlive`); `stream_events` of the
WebSocket transport sends no pings and has no timeout, so it writes only when
there is a record, a failure or the end to tell of.

### Wire, Schema, Records, Requests and Exchange

These work on sequences of bytes. `Wire` has the reader and the writer of each
primitive, in the plain and the compact form, the tagged fields and the frames.
A message is a schema (fields with a type, the versions that carry them, their
default, their nullability, their tag), and `Encode` and `Decode` in `Schema` do
over a schema what the generated Rust does. `Records` has the record batch with
its checksum over everything behind it; the checksum itself is a stand-in.
`Requests` fills in messages the way the client's functions do, per version
where they look at it. In `Exchange` the client negotiates with a broker of any
age and sends each request in the version it picks; the broker reads it and
answers; besides, the acceptance suite's probes send shapes that the client does
not (nulls, several elements, tagged fields nobody knows).

These modules use RECURSIVE operators and are for TLC only.

## Runs

| run | question | instance | result |
|-----|----------|----------|--------|
| `pump_safe` | ring, cursors and streams agree; order, turns, terminal errors; every step refines `Feed` | 1 subscriber over every log of up to 3 offsets with 2 filters and trims, or 2 over a log of 2 records growing to 3; queue 1, ring 1, no error budget | holds |
| `pump_live` | a reader is served or told, beside one that never reads; the gone are forgotten; `PumpInv` | 2 subscribers from either end, a log of 1 record growing to 2, failing source with a budget of 1 | holds |
| `hub` | no orphan pump, whole topics, only allowed and existing partitions, nobody else's pump stopped; every call returns | 2 callers, an allowed and a denied topic, growing source, 3 pumps | holds |
| `connection` | own answers, no entry left behind, failures for cause; every request returns | 3 requests | holds |
| `producer` | records are written once, in order, and none is lost but by a flush without a producer id; writes are announced; commits are whole; calls return | 3 records to a partition, or 1 each to 2; 2 attempts | holds |
| `consumer` | pools stay sound; reads are exact among interleaved transactions; readers catch up once lookups have ended | 2 nodes; 1 task with each mishap once, over two histories of transactions, or 2 tasks with one mishap | holds |
| `group` | each partition has one owner; accepted commits are their owner's unless a rejoin failed before them; the group comes to rest | 2 members, 2 topics of 3 and 1 partitions, two of five events, 2 rounds | holds |
| `stream` | a client resumes exactly; nothing of an abandoned stream stays behind once its loss can show | 2 partitions, one of them added late, 2 records each, 3 connections, both transports | holds |
| `exchange` | what is sent is what arrives, in every version two ends can agree on; cut frames are refused | every request of the client, brokers of 20 ages, 3 shapes of answers | holds |
| `pump_resume` | resuming loses nothing silently | 1 subscriber, 3 offsets, trims | violated |
| `producer_atomic` | what a committed transaction wrote is there | 2 records, 2 attempts | violated |
| `producer_flush` | a flush that fails keeps what it did not deliver | as `producer` | violated |

The three violated properties each state what a comment of the code promises;
`findings` in `PROJECT.json` quotes them. In short:

A pump that started on an
empty log believes its ring covers every cursor, though its first fetch starts
wherever retention has left the log.

A producer hands the number of a failed
batch back although the batch may have landed: after the abort, the first batch
of the next transaction bears that number, the broker takes it for the retry of
what it already has, and the commit succeeds without it. (`OnceInOrder` leaves
out partitions where `produce` is mixed with buffered records after a failure
for the same reason: `produce` takes the number, and the buffered batch is then
written a second time under the next one.)

An idempotent producer whose InitProducerId fails in a flush of two partitions
loses one of them: see `StampFails` above. What is left of the promise is
`LostOnlyForNoId`, which the `producer` run checks: nothing is lost any other
way, what is lost was flushed beside records of another partition, and a
transactional producer, which has its id before it can write, loses nothing.

### Observations

What else the models showed about the code, without a run of its own. Each was
seen in a counterexample of TLC, of one of these modules or a variant of it,
or follows from the lines named.

* `hub.rs:475`: `respawn` looks at neither the ceiling nor `shut_down`. When the
  stale entry was reaped and its slot taken meanwhile, the map grows past
  `max_pumps` ("So `pumps.len()` is bounded by `max_pumps`", `hub.rs:32`); a
  subscribe whose pump closes while `shutdown` runs starts a pump after it
  ("Stop every pump and refuse further subscribes", `hub.rs:524`).
* `conn.rs:364`: a request that already waits for the writer when another is
  cancelled inside its write goes on to write, behind the truncated frame.
  `OwnAnswer` therefore speaks of connections on which that has not happened.
* `pump.rs:626`: an idle pump keeps its live edge, so the `Latest` subscriber
  that wakes it is sent what was produced while nobody listened.
* `group.rs:214`: `rejoin` adopts the generation with the join and the
  assignment only with the sync. After a rejoin that failed in between, a commit
  for a partition of the old assignment carries the new generation and is
  accepted, although the partition is another member's now; the docs of
  `commit_offset` (`group.rs:293`) say that such a commit is refused "instead of
  silently clobbering the new owner's progress". TLC finds it in 18 steps of the
  `group` instance. `CommitsAreOwned` and `NoTwoOwners` leave out the commits sent
  between a failed rejoin and the next call of it (`astray`), and only those; so
  a caller should not commit then.
* `odradek-web-ws/src/lib.rs:439`: a WebSocket whose client vanishes without a
  close or a reset is noticed only when something is sent. On a silent topic
  the stream, its forwarders and its subscriptions stay until then.
* `consumer.rs:504`: a failed offset lookup never forgets the broker's shared
  connection. Once that is dead, every attempt of every lookup fails, until a
  fetch that fails forgets the broker; `error.rs:137` counts a dead connection
  among what a retry can mend. A request that times out closes its connection
  (`conn.rs:299`), so one slow answer is enough. And every failed lookup marks the
  leader stale: when that falls between the two looks of another task's fetch, the
  fetch fails with `UnknownLeader`, which is not retried. A task that goes on
  looking up can so keep another from reading; `CatchesUp` leaves out behaviours
  in which lookups never end, and only those.
* `consumer.rs:385`: the broker to blame is looked up after the lease was handed
  out and may be another one by then. `CatchesUp` holds all the same: a dead
  idle connection costs one attempt each and is gone then.
* `cluster.rs:607`: during an election the refreshed metadata names no leader,
  and `UnknownLeader` is not retriable, so a fetch fails at once; the caller's
  next one succeeds.
* `cluster.rs:809`: when another task of the same `Cluster` forgets the
  coordinator between the two lookups of `blocking_coordinator`, the rejoin ends
  with a fatal protocol violation.
* `odradek-web-sse/src/lib.rs:305`: the error frame of a failed partition is not
  the last: the other partitions of the topic go on. The module docs (line 44)
  speak of "one final `event: error` frame" after which "the stream ends".

### Bounds, and why they are enough

* A queue of 1 and a ring of 1 are the smallest the code allows to be useful:
  with three offsets, a queue fills in the middle of a batch, the ring evicts,
  the floor moves and a subscriber falls behind the ring and catches up again.
* `BatchMax = 2`: a batch can be refused half-way, and a fetch can cross an
  offset that yields no event together with one that does.
* `MaxErrors = 1` in `pump_live` reaches both sides of the budget; 0 in
  `pump_safe` keeps the state space within reach and still fails streams.
* `SecondIfSimple` keeps `pump_safe` within reach: a second subscriber is
  explored over a log that began with two records and that retention leaves
  alone, the variety of logs and filters with one. It is a constraint, so
  states beyond it are checked themselves and not expanded.
* `NoShutdown` leaves `Shutdown` out of `pump_live`, where it only ends every
  stream. Nothing makes a handle send it, so what is explored is exactly the
  behaviours in which nobody does, and the fairness assumed is unaffected.
* Two subscribers are what a turn, a shared batch and a stalled neighbour need;
  two callers and two partitions are what a race for one entry and a
  half-failed topic subscribe need; three pumps allow a death, a replacement
  and the other partition's.
* `Paced` keeps `hub` within reach with liveness: calls overlap if they begin
  before the second pump is started, and the third is for a lone call. It only
  withholds what the environment owes to nobody (new calls, a growing source, a
  cache cleared), and lets the creation of a pump fail, which it may; so it takes
  no fair step away. The safety properties are proved without it.
* The 16 slots of the command channel are never filled by so few commands, so
  the channel is unbounded in the model.
* Three requests are one that tears a frame, one queued behind it and one that
  begins afterwards. Correlation ids do not wrap: 2^32 requests would have to
  pass within one request timeout for a live id to be taken again.
* Three records to a partition are what it takes for a late request to arrive
  two batches after its own; one record each to two partitions gives a flush
  with a sibling that fails and a second announcement. Two attempts are a lost
  answer and its retry. `MaxSeq` is `i32::MAX`, so numbers do not wrap in these
  runs.
* `consumer`: two nodes are what a move needs. One task meets every mishap, among
  transactions of two producers that overlap in both ways, from the start and
  from inside a batch; two tasks meet one each, on a plain log, since what they
  share is the cache and the pool. A limit of one idle connection is reached by
  two leases. Two rounds are a failure and its retry.
* `group`: three partitions do not divide among two members, and the second topic
  has one subscriber. Any two of the five events happen, in any order, but an
  eviction together with a move, whose states alone exceed all the others; the
  safety properties were checked with that pair too. Ids are reused only when
  nobody remembers them.
* `stream`: a late partition is one that the token does not name. Two records per
  partition make a gap, a repetition and a replay visible; three connections are
  two resumptions, of which the second shows a cursor that was lost in the first.
* `exchange`: a cap is the highest version a broker knows of any api, from 0 to
  past every version this crate has; a new broker may also have dropped the old
  ones, up to all that the client speaks. Values are small but of every
  shape: null, empty, one and several elements, known and unknown tags. Every
  strict prefix of an answer is tried for `CutIsRefused`.
* The connection's requests are numbered in the order in which they begin, which
  does for them what symmetry would, and for liveness too.
* `CHECK_DEADLOCK FALSE` is given for the pump because `run_pump` returns; the
  hub run checks for deadlock. A connection that was dropped is also at its end,
  a caller may stop using its producer, and a client may stop connecting.

### Fairness

* `Pump`: weak fairness of the pump task as a whole (a spawned tokio task that
  is ready is polled; every source call returns or fails, by the client's
  request timeout), of each error-sending task, and of `recv` for the readers in
  `Readers` only. Nothing is assumed of producers, retention, handles or other
  readers. Fairness does not make the source succeed: the properties allow for
  a stream that ends with an error.
* `Hub`: weak fairness for pumps, which receive what is in their channel; strong
  fairness for the steps of a call, because `tokio::sync::Mutex` is FIFO, so a
  call that keeps asking for it gets it although others take it in between.
* `Connection`: weak fairness of the reader and of a request's own steps, and
  timers fire. Neither the broker nor a write owes anything.
* `Producer`: weak fairness of the steps of the call in progress: its future is
  polled, and the request timeout ends every attempt. The caller, the network
  and the broker owe nothing; fairness lets every attempt fail.
* `Consumer`: tasks are polled, a dead connection fails its requests, an election
  ends, the history is written, and a caller that has a position goes on
  fetching. Nothing makes lookups happen, and mishaps are finite. That lookups come
  to an end is a hypothesis of `CatchesUp` (see Observations).
* `Group`: calls run to their end, callers heartbeat and rejoin when told to (or
  when a rejoin has failed), and the coordinator completes rebalances and ends
  the sessions of ids that nobody bears. Events are finite.
* `Stream`: forwarders run; what there is to write to a lost connection is written,
  since it goes into the socket's buffer; SSE's keep-alive fires; and a connection
  that was closed, reset or written to after its loss fails, to the transport's
  read or write. A WebSocket lost in silence on a silent topic is owed nothing,
  and `NothingLingers` excludes it (`Shows`). Neither pumps nor the client owe
  anything, and a client that is connected need not read.

## What is proved

`PumpProofs` proves `TypeCorrect == Spec => []TypeOK` for every value of the
constants that satisfies `PumpAssumption`. `TypeOK` alone is not inductive: the
id handed to a new subscriber stays below `MaxSubs` only because of how many
commands can be on their way, and the subscriber a catch-up fetch works for is
in range only because it is still in the list. The invariant proved is
`TypeInv == TypeOK /\ CommandBound /\ (turn is in the list during catch-up)`.
There is one lemma per action or group of actions; `Frame` disposes of the
groups of variables an action leaves alone.

`ConnectionProofs` proves `Spec => []ConnInv` for any number of requests, and
from it that answers are own (`AnswersAreOwn`), that the table is left clean
(`TableIsClean`), that the connection fails only for a cause
(`FailuresHaveCause`) and that a torn frame costs it (`TornConnectionsFail`).
`OwnAnswer` needs a chain of facts, one per place an answer passes through, each
tied to the one before: ids are handed out once (`IdInv`), what the broker has
read is a registered request and what it answers bears its id (`BrokerInv`), the
reader's hand and the reply channel hold the answer of the request they are
addressed to (`ReplyInv`, `AnswerInv`), all as long as nothing was written behind
a torn frame (`TearInv`). There is one lemma per action.

`ProducerProofs` proves, for any partitions, any plan of the caller and any number
of attempts, `Spec => []BooksInv` (`BooksHold`) and from it that no record is lost
but by a flush that got no producer id (`OnlyForNoId`) and that commits are whole
(`CommitsWhole`). `LostOnlyForNoId` is not inductive: a failed batch goes back into the right buffer, and is not reported
besides, only because every record in hand lies in the batch of its own partition
and is not yet reported (`PlaceInv`), and because a call holds batches only at
the awaits where it may fail with them (`CallInv`). `CommitIsWhole` rests on
`OpenInv`: while a transaction is open, what it owes is delivered, buffered or in
hand, so that at the request for the commit, with nothing buffered or in hand, it
is delivered. There is one lemma per action; the attempts of a delivery, the
leader and a successor leave the books alone (`OtherSteps`).

`ProducerLogProofs` is about what the leaders end up with. `WrittenOnce`
(`OnceInOrder`) and `HealthyExact` (`HealthyIsExact`) have the hypothesis `Fits`:
no caller hands over more records than there are sequence numbers. It is needed:
past `i32::MAX` the numbers go negative and the broker no longer checks them (one
of the hazards). The invariant `LogInv` says for each partition that numbers are
counted in records, those given out and those still needed being at most the
records handed over (`Numbered`: with `Fits`, none wraps); that while no delivery
has failed the batch in hand is the next one the leader expects or the last it
took, and a request left over from an earlier batch bears a number the leader has
passed (`Healthy`); and that while every batch goes through the buffer, numbers
and records rise together, so that what the leader will still take comes after
all it has (`Ordered`, which survives failures: a failed batch keeps its number
and grows at the end). Partitions where `produce` was used *and* a delivery failed
are in neither case, and `OnceInOrder` excepts them. Per partition there are seven
lemmas for the seven things a step can do to it; each action is a choice of
them. `WritesClaimed` (`WritesAreClaimed`) needs no hypothesis: `ClaimInv` says
that what `claim_partitions` remembers the coordinator knows as long as the
transaction is open, and that no transaction begins with the memory of another.

`PumpProofs` also proves `PumpTheorem == Spec => []PumpInv`, the inductive
strengthening of `RingComplete`, `Gapless` and `LiveIsCurrent`, for every log,
configuration and number of subscribers, and from it `Gapless` by itself
(`GaplessTheorem`), `ErrorIsLast` (`ErrorTheorem`) and that every step maps to a
step of `Feed` or to none (`FeedTheorem`, the refinement `ImplementsFeed`). Why
the parts of `PumpInv` are needed: a floor below `origin` is only possible while
it is `None` and nothing has been delivered from before `origin` (`EdgeInv`); a
subscriber can stall only with a full queue, so it has been delivered something
and its cursor lies at or after its base (`PlaceInv`); and the batch of a catch-up
fetch is exactly what its subscriber is owed up to `nextAfter` (`RunInv`).
`TurnsTheorem` (`TurnsAreFair`) needs besides where the waiting laggard stands
between the rotor and the one that was served (`TurnInv`).

`HubProofs` proves `NoOrphanPump`, `TopicIsWhole` and `StopsOnlyItsOwn` for any
topics, partitions, callers and number of pumps. A pump is replaced or removed
only by who has found it closed, and what was found closed is dead (`TripInv`);
the map and the calls name only partitions that exist and are allowed
(`EntryInv`); a topic subscribe has an answer for all it does not still miss
(`WholeInv`); and the acquire loop holds the mutex, so that nobody else has seen
what it put in the map (`LoopInv`).

`StreamProofs` proves `ResumesExactly` for any partitions, logs, capacity and
number of connections. A record passes a partition's queue, its forwarder and
the merged queue; each holds a run of the partition's offsets (`Sorted`), the runs
join up from the pump's position to the running cursor (`PipeInv`), and the
running cursor is the client's token while it is connected (`CursorInv`).

`ConsumerProofs` proves `PoolIsSound` for any finite sets of brokers and tasks. The
strengthening, `PoolInv`, says that the count of a pool is that of the calls that
lease from it (`CountInv`), that idle connections differ and lie in one pool each
(`IdleInv`), and that a call has a connection in its hand exactly at the awaits
where it uses one, and no other call the same (`HandInv`). That there is a number
left for a new connection is a pigeonhole argument, for which the sets must be
finite.

It also proves `ReadsAreExact` (`ReadsTheorem`): for any history of plain batches,
transactions and markers, any tasks of either isolation level, any way a leader
cuts an answer and orders its list of aborted transactions, and any mishaps.
`ConsumerAssumption` has what Kafka grants of a log: batches hold at least one
record, and what is transactional has a producer id. The argument has four parts.

* *The log.* Offsets only go up (`Chained`), and a log that grows keeps what it had
  (`Extends`, `PortionAppended`). A transaction is decided by the first marker of
  its producer behind it; one that was decided stays so (`DecidedKept`), and below
  the last stable offset all are (`StableFacts`).
* *The filter.* Once a batch with a producer id has been seen among those up to *m*,
  the entries taken from the list are those of the transactions opened by *m*, and
  `disowned` has exactly the producers of those that are still to be aborted behind
  *m* (`FilterInv`: `IsTaken`, `IsLeft`, `IsDisowned`). The list has to be in order
  for this, since `keeps` looks at its front only. A batch takes the entries that
  have begun (`TakingStep`), they join `disowned` (`DisowningStep`), and an entry
  leaves it with its own marker and no other (`MarkerStep`). Hence the verdict on a
  batch is the one the log gives (`VerdictIsRight`), and what is kept is what is to
  be shown (`FilterIsExact`; `FilterIsPlain` for a task that reads uncommitted).
* *The answer.* Every list the leader may send is such a list (`ListingExists`),
  the records pushed are those of the batches kept from the offset asked for on
  (`RecordsAreAll`), and `next_offset` is past the last batch (`NextIs`). So a
  fetch takes its reader from offset *p* to *q* with exactly what it is owed between
  (`FetchedAdvances`, an `Advance`).
* *The reader.* `ReadInv`, inductive together with `PoolInv`, says that what a task
  has been given is an `Advance` from its first position to its current one, and
  that a call under way is a fetch exactly if there is a position (a late answer to
  a lookup must not move a reader). `Advance` includes that the end is settled:
  nothing written later changes what is owed before it (`Settled`), without which
  the invariant would not survive a write (`AdvanceKept`). Two of them in a row are
  one (`AdvanceTwice`).

The folds of the filter, of the records and of the log are unrolled into functions
on the batches handled so far (`FoldExists`, `FilterFold`, `RecordsFold`,
`AppendedFold`), and the steps then go by least counterexample (`CountUp`), since
induction theorems cannot be used.

`GroupProofs` proves `CommitsAreOwned` and `GenerationIsPartitioned` for any clients,
subscriptions and partition counts, and from both that no two commits of
different members which the coordinator would take name the same partition
(`NoTwoOwnersTheorem`). Both statements about commits leave out those sent after
a failed rejoin, for which they are false (see Observations). A plan in force is the range assignment of the members it
was made for (`Planned`); a member between calls with the present generation acts
on that plan (`Fine`), and so did whoever sent a commit of it (`Valid`). That
`range_assign` leaves no partition out and gives none twice is arithmetic about a
sum over the members ordered before one; the sum is computed by least
counterexample over the set summed, since induction theorems cannot be used.

Only model-checked: liveness (`ReadersAreServed`, `ErrorsArrive`,
`GoneAreForgotten`, `CallsReturn`, `RequestsReturn`, `CatchesUp`, `GroupSettles`,
`NothingLingers`), which is beyond the prover; and the six invariants of
`Exchange`. All six are about what the codecs (`Wire`, `Schema`, `Records`,
`Requests`) compute, which are RECURSIVE operators over their data, and the prover
cannot reason about those. The `TypeOK` of `Producer` was checked on the instance
of the `producer` run and is not proved as a whole; the parts that the proofs
need are in `Shapes` and `FormInv`.

## What is not modelled

* Time: back-off, idle polling, long polls. Where a delay ends in a choice (the
  idle timeout) the choice is an action that may be taken at any time.
* The two round trips of a fetch from the start of the log (list the earliest
  offset, then fetch): one action, whose failure covers a log start that moved
  in between.
* `Hub`'s own `subscribe` and `subscribe_topic`, which need exclusive access:
  they take the same steps as `SharedHub`'s with nobody interleaved.
* A call of `Hub::shutdown` or `release_new` dropped while it waits for a pump's
  channel: each is one action.
* A write to a broker that fails in mid-frame is not told apart from one that
  fails before it: the socket is dead either way, and nobody reads the part that
  went out. The range check of a record's `offset_delta` is left out, since the
  numbers of the instances do not reach it.
* Event contents, headers, filter syntax, log messages and error wording.
* Of the producer: the partitioner, encoding and compression of batches, the
  mode without idempotence, a call dropped at an await, and a request to the
  coordinator that arrives after its call has given up. A call that the
  transaction state refuses changes nothing and is not an action.
* Of the client: TLS and SASL beyond the bytes of its requests (a straight line
  of round trips on a connection nobody shares yet), compression, the limits on
  what a response may materialise, the control connection of a cluster, and
  `consumer_group.rs` (KIP-848) beyond its heartbeat's bytes.
* Of the web bridge: the text of cursors, filters and parameters, HTTP statuses,
  the subscribe frame and the limits of a WebSocket, the in-memory source.
* Of the protocol: messages the client never exchanges, decode budgets, and the
  polynomial of CRC-32C.
* The checks of the acceptance suite, which are tests themselves, its faulty
  brokers, and the tooling in `xtask` besides the code generator.

## Plan

The models are in place, and every safety property a run shows to hold is proved but
those of the codecs. Open ends: the `TypeOK` of `Producer`, which needs `Fits` like
the properties of its logs; the hazards that no property covers; and for the codecs
a formulation without RECURSIVE operators, at least of negotiation.
