------------------------------- MODULE Stream -------------------------------
(* Topic streams from the partitions' pumps to a client that reconnects:     *)
(* the merge of the hub (hub.rs), the resume cursor (cursor.rs, params.rs)   *)
(* and the two transports that write frames (odradek-web-sse and             *)
(* odradek-web-ws). A pump is what module Feed promises of it: it delivers   *)
(* what comes after a position, in order and without a gap, until it ends.   *)
(*                                                                           *)
(* A client may lose its connection at any time; the server finds out later  *)
(* and goes on writing frames that nobody sees until then. A connection that *)
(* was closed or reset tells the server so; one that was lost in silence     *)
(* fails only after something is written to it. Two streams share nothing    *)
(* but the log, so the client comes back once the old one has come to its    *)
(* end. Offsets count from 1; records are not filtered here.                 *)
EXTENDS Integers, Sequences, SequencesExt, FiniteSets, Functions

CONSTANTS
    Partitions,     \* of the topic
    Late,           \* the ones that are added while clients are connected
    Transports,     \* "sse", "ws"
    Froms,          \* "earliest", "latest": the from parameter
    Capacity,       \* PumpConfig::queue_capacity
    MaxOffset,      \* bound: records in a partition
    MaxStreams      \* bound: times the client connects

ASSUME StreamAssumption ==
    /\ Late \subseteq Partitions /\ Partitions \ Late # {}
    /\ Transports \subseteq {"sse", "ws"} /\ Froms \subseteq {"earliest", "latest"}
    /\ Capacity \in Nat \ {0} /\ MaxOffset \in Nat /\ MaxStreams \in Nat

VARIABLES
    log,        \* how many records each partition has
    exists,     \* the partitions there are
    down,       \* the hub has been shut down
    stream,     \* the TopicSubscription, its forwarders and queues
    silent,     \* the connection was lost and nothing was written to it since
    client,     \* what the client asks for and what it has seen
    connects    \* how many more times it may connect

vars == <<log, exists, down, stream, silent, client, connects>>

\* An item is a record, or the error that ends a partition's stream.
Record(p, offset) == [partition |-> p, offset |-> offset]
Failure(p) == [partition |-> p, offset |-> 0]
IsFailure(item) == item.offset = 0

\* A TopicSubscription and its forwarders; open until its receiver is dropped.
NoStream == [open |-> FALSE, covered |-> {}, merged |-> <<>>, running |-> <<>>,
             position |-> <<>>, queue |-> <<>>, pump |-> <<>>, forwarder |-> <<>>]

\* The client's token is its Last-Event-ID, or the cursor it keeps itself.
Init ==
    /\ log = [p \in Partitions |-> 0]
    /\ exists = Partitions \ Late
    /\ down = FALSE
    /\ stream = NoStream
    /\ silent = FALSE
    /\ connects = MaxStreams
    /\ client \in [transport : Transports, from : Froms, connected : {FALSE}, token : {<<>>},
                   received : {[p \in Partitions |-> <<>>]}]

At(p, where) == p \in stream.covered /\ stream.forwarder[p].at = where

----------------------------------------------------------------------------
(* External: the log, and the pump of each partition.                        *)

Produce(p) ==
    /\ p \in exists /\ log[p] < MaxOffset
    /\ log' = [log EXCEPT ![p] = @ + 1]
    /\ UNCHANGED <<exists, down, stream, silent, client, connects>>
AddPartition(p) ==
    /\ p \in Partitions \ exists
    /\ exists' = exists \cup {p}
    /\ UNCHANGED <<log, down, stream, silent, client, connects>>

\* Pushes wait for room; a subscriber whose receiver is gone is forgotten.
Pumps(p) ==
    /\ p \in stream.covered /\ stream.pump[p] = "live"
    /\ stream.forwarder[p].at # "done"
    /\ Len(stream.queue[p]) < Capacity
Push(p) ==
    /\ Pumps(p) /\ stream.position[p] < log[p]
    /\ stream' = [stream EXCEPT !.position[p] = @ + 1,
                                !.queue[p] = Append(@, Record(p, stream.position[p] + 1))]
    /\ UNCHANGED <<log, exists, down, silent, client, connects>>
Fail(p) ==
    /\ Pumps(p)
    /\ stream' = [stream EXCEPT !.pump[p] = "ended",
                                !.queue[p] = Append(@, Failure(p))]
    /\ UNCHANGED <<log, exists, down, silent, client, connects>>
\* The hub is shut down: every pump ends, with no more to say.
Shutdown ==
    /\ ~down
    /\ down' = TRUE
    /\ stream' = [stream EXCEPT !.pump = [p \in DOMAIN @ |-> "ended"]]
    /\ UNCHANGED <<log, exists, silent, client, connects>>

----------------------------------------------------------------------------
(* subscribe_topic.                                                          *)

\* topic_position and partition_position: the resume token wins, and a
\* partition that it does not name is replayed from its start.
PartitionPosition(p) ==
    IF client.token # <<>>
    THEN IF p \in DOMAIN client.token THEN client.token[p] ELSE 0
    ELSE IF client.from = "earliest" THEN 0 ELSE log[p]

\* Mutant: the running cursor starts empty.
SeededEmpty(covered) == <<>>
\* The running cursor starts at the resume point, as far as it is covered.
Seeded(covered) == Restrict(client.token, DOMAIN client.token \cap covered)

\* stream_topic and merge: one forwarder for each partition there is. A hub
\* that has been shut down refuses.
Connect ==
    /\ ~client.connected /\ ~stream.open
    /\ connects > 0 /\ ~down
    /\ \A p \in stream.covered : At(p, "done")
    /\ stream' = [NoStream EXCEPT !.open = TRUE, !.covered = exists, !.running = Seeded(exists),
                     !.position = [p \in exists |-> PartitionPosition(p)],
                     !.queue = [p \in exists |-> <<>>],
                     !.pump = [p \in exists |-> "live"],
                     !.forwarder = [p \in exists |-> [at |-> "recv", item |-> <<>>]]]
    /\ client' = [client EXCEPT !.connected = TRUE]
    /\ silent' = FALSE
    /\ connects' = connects - 1
    /\ UNCHANGED <<log, exists, down>>

----------------------------------------------------------------------------
(* The forwarder of a partition, which waits for its receiver and for the    *)
(* end of the merged stream at once.                                         *)

Ended(p) ==
    [stream EXCEPT !.forwarder[p] = [at |-> "done", item |-> <<>>],
                   !.queue[p] = <<>>]

\* An item is taken from the partition's queue.
Forward(p) ==
    /\ At(p, "recv") /\ stream.queue[p] # <<>>
    /\ stream' = [stream EXCEPT !.forwarder[p] = [at |-> "send", item |-> Head(stream.queue[p])],
                                !.queue[p] = Tail(@)]
    /\ UNCHANGED <<log, exists, down, silent, client, connects>>

\* The partition's stream has ended.
ForwardEnds(p) ==
    /\ At(p, "recv") /\ stream.queue[p] = <<>> /\ stream.pump[p] = "ended"
    /\ stream' = Ended(p)
    /\ UNCHANGED <<log, exists, down, silent, client, connects>>

\* The item goes into the merged stream when there is room.
ForwardSends(p) ==
    /\ At(p, "send") /\ stream.open
    /\ Len(stream.merged) < Capacity
    /\ stream' = [stream EXCEPT !.merged = Append(@, stream.forwarder[p].item),
                                !.forwarder[p] = [at |-> "recv", item |-> <<>>]]
    /\ UNCHANGED <<log, exists, down, silent, client, connects>>

\* The merged stream is gone, which the forwarder finds out while it sends.
ForwardFails(p) ==
    /\ At(p, "send") /\ ~stream.open
    /\ stream' = Ended(p)
    /\ UNCHANGED <<log, exists, down, silent, client, connects>>

\* Mutant: the end of the merged stream is not watched for.
NeverTold(p) == FALSE
\* Whether a forwarder that waits for its partition hears of it.
Told(p) == ~stream.open
ForwardStops(p) ==
    /\ At(p, "recv") /\ Told(p)
    /\ stream' = Ended(p)
    /\ UNCHANGED <<log, exists, down, silent, client, connects>>

----------------------------------------------------------------------------
(* The transports.                                                           *)

Dropped == [stream EXCEPT !.open = FALSE, !.merged = <<>>]
Receives(item, token) ==
    client' = [client EXCEPT !.token = token,
                             !.received[item.partition] = Append(@, item.offset)]

\* A record becomes a frame. SSE gives it the running cursor for an id; a
\* WebSocket client keeps its own cursor. A client that has gone away sees
\* neither.
ReadRecord ==
    /\ stream.open /\ stream.merged # <<>> /\ ~IsFailure(Head(stream.merged))
    /\ LET item == Head(stream.merged)
           inserted(cursor) == [p \in DOMAIN cursor \cup {item.partition} |->
                                   IF p = item.partition THEN item.offset ELSE cursor[p]]
       IN /\ stream' = [stream EXCEPT !.merged = Tail(@),
                                      !.running = inserted(@)]
          /\ IF ~client.connected THEN UNCHANGED client
             ELSE Receives(item, inserted(IF client.transport = "sse" THEN stream.running
                                          ELSE client.token))
    /\ silent' = FALSE
    /\ UNCHANGED <<log, exists, down, connects>>

\* A partition has failed. SSE writes an error frame and goes on with the
\* others; a WebSocket is closed.
ReadFailure ==
    /\ stream.open /\ stream.merged # <<>> /\ IsFailure(Head(stream.merged))
    /\ IF client.transport = "sse"
       THEN /\ stream' = [stream EXCEPT !.merged = Tail(@)]
            /\ UNCHANGED client
       ELSE /\ stream' = Dropped
            /\ client' = [client EXCEPT !.connected = FALSE]
    /\ silent' = FALSE
    /\ UNCHANGED <<log, exists, down, connects>>

\* Every forwarder has ended: the response ends, the socket is closed.
ReadEnd ==
    /\ stream.open /\ stream.merged = <<>>
    /\ \A p \in stream.covered : At(p, "done")
    /\ stream' = Dropped
    /\ client' = [client EXCEPT !.connected = FALSE]
    /\ silent' = FALSE
    /\ UNCHANGED <<log, exists, down, connects>>

\* The client closes the connection, or it is reset, or lost in silence.
Disconnect ==
    /\ client.connected
    /\ client' = [client EXCEPT !.connected = FALSE]
    /\ silent' \in BOOLEAN
    /\ UNCHANGED <<log, exists, down, stream, connects>>

\* SSE writes a comment into a stream that has been idle.
KeepAlive ==
    /\ client.transport = "sse"
    /\ stream.open /\ silent
    /\ silent' = FALSE
    /\ UNCHANGED <<log, exists, down, stream, client, connects>>

\* Reading or writing the connection fails, and the response or the socket's
\* task is dropped.
Notice ==
    /\ stream.open /\ ~client.connected /\ ~silent
    /\ stream' = Dropped
    /\ UNCHANGED <<log, exists, down, silent, client, connects>>

----------------------------------------------------------------------------
Forwards(p) ==
    \/ Forward(p) \/ ForwardEnds(p) \/ ForwardSends(p) \/ ForwardFails(p) \/ ForwardStops(p)
Reads == ReadRecord \/ ReadFailure \/ ReadEnd
Next ==
    \/ \E p \in Partitions :
          Produce(p) \/ AddPartition(p) \/ Push(p) \/ Fail(p) \/ Forwards(p)
    \/ Reads \/ KeepAlive \/ Notice
    \/ Connect \/ Disconnect \/ Shutdown

\* Tasks run. A write to a lost connection goes into the socket's buffer, so
\* it does not wait for the client, and what nobody acknowledges fails in the
\* end; a connected client need not read. Only SSE writes when it has nothing
\* to say, so nothing is owed to a WebSocket that is lost in silence.
Fairness ==
    /\ WF_vars(~client.connected /\ Reads)
    /\ WF_vars(KeepAlive)
    /\ WF_vars(Notice)
    /\ \A p \in Partitions : WF_vars(Forwards(p))

Spec == Init /\ [][Next]_vars
FairSpec == Spec /\ Fairness

----------------------------------------------------------------------------
\* Over any number of lost connections, with frames written to nobody, failed
\* partitions and new ones, a client receives the records of each partition
\* in order, none twice and none left out (from the start, if that is what
\* it asked for), and its token says exactly what it has received.
ResumesExactly ==
    \A p \in Partitions :
        LET got == client.received[p] IN
        /\ \A i \in 2 .. Len(got) : got[i] = got[i - 1] + 1
        /\ client.from = "earliest" /\ got # <<>> => got[1] = 1
        /\ p \in DOMAIN client.token <=> got # <<>>
        /\ got # <<>> => client.token[p] = Last(got)

\* Whether the loss of a connection is going to show: it was closed or reset,
\* or something is or will be written to it.
Shows ==
    \/ ~silent \/ client.transport = "sse" \/ down \/ stream.merged # <<>>
    \/ \E p \in stream.covered : stream.queue[p] # <<>> \/ At(p, "send")

\* Once the client is gone, or its stream has ended, every forwarder comes to
\* its end and lets go of its partition, also when that is silent: over SSE
\* however the connection was lost, over a WebSocket if it was closed or
\* reset, or there is a record, a failure or a shutdown to tell of. (One that
\* is lost in silence on a silent topic is kept: nothing is sent that fails.)
NothingLingers ==
    \A p \in Partitions :
        (p \in stream.covered /\ ~client.connected /\ Shows) ~> At(p, "done")
=============================================================================
