----------------------------- MODULE LogMessages ----------------------------
(* The messages of odradek-protocol for produce, fetch, offsets of the log and transactions *)
(* (crates/odradek-protocol/src/messages), one struct per definition, in the *)
(* vocabulary of Schema. The fields are in wire order, each with the         *)
(* versions whose encode and decode carry it.                                *)
EXTENDS Schema

----------------------------------------------------------------------------
PartitionProduceData == Struct(<<
    Always("index", I32),
    Defaulting(<<<<>>>>, NullableFrom(0, Always("records", Blob)))>>)

TopicProduceData == Struct(<<
    Until(12, "name", String), Since(13, "topic_id", Uuid),
    Always("partition_data", Vec(PartitionProduceData))>>)

ProduceRequest == Message(0, 3, 13, 9, Struct(<<
    NullableFrom(0, Always("transactional_id", String)), Always("acks", I16),
    Always("timeout_ms", I32), Always("topic_data", Vec(TopicProduceData))>>))

----------------------------------------------------------------------------
BatchIndexAndErrorMessage == Struct(<<
    Since(8, "batch_index", I32),
    NullableFrom(0, Since(8, "batch_index_error_message", String))>>)

ProduceLeaderIdAndEpoch == Struct(<<
    Defaulting(-1, Since(10, "leader_id", I32)),
    Defaulting(-1, Since(10, "leader_epoch", I32))>>)

PartitionProduceResponse == Struct(<<
    Always("index", I32), Always("error_code", I16),
    Always("base_offset", I64),
    Defaulting(-1, Always("log_append_time_ms", I64)),
    Defaulting(-1, Since(5, "log_start_offset", I64)),
    Since(8, "record_errors", Vec(BatchIndexAndErrorMessage)),
    NullableFrom(0, Since(8, "error_message", String)),
    Tagged(0, Since(10, "current_leader", ProduceLeaderIdAndEpoch))>>)

TopicProduceResponse == Struct(<<
    Until(12, "name", String), Since(13, "topic_id", Uuid),
    Always("partition_responses", Vec(PartitionProduceResponse))>>)

ProduceNodeEndpoint == Struct(<<
    Since(10, "node_id", I32), Since(10, "host", String),
    Since(10, "port", I32), NullableFrom(0, Since(10, "rack", String))>>)

ProduceResponse == Message(0, 3, 13, 9, Struct(<<
    Always("responses", Vec(TopicProduceResponse)),
    Always("throttle_time_ms", I32),
    Tagged(0, Since(10, "node_endpoints", Vec(ProduceNodeEndpoint)))>>))

----------------------------------------------------------------------------
FetchPartition == Struct(<<
    Always("partition", I32),
    Defaulting(-1, Since(9, "current_leader_epoch", I32)),
    Always("fetch_offset", I64),
    Defaulting(-1, Since(12, "last_fetched_epoch", I32)),
    Defaulting(-1, Since(5, "log_start_offset", I64)),
    Always("partition_max_bytes", I32),
    Tagged(0, Since(17, "replica_directory_id", Uuid)),
    Tagged(1, Since(18, "high_watermark", I64))>>)

FetchTopic == Struct(<<
    Until(12, "topic", String), Since(13, "topic_id", Uuid),
    Always("partitions", Vec(FetchPartition))>>)

ForgottenTopic == Struct(<<
    During(7, 12, "topic", String), Since(13, "topic_id", Uuid),
    Since(7, "partitions", Vec(I32))>>)

ReplicaState == Struct(<<
    Defaulting(-1, Since(15, "replica_id", I32)),
    Defaulting(-1, Since(15, "replica_epoch", I64))>>)

FetchRequest == Message(1, 4, 18, 12, Struct(<<
    Defaulting(-1, Until(14, "replica_id", I32)), Always("max_wait_ms", I32),
    Always("min_bytes", I32),
    Defaulting(2147483647, Always("max_bytes", I32)),
    Always("isolation_level", I8), Since(7, "session_id", I32),
    Defaulting(-1, Since(7, "session_epoch", I32)),
    Always("topics", Vec(FetchTopic)),
    Since(7, "forgotten_topics_data", Vec(ForgottenTopic)),
    Since(11, "rack_id", String), Tagged(0, Since(12, "cluster_id", String)),
    Tagged(1, Since(15, "replica_state", ReplicaState))>>))

----------------------------------------------------------------------------
AbortedTransaction == Struct(<<
    Always("producer_id", I64), Always("first_offset", I64)>>)

EpochEndOffset == Struct(<<
    Defaulting(-1, Since(12, "epoch", I32)),
    Defaulting(-1, Since(12, "end_offset", I64))>>)

FetchLeaderIdAndEpoch == Struct(<<
    Defaulting(-1, Since(12, "leader_id", I32)),
    Defaulting(-1, Since(12, "leader_epoch", I32))>>)

SnapshotId == Struct(<<
    Defaulting(-1, Always("end_offset", I64)),
    Defaulting(-1, Always("epoch", I32))>>)

PartitionData == Struct(<<
    Always("partition_index", I32), Always("error_code", I16),
    Always("high_watermark", I64),
    Defaulting(-1, Always("last_stable_offset", I64)),
    Defaulting(-1, Since(5, "log_start_offset", I64)),
    Defaulting(<<<<>>>>, NullableFrom(0, Always("aborted_transactions", Vec(AbortedTransaction)))),
    Defaulting(-1, Since(11, "preferred_read_replica", I32)),
    Defaulting(<<<<>>>>, NullableFrom(0, Always("records", Blob))),
    Tagged(0, Since(12, "diverging_epoch", EpochEndOffset)),
    Tagged(1, Since(12, "current_leader", FetchLeaderIdAndEpoch)),
    Tagged(2, Since(12, "snapshot_id", SnapshotId))>>)

FetchableTopicResponse == Struct(<<
    Until(12, "topic", String), Since(13, "topic_id", Uuid),
    Always("partitions", Vec(PartitionData))>>)

FetchNodeEndpoint == Struct(<<
    Since(16, "node_id", I32), Since(16, "host", String),
    Since(16, "port", I32), NullableFrom(0, Since(16, "rack", String))>>)

FetchResponse == Message(1, 4, 18, 12, Struct(<<
    Always("throttle_time_ms", I32), Since(7, "error_code", I16),
    Since(7, "session_id", I32),
    Always("responses", Vec(FetchableTopicResponse)),
    Tagged(0, Since(16, "node_endpoints", Vec(FetchNodeEndpoint)))>>))

----------------------------------------------------------------------------
ListOffsetsPartition == Struct(<<
    Always("partition_index", I32),
    Defaulting(-1, Since(4, "current_leader_epoch", I32)),
    Always("timestamp", I64)>>)

ListOffsetsTopic == Struct(<<
    Always("name", String), Always("partitions", Vec(ListOffsetsPartition))>>)

ListOffsetsRequest == Message(2, 1, 10, 6, Struct(<<
    Always("replica_id", I32), Since(2, "isolation_level", I8),
    Always("topics", Vec(ListOffsetsTopic)), Since(10, "timeout_ms", I32)>>))

----------------------------------------------------------------------------
ListOffsetsPartitionResponse == Struct(<<
    Always("partition_index", I32), Always("error_code", I16),
    Defaulting(-1, Always("timestamp", I64)),
    Defaulting(-1, Always("offset", I64)),
    Defaulting(-1, Since(4, "leader_epoch", I32))>>)

ListOffsetsTopicResponse == Struct(<<
    Always("name", String),
    Always("partitions", Vec(ListOffsetsPartitionResponse))>>)

ListOffsetsResponse == Message(2, 1, 10, 6, Struct(<<
    Since(2, "throttle_time_ms", I32),
    Always("topics", Vec(ListOffsetsTopicResponse))>>))

----------------------------------------------------------------------------
InitProducerIdRequest == Message(22, 0, 6, 2, Struct(<<
    Defaulting(<<<<>>>>, NullableFrom(0, Always("transactional_id", String))),
    Always("transaction_timeout_ms", I32),
    Defaulting(-1, Since(3, "producer_id", I64)),
    Defaulting(-1, Since(3, "producer_epoch", I16)),
    Since(6, "enable2_pc", Bool), Since(6, "keep_prepared_txn", Bool)>>))

----------------------------------------------------------------------------
InitProducerIdResponse == Message(22, 0, 6, 2, Struct(<<
    Always("throttle_time_ms", I32), Always("error_code", I16),
    Defaulting(-1, Always("producer_id", I64)), Always("producer_epoch", I16),
    Defaulting(-1, Since(6, "ongoing_txn_producer_id", I64)),
    Defaulting(-1, Since(6, "ongoing_txn_producer_epoch", I16))>>))

----------------------------------------------------------------------------
AddPartitionsToTxnTopic == Struct(<<
    Always("name", String), Always("partitions", Vec(I32))>>)

AddPartitionsToTxnTransaction == Struct(<<
    Since(4, "transactional_id", String), Since(4, "producer_id", I64),
    Since(4, "producer_epoch", I16), Since(4, "verify_only", Bool),
    Since(4, "topics", Vec(AddPartitionsToTxnTopic))>>)

AddPartitionsToTxnRequest == Message(24, 0, 5, 3, Struct(<<
    Since(4, "transactions", Vec(AddPartitionsToTxnTransaction)),
    Until(3, "v3_and_below_transactional_id", String),
    Until(3, "v3_and_below_producer_id", I64),
    Until(3, "v3_and_below_producer_epoch", I16),
    Until(3, "v3_and_below_topics", Vec(AddPartitionsToTxnTopic))>>))

----------------------------------------------------------------------------
AddPartitionsToTxnPartitionResult == Struct(<<
    Always("partition_index", I32), Always("partition_error_code", I16)>>)

AddPartitionsToTxnTopicResult == Struct(<<
    Always("name", String),
    Always("results_by_partition", Vec(AddPartitionsToTxnPartitionResult))>>)

AddPartitionsToTxnResult == Struct(<<
    Since(4, "transactional_id", String),
    Since(4, "topic_results", Vec(AddPartitionsToTxnTopicResult))>>)

AddPartitionsToTxnResponse == Message(24, 0, 5, 3, Struct(<<
    Always("throttle_time_ms", I32), Since(4, "error_code", I16),
    Since(4, "results_by_transaction", Vec(AddPartitionsToTxnResult)),
    Until(3, "results_by_topic_v3_and_below", Vec(AddPartitionsToTxnTopicResult))>>))

----------------------------------------------------------------------------
AddOffsetsToTxnRequest == Message(25, 0, 4, 3, Struct(<<
    Always("transactional_id", String), Always("producer_id", I64),
    Always("producer_epoch", I16), Always("group_id", String)>>))

----------------------------------------------------------------------------
AddOffsetsToTxnResponse == Message(25, 0, 4, 3, Struct(<<
    Always("throttle_time_ms", I32), Always("error_code", I16)>>))

----------------------------------------------------------------------------
EndTxnRequest == Message(26, 0, 5, 3, Struct(<<
    Always("transactional_id", String), Always("producer_id", I64),
    Always("producer_epoch", I16), Always("committed", Bool)>>))

----------------------------------------------------------------------------
EndTxnResponse == Message(26, 0, 5, 3, Struct(<<
    Always("throttle_time_ms", I32), Always("error_code", I16),
    Defaulting(-1, Since(5, "producer_id", I64)),
    Defaulting(-1, Since(5, "producer_epoch", I16))>>))

----------------------------------------------------------------------------
TxnOffsetCommitRequestPartition == Struct(<<
    Always("partition_index", I32), Always("committed_offset", I64),
    Defaulting(-1, Since(2, "committed_leader_epoch", I32)),
    Defaulting(<<<<>>>>, NullableFrom(0, Always("committed_metadata", String)))>>)

TxnOffsetCommitRequestTopic == Struct(<<
    Always("name", String),
    Always("partitions", Vec(TxnOffsetCommitRequestPartition))>>)

TxnOffsetCommitRequest == Message(28, 0, 5, 3, Struct(<<
    Always("transactional_id", String), Always("group_id", String),
    Always("producer_id", I64), Always("producer_epoch", I16),
    Defaulting(-1, Since(3, "generation_id", I32)),
    Since(3, "member_id", String),
    NullableFrom(0, Since(3, "group_instance_id", String)),
    Always("topics", Vec(TxnOffsetCommitRequestTopic))>>))

----------------------------------------------------------------------------
TxnOffsetCommitResponsePartition == Struct(<<
    Always("partition_index", I32), Always("error_code", I16)>>)

TxnOffsetCommitResponseTopic == Struct(<<
    Always("name", String),
    Always("partitions", Vec(TxnOffsetCommitResponsePartition))>>)

TxnOffsetCommitResponse == Message(28, 0, 5, 3, Struct(<<
    Always("throttle_time_ms", I32),
    Always("topics", Vec(TxnOffsetCommitResponseTopic))>>))
=============================================================================
