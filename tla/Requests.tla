------------------------------ MODULE Requests ------------------------------
(* The requests odradek-client builds: for each api, the versions the client *)
(* speaks and the values its builders set (the *_once functions of cluster,  *)
(* admin, producer, txn, consumer, group, consumer_group, offsets and sasl). *)
(* Names are one byte long; the configured numbers are small ones.           *)
EXTENDS ClusterMessages, LogMessages, Records

Set(struct, values) == values @@ DefaultStruct(struct)
Made(message, values) == Set(message.struct, values)

Topic == <<116>>
Group == <<103>>
Member == <<109>>
TxnId == <<120>>
TopicId == [i \in 1 .. 16 |-> i]

\* A batch as the producer builds it, and the set it becomes.
SampleRecord(offset) ==
    [attributes |-> 0, timestamp_delta |-> offset - 1, offset_delta |-> offset,
     key |-> IF offset = 0 THEN <<>> ELSE <<<<107>>>>, value |-> <<<<118, 119>>>>,
     headers |-> IF offset = 0 THEN <<>>
                 ELSE <<[key |-> <<104>>, value |-> <<>>],
                        [key |-> <<>>, value |-> <<<<1>>>>]>>]
SampleBatch(base, codec) ==
    [base_offset |-> base, partition_leader_epoch |-> -1, attributes |-> codec,
     last_offset_delta |-> 1, base_timestamp |-> 1000, max_timestamp |-> 1001,
     producer_id |-> 7, producer_epoch |-> 0, base_sequence |-> base, count |-> 2,
     records |-> IF codec = 0 THEN <<SampleRecord(0), SampleRecord(1)>>
                 ELSE <<200, 201, 202>>]
SampleSet == <<SampleBatch(0, 0), SampleBatch(2, 1)>>

----------------------------------------------------------------------------
(* One operator per builder.                                                 *)

\* refresh_metadata: creating the topic is never asked for.
MetadataFor == Made(MetadataRequest,
    "topics" :> <<<<Set(MetadataRequestTopic, "name" :> <<Topic>>)>>>> @@
    "allow_auto_topic_creation" :> FALSE)

\* kind 0 asks for a group's coordinator, 1 for a transaction's.
FindCoordinatorOf(kind) == Made(FindCoordinatorRequest,
    "key" :> (IF kind = 0 THEN Group ELSE TxnId) @@ "key_type" :> kind)

CreateTopicFor == Made(CreateTopicsRequest,
    "topics" :> <<Set(CreatableTopic,
        "name" :> Topic @@ "num_partitions" :> 2 @@ "replication_factor" :> 1)>> @@
    "timeout_ms" :> 30000)

\* From version 6 the names are in an array of states.
DeleteTopicsAt(version) == Made(DeleteTopicsRequest,
    (IF version >= 6
     THEN "topics" :> <<Set(DeleteTopicState, "name" :> <<Topic>>)>>
     ELSE "topic_names" :> <<Topic>>) @@
    "timeout_ms" :> 30000)

DescribeConfigOf(type) == Made(DescribeConfigsRequest,
    "resources" :> <<Set(DescribeConfigsResource,
        "resource_type" :> type @@ "resource_name" :> Topic @@
        "configuration_keys" :> <<>>)>>)

ProduceTo(txn) == Made(ProduceRequest,
    "transactional_id" :> txn @@ "acks" :> -1 @@ "timeout_ms" :> 30000 @@
    "topic_data" :> <<Set(TopicProduceData,
        "name" :> Topic @@
        "partition_data" :> <<Set(PartitionProduceData,
            "index" :> 1 @@ "records" :> <<EncodeSet(SampleSet)>>)>>)>>)

InitProducerIdOf(txn) == Made(InitProducerIdRequest,
    "transactional_id" :> txn @@
    "transaction_timeout_ms" :> (IF txn = <<>> THEN -1 ELSE 60000) @@
    "producer_id" :> -1 @@ "producer_epoch" :> -1)

\* isolation 0 is read_uncommitted, 1 read_committed.
FetchAt(isolation) == Made(FetchRequest,
    "max_wait_ms" :> 500 @@ "min_bytes" :> 1 @@ "max_bytes" :> 4096 @@
    "session_id" :> 0 @@ "session_epoch" :> -1 @@
    "isolation_level" :> isolation @@
    "topics" :> <<Set(FetchTopic,
        "topic" :> Topic @@
        "partitions" :> <<Set(FetchPartition,
            "partition" :> 1 @@ "current_leader_epoch" :> -1 @@
            "fetch_offset" :> 300 @@ "last_fetched_epoch" :> -1 @@
            "log_start_offset" :> -1 @@ "partition_max_bytes" :> 1024)>>)>>)

ListOffsetsAt(isolation) == Made(ListOffsetsRequest,
    "replica_id" :> -1 @@ "isolation_level" :> isolation @@
    "topics" :> <<Set(ListOffsetsTopic,
        "name" :> Topic @@
        "partitions" :> <<Set(ListOffsetsPartition,
            "partition_index" :> 1 @@ "current_leader_epoch" :> -1 @@
            "timestamp" :> -2)>>)>>)

AddPartitionsFor == Made(AddPartitionsToTxnRequest,
    "v3_and_below_transactional_id" :> TxnId @@
    "v3_and_below_producer_id" :> 7 @@ "v3_and_below_producer_epoch" :> 1 @@
    "v3_and_below_topics" :> <<Set(AddPartitionsToTxnTopic,
        "name" :> Topic @@ "partitions" :> <<0, 1>>)>>)

AddOffsetsFor == Made(AddOffsetsToTxnRequest,
    "transactional_id" :> TxnId @@ "producer_id" :> 7 @@
    "producer_epoch" :> 1 @@ "group_id" :> Group)

TxnOffsetCommitOf(metadata) == Made(TxnOffsetCommitRequest,
    "transactional_id" :> TxnId @@ "group_id" :> Group @@
    "producer_id" :> 7 @@ "producer_epoch" :> 1 @@ "generation_id" :> 3 @@
    "member_id" :> Member @@ "group_instance_id" :> <<>> @@
    "topics" :> <<Set(TxnOffsetCommitRequestTopic,
        "name" :> Topic @@
        "partitions" :> <<Set(TxnOffsetCommitRequestPartition,
            "partition_index" :> 1 @@ "committed_offset" :> 40 @@
            "committed_leader_epoch" :> -1 @@
            "committed_metadata" :> metadata)>>)>>)

EndTxnAs(committed) == Made(EndTxnRequest,
    "transactional_id" :> TxnId @@ "producer_id" :> 7 @@
    "producer_epoch" :> 1 @@ "committed" :> committed)

JoinGroupAs(member) == Made(JoinGroupRequest,
    "group_id" :> Group @@ "session_timeout_ms" :> 10000 @@
    "rebalance_timeout_ms" :> 30000 @@ "member_id" :> member @@
    "group_instance_id" :> <<>> @@ "protocol_type" :> <<99>> @@
    "protocols" :> <<Set(JoinGroupRequestProtocol,
        "name" :> <<114>> @@ "metadata" :> EncodeSubscription(<<Topic>>))>>)

\* Only the leader sends assignments.
SyncGroupWith(assignments) == Made(SyncGroupRequest,
    "group_id" :> Group @@ "generation_id" :> 3 @@ "member_id" :> Member @@
    "group_instance_id" :> <<>> @@ "protocol_type" :> <<<<99>>>> @@
    "protocol_name" :> <<<<114>>>> @@
    "assignments" :> [i \in DOMAIN assignments |->
        Set(SyncGroupRequestAssignment,
            "member_id" :> Member @@
            "assignment" :> EncodeAssignment(assignments[i]))])

HeartbeatFor == Made(HeartbeatRequest,
    "group_id" :> Group @@ "generation_id" :> 3 @@ "member_id" :> Member)

\* The flat member id and the array are both set; the version picks one.
LeaveGroupFor == Made(LeaveGroupRequest,
    "group_id" :> Group @@ "member_id" :> Member @@
    "members" :> <<Set(MemberIdentity, "member_id" :> Member)>>)

\* Joining states the subscription, an adopted assignment is echoed once.
ConsumerGroupHeartbeatOf(epoch, acking) == Made(ConsumerGroupHeartbeatRequest,
    "group_id" :> Group @@ "member_id" :> Member @@ "member_epoch" :> epoch @@
    CASE epoch = 0 ->
            "rebalance_timeout_ms" :> 30000 @@
            "subscribed_topic_names" :> <<<<Topic>>>> @@
            "server_assignor" :> <<>> @@ "topic_partitions" :> <<<<>>>>
      [] epoch > 0 /\ acking ->
            "topic_partitions" :> <<<<Set(OwnedTopicPartitions,
                "topic_id" :> TopicId @@ "partitions" :> <<0, 1>>)>>>>
      [] OTHER -> <<>>)

OffsetCommitFor == Made(OffsetCommitRequest,
    "group_id" :> Group @@ "generation_id_or_member_epoch" :> 3 @@
    "member_id" :> Member @@ "group_instance_id" :> <<>> @@
    "retention_time_ms" :> -1 @@
    "topics" :> <<Set(OffsetCommitRequestTopic,
        "name" :> Topic @@
        "partitions" :> <<Set(OffsetCommitRequestPartition,
            "partition_index" :> 1 @@ "committed_offset" :> 40 @@
            "committed_leader_epoch" :> -1)>>)>>)

OffsetFetchFor == Made(OffsetFetchRequest,
    "group_id" :> Group @@
    "topics" :> <<<<Set(OffsetFetchRequestTopic,
        "name" :> Topic @@ "partition_indexes" :> <<1>>)>>>>)

DescribeGroupsFor == Made(DescribeGroupsRequest, "groups" :> <<Group>>)

SaslHandshakeFor == Made(SaslHandshakeRequest, "mechanism" :> <<115>>)
SaslAuthenticateFor == Made(SaslAuthenticateRequest, "auth_bytes" :> <<0, 117, 0, 112>>)

ApiVersionsFor == Made(ApiVersionsRequest,
    "client_software_name" :> <<111>> @@ "client_software_version" :> <<48>>)

----------------------------------------------------------------------------
(* The apis: request, response and the versions the client speaks.           *)

Speaks(request, response, min, max) ==
    [request |-> request, response |-> response, min |-> min, max |-> max]

SUPPORTED_cluster == [
    metadata |-> Speaks(MetadataRequest, MetadataResponse, 1, MetadataRequest.max),
    find_coordinator |-> Speaks(FindCoordinatorRequest, FindCoordinatorResponse, 0, 3),
    create_topics |-> Speaks(CreateTopicsRequest, CreateTopicsResponse, 2, 7)]

SUPPORTED_admin == [
    delete_topics |-> Speaks(DeleteTopicsRequest, DeleteTopicsResponse,
                             DeleteTopicsRequest.min, DeleteTopicsRequest.max),
    describe_configs |-> Speaks(DescribeConfigsRequest, DescribeConfigsResponse,
                                DescribeConfigsRequest.min, DescribeConfigsRequest.max),
    list_groups |-> Speaks(ListGroupsRequest, ListGroupsResponse, 0, ListGroupsRequest.max),
    describe_groups |-> Speaks(DescribeGroupsRequest, DescribeGroupsResponse,
                               0, DescribeGroupsRequest.max)]

SUPPORTED_producer == [
    produce |-> Speaks(ProduceRequest, ProduceResponse, 3, 12),
    init_producer_id |-> Speaks(InitProducerIdRequest, InitProducerIdResponse, 0, 5)]

SUPPORTED_consumer == [
    fetch |-> Speaks(FetchRequest, FetchResponse, 4, 12),
    list_offsets |-> Speaks(ListOffsetsRequest, ListOffsetsResponse,
                            1, ListOffsetsRequest.max)]

SUPPORTED_txn == [
    add_partitions |-> Speaks(AddPartitionsToTxnRequest, AddPartitionsToTxnResponse, 0, 3),
    add_offsets |-> Speaks(AddOffsetsToTxnRequest, AddOffsetsToTxnResponse, 0, 4),
    txn_offset_commit |-> Speaks(TxnOffsetCommitRequest, TxnOffsetCommitResponse, 0, 4),
    end_txn |-> Speaks(EndTxnRequest, EndTxnResponse, 0, 4)]

SUPPORTED_group == [
    join_group |-> Speaks(JoinGroupRequest, JoinGroupResponse, 4, JoinGroupRequest.max),
    sync_group |-> Speaks(SyncGroupRequest, SyncGroupResponse, 3, SyncGroupRequest.max),
    heartbeat |-> Speaks(HeartbeatRequest, HeartbeatResponse, 0, HeartbeatRequest.max),
    leave_group |-> Speaks(LeaveGroupRequest, LeaveGroupResponse, 0, LeaveGroupRequest.max)]

SUPPORTED_consumer_group == [
    consumer_group_heartbeat |->
        Speaks(ConsumerGroupHeartbeatRequest, ConsumerGroupHeartbeatResponse,
               ConsumerGroupHeartbeatRequest.min, ConsumerGroupHeartbeatRequest.max)]

SUPPORTED_offsets == [
    offset_commit |-> Speaks(OffsetCommitRequest, OffsetCommitResponse, 2, 9),
    offset_fetch |-> Speaks(OffsetFetchRequest, OffsetFetchResponse, 1, 7)]

SUPPORTED_sasl == [
    sasl_handshake |-> Speaks(SaslHandshakeRequest, SaslHandshakeResponse, 1, 1),
    sasl_authenticate |-> Speaks(SaslAuthenticateRequest, SaslAuthenticateResponse,
                                 SaslAuthenticateRequest.min, SaslAuthenticateRequest.max)]

SUPPORTED ==
    SUPPORTED_cluster @@ SUPPORTED_admin @@ SUPPORTED_producer @@ SUPPORTED_consumer @@
    SUPPORTED_txn @@ SUPPORTED_group @@ SUPPORTED_consumer_group @@
    SUPPORTED_offsets @@ SUPPORTED_sasl

Apis == DOMAIN SUPPORTED

\* The requests the client may build for an api at a version.
Builds(api, version) ==
    CASE api = "metadata" -> {MetadataFor}
      [] api = "find_coordinator" -> {FindCoordinatorOf(k) : k \in 0 .. 1}
      [] api = "create_topics" -> {CreateTopicFor}
      [] api = "delete_topics" -> {DeleteTopicsAt(version)}
      [] api = "describe_configs" -> {DescribeConfigOf(t) : t \in {2, 4}}
      [] api = "list_groups" -> {DefaultStruct(ListGroupsRequest.struct)}
      [] api = "describe_groups" -> {DescribeGroupsFor}
      [] api = "produce" -> {ProduceTo(t) : t \in {<<>>, <<TxnId>>}}
      [] api = "init_producer_id" -> {InitProducerIdOf(t) : t \in {<<>>, <<TxnId>>}}
      [] api = "fetch" -> {FetchAt(i) : i \in 0 .. 1}
      [] api = "list_offsets" -> {ListOffsetsAt(i) : i \in 0 .. 1}
      [] api = "add_partitions" -> {AddPartitionsFor}
      [] api = "add_offsets" -> {AddOffsetsFor}
      [] api = "txn_offset_commit" -> {TxnOffsetCommitOf(m) : m \in {<<>>, <<<<1>>>>}}
      [] api = "end_txn" -> {EndTxnAs(c) : c \in BOOLEAN}
      [] api = "join_group" -> {JoinGroupAs(m) : m \in {<<>>, Member}}
      [] api = "sync_group" -> {SyncGroupWith(a) :
                                   a \in {<<>>, <<<<<<Topic, <<0, 1>>>>>>>>}}
      [] api = "heartbeat" -> {HeartbeatFor}
      [] api = "leave_group" -> {LeaveGroupFor}
      [] api = "consumer_group_heartbeat" ->
            {ConsumerGroupHeartbeatOf(e, a) : e \in -1 .. 1, a \in BOOLEAN}
      [] api = "offset_commit" -> {OffsetCommitFor}
      [] api = "offset_fetch" -> {OffsetFetchFor}
      [] api = "sasl_handshake" -> {SaslHandshakeFor}
      [] api = "sasl_authenticate" -> {SaslAuthenticateFor}
=============================================================================
