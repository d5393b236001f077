---------------------------- MODULE GroupMessages ---------------------------
(* The messages of odradek-protocol for consumer groups of both protocols and their offsets *)
(* (crates/odradek-protocol/src/messages), one struct per definition, in the *)
(* vocabulary of Schema. The fields are in wire order, each with the         *)
(* versions whose encode and decode carry it.                                *)
EXTENDS Schema

----------------------------------------------------------------------------
JoinGroupRequestProtocol == Struct(<<
    Always("name", String), Always("metadata", Blob)>>)

JoinGroupRequest == Message(11, 0, 9, 6, Struct(<<
    Always("group_id", String), Always("session_timeout_ms", I32),
    Defaulting(-1, Since(1, "rebalance_timeout_ms", I32)),
    Always("member_id", String),
    NullableFrom(0, Since(5, "group_instance_id", String)),
    Always("protocol_type", String),
    Always("protocols", Vec(JoinGroupRequestProtocol)),
    NullableFrom(0, Since(8, "reason", String))>>))

----------------------------------------------------------------------------
JoinGroupResponseMember == Struct(<<
    Always("member_id", String),
    NullableFrom(0, Since(5, "group_instance_id", String)),
    Always("metadata", Blob)>>)

JoinGroupResponse == Message(11, 0, 9, 6, Struct(<<
    Since(2, "throttle_time_ms", I32), Always("error_code", I16),
    Defaulting(-1, Always("generation_id", I32)),
    NullableFrom(0, Since(7, "protocol_type", String)),
    Defaulting(<<<<>>>>, NullableFrom(7, Always("protocol_name", String))),
    Always("leader", String), Since(9, "skip_assignment", Bool),
    Always("member_id", String),
    Always("members", Vec(JoinGroupResponseMember))>>))

----------------------------------------------------------------------------
SyncGroupRequestAssignment == Struct(<<
    Always("member_id", String), Always("assignment", Blob)>>)

SyncGroupRequest == Message(14, 0, 5, 4, Struct(<<
    Always("group_id", String), Always("generation_id", I32),
    Always("member_id", String),
    NullableFrom(0, Since(3, "group_instance_id", String)),
    NullableFrom(0, Since(5, "protocol_type", String)),
    NullableFrom(0, Since(5, "protocol_name", String)),
    Always("assignments", Vec(SyncGroupRequestAssignment))>>))

----------------------------------------------------------------------------
SyncGroupResponse == Message(14, 0, 5, 4, Struct(<<
    Since(1, "throttle_time_ms", I32), Always("error_code", I16),
    NullableFrom(0, Since(5, "protocol_type", String)),
    NullableFrom(0, Since(5, "protocol_name", String)),
    Always("assignment", Blob)>>))

----------------------------------------------------------------------------
HeartbeatRequest == Message(12, 0, 4, 4, Struct(<<
    Always("group_id", String), Always("generation_id", I32),
    Always("member_id", String),
    NullableFrom(0, Since(3, "group_instance_id", String))>>))

----------------------------------------------------------------------------
HeartbeatResponse == Message(12, 0, 4, 4, Struct(<<
    Since(1, "throttle_time_ms", I32), Always("error_code", I16)>>))

----------------------------------------------------------------------------
MemberIdentity == Struct(<<
    Since(3, "member_id", String),
    NullableFrom(0, Since(3, "group_instance_id", String)),
    NullableFrom(0, Since(5, "reason", String))>>)

LeaveGroupRequest == Message(13, 0, 5, 4, Struct(<<
    Always("group_id", String), Until(2, "member_id", String),
    Since(3, "members", Vec(MemberIdentity))>>))

----------------------------------------------------------------------------
MemberResponse == Struct(<<
    Since(3, "member_id", String),
    Defaulting(<<<<>>>>, NullableFrom(0, Since(3, "group_instance_id", String))),
    Since(3, "error_code", I16)>>)

LeaveGroupResponse == Message(13, 0, 5, 4, Struct(<<
    Since(1, "throttle_time_ms", I32), Always("error_code", I16),
    Since(3, "members", Vec(MemberResponse))>>))

----------------------------------------------------------------------------
OffsetCommitRequestPartition == Struct(<<
    Always("partition_index", I32), Always("committed_offset", I64),
    Defaulting(-1, Since(6, "committed_leader_epoch", I32)),
    Defaulting(<<<<>>>>, NullableFrom(0, Always("committed_metadata", String)))>>)

OffsetCommitRequestTopic == Struct(<<
    Until(9, "name", String), Since(10, "topic_id", Uuid),
    Always("partitions", Vec(OffsetCommitRequestPartition))>>)

OffsetCommitRequest == Message(8, 2, 10, 8, Struct(<<
    Always("group_id", String),
    Defaulting(-1, Always("generation_id_or_member_epoch", I32)),
    Always("member_id", String),
    NullableFrom(0, Since(7, "group_instance_id", String)),
    Defaulting(-1, Until(4, "retention_time_ms", I64)),
    Always("topics", Vec(OffsetCommitRequestTopic))>>))

----------------------------------------------------------------------------
OffsetCommitResponsePartition == Struct(<<
    Always("partition_index", I32), Always("error_code", I16)>>)

OffsetCommitResponseTopic == Struct(<<
    Until(9, "name", String), Since(10, "topic_id", Uuid),
    Always("partitions", Vec(OffsetCommitResponsePartition))>>)

OffsetCommitResponse == Message(8, 2, 10, 8, Struct(<<
    Since(3, "throttle_time_ms", I32),
    Always("topics", Vec(OffsetCommitResponseTopic))>>))

----------------------------------------------------------------------------
OffsetFetchRequestTopic == Struct(<<
    Until(7, "name", String), Until(7, "partition_indexes", Vec(I32))>>)

OffsetFetchRequestTopics == Struct(<<
    During(8, 9, "name", String), Since(10, "topic_id", Uuid),
    Since(8, "partition_indexes", Vec(I32))>>)

OffsetFetchRequestGroup == Struct(<<
    Since(8, "group_id", String),
    NullableFrom(0, Since(9, "member_id", String)),
    Defaulting(-1, Since(9, "member_epoch", I32)),
    Defaulting(<<<<>>>>, NullableFrom(0, Since(8, "topics", Vec(OffsetFetchRequestTopics))))>>)

OffsetFetchRequest == Message(9, 1, 10, 6, Struct(<<
    Until(7, "group_id", String),
    Defaulting(<<<<>>>>, NullableFrom(2, Until(7, "topics", Vec(OffsetFetchRequestTopic)))),
    Since(8, "groups", Vec(OffsetFetchRequestGroup)),
    Since(7, "require_stable", Bool)>>))

----------------------------------------------------------------------------
OffsetFetchResponsePartition == Struct(<<
    Until(7, "partition_index", I32), Until(7, "committed_offset", I64),
    Defaulting(-1, During(5, 7, "committed_leader_epoch", I32)),
    Defaulting(<<<<>>>>, NullableFrom(0, Until(7, "metadata", String))),
    Until(7, "error_code", I16)>>)

OffsetFetchResponseTopic == Struct(<<
    Until(7, "name", String),
    Until(7, "partitions", Vec(OffsetFetchResponsePartition))>>)

OffsetFetchResponsePartitions == Struct(<<
    Since(8, "partition_index", I32), Since(8, "committed_offset", I64),
    Defaulting(-1, Since(8, "committed_leader_epoch", I32)),
    Defaulting(<<<<>>>>, NullableFrom(0, Since(8, "metadata", String))),
    Since(8, "error_code", I16)>>)

OffsetFetchResponseTopics == Struct(<<
    During(8, 9, "name", String), Since(10, "topic_id", Uuid),
    Since(8, "partitions", Vec(OffsetFetchResponsePartitions))>>)

OffsetFetchResponseGroup == Struct(<<
    Since(8, "group_id", String),
    Since(8, "topics", Vec(OffsetFetchResponseTopics)),
    Since(8, "error_code", I16)>>)

OffsetFetchResponse == Message(9, 1, 10, 6, Struct(<<
    Since(3, "throttle_time_ms", I32),
    Until(7, "topics", Vec(OffsetFetchResponseTopic)),
    During(2, 7, "error_code", I16),
    Since(8, "groups", Vec(OffsetFetchResponseGroup))>>))

----------------------------------------------------------------------------
ListGroupsRequest == Message(16, 0, 5, 3, Struct(<<
    Since(4, "states_filter", Vec(String)),
    Since(5, "types_filter", Vec(String))>>))

----------------------------------------------------------------------------
ListedGroup == Struct(<<
    Always("group_id", String), Always("protocol_type", String),
    Since(4, "group_state", String), Since(5, "group_type", String)>>)

ListGroupsResponse == Message(16, 0, 5, 3, Struct(<<
    Since(1, "throttle_time_ms", I32), Always("error_code", I16),
    Always("groups", Vec(ListedGroup))>>))

----------------------------------------------------------------------------
DescribeGroupsRequest == Message(15, 0, 6, 5, Struct(<<
    Always("groups", Vec(String)),
    Since(3, "include_authorized_operations", Bool)>>))

----------------------------------------------------------------------------
DescribedGroupMember == Struct(<<
    Always("member_id", String),
    NullableFrom(0, Since(4, "group_instance_id", String)),
    Always("client_id", String), Always("client_host", String),
    Always("member_metadata", Blob), Always("member_assignment", Blob)>>)

DescribedGroup == Struct(<<
    Always("error_code", I16),
    NullableFrom(0, Since(6, "error_message", String)),
    Always("group_id", String), Always("group_state", String),
    Always("protocol_type", String), Always("protocol_data", String),
    Always("members", Vec(DescribedGroupMember)),
    Defaulting(-2147483647 - 1, Since(3, "authorized_operations", I32))>>)

DescribeGroupsResponse == Message(15, 0, 6, 5, Struct(<<
    Since(1, "throttle_time_ms", I32),
    Always("groups", Vec(DescribedGroup))>>))

----------------------------------------------------------------------------
OwnedTopicPartitions == Struct(<<
    Always("topic_id", Uuid), Always("partitions", Vec(I32))>>)

ConsumerGroupHeartbeatRequest == Message(68, 0, 1, 0, Struct(<<
    Always("group_id", String), Always("member_id", String),
    Always("member_epoch", I32),
    NullableFrom(0, Always("instance_id", String)),
    NullableFrom(0, Always("rack_id", String)),
    Defaulting(-1, Always("rebalance_timeout_ms", I32)),
    NullableFrom(0, Always("subscribed_topic_names", Vec(String))),
    NullableFrom(0, Since(1, "subscribed_topic_regex", String)),
    NullableFrom(0, Always("server_assignor", String)),
    NullableFrom(0, Always("topic_partitions", Vec(OwnedTopicPartitions)))>>))

----------------------------------------------------------------------------
AssignedTopicPartitions == Struct(<<
    Always("topic_id", Uuid), Always("partitions", Vec(I32))>>)

Assignment == Struct(<<
    Always("topic_partitions", Vec(AssignedTopicPartitions))>>)

ConsumerGroupHeartbeatResponse == Message(68, 0, 1, 0, Struct(<<
    Always("throttle_time_ms", I32), Always("error_code", I16),
    NullableFrom(0, Always("error_message", String)),
    NullableFrom(0, Always("member_id", String)), Always("member_epoch", I32),
    Always("heartbeat_interval_ms", I32),
    NullableFrom(0, Always("assignment", Assignment))>>))

----------------------------------------------------------------------------
OwnedTopicPartition == Struct(<<
    Since(1, "topic", String), Since(1, "partitions", Vec(I32))>>)

ConsumerProtocolSubscription == Message(-1, 0, 3, Never, Struct(<<
    Always("topics", Vec(String)), NullableFrom(0, Always("user_data", Blob)),
    Since(1, "owned_partitions", Vec(OwnedTopicPartition)),
    Defaulting(-1, Since(2, "generation_id", I32)),
    NullableFrom(0, Since(3, "rack_id", String))>>))

----------------------------------------------------------------------------
AssignedTopicPartition == Struct(<<
    Always("topic", String), Always("partitions", Vec(I32))>>)

ConsumerProtocolAssignment == Message(-1, 0, 3, Never, Struct(<<
    Always("assigned_partitions", Vec(AssignedTopicPartition)),
    NullableFrom(0, Always("user_data", Blob))>>))
=============================================================================
