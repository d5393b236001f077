--------------------------- MODULE ClusterMessages --------------------------
(* The messages of odradek-protocol for headers, version negotiation, metadata, coordinators, topic *)
(* administration and authentication                                         *)
(* (crates/odradek-protocol/src/messages), one struct per definition, in the *)
(* vocabulary of Schema. The fields are in wire order, each with the         *)
(* versions whose encode and decode carry it.                                *)
EXTENDS Schema

----------------------------------------------------------------------------
RequestHeader == Message(-1, 1, 2, 2, Struct(<<
    Always("request_api_key", I16), Always("request_api_version", I16),
    Always("correlation_id", I32),
    Defaulting(<<<<>>>>, NullableFrom(0, Always("client_id", ClassicString)))>>))

----------------------------------------------------------------------------
ResponseHeader == Message(-1, 0, 1, 1, Struct(<<
    Always("correlation_id", I32)>>))

----------------------------------------------------------------------------
ApiVersionsRequest == Message(18, 0, 4, 3, Struct(<<
    Since(3, "client_software_name", String),
    Since(3, "client_software_version", String)>>))

----------------------------------------------------------------------------
ApiVersion == Struct(<<
    Always("api_key", I16), Always("min_version", I16),
    Always("max_version", I16)>>)

SupportedFeatureKey == Struct(<<
    Since(3, "name", String), Since(3, "min_version", I16),
    Since(3, "max_version", I16)>>)

FinalizedFeatureKey == Struct(<<
    Since(3, "name", String), Since(3, "max_version_level", I16),
    Since(3, "min_version_level", I16)>>)

ApiVersionsResponse == Message(18, 0, 4, 3, Struct(<<
    Always("error_code", I16), Always("api_keys", Vec(ApiVersion)),
    Since(1, "throttle_time_ms", I32),
    Tagged(0, Since(3, "supported_features", Vec(SupportedFeatureKey))),
    Tagged(1, Since(3, "finalized_features_epoch", I64)),
    Tagged(2, Since(3, "finalized_features", Vec(FinalizedFeatureKey))),
    Tagged(3, Since(3, "zk_migration_ready", Bool))>>))

----------------------------------------------------------------------------
MetadataRequestTopic == Struct(<<
    Since(10, "topic_id", Uuid),
    Defaulting(<<<<>>>>, NullableFrom(10, Always("name", String)))>>)

MetadataRequest == Message(3, 0, 13, 9, Struct(<<
    Defaulting(<<<<>>>>, NullableFrom(1, Always("topics", Vec(MetadataRequestTopic)))),
    Defaulting(TRUE, Since(4, "allow_auto_topic_creation", Bool)),
    During(8, 10, "include_cluster_authorized_operations", Bool),
    Since(8, "include_topic_authorized_operations", Bool)>>))

----------------------------------------------------------------------------
MetadataResponseBroker == Struct(<<
    Always("node_id", I32), Always("host", String), Always("port", I32),
    NullableFrom(0, Since(1, "rack", String))>>)

MetadataResponsePartition == Struct(<<
    Always("error_code", I16), Always("partition_index", I32),
    Always("leader_id", I32), Defaulting(-1, Since(7, "leader_epoch", I32)),
    Always("replica_nodes", Vec(I32)), Always("isr_nodes", Vec(I32)),
    Since(5, "offline_replicas", Vec(I32))>>)

MetadataResponseTopic == Struct(<<
    Always("error_code", I16),
    Defaulting(<<<<>>>>, NullableFrom(12, Always("name", String))),
    Since(10, "topic_id", Uuid), Since(1, "is_internal", Bool),
    Always("partitions", Vec(MetadataResponsePartition)),
    Defaulting(-2147483647 - 1, Since(8, "topic_authorized_operations", I32))>>)

MetadataResponse == Message(3, 0, 13, 9, Struct(<<
    Since(3, "throttle_time_ms", I32),
    Always("brokers", Vec(MetadataResponseBroker)),
    NullableFrom(0, Since(2, "cluster_id", String)),
    Defaulting(-1, Since(1, "controller_id", I32)),
    Always("topics", Vec(MetadataResponseTopic)),
    Defaulting(-2147483647 - 1, During(8, 10, "cluster_authorized_operations", I32)),
    Since(13, "error_code", I16)>>))

----------------------------------------------------------------------------
FindCoordinatorRequest == Message(10, 0, 6, 3, Struct(<<
    Until(3, "key", String), Since(1, "key_type", I8),
    Since(4, "coordinator_keys", Vec(String))>>))

----------------------------------------------------------------------------
Coordinator == Struct(<<
    Since(4, "key", String), Since(4, "node_id", I32),
    Since(4, "host", String), Since(4, "port", I32),
    Since(4, "error_code", I16),
    Defaulting(<<<<>>>>, NullableFrom(0, Since(4, "error_message", String)))>>)

FindCoordinatorResponse == Message(10, 0, 6, 3, Struct(<<
    Since(1, "throttle_time_ms", I32), Until(3, "error_code", I16),
    Defaulting(<<<<>>>>, NullableFrom(0, During(1, 3, "error_message", String))),
    Until(3, "node_id", I32), Until(3, "host", String), Until(3, "port", I32),
    Since(4, "coordinators", Vec(Coordinator))>>))

----------------------------------------------------------------------------
CreatableReplicaAssignment == Struct(<<
    Always("partition_index", I32), Always("broker_ids", Vec(I32))>>)

CreatableTopicConfig == Struct(<<
    Always("name", String),
    Defaulting(<<<<>>>>, NullableFrom(0, Always("value", String)))>>)

CreatableTopic == Struct(<<
    Always("name", String), Always("num_partitions", I32),
    Always("replication_factor", I16),
    Always("assignments", Vec(CreatableReplicaAssignment)),
    Always("configs", Vec(CreatableTopicConfig))>>)

CreateTopicsRequest == Message(19, 2, 7, 5, Struct(<<
    Always("topics", Vec(CreatableTopic)),
    Defaulting(60000, Always("timeout_ms", I32)),
    Always("validate_only", Bool)>>))

----------------------------------------------------------------------------
CreatableTopicConfigs == Struct(<<
    Since(5, "name", String),
    Defaulting(<<<<>>>>, NullableFrom(0, Since(5, "value", String))),
    Since(5, "read_only", Bool),
    Defaulting(-1, Since(5, "config_source", I8)),
    Since(5, "is_sensitive", Bool)>>)

CreatableTopicResult == Struct(<<
    Always("name", String), Since(7, "topic_id", Uuid),
    Always("error_code", I16),
    Defaulting(<<<<>>>>, NullableFrom(0, Always("error_message", String))),
    Defaulting(-1, Since(5, "num_partitions", I32)),
    Defaulting(-1, Since(5, "replication_factor", I16)),
    Defaulting(<<<<>>>>, NullableFrom(0, Since(5, "configs", Vec(CreatableTopicConfigs)))),
    Tagged(0, Since(5, "topic_config_error_code", I16))>>)

CreateTopicsResponse == Message(19, 2, 7, 5, Struct(<<
    Always("throttle_time_ms", I32),
    Always("topics", Vec(CreatableTopicResult))>>))

----------------------------------------------------------------------------
DeleteTopicState == Struct(<<
    NullableFrom(0, Since(6, "name", String)), Since(6, "topic_id", Uuid)>>)

DeleteTopicsRequest == Message(20, 1, 6, 4, Struct(<<
    Since(6, "topics", Vec(DeleteTopicState)),
    Until(5, "topic_names", Vec(String)), Always("timeout_ms", I32)>>))

----------------------------------------------------------------------------
DeletableTopicResult == Struct(<<
    Defaulting(<<<<>>>>, NullableFrom(6, Always("name", String))),
    Since(6, "topic_id", Uuid), Always("error_code", I16),
    NullableFrom(0, Since(5, "error_message", String))>>)

DeleteTopicsResponse == Message(20, 1, 6, 4, Struct(<<
    Always("throttle_time_ms", I32),
    Always("responses", Vec(DeletableTopicResult))>>))

----------------------------------------------------------------------------
DescribeConfigsResource == Struct(<<
    Always("resource_type", I8), Always("resource_name", String),
    Defaulting(<<<<>>>>, NullableFrom(0, Always("configuration_keys", Vec(String))))>>)

DescribeConfigsRequest == Message(32, 1, 4, 4, Struct(<<
    Always("resources", Vec(DescribeConfigsResource)),
    Always("include_synonyms", Bool),
    Since(3, "include_documentation", Bool)>>))

----------------------------------------------------------------------------
DescribeConfigsSynonym == Struct(<<
    Always("name", String),
    Defaulting(<<<<>>>>, NullableFrom(0, Always("value", String))),
    Always("source", I8)>>)

DescribeConfigsResourceResult == Struct(<<
    Always("name", String),
    Defaulting(<<<<>>>>, NullableFrom(0, Always("value", String))),
    Always("read_only", Bool), Defaulting(-1, Always("config_source", I8)),
    Always("is_sensitive", Bool),
    Always("synonyms", Vec(DescribeConfigsSynonym)),
    Since(3, "config_type", I8),
    Defaulting(<<<<>>>>, NullableFrom(0, Since(3, "documentation", String)))>>)

DescribeConfigsResult == Struct(<<
    Always("error_code", I16),
    Defaulting(<<<<>>>>, NullableFrom(0, Always("error_message", String))),
    Always("resource_type", I8), Always("resource_name", String),
    Always("configs", Vec(DescribeConfigsResourceResult))>>)

DescribeConfigsResponse == Message(32, 1, 4, 4, Struct(<<
    Always("throttle_time_ms", I32),
    Always("results", Vec(DescribeConfigsResult))>>))

----------------------------------------------------------------------------
SaslHandshakeRequest == Message(17, 0, 1, Never, Struct(<<
    Always("mechanism", String)>>))

----------------------------------------------------------------------------
SaslHandshakeResponse == Message(17, 0, 1, Never, Struct(<<
    Always("error_code", I16), Always("mechanisms", Vec(String))>>))

----------------------------------------------------------------------------
SaslAuthenticateRequest == Message(36, 0, 2, 2, Struct(<<
    Always("auth_bytes", Blob)>>))

----------------------------------------------------------------------------
SaslAuthenticateResponse == Message(36, 0, 2, 2, Struct(<<
    Always("error_code", I16),
    Defaulting(<<<<>>>>, NullableFrom(0, Always("error_message", String))),
    Always("auth_bytes", Blob), Since(1, "session_lifetime_ms", I64)>>))
=============================================================================
