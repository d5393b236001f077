------------------------------ MODULE Records -------------------------------
(* Record batches of magic 2 and record sets (odradek-protocol records.rs),  *)
(* and the envelope of the classic consumer protocol (consumer_protocol.rs). *)
(* The checksum stands for CRC-32C: any two bodies that differ in one byte,  *)
(* or in one byte swapped with its neighbour, have different checksums.      *)
EXTENDS GroupMessages

MAGIC == 2
BATCH_OVERHEAD == 49

Checksum(bytes) ==
    FoldLeft(LAMBDA sum, i : (sum * 263 + bytes[i]) % 65521, 1,
             [i \in DOMAIN bytes |-> i])

\* The low three bits of the attributes select the codec; 0 is none.
Compression(batch) == batch.attributes % 8
Bit(attributes, n) == (attributes \div 2 ^ n) % 2 = 1
IsTransactional(batch) == Bit(batch.attributes, 4)
IsControl(batch) == Bit(batch.attributes, 5)

PutVarintBytes(opt) ==
    IF opt = <<>> THEN PutVarint(-1) ELSE PutVarint(Len(opt[1])) \o opt[1]

GetVarintBytes(buf, at) ==
    Then(GetVarint(buf, at), LAMBDA len :
        CASE len.val = -1 -> Read(len.at, <<>>)
          [] len.val < -1 -> Bad
          [] OTHER -> RunOf(buf, len, len.val))

VarintLen(n) == Len(PutVarint(n))
BytesLen(opt) ==
    IF opt = <<>> THEN VarintLen(-1) ELSE VarintLen(Len(opt[1])) + Len(opt[1])

----------------------------------------------------------------------------
(* A record is [attributes, timestamp_delta, offset_delta, key, value,      *)
(* headers], a header [key, value].                                         *)

\* The length prefix is computed from the fields, before they are written.
BodyLen(record) ==
    FoldLeft(LAMBDA sum, h : sum + BytesLen(<<h.key>>) + BytesLen(h.value),
             1 + VarintLen(record.timestamp_delta)
               + VarintLen(record.offset_delta)
               + BytesLen(record.key) + BytesLen(record.value)
               + VarintLen(Len(record.headers)),
             record.headers)

PutRecord(record) ==
    PutVarint(BodyLen(record)) \o PutInt(record.attributes, 1)
    \o PutVarint(record.timestamp_delta) \o PutVarint(record.offset_delta)
    \o PutVarintBytes(record.key) \o PutVarintBytes(record.value)
    \o PutVarint(Len(record.headers))
    \o FlattenSeq([i \in DOMAIN record.headers |->
          PutVarintBytes(<<record.headers[i].key>>)
          \o PutVarintBytes(record.headers[i].value)])

RECURSIVE GetHeaders(_, _, _, _)
GetHeaders(buf, at, count, got) ==
    IF count = 0 THEN Read(at, got)
    ELSE Then(NotNull(GetVarintBytes(buf, at)), LAMBDA key :
            Then(GetVarintBytes(buf, key.at), LAMBDA value :
                IF ~IsUtf8(key.val) THEN Bad
                ELSE GetHeaders(buf, value.at, count - 1,
                                Append(got, [key |-> key.val, value |-> value.val]))))

GetCounted(buf, at) ==
    Then(GetVarint(buf, at), LAMBDA count :
        IF count.val < 0 THEN Bad ELSE GetHeaders(buf, count.at, count.val, <<>>))

\* The fields of a record, which must fill the bytes its length covers. (An
\* offset_delta past i32 is refused; the numbers here are no wider.)
GetRecordBody(body) ==
    Then(GetInt(body, 1, 1), LAMBDA attributes :
    Then(GetVarint(body, attributes.at), LAMBDA timestamp :
    Then(GetVarint(body, timestamp.at), LAMBDA offset :
    Then(GetVarintBytes(body, offset.at), LAMBDA key :
    Then(GetVarintBytes(body, key.at), LAMBDA value :
    Then(GetCounted(body, value.at), LAMBDA headers :
        IF headers.at # Len(body) + 1 THEN Bad
        ELSE Read(headers.at,
                  [attributes |-> attributes.val, timestamp_delta |-> timestamp.val,
                   offset_delta |-> offset.val, key |-> key.val,
                   value |-> value.val, headers |-> headers.val])))))))

GetRecord(buf, at) ==
    Then(GetVarint(buf, at), LAMBDA len :
        IF len.val < 1 \/ ~Has(buf, len.at, len.val) THEN Bad
        ELSE Then(GetRecordBody(Slice(buf, len.at, len.val)), LAMBDA r :
                Read(len.at + len.val, r.val)))

RECURSIVE GetRecords(_, _, _, _)
GetRecords(buf, at, count, got) ==
    IF count = 0 THEN Read(at, got)
    ELSE Then(GetRecord(buf, at), LAMBDA r :
            GetRecords(buf, r.at, count - 1, Append(got, r.val)))

----------------------------------------------------------------------------
(* A batch is a function of the names below, of "records" (the parsed       *)
(* records, or the compressed payload) and of "count".                      *)

BatchFields == <<
    [name |-> "attributes", width |-> 2], [name |-> "last_offset_delta", width |-> 4],
    [name |-> "base_timestamp", width |-> 8], [name |-> "max_timestamp", width |-> 8],
    [name |-> "producer_id", width |-> 8], [name |-> "producer_epoch", width |-> 2],
    [name |-> "base_sequence", width |-> 4]>>

\* Where field i begins in the crc-covered body.
FieldAt(i) == FoldLeft(LAMBDA sum, f : sum + f.width, 1, SubSeq(BatchFields, 1, i - 1))

RecordCount(batch) ==
    IF Compression(batch) = 0 THEN Len(batch.records) ELSE batch.count

BatchBody(batch) ==
    FlattenSeq([i \in DOMAIN BatchFields |->
        PutInt(batch[BatchFields[i].name], BatchFields[i].width)])
    \o PutInt(RecordCount(batch), 4)
    \o (IF Compression(batch) # 0 THEN batch.records
        ELSE FlattenSeq([i \in DOMAIN batch.records |-> PutRecord(batch.records[i])]))

Sealed(batch, body) ==
    PutInt(batch.base_offset, 8) \o PutInt(9 + Len(body), 4)
    \o PutInt(batch.partition_leader_epoch, 4) \o PutInt(MAGIC, 1)
    \o PutInt(Checksum(body), 4) \o body
PutBatch(batch) == Sealed(batch, BatchBody(batch))

\* What follows the checksum: fields, count and records.
Field(body, i) == GetInt(body, FieldAt(i), BatchFields[i].width).val
BatchOf(body, count, records) ==
    [name \in {BatchFields[i].name : i \in DOMAIN BatchFields}
               \union {"count", "records"} |->
        CASE name = "count" -> count
          [] name = "records" -> records
          [] OTHER -> Field(body, CHOOSE i \in DOMAIN BatchFields :
                                      BatchFields[i].name = name)]
GetBatchRecords(body, count) ==
    CASE count < 0 -> Bad
      [] Field(body, 1) % 8 = 0 -> GetRecords(body, 41, count, <<>>)
      [] OTHER -> Read(Len(body) + 1, Slice(body, 41, Len(body) - 40))
GetBatchBody(body) ==
    Then(GetInt(body, 37, 4), LAMBDA count :
    Then(GetBatchRecords(body, count.val), LAMBDA records :
        IF records.at # Len(body) + 1 THEN Bad
        ELSE Read(1, BatchOf(body, count.val, records.val))))

\* A batch of len bytes at index at: its magic and checksum are verified
\* before anything else is read.
Unsealed(buf, at, len) ==
    IF \/ len < BATCH_OVERHEAD
       \/ ~Has(buf, at + 12, len)
       \/ GetInt(buf, at + 16, 1).val # MAGIC
       \/ GetInt(buf, at + 17, 4).val # Checksum(Slice(buf, at + 21, len - 9))
    THEN Bad
    ELSE Then(GetBatchBody(Slice(buf, at + 21, len - 9)), LAMBDA r :
            Read(at + 12 + len,
                 [base_offset |-> GetInt(buf, at, 8).val,
                  partition_leader_epoch |-> GetInt(buf, at + 12, 4).val] @@ r.val))
GetBatch(buf, at) ==
    IF Has(buf, at, 12) THEN Unsealed(buf, at, GetInt(buf, at + 8, 4).val) ELSE Bad

EncodeSet(batches) == FlattenSeq([i \in DOMAIN batches |-> PutBatch(batches[i])])

RECURSIVE DecodeSet(_, _, _)
DecodeOn(buf, at, got) ==
    Then(GetBatch(buf, at), LAMBDA r : DecodeSet(buf, r.at, Append(got, r.val)))

\* Mutant: a batch that is not all there fails the set.
StrictDecodeSet(buf, at, got) ==
    IF ~Has(buf, at, 1) THEN Read(1, got) ELSE DecodeOn(buf, at, got)

\* A trailing batch that is not all there is dropped; one that is all there
\* and does not decode fails the set. [at, val]: at is 0 or 1.
DecodeSet(buf, at, got) ==
    IF ~Has(buf, at, 12) THEN Read(1, got)
    ELSE LET len == GetInt(buf, at + 8, 4).val IN
         CASE len < 0 -> Bad
           [] ~Has(buf, at + 12, len) -> Read(1, got)
           [] OTHER -> DecodeOn(buf, at, got)

----------------------------------------------------------------------------
(* The classic consumer protocol's payloads: a version, then the body. A    *)
(* newer version decodes as the newest known one, and bytes after the body  *)
(* are ignored.                                                             *)

Envelope(message, value) == PutInt(0, 2) \o Encode(message, value, 0)

\* The version to read a payload at.
KnownVersion(message, version) == Max({0, Min({version, message.max})})

\* Mutant: a payload newer than this crate is refused for what it adds.
ExactOpenEnvelope(message, data) ==
    Then(GetInt(data, 1, 2), LAMBDA version :
        DecodeWhole(message, data, 3, KnownVersion(message, version.val)))

OpenEnvelope(message, data) ==
    Then(GetInt(data, 1, 2), LAMBDA version :
        Decode(message, data, 3, KnownVersion(message, version.val)))

EncodeSubscription(topics) ==
    Envelope(ConsumerProtocolSubscription,
             [DefaultStruct(ConsumerProtocolSubscription.struct)
                 EXCEPT !["topics"] = topics])

DecodeSubscription(data) ==
    Then(OpenEnvelope(ConsumerProtocolSubscription, data),
         LAMBDA r : Read(r.at, r.val["topics"]))

\* partitions is a sequence of <<topic, partitions>>.
EncodeAssignment(partitions) ==
    Envelope(ConsumerProtocolAssignment,
             [DefaultStruct(ConsumerProtocolAssignment.struct)
                 EXCEPT !["assigned_partitions"] =
                    [i \in DOMAIN partitions |->
                        ("topic" :> partitions[i][1] @@
                         "partitions" :> partitions[i][2]) @@
                        DefaultStruct(AssignedTopicPartition)]])

\* Empty bytes are an empty assignment.
DecodeAssignment(data) ==
    IF data = <<>> THEN Read(1, <<>>)
    ELSE Then(OpenEnvelope(ConsumerProtocolAssignment, data), LAMBDA r :
            Read(r.at, [i \in DOMAIN r.val["assigned_partitions"] |->
                <<r.val["assigned_partitions"][i]["topic"],
                  r.val["assigned_partitions"][i]["partitions"]>>]))
=============================================================================
