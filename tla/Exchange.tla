------------------------------ MODULE Exchange ------------------------------
(* One connection between odradek-client and a broker, at the level of the   *)
(* bytes: version negotiation (negotiate.rs), request and response headers   *)
(* (header.rs, conn.rs), framing, the messages, and the record sets inside   *)
(* them. Requests go one at a time here; module Connection has the           *)
(* interleaving of many.                                                     *)
(*                                                                           *)
(* The broker's negotiation is that of the acceptance suite's reference      *)
(* broker (subject.rs), for a broker of any age: it knows the versions up to *)
(* its cap, so an old broker has a low one, and one newer than this client   *)
(* may have dropped every version the client speaks. Its other answers are   *)
(* any conforming message.                                                   *)
EXTENDS Requests

CONSTANTS
    Caps,       \* the highest version a broker knows of any api
    Flavours,   \* the shapes of the answers a broker gives
    Probes      \* the shapes of the requests the acceptance suite sends

VARIABLES
    broker,     \* api key -> <<min, max>>: what the broker advertises
    phase,      \* of the connection
    ranges,     \* api key -> <<min, max>>: ApiVersionRanges
    wire,       \* the frame in flight
    call,       \* [api, version, value]: the request under way
    heard,      \* what the broker made of it: [at, left, header, val]
    answer,     \* the value the broker answered with, an Option
    outcome     \* what the client made of the answer

vars == <<broker, phase, ranges, wire, call, heard, answer, outcome>>

UNSUPPORTED_VERSION == 35
INVALID_REQUEST == 42
ApiVersionsKey == ApiVersionsRequest.key

None == "none"
Outcome(kind) == [kind |-> kind, val |-> <<>>]
Correlation == -2
ClientId == <<99, 105>>

\* Every request this crate has, ApiVersions too.
Spoken == SUPPORTED @@ [api_versions |->
    Speaks(ApiVersionsRequest, ApiVersionsResponse,
           ApiVersionsRequest.min, ApiVersionsRequest.max)]

----------------------------------------------------------------------------
(* Headers.                                                                  *)

RequestHeaderVersion(request, version) ==
    IF IsFlexible(request, version) THEN 2 ELSE 1
\* ApiVersions answers always have header 0, so that a client that does not
\* know the broker yet can read them.
ResponseHeaderVersion(request, version) ==
    IF request.key # ApiVersionsKey /\ IsFlexible(request, version) THEN 1 ELSE 0

RequestFrame(request, version, value) ==
    Frame(<<>>,
        Encode(RequestHeader,
               Made(RequestHeader,
                    "request_api_key" :> request.key @@
                    "request_api_version" :> version @@
                    "correlation_id" :> Correlation @@ "client_id" :> <<ClientId>>),
               RequestHeaderVersion(request, version))
        \o Encode(request, value, version))

FrameResponse(headerVersion, message, value, version) ==
    Frame(<<>>, Encode(ResponseHeader,
                       Made(ResponseHeader, "correlation_id" :> Correlation),
                       headerVersion)
                \o Encode(message, value, version))

\* The body of an answer, once its header is read at the version recorded
\* for the request.
BodyAfterHeader(payload, headerVersion) ==
    IF PeekCorrelationId(payload).val # Correlation THEN Bad
    ELSE Then(Decode(ResponseHeader, payload, 1, headerVersion),
              LAMBDA header : Read(1, SubSeq(payload, header.at, Len(payload))))
ResponseBody(frame, headerVersion) ==
    BodyAfterHeader(TrySplit(frame).val[1], headerVersion)

----------------------------------------------------------------------------
(* Brokers.                                                                  *)

\* A broker advertises the versions from the first it kept to the last it
\* knows, which is at most one this crate does not have yet.
Offers(message, cap, dropped) ==
    (IF dropped /\ message.key # ApiVersionsKey THEN message.max + 1 ELSE message.min)
    .. Min({cap, message.max + 1})
Advertised(messages, cap, dropped) ==
    LET offering == {m \in messages : Offers(m, cap, dropped) # {}}
    IN [key \in {m.key : m \in offering} |->
          LET m == CHOOSE o \in offering : o.key = key
          IN <<Min(Offers(m, cap, dropped)), Max(Offers(m, cap, dropped))>>]

\* The ApiVersions answer: at version 0, with the error, to a request the
\* broker does not know the version of.
ApiVersionsValue(code, keys) ==
    Made(ApiVersionsResponse,
        "error_code" :> code @@
        "api_keys" :> [i \in DOMAIN keys |-> Set(ApiVersion,
            "api_key" :> keys[i] @@
            "min_version" :> broker[keys[i]][1] @@
            "max_version" :> broker[keys[i]][2])])
ApiVersionsExchange(known, version, refusal) ==
    FrameResponse(0, ApiVersionsResponse,
        ApiVersionsValue(IF known THEN refusal ELSE UNSUPPORTED_VERSION,
                         SelectSeq([i \in 1 .. 69 |-> i - 1],
                                   LAMBDA k : k \in DOMAIN broker)),
        IF known THEN version ELSE 0)

\* Conforming answers: every field set to its default, to something else, to
\* null wherever the version allows, or to long strings and several elements
\* with tagged fields this crate does not know.
RECURSIVE Sample(_, _, _, _, _)
SampleField(field, seed, version, flexible, flavour) ==
    LET some == Sample(field.type, seed, version, flexible, flavour)
    IN CASE flavour = "default" -> field.default
         [] field.tag >= 0 /\ ~flexible -> <<>>
         [] field.tag >= 0 /\ IsNullable(field) ->
               IF flavour = "null" THEN <<<<>>>> ELSE <<<<some>>>>
         [] field.tag >= 0 ->
               IF flavour = "null" THEN <<>> ELSE <<some>>
         [] field.nullFrom # Never ->
               IF flavour = "null" /\ version >= field.nullFrom THEN <<>> ELSE <<some>>
         [] field.name = "records" -> EncodeSet(SampleSet)
         [] OTHER -> some

Sample(type, seed, version, flexible, flavour) ==
    CASE type.kind = "int" -> IF flavour = "many" THEN -(seed % 100) - 1 ELSE (seed % 100) + 1
      [] type.kind = "bool" -> seed % 2 = 0
      [] type.kind = "uuid" -> [i \in 1 .. 16 |-> (seed + i) % 256]
      [] type.kind \in {"string", "classic_string", "bytes"} ->
            IF flavour = "many" THEN [i \in 1 .. 130 |-> seed % 100]
            ELSE <<seed % 100>>
      [] type.kind = "array" ->
            [i \in 1 .. (CASE flavour = "null" -> 0 [] flavour = "many" -> 2 [] OTHER -> 1)
                |-> Sample(type.of, seed + i, version, flexible,
                           IF flavour = "many" THEN "one" ELSE flavour)]
      [] type.kind = "struct" ->
            [name \in Names(type) \union {"unknown"} |->
                IF name = "unknown"
                THEN IF flavour = "many" /\ flexible
                     THEN <<[tag |-> 50, data |-> <<>>], [tag |-> 300, data |-> <<9, 8>>]>>
                     ELSE <<>>
                ELSE LET i == CHOOSE j \in DOMAIN type.fields :
                                  type.fields[j].name = name
                     IN SampleField(type.fields[i], 7 * seed + i, version,
                                    flexible, flavour)]

SampleOf(message, version, flavour) ==
    Sample(message.struct, 1, version, IsFlexible(message, version), flavour)

----------------------------------------------------------------------------
(* Negotiation, at the client.                                               *)

\* A key named twice keeps the last range named.
FromResponse(keys) ==
    FoldLeft(LAMBDA known, k :
                k["api_key"] :> <<k["min_version"], k["max_version"]>> @@ known,
             <<>>, keys)

\* The newest version of both; <<>> is NoCommonVersion.
Pick(known, key, min, max) ==
    IF key \notin DOMAIN known THEN <<>>
    ELSE LET version == Min({max, known[key][2]})
         IN IF version < min \/ version < known[key][1] THEN <<>> ELSE <<version>>

\* Mutant: the error answer of an older broker is not looked for.
NewestApiVersionsAt(body, version) ==
    DecodeWhole(ApiVersionsResponse, body, 1, version)

\* An answer that does not parse, or not wholly, at the version asked for is
\* parsed at version 0: that is how an error of an older broker arrives.
ApiVersionsAt(body, version) ==
    LET Else(asked) == IF IsBad(asked) THEN Decode(ApiVersionsResponse, body, 1, 0)
                       ELSE asked
    IN Else(DecodeWhole(ApiVersionsResponse, body, 1, version))

----------------------------------------------------------------------------
Idle == [api |-> None, version |-> 0, value |-> None]

Init ==
    /\ \E cap \in Caps, dropped \in BOOLEAN :
          broker = Advertised({Spoken[api].request : api \in DOMAIN Spoken}, cap, dropped)
    /\ phase = "new"
    /\ ranges = <<>>
    /\ wire = <<>>
    /\ call = Idle
    /\ heard = Bad
    /\ answer = <<>>
    /\ outcome = Outcome(None)

\* The request leaves the client. One that does not encode fails at once.
Send(api, request, version, value) ==
    /\ call' = [api |-> api, version |-> version, value |-> value]
    /\ wire' = RequestFrame(request, version, value)
    /\ IF wire' = <<>>
       THEN phase' = "ready" /\ outcome' = Outcome("encode_error")
       ELSE phase' = "asked" /\ outcome' = Outcome(None)
    /\ heard' = Bad
    /\ answer' = <<>>

\* negotiate: ask at the newest version this client knows.
NegotiateAt(version) ==
    Send("api_versions", ApiVersionsRequest, version, ApiVersionsFor)
Negotiate ==
    /\ phase = "new"
    /\ NegotiateAt(ApiVersionsRequest.max)
    /\ UNCHANGED <<broker, ranges>>

\* handle_connection: the broker reads key and version, by them the header,
\* and then the body.
HearBody(request, payload, header) ==
    Then(Decode(request, payload, header.at, header.val["request_api_version"]),
         LAMBDA body : [at |-> body.at, left |-> Len(payload) + 1 - body.at,
                        header |-> header.val, val |-> body.val])
HearPayload(request, payload) ==
    IF GetInt(payload, 1, 2).val # request.key THEN Bad
    ELSE Then(Decode(RequestHeader, payload, 1,
                     RequestHeaderVersion(request, GetInt(payload, 3, 2).val)),
              LAMBDA header : HearBody(request, payload, header))
Hear(request) == HearPayload(request, TrySplit(wire).val[1])

BrokerNegotiates ==
    /\ phase = "asked"
    /\ call.api = "api_versions"
    /\ \E refusal \in {0, INVALID_REQUEST} :
          wire' = ApiVersionsExchange(call.version <= broker[ApiVersionsKey][2],
                                      call.version, refusal)
    /\ heard' = Hear(ApiVersionsRequest)
    /\ phase' = "answered"
    /\ UNCHANGED <<broker, ranges, call, answer, outcome>>

\* The client reads the ApiVersions answer: take the ranges, ask again at the
\* version the broker named, or give up.
Adopt(learned) ==
    /\ ranges' = learned
    /\ phase' = "ready"
    /\ call' = Idle
    /\ wire' = <<>>
    /\ heard' = Bad
    /\ UNCHANGED <<answer, outcome>>

GiveUp(kind) ==
    /\ phase' = "closed"
    /\ call' = Idle
    /\ wire' = <<>>
    /\ heard' = Bad
    /\ outcome' = Outcome(kind)
    /\ UNCHANGED <<ranges, answer>>

Settle(code, learned, again) ==
    \/ code = 0 /\ Adopt(learned)
    \/ /\ code = UNSUPPORTED_VERSION
       /\ call.version = ApiVersionsRequest.max /\ again # <<>>
       /\ NegotiateAt(again[1])
       /\ UNCHANGED ranges
    \/ /\ code # 0
       /\ code # UNSUPPORTED_VERSION \/ call.version # ApiVersionsRequest.max \/ again = <<>>
       /\ GiveUp("refused")

NegotiatedWith(r) ==
    IF IsBad(r) THEN GiveUp("unreadable")
    ELSE LET learned == FromResponse(r.val["api_keys"])
         IN Settle(r.val["error_code"], learned,
                   Pick(learned, ApiVersionsKey,
                        ApiVersionsRequest.min, ApiVersionsRequest.max))

Negotiated ==
    /\ phase = "answered"
    /\ call.api = "api_versions"
    /\ NegotiatedWith(
          Then(ResponseBody(wire, ResponseHeaderVersion(ApiVersionsRequest, call.version)),
               LAMBDA body : ApiVersionsAt(body.val, call.version)))
    /\ UNCHANGED broker

\* A failed connection is dropped and dialled again.
Reconnect ==
    /\ phase = "closed"
    /\ phase' = "new"
    /\ outcome' = Outcome(None)
    /\ UNCHANGED <<broker, ranges, wire, call, heard, answer>>

\* An api call: pick a version, build, encode, send.
AskAt(api, request, version) ==
    IF version = <<>>
    THEN /\ outcome' = Outcome("no_common_version")
         /\ call' = [Idle EXCEPT !.api = api]
         /\ UNCHANGED <<phase, wire, heard, answer>>
    ELSE \E value \in Builds(api, version[1]) : Send(api, request, version[1], value)
AskAs(api, speaks) ==
    AskAt(api, speaks.request,
          Pick(ranges, speaks.request.key, speaks.min, speaks.max))
Ask(api) ==
    /\ phase = "ready"
    /\ outcome.kind = None
    /\ AskAs(api, SUPPORTED[api])
    /\ UNCHANGED <<broker, ranges>>

\* The acceptance suite's raw connection speaks every version the crate has,
\* the ones the client stays away from too, and sends any value.
ProbeAt(api, request, version, flavour) ==
    /\ version # <<>>
    /\ Send(api, request, version[1], SampleOf(request, version[1], flavour))
ProbeWith(api, request, flavour) ==
    ProbeAt(api, request, Pick(ranges, request.key, request.min, request.max), flavour)
Probe(api, flavour) ==
    /\ phase = "ready"
    /\ outcome.kind = None
    /\ ProbeWith(api, SUPPORTED[api].request, flavour)
    /\ UNCHANGED <<broker, ranges>>

\* The broker answers with any conforming message of the version asked for.
ServeAs(speaks, flavour) ==
    /\ answer' = <<SampleOf(speaks.response, call.version, flavour)>>
    /\ wire' = FrameResponse(ResponseHeaderVersion(speaks.request, call.version),
                             speaks.response, answer'[1], call.version)
    /\ heard' = Hear(speaks.request)
Serve(flavour) ==
    /\ phase = "asked"
    /\ call.api # "api_versions"
    /\ ServeAs(SUPPORTED[call.api], flavour)
    /\ phase' = "answered"
    /\ UNCHANGED <<broker, ranges, call, outcome>>

\* The answer's body as it left the broker.
AnswerBody(speaks) == ResponseBody(wire, ResponseHeaderVersion(speaks.request, call.version))

\* decode_body: bytes left over are a violation of the protocol.
DecodedBody(body, r) ==
    CASE IsBad(r) -> Outcome("unreadable")
      [] r.at # Len(body) + 1 -> Outcome("leftover")
      [] OTHER -> [kind |-> "answered", val |-> <<r.val>>]
DecodeBody(response, body) ==
    IF IsBad(body) THEN Outcome("unreadable")
    ELSE DecodedBody(body.val, Decode(response, body.val, 1, call.version))

ReceiveAs(speaks) == outcome' = DecodeBody(speaks.response, AnswerBody(speaks))
Receive ==
    /\ phase = "answered"
    /\ call.api # "api_versions"
    /\ ReceiveAs(SUPPORTED[call.api])
    /\ phase' = "ready"
    /\ UNCHANGED <<broker, ranges, wire, call, heard, answer>>

\* The caller has its result; the connection is free for the next call.
Return ==
    /\ phase = "ready"
    /\ outcome.kind # None
    /\ outcome' = Outcome(None)
    /\ call' = Idle
    /\ wire' = <<>>
    /\ heard' = Bad
    /\ answer' = <<>>
    /\ UNCHANGED <<broker, phase, ranges>>

Next ==
    \/ Negotiate \/ BrokerNegotiates \/ Negotiated \/ Reconnect
    \/ \E api \in Apis : Ask(api)
    \/ \E api \in Apis, flavour \in Probes : Probe(api, flavour)
    \/ \E flavour \in Flavours : Serve(flavour)
    \/ Receive \/ Return

Spec == Init /\ [][Next]_vars

----------------------------------------------------------------------------
(* What a version carries of a value: the other fields come back as their   *)
(* defaults, and only flexible versions carry unknown tagged fields.        *)

RECURSIVE Carried(_, _, _, _)
CarriedValue(type, value, version, flexible) ==
    CASE type.kind = "array" ->
            [i \in DOMAIN value |-> Carried(type.of, value[i], version, flexible)]
      [] type.kind = "struct" -> Carried(type, value, version, flexible)
      [] OTHER -> value

Carried(type, value, version, flexible) ==
    IF type.kind # "struct" THEN CarriedValue(type, value, version, flexible)
    ELSE [name \in DOMAIN value |->
            IF name = "unknown" THEN IF flexible THEN value[name] ELSE <<>>
            ELSE LET field == FieldNamed(type, name)
                     optional == field.nullFrom # Never \/ field.tag >= 0
                 IN CASE ~Carries(field, version) -> field.default
                      [] field.tag >= 0 /\ ~flexible -> field.default
                      [] optional /\ value[name] = <<>> -> <<>>
                      [] optional -> <<CarriedValue(field.type, value[name][1],
                                                    version, flexible)>>
                      [] OTHER -> CarriedValue(field.type, value[name],
                                               version, flexible)]

CarriedBy(message, value, version) ==
    Carried(message.struct, value, version, IsFlexible(message, version))

\* negotiate.rs: whatever the age of the broker, once the connection is ready
\* the client holds exactly the ranges the broker advertised, and a broker
\* that answers is never given up as unreadable. An error answer at version 0
\* read at the version asked for, or the reverse, would break it.
NegotiatedIsAdvertised ==
    /\ phase = "ready" => ranges = broker
    /\ phase = "closed" => outcome.kind = "refused"

\* conn.rs and the builders: every request the client builds encodes at every
\* version it may pick (none leaves it with a null that version refuses), and
\* decodes at the broker, wholly, to what the client set as far as the version
\* carries it, under the header the client wrote.
RequestArrives ==
    /\ outcome.kind # "encode_error"
    /\ phase = "answered" =>
        /\ heard.at > 0 /\ heard.left = 0
        /\ heard.val = CarriedBy(Spoken[call.api].request, call.value, call.version)
        /\ heard.header["correlation_id"] = Correlation
        /\ heard.header["client_id"] = <<ClientId>>

\* decode_body: a conforming answer reaches the caller as sent, in every
\* version the two can agree on, null and unknown fields included; and what a
\* peer decodes and encodes again at the same version is the same bytes.
AnswerArrives ==
    LET Delivered(response) ==
            outcome.val = <<CarriedBy(response, answer[1], call.version)>>
        Same(response, body) ==
            Then(Decode(response, body, 1, call.version),
                 LAMBDA r : Read(1, Encode(response, r.val, call.version)))
                \in {Bad, Read(1, body)}
        Arrives(speaks) ==
            /\ phase = "ready" => Delivered(speaks.response)
            /\ phase = "answered" => Same(speaks.response, AnswerBody(speaks).val)
    IN answer # <<>> => Arrives(SUPPORTED[call.api])

\* No decoder takes a body that was cut short for a whole one: every strict
\* prefix of an answer is refused.
CutIsRefused ==
    LET Refused(response, body) ==
            \A n \in 0 .. Len(body) - 1 :
                IsBad(Decode(response, SubSeq(body, 1, n), 1, call.version))
        Cut(speaks) == Refused(speaks.response, AnswerBody(speaks).val)
    IN phase = "answered" /\ answer # <<>> => Cut(SUPPORTED[call.api])

\* The set of records in a produce request, as it reached the broker.
ProducedSet == heard.val["topic_data"][1]["partition_data"][1]["records"][1]
Produced == phase = "answered" /\ call.value = ProduceTo(<<>>)

\* decode_set: a record set cut anywhere, as a fetch may cut it, decodes to
\* the batches that are all there, in order, and never to an error or to part
\* of a batch; one whose magic, checksum or checksummed bytes were damaged is
\* never delivered and never skipped.
RecordSetsAreExact ==
    LET SizeOfFirst(k) == Len(EncodeSet(SubSeq(SampleSet, 1, k)))
        Whole(n, sizes) == {k \in DOMAIN SampleSet : sizes[k] <= n}
        Prefix(n, sizes) == SubSeq(SampleSet, 1, Cardinality(Whole(n, sizes)))
        Exact(set, sizes) ==
            /\ \A n \in 0 .. Len(set) :
                  DecodeSet(SubSeq(set, 1, n), 1, <<>>) = Read(1, Prefix(n, sizes))
            /\ \A i \in 17 .. sizes[1] :
                  IsBad(DecodeSet([set EXCEPT ![i] = (@ + 1) % 256], 1, <<>>))
    IN Produced => Exact(ProducedSet, [k \in DOMAIN SampleSet |-> SizeOfFirst(k)])

\* consumer_protocol.rs: a member reads the subscriptions of the others
\* whatever version they wrote, older or newer than its own.
MembersUnderstandEachOther ==
    LET Written(version, known, value) ==
            PutInt(version, 2) \o Encode(ConsumerProtocolSubscription, value, known)
            \o (IF version > 3 THEN <<0, 7>> ELSE <<>>)
        Understood(version, known, value) ==
            DecodeSubscription(Written(version, known, value)).val = value["topics"]
        Subscription(known) ==
            Sample(ConsumerProtocolSubscription.struct, 1, known, FALSE, "one")
    IN phase = "answered" /\ call.api = "join_group" =>
        \A version \in 0 .. 9 :
            Understood(version, Min({version, 3}), Subscription(Min({version, 3})))
=============================================================================
