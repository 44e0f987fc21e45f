---------------------------- MODULE MqttPackets ----------------------------
(***************************************************************************)
(* The packets of MQTT 5: the serialize functions of src/mqtt/serialize.ts *)
(* and deserializePacket of src/mqtt/deserialize.ts, with the types and    *)
(* validators of src/mqtt/packets.ts.                                      *)
(*                                                                         *)
(* A packet is a function of the fields it has.  A wire is what the fixed  *)
(* header tells, [type, flags], and the bytes of the body; the header      *)
(* itself and the buffer are PacketFraming and PacketWriter.  A reader is  *)
(* the bytes it has still to read.  Text is the bytes of its UTF-8 form, a *)
(* payload or a will's payload <<"text", s>> or <<"binary", s>>.  Texts    *)
(* and data have less than 65536 bytes: addBinaryData refuses more, and    *)
(* the length of a text is taken modulo 65536.                             *)
(***************************************************************************)
EXTENDS PacketFraming, DataBuffers, TLC

ASSUME PacketsWidths == ByteValues = 256 /\ Base = 128 /\ LengthBytes = 4

Type ==
  [Reserved |-> 0, Connect |-> 1, ConnAck |-> 2, Publish |-> 3, PubAck |-> 4,
   PubRec |-> 5, PubRel |-> 6, PubComp |-> 7, Subscribe |-> 8, SubAck |-> 9,
   Unsubscribe |-> 10, UnsubAck |-> 11, PingReq |-> 12, PingResp |-> 13,
   Disconnect |-> 14, Auth |-> 15]

Server_moved == \h9d
Use_another_server == \h9c

\* The identifier of each property and the kind of its value: a number of one, two
\* or four bytes, a byte that is read as a boolean, text, binary data, and the two
\* that may occur several times.
Property ==
  [payload_format_indicator          |-> <<\h01, "byte">>,
   message_expiry_interval           |-> <<\h02, "four">>,
   content_type                      |-> <<\h03, "text">>,
   response_topic                    |-> <<\h08, "topic">>,
   correlation_data                  |-> <<\h09, "binary">>,
   subscription_identifier           |-> <<\h0b, "varint">>,
   session_expiry_interval           |-> <<\h11, "four">>,
   assigned_client_id                |-> <<\h12, "text">>,
   server_keep_alive                 |-> <<\h13, "two">>,
   authentication_method             |-> <<\h15, "text">>,
   authentication_data               |-> <<\h16, "binary">>,
   request_problem_information       |-> <<\h17, "notZero">>,
   will_delay_interval               |-> <<\h18, "four">>,
   request_response_information      |-> <<\h19, "isOne">>,
   response_information              |-> <<\h1a, "topic">>,
   server_reference                  |-> <<\h1c, "text">>,
   reason_string                     |-> <<\h1f, "text">>,
   receive_maximum                   |-> <<\h21, "two">>,
   topic_alias_maximum               |-> <<\h22, "two">>,
   topic_alias                       |-> <<\h23, "two">>,
   maximum_QoS                       |-> <<\h24, "byte">>,
   retain_available                  |-> <<\h25, "isOne">>,
   user_properties                   |-> <<\h26, "pair">>,
   maximum_packet_size               |-> <<\h27, "four">>,
   wildcard_subscription_available   |-> <<\h28, "notZero">>,
   subscription_identifiers_available |-> <<\h29, "notZero">>,
   shared_subscription_available     |-> <<\h2a, "notZero">>]

Identifier(name) == Property[name][1]
Kind(name) == Property[name][2]
Repeated(name) == Kind(name) \in {"varint", "pair"}
-----------------------------------------------------------------------------
(* Types: what the fields of a packet may hold while the program runs.     *)

Octets == Seq(0..255)

\* The types AllProperties has for the kinds.
Holds(kind, v) ==
  /\ kind = "byte" => v \in 0..255
  /\ kind = "two" => v \in Nat /\ v < 65536
  /\ kind \in {"four", "varint"} => v \in Nat
  /\ kind \in {"isOne", "notZero"} => v \in BOOLEAN
  /\ kind \in {"text", "topic", "filter", "binary"} => v \in Octets
  /\ kind = "pair" => v = <<v[1], v[2]>> /\ v[1] \in Octets /\ v[2] \in Octets

IsArray(v) == Len(v) \in Nat /\ v = [i \in 1..Len(v) |-> v[i]]

\* A SUBSCRIBE has one identifier where other packets have a list.
HoldsProperty(type, name, v) ==
  IF Repeated(name) /\ ~(type = Type.Subscribe /\ name = "subscription_identifier")
  THEN IsArray(v) /\ \A i \in 1..Len(v) : Holds(Kind(name), v[i])
  ELSE Holds(Kind(name), v)

IsProperties(type, props) ==
  /\ DOMAIN props \subseteq DOMAIN Property
  /\ \A n \in DOMAIN props : HoldsProperty(type, n, props[n])

\* The other fields; an enumeration is as wide as its place in the packet.
HoldFields(r) ==
  /\ \A n \in {"clean_start", "session_present", "dup", "retain", "no_local",
              "retain_as_published"} \cap DOMAIN r : r[n] \in BOOLEAN
  /\ \A n \in {"protocol_version", "connect_reason_code", "reason_code"} \cap DOMAIN r :
       r[n] \in 0..255
  /\ \A n \in {"keepalive", "packet_identifier"} \cap DOMAIN r : r[n] \in Nat /\ r[n] < 65536
  /\ "qos" \in DOMAIN r => r.qos \in 0..3
  /\ "retain_handling" \in DOMAIN r => r.retain_handling \in 0..15
  /\ \A n \in {"protocol_name", "client_id", "username", "password", "topic"} \cap DOMAIN r :
       r[n] \in Octets
  /\ "payload" \in DOMAIN r => /\ r.payload = <<r.payload[1], r.payload[2]>>
                              /\ r.payload[1] \in {"text", "binary"} /\ r.payload[2] \in Octets

\* A record with these fields and some of those that may be left out.
HasFields(r, required, optional) ==
  /\ required \subseteq DOMAIN r /\ DOMAIN r \subseteq required \cup optional
  /\ HoldFields(r)

IsWill(will) ==
  /\ HasFields(will, {"topic"}, {"qos", "retain", "payload", "properties"})
  /\ "properties" \in DOMAIN will => IsProperties(Type.Connect, will.properties)

IsSubscription(s) ==
  HasFields(s, {"topic"}, {"qos", "no_local", "retain_as_published", "retain_handling"})

RequiredFields(type) ==
  {"type"} \cup
  CASE type = Type.Publish -> {"topic"}
    [] type \in Type.PubAck..Type.PubComp -> {"packet_identifier"}
    [] type = Type.Subscribe -> {"packet_identifier", "subscriptions"}
    [] type = Type.Unsubscribe -> {"packet_identifier", "topic_filters"}
    [] type \in {Type.SubAck, Type.UnsubAck} -> {"packet_identifier", "reason_codes"}
    [] OTHER -> {}

OptionalFields(type) ==
  CASE type = Type.Connect ->
         {"protocol_name", "protocol_version", "clean_start", "client_id", "username",
          "password", "keepalive", "will", "properties"}
    [] type = Type.ConnAck -> {"session_present", "connect_reason_code", "properties"}
    [] type = Type.Publish ->
         {"packet_identifier", "dup", "qos", "retain", "payload", "properties"}
    [] type \in Type.PubAck..Type.PubComp \cup {Type.Disconnect, Type.Auth} ->
         {"reason_code", "properties"}
    [] type \in Type.Subscribe..Type.UnsubAck -> {"properties"}
    [] OTHER -> {}

IsPacket(p) ==
  /\ "type" \in DOMAIN p /\ p.type \in Type.Connect..Type.Auth
  /\ HasFields(p, RequiredFields(p.type), OptionalFields(p.type))
  /\ "properties" \in DOMAIN p => IsProperties(p.type, p.properties)
  /\ "will" \in DOMAIN p => IsWill(p.will)
  /\ \A n \in {"subscriptions", "topic_filters", "reason_codes"} \cap DOMAIN p : IsArray(p[n])
  /\ "subscriptions" \in DOMAIN p =>
       \A i \in 1..Len(p.subscriptions) : IsSubscription(p.subscriptions[i])
  /\ "topic_filters" \in DOMAIN p =>
       \A i \in 1..Len(p.topic_filters) : p.topic_filters[i] \in Octets
  /\ "reason_codes" \in DOMAIN p =>
       \A i \in 1..Len(p.reason_codes) : p.reason_codes[i] \in 0..255

\* FixedHeader, and what follows it.
WireFormat == [type : 0..15, flags : 0..15, body : Octets]
-----------------------------------------------------------------------------
(* Validators: whether the text is returned rather than refused.           *)

Slash == 47
Hash == 35
Plus == 43
Includes(text, c) == \E i \in 1..Len(text) : text[i] = c

AsTopic(text) ==
  text # <<>> /\ text[1] # Slash /\ ~Includes(text, Hash) /\ ~Includes(text, Plus)

\* split("/")
LevelsBehind(levels, c) ==
  IF c = Slash THEN Append(levels, <<>>) ELSE [levels EXCEPT ![Len(levels)] = Append(@, c)]

Levels(text) ==
  LET upTo[i \in 0..Len(text)] ==
        IF i = 0 THEN <<<<>>>> ELSE LevelsBehind(upTo[i - 1], text[i])
  IN  upTo[Len(text)]

\* A mutant of AsTopicFilter accepts a '#' at any level.
AsAnyFilter(text) ==
  /\ text # <<>> /\ text[1] # Slash
  /\ \A i \in 1..Len(Levels(text)) :
       LET level == Levels(text)[i]
       IN  level \in {<<Hash>>, <<Plus>>} \/ (~Includes(level, Hash) /\ ~Includes(level, Plus))

AsTopicFilter(text) ==
  LET levels == Levels(text)
  IN  /\ text # <<>> /\ text[1] # Slash
      /\ \A i \in 1..Len(levels) :
           \/ levels[i] = <<Hash>> /\ i = Len(levels)
           \/ levels[i] = <<Plus>>
           \/ ~Includes(levels[i], Hash) /\ ~Includes(levels[i], Plus)

AsClientID(text) == \A c \in {Hash, Plus, Slash} : ~Includes(text, c)
-----------------------------------------------------------------------------
(* Writing.                                                                *)

\* The fields of f, and those of g that f has not.
f ++ g == [n \in DOMAIN f \cup DOMAIN g |-> IF n \in DOMAIN f THEN f[n] ELSE g[n]]
Single(name, v) == [n \in {name} |-> v]

Bit(b, n) == IF b THEN n ELSE 0
Optional(p, field, default) == IF field \in DOMAIN p THEN p[field] ELSE default
Given(p) == Optional(p, "properties", <<>>)

BinaryData(s) == UintBytes(Len(s), 2) \o s
UTF8String(s) == BinaryData(s)

Field(kind, v) ==
  CASE kind = "byte" -> UintBytes(v, 1)
    [] kind = "two" -> UintBytes(v, 2)
    [] kind = "four" -> UintBytes(v, 4)
    [] kind \in {"isOne", "notZero"} -> <<Bit(v, 1)>>
    [] kind \in {"text", "topic"} -> UTF8String(v)
    [] kind = "binary" -> BinaryData(v)
    [] kind = "varint" -> VariableByteInteger[v]
    [] kind = "pair" -> UTF8String(v[1]) \o UTF8String(v[2])

PropertyBytes(name, v) ==
  LET one(value) == <<Identifier(name)>> \o Field(Kind(name), value)
  IN  IF Repeated(name) THEN FlattenSeq([i \in 1..Len(v) |-> one(v[i])]) ELSE one(v)

\* The properties each packet may have, in the order in which they are written.
PropertiesOf(type) ==
  CASE type = Type.Connect ->
         <<"session_expiry_interval", "receive_maximum", "maximum_packet_size",
           "topic_alias_maximum", "request_response_information",
           "request_problem_information", "user_properties", "authentication_method",
           "authentication_data">>
    [] type = Type.ConnAck ->
         <<"session_expiry_interval", "receive_maximum", "maximum_QoS", "retain_available",
           "maximum_packet_size", "assigned_client_id", "topic_alias_maximum",
           "reason_string", "user_properties", "wildcard_subscription_available",
           "subscription_identifiers_available", "shared_subscription_available",
           "server_keep_alive", "response_information", "server_reference",
           "authentication_method", "authentication_data">>
    [] type = Type.Publish ->
         <<"payload_format_indicator", "message_expiry_interval", "content_type",
           "response_topic", "correlation_data", "subscription_identifier",
           "topic_alias", "user_properties">>
    [] type = Type.Subscribe -> <<"subscription_identifier", "user_properties">>
    [] type = Type.Unsubscribe -> <<"user_properties">>
    [] type = Type.Disconnect ->
         <<"session_expiry_interval", "reason_string", "user_properties",
           "server_reference">>
    [] type = Type.Auth ->
         <<"authentication_method", "authentication_data", "reason_string",
           "user_properties">>
    [] OTHER -> <<"reason_string", "user_properties">>

WillProperties ==
  <<"payload_format_indicator", "message_expiry_interval", "content_type",
    "response_topic", "correlation_data", "will_delay_interval", "user_properties">>

\* A test of the value itself, where others are tests for undefined; some properties
\* are written only when they are false.
TestedForTruth(type) ==
  CASE type = Type.Connect ->
         {"receive_maximum", "maximum_packet_size", "request_response_information"}
    [] type = Type.ConnAck ->
         {"receive_maximum", "maximum_QoS", "retain_available", "maximum_packet_size",
          "assigned_client_id", "topic_alias_maximum", "server_keep_alive",
          "response_information", "server_reference"}
    [] type = Type.Publish -> {"topic_alias"}
    [] type = Type.Disconnect -> {"server_reference"}
    [] OTHER -> {}

WrittenWhenFalse ==
  {"request_problem_information", "wildcard_subscription_available",
   "subscription_identifiers_available", "shared_subscription_available"}

Truthy(name, v) ==
  CASE Kind(name) = "isOne" -> v
    [] Kind(name) \in {"text", "topic"} -> v # <<>>
    [] OTHER -> v # 0

Sent(type, name, v) ==
  /\ name \in TestedForTruth(type) => Truthy(name, v)
  /\ name \in WrittenWhenFalse => ~v

\* The length of the properties, and those of the names that are given and sent.
AddProperties(names, props, sent(_)) ==
  LET bytes(name) == IF name \in DOMAIN props /\ sent(name)
                     THEN PropertyBytes(name, props[name]) ELSE <<>>
      data == FlattenSeq([i \in 1..Len(names) |-> bytes(names[i])])
  IN  VariableByteInteger[Len(data)] \o data

\* The indicator is that of the payload, whatever the properties say.
Formatted(p) ==
  LET props == Restrict(Given(p), DOMAIN Given(p) \ {"payload_format_indicator"})
  IN  IF "payload" \in DOMAIN p /\ p.payload[1] = "text"
      THEN [payload_format_indicator |-> 1] ++ props ELSE props

PayloadBytes(p) == Optional(p, "payload", <<"binary", <<>>>>)[2]

\* The one identifier of a SUBSCRIBE, where 0 is none, is a list of one.
OneIdentifier(props) ==
  IF "subscription_identifier" \notin DOMAIN props THEN props
  ELSE [props EXCEPT !.subscription_identifier = IF @ = 0 THEN <<>> ELSE <<@>>]

PacketProperties(p) ==
  LET props == CASE p.type = Type.Publish -> Formatted(p)
                 [] p.type = Type.Subscribe -> OneIdentifier(Given(p))
                 [] OTHER -> Given(p)
  IN  AddProperties(PropertiesOf(p.type), props, LAMBDA n : Sent(p.type, n, props[n]))

MQTT == <<77, 81, 84, 84>>

ConnectFlags(p) ==
  LET will == Optional(p, "will", <<>>)
  IN  Bit("username" \in DOMAIN p, 128) + Bit("password" \in DOMAIN p, 64)
        + Bit(Optional(will, "retain", FALSE), 32) + 8 * Optional(will, "qos", 0)
        + Bit("will" \in DOMAIN p, 4) + Bit(Optional(p, "clean_start", TRUE), 2)

ConnectBody(p) ==
  UTF8String(Optional(p, "protocol_name", MQTT))
    \o <<Optional(p, "protocol_version", 5), ConnectFlags(p)>>
    \o UintBytes(Optional(p, "keepalive", 0), 2)
    \o PacketProperties(p)
    \o UTF8String(Optional(p, "client_id", <<>>))
    \o (IF "will" \notin DOMAIN p THEN <<>>
        ELSE AddProperties(WillProperties, Formatted(p.will), LAMBDA n : TRUE)
               \o UTF8String(p.will.topic) \o BinaryData(PayloadBytes(p.will)))
    \o (IF "username" \in DOMAIN p THEN UTF8String(p.username) ELSE <<>>)
    \o (IF "password" \in DOMAIN p THEN UTF8String(p.password) ELSE <<>>)

ConnAckBody(p) ==
  <<Bit(Optional(p, "session_present", FALSE), 1), Optional(p, "connect_reason_code", 0)>>
    \o PacketProperties(p)

PublishBody(p) ==
  UTF8String(p.topic)
    \o (IF "packet_identifier" \in DOMAIN p THEN UintBytes(p.packet_identifier, 2) ELSE <<>>)
    \o PacketProperties(p) \o PayloadBytes(p)

\* PUBACK, PUBREC, PUBREL and PUBCOMP; DISCONNECT and AUTH have no identifier, and
\* their reason code may be left out when it is 0.
AckBody(p) ==
  UintBytes(p.packet_identifier, 2)
    \o (IF Optional(p, "reason_code", 1) = 0 /\ "properties" \notin DOMAIN p THEN <<>>
        ELSE <<Optional(p, "reason_code", 0)>> \o PacketProperties(p))

EndBody(p) ==
  IF Optional(p, "reason_code", 0) = 0 /\ "properties" \notin DOMAIN p THEN <<>>
  ELSE <<Optional(p, "reason_code", 0)>> \o PacketProperties(p)

SubscriptionBytes(s) ==
  UTF8String(s.topic)
    \o <<Optional(s, "qos", 0) + Bit(Optional(s, "no_local", FALSE), 4)
           + Bit(Optional(s, "retain_as_published", FALSE), 8)
           + 16 * Optional(s, "retain_handling", 0)>>

\* SUBSCRIBE, UNSUBSCRIBE and the replies to them
Entries(p) ==
  CASE p.type = Type.Subscribe ->
         [i \in 1..Len(p.subscriptions) |-> SubscriptionBytes(p.subscriptions[i])]
    [] p.type = Type.Unsubscribe ->
         [i \in 1..Len(p.topic_filters) |-> UTF8String(p.topic_filters[i])]
    [] OTHER -> [i \in 1..Len(p.reason_codes) |-> <<p.reason_codes[i]>>]

ListBody(p) ==
  UintBytes(p.packet_identifier, 2) \o PacketProperties(p) \o FlattenSeq(Entries(p))

IsAck(type) == type \in Type.PubAck..Type.PubComp
IsList(type) == type \in Type.Subscribe..Type.UnsubAck
IsEnd(type) == type \in {Type.Disconnect, Type.Auth}

\* The serialize function of the packet throws.
Throws(p) ==
  \/ /\ p.type = Type.ConnAck
     /\ Optional(Given(p), "server_reference", <<>>) # <<>>
     /\ Optional(p, "connect_reason_code", 0) \notin {Server_moved, Use_another_server}
  \/ /\ p.type \in {Type.Connect, Type.ConnAck, Type.Auth}
     /\ "authentication_data" \in DOMAIN Given(p)
     /\ "authentication_method" \notin DOMAIN Given(p)
  \/ /\ p.type = Type.Publish
     /\ ("packet_identifier" \in DOMAIN p) # (Optional(p, "qos", 0) # 0)
  \/ IsList(p.type) /\ Entries(p) = <<>>

PublishFlags(p) ==
  Bit(Optional(p, "dup", FALSE), 8) + 2 * Optional(p, "qos", 0)
    + Bit(Optional(p, "retain", FALSE), 1)

\* A mutant of Flags leaves out the reserved flags of the other packets.
FlagsOfPublish(p) == IF p.type = Type.Publish THEN PublishFlags(p) ELSE 0

Flags(p) ==
  CASE p.type = Type.Publish -> PublishFlags(p)
    [] p.type \in {Type.PubRel, Type.Subscribe, Type.Unsubscribe} -> 2
    [] OTHER -> 0

Serialize(p) ==
  [type |-> p.type,
   flags |-> Flags(p),
   body |-> CASE p.type = Type.Connect -> ConnectBody(p)
              [] p.type = Type.ConnAck -> ConnAckBody(p)
              [] p.type = Type.Publish -> PublishBody(p)
              [] IsAck(p.type) -> AckBody(p)
              [] IsList(p.type) -> ListBody(p)
              [] IsEnd(p.type) -> EndBody(p)
              [] OTHER -> <<>>]
-----------------------------------------------------------------------------
(* Reading.  The outcome is a value and the bytes behind it, or an         *)
(* exception: no caller tells one from another.                            *)

Got(v, rest) == [ok |-> TRUE, v |-> v, rest |-> rest]
Refused == [ok |-> FALSE]

\* What comes next, unless there was an exception.
Then(outcome, Continue(_, _)) ==
  IF outcome.ok THEN Continue(outcome.v, outcome.rest) ELSE Refused
Mapped(outcome, F(_)) == Then(outcome, LAMBDA v, rest : Got(F(v), rest))
Checked(outcome, Valid(_)) ==
  Then(outcome, LAMBDA v, rest : IF Valid(v) THEN Got(v, rest) ELSE Refused)

\* A mutant of ReadBytes makes do with what is there.
ReadSome(s, n) == LET m == Min({n, Len(s)}) IN Got(SubSeq(s, 1, m), SubSeq(s, m + 1, Len(s)))

\* getUint8Array and getDataReader
ReadBytes(s, n) ==
  IF Len(s) < n THEN Refused ELSE Got(SubSeq(s, 1, n), SubSeq(s, n + 1, Len(s)))

ReadUint(s, width) == Mapped(ReadBytes(s, width), ToUint)

ReadVariableByteInteger(s) ==
  IF \A k \in 1..LengthBytes : ~IntegerAt(s, 0, k) THEN Refused
  ELSE LET k == IntegerLength(s, 0)
       IN  Got(IntegerValue(s, 0, k), SubSeq(s, k + 1, Len(s)))

ReadBinaryData(s) == Then(ReadUint(s, 2), LAMBDA n, rest : ReadBytes(rest, n))

\* TextDecoder.decode, which is told neither to be fatal nor to keep a byte order
\* mark.  It goes from character to character: a byte with which none begins, and
\* the bytes of one up to the first that does not continue it, become a character
\* of their own, the replacement.
Bom == <<\hef, \hbb, \hbf>>
Replacement == <<\hef, \hbf, \hbd>>

CharLength(byte) ==
  CASE byte \in 194..223 -> 2
    [] byte \in 224..239 -> 3
    [] byte \in 240..244 -> 4
    [] OTHER -> 1

\* The k-th byte behind i continues the character that begins there: no overlong
\* form, no surrogate, nothing above U+10FFFF.
Continues(s, i, k) ==
  /\ i + k <= Len(s)
  /\ s[i + k] \in 128..191
  /\ k = 1 => /\ s[i] = 224 => s[i + 1] >= 160
              /\ s[i] = 237 => s[i + 1] < 160
              /\ s[i] = 240 => s[i + 1] >= 144
              /\ s[i] = 244 => s[i + 1] < 144

\* How many bytes are taken for one character.
Taken(s, i) ==
  IF CharLength(s[i]) = 1 \/ ~Continues(s, i, 1) THEN 1
  ELSE IF CharLength(s[i]) = 2 \/ ~Continues(s, i, 2) THEN 2
  ELSE IF CharLength(s[i]) = 3 \/ ~Continues(s, i, 3) THEN 3
  ELSE 4

WholeChar(s, i) == s[i] < 128 \/ (CharLength(s[i]) > 1 /\ Taken(s, i) = CharLength(s[i]))

\* The byte belongs to a character that begins before it.
Inside(s, i) == \E j \in 1..(i - 1) : i < j + Taken(s, j)

DecodedAt(s, i) ==
  IF Inside(s, i) \/ (i = 1 /\ IsPrefix(Bom, s)) THEN <<>>
  ELSE IF WholeChar(s, i) THEN SubSeq(s, i, i + Taken(s, i) - 1)
  ELSE Replacement

DecodedText(utf8) == FlattenSeq([i \in 1..Len(utf8) |-> DecodedAt(utf8, i)])

ReadUTF8String(s) == Mapped(ReadBinaryData(s), DecodedText)

ReadValue(kind, s) ==
  CASE kind = "byte" -> ReadUint(s, 1)
    [] kind = "two" -> ReadUint(s, 2)
    [] kind = "four" -> ReadUint(s, 4)
    [] kind = "isOne" -> Mapped(ReadUint(s, 1), LAMBDA n : n = 1)
    [] kind = "notZero" -> Mapped(ReadUint(s, 1), LAMBDA n : n # 0)
    [] kind = "binary" -> ReadBinaryData(s)
    [] kind = "text" -> ReadUTF8String(s)
    [] kind = "topic" -> Checked(ReadUTF8String(s), AsTopic)
    [] kind = "filter" -> Checked(ReadUTF8String(s), AsTopicFilter)
    [] kind = "varint" -> ReadVariableByteInteger(s)
    [] kind = "pair" -> Then(ReadUTF8String(s), LAMBDA key, rest :
                               Mapped(ReadUTF8String(rest), LAMBDA v : <<key, v>>))

\* Mutants of Assigned forget the earlier entries of a list, or the other properties.
Overwriting(props, name, v) == Single(name, IF Repeated(name) THEN <<v>> ELSE v) ++ props
LastOnly(props, name, v) == Single(name, IF Repeated(name) THEN <<v>> ELSE v)

\* Of a property that is repeated the last value counts, or all of them in a list.
Assigned(props, name, v) ==
  Single(name, IF Repeated(name) THEN Append(Optional(props, name, <<>>), v) ELSE v) ++ props

\* A turn of the loop of readProperties, while something is left: an identifier
\* that is unknown is skipped alone.
PropertyTurn(before) ==
  Then(before, LAMBDA props, s :
    LET names == {n \in DOMAIN Property : Identifier(n) = s[1]}
        name == CHOOSE n \in names : TRUE
    IN  CASE s = <<>> -> before
          [] s # <<>> /\ names = {} -> Got(props, Tail(s))
          [] OTHER -> Mapped(ReadValue(Kind(name), Tail(s)),
                             LAMBDA v : Assigned(props, name, v)))

\* Every turn takes a byte at least.
PropertyLoop(s) ==
  LET after[i \in 0..Len(s)] == IF i = 0 THEN Got(<<>>, s) ELSE PropertyTurn(after[i - 1])
  IN  after[Len(s)]

\* As the part of a packet that has them: "properties" is not defined when there is
\* nothing more or their length is 0.
ReadProperties(s) ==
  IF s = <<>> THEN Got(<<>>, s)
  ELSE Then(ReadVariableByteInteger(s), LAMBDA length, behind :
         IF length = 0 THEN Got(<<>>, behind)
         ELSE Then(ReadBytes(behind, length), LAMBDA data, rest :
                Then(PropertyLoop(data), LAMBDA props, none :
                       Got([properties |-> props], rest))))

Read(kind, s) == IF kind = "properties" THEN ReadProperties(s) ELSE ReadValue(kind, s)

\* Values of these kinds, one after the other.
NextRead(before, kind) ==
  Then(before, LAMBDA vs, rest : Mapped(Read(kind, rest), LAMBDA v : Append(vs, v)))

ReadAll(kinds, s) ==
  LET after[i \in 0..Len(kinds)] ==
        IF i = 0 THEN Got(<<>>, s) ELSE NextRead(after[i - 1], kinds[i])
  IN  after[Len(kinds)]

\* The same, again and again to the end; each time takes a byte at least.
NextEntry(before, kinds) ==
  Then(before, LAMBDA vs, rest :
         IF rest = <<>> THEN before ELSE Mapped(ReadAll(kinds, rest), LAMBDA v : Append(vs, v)))

ReadMany(kinds, s) ==
  LET after[i \in 0..Len(s)] == IF i = 0 THEN Got(<<>>, s) ELSE NextEntry(after[i - 1], kinds)
  IN  after[Len(s)]

Packet(p) == Got(p, <<>>)
Flag(flags, n) == (flags \div n) % 2 = 1
QoSOf(flags, n) == (flags \div n) % 4

\* The catch clause reads the length once more, from behind the one that was read.
ReadWillPayload(s) ==
  IF ReadUTF8String(s).ok THEN Mapped(ReadUTF8String(s), LAMBDA v : <<"text", v>>)
  ELSE Mapped(ReadBinaryData(IF Len(s) >= 2 THEN SubSeq(s, 3, Len(s)) ELSE s),
              LAMBDA v : <<"binary", v>>)

\* What follows the client id: the will, then the name and the password.
ReadWill(flags, s) ==
  IF ~Flag(flags, 4) THEN Got(<<>>, s)
  ELSE Then(ReadAll(<<"properties", "text">>, s), LAMBDA head, rest :
         Mapped(ReadWillPayload(rest), LAMBDA v :
           [will |-> [qos |-> QoSOf(flags, 8), retain |-> Flag(flags, 32),
                     topic |-> head[2], payload |-> v] ++ head[1]]))

ReadLogin(flags, s) ==
  LET names == (IF Flag(flags, 128) THEN <<"username">> ELSE <<>>)
                 \o (IF Flag(flags, 64) THEN <<"password">> ELSE <<>>)
  IN  Mapped(ReadAll([i \in 1..Len(names) |-> "text"], s), LAMBDA texts :
             [n \in ToSet(names) |-> texts[CHOOSE i \in 1..Len(names) : names[i] = n]])

ReadConnect(w) ==
  Then(ReadAll(<<"text", "byte", "byte", "two", "properties", "text">>, w.body),
       LAMBDA head, behind :
         IF head[1] # MQTT \/ head[2] # 5 THEN Refused
         ELSE Then(ReadWill(head[3], behind), LAMBDA will, rest :
                Then(ReadLogin(head[3], rest), LAMBDA login, none :
                  Packet([type |-> w.type, protocol_name |-> MQTT, protocol_version |-> 5,
                          clean_start |-> Flag(head[3], 2), keepalive |-> head[4],
                          client_id |-> head[6]] ++ head[5] ++ will ++ login))))

ReadConnAck(w) ==
  Then(ReadAll(<<"isOne", "byte", "properties">>, w.body), LAMBDA fields, none :
         Packet([type |-> w.type, session_present |-> fields[1],
                 connect_reason_code |-> fields[2]] ++ fields[3]))

\* PublishDeserializeOptions: "format" is PayloadFormatIndicator, "text" UTF8String
\* and "binary" DataReader or Uint8Array.
ReadPayload(s, props, options) ==
  LET text == \/ options = "text"
              \/ options = "format" /\ Optional(Given(props), "payload_format_indicator", 0) # 0
  IN  CASE s = <<>> -> <<>>
        [] s # <<>> /\ text -> [payload |-> <<"text", DecodedText(s)>>]
        [] OTHER -> [payload |-> <<"binary", s>>]

ReadPublish(w, options) ==
  LET qos == QoSOf(w.flags, 2)
  IN  Then(ReadAll(IF qos # 0 THEN <<"topic", "two", "properties">>
                   ELSE <<"topic", "properties">>, w.body), LAMBDA head, rest :
        Packet([type |-> w.type, topic |-> head[1]]
               ++ (IF Flag(w.flags, 8) THEN [dup |-> TRUE] ELSE <<>>)
               ++ (IF Flag(w.flags, 1) THEN [retain |-> TRUE] ELSE <<>>)
               ++ (IF qos # 0 THEN [qos |-> qos, packet_identifier |-> head[2]] ELSE <<>>)
               ++ Last(head)
               ++ ReadPayload(rest, Last(head), options)))

\* The reason code and the properties that may follow a head.
ReadReason(head, s) ==
  IF s = <<>> THEN Packet(head)
  ELSE Then(ReadAll(<<"byte", "properties">>, s), LAMBDA fields, none :
              Packet(head ++ [reason_code |-> fields[1]] ++ fields[2]))

ReadAck(w) ==
  IF w.type = Type.PubRel /\ w.flags # 2 THEN Refused
  ELSE Then(ReadUint(w.body, 2), LAMBDA id, rest :
              ReadReason([type |-> w.type, packet_identifier |-> id], rest))

ReadEnd(w) == ReadReason([type |-> w.type], w.body)

SubscriptionOf(topic, flags) ==
  [topic |-> topic]
    ++ (IF QoSOf(flags, 1) # 0 THEN [qos |-> QoSOf(flags, 1)] ELSE <<>>)
    ++ (IF Flag(flags, 4) THEN [no_local |-> TRUE] ELSE <<>>)
    ++ (IF Flag(flags, 8) THEN [retain_as_published |-> TRUE] ELSE <<>>)
    ++ (IF flags \div 16 # 0 THEN [retain_handling |-> flags \div 16] ELSE <<>>)

\* The properties of a SUBSCRIBE: the first identifier and the user's, if any.
SubscribeProperties(part) ==
  LET given == Given(part)
      names == DOMAIN given \cap {"subscription_identifier", "user_properties"}
  IN  IF names = {} THEN <<>>
      ELSE [properties |-> [n \in names |-> IF n = "user_properties" THEN given[n]
                                             ELSE given[n][1]]]

\* The list of a packet: its name, the kinds of an entry, and the entry read.
ListOf(type) ==
  CASE type = Type.Subscribe -> <<"subscriptions", <<"filter", "byte">>>>
    [] type = Type.Unsubscribe -> <<"topic_filters", <<"filter">>>>
    [] OTHER -> <<"reason_codes", <<"byte">>>>

Entry(type, values) ==
  IF type = Type.Subscribe THEN SubscriptionOf(values[1], values[2]) ELSE values[1]

ReadList(w) ==
  IF w.type = Type.Subscribe /\ w.flags # 2 THEN Refused
  ELSE Then(ReadAll(<<"two", "properties">>, w.body), LAMBDA head, behind :
         Then(ReadMany(ListOf(w.type)[2], behind), LAMBDA items, none :
           Packet([type |-> w.type, packet_identifier |-> head[1]]
                  ++ (IF w.type = Type.Subscribe THEN SubscribeProperties(head[2]) ELSE head[2])
                  ++ Single(ListOf(w.type)[1], [i \in 1..Len(items) |-> Entry(w.type, items[i])]))))

\* deserializePacket; a packet of the reserved type is not implemented.
DeserializePacket(w, options) ==
  CASE w.type = Type.Connect -> ReadConnect(w)
    [] w.type = Type.ConnAck -> ReadConnAck(w)
    [] w.type = Type.Publish -> ReadPublish(w, options)
    [] IsAck(w.type) -> ReadAck(w)
    [] IsList(w.type) -> ReadList(w)
    [] IsEnd(w.type) -> ReadEnd(w)
    [] w.type \in {Type.PingReq, Type.PingResp} -> Packet([type |-> w.type])
    [] w.type = Type.Reserved -> Refused
=============================================================================
