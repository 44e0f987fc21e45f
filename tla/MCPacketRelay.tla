--------------------------- MODULE MCPacketRelay ---------------------------
(* Packets of every type with every property alone and with all of them, each *)
(* with values on both sides of the tests that decide whether it is written.  *)
EXTENDS PacketRelay

A == <<97>>
AB == <<97, Slash, 98>>
Bytes == <<0, 255, 1>>
Wide == <<\hc3, \ha4, \he2, \h82, \hac, \hf0, \h9d, \h84, \h9e>>   \* of 2, 3 and 4 bytes
Ordered == Bom \o <<Slash, 97>>
Pairs == {<<>>, <<<<A, <<>>>>, <<A, AB>>>>}

\* 0, no text and no data are values where they are legal.
Illegal0 == {"receive_maximum", "maximum_packet_size", "topic_alias"}
IllegalEmpty == {"assigned_client_id", "server_reference"}

Samples(type, name) ==
  CASE Kind(name) = "byte" -> {0, 1}
    [] Kind(name) = "two" -> {258} \cup (IF name \in Illegal0 THEN {} ELSE {0})
    [] Kind(name) = "four" -> {66051} \cup (IF name \in Illegal0 THEN {} ELSE {0})
    [] Kind(name) = "text" -> {AB} \cup (IF name \in IllegalEmpty THEN {} ELSE {<<>>})
    [] Kind(name) = "topic" -> {A, AB}
    [] Kind(name) = "binary" -> {<<>>, Bytes}
    [] Kind(name) \in {"isOne", "notZero"} -> BOOLEAN
    [] Kind(name) = "pair" -> Pairs
    [] Kind(name) = "varint" ->
         IF type = Type.Subscribe THEN {0, 1, 200000} ELSE {<<1>>, <<127, 128, 16383, 16384>>}

\* No properties, one, or all of them with the value that Pick chooses.
Alone(names, type) ==
  {<<>>} \cup UNION {{"properties" :> (n :> v) : v \in Samples(type, n)} : n \in names}
Together(names, type) ==
  {"properties" :> [n \in names |-> CHOOSE v \in Samples(type, n) :
                                      Kind(n) # "two" \/ v # 0]}
Props(type) ==
  LET names == ToSet(PropertiesOf(type)) IN Alone(names, type) \cup Together(names, type)

With(bases, parts) == {b @@ p : b \in bases, p \in parts}

Connects ==
  LET base == [type |-> Type.Connect]
      will == [topic |-> AB, payload |-> <<"text", A>>]
      wills == {[topic |-> A], will,
                [topic |-> A, qos |-> 2, retain |-> TRUE, payload |-> <<"binary", Bytes>>]}
  IN  With({base}, Props(Type.Connect)) \cup
      With({base, base @@ [keepalive |-> 300, clean_start |-> FALSE,
                                              client_id |-> A]},
           With({<<>>, "username" :> A}, {<<>>, "password" :> <<>>})) \cup
      {base @@ ("will" :> w) : w \in wills \cup With({will}, Alone(ToSet(WillProperties), 0))} \cup
      {base @@ [will |-> will, username |-> A, password |-> AB]}

ConnAcks ==
  With({[type |-> Type.ConnAck],
        [type |-> Type.ConnAck, session_present |-> TRUE,
         connect_reason_code |-> Server_moved]}, Props(Type.ConnAck))

Publishes ==
  LET base == [type |-> Type.Publish, topic |-> AB]
      payloads == {<<>>} \cup {"payload" :> <<k, s>> : k \in {"text", "binary"}, s \in {<<>>, AB}}
                    \cup {"payload" :> <<"binary", Bytes>>, "payload" :> <<"text", Wide>>,
                          "payload" :> <<"text", Ordered>>}
      flags == With({<<>>, "dup" :> TRUE, "retain" :> TRUE},
                    {<<>>, "qos" :> 1, "packet_identifier" :> 1,
                     [qos |-> 1, packet_identifier |-> 258],
                     [qos |-> 2, packet_identifier |-> 65535]})
  IN  With(With({base}, flags), payloads) \cup
      With({base, base @@ ("payload" :> <<"text", A>>)}, Props(Type.Publish)) \cup
      {[type |-> Type.Publish, topic |-> t] : t \in {Wide, Ordered}}

Acks ==
  UNION {With(With({[type |-> t, packet_identifier |-> 258]}, {<<>>, "reason_code" :> 0,
                                                              "reason_code" :> 146}),
              Props(t)) : t \in Type.PubAck..Type.PubComp} \cup
  UNION {With(With({"type" :> t}, {<<>>, "reason_code" :> 0, "reason_code" :> 24}),
              Props(t)) : t \in {Type.Disconnect, Type.Auth}} \cup
  {"type" :> Type.PingReq, "type" :> Type.PingResp}

Lists ==
  LET one == {[topic |-> A], [topic |-> <<Hash>>, qos |-> 2, no_local |-> TRUE],
              [topic |-> AB, retain_as_published |-> TRUE, retain_handling |-> 2]}
      entries == [subscriptions |-> {<<>>} \cup {<<s, t>> : s, t \in one},
                  topic_filters |-> {<<>>, <<A>>, <<<<Plus>>, AB>>},
                  reason_codes |-> {<<>>, <<0>>, <<128, 1>>}]
      field == Type.Subscribe :> "subscriptions" @@ Type.SubAck :> "reason_codes" @@
               Type.Unsubscribe :> "topic_filters" @@ Type.UnsubAck :> "reason_codes"
  IN  UNION {With(With({[type |-> t, packet_identifier |-> 1]},
                       {field[t] :> e : e \in entries[field[t]]}), Props(t)) : t \in DOMAIN field}

MCPackets == Connects \cup ConnAcks \cup Publishes \cup Acks \cup Lists
-----------------------------------------------------------------------------
\* From other programs: any filter, the properties in another order, a default that
\* is written, topics this library refuses, a reserved type.
Filters ==
  UNION {[1..n -> {97, Slash, Hash, Plus}] : n \in 0..4} \cup
  {Bom, Ordered, Bom \o <<Hash>>, Wide, <<\hc3, Slash, Hash>>, <<\hac, Hash>>}

\* A character cut by the end or by another one, a surrogate, an overlong form, one
\* above U+10FFFF and bytes that begin none.
NoText ==
  {SubSeq(Wide, 1, n) : n \in {1, 3, 4, 6, 7, 8}} \cup
  {<<\hc3, 97>>, <<\he2, \h82, 97>>, <<\hf0, \h9d, \h84, \he2, \h82, \hac>>, <<\hed, \ha0, \h80>>,
   <<\he0, \h80, \h80>>, <<\hf0, \h80, 97>>, <<\hf4, \h90, \h80, \h80>>, <<\hc0, \h80, 255>>,
   Bom \o Bom, SubSeq(Bom, 1, 2), <<255>>}

Wire(type, flags, body) == [type |-> type, flags |-> flags, body |-> body]

MCWires ==
  {Wire(Type.Subscribe, 2, <<0, 1, 0>> \o UTF8String(f) \o <<1>>) : f \in Filters} \cup
  {Wire(Type.Publish, 0, UTF8String(t) \o <<0>>) : t \in {A, <<>>, <<Slash, 97>>, <<\hc3, 97>>}} \cup
  {Wire(Type.Publish, 0, UTF8String(A) \o <<2, 1, 1>> \o s) : s \in NoText} \cup
  {Wire(Type.Publish, 1, UTF8String(A) \o <<12>> \o PropertyBytes("user_properties", <<<<A, A>>>>)
                           \o PropertyBytes("topic_alias", 1) \o <<1, 1>> \o <<97>>),
   Wire(Type.ConnAck, 0, <<1, 0, 8, \h29, 1, \h24, 0, \h25, 0, \h28, 0>>),
   Wire(Type.PubRel, 2, <<0, 1>>), Wire(Type.PubRel, 2, <<0, 1, 0>>),
   Wire(Type.PubRel, 0, <<0, 1>>), Wire(Type.Disconnect, 0, <<0>>),
   Wire(Type.Reserved, 0, <<>>)}
=============================================================================
