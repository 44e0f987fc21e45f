---------------------------- MODULE PacketRelay ----------------------------
(***************************************************************************)
(* A packet that is serialized, read by another client of the library,     *)
(* serialized again, and so on: what a relay between two brokers does.  It *)
(* begins with a packet of the user, or with a wire from a program that    *)
(* obeys MQTT but orders and chooses differently.                          *)
(***************************************************************************)
EXTENDS MqttPackets

CONSTANTS
  Packets,    \* packets of the user
  Wires,      \* wires from another program
  AllOptions  \* values of PublishDeserializeOptions

\* The types of packets.ts; Topic and ClientID have no other values.
ASSUME PacketsAssumption ==
  \A p \in Packets :
    /\ IsPacket(p)
    /\ p.type = Type.Publish => AsTopic(p.topic)
    /\ "will" \in DOMAIN p => AsTopic(p.will.topic)
    /\ "client_id" \in DOMAIN p => AsClientID(p.client_id)

ASSUME WiresAssumption == Wires \subseteq WireFormat

VARIABLES
  packet,     \* the packet at hand, once there is one
  wire,       \* the wire at hand, once there is one
  state,      \* "held", "sent", "refused" by the reader or the "unwritable" packet
  options,    \* how each client of the library reads
  own,        \* it began with a packet of the user
  first       \* history: the first packet, given or read

vars == <<packet, wire, state, options, own, first>>

Init ==
  /\ options \in AllOptions
  /\ own \in BOOLEAN
  /\ \/ /\ own
        /\ packet \in Packets
        /\ state = "held"
        /\ wire = <<>>
     \/ /\ ~own
        /\ packet = <<>>
        /\ state = "sent"
        /\ wire \in Wires
  /\ first = packet

Send ==
  /\ state = "held"
  /\ IF Throws(packet) THEN state' = "unwritable" /\ UNCHANGED wire
     ELSE state' = "sent" /\ wire' = Serialize(packet)
  /\ UNCHANGED <<packet, options, own, first>>

Receive ==
  LET outcome == DeserializePacket(wire, options)
  IN  /\ state = "sent"
      /\ IF ~outcome.ok THEN state' = "refused" /\ UNCHANGED <<packet, first>>
         ELSE /\ state' = "held"
              /\ packet' = outcome.v
              /\ first' = IF DOMAIN first = {} THEN outcome.v ELSE first
      /\ UNCHANGED <<wire, options, own>>

Next == Send \/ Receive

Spec == Init /\ [][Next]_vars
-----------------------------------------------------------------------------
TypeOK ==
  /\ state \in {"held", "sent", "refused", "unwritable"}
  /\ options \in AllOptions /\ own \in BOOLEAN
  /\ state \in {"held", "unwritable"} => IsPacket(packet)
  /\ state \in {"sent", "refused"} => wire \in WireFormat
-----------------------------------------------------------------------------
(* What a packet means: the fields it leaves out have the values that      *)
(* packets.ts tells beside their types.                                    *)

Defaults(type) ==
  CASE type = Type.Connect ->
         [protocol_name |-> MQTT, protocol_version |-> 5, clean_start |-> TRUE,
          client_id |-> <<>>, keepalive |-> 0]
    [] type = Type.ConnAck -> [session_present |-> FALSE, connect_reason_code |-> 0]
    [] type = Type.Publish -> [dup |-> FALSE, qos |-> 0, retain |-> FALSE]
    [] IsAck(type) \/ IsEnd(type) -> [reason_code |-> 0]
    [] OTHER -> <<>>

PropertyDefaults(type) ==
  LET defaults ==
        [user_properties |-> <<>>, topic_alias_maximum |-> 0,
         request_response_information |-> FALSE, request_problem_information |-> TRUE,
         wildcard_subscription_available |-> TRUE, shared_subscription_available |-> TRUE,
         subscription_identifiers_available |-> TRUE,
         subscription_identifier |-> IF type = Type.Subscribe THEN 0 ELSE <<>>]
  IN  Restrict(defaults, DOMAIN defaults \cap ToSet(PropertiesOf(type)))

\* What CONNACK has no way to say because the value is tested for truth: the reader
\* takes QoS 2, retained messages and its own keep alive for granted.
NeverSent(p) ==
  IF p.type # Type.ConnAck THEN {}
  ELSE {n \in DOMAIN Given(p) \cap {"maximum_QoS", "retain_available", "server_keep_alive"} :
          ~Truthy(n, Given(p)[n])}

\* The properties but those and the indicator, which goes with the payload.
PropertiesMeant(p, defaults) ==
  LET names == DOMAIN Given(p) \ (NeverSent(p) \cup {"payload_format_indicator"})
  IN  Restrict(Given(p), names) ++ defaults

\* An empty payload is no payload.  How a payload is read is the reader's choice.
PayloadMeant(p) ==
  LET payload == Optional(p, "payload", <<"binary", <<>>>>)
  IN  CASE payload[2] = <<>> -> <<"binary", <<>>>>
        [] payload[2] # <<>> /\ options = "format" -> payload
        [] OTHER -> <<options, IF options = "text" THEN DecodedText(payload[2]) ELSE payload[2]>>

\* A will has its payload as text whenever it is read, so its kind is left out.
WillMeant(will) ==
  [qos |-> Optional(will, "qos", 0), retain |-> Optional(will, "retain", FALSE),
   topic |-> will.topic, payload |-> DecodedText(PayloadBytes(will)),
   properties |-> PropertiesMeant([type |-> 0] ++ will, [user_properties |-> <<>>])]

SubscriptionMeant(s) ==
  s ++ [qos |-> 0, no_local |-> FALSE, retain_as_published |-> FALSE, retain_handling |-> 0]

Meaning(p) ==
  LET properties == [properties |-> PropertiesMeant(p, PropertyDefaults(p.type))]
      fields == properties ++ p ++ Defaults(p.type)
  IN  CASE p.type = Type.Publish -> [payload |-> PayloadMeant(p)] ++ fields
        [] "will" \in DOMAIN p -> [will |-> WillMeant(p.will)] ++ fields
        [] p.type = Type.Subscribe ->
             [subscriptions |-> [i \in 1..Len(p.subscriptions) |->
                                   SubscriptionMeant(p.subscriptions[i])]] ++ fields
        [] OTHER -> fields

\* A byte order mark is written, and dropped where a text that is read begins with
\* one: a topic of the user may be refused for the '/' behind it.
Marked(p) ==
  LET body == Serialize(p).body
  IN  \E i \in 1..(Len(body) - 2) : SubSeq(body, i, i + 2) = Bom

\* However often it is written and read, a packet keeps its meaning, but for what
\* CONNACK never sends, the bytes of a will that are no text and byte order marks
\* (the serialize functions against the deserialize functions, field by field).
MeaningKept == state = "held" => Meaning(packet) = Meaning(first) \/ Marked(first)

\* What the library has written it reads: no check of the reader refuses what the
\* writer lets pass, but for byte order marks.
OwnWiresAccepted == state = "refused" => (~own /\ DOMAIN first = {}) \/ Marked(first)

\* What was read can be written: the checks of the writer refuse packets of the user
\* alone (serialize.ts:426, 538, 543, 706, 744, 776, 796).
ReadCanBeWritten == state = "unwritable" => own /\ packet = first

Prefix(s, t) == Len(s) <= Len(t) /\ s = SubSeq(t, 1, Len(s))

\* A text may have been cut in the middle of a character, which is replaced.
PayloadBegins(part, full) ==
  /\ part[1] = full[1]
  /\ \/ Prefix(part[2], full[2])
     \/ part[1] = "text" /\ \E n \in 0..Len(part[2]) :
          part[2] = SubSeq(part[2], 1, n) \o Replacement /\ Prefix(SubSeq(part[2], 1, n), full[2])

\* A body that is shorter than it was written is refused, or read as a packet
\* without some of its fields: none has another value, but for the lists and the
\* payload that end the body.  A will is left out, whose payload is read once more,
\* two bytes further, when the first time fails (deserialize.ts:309-313).
Agrees(part, full) ==
  \A f \in DOMAIN part :
    /\ f \in DOMAIN full
    /\ CASE f = "payload" -> PayloadBegins(part[f], full[f])
         [] f \in {"subscriptions", "topic_filters", "reason_codes"} -> Prefix(part[f], full[f])
         [] OTHER -> part[f] = full[f]

CutsAgree(full) ==
  full.ok /\ "will" \notin DOMAIN full.v => \A n \in 0..(Len(wire.body) - 1) :
    \A part \in {DeserializePacket([wire EXCEPT !.body = SubSeq(@, 1, n)], options)} :
      part.ok => Agrees(part.v, full.v)

CutBodyAgrees ==
  state = "sent" => CutsAgree(DeserializePacket(wire, options))

\* A filter by the positions of its wildcards instead of its levels.
WellFormed(text) ==
  LET n == Len(text)
      begins(i) == i = 1 \/ text[i - 1] = Slash
      ends(i) == i = n \/ text[i + 1] = Slash
  IN  /\ n > 0 /\ text[1] # Slash
      /\ \A i \in 1..n : /\ text[i] \in {Hash, Plus} => begins(i) /\ ends(i)
                         /\ text[i] = Hash => i = n

\* A SUBSCRIBE of one filter and no properties: the filter lies between the
\* identifier, the length of no properties, its own length, and its options.
OneFilter(w) ==
  /\ w.type = Type.Subscribe /\ w.flags = 2 /\ Len(w.body) > 5
  /\ w.body[3] = 0 /\ 256 * w.body[4] + w.body[5] = Len(w.body) - 6

\* The reader of a SUBSCRIBE refuses exactly the filters with misplaced wildcards,
\* the empty ones and those that begin with '/', once the bytes are text
\* (packets.ts:316-347).
FiltersJudged ==
  ~own /\ state \in {"held", "refused"} /\ OneFilter(wire) =>
    (state = "held" <=> WellFormed(DecodedText(SubSeq(wire.body, 6, Len(wire.body) - 1))))
=============================================================================
