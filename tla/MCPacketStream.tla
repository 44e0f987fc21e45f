--------------------------- MODULE MCPacketStream ---------------------------
(* Digits of one bit and lengths of up to three bytes: bytes are 0..3 and   *)
(* packets are up to 7 bytes long, with one, two or three bytes of length.  *)
EXTENDS PacketStream, SequencesExt

Bodies == {<<>>, <<3>>, <<2, 0>>, <<3, 1, 2, 3>>}
Packets == {<<0>> \o VariableByteInteger[Len(b)] \o b : b \in Bodies}
Refused == <<1>> \o VariableByteInteger[1] \o <<0>>
Overlong == <<0, 2, 3, 2, 0>>

Pieces == Packets \cup {Refused, Overlong}

\* Up to three packets, the last of which may be cut off by the end of the
\* connection.
MCWires ==
  {FlattenSeq(p) : p \in UNION {[1..n -> Pieces] : n \in 1..3}}
    \cup {SubSeq(a \o b, 1, Len(a) + 1) : a, b \in Pieces}

MCSendings == UNION {[1..n -> Packets] : n \in 1..3}
=============================================================================
