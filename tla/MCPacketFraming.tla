-------------------------- MODULE MCPacketFraming --------------------------
(* The variable byte integer with the widths of the code, for the integers  *)
(* around every boundary of its length.                                     *)
EXTENDS PacketFraming, FiniteSets

CONSTANT Reach   \* how far around a boundary

VARIABLE number  \* the integer written

Around(m) == {i \in (m - Reach)..(m + Reach) : i \in 0..MaxLength}

MCInit == number \in UNION {Around(Power(Base)[k]) : k \in 0..LengthBytes}
MCNext == UNCHANGED number
MCSpec == MCInit /\ [][MCNext]_number

\* Reading undoes writing, over as many bytes as finalizeMessage makes room for
\* (lengthVariableByteInteger, addVariableByteInteger and
\* readVariableByteInteger), and an integer that is cut off is seen to be
\* incomplete, neither read nor taken for malformed.
IntegerReadsBack ==
  LET bytes == VariableByteInteger[number]
      k     == LengthVariableByteInteger(number)
  IN  /\ Len(bytes) = k
      /\ {j \in 1..LengthBytes : IntegerAt(bytes, 0, j)} = {k}
      /\ IntegerValue(bytes, 0, k) = number
      /\ \A cut \in 0..(k - 1) :
           LET s == SubSeq(<<0>> \o bytes, 1, cut + 1)
           IN  ~HeaderRead(s, 0) /\ ~Malformed(s, 0)
=============================================================================
