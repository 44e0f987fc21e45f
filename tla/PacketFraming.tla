--------------------------- MODULE PacketFraming ---------------------------
(***************************************************************************)
(* The fixed header of an MQTT packet: a byte with type and flags and the  *)
(* length of what follows as a variable byte integer, as it is written by  *)
(* src/mqtt/serialize.ts and read by src/mqtt/deserialize.ts.  Offsets     *)
(* count the bytes before a position, as DataReader.pos does: the byte at  *)
(* offset p of s is s[p+1].                                                *)
(***************************************************************************)
EXTENDS Powers, Sequences

CONSTANTS
  DigitBits,    \* bits of a digit of the variable byte integer (7)
  Base,         \* 2^DigitBits (128)
  LengthBytes   \* the bytes such an integer has at most (4)

ASSUME FramingAssumption ==
  /\ Base \in Nat \ {0, 1}
  /\ LengthBytes \in 1..4

ASSUME DigitAssumption == DigitBits \in Nat \ {0} /\ Base = Power(2)[DigitBits]

Byte == 0..(2 * Base - 1)
MaxLength == Power(Base)[LengthBytes] - 1
HeaderSpace == LengthBytes + 1
-----------------------------------------------------------------------------
(* Writing.                                                                *)

VariableByteInteger[n \in Nat] ==
  IF n < Base THEN <<n>>
  ELSE <<Base + (n % Base)>> \o VariableByteInteger[n \div Base]

\* 32 - Math.clz32(n), for n > 0
BitLength(n) ==
  CHOOSE b \in 1..(DigitBits * LengthBytes) : Power(2)[b - 1] <= n /\ n < Power(2)[b]

\* A mutant of LengthVariableByteInteger: rounded down.
WholeDigits(n) == IF n = 0 THEN 1 ELSE BitLength(n) \div DigitBits

LengthVariableByteInteger(n) ==
  IF n = 0 THEN 1 ELSE (BitLength(n) + DigitBits - 1) \div DigitBits
-----------------------------------------------------------------------------
(* Reading.                                                                *)

More(b) == b >= Base      \* encodedByte & 128
Digit(b) == b % Base      \* encodedByte & 127

\* The integer at offset p is complete and k bytes long.
IntegerAt(s, p, k) ==
  /\ k \in 1..LengthBytes
  /\ p + k <= Len(s)
  /\ ~More(s[p + k])
  /\ \A i \in 1..(k - 1) : More(s[p + i])

IntegerLength(s, p) == CHOOSE k \in 1..LengthBytes : IntegerAt(s, p, k)

IntegerValue(s, p, k) ==
  LET digit(i) == IF i <= k THEN Digit(s[p + i]) ELSE 0
  IN  digit(1) + Base * (digit(2) + Base * (digit(3) + Base * digit(4)))

\* The offset at which the header at offset p says that its packet ends.
FrameEnd(s, p) ==
  LET k == IntegerLength(s, p + 1) IN p + 1 + k + IntegerValue(s, p + 1, k)

\* readFixedHeader throws: one byte more than LengthBytes was read.
Malformed(s, p) ==
  /\ p + 1 + LengthBytes < Len(s)
  /\ \A i \in 1..LengthBytes : More(s[p + 1 + i])

\* There is a header at p, and the bytes it announces.  NextByteRead is a mutant
\* of Whole, with <= for the < of the test of the remaining size.
HeaderRead(s, p) == \E k \in 1..LengthBytes : IntegerAt(s, p + 1, k)
NextByteRead(s, p) == HeaderRead(s, p) /\ FrameEnd(s, p) < Len(s)
Whole(s, p) == HeaderRead(s, p) /\ FrameEnd(s, p) <= Len(s)

Frame(s, p) ==
  [head |-> s[p + 1],
   body |-> SubSeq(s, p + 2 + IntegerLength(s, p + 1), FrameEnd(s, p))]
=============================================================================
