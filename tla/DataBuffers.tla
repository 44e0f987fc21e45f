---------------------------- MODULE DataBuffers ----------------------------
(***************************************************************************)
(* DataReader and the integers of DataWriter (src/helper/mod.ts), as       *)
(* operators.  A reader is a window of a buffer and a position in it:      *)
(* [off, len, pos] is #byteOffset, byteLength and #pos.  An integer is     *)
(* written as the bytes it takes, the high byte first.  The number of      *)
(* values of a byte is a parameter: every width scales with it.            *)
(***************************************************************************)
EXTENDS Powers, Sequences, SequencesExt

CONSTANTS
  ByteValues,   \* 256
  MaxSafe       \* Number.MAX_SAFE_INTEGER, less than half of ByteValues^8

Word == Power(ByteValues)[4]

ASSUME BuffersAssumption == ByteValues \in Nat \ {0} /\ ByteValues % 2 = 0 /\ MaxSafe \in Nat
-----------------------------------------------------------------------------
(* Readers.                                                                *)

\* new DataReader(buffer, byteOffset, byteLength)
NewReader(off, len) == [off |-> off, len |-> len, pos |-> 0]

Remaining(r) == r.len - r.pos
HasMoreData(r) == r.pos < r.len

\* A mutant of HasBytes lets a reader go one byte too far.
HasBytesButOne(r, n) == r.pos + n <= r.len + 1

\* #getReadPosition throws an IncompleteDataError unless it has n bytes.
HasBytes(r, n) == r.pos + n <= r.len
ReadPosition(r) == r.off + r.pos
Moved(r, n) == [r EXCEPT !.pos = @ + n]

\* getDataReader: a reader of the next n bytes
SubReader(r, n) == NewReader(ReadPosition(r), n)

\* getUint8Array
BytesOf(s, r, n) == SubSeq(s, ReadPosition(r) + 1, ReadPosition(r) + n)
-----------------------------------------------------------------------------
(* Integers.                                                               *)

ToUint(bytes) ==
  LET upTo[k \in 0..Len(bytes)] ==
        IF k = 0 THEN 0 ELSE upTo[k - 1] * ByteValues + bytes[k]
  IN  upTo[Len(bytes)]

ToInt(bytes) ==
  LET u == ToUint(bytes) n == Power(ByteValues)[Len(bytes)]
  IN  IF 2 * u < n THEN u ELSE u - n

\* getUint8 to getUint32, getInt8 to getInt32
UintAt(s, r, k) == ToUint(BytesOf(s, r, k))
IntAt(s, r, k) == ToInt(BytesOf(s, r, k))

\* setUint8 to setUint32 and, with the same bytes, setInt8 to setInt32: modulo
\* the width.
UintBytes(v, k) == [i \in 1..k |-> (v \div Power(ByteValues)[k - i]) % ByteValues]

\* A mutant of Bytes64 rounds the high half of a negative integer towards zero.
TruncatedBytes64(v) ==
  LET high == IF v < 0 THEN -((-v) \div Word) ELSE v \div Word
  IN  UintBytes(high, 4) \o UintBytes(v % Word, 4)

\* addUint64, addInt64 and, with the same bytes, addBigUint64 and addBigInt64.
Bytes64(v) == UintBytes(v \div Word, 4) \o UintBytes(v % Word, 4)

Low(s, r) == ToUint(BytesOf(s, Moved(r, 4), 4))

\* getUint64 and getInt64, as numbers
Uint64At(s, r) == UintAt(s, r, 4) * Word + Low(s, r)
Int64At(s, r) == IntAt(s, r, 4) * Word + Low(s, r)

\* getBigUintOrUint64 and getBigIntOrInt64: whether what they return is a number
\* rather than a bigint.  SafeHigh is 0x200_000.
SafeHigh == (MaxSafe + 1) \div Word

UintIsNumber(s, r) == UintAt(s, r, 4) < SafeHigh

IntIsNumber(s, r) ==
  LET high == IntAt(s, r, 4)
  IN  \/ high > -SafeHigh /\ high < SafeHigh
      \/ high = -SafeHigh /\ Low(s, r) # 0
=============================================================================
