---------------------------- MODULE PacketWriter ----------------------------
(***************************************************************************)
(* Writer of src/mqtt/serialize.ts with the DataWriter it extends          *)
(* (src/helper/mod.ts): one buffer, reused for every packet of a client,   *)
(* that grows while a packet is written.  The body of a packet is written  *)
(* behind HeaderSpace reserved bytes, and finalizeMessage writes the fixed *)
(* header into the last of them.  The serialize functions of the packets   *)
(* are sequences of these operations between beginMessage and              *)
(* finalizeMessage; an exception leaves the writer as it is.               *)
(*                                                                         *)
(* A string is the sequence of the UTF-8 widths of its UTF-16 code units   *)
(* (1 to 3 bytes); a code unit of width w is w bytes of value w.           *)
(* Surrogate pairs, 2 bytes for each of the two units, are left out.       *)
(***************************************************************************)
EXTENDS PacketFraming, SequencesExt

CONSTANTS
  BufferSize,   \* initial capacity of the buffer (2048)
  PrefixBytes,  \* bytes of the length in front of a string (2)
  Heads,        \* first bytes of the packets that are written
  Arrays,       \* byte sequences given to addUint8, addUint16, addArray
  Strings,      \* strings given to addUTF8String
  Limits,       \* values given to the setter of maximumPacketSize
  MaxBody       \* bound: length of a packet's body

ASSUME WriterAssumption ==
  /\ BufferSize \in Nat /\ BufferSize >= HeaderSpace
  /\ PrefixBytes \in Nat \ {0}
  /\ Heads \subseteq Byte
  /\ Arrays \subseteq Seq(Byte)
  /\ Strings \subseteq Seq(1..3)
  /\ 3 \in Byte
  /\ Limits \subseteq Nat
  /\ MaxBody \in Nat

VARIABLES
  buffer,    \* bytes: the whole buffer, what earlier packets left included
  pos,       \* pos
  limit,     \* #maximumPacketSize
  state,     \* "ready", "writing", or the exception that ended a packet
  body,      \* history: what the packet's body has to be
  packet     \* the packet finalizeMessage has returned, or <<>>

vars == <<buffer, pos, limit, state, body, packet>>

-----------------------------------------------------------------------------
Zeros(n) == [i \in 1..n |-> 0]

\* A mutant of Resized: the old bytes are not copied.
Cleared(b, size) == Zeros(size)

\* #resizeBuffer
Resized(b, size) == b \o Zeros(size - Len(b))

\* ensureBufferSize
Ensured(b, p, n) == IF Len(b) < p + n THEN Resized(b, (p + n) * 2) ELSE b

\* The bytes v at position p of b, as far as b reaches.
Overwritten(b, p, v) ==
  [i \in 1..Len(b) |-> IF i \in (p + 1)..(p + Len(v)) THEN v[i - p] ELSE b[i]]

\* addArray; addUint8 and addUint16 for one and two bytes
Put(b, p, v) == Overwritten(Ensured(b, p, Len(v)), p, v)

\* DataView.setUint16: n modulo the width, high byte first
LengthPrefix(n) ==
  [i \in 1..PrefixBytes |-> (n \div Power(2 * Base)[PrefixBytes - i]) % (2 * Base)]

\* The same without a width: what the prefix has to be.
TrueLength(n) ==
  [LengthPrefix(n) EXCEPT ![1] = n \div Power(2 * Base)[PrefixBytes - 1]]

Encoded(str) == FlattenSeq([i \in 1..Len(str) |-> [j \in 1..str[i] |-> str[i]]])

\* The prefix of a longer string wraps around, and its packet is a wrong one.
ASSUME StringsAssumption ==
  \A str \in Strings : Len(Encoded(str)) < Power(2 * Base)[PrefixBytes]

\* TextEncoder.encodeInto writes the code units that fit, none of them in part.
Fitting(str, room) ==
  LET fits == {m \in 0..Len(str) : Len(Encoded(SubSeq(str, 1, m))) <= room}
  IN  SubSeq(str, 1, Max(fits))
-----------------------------------------------------------------------------
Init ==
  /\ buffer = Zeros(BufferSize)
  /\ pos = HeaderSpace
  /\ limit = MaxLength
  /\ state = "ready"
  /\ body = <<>>
  /\ packet = <<>>

\* The setter throws, and changes nothing, beyond MaxLength.  A packet is
\* written without an await, so it comes between two packets.
SetMaximumPacketSize(value) ==
  /\ state # "writing"
  /\ value \in 0..MaxLength
  /\ limit' = value
  /\ UNCHANGED <<buffer, pos, state, body, packet>>

\* A packet whose serialization has thrown is begun again, or another one is.
BeginMessage ==
  /\ pos' = HeaderSpace
  /\ state' = "writing"
  /\ body' = <<>>
  /\ packet' = <<>>
  /\ UNCHANGED <<buffer, limit>>

AddArray(v) ==
  /\ state = "writing"
  /\ Len(body) + Len(v) <= MaxBody
  /\ buffer' = Put(buffer, pos, v)
  /\ pos' = pos + Len(v)
  /\ body' = body \o v
  /\ UNCHANGED <<limit, state, packet>>

\* Space is ensured for the string alone; the two bytes of its length are then
\* taken from it unless they, too, do not fit.
AddUTF8String(str) ==
  LET zero == Put(Ensured(buffer, pos, 3 * Len(str)), pos, LengthPrefix(0))
      at   == pos + PrefixBytes
      part == Fitting(str, Len(zero) - at)
      utf8 == Encoded(part)
      text == Overwritten(zero, at, utf8)
  IN  /\ state = "writing"
      /\ Len(body) + PrefixBytes + Len(Encoded(str)) <= MaxBody
      /\ \/ /\ part = str
            /\ buffer' = Put(text, pos, LengthPrefix(Len(utf8)))
            /\ pos' = at + Len(utf8)
            /\ body' = body \o TrueLength(Len(utf8)) \o utf8
            /\ UNCHANGED state
         \/ /\ part # str
            /\ buffer' = text
            /\ pos' = at
            /\ state' = "noRoom"
            /\ UNCHANGED body
      /\ UNCHANGED <<limit, packet>>

\* The header is written so that it ends where the body begins, and the packet
\* is copied out of the buffer.
FinalizeMessage(head) ==
  LET size  == pos - HeaderSpace
      start == HeaderSpace - 1 - LengthVariableByteInteger(size)
      out   == Put(buffer, start, <<head>> \o VariableByteInteger[size])
  IN  /\ state = "writing"
      /\ \/ /\ size >= limit
            /\ state' = "tooLarge"
            /\ UNCHANGED <<buffer, pos, packet>>
         \/ /\ size < limit
            /\ buffer' = out
            /\ pos' = HeaderSpace
            /\ state' = "ready"
            /\ packet' = [bytes |-> SubSeq(out, start + 1, pos),
                          head |-> head, body |-> body, limit |-> limit]
      /\ UNCHANGED <<limit, body>>

Next ==
  \/ \E value \in Limits : SetMaximumPacketSize(value)
  \/ BeginMessage
  \/ \E v \in Arrays : AddArray(v)
  \/ \E str \in Strings : AddUTF8String(str)
  \/ \E head \in Heads : FinalizeMessage(head)

Spec == Init /\ [][Next]_vars
-----------------------------------------------------------------------------
\* While a packet is written the buffer holds, behind the reserved bytes and up
\* to the position, what was written of its body: growing loses nothing, and
\* nothing of an earlier packet or of a packet that was given up shows through.
BufferHoldsBody ==
  state = "writing" =>
    /\ pos = HeaderSpace + Len(body)
    /\ SubSeq(buffer, HeaderSpace + 1, pos) = body

\* What finalizeMessage returns is one packet for readFixedHeader: the header is
\* complete, the length it tells ends with the last byte, and head and body are
\* the ones that were written (serialize.ts:225-230 writes the header without a
\* test of the space it takes).
PacketReadsBack ==
  packet # <<>> =>
    /\ Whole(packet.bytes, 0)
    /\ FrameEnd(packet.bytes, 0) = Len(packet.bytes)
    /\ Frame(packet.bytes, 0) = [head |-> packet.head, body |-> packet.body]

\* A packet returned is not larger than the maximum packet size
\* (serialize.ts:207: "@throws If ... message exceeds maximum packet size").
LimitIsRespected == packet # <<>> => Len(packet.bytes) <= packet.limit
=============================================================================
