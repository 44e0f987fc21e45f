------------------------------ MODULE Msgpack ------------------------------
(***************************************************************************)
(* The MessagePack codec of src/msgpack/mod.ts, its reading half:          *)
(* deserialize reads one value from a DataReader.  The Serializer that     *)
(* writes them is MsgpackSerializer.                                       *)
(*                                                                         *)
(* A value is a tuple of its JavaScript type and its content.  "number" is *)
(* a safe integer and "float", with the eight bytes of a double, any other *)
(* number; "typed" is an Int16Array, for all arrays of wider elements, and *)
(* "bytes" what is sent as binary data in any case.  Texts are the bytes   *)
(* of their UTF-8 form, with one byte, Bom, for a byte order mark.         *)
(***************************************************************************)
EXTENDS DataBuffers, FiniteSetsExt

CONSTANTS
  NegativeFixes,  \* negative integers with a format of their own (32)
  MsPerSec,       \* 1000
  NsPerMs,        \* 1000000
  Bom,            \* the byte order mark
  Handled         \* types of extension the handler knows -> bytes it reads

ASSUME MsgpackAssumption ==
  /\ (MaxSafe + 1) % Word = 0 /\ 2 * MaxSafe < Power(ByteValues)[8]
  /\ NegativeFixes \in 1..32
  /\ MsPerSec \in Nat \ {0} /\ NsPerMs \in Nat \ {0}
  /\ MsPerSec * NsPerMs <= Word \div 4
  /\ Bom \in 0..(ByteValues - 1)
  /\ \A type \in DOMAIN Handled : Handled[type] \in Nat

NegativeFix == -NegativeFixes   \* negative_fixint_min

Formats ==
  [fixmap |-> \h80, fixarray |-> \h90, fixstr |-> \ha0, nil |-> \hc0,
   never_used |-> \hc1, boolean_false |-> \hc2, boolean_true |-> \hc3,
   bin_8 |-> \hc4, ext_8 |-> \hc7, float_32 |-> \hca, float_64 |-> \hcb,
   uint_8 |-> \hcc, uint_64 |-> \hcf, int_8 |-> \hd0, int_64 |-> \hd3,
   fixext_1 |-> \hd4, str_8 |-> \hd9, array_16 |-> \hdc, map_16 |-> \hde,
   negative_fixint |-> \he0]

TimeStamp == -1
-----------------------------------------------------------------------------
(* Reading.  The outcome is a value and the reader behind it, or one of    *)
(* the two kinds of exception.                                             *)

Value(v, r) == [kind |-> "value", value |-> v, reader |-> r]
Incomplete == [kind |-> "incomplete"]   \* an IncompleteDataError
Failed == [kind |-> "error"]            \* any other

IsMap(f) == f \in \h80..\h8f \cup {\hde, \hdf}
IsArray(f) == f \in \h90..\h9f \cup {\hdc, \hdd}
IsString(f) == f \in \ha0..\hbf \cup {\hd9, \hda, \hdb}
IsBinary(f) == f \in \hc4..\hc6
IsExt(f) == f \in \hc7..\hc9 \cup \hd4..\hd8
IsNumber(f) == f \in \hca..\hd3

\* The bytes of the field behind a format that holds a length or a number.
FieldBytes(f) ==
  CASE f \in {\hc4, \hc7, \hcc, \hd0, \hd9} -> 1
    [] f \in {\hc5, \hc8, \hcd, \hd1, \hda, \hdc, \hde} -> 2
    [] f \in {\hc6, \hc9, \hca, \hce, \hd2, \hdb, \hdd, \hdf} -> 4
    [] f \in {\hcb, \hcf, \hd3} -> 8
    [] OTHER -> 0

\* The length that a format without such a field has in it.
FixExtBytes == <<1, 2, 4, 8, 16>>

FixLength(f) ==
  CASE f \in \hd4..\hd8 -> FixExtBytes[f - Formats.fixext_1 + 1]
    [] IsString(f) -> f % 32
    [] OTHER -> f % 16

\* The double of a four-byte one.
FromFloat32(float) == float \o <<0, 0, 0, 0>>

NumberAt(s, r, f) ==
  CASE f = \hca -> <<"float", FromFloat32(BytesOf(s, r, 4))>>
    [] f = \hcb -> <<"float", BytesOf(s, r, 8)>>
    [] f \in \hcc..\hce -> <<"number", UintAt(s, r, FieldBytes(f))>>
    [] f = \hcf -> <<IF UintIsNumber(s, r) THEN "number" ELSE "bigint", Uint64At(s, r)>>
    [] f \in \hd0..\hd2 -> <<"number", IntAt(s, r, FieldBytes(f))>>
    [] f = \hd3 -> <<IF IntIsNumber(s, r) THEN "number" ELSE "bigint", Int64At(s, r)>>

\* TextDecoder.decode drops a byte order mark.
Decoded(utf8) == IF utf8 # <<>> /\ utf8[1] = Bom THEN Tail(utf8) ELSE utf8

\* deserializeTimestampExtension; a Date has no fractions of a millisecond.
TimestampAt(s, r) ==
  LET date(sec, nsec) ==
        LET ns == sec * MsPerSec * NsPerMs + nsec
        IN  <<"date", IF ns < 0 THEN -((-ns) \div NsPerMs) ELSE ns \div NsPerMs>>
      first == UintAt(s, r, 4)
  IN  CASE Remaining(r) = 4 -> Value(date(first, 0), r)
        [] Remaining(r) = 8 -> Value(date((first % 4) * Word + Low(s, r), first \div 4), r)
        [] Remaining(r) = 12 -> Value(date(Int64At(s, Moved(r, 4)), first), r)
        [] OTHER -> Failed

\* handleExtension.  The handler is the user's: it reads the number of bytes it
\* expects from the reader it is given.
HandleExtension(s, type, r) ==
  CASE type = TimeStamp -> TimestampAt(s, r)
    [] type # TimeStamp /\ type \notin DOMAIN Handled -> Failed
    [] OTHER -> IF HasBytes(r, Handled[type])
                THEN Value(<<"ext", type, BytesOf(s, r, Handled[type])>>, r)
                ELSE Incomplete

\* handleMap: an object's keys are texts; those of small numbers are their digit.
IsKey(v) == v[1] \in {"string", "number", "float"}
KeyName(v) == IF v[1] = "number" THEN <<v[2]>> ELSE v[2]

\* The functions below are given nested: what next() finds at each position.
\* handleArray, and handleMap up to the first key that is none, item by item: what
\* was found before the i-th of them, or the exception, and what is found with it.
ItemBehind(before, i, keys, nested) ==
  LET this == nested[before.reader.pos]
  IN  IF before.kind # "value" THEN before
      ELSE IF this.kind # "value" THEN this
      ELSE IF keys /\ i % 2 = 1 /\ ~IsKey(this.value) THEN Failed
      ELSE Value(Append(before.value, this.value), this.reader)

Items(r, n, keys, nested) ==
  LET from[i \in 0..n] ==
        IF i = 0 THEN Value(<<>>, r) ELSE ItemBehind(from[i - 1], i, keys, nested)
  IN  from[n]

\* The entries of an object: of two with the same name the later.
ObjectOf(items) ==
  LET keys == {i \in 1..Len(items) : i % 2 = 1}
      name(i) == KeyName(items[i])
  IN  [k \in {name(i) : i \in keys} |->
         items[Max({i \in keys : name(i) = k}) + 1]]

\* What follows a format: field is a reader of the field behind it, r one of what
\* comes behind that, of the length that the field or the format tells.
ContentAt(s, f, field, r, length, nested) ==
  LET array == Items(r, length, FALSE, nested)
      object == Items(r, 2 * length, TRUE, nested)
      data == Moved(r, 1)      \* of an extension, behind its type
      ext == HandleExtension(s, IntAt(s, r, 1), SubReader(data, length))
  IN  CASE f < Formats.fixmap -> Value(<<"number", f>>, r)
        [] f >= Formats.negative_fixint ->
             Value(<<"number", (f % 32) + NegativeFix>>, r)
        [] IsMap(f) -> IF object.kind = "value"
                       THEN Value(<<"object", ObjectOf(object.value)>>, object.reader)
                       ELSE object
        [] IsArray(f) -> IF array.kind = "value"
                         THEN Value(<<"array", array.value>>, array.reader)
                         ELSE array
        [] IsNumber(f) -> Value(NumberAt(s, field, f), r)
        [] IsExt(f) -> IF ~HasBytes(data, length) THEN Incomplete
                       ELSE IF ext.kind = "value" THEN Value(ext.value, Moved(data, length))
                       ELSE ext
        [] IsBinary(f) \/ IsString(f) ->
             IF ~HasBytes(r, length) THEN Incomplete
             ELSE Value(IF IsString(f) THEN <<"string", Decoded(BytesOf(s, r, length))>>
                        ELSE <<"bytes", BytesOf(s, r, length)>>, Moved(r, length))
        [] f \in {Formats.boolean_false, Formats.boolean_true} ->
             Value(<<"boolean", f = Formats.boolean_true>>, r)
        [] f \in {Formats.nil, Formats.never_used} -> Value(<<"undefined">>, r)

\* next() of deserialize, at the position of the reader
NextAt(s, reader, nested) ==
  LET f == UintAt(s, reader, 1)
      field == Moved(reader, 1)
      k == FieldBytes(f)
      length == IF k = 0 THEN FixLength(f) ELSE UintAt(s, field, k)
  IN  IF ~HasBytes(reader, 1) \/ ~HasBytes(field, k) THEN Incomplete
      ELSE ContentAt(s, f, field, Moved(field, k), length, nested)

\* Each value takes a byte: they are nested no deeper than there are bytes.
NextValue(s, reader) ==
  LET next[depth \in 0..Remaining(reader)] ==
        [p \in Nat |-> IF depth = 0 THEN Incomplete
                       ELSE NextAt(s, [reader EXCEPT !.pos = p], next[depth - 1])]
  IN  next[Remaining(reader)][reader.pos]

\* An empty buffer is null; the position is restored before an exception leaves.
Deserialize(s, reader) ==
  IF Remaining(reader) = 0 THEN Value(<<"null">>, reader) ELSE NextValue(s, reader)

\* What DeserializerStream finds at the offset p of a chunk s.
DeserializeAt(s, p) ==
  LET found == Deserialize(s, [NewReader(0, Len(s)) EXCEPT !.pos = p])
  IN  IF found.kind = "value"
      THEN [kind |-> "value", value |-> found.value, end |-> found.reader.pos]
      ELSE found
=============================================================================
