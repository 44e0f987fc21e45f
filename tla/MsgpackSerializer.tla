------------------------- MODULE MsgpackSerializer -------------------------
(***************************************************************************)
(* A Serializer of src/msgpack/mod.ts: a buffer to which the values given  *)
(* to add are appended, and which reset empties.                           *)
(***************************************************************************)
EXTENDS Msgpack

CONSTANTS
  PositiveFix, \* positive_fixint_max (127)
  FixString,   \* strings shorter than this have a one-byte header (32)
  FixCount,    \* arrays and maps of fewer entries have one (16)
  Values,      \* the values considered, and what is in them
  Depth,       \* how deep values are nested in each of them, at most
  Args,        \* those given to add
  MaxAdded     \* bound: calls of add between two calls of reset

ASSUME SerializerAssumption ==
  PositiveFix \in 0..127 /\ FixString \in 0..32 /\ FixCount \in 0..16

Octets == Seq(0..(ByteValues - 1))

\* A Date is within 8.64e15 milliseconds, and those are safe integers.
Scalars ==
  {<<"undefined">>, <<"null">>, <<"symbol">>, <<"function">>} \cup ({"boolean"} \X BOOLEAN)
    \cup ({"number", "date"} \X (-MaxSafe..MaxSafe)) \cup ({"bigint"} \X Int)
    \cup ({"float"} \X [1..8 -> 0..(ByteValues - 1)])
    \cup ({"string", "bytes"} \X Octets) \cup ({"ext"} \X Int \X Octets)

\* "the max length of typescript arrays is 2**32-1" (lines 301 and 318)
IsContainer(v) ==
  LET Inner == {w \in Values : Depth[w] < Depth[v]}
  IN  /\ \/ v \in {"array", "set"} \X Seq(Inner)
         \/ v \in {"map", "object"} \X Seq(Inner \X Inner)
         \/ v \in {"typed"} \X Seq(Inner \cap ({"number"} \X Int))
      /\ Len(v[2]) < Word

ASSUME ValuesAssumption ==
  /\ Args \subseteq Values
  /\ Depth \in [Values -> Nat]
  /\ \A v \in Values : v \in Scalars \/ IsContainer(v)

VARIABLES
  bytes,      \* what the writer's buffer holds, up to its position
  added       \* history: the calls of add since reset, and whether each threw

vars == <<bytes, added>>
-----------------------------------------------------------------------------
(* Writing.  What each operation of the Serializer appends.  Formats of    *)
(* one kind follow each other, by the bytes of their fields.               *)

FitsUint(n, f) == n < Power(ByteValues)[FieldBytes(f)]
\* A mutant of FitsInt leaves out the least integer of a width.
FitsIntAbove(n, f) == n > -(Power(ByteValues)[FieldBytes(f)] \div 2)
FitsInt(n, f) == n >= -(Power(ByteValues)[FieldBytes(f)] \div 2)

\* The narrowest of the formats from first on that fits.
UintFormat(num, first) == Min({f \in first..(first + 2) : FitsUint(num, f)} \cup {first + 3})
IntFormat(num, first) == Min({f \in first..(first + 2) : FitsInt(num, f)} \cup {first + 3})

AddInt(num) ==
  LET f == IF num >= 0 THEN UintFormat(num, Formats.uint_8) ELSE IntFormat(num, Formats.int_8)
      k == FieldBytes(f)
  IN  CASE num \in 0..PositiveFix -> <<num>>
        [] num \in NegativeFix..-1 -> <<Formats.negative_fixint + num - NegativeFix>>
        [] OTHER -> <<f>> \o (IF k = 8 THEN Bytes64(num) ELSE UintBytes(num, k))

AddBigInt(num) ==
  IF num \in -MaxSafe..MaxSafe THEN AddInt(num)
  ELSE <<IF num >= 0 THEN Formats.uint_64 ELSE Formats.int_64>> \o Bytes64(num)

\* Rounded to the nearest double of four bytes, with what is lost left out.
ToFloat32(double) == SubSeq(double, 1, 4)

AddFloat(double, asFloat32) ==
  IF asFloat32 THEN <<Formats.float_32>> \o ToFloat32(double)
  ELSE <<Formats.float_64>> \o double

\* A header of a format and a length, of less than 2^32.
Sized(first, n) ==
  LET f == UintFormat(n, first) IN <<f>> \o UintBytes(n, FieldBytes(f))

AddString(utf8) ==
  (IF Len(utf8) < FixString THEN <<Formats.fixstr + Len(utf8)>>
   ELSE Sized(Formats.str_8, Len(utf8))) \o utf8

AddBinary(data) == Sized(Formats.bin_8, Len(data)) \o data

\* A mutant of CountHeader counts one entry too few.
CountHeaderShort(fix, first, n) == <<fix + n - 1>>

\* addArrayHeader and addMapHeader: the largest length of two bytes has a header
\* of four.
CountHeader(fix, first, n) ==
  IF n < FixCount THEN <<fix + n>>
  ELSE IF n < Power(ByteValues)[2] - 1 THEN <<first>> \o UintBytes(n, 2)
  ELSE <<first + 1>> \o UintBytes(n, 4)

AddArrayHeader(n) == CountHeader(Formats.fixarray, Formats.array_16, n)
AddMapHeader(n) == CountHeader(Formats.fixmap, Formats.map_16, n)

AddExt(type, data) ==
  LET fix == {i \in 1..5 : FixExtBytes[i] = Len(data)}
  IN  (IF fix # {} THEN <<Formats.fixext_1 + Min(fix) - 1>>
       ELSE Sized(Formats.ext_8, Len(data)))
        \o UintBytes(type, 1) \o data

\* The seconds of a timestamp have 32, 34 or 64 bits.
AddDate(msec) ==
  LET sec  == msec \div MsPerSec
      nsec == (msec - sec * MsPerSec) * NsPerMs
  IN  AddExt(TimeStamp,
        CASE sec \notin 0..(4 * Word - 1) -> UintBytes(nsec, 4) \o Bytes64(sec)
          [] nsec = 0 /\ sec \in 0..(Word - 1) -> UintBytes(sec, 4)
          [] OTHER -> UintBytes(4 * nsec + ((sec \div Word) % 4), 4) \o UintBytes(sec, 4))

\* The memory of an Int16Array, on a little-endian machine.
TypedBytes(elements) ==
  [i \in 1..(2 * Len(elements)) |->
     UintBytes(elements[(i + 1) \div 2][2], 2)[IF i % 2 = 1 THEN 2 ELSE 1]]

DefaultOptions == [asBinary |-> FALSE, asFloats |-> FALSE]

IsMapping(arg) == arg[1] \in {"map", "object"}
IsList(arg, options) ==
  arg[1] \in {"array", "set"} \/ (arg[1] = "typed" /\ ~options.asBinary)

\* What is in a value, in the order of the loops of add: in a map or an object,
\* each key and its value.
Parts(arg) ==
  IF IsMapping(arg)
  THEN [i \in 1..(2 * Len(arg[2])) |-> arg[2][(i + 1) \div 2][IF i % 2 = 1 THEN 1 ELSE 2]]
  ELSE arg[2]

\* What a call of add writes, and whether it throws.
Wrote(s) == [out |-> s, threw |-> FALSE]
Refused == [out |-> <<>>, threw |-> TRUE]

\* The parts are added one after the other, until one of them throws.
OutputBehind(before, this) ==
  IF before.threw THEN before ELSE [this EXCEPT !.out = before.out \o @]

OutputAll(header, parts, nested) ==
  LET upTo[i \in 0..Len(parts)] ==
        IF i = 0 THEN Wrote(header) ELSE OutputBehind(upTo[i - 1], nested[parts[i]])
  IN  upTo[Len(parts)]

\* add, given what it does for the values in arg.  The throws are those of the
\* lengths that no header has, of the type of an extension that is no int8, and
\* of symbols and functions.
OutputWith(arg, options, nested) ==
  LET type == arg[1]
  IN  CASE type \in {"undefined", "null"} -> Wrote(<<Formats.nil>>)
        [] type = "boolean" -> Wrote(<<IF arg[2] THEN Formats.boolean_true
                                       ELSE Formats.boolean_false>>)
        [] type = "number" -> Wrote(AddInt(arg[2]))
        [] type = "float" -> Wrote(AddFloat(arg[2], options.asFloats))
        [] type = "bigint" -> Wrote(AddBigInt(arg[2]))
        [] type = "string" /\ Len(arg[2]) < Word -> Wrote(AddString(arg[2]))
        [] type = "bytes" /\ Len(arg[2]) < Word -> Wrote(AddBinary(arg[2]))
        [] type = "typed" /\ options.asBinary /\ 2 * Len(arg[2]) < Word ->
             Wrote(AddBinary(TypedBytes(arg[2])))
        [] IsList(arg, options) -> OutputAll(AddArrayHeader(Len(arg[2])), Parts(arg), nested)
        [] IsMapping(arg) -> OutputAll(AddMapHeader(Len(arg[2])), Parts(arg), nested)
        [] type = "date" -> Wrote(AddDate(arg[2]))
        [] type = "ext" /\ FitsInt(arg[2], Formats.int_8) /\ FitsInt(-arg[2] - 1, Formats.int_8)
             /\ Len(arg[3]) < Word -> Wrote(AddExt(arg[2], arg[3]))
        [] OTHER -> Refused

\* A value is written in terms of what is nested in it, with the default options.
Output(arg, options) ==
  LET written[depth \in 0..Depth[arg]] ==
        [a \in Values |-> IF depth = 0 THEN Refused
                          ELSE OutputWith(a, DefaultOptions, written[depth - 1])]
  IN  OutputWith(arg, options, written[Depth[arg]])
-----------------------------------------------------------------------------
(* The buffer.                                                             *)

Init == bytes = <<>> /\ added = <<>>

\* What was written before an exception stays in the buffer.
Add(arg, options) ==
  LET output == Output(arg, options)
  IN  /\ Len(added) < MaxAdded
      /\ bytes' = bytes \o output.out
      /\ added' = Append(added, [arg |-> arg, options |-> options, threw |-> output.threw])

Reset == bytes' = <<>> /\ added' = <<>>

Next ==
  \/ \E arg \in Args, options \in [asBinary : BOOLEAN, asFloats : BOOLEAN] : Add(arg, options)
  \/ Reset

Spec == Init /\ [][Next]_vars
-----------------------------------------------------------------------------
(* What a reader is to find.                                               *)

\* What deserialize has no value for: a map with a key that is neither text nor
\* number, an extension whose handler is missing or reads beyond its data.  A
\* bigint of more than 64 bits loses its high bits.
Unreadable == <<"unreadable">>

\* The value that is read back for an argument of add, given those of its parts.
ImageWith(arg, options, nested) ==
  LET type == arg[1]
      images == [i \in 1..Len(Parts(arg)) |-> nested[Parts(arg)[i]]]
      readable == \A i \in 1..Len(images) : images[i] # Unreadable
      keys == \A i \in 1..Len(images) : i % 2 = 1 => IsKey(images[i])
      half == Power(ByteValues)[8] \div 2
  IN  CASE type \in {"undefined", "null"} -> <<"undefined">>
        [] type \in {"boolean", "number", "bytes", "date"} -> arg
        [] type = "float" ->
             IF options.asFloats THEN <<"float", FromFloat32(ToFloat32(arg[2]))>> ELSE arg
        [] type = "bigint" /\ arg[2] \in (-half)..(2 * half - 1) ->
             <<IF arg[2] \in -MaxSafe..MaxSafe THEN "number" ELSE "bigint", arg[2]>>
        [] type = "string" -> <<"string", Decoded(arg[2])>>
        [] type = "typed" /\ options.asBinary -> <<"bytes", TypedBytes(arg[2])>>
        [] IsList(arg, options) /\ readable -> <<"array", images>>
        [] IsMapping(arg) /\ readable /\ keys -> <<"object", ObjectOf(images)>>
        [] type = "ext" /\ arg[2] # TimeStamp /\ arg[2] \in DOMAIN Handled
             /\ Handled[arg[2]] <= Len(arg[3]) -> <<"ext", arg[2], SubSeq(arg[3], 1, Handled[arg[2]])>>
        [] OTHER -> Unreadable

Image(arg, options) ==
  LET image[depth \in 0..Depth[arg]] ==
        [a \in Values |-> IF depth = 0 THEN Unreadable
                          ELSE ImageWith(a, DefaultOptions, image[depth - 1])]
  IN  ImageWith(arg, options, image[Depth[arg]])

\* A reader of the buffer's content, as the part of a larger buffer.
Surrounded == <<\hc1>> \o bytes \o <<\hc1, 0>>
Reader(len) == NewReader(1, len)

\* n calls of deserialize, up to the first exception.
ReadAll(s, r, n) == Items(r, n, FALSE, [p \in Nat |-> Deserialize(s, [r EXCEPT !.pos = p])])

\* What was added is read back, value by value and with nothing between or left
\* over, whatever the formats chosen and wherever in a buffer it lies (the add
\* functions against deserialize, over every boundary between two formats).
ValuesReadBack ==
  LET images == [i \in 1..Len(added) |-> Image(added[i].arg, added[i].options)]
      r == Reader(Len(bytes))
  IN  (\A i \in 1..Len(added) : ~added[i].threw /\ images[i] # Unreadable) =>
        ReadAll(Surrounded, r, Len(added)) = Value(images, Moved(r, Len(bytes)))

\* A value that is cut off is incomplete at every byte: it is neither read as a
\* shorter value nor refused, which is what DeserializerStream keeps it for.
CutIsIncomplete ==
  Len(added) = 1 /\ ~added[1].threw /\ Image(added[1].arg, added[1].options) # Unreadable =>
    \A n \in 1..(Len(bytes) - 1) : NextValue(Surrounded, Reader(n)) = Incomplete

\* When add throws within an array or a map, what it leaves in the buffer is not
\* taken for a value (the loops of add, with no exception handler around them).
TornIsNoValue ==
  Len(added) = 1 /\ added[1].threw /\ bytes # <<>> =>
    NextValue(Surrounded, Reader(Len(bytes))).kind # "value"

\* "using the smallest format that fits": no other format of an integer that is
\* read as the same number is shorter (addInt, lines 146-188).
SmallestInteger ==
  Len(added) = 1 /\ added[1].arg[1] = "number" =>
    \A f \in {g \in 0..255 : IsNumber(g)} \cup 0..PositiveFix
               \cup Formats.negative_fixint..(Formats.negative_fixint + NegativeFixes - 1),
       n \in 0..(Len(bytes) - 2) :
      LET s == <<f>> \o UintBytes(added[1].arg[2], n)
          outcome == NextValue(s, NewReader(0, n + 1))
      IN  outcome.kind = "value" => outcome.value # added[1].arg
=============================================================================
