----------------------- MODULE MsgpackSerializerProofs -----------------------
(***************************************************************************)
(* deserialize of src/msgpack/mod.ts reads forwards (ForwardReading): what *)
(* it finds depends on the bytes from its position on, and more bytes      *)
(* behind them change no outcome but that of missing data.  And what add   *)
(* of a Serializer writes, deserialize reads.                              *)
(*                                                                         *)
(* The first argument: two readers are compared, of which the second sees  *)
(* the bytes of the first and perhaps more behind them.  What the first    *)
(* finds carries over to the second: for a number, a text or an extension  *)
(* because they ask for the same bytes; for the items of a map or an array *)
(* by induction on their number, when it does for what is nested in them;  *)
(* for values in values by induction on the bytes that remain, as each     *)
(* value takes one.                                                        *)
(*                                                                         *)
(* The second argument: NextValue follows the equation of next()           *)
(* (NextUnfolds), so what each header and each field of the writer is read *)
(* as follows from the arithmetic of its bytes (UintOfBytes, Int64Read,    *)
(* ...).  A call of add is faithful (IsFaithful) when what it wrote is     *)
(* read as the value of its argument or, after an exception, as no value.  *)
(* Scalars are, by their types (ScalarFaithful); an array or a map is when *)
(* what is in it is, by induction on its parts (PartsFound,                *)
(* ContainerFaithful); every value is, by induction on its depth           *)
(* (OutputFaithful).  The buffer holds what the calls since reset wrote,   *)
(* one behind the other (SerializerInv), and is read call by call          *)
(* (AllRead).                                                              *)
(***************************************************************************)
EXTENDS MsgpackSerializer, ForwardReading, DataLemmas
-----------------------------------------------------------------------------
(* Reading forwards.                                                       *)

\* ToUint adds digit to digit.
LEMMA ToUintSteps ==
  ASSUME NEW v \in Seq(Nat)
  PROVE  \E f : /\ ToUint(v) = f[Len(v)]
                /\ f[0] = 0
                /\ \A k \in 1..Len(v) : f[k] = f[k - 1] * ByteValues + v[k]
                /\ \A k \in 0..Len(v) : f[k] \in Nat
<1> DEFINE n    == Len(v)
           D    == 0..n
           init == [k \in D |-> 0]
           prev == [k \in D |-> IF k = 0 THEN 0 ELSE k - 1]
           step == [kx \in D \X Nat |-> IF kx[1] = 0 THEN 0 ELSE kx[2] * ByteValues + v[kx[1]]]
           rank == [k \in D |-> k]
           Eqn(g) == g = [k \in 0..Len(v) |-> IF k = 0 THEN 0 ELSE g[k - 1] * ByteValues + v[k]]
<1>1. n \in Nat /\ ByteValues \in Nat
  BY BuffersAssumption
<1>2. PICK g \in [D -> Nat] : \A k \in D : Follows(g, {0}, init, prev, step, k)
  <2>1. /\ rank \in [D -> Nat] /\ init \in [D -> Nat] /\ prev \in [D -> D]
        /\ \A k \in D : k \notin {0} => rank[prev[k]] < rank[k]
    BY <1>1
  <2>2. step \in [D \X Nat -> Nat]
    <3> SUFFICES ASSUME NEW k \in D, NEW x \in Nat
                 PROVE  (IF k = 0 THEN 0 ELSE x * ByteValues + v[k]) \in Nat
      OBVIOUS
    <3>1. CASE k = 0
      BY <3>1
    <3>2. CASE k # 0
      <4>1. v[k] \in Nat /\ x * ByteValues \in Nat
        BY <1>1, <3>2
      <4> QED BY <3>2, <4>1
    <3> QED BY <3>1, <3>2
  <2> HIDE DEF D, init, prev, step, rank
  <2> QED BY <2>1, <2>2, Recursion, ZenonT(30)
<1>3. \A k \in D : g[k] = IF k = 0 THEN 0 ELSE g[k - 1] * ByteValues + v[k]
  <2> SUFFICES ASSUME NEW k \in D PROVE g[k] = IF k = 0 THEN 0 ELSE g[k - 1] * ByteValues + v[k]
    OBVIOUS
  <2>1. Follows(g, {0}, init, prev, step, k)
    BY <1>2
  <2>2. CASE k = 0
    BY <2>1, <2>2 DEF Follows
  <2>3. CASE k # 0
    <3>1. prev[k] = k - 1 /\ k - 1 \in D /\ g[k] = step[<<k, g[k - 1]>>]
      BY <1>1, <2>1, <2>3 DEF Follows
    <3>2. g[k - 1] \in Nat
      BY <1>2, <3>1
    <3>3. step[<<k, g[k - 1]>>] = g[k - 1] * ByteValues + v[k]
      BY <2>3, <3>2
    <3> QED BY <2>3, <3>1, <3>3
  <2> QED BY <2>2, <2>3
<1>4. Eqn(g)
  BY <1>2, <1>3
<1> DEFINE f == CHOOSE h : Eqn(h)
<1>5. ToUint(v) = f[n]
  BY Zenon DEF ToUint
<1>6. Eqn(f)
  <2> HIDE DEF Eqn
  <2> QED BY <1>4, Zenon
<1>7. \A k \in D : f[k] = IF k = 0 THEN 0 ELSE f[k - 1] * ByteValues + v[k]
  <2> HIDE DEF f
  <2> QED BY <1>6
<1> DEFINE S == {k \in Nat : k <= n => f[k] \in Nat}
<1> HIDE DEF f
<1>8. 0 \in S
  BY <1>1, <1>7
<1>9. ASSUME NEW k \in Nat, k \in S PROVE k + 1 \in S
  <2> SUFFICES ASSUME k + 1 <= n PROVE f[k + 1] \in Nat
    OBVIOUS
  <2>1. f[k] \in Nat /\ v[k + 1] \in Nat /\ f[k + 1] = f[k] * ByteValues + v[k + 1]
    BY <1>1, <1>7, <1>9
  <2>2. f[k] * ByteValues \in Nat
    BY <1>1, <2>1
  <2> QED BY <2>1, <2>2
<1>10. \A k \in D : f[k] \in Nat
  <2>1. \A k \in Nat : k \in S
    <3> HIDE DEF S
    <3> QED BY <1>8, <1>9, NatSteps
  <2> QED BY <1>1, <2>1
<1>11. f[0] = 0 /\ \A k \in 1..Len(v) : f[k] = f[k - 1] * ByteValues + v[k]
  BY <1>1, <1>7
<1> QED BY <1>5, <1>10, <1>11

\* ToUint reads a number.
LEMMA ToUintFacts ==
  ASSUME NEW v \in Seq(Nat)
  PROVE  ToUint(v) \in Nat
<1>1. Len(v) \in 0..Len(v)
  OBVIOUS
<1> QED BY <1>1, ToUintSteps

-----------------------------------------------------------------------------
\* A reader of a buffer.
IsReader(s, r) ==
  /\ s \in Seq(Nat)
  /\ r \in [off : Nat, len : Nat, pos : Nat]
  /\ r.off + r.len <= Len(s)
  /\ r.pos <= r.len

\* The reader q of t sees what the reader r of s sees, and perhaps more behind it.
Sees(s, r, t, q) ==
  /\ IsReader(s, r)
  /\ IsReader(t, q)
  /\ Remaining(r) <= Remaining(q)
  /\ \A i \in 1..Remaining(r) : s[ReadPosition(r) + i] = t[ReadPosition(q) + i]

\* What a reader has left, and what it has left when it has moved on.
LEMMA ReaderFacts ==
  ASSUME NEW s, NEW r, IsReader(s, r)
  PROVE  /\ Remaining(r) \in Nat
         /\ \A k \in Nat : HasBytes(r, k) <=> k <= Remaining(r)
         /\ ReadPosition(r) \in Nat
         /\ ReadPosition(r) + Remaining(r) <= Len(s)
         /\ \A k \in 0..Remaining(r) :
              /\ IsReader(s, Moved(r, k))
              /\ Remaining(Moved(r, k)) = Remaining(r) - k
              /\ ReadPosition(Moved(r, k)) = ReadPosition(r) + k
              /\ Moved(r, k).pos = r.pos + k
              /\ \A j \in Nat : Moved(Moved(r, k), j) = Moved(r, k + j)
<1>1. Remaining(r) \in Nat /\ ReadPosition(r) \in Nat /\ ReadPosition(r) + Remaining(r) <= Len(s)
  BY DEF IsReader, Remaining, ReadPosition
<1>2. ASSUME NEW k \in Nat PROVE HasBytes(r, k) <=> k <= Remaining(r)
  BY DEF IsReader, Remaining, HasBytes
<1>3. ASSUME NEW k \in 0..Remaining(r)
      PROVE  /\ IsReader(s, Moved(r, k))
             /\ Remaining(Moved(r, k)) = Remaining(r) - k
             /\ ReadPosition(Moved(r, k)) = ReadPosition(r) + k
             /\ Moved(r, k).pos = r.pos + k
             /\ \A j \in Nat : Moved(Moved(r, k), j) = Moved(r, k + j)
  <2>1. /\ r.off \in Nat /\ r.len \in Nat /\ r.pos \in Nat /\ r.pos + k <= r.len
        /\ s \in Seq(Nat) /\ r.off + r.len <= Len(s)
    BY <1>1, <1>3 DEF IsReader, Remaining
  <2>2. ASSUME NEW j \in Nat
        PROVE  Moved(r, j) = [off |-> r.off, len |-> r.len, pos |-> r.pos + j]
    BY SMTT(30) DEF IsReader, Moved
  <2>3. Moved(r, k) = [off |-> r.off, len |-> r.len, pos |-> r.pos + k]
    BY <2>2
  <2>4. Moved(r, k) \in [off : Nat, len : Nat, pos : Nat]
    BY <2>1, <2>3
  <2>5. IsReader(s, Moved(r, k))
    BY <2>1, <2>3, <2>4 DEF IsReader
  <2>6. ASSUME NEW j \in Nat PROVE Moved(Moved(r, k), j) = Moved(r, k + j)
    <3>1. Moved(Moved(r, k), j) = [off |-> r.off, len |-> r.len, pos |-> (r.pos + k) + j]
      <4>1. Moved(Moved(r, k), j)
              = [[off |-> r.off, len |-> r.len, pos |-> r.pos + k] EXCEPT !.pos = @ + j]
        BY <2>3, Zenon DEF Moved
      <4> QED BY <4>1, SMTT(30)
    <3>2. k + j \in Nat /\ (r.pos + k) + j = r.pos + (k + j)
      BY <2>1
    <3> QED BY <2>2, <3>1, <3>2
  <2> QED BY <2>1, <2>3, <2>5, <2>6 DEF Remaining, ReadPosition
<1> QED BY <1>1, <1>2, <1>3

\* What the first has, the second has.
LEMMA SeesFacts ==
  ASSUME NEW s, NEW r, NEW t, NEW q, Sees(s, r, t, q)
  PROVE  /\ IsReader(s, r) /\ IsReader(t, q)
         /\ Remaining(r) \in Nat /\ Remaining(q) \in Nat /\ Remaining(r) <= Remaining(q)
<1>1. IsReader(s, r) /\ IsReader(t, q) /\ Remaining(r) <= Remaining(q)
  BY DEF Sees
<1> QED BY <1>1, ReaderFacts

\* A number of bytes the first has, the second has.
LEMMA BothHave ==
  ASSUME NEW s, NEW r, NEW t, NEW q, Sees(s, r, t, q), NEW k \in Nat, HasBytes(r, k)
  PROVE  k \in 0..Remaining(r) /\ k \in 0..Remaining(q) /\ HasBytes(q, k)
<1>1. IsReader(s, r) /\ IsReader(t, q) /\ Remaining(r) <= Remaining(q)
  BY DEF Sees
<1> QED BY <1>1 DEF IsReader, Remaining, HasBytes

\* Moving on twice.
LEMMA MovedTwice ==
  ASSUME NEW s, NEW r, IsReader(s, r), NEW k \in 0..Remaining(r), NEW j \in Nat
  PROVE  Moved(Moved(r, k), j) = Moved(r, k + j)
BY ReaderFacts

\* Readers that move on by the same number of bytes still see the same.
LEMMA SeesOn ==
  ASSUME NEW s, NEW r, NEW t, NEW q, Sees(s, r, t, q), NEW k \in 0..Remaining(r)
  PROVE  Sees(s, Moved(r, k), t, Moved(q, k)) /\ k \in 0..Remaining(q)
<1>1. /\ IsReader(s, r) /\ IsReader(t, q) /\ Remaining(r) \in Nat /\ Remaining(q) \in Nat
      /\ Remaining(r) <= Remaining(q) /\ k \in 0..Remaining(q)
      /\ ReadPosition(r) \in Nat /\ ReadPosition(q) \in Nat
  BY ReaderFacts DEF Sees
<1>2. /\ IsReader(s, Moved(r, k)) /\ Remaining(Moved(r, k)) = Remaining(r) - k
      /\ ReadPosition(Moved(r, k)) = ReadPosition(r) + k
  BY <1>1, ReaderFacts
<1>3. /\ IsReader(t, Moved(q, k)) /\ Remaining(Moved(q, k)) = Remaining(q) - k
      /\ ReadPosition(Moved(q, k)) = ReadPosition(q) + k
  BY <1>1, ReaderFacts
<1>4. ASSUME NEW i \in 1..Remaining(Moved(r, k))
      PROVE  s[ReadPosition(Moved(r, k)) + i] = t[ReadPosition(Moved(q, k)) + i]
  <2>1. k + i \in 1..Remaining(r)
    BY <1>1, <1>2
  <2>2. s[ReadPosition(r) + (k + i)] = t[ReadPosition(q) + (k + i)]
    BY <2>1 DEF Sees
  <2>3. /\ ReadPosition(Moved(r, k)) + i = ReadPosition(r) + (k + i)
        /\ ReadPosition(Moved(q, k)) + i = ReadPosition(q) + (k + i)
    BY <1>1, <1>2, <1>3
  <2> QED BY <2>2, <2>3
<1> QED BY <1>1, <1>2, <1>3, <1>4 DEF Sees

\* They read the same bytes.
LEMMA SameBytes ==
  ASSUME NEW s, NEW r, NEW t, NEW q, Sees(s, r, t, q), NEW k \in 0..Remaining(r)
  PROVE  BytesOf(s, r, k) = BytesOf(t, q, k) /\ BytesOf(s, r, k) \in Seq(Nat)
<1> DEFINE a == ReadPosition(r)
           b == ReadPosition(q)
           u == SubSeq(s, a + 1, a + k)
           v == SubSeq(t, b + 1, b + k)
<1>1. /\ s \in Seq(Nat) /\ t \in Seq(Nat) /\ a \in Nat /\ b \in Nat
      /\ a + k \in a..Len(s) /\ b + k \in b..Len(t) /\ (a + k) - a = k /\ (b + k) - b = k
  <2>1. IsReader(s, r) /\ IsReader(t, q) /\ Remaining(r) <= Remaining(q)
    BY DEF Sees
  <2>2. /\ s \in Seq(Nat) /\ t \in Seq(Nat) /\ a \in Nat /\ b \in Nat
        /\ Remaining(r) \in Nat /\ Remaining(q) \in Nat
        /\ a + Remaining(r) <= Len(s) /\ b + Remaining(q) <= Len(t)
    BY <2>1, ReaderFacts DEF IsReader
  <2> QED BY <2>1, <2>2
<1>2. \A i \in 1..k : s[a + i] = t[b + i]
  <2>1. Remaining(r) \in Nat
    BY ReaderFacts DEF Sees
  <2> QED BY <2>1 DEF Sees
<1> HIDE DEF a, b
<1>3. u \in Seq(Nat) /\ Len(u) = k /\ \A i \in 1..k : u[i] = s[a + i]
  BY <1>1, PartFacts
<1>4. v \in Seq(Nat) /\ Len(v) = k /\ \A i \in 1..k : v[i] = t[b + i]
  BY <1>1, PartFacts
<1> HIDE DEF u, v
<1>5. u = v
  BY <1>2, <1>3, <1>4, SeqEqual
<1> QED BY <1>3, <1>5 DEF BytesOf, u, v, a, b

\* The same integers.
LEMMA SameIntegers ==
  ASSUME NEW s, NEW r, NEW t, NEW q, Sees(s, r, t, q)
  PROVE  /\ \A k \in 0..Remaining(r) :
              /\ UintAt(s, r, k) = UintAt(t, q, k)
              /\ UintAt(s, r, k) \in Nat
              /\ IntAt(s, r, k) = IntAt(t, q, k)
         /\ 8 <= Remaining(r) => Low(s, r) = Low(t, q)
<1>1. ASSUME NEW k \in 0..Remaining(r)
      PROVE  /\ UintAt(s, r, k) = UintAt(t, q, k)
             /\ UintAt(s, r, k) \in Nat
             /\ IntAt(s, r, k) = IntAt(t, q, k)
  <2>1. BytesOf(s, r, k) = BytesOf(t, q, k) /\ BytesOf(s, r, k) \in Seq(Nat)
    BY SameBytes
  <2>2. ToUint(BytesOf(s, r, k)) \in Nat
    BY <2>1, ToUintFacts
  <2> QED BY <2>1, <2>2, Zenon DEF UintAt, IntAt
<1>2. ASSUME 8 <= Remaining(r) PROVE Low(s, r) = Low(t, q)
  <2>1. IsReader(s, r) /\ Remaining(r) \in Nat
    BY ReaderFacts DEF Sees
  <2>2. 4 \in 0..Remaining(r) /\ Remaining(Moved(r, 4)) = Remaining(r) - 4
    <3>1. 4 \in 0..Remaining(r)
      BY <1>2, <2>1
    <3> QED BY <2>1, <3>1, ReaderFacts
  <2>3. 4 \in 0..Remaining(Moved(r, 4)) /\ Sees(s, Moved(r, 4), t, Moved(q, 4))
    BY <1>2, <2>1, <2>2, SeesOn
  <2>4. BytesOf(s, Moved(r, 4), 4) = BytesOf(t, Moved(q, 4), 4)
    BY <2>3, SameBytes
  <2> QED BY <2>4, Zenon DEF Low
<1> QED BY <1>1, <1>2

\* The same numbers behind a format.
LEMMA SameNumber ==
  ASSUME NEW s, NEW r, NEW t, NEW q, Sees(s, r, t, q), NEW f \in Nat, IsNumber(f),
         FieldBytes(f) \in 0..Remaining(r)
  PROVE  NumberAt(s, r, f) = NumberAt(t, q, f)
<1> DEFINE k == FieldBytes(f)
<1>1. f \in {202, 203, 204, 205, 206, 207, 208, 209, 210, 211}
  BY DEF IsNumber
<1>2. /\ f = 202 => k = 4
      /\ f = 203 => k = 8
      /\ f = 207 => k = 8
      /\ f = 211 => k = 8
  BY DEF FieldBytes
<1>3. /\ UintAt(s, r, k) = UintAt(t, q, k)
      /\ IntAt(s, r, k) = IntAt(t, q, k)
      /\ BytesOf(s, r, k) = BytesOf(t, q, k)
  BY SameIntegers, SameBytes
<1>4. ASSUME 8 <= Remaining(r)
      PROVE  /\ Low(s, r) = Low(t, q)
             /\ UintAt(s, r, 4) = UintAt(t, q, 4)
             /\ IntAt(s, r, 4) = IntAt(t, q, 4)
  <2>1. Remaining(r) \in Nat
    BY ReaderFacts DEF Sees
  <2>2. 4 \in 0..Remaining(r)
    BY <1>4, <2>1
  <2> QED BY <1>4, <2>2, SameIntegers
<1>5. CASE f = 202
  BY <1>2, <1>3, <1>5 DEF NumberAt
<1>6. CASE f = 203
  BY <1>2, <1>3, <1>6 DEF NumberAt
<1>7. CASE f \in {204, 205, 206}
  <2>1. NumberAt(s, r, f) = <<"number", UintAt(s, r, k)>>
    BY <1>7 DEF NumberAt
  <2>2. NumberAt(t, q, f) = <<"number", UintAt(t, q, k)>>
    BY <1>7 DEF NumberAt
  <2> QED BY <1>3, <2>1, <2>2
<1>8. CASE f = 207
  <2>1. 8 <= Remaining(r)
    BY <1>2, <1>8
  <2>2. Uint64At(s, r) = Uint64At(t, q)
    BY <1>4, <2>1, Zenon DEF Uint64At
  <2>3. UintIsNumber(s, r) <=> UintIsNumber(t, q)
    BY <1>4, <2>1, Zenon DEF UintIsNumber
  <2>4. CASE UintIsNumber(s, r)
    <3>1. NumberAt(s, r, f) = <<"number", Uint64At(s, r)>>
      BY <1>8, <2>4 DEF NumberAt
    <3>2. NumberAt(t, q, f) = <<"number", Uint64At(t, q)>>
      BY <1>8, <2>3, <2>4 DEF NumberAt
    <3> QED BY <2>2, <3>1, <3>2
  <2>5. CASE ~UintIsNumber(s, r)
    <3>1. NumberAt(s, r, f) = <<"bigint", Uint64At(s, r)>>
      BY <1>8, <2>5 DEF NumberAt
    <3>2. NumberAt(t, q, f) = <<"bigint", Uint64At(t, q)>>
      BY <1>8, <2>3, <2>5 DEF NumberAt
    <3> QED BY <2>2, <3>1, <3>2
  <2> QED BY <2>4, <2>5
<1>9. CASE f \in {208, 209, 210}
  <2>1. NumberAt(s, r, f) = <<"number", IntAt(s, r, k)>>
    BY <1>9 DEF NumberAt
  <2>2. NumberAt(t, q, f) = <<"number", IntAt(t, q, k)>>
    BY <1>9 DEF NumberAt
  <2> QED BY <1>3, <2>1, <2>2
<1>10. CASE f = 211
  <2>1. 8 <= Remaining(r)
    BY <1>2, <1>10
  <2>2. Int64At(s, r) = Int64At(t, q)
    BY <1>4, <2>1, Zenon DEF Int64At
  <2>3. IntIsNumber(s, r) <=> IntIsNumber(t, q)
    BY <1>4, <2>1 DEF IntIsNumber
  <2>4. CASE IntIsNumber(s, r)
    <3>1. NumberAt(s, r, f) = <<"number", Int64At(s, r)>>
      BY <1>10, <2>4 DEF NumberAt
    <3>2. NumberAt(t, q, f) = <<"number", Int64At(t, q)>>
      BY <1>10, <2>3, <2>4 DEF NumberAt
    <3> QED BY <2>2, <3>1, <3>2
  <2>5. CASE ~IntIsNumber(s, r)
    <3>1. NumberAt(s, r, f) = <<"bigint", Int64At(s, r)>>
      BY <1>10, <2>5 DEF NumberAt
    <3>2. NumberAt(t, q, f) = <<"bigint", Int64At(t, q)>>
      BY <1>10, <2>3, <2>5 DEF NumberAt
    <3> QED BY <2>2, <3>1, <3>2
  <2> QED BY <2>4, <2>5
<1> QED BY <1>1, <1>5, <1>6, <1>7, <1>8, <1>9, <1>10

-----------------------------------------------------------------------------
\* A value or one of the two kinds of exception.
IsOutcome(o) ==
  \/ o.kind = "value"
  \/ o = Incomplete
  \/ o = Failed

\* The outcome of a handler does not depend on where its reader is.
LEMMA SameExtension ==
  ASSUME NEW s, NEW r, NEW t, NEW q, Sees(s, r, t, q), Remaining(q) = Remaining(r), NEW type
  PROVE  /\ IsOutcome(HandleExtension(s, type, r))
         /\ HandleExtension(s, type, r).kind = HandleExtension(t, type, q).kind
         /\ HandleExtension(s, type, r).kind = "value" =>
              HandleExtension(s, type, r).value = HandleExtension(t, type, q).value
         /\ HandleExtension(s, type, r).kind # "value" =>
              HandleExtension(s, type, r) = HandleExtension(t, type, q)
<1> DEFINE Same(o, p) == /\ IsOutcome(o)
                         /\ o.kind = p.kind
                         /\ o.kind = "value" => o.value = p.value
                         /\ o.kind # "value" => o = p
           n == Remaining(r)
<1>1. n \in Nat /\ IsReader(s, r) /\ IsReader(t, q)
  BY ReaderFacts DEF Sees
<1>2. /\ Same(Failed, Failed) /\ Same(Incomplete, Incomplete)
      /\ \A v : Same(Value(v, r), Value(v, q))
  BY DEF IsOutcome, Failed, Incomplete, Value
<1>3. Same(TimestampAt(s, r), TimestampAt(t, q))
  <2> DEFINE date(sec, nsec) ==
               LET ns == sec * MsPerSec * NsPerMs + nsec
               IN  <<"date", IF ns < 0 THEN -((-ns) \div NsPerMs) ELSE ns \div NsPerMs>>
             first == UintAt(s, r, 4)
  <2>1. ASSUME 4 <= n PROVE first = UintAt(t, q, 4)
    <3>1. 4 \in 0..n
      BY <1>1, <2>1
    <3> QED BY <3>1, SameIntegers
  <2>2. CASE n = 4
    <3>1. TimestampAt(s, r) = Value(date(first, 0), r)
      BY <2>2 DEF TimestampAt
    <3>2. TimestampAt(t, q) = Value(date(first, 0), q)
      BY <2>1, <2>2 DEF TimestampAt
    <3> HIDE DEF Same, date
    <3> QED BY <1>2, <3>1, <3>2, Zenon
  <2>3. CASE n = 8
    <3> DEFINE v == date((first % 4) * Word + Low(s, r), first \div 4)
    <3>1. TimestampAt(s, r) = Value(v, r)
      BY <2>3 DEF TimestampAt
    <3>2. Low(s, r) = Low(t, q)
      BY <2>3, SameIntegers
    <3>3. TimestampAt(t, q) = Value(v, q)
      BY <2>1, <2>3, <3>2 DEF TimestampAt
    <3> HIDE DEF Same, v
    <3> QED BY <1>2, <3>1, <3>3, Zenon
  <2>4. CASE n = 12
    <3> DEFINE sec == Int64At(s, Moved(r, 4))
               v == date(sec, first)
    <3>1. TimestampAt(s, r) = Value(v, r)
      BY <2>4 DEF TimestampAt
    <3>2. sec = Int64At(t, Moved(q, 4))
      <4>1. 4 \in 0..n
        BY <1>1, <2>4
      <4>2. Sees(s, Moved(r, 4), t, Moved(q, 4)) /\ Remaining(Moved(r, 4)) = n - 4
        BY <1>1, <4>1, SeesOn, ReaderFacts
      <4>3. 4 \in 0..Remaining(Moved(r, 4)) /\ 8 <= Remaining(Moved(r, 4))
        BY <2>4, <4>2
      <4>4. /\ IntAt(s, Moved(r, 4), 4) = IntAt(t, Moved(q, 4), 4)
            /\ Low(s, Moved(r, 4)) = Low(t, Moved(q, 4))
        BY <4>2, <4>3, SameIntegers
      <4> QED BY <4>4, Zenon DEF Int64At
    <3>3. TimestampAt(t, q) = Value(v, q)
      BY <2>1, <2>4, <3>2 DEF TimestampAt
    <3> HIDE DEF Same, v
    <3> QED BY <1>2, <3>1, <3>3, Zenon
  <2>5. CASE n \notin {4, 8, 12}
    <3>1. TimestampAt(s, r) = Failed /\ TimestampAt(t, q) = Failed
      BY <2>5 DEF TimestampAt
    <3> HIDE DEF Same
    <3> QED BY <1>2, <3>1, Zenon
  <2> HIDE DEF Same, date, n
  <2> QED BY <2>2, <2>3, <2>4, <2>5
<1>4. Same(HandleExtension(s, type, r), HandleExtension(t, type, q))
  <2>1. CASE type = TimeStamp
    <3>1. HandleExtension(s, type, r) = TimestampAt(s, r)
      BY <2>1 DEF HandleExtension
    <3>2. HandleExtension(t, type, q) = TimestampAt(t, q)
      BY <2>1 DEF HandleExtension
    <3> HIDE DEF Same
    <3> QED BY <1>3, <3>1, <3>2, Zenon
  <2>2. CASE type # TimeStamp /\ type \notin DOMAIN Handled
    <3>1. HandleExtension(s, type, r) = Failed /\ HandleExtension(t, type, q) = Failed
      BY <2>2 DEF HandleExtension
    <3> HIDE DEF Same
    <3> QED BY <1>2, <3>1, Zenon
  <2>3. CASE type # TimeStamp /\ type \in DOMAIN Handled
    <3> DEFINE k == Handled[type]
               v == <<"ext", type, BytesOf(s, r, k)>>
    <3>1. k \in Nat
      BY <2>3, MsgpackAssumption
    <3>2. HasBytes(r, k) <=> k <= n
      BY <1>1, <3>1, ReaderFacts
    <3>3. HasBytes(q, k) <=> k <= n
      BY <1>1, <3>1, ReaderFacts
    <3>4. CASE k <= n
      <4>1. BytesOf(s, r, k) = BytesOf(t, q, k)
        <5>1. k \in 0..n
          BY <1>1, <3>1, <3>4
        <5> QED BY <5>1, SameBytes
      <4>2. HandleExtension(s, type, r) = Value(v, r)
        BY <2>3, <3>2, <3>4 DEF HandleExtension
      <4>3. HandleExtension(t, type, q) = Value(v, q)
        BY <2>3, <3>3, <3>4, <4>1 DEF HandleExtension
      <4> HIDE DEF Same, v
      <4> QED BY <1>2, <4>2, <4>3, Zenon
    <3>5. CASE ~(k <= n)
      <4>1. HandleExtension(s, type, r) = Incomplete
        BY <2>3, <3>2, <3>5 DEF HandleExtension
      <4>2. HandleExtension(t, type, q) = Incomplete
        BY <2>3, <3>3, <3>5 DEF HandleExtension
      <4> HIDE DEF Same
      <4> QED BY <1>2, <4>1, <4>2, Zenon
    <3> QED BY <3>4, <3>5
  <2> QED BY <2>1, <2>2, <2>3
<1> QED BY <1>4

-----------------------------------------------------------------------------
\* What is found with r, with at least least bytes, carries over to q.  Only
\* missing data may become something else, when q sees more.
Carries(o, r, p, q, least) ==
  \/ o = Incomplete /\ Remaining(r) < Remaining(q)
  \/ o \in {Incomplete, Failed} /\ p = o
  \/ \E d \in least..Remaining(r) : \E v :
       o = Value(v, Moved(r, d)) /\ p = Value(v, Moved(q, d))

\* What nested values are found with r carries over to q, at each place.
NestedCarry(a, r, b, q) ==
  \A d \in 0..Remaining(r) :
    Carries(a[r.pos + d], Moved(r, d), b[q.pos + d], Moved(q, d), 0)

\* The three kinds of outcome.
LEMMA Kinds ==
  /\ Incomplete.kind = "incomplete" /\ Failed.kind = "error"
  /\ \A v, r : /\ Value(v, r).kind = "value"
               /\ Value(v, r).value = v
               /\ Value(v, r).reader = r
BY DEF Incomplete, Failed, Value

\* What carries over behind k bytes does so from before them.
LEMMA CarriesBack ==
  ASSUME NEW s, NEW r, NEW t, NEW q, Sees(s, r, t, q), NEW k \in 0..Remaining(r),
         NEW least \in 0..k, NEW o, NEW p, Carries(o, Moved(r, k), p, Moved(q, k), 0)
  PROVE  Carries(o, r, p, q, least)
<1>1. /\ IsReader(s, r) /\ IsReader(t, q) /\ Remaining(r) \in Nat /\ Remaining(q) \in Nat
      /\ k \in 0..Remaining(q)
  BY SeesOn, ReaderFacts DEF Sees
<1>2. /\ Remaining(Moved(r, k)) = Remaining(r) - k
      /\ Remaining(Moved(q, k)) = Remaining(q) - k
      /\ \A j \in Nat : Moved(Moved(r, k), j) = Moved(r, k + j)
      /\ \A j \in Nat : Moved(Moved(q, k), j) = Moved(q, k + j)
  <2>1. /\ Remaining(Moved(r, k)) = Remaining(r) - k
        /\ \A j \in Nat : Moved(Moved(r, k), j) = Moved(r, k + j)
    BY <1>1, ReaderFacts
  <2>2. /\ Remaining(Moved(q, k)) = Remaining(q) - k
        /\ \A j \in Nat : Moved(Moved(q, k), j) = Moved(q, k + j)
    BY <1>1, ReaderFacts
  <2> QED BY <2>1, <2>2
<1>3. CASE o = Incomplete /\ Remaining(Moved(r, k)) < Remaining(Moved(q, k))
  <2>1. Remaining(r) < Remaining(q)
    BY <1>1, <1>2, <1>3
  <2> QED BY <1>3, <2>1 DEF Carries
<1>4. CASE o \in {Incomplete, Failed} /\ p = o
  BY <1>4 DEF Carries
<1>5. ASSUME NEW d \in 0..Remaining(Moved(r, k)), NEW v,
             o = Value(v, Moved(Moved(r, k), d)), p = Value(v, Moved(Moved(q, k), d))
      PROVE  Carries(o, r, p, q, least)
  <2>1. k + d \in least..Remaining(r) /\ d \in Nat
    BY <1>1, <1>2
  <2>2. o = Value(v, Moved(r, k + d)) /\ p = Value(v, Moved(q, k + d))
    BY <1>2, <1>5, <2>1
  <2> QED BY <2>1, <2>2, Zenon DEF Carries
<1> QED BY <1>3, <1>4, <1>5, Zenon DEF Carries

\* A missing byte carries over as missing data, or as what more bytes make of it.
LEMMA Missing ==
  ASSUME NEW s, NEW r, NEW t, NEW q, Sees(s, r, t, q), NEW k \in Nat, ~HasBytes(r, k),
         NEW p, HasBytes(q, k) \/ p = Incomplete, NEW least
  PROVE  Carries(Incomplete, r, p, q, least)
<1>1. /\ Remaining(r) \in Nat /\ Remaining(q) \in Nat
      /\ HasBytes(r, k) <=> k <= Remaining(r)
      /\ HasBytes(q, k) <=> k <= Remaining(q)
  BY ReaderFacts DEF Sees
<1>2. CASE p = Incomplete
  BY <1>2 DEF Carries
<1>3. CASE HasBytes(q, k)
  BY <1>1, <1>3 DEF Carries
<1> QED BY <1>2, <1>3

\* One more item of a map or an array.
LEMMA SameItem ==
  ASSUME NEW s, NEW r, NEW t, NEW q, Sees(s, r, t, q), NEW a, NEW b, NestedCarry(a, r, b, q),
         NEW x, NEW y, Carries(x, r, y, q, 0), NEW i, NEW keys
  PROVE  Carries(ItemBehind(x, i, keys, a), r, ItemBehind(y, i, keys, b), q, 0)
<1> DEFINE xx == ItemBehind(x, i, keys, a)
           yy == ItemBehind(y, i, keys, b)
<1>1. /\ IsReader(s, r) /\ IsReader(t, q) /\ Remaining(r) \in Nat /\ Remaining(q) \in Nat
      /\ Remaining(r) <= Remaining(q)
  BY ReaderFacts DEF Sees
<1>2. CASE x = Incomplete /\ Remaining(r) < Remaining(q)
  <2>1. xx = Incomplete
    BY <1>2, Kinds DEF ItemBehind
  <2> QED BY <1>2, <2>1, Zenon DEF Carries
<1>3. CASE x \in {Incomplete, Failed} /\ y = x
  <2>1. xx = x /\ yy = x
    BY <1>3, Kinds DEF ItemBehind
  <2> QED BY <1>3, <2>1, Zenon DEF Carries
<1>4. ASSUME NEW d \in 0..Remaining(r), NEW v, x = Value(v, Moved(r, d)), y = Value(v, Moved(q, d))
      PROVE  Carries(xx, r, yy, q, 0)
  <2> DEFINE m == Moved(r, d)
             n == Moved(q, d)
             this == a[r.pos + d]
             that == b[q.pos + d]
             bad(w) == keys /\ i % 2 = 1 /\ ~IsKey(w)
  <2>1. Sees(s, m, t, n) /\ d \in 0..Remaining(q) /\ Carries(this, m, that, n, 0)
    BY <1>4, SeesOn DEF NestedCarry
  <2>2. m.pos = r.pos + d /\ n.pos = q.pos + d
    BY <1>1, <2>1, ReaderFacts
  <2>3. /\ x.kind = "value" /\ x.value = v /\ x.reader.pos = r.pos + d
        /\ y.kind = "value" /\ y.value = v /\ y.reader.pos = q.pos + d
    BY <1>4, <2>2, Kinds
  <2>4. /\ xx = IF this.kind # "value" THEN this
                ELSE IF bad(this.value) THEN Failed
                ELSE Value(Append(v, this.value), this.reader)
        /\ yy = IF that.kind # "value" THEN that
                ELSE IF bad(that.value) THEN Failed
                ELSE Value(Append(v, that.value), that.reader)
    <3> HIDE DEF m, n
    <3> QED BY <2>3, Zenon DEF ItemBehind
  <2>5. Carries(xx, m, yy, n, 0)
    <3> HIDE DEF m, n, this, that, xx, yy
    <3>1. CASE this = Incomplete /\ Remaining(m) < Remaining(n)
      <4>1. xx = Incomplete
        BY <2>4, <3>1, Kinds
      <4> QED BY <3>1, <4>1, Zenon DEF Carries
    <3>2. CASE this \in {Incomplete, Failed} /\ that = this
      <4>1. xx = this /\ yy = this
        BY <2>4, <3>2, Kinds
      <4> QED BY <3>2, <4>1, Zenon DEF Carries
    <3>3. ASSUME NEW e \in 0..Remaining(m), NEW w,
                 this = Value(w, Moved(m, e)), that = Value(w, Moved(n, e))
          PROVE  Carries(xx, m, yy, n, 0)
      <4>1. /\ this.kind = "value" /\ this.value = w /\ this.reader = Moved(m, e)
            /\ that.kind = "value" /\ that.value = w /\ that.reader = Moved(n, e)
        BY <3>3, Kinds
      <4>2. CASE bad(w)
        <5>1. xx = Failed /\ yy = Failed
          BY <2>4, <4>1, <4>2, Zenon
        <5> QED BY <5>1, Zenon DEF Carries
      <4>3. CASE ~bad(w)
        <5>1. xx = Value(Append(v, w), Moved(m, e)) /\ yy = Value(Append(v, w), Moved(n, e))
          BY <2>4, <4>1, <4>3, Zenon
        <5> QED BY <5>1, Zenon DEF Carries
      <4> QED BY <4>2, <4>3
    <3> QED BY <2>1, <3>1, <3>2, <3>3, Zenon DEF Carries
  <2> HIDE DEF xx, yy
  <2>6. 0 \in 0..d
    OBVIOUS
  <2> QED BY <2>5, <2>6, CarriesBack
<1>5. \/ x = Incomplete /\ Remaining(r) < Remaining(q)
      \/ x \in {Incomplete, Failed} /\ y = x
      \/ \E d \in 0..Remaining(r) : \E v :
           x = Value(v, Moved(r, d)) /\ y = Value(v, Moved(q, d))
  BY Zenon DEF Carries
<1> QED BY <1>2, <1>3, <1>4, <1>5, Zenon

\* Items goes from item to item.
LEMMA ItemsSteps ==
  ASSUME NEW r, NEW n \in Nat, NEW keys, NEW nested
  PROVE  \E f : /\ Items(r, n, keys, nested) = f[n]
               /\ f[0] = Value(<<>>, r)
               /\ \A i \in 1..n : f[i] = ItemBehind(f[i - 1], i, keys, nested)
<1> DEFINE Eqn(g, m) == g = [i \in 0..m |-> IF i = 0 THEN Value(<<>>, r)
                                           ELSE ItemBehind(g[i - 1], i, keys, nested)]
           S == {m \in Nat : \E g : Eqn(g, m)}
           f == CHOOSE g : Eqn(g, n)
<1>1. 0 \in S
  <2>1. Eqn([i \in 0..0 |-> Value(<<>>, r)], 0)
    OBVIOUS
  <2> QED BY <2>1
<1>2. ASSUME NEW m \in Nat, m \in S PROVE m + 1 \in S
  <2>1. PICK g : Eqn(g, m)
    BY <1>2
  <2> DEFINE h == [i \in 0..(m + 1) |-> IF i = 0 THEN Value(<<>>, r)
                                       ELSE ItemBehind(g[i - 1], i, keys, nested)]
  <2>2. ASSUME NEW i \in 0..m PROVE h[i] = g[i]
    <3>1. g[i] = IF i = 0 THEN Value(<<>>, r) ELSE ItemBehind(g[i - 1], i, keys, nested)
      BY <2>1, Zenon
    <3> QED BY <3>1
  <2>3. ASSUME NEW i \in 0..(m + 1), i # 0 PROVE h[i - 1] = g[i - 1]
    BY <2>2, <2>3
  <2>4. Eqn(h, m + 1)
    <3> DEFINE hh == [i \in 0..(m + 1) |-> IF i = 0 THEN Value(<<>>, r)
                                       ELSE ItemBehind(h[i - 1], i, keys, nested)]
    <3>1. ASSUME NEW i \in 0..(m + 1) PROVE h[i] = hh[i]
      <4> HIDE DEF h
      <4>1. CASE i = 0
        BY <4>1 DEF h
      <4>2. CASE i # 0
        <5>1. h[i] = ItemBehind(g[i - 1], i, keys, nested)
          BY <4>2 DEF h
        <5> QED BY <2>3, <4>2, <5>1
      <4> QED BY <4>1, <4>2
    <3> QED BY <3>1
  <2>5. \E g2 : Eqn(g2, m + 1)
    <3> HIDE DEF Eqn, h
    <3> QED BY <2>4
  <2> HIDE DEF Eqn
  <2> QED BY <2>5
<1>3. n \in S
  <2> HIDE DEF S
  <2> QED BY <1>1, <1>2, NatSteps
<1>4. Items(r, n, keys, nested) = f[n]
  BY Zenon DEF Items
<1>5. Eqn(f, n)
  <2>1. \E g : Eqn(g, n)
    BY <1>3
  <2> HIDE DEF Eqn
  <2> QED BY <2>1, Zenon
<1> HIDE DEF f
<1>6. \A i \in 0..n : f[i] = IF i = 0 THEN Value(<<>>, r) ELSE ItemBehind(f[i - 1], i, keys, nested)
  BY <1>5, Zenon
<1> QED BY <1>4, <1>6

\* The items of a map or an array.
LEMMA SameItems ==
  ASSUME NEW s, NEW r, NEW t, NEW q, Sees(s, r, t, q), NEW a, NEW b, NestedCarry(a, r, b, q),
         NEW n \in Nat, NEW keys
  PROVE  Carries(Items(r, n, keys, a), r, Items(q, n, keys, b), q, 0)
<1>1. PICK f : /\ Items(r, n, keys, a) = f[n]
               /\ f[0] = Value(<<>>, r)
               /\ \A i \in 1..n : f[i] = ItemBehind(f[i - 1], i, keys, a)
  BY ItemsSteps
<1>2. PICK g : /\ Items(q, n, keys, b) = g[n]
               /\ g[0] = Value(<<>>, q)
               /\ \A i \in 1..n : g[i] = ItemBehind(g[i - 1], i, keys, b)
  BY ItemsSteps
<1> DEFINE S == {i \in Nat : i <= n => Carries(f[i], r, g[i], q, 0)}
<1>3. 0 \in S
  <2>1. IsReader(s, r) /\ IsReader(t, q) /\ Remaining(r) \in Nat
    BY ReaderFacts DEF Sees
  <2>2. 0 \in 0..Remaining(r) /\ Moved(r, 0) = r /\ Moved(q, 0) = q
    BY <2>1 DEF IsReader, Moved
  <2>3. Carries(f[0], r, g[0], q, 0)
    BY <1>1, <1>2, <2>2, Zenon DEF Carries
  <2> QED BY <2>3
<1>4. ASSUME NEW i \in Nat, i \in S PROVE i + 1 \in S
  <2> SUFFICES ASSUME i + 1 <= n PROVE Carries(f[i + 1], r, g[i + 1], q, 0)
    OBVIOUS
  <2>1. /\ Carries(f[i], r, g[i], q, 0)
        /\ f[i + 1] = ItemBehind(f[i], i + 1, keys, a)
        /\ g[i + 1] = ItemBehind(g[i], i + 1, keys, b)
    BY <1>1, <1>2, <1>4
  <2>2. Carries(ItemBehind(f[i], i + 1, keys, a), r, ItemBehind(g[i], i + 1, keys, b), q, 0)
    BY <2>1, SameItem
  <2> QED BY <2>1, <2>2
<1>5. n \in S
  <2> HIDE DEF S
  <2> QED BY <1>3, <1>4, NatSteps
<1> QED BY <1>1, <1>2, <1>5

-----------------------------------------------------------------------------
\* What follows a format.
LEMMA SameContent ==
  ASSUME NEW s, NEW r, NEW t, NEW q, Sees(s, r, t, q), NEW f \in Nat,
         NEW field, NEW other, IsNumber(f) => NumberAt(s, field, f) = NumberAt(t, other, f),
         NEW length \in Nat, NEW a, NEW b, NestedCarry(a, r, b, q)
  PROVE  Carries(ContentAt(s, f, field, r, length, a), r,
                 ContentAt(t, f, other, q, length, b), q, 0)
<1> DEFINE o == ContentAt(s, f, field, r, length, a)
           p == ContentAt(t, f, other, q, length, b)
<1> SUFFICES Carries(o, r, p, q, 0)
  OBVIOUS
<1> HIDE DEF o, p
<1>1. Sees(s, r, t, q)
  OBVIOUS
<1>2. /\ IsReader(s, r) /\ IsReader(t, q) /\ Remaining(r) \in Nat /\ Remaining(q) \in Nat
      /\ Remaining(r) <= Remaining(q)
  BY SeesFacts
<1>3. ASSUME NEW v PROVE Carries(Value(v, r), r, Value(v, q), q, 0)
  <2>1. 0 \in 0..Remaining(r) /\ Moved(r, 0) = r /\ Moved(q, 0) = q
    BY <1>2 DEF IsReader, Moved
  <2> QED BY <2>1, Zenon DEF Carries
<1>4. ASSUME NEW v, NEW k \in 0..Remaining(r)
      PROVE  Carries(Value(v, Moved(r, k)), r, Value(v, Moved(q, k)), q, 0)
  BY Zenon DEF Carries
<1>5. CASE f < 128
  <2>0. /\ f < Formats.fixmap /\ ~(f >= Formats.negative_fixint)
        /\ ~IsMap(f) /\ ~IsArray(f) /\ ~IsNumber(f) /\ ~IsExt(f)
        /\ ~IsBinary(f) /\ ~IsString(f)
        /\ f \notin {Formats.boolean_false, Formats.boolean_true}
        /\ f \notin {Formats.nil, Formats.never_used}
    BY <1>5 DEF Formats, IsMap, IsArray, IsString, IsBinary, IsExt, IsNumber
  <2>1. o = Value(<<"number", f>>, r)
    BY <2>0 DEF o, ContentAt
  <2>2. p = Value(<<"number", f>>, q)
    BY <2>0 DEF p, ContentAt
  <2> QED BY <1>3, <2>1, <2>2, Zenon
<1>6. CASE f >= 224
  <2>0. /\ ~(f < Formats.fixmap) /\ f >= Formats.negative_fixint
        /\ ~IsMap(f) /\ ~IsArray(f) /\ ~IsNumber(f) /\ ~IsExt(f)
        /\ ~IsBinary(f) /\ ~IsString(f)
        /\ f \notin {Formats.boolean_false, Formats.boolean_true}
        /\ f \notin {Formats.nil, Formats.never_used}
    BY <1>6 DEF Formats, IsMap, IsArray, IsString, IsBinary, IsExt, IsNumber
  <2> DEFINE v == (f % 32) + NegativeFix
  <2>1. o = Value(<<"number", v>>, r)
    BY <2>0 DEF o, ContentAt
  <2>2. p = Value(<<"number", v>>, q)
    BY <2>0 DEF p, ContentAt
  <2> QED BY <1>3, <2>1, <2>2, Zenon
<1>7. CASE IsNumber(f)
  <2>0. /\ ~(f < Formats.fixmap) /\ ~(f >= Formats.negative_fixint)
        /\ ~IsMap(f) /\ ~IsArray(f) /\ IsNumber(f) /\ ~IsExt(f)
        /\ ~IsBinary(f) /\ ~IsString(f)
        /\ f \notin {Formats.boolean_false, Formats.boolean_true}
        /\ f \notin {Formats.nil, Formats.never_used}
    BY <1>7 DEF Formats, IsMap, IsArray, IsString, IsBinary, IsExt, IsNumber
  <2> DEFINE v == NumberAt(s, field, f)
  <2>1. o = Value(v, r)
    BY <2>0 DEF o, ContentAt
  <2>2. p = Value(NumberAt(t, other, f), q)
    BY <2>0 DEF p, ContentAt
  <2>3. v = NumberAt(t, other, f)
    BY <1>7
  <2> QED BY <1>3, <2>1, <2>2, <2>3, Zenon
<1>8. CASE IsMap(f)
  <2>0. /\ ~(f < Formats.fixmap) /\ ~(f >= Formats.negative_fixint)
        /\ IsMap(f) /\ ~IsArray(f) /\ ~IsNumber(f) /\ ~IsExt(f)
        /\ ~IsBinary(f) /\ ~IsString(f)
        /\ f \notin {Formats.boolean_false, Formats.boolean_true}
        /\ f \notin {Formats.nil, Formats.never_used}
    BY <1>8 DEF Formats, IsMap, IsArray, IsString, IsBinary, IsExt, IsNumber
  <2> DEFINE x == Items(r, 2 * length, TRUE, a)
             y == Items(q, 2 * length, TRUE, b)
  <2>1. o = IF x.kind = "value" THEN Value(<<"object", ObjectOf(x.value)>>, x.reader) ELSE x
    BY <2>0 DEF o, ContentAt
  <2>2. p = IF y.kind = "value" THEN Value(<<"object", ObjectOf(y.value)>>, y.reader) ELSE y
    BY <2>0 DEF p, ContentAt
  <2>3. Carries(x, r, y, q, 0)
    <3> DEFINE n == 2 * length
    <3>1. n \in Nat
      OBVIOUS
    <3> HIDE DEF n
    <3>2. Carries(Items(r, n, TRUE, a), r, Items(q, n, TRUE, b), q, 0)
      BY <1>1, <3>1, SameItems
    <3> QED BY <3>2 DEF n
  <2> HIDE DEF x, y
  <2>4. CASE x = Incomplete /\ Remaining(r) < Remaining(q)
    BY <2>1, <2>4, Kinds DEF Carries
  <2>5. CASE x \in {Incomplete, Failed} /\ y = x
    BY <2>1, <2>2, <2>5, Kinds DEF Carries
  <2>6. ASSUME NEW d \in 0..Remaining(r), NEW v, x = Value(v, Moved(r, d)), y = Value(v, Moved(q, d))
        PROVE  Carries(o, r, p, q, 0)
    <3>1. o = Value(<<"object", ObjectOf(v)>>, Moved(r, d))
      BY <2>1, <2>6, Kinds
    <3>2. p = Value(<<"object", ObjectOf(v)>>, Moved(q, d))
      BY <2>2, <2>6, Kinds
    <3> QED BY <1>4, <3>1, <3>2, Zenon
  <2> QED BY <2>3, <2>4, <2>5, <2>6, Zenon DEF Carries
<1>9. CASE IsArray(f)
  <2>0. /\ ~(f < Formats.fixmap) /\ ~(f >= Formats.negative_fixint)
        /\ ~IsMap(f) /\ IsArray(f) /\ ~IsNumber(f) /\ ~IsExt(f)
        /\ ~IsBinary(f) /\ ~IsString(f)
        /\ f \notin {Formats.boolean_false, Formats.boolean_true}
        /\ f \notin {Formats.nil, Formats.never_used}
    BY <1>9 DEF Formats, IsMap, IsArray, IsString, IsBinary, IsExt, IsNumber
  <2> DEFINE x == Items(r, length, FALSE, a)
             y == Items(q, length, FALSE, b)
  <2>1. o = IF x.kind = "value" THEN Value(<<"array", x.value>>, x.reader) ELSE x
    BY <2>0 DEF o, ContentAt
  <2>2. p = IF y.kind = "value" THEN Value(<<"array", y.value>>, y.reader) ELSE y
    BY <2>0 DEF p, ContentAt
  <2>3. Carries(x, r, y, q, 0)
    BY <1>1, SameItems
  <2> HIDE DEF x, y
  <2>4. CASE x = Incomplete /\ Remaining(r) < Remaining(q)
    BY <2>1, <2>4, Kinds DEF Carries
  <2>5. CASE x \in {Incomplete, Failed} /\ y = x
    BY <2>1, <2>2, <2>5, Kinds DEF Carries
  <2>6. ASSUME NEW d \in 0..Remaining(r), NEW v, x = Value(v, Moved(r, d)), y = Value(v, Moved(q, d))
        PROVE  Carries(o, r, p, q, 0)
    <3>1. o = Value(<<"array", v>>, Moved(r, d))
      BY <2>1, <2>6, Kinds
    <3>2. p = Value(<<"array", v>>, Moved(q, d))
      BY <2>2, <2>6, Kinds
    <3> QED BY <1>4, <3>1, <3>2, Zenon
  <2> QED BY <2>3, <2>4, <2>5, <2>6, Zenon DEF Carries
<1>10. CASE IsExt(f)
  <2>0. /\ ~(f < Formats.fixmap) /\ ~(f >= Formats.negative_fixint)
        /\ ~IsMap(f) /\ ~IsArray(f) /\ ~IsNumber(f) /\ IsExt(f)
        /\ ~IsBinary(f) /\ ~IsString(f)
        /\ f \notin {Formats.boolean_false, Formats.boolean_true}
        /\ f \notin {Formats.nil, Formats.never_used}
    BY <1>10 DEF Formats, IsMap, IsArray, IsString, IsBinary, IsExt, IsNumber
  <2> DEFINE rd == Moved(r, 1)
             qd == Moved(q, 1)
             x == HandleExtension(s, IntAt(s, r, 1), SubReader(rd, length))
             y == HandleExtension(t, IntAt(t, q, 1), SubReader(qd, length))
  <2>1. o = IF ~HasBytes(rd, length) THEN Incomplete
            ELSE IF x.kind = "value" THEN Value(x.value, Moved(rd, length)) ELSE x
    BY <2>0 DEF o, ContentAt
  <2>2. p = IF ~HasBytes(qd, length) THEN Incomplete
            ELSE IF y.kind = "value" THEN Value(y.value, Moved(qd, length)) ELSE y
    BY <2>0 DEF p, ContentAt
  <2> DEFINE k == length + 1
  <2>3. /\ HasBytes(rd, length) <=> HasBytes(r, k)
        /\ HasBytes(qd, length) <=> HasBytes(q, k)
    BY <1>2, SMTT(30) DEF HasBytes, Moved, IsReader
  <2>4. CASE HasBytes(r, k)
    <3>1. 1 \in 0..Remaining(r) /\ k \in 0..Remaining(r) /\ HasBytes(q, k)
      <4>1. k \in Nat
        OBVIOUS
      <4> HIDE DEF k
      <4>2. k \in 0..Remaining(r) /\ HasBytes(q, k)
        BY <1>1, <2>4, <4>1, BothHave
      <4> QED BY <1>2, <4>2 DEF k
    <3>2. /\ Sees(s, rd, t, qd) /\ IsReader(s, rd) /\ IsReader(t, qd)
          /\ Remaining(rd) \in Nat /\ Remaining(qd) \in Nat
      <4>1. Sees(s, rd, t, qd)
        BY <1>1, <3>1, SeesOn
      <4> HIDE DEF rd, qd
      <4>2. IsReader(s, rd) /\ IsReader(t, qd)
        BY <4>1 DEF Sees
      <4> QED BY <4>1, <4>2, ReaderFacts
    <3>3. length <= Remaining(rd) /\ length <= Remaining(qd)
      BY <2>3, <2>4, <3>1, <3>2, ReaderFacts
    <3>4. /\ Sees(s, SubReader(rd, length), t, SubReader(qd, length))
          /\ Remaining(SubReader(qd, length)) = Remaining(SubReader(rd, length))
      <4>1. Remaining(SubReader(rd, length)) = length /\ Remaining(SubReader(qd, length)) = length
        BY DEF SubReader, NewReader, Remaining
      <4>2. /\ ReadPosition(rd) \in Nat /\ ReadPosition(rd) + Remaining(rd) <= Len(s)
            /\ ReadPosition(qd) \in Nat /\ ReadPosition(qd) + Remaining(qd) <= Len(t)
        BY <3>2, ReaderFacts
      <4>3. /\ ReadPosition(SubReader(rd, length)) = ReadPosition(rd)
            /\ ReadPosition(SubReader(qd, length)) = ReadPosition(qd)
        BY <4>2 DEF SubReader, NewReader, ReadPosition
      <4>4. IsReader(s, SubReader(rd, length)) /\ IsReader(t, SubReader(qd, length))
        <5> HIDE DEF rd, qd
        <5>1. IsReader(s, SubReader(rd, length))
          <6>1. s \in Seq(Nat) /\ ReadPosition(rd) + length <= Len(s)
            BY <3>2, <3>3, <4>2, SMTT(30) DEF IsReader
          <6> QED BY <4>2, <6>1, SMTT(90) DEF IsReader, SubReader, NewReader
        <5>2. IsReader(t, SubReader(qd, length))
          <6>1. t \in Seq(Nat) /\ ReadPosition(qd) + length <= Len(t)
            BY <3>2, <3>3, <4>2, SMTT(30) DEF IsReader
          <6> QED BY <4>2, <6>1, SMTT(90) DEF IsReader, SubReader, NewReader
        <5> QED BY <5>1, <5>2
      <4> HIDE DEF rd, qd
      <4> QED BY <3>2, <3>3, <4>1, <4>3, <4>4 DEF Sees
    <3>5. IntAt(s, r, 1) = IntAt(t, q, 1)
      BY <1>1, <3>1, SameIntegers
    <3>6. /\ IsOutcome(x)
          /\ x.kind = y.kind
          /\ x.kind = "value" => x.value = y.value
          /\ x.kind # "value" => x = y
      BY <3>4, <3>5, SameExtension
    <3>7. Moved(rd, length) = Moved(r, k) /\ Moved(qd, length) = Moved(q, k)
      <4>1. 1 \in 0..Remaining(q) /\ 1 + length = k
        BY <1>2, <3>1
      <4>2. Moved(rd, length) = Moved(r, 1 + length)
        BY <1>2, <3>1, MovedTwice
      <4>3. Moved(qd, length) = Moved(q, 1 + length)
        BY <1>2, <4>1, MovedTwice
      <4> QED BY <4>1, <4>2, <4>3
    <3> HIDE DEF x, y
    <3>8. CASE x.kind = "value"
      <4>1. o = Value(x.value, Moved(r, k)) /\ p = Value(x.value, Moved(q, k))
        BY <2>1, <2>2, <2>3, <2>4, <3>1, <3>6, <3>7, <3>8, Zenon
      <4> QED BY <1>4, <3>1, <4>1, Zenon
    <3>9. CASE x.kind # "value"
      <4>1. o = x /\ p = x
        BY <2>1, <2>2, <2>3, <2>4, <3>1, <3>6, <3>9, Zenon
      <4>2. x \in {Incomplete, Failed}
        BY <3>6, <3>9 DEF IsOutcome
      <4> QED BY <4>1, <4>2, Zenon DEF Carries
    <3> QED BY <3>8, <3>9
  <2>5. CASE ~HasBytes(r, k)
    <3>1. o = Incomplete /\ (HasBytes(q, k) \/ p = Incomplete)
      BY <2>1, <2>2, <2>3, <2>5, Zenon
    <3>2. Carries(Incomplete, r, p, q, 0)
      BY <1>1, <2>5, <3>1, Missing
    <3> QED BY <3>1, <3>2
  <2> QED BY <2>4, <2>5
<1>11. CASE IsBinary(f)
  <2>0. /\ ~(f < Formats.fixmap) /\ ~(f >= Formats.negative_fixint)
        /\ ~IsMap(f) /\ ~IsArray(f) /\ ~IsNumber(f) /\ ~IsExt(f)
        /\ IsBinary(f) /\ ~IsString(f)
        /\ f \notin {Formats.boolean_false, Formats.boolean_true}
        /\ f \notin {Formats.nil, Formats.never_used}
    BY <1>11 DEF Formats, IsMap, IsArray, IsString, IsBinary, IsExt, IsNumber
  <2>1. o = IF ~HasBytes(r, length) THEN Incomplete
            ELSE Value(<<"bytes", BytesOf(s, r, length)>>, Moved(r, length))
    BY <2>0 DEF o, ContentAt
  <2>2. p = IF ~HasBytes(q, length) THEN Incomplete
            ELSE Value(<<"bytes", BytesOf(t, q, length)>>, Moved(q, length))
    BY <2>0 DEF p, ContentAt
  <2>3. CASE HasBytes(r, length)
    <3>1. length \in 0..Remaining(r) /\ HasBytes(q, length)
      BY <1>1, <2>3, BothHave
    <3>2. BytesOf(s, r, length) = BytesOf(t, q, length)
      BY <1>1, <3>1, SameBytes
    <3> DEFINE v == <<"bytes", BytesOf(s, r, length)>>
    <3>3. o = Value(v, Moved(r, length))
      BY <2>1, <2>3, Zenon
    <3>4. p = Value(v, Moved(q, length))
      BY <2>2, <3>1, <3>2, Zenon
    <3> HIDE DEF v
    <3> QED BY <1>4, <3>1, <3>3, <3>4, Zenon
  <2>4. CASE ~HasBytes(r, length)
    <3>1. o = Incomplete /\ (HasBytes(q, length) \/ p = Incomplete)
      BY <2>1, <2>2, <2>4, Zenon
    <3>2. Carries(Incomplete, r, p, q, 0)
      BY <1>1, <2>4, <3>1, Missing
    <3> QED BY <3>1, <3>2
  <2> QED BY <2>3, <2>4
<1>12. CASE IsString(f)
  <2>0. /\ ~(f < Formats.fixmap) /\ ~(f >= Formats.negative_fixint)
        /\ ~IsMap(f) /\ ~IsArray(f) /\ ~IsNumber(f) /\ ~IsExt(f)
        /\ ~IsBinary(f) /\ IsString(f)
        /\ f \notin {Formats.boolean_false, Formats.boolean_true}
        /\ f \notin {Formats.nil, Formats.never_used}
    BY <1>12 DEF Formats, IsMap, IsArray, IsString, IsBinary, IsExt, IsNumber
  <2>1. o = IF ~HasBytes(r, length) THEN Incomplete
            ELSE Value(<<"string", Decoded(BytesOf(s, r, length))>>, Moved(r, length))
    BY <2>0 DEF o, ContentAt
  <2>2. p = IF ~HasBytes(q, length) THEN Incomplete
            ELSE Value(<<"string", Decoded(BytesOf(t, q, length))>>, Moved(q, length))
    BY <2>0 DEF p, ContentAt
  <2>3. CASE HasBytes(r, length)
    <3>1. length \in 0..Remaining(r) /\ HasBytes(q, length)
      BY <1>1, <2>3, BothHave
    <3>2. BytesOf(s, r, length) = BytesOf(t, q, length)
      BY <1>1, <3>1, SameBytes
    <3> DEFINE v == <<"string", Decoded(BytesOf(s, r, length))>>
    <3>3. o = Value(v, Moved(r, length))
      BY <2>1, <2>3, Zenon
    <3>4. p = Value(v, Moved(q, length))
      BY <2>2, <3>1, <3>2, Zenon
    <3> HIDE DEF v
    <3> QED BY <1>4, <3>1, <3>3, <3>4, Zenon
  <2>4. CASE ~HasBytes(r, length)
    <3>1. o = Incomplete /\ (HasBytes(q, length) \/ p = Incomplete)
      BY <2>1, <2>2, <2>4, Zenon
    <3>2. Carries(Incomplete, r, p, q, 0)
      BY <1>1, <2>4, <3>1, Missing
    <3> QED BY <3>1, <3>2
  <2> QED BY <2>3, <2>4
<1>13. CASE f \in {192, 193}
  <2>0. /\ ~(f < Formats.fixmap) /\ ~(f >= Formats.negative_fixint)
        /\ ~IsMap(f) /\ ~IsArray(f) /\ ~IsNumber(f) /\ ~IsExt(f)
        /\ ~IsBinary(f) /\ ~IsString(f)
        /\ f \notin {Formats.boolean_false, Formats.boolean_true}
        /\ f \in {Formats.nil, Formats.never_used}
    BY <1>13 DEF Formats, IsMap, IsArray, IsString, IsBinary, IsExt, IsNumber
  <2>1. o = Value(<<"undefined">>, r) /\ p = Value(<<"undefined">>, q)
    BY <2>0 DEF o, p, ContentAt
  <2> QED BY <1>3, <2>1, Zenon
<1>14. CASE f \in {194, 195}
  <2>0. /\ ~(f < Formats.fixmap) /\ ~(f >= Formats.negative_fixint)
        /\ ~IsMap(f) /\ ~IsArray(f) /\ ~IsNumber(f) /\ ~IsExt(f)
        /\ ~IsBinary(f) /\ ~IsString(f)
        /\ f \in {Formats.boolean_false, Formats.boolean_true}
        /\ f \notin {Formats.nil, Formats.never_used}
    BY <1>14 DEF Formats, IsMap, IsArray, IsString, IsBinary, IsExt, IsNumber
  <2> DEFINE v == <<"boolean", f = Formats.boolean_true>>
  <2>1. o = Value(v, r)
    BY <2>0 DEF o, ContentAt
  <2>2. p = Value(v, q)
    BY <2>0 DEF p, ContentAt
  <2> HIDE DEF v
  <2> QED BY <1>3, <2>1, <2>2, Zenon
<1> QED BY <1>5, <1>6, <1>7, <1>8, <1>9, <1>10, <1>11, <1>12, <1>13, <1>14
      DEF IsMap, IsArray, IsString, IsBinary, IsExt, IsNumber

\* The length of a fixed format.
LEMMA FixLengthFacts ==
  ASSUME NEW f \in Nat
  PROVE  FixLength(f) \in Nat /\ FieldBytes(f) \in Nat
<1>1. f % 32 \in Nat /\ f % 16 \in Nat
  OBVIOUS
<1>2. FixLength(f) \in Nat
  <2>1. CASE f \in 212..216
    <3>1. FixLength(f) = FixExtBytes[f - 212 + 1]
      BY <2>1 DEF FixLength, Formats, IsString
    <3>2. f - 212 + 1 \in 1..5 /\ \A i \in 1..5 : FixExtBytes[i] \in Nat
      BY <2>1 DEF FixExtBytes
    <3> QED BY <3>1, <3>2
  <2>2. CASE f \notin 212..216 /\ IsString(f)
    BY <1>1, <2>2 DEF FixLength
  <2>3. CASE f \notin 212..216 /\ ~IsString(f)
    BY <1>1, <2>3 DEF FixLength
  <2> QED BY <2>1, <2>2, <2>3
<1>3. FieldBytes(f) \in Nat
  BY DEF FieldBytes
<1> QED BY <1>2, <1>3

\* A value with what is nested in it: at least one byte.
LEMMA SameNext ==
  ASSUME NEW s, NEW r, NEW t, NEW q, Sees(s, r, t, q), NEW a, NEW b,
         \A d \in 1..Remaining(r) :
           Carries(a[r.pos + d], Moved(r, d), b[q.pos + d], Moved(q, d), 0)
  PROVE  Carries(NextAt(s, r, a), r, NextAt(t, q, b), q, 1)
<1> DEFINE o == NextAt(s, r, a)
           p == NextAt(t, q, b)
           f == UintAt(s, r, 1)
           field == Moved(r, 1)
           other == Moved(q, 1)
           k == FieldBytes(f)
           length == IF k = 0 THEN FixLength(f) ELSE UintAt(s, field, k)
<1> SUFFICES Carries(o, r, p, q, 1)
  OBVIOUS
<1>1. /\ IsReader(s, r) /\ IsReader(t, q) /\ Remaining(r) \in Nat /\ Remaining(q) \in Nat
      /\ Remaining(r) <= Remaining(q)
  BY SeesFacts
<1>2. CASE ~HasBytes(r, 1)
  <2>1. o = Incomplete
    BY <1>2 DEF NextAt
  <2>2. HasBytes(q, 1) \/ p = Incomplete
    BY DEF NextAt
  <2> HIDE DEF o, p
  <2> QED BY <1>2, <2>1, <2>2, Missing
<1>3. CASE HasBytes(r, 1)
  <2>1. 1 \in 0..Remaining(r) /\ 1 \in 0..Remaining(q) /\ HasBytes(q, 1)
    BY <1>3, BothHave
  <2>2. UintAt(t, q, 1) = f /\ f \in Nat
    BY <2>1, SameIntegers
  <2>3. k \in Nat /\ FixLength(f) \in Nat
    BY <2>2, FixLengthFacts
  <2>4. Sees(s, field, t, other) /\ IsReader(s, field) /\ IsReader(t, other)
    BY <2>1, SeesOn DEF Sees
  <2>5. CASE ~HasBytes(field, k)
    <3>1. o = Incomplete
      BY <2>5 DEF NextAt
    <3>2. HasBytes(other, k) \/ p = Incomplete
      BY <2>2 DEF NextAt
    <3> HIDE DEF o, p, field, other, k, f
    <3>3. Carries(Incomplete, field, p, other, 0)
      BY <2>3, <2>4, <2>5, <3>2, Missing
    <3>4. Carries(Incomplete, r, p, q, 1)
      BY <2>1, <3>3, CarriesBack DEF field, other
    <3> QED BY <3>1, <3>4
  <2>6. CASE HasBytes(field, k)
    <3> DEFINE m == Moved(field, k)
               n == Moved(other, k)
    <3>1. /\ k \in 0..Remaining(field) /\ k \in 0..Remaining(other) /\ HasBytes(other, k)
      <4> HIDE DEF field, other, k
      <4> QED BY <2>3, <2>4, <2>6, BothHave
    <3>2. UintAt(t, other, k) = UintAt(s, field, k) /\ UintAt(s, field, k) \in Nat
      BY <2>4, <3>1, SameIntegers
    <3>3. length \in Nat
      BY <2>3, <3>2
    <3>4. o = ContentAt(s, f, field, m, length, a)
      BY <1>3, <2>6 DEF NextAt
    <3>5. p = ContentAt(t, f, other, n, length, b)
      BY <2>1, <2>2, <3>1, <3>2 DEF NextAt
    <3>6. NestedCarry(a, m, b, n)
      <4>1. /\ m = Moved(r, 1 + k) /\ 1 + k \in 1..Remaining(r)
            /\ n = Moved(q, 1 + k) /\ 1 + k \in 1..Remaining(q)
        <5> HIDE DEF k
        <5>1. Remaining(field) = Remaining(r) - 1 /\ Remaining(other) = Remaining(q) - 1
          BY <1>1, <2>1, ReaderFacts
        <5>2. m = Moved(r, 1 + k)
          BY <1>1, <2>1, <2>3, MovedTwice
        <5>3. n = Moved(q, 1 + k)
          BY <1>1, <2>1, <2>3, MovedTwice
        <5> HIDE DEF m, n, field, other
        <5> QED BY <1>1, <2>1, <2>3, <3>1, <5>1, <5>2, <5>3
      <4> DEFINE c == 1 + k
      <4>2. /\ c \in 1..Remaining(r) /\ c \in 0..Remaining(r) /\ c \in 0..Remaining(q)
            /\ m = Moved(r, c) /\ n = Moved(q, c)
        <5> HIDE DEF k, m, n
        <5> QED BY <1>1, <4>1
      <4> HIDE DEF c, m, n, k
      <4>3. Remaining(m) = Remaining(r) - c /\ m.pos = r.pos + c
        BY <1>1, <4>2, ReaderFacts
      <4>4. n.pos = q.pos + c
        BY <1>1, <4>2, ReaderFacts
      <4>5. ASSUME NEW d \in 0..Remaining(m)
            PROVE  Carries(a[m.pos + d], Moved(m, d), b[n.pos + d], Moved(n, d), 0)
        <5>1. c + d \in 1..Remaining(r) /\ d \in Nat
          BY <1>1, <4>2, <4>3
        <5>2. Moved(m, d) = Moved(r, c + d)
          BY <1>1, <4>2, <5>1, MovedTwice
        <5>3. Moved(n, d) = Moved(q, c + d)
          BY <1>1, <4>2, <5>1, MovedTwice
        <5>4. m.pos + d = r.pos + (c + d) /\ n.pos + d = q.pos + (c + d)
          BY <1>1, <4>2, <4>3, <4>4, <5>1, SMTT(30) DEF IsReader
        <5>5. Carries(a[r.pos + (c + d)], Moved(r, c + d), b[q.pos + (c + d)], Moved(q, c + d), 0)
          BY <5>1
        <5> QED BY <5>2, <5>3, <5>4, <5>5, Zenon
      <4> QED BY <4>5, Zenon DEF NestedCarry
    <3> HIDE DEF o, p, m, n, field, other, f, k, length
    <3>7. Carries(o, m, p, n, 0)
      <4>1. Sees(s, m, t, n)
        BY <2>4, <3>1, SeesOn DEF m, n
      <4>2. IsNumber(f) => NumberAt(s, field, f) = NumberAt(t, other, f)
        BY <2>2, <2>4, <3>1, SameNumber DEF k
      <4>3. Carries(ContentAt(s, f, field, m, length, a), m,
                    ContentAt(t, f, other, n, length, b), n, 0)
        BY <2>2, <3>3, <3>6, <4>1, <4>2, SameContent
      <4> QED BY <3>4, <3>5, <4>3, Zenon
    <3>8. Carries(o, field, p, other, 0)
      BY <2>4, <3>1, <3>7, CarriesBack DEF m, n
    <3> QED BY <2>1, <3>8, CarriesBack DEF field, other
  <2> QED BY <2>5, <2>6
<1> QED BY <1>2, <1>3

-----------------------------------------------------------------------------
\* What next() finds at each place, from depth to depth.
ByDepth(s, r, f) ==
  \A depth \in 0..Remaining(r), p \in Nat :
    f[depth][p] = IF depth = 0 THEN Incomplete
                  ELSE NextAt(s, [r EXCEPT !.pos = p], f[depth - 1])

\* NextValue goes from depth to depth.
LEMMA NextSteps ==
  ASSUME NEW s, NEW r, IsReader(s, r)
  PROVE  \E f : NextValue(s, r) = f[Remaining(r)][r.pos] /\ ByDepth(s, r, f)
<1> DEFINE n == Remaining(r)
           Level(g, depth) == [p \in Nat |-> IF depth = 0 THEN Incomplete
                                            ELSE NextAt(s, [r EXCEPT !.pos = p], g[depth - 1])]
           Eqn(g, m) == g = [depth \in 0..m |-> Level(g, depth)]
           S == {m \in Nat : \E g : Eqn(g, m)}
           f == CHOOSE g : Eqn(g, n)
<1>1. 0 \in S
  <2> DEFINE g == [depth \in 0..0 |-> [p \in Nat |-> Incomplete]]
  <2>1. Eqn(g, 0)
    OBVIOUS
  <2> QED BY <2>1
<1>2. ASSUME NEW m \in Nat, m \in S PROVE m + 1 \in S
  <2>1. PICK g : Eqn(g, m)
    BY <1>2
  <2> DEFINE h == [depth \in 0..(m + 1) |-> Level(g, depth)]
  <2>2. ASSUME NEW depth \in 0..m PROVE h[depth] = g[depth]
    <3> HIDE DEF Level
    <3>1. g[depth] = Level(g, depth)
      BY <2>1, Zenon
    <3> QED BY <3>1
  <2>3. ASSUME NEW depth \in 0..(m + 1) PROVE Level(h, depth) = Level(g, depth)
    <3>1. depth = 0 \/ depth - 1 \in 0..m
      OBVIOUS
    <3>2. depth = 0 \/ h[depth - 1] = g[depth - 1]
      BY <2>2, <3>1
    <3> HIDE DEF h
    <3> QED BY <3>2
  <2>4. h = [depth \in 0..(m + 1) |-> Level(h, depth)]
    <3> HIDE DEF Level
    <3>1. \A depth \in 0..(m + 1) : h[depth] = Level(h, depth)
      BY <2>3
    <3> QED BY <3>1
  <2>5. \E g2 : Eqn(g2, m + 1)
    <3> HIDE DEF h, Level
    <3> QED BY <2>4
  <2> HIDE DEF Eqn
  <2> QED BY <2>5
<1>3. n \in Nat
  BY ReaderFacts
<1>4. n \in S
  <2> HIDE DEF S, n
  <2> QED BY <1>1, <1>2, <1>3, NatSteps
<1>5. NextValue(s, r) = f[n][r.pos]
  BY Zenon DEF NextValue
<1>6. Eqn(f, n)
  <2>1. \E g : Eqn(g, n)
    BY <1>4
  <2> HIDE DEF Eqn
  <2> QED BY <2>1, Zenon
<1> HIDE DEF f
<1>7. ASSUME NEW depth \in 0..n PROVE f[depth] = Level(f, depth)
  <2> HIDE DEF Level
  <2> QED BY <1>6, Zenon
<1>8. ASSUME NEW depth \in 0..n, NEW p \in Nat
      PROVE  f[depth][p] = IF depth = 0 THEN Incomplete
                           ELSE NextAt(s, [r EXCEPT !.pos = p], f[depth - 1])
  BY <1>7
<1>9. ByDepth(s, r, f)
  BY <1>8 DEF ByDepth
<1> QED BY <1>5, <1>9

\* Whatever the depth, if only there are as many as bytes: what is found at a place
\* carries over.
LEMMA SameDepths ==
  ASSUME NEW s, NEW r, NEW t, NEW q, Sees(s, r, t, q),
         NEW f, ByDepth(s, r, f), NEW g, ByDepth(t, q, g),
         NEW c \in 0..Remaining(r),
         NEW x \in (Remaining(r) - c)..Remaining(r), NEW y \in (Remaining(r) - c)..Remaining(q)
  PROVE  Carries(f[x][r.pos + c], Moved(r, c), g[y][q.pos + c], Moved(q, c), 1)
<1> DEFINE N == Remaining(r)
           M == Remaining(q)
<1>1. IsReader(s, r) /\ IsReader(t, q) /\ N \in Nat /\ M \in Nat /\ N <= M
  BY SeesFacts
<1>2. \A depth \in 0..N, p \in Nat :
        f[depth][p] = IF depth = 0 THEN Incomplete
                      ELSE NextAt(s, [r EXCEPT !.pos = p], f[depth - 1])
  BY DEF ByDepth
<1>3. \A depth \in 0..M, p \in Nat :
        g[depth][p] = IF depth = 0 THEN Incomplete
                      ELSE NextAt(t, [q EXCEPT !.pos = p], g[depth - 1])
  BY DEF ByDepth
<1> DEFINE At(e, i, j) == Carries(f[i][r.pos + e], Moved(r, e), g[j][q.pos + e], Moved(q, e), 1)
           S == {k \in Nat : \A e \in 0..N, i \in k..N, j \in k..M : N - e <= k => At(e, i, j)}
<1>4. ASSUME NEW e \in 0..N
      PROVE  /\ Sees(s, Moved(r, e), t, Moved(q, e))
             /\ Remaining(Moved(r, e)) = N - e
             /\ Moved(r, e).pos = r.pos + e /\ Moved(q, e).pos = q.pos + e
             /\ \A i \in 0..N : f[i][r.pos + e] = IF i = 0 THEN Incomplete
                                                ELSE NextAt(s, Moved(r, e), f[i - 1])
             /\ \A j \in 0..M : g[j][q.pos + e] = IF j = 0 THEN Incomplete
                                                ELSE NextAt(t, Moved(q, e), g[j - 1])
  <2>1. Sees(s, Moved(r, e), t, Moved(q, e)) /\ e \in 0..M
    BY SeesOn
  <2>2. Remaining(Moved(r, e)) = N - e /\ Moved(r, e).pos = r.pos + e
    BY <1>1, ReaderFacts
  <2>3. Moved(q, e).pos = q.pos + e
    BY <1>1, <2>1, ReaderFacts
  <2>4. r.pos + e \in Nat /\ q.pos + e \in Nat
    BY <1>1, SMTT(30) DEF IsReader
  <2>5. [r EXCEPT !.pos = r.pos + e] = Moved(r, e) /\ [q EXCEPT !.pos = q.pos + e] = Moved(q, e)
    BY DEF Moved
  <2> HIDE DEF N, M
  <2>6. ASSUME NEW i \in 0..N
        PROVE  f[i][r.pos + e] = IF i = 0 THEN Incomplete ELSE NextAt(s, Moved(r, e), f[i - 1])
    BY <1>2, <2>4, <2>5, Zenon
  <2>7. ASSUME NEW j \in 0..M
        PROVE  g[j][q.pos + e] = IF j = 0 THEN Incomplete ELSE NextAt(t, Moved(q, e), g[j - 1])
    BY <1>3, <2>4, <2>5, Zenon
  <2> QED BY <2>1, <2>2, <2>3, <2>6, <2>7
<1>5. 0 \in S
  <2> SUFFICES ASSUME NEW e \in 0..N, NEW i \in 0..N, NEW j \in 0..M, N - e <= 0
               PROVE  At(e, i, j)
    OBVIOUS
  <2> DEFINE this == f[i][r.pos + e]
             that == g[j][q.pos + e]
  <2>1. ~HasBytes(Moved(r, e), 1)
    <3>1. Sees(s, Moved(r, e), t, Moved(q, e)) /\ Remaining(Moved(r, e)) = N - e
      BY <1>4
    <3>2. IsReader(s, Moved(r, e))
      BY <3>1 DEF Sees
    <3>3. N - e = 0
      BY <1>1
    <3> HIDE DEF N
    <3> QED BY <3>1, <3>2, <3>3, ReaderFacts
  <2>2. this = Incomplete
    BY <1>4, <2>1 DEF NextAt
  <2>3. that = Incomplete \/ HasBytes(Moved(q, e), 1)
    BY <1>4 DEF NextAt
  <2> HIDE DEF this, that
  <2>4. Carries(Incomplete, Moved(r, e), that, Moved(q, e), 1)
    BY <1>4, <2>1, <2>3, Missing
  <2> QED BY <2>2, <2>4 DEF this, that
<1>6. ASSUME NEW k \in Nat, k \in S PROVE k + 1 \in S
  <2> SUFFICES ASSUME NEW e \in 0..N, NEW i \in (k + 1)..N, NEW j \in (k + 1)..M, N - e <= k + 1
               PROVE  At(e, i, j)
    OBVIOUS
  <2> DEFINE m == Moved(r, e)
             n == Moved(q, e)
             a == f[i - 1]
             b == g[j - 1]
  <2>1. f[i][r.pos + e] = NextAt(s, m, a) /\ g[j][q.pos + e] = NextAt(t, n, b)
    <3>1. i \in 0..N /\ i # 0 /\ j \in 0..M /\ j # 0
      BY <1>1
    <3> HIDE DEF N, M
    <3> QED BY <1>4, <3>1
  <2>2. ASSUME NEW d \in 1..Remaining(m)
        PROVE  Carries(a[m.pos + d], Moved(m, d), b[n.pos + d], Moved(n, d), 0)
    <3>1. /\ e + d \in 0..N /\ i - 1 \in k..N /\ j - 1 \in k..M /\ N - (e + d) <= k
      BY <1>1, <1>4
    <3>2. At(e + d, i - 1, j - 1)
      BY <1>6, <3>1
    <3>3. /\ m.pos + d = r.pos + (e + d) /\ n.pos + d = q.pos + (e + d)
      <4>1. r.pos \in Nat /\ q.pos \in Nat /\ m.pos = r.pos + e /\ n.pos = q.pos + e /\ d \in Nat
        BY <1>1, <1>4 DEF IsReader
      <4> HIDE DEF m, n
      <4> QED BY <4>1
    <3>4. Moved(m, d) = Moved(r, e + d) /\ Moved(n, d) = Moved(q, e + d)
      <4>1. d \in Nat /\ e \in 0..M
        BY <1>1
      <4>2. Moved(m, d) = Moved(r, e + d)
        BY <1>1, <4>1, MovedTwice
      <4>3. Moved(n, d) = Moved(q, e + d)
        BY <1>1, <4>1, MovedTwice
      <4> QED BY <4>2, <4>3
    <3> HIDE DEF m, n, a, b
    <3>5. Carries(a[m.pos + d], Moved(m, d), b[n.pos + d], Moved(n, d), 1)
      BY <3>2, <3>3, <3>4, Zenon DEF a, b
    <3> QED BY <3>5 DEF Carries
  <2>3. Sees(s, m, t, n)
    BY <1>4
  <2> HIDE DEF m, n, a, b
  <2>4. Carries(NextAt(s, m, a), m, NextAt(t, n, b), n, 1)
    BY <2>2, <2>3, SameNext
  <2> QED BY <2>1, <2>4, Zenon DEF m, n
<1>7. N - c \in S
  <2>1. N - c \in Nat
    BY <1>1
  <2> HIDE DEF S, N
  <2> QED BY <1>5, <1>6, <2>1, NatSteps
<1>8. N - c <= N - c /\ x \in (N - c)..N /\ y \in (N - c)..M
  BY <1>1
<1> QED BY <1>7, <1>8

\* deserialize, of a reader with data left.
LEMMA SameValue ==
  ASSUME NEW s, NEW r, NEW t, NEW q, Sees(s, r, t, q)
  PROVE  Carries(NextValue(s, r), r, NextValue(t, q), q, 1)
<1> DEFINE N == Remaining(r)
           M == Remaining(q)
<1>1. IsReader(s, r) /\ IsReader(t, q) /\ N \in Nat /\ M \in Nat /\ N <= M
  BY SeesFacts
<1>2. PICK f : NextValue(s, r) = f[Remaining(r)][r.pos] /\ ByDepth(s, r, f)
  BY <1>1, NextSteps
<1>3. PICK g : NextValue(t, q) = g[Remaining(q)][q.pos] /\ ByDepth(t, q, g)
  BY <1>1, NextSteps
<1>4. 0 \in 0..N /\ N \in (N - 0)..N /\ M \in (N - 0)..M
  BY <1>1
<1>5. Carries(f[N][r.pos + 0], Moved(r, 0), g[M][q.pos + 0], Moved(q, 0), 1)
  BY <1>2, <1>3, <1>4, SameDepths
<1>6. /\ Moved(r, 0) = r /\ Moved(q, 0) = q
      /\ r.pos + 0 = r.pos /\ q.pos + 0 = q.pos
  BY <1>1 DEF IsReader, Moved
<1> QED BY <1>2, <1>3, <1>5, <1>6, Zenon

\* What is found at a place of a chunk carries over to a place of another.
LEMMA SameAt ==
  ASSUME NEW s \in Seq(Nat), NEW p \in 0..(Len(s) - 1), NEW t \in Seq(Nat), NEW c \in Nat,
         c + (Len(s) - p) <= Len(t),
         \A i \in 1..(Len(s) - p) : s[p + i] = t[c + i]
  PROVE  LET o == DeserializeAt(s, p)
             x == DeserializeAt(t, c)
         IN  \/ o.kind = "incomplete" /\ Len(s) - p < Len(t) - c
             \/ o.kind \in {"incomplete", "error"} /\ x.kind = o.kind
             \/ \E d \in 1..(Len(s) - p) : /\ o.kind = "value" /\ o.end = p + d
                                          /\ x.kind = "value" /\ x.end = c + d
                                          /\ o.value = x.value
<1> DEFINE r == [NewReader(0, Len(s)) EXCEPT !.pos = p]
           q == [NewReader(0, Len(t)) EXCEPT !.pos = c]
           u == NextValue(s, r)
           v == NextValue(t, q)
           o == DeserializeAt(s, p)
           x == DeserializeAt(t, c)
<1>1. /\ r = [off |-> 0, len |-> Len(s), pos |-> p] /\ q = [off |-> 0, len |-> Len(t), pos |-> c]
  BY SMTT(30) DEF NewReader
<1> HIDE DEF r, q
<1>2. /\ Len(s) \in Nat /\ Len(t) \in Nat /\ p \in Nat
      /\ Remaining(r) = Len(s) - p /\ Remaining(q) = Len(t) - c
      /\ ReadPosition(r) = p /\ ReadPosition(q) = c
  BY <1>1 DEF Remaining, ReadPosition
<1>3. IsReader(s, r) /\ IsReader(t, q)
  BY <1>1, <1>2, SMTT(30) DEF IsReader
<1>4. Sees(s, r, t, q)
  BY <1>2, <1>3 DEF Sees
<1>5. /\ o = IF u.kind = "value" THEN [kind |-> "value", value |-> u.value, end |-> u.reader.pos]
              ELSE u
      /\ x = IF v.kind = "value" THEN [kind |-> "value", value |-> v.value, end |-> v.reader.pos]
              ELSE v
  <2>1. Deserialize(s, r) = u /\ Deserialize(t, q) = v
    BY <1>2 DEF Deserialize
  <2> HIDE DEF u, v
  <2> QED BY <2>1, Zenon DEF DeserializeAt, r, q
<1> HIDE DEF u, v, o, x
<1>6. Carries(u, r, v, q, 1)
  BY <1>4, SameValue DEF u, v
<1>7. CASE u = Incomplete /\ Remaining(r) < Remaining(q)
  BY <1>2, <1>5, <1>7, Kinds DEF o
<1>8. CASE u \in {Incomplete, Failed} /\ v = u
  BY <1>5, <1>8, Kinds DEF o, x
<1>9. ASSUME NEW d \in 1..Remaining(r), NEW w, u = Value(w, Moved(r, d)), v = Value(w, Moved(q, d))
      PROVE  /\ o.kind = "value" /\ o.end = p + d
             /\ x.kind = "value" /\ x.end = c + d
             /\ o.value = x.value
  <2>1. Moved(r, d).pos = p + d /\ Moved(q, d).pos = c + d
    BY <1>1, SMTT(30) DEF Moved
  <2>2. o = [kind |-> "value", value |-> w, end |-> p + d]
    BY <1>5, <1>9, <2>1, Kinds
  <2>3. x = [kind |-> "value", value |-> w, end |-> c + d]
    BY <1>5, <1>9, <2>1, Kinds
  <2> QED BY <2>2, <2>3
<1>10. \/ u = Incomplete /\ Remaining(r) < Remaining(q)
       \/ u \in {Incomplete, Failed} /\ v = u
       \/ \E d \in 1..Remaining(r) : \E w : u = Value(w, Moved(r, d)) /\ v = Value(w, Moved(q, d))
  BY <1>6, Zenon DEF Carries
<1>11. CASE \E d \in 1..Remaining(r) : \E w : u = Value(w, Moved(r, d)) /\ v = Value(w, Moved(q, d))
  <2>1. PICK d \in 1..Remaining(r) : \E w : u = Value(w, Moved(r, d)) /\ v = Value(w, Moved(q, d))
    BY <1>11
  <2>2. d \in 1..(Len(s) - p)
    BY <1>2
  <2>3. /\ o.kind = "value" /\ o.end = p + d
        /\ x.kind = "value" /\ x.end = c + d
        /\ o.value = x.value
    BY <1>9, <2>1
  <2> QED BY <2>2, <2>3, Zenon DEF o, x
<1> QED BY <1>7, <1>8, <1>10, <1>11, Zenon DEF o, x

\* deserialize reads forwards: the one thing DeserializerStream needs of it to
\* keep a value that is cut off and try again with the bytes that follow
\* (the catch of transform, which tells missing data from other exceptions).
THEOREM DeserializeReadsForward == ReadsForward(Seq(0..255), DeserializeAt)
<1> SUFFICES ASSUME NEW w \in Seq(0..255), NEW b \in 0..Len(w), NEW p \in 0..(b - 1)
             PROVE  LET o == DeserializeAt(SubSeq(w, 1, b), p)
                    IN  /\ \/ o.kind \in {"incomplete", "error"}
                           \/ o.kind = "value" /\ o.end \in (p + 1)..b
                        /\ \A a \in 0..p : SameOutcome(o, DeserializeAt(SubSeq(w, a + 1, b), p - a), -a)
                        /\ o.kind # "incomplete" =>
                             \A c \in b..Len(w) : SameOutcome(o, DeserializeAt(SubSeq(w, 1, c), p), 0)
  BY DEF ReadsForward
<1> DEFINE s == SubSeq(w, 1, b)
           o == DeserializeAt(s, p)
<1>1. w \in Seq(Nat) /\ Len(w) \in Nat
  <2>1. 0..255 \subseteq Nat
    OBVIOUS
  <2> QED BY <2>1, SeqMonotonic, LenProperties, ZenonT(30)
<1>2. ASSUME NEW a \in Nat, NEW c \in a..Len(w)
      PROVE  /\ SubSeq(w, a + 1, c) \in Seq(Nat)
             /\ Len(SubSeq(w, a + 1, c)) = c - a
             /\ \A i \in 1..(c - a) : SubSeq(w, a + 1, c)[i] = w[a + i]
  BY <1>1, PartFacts
<1>3. s \in Seq(Nat) /\ Len(s) = b /\ \A i \in 1..b : s[i] = w[i]
  <2>1. 0 + 1 = 1 /\ b \in 0..Len(w) /\ b - 0 = b /\ \A i \in 1..b : 0 + i = i
    BY <1>1
  <2>2. /\ SubSeq(w, 0 + 1, b) \in Seq(Nat)
        /\ Len(SubSeq(w, 0 + 1, b)) = b - 0
        /\ \A i \in 1..(b - 0) : SubSeq(w, 0 + 1, b)[i] = w[0 + i]
    BY <1>2
  <2> HIDE DEF s
  <2>3. s = SubSeq(w, 0 + 1, b)
    BY <2>1, Zenon DEF s
  <2> QED BY <2>1, <2>2, <2>3
<1>4. p \in Nat /\ b \in Nat /\ p < b
  BY <1>1
<1> HIDE DEF s
\* The outcome at the same byte of another part of w that ends no earlier.
<1>5. ASSUME NEW a \in 0..p, NEW c \in b..Len(w)
      PROVE  LET x == DeserializeAt(SubSeq(w, a + 1, c), p - a)
             IN  \/ o.kind = "incomplete" /\ b < c
                 \/ o.kind \in {"incomplete", "error"} /\ x.kind = o.kind
                 \/ \E d \in 1..(b - p) : /\ o.kind = "value" /\ o.end = p + d
                                         /\ x.kind = "value" /\ x.end = (p - a) + d
                                         /\ o.value = x.value
  <2> DEFINE t == SubSeq(w, a + 1, c)
  <2>1. a \in Nat /\ c \in a..Len(w) /\ p - a \in Nat /\ c \in Nat
    BY <1>1, <1>4
  <2>2. t \in Seq(Nat) /\ Len(t) = c - a /\ \A i \in 1..(c - a) : t[i] = w[a + i]
    BY <1>2, <2>1
  <2> HIDE DEF t
  <2>3. (p - a) + (b - p) <= Len(t) /\ p \in 0..(Len(s) - 1)
    BY <1>1, <1>3, <1>4, <2>1, <2>2
  <2>4. ASSUME NEW i \in 1..(b - p) PROVE s[p + i] = t[(p - a) + i]
    <3>1. /\ p + i \in 1..b /\ (p - a) + i \in 1..(c - a) /\ a + ((p - a) + i) = p + i
      BY <1>1, <1>4, <2>1
    <3> QED BY <1>3, <2>2, <3>1
  <2>5. LET x == DeserializeAt(t, p - a)
        IN  \/ o.kind = "incomplete" /\ Len(s) - p < Len(t) - (p - a)
            \/ o.kind \in {"incomplete", "error"} /\ x.kind = o.kind
            \/ \E d \in 1..(Len(s) - p) : /\ o.kind = "value" /\ o.end = p + d
                                         /\ x.kind = "value" /\ x.end = (p - a) + d
                                         /\ o.value = x.value
    BY <1>3, <2>1, <2>2, <2>3, <2>4, SameAt
  <2>6. Len(s) - p < Len(t) - (p - a) => b < c
    BY <1>1, <1>3, <1>4, <2>1, <2>2
  <2> HIDE DEF o
  <2> QED BY <1>3, <2>5, <2>6, Zenon DEF t
<1> HIDE DEF o
<1>6. \/ o.kind \in {"incomplete", "error"}
      \/ o.kind = "value" /\ o.end \in (p + 1)..b
  <2>1. 0 \in 0..p /\ b \in b..Len(w)
    BY <1>1, <1>4
  <2>2. o.kind \in {"incomplete", "error"} \/ \E d \in 1..(b - p) : o.kind = "value" /\ o.end = p + d
    BY <1>5, <2>1
  <2> QED BY <1>4, <2>2
<1>7. ASSUME NEW a \in 0..p
      PROVE  SameOutcome(o, DeserializeAt(SubSeq(w, a + 1, b), p - a), -a)
  <2> DEFINE x == DeserializeAt(SubSeq(w, a + 1, b), p - a)
  <2>1. b \in b..Len(w) /\ ~(b < b) /\ a \in Nat
    BY <1>1, <1>4
  <2>2. \/ o.kind \in {"incomplete", "error"} /\ x.kind = o.kind
        \/ \E d \in 1..(b - p) : /\ o.kind = "value" /\ o.end = p + d
                                /\ x.kind = "value" /\ x.end = (p - a) + d
                                /\ o.value = x.value
    BY <1>5, <2>1
  <2> HIDE DEF x
  <2>3. SameOutcome(o, x, -a)
    BY <1>4, <2>1, <2>2 DEF SameOutcome
  <2> QED BY <2>3 DEF x
<1>8. ASSUME NEW c \in b..Len(w), o.kind # "incomplete"
      PROVE  SameOutcome(o, DeserializeAt(SubSeq(w, 1, c), p), 0)
  <2> DEFINE x == DeserializeAt(SubSeq(w, 0 + 1, c), p - 0)
  <2>1. 0 \in 0..p /\ 0 + 1 = 1 /\ p - 0 = p
    BY <1>4
  <2>2. \/ o.kind \in {"incomplete", "error"} /\ x.kind = o.kind
        \/ \E d \in 1..(b - p) : /\ o.kind = "value" /\ o.end = p + d
                                /\ x.kind = "value" /\ x.end = (p - 0) + d
                                /\ o.value = x.value
    BY <1>5, <1>8, <2>1
  <2> HIDE DEF x
  <2>3. SameOutcome(o, x, 0)
    BY <1>4, <2>1, <2>2 DEF SameOutcome
  <2>4. x = DeserializeAt(SubSeq(w, 1, c), p)
    BY <2>1, Zenon DEF x
  <2> QED BY <2>3, <2>4
<1> QED BY <1>6, <1>7, <1>8 DEF o, s

\* No beginning of a value is a value or an error: a chunk that ends in the middle
\* of one is kept, wherever it ends.
THEOREM CutIsMissingData ==
  ASSUME NEW w \in Seq(0..255), NEW n \in 1..(Len(w) - 1),
         DeserializeAt(w, 0).kind = "value", DeserializeAt(w, 0).end = Len(w)
  PROVE  DeserializeAt(SubSeq(w, 1, n), 0).kind = "incomplete"
<1> DEFINE o == DeserializeAt(SubSeq(w, 1, n), 0)
<1>1. Len(w) \in Nat /\ n \in 0..Len(w) /\ Len(w) \in n..Len(w) /\ 0 \in 0..(n - 1)
      /\ SubSeq(w, 1, Len(w)) = w
  OBVIOUS
<1>2. /\ \/ o.kind \in {"incomplete", "error"}
         \/ o.kind = "value" /\ o.end \in 1..n
      /\ o.kind # "incomplete" =>
           SameOutcome(o, DeserializeAt(SubSeq(w, 1, Len(w)), 0), 0)
  BY <1>1, DeserializeReadsForward DEF ReadsForward
<1> HIDE DEF o
<1>3. CASE o.kind # "incomplete"
  <2>1. o.kind = "value" /\ o.end \in 1..n /\ Len(w) = o.end + 0
    BY <1>1, <1>2, <1>3 DEF SameOutcome
  <2> QED BY <1>1, <2>1
<1> QED BY <1>3 DEF o
-----------------------------------------------------------------------------
(* Integers and their bytes.                                               *)

\* How many integers there are of a number of bytes.
LEMMA WidthFacts ==
  /\ ByteValues \in Nat \ {0} /\ ByteValues >= 2
  /\ \A k \in Nat : Power(ByteValues)[k] \in Nat \ {0}
  /\ Power(ByteValues)[0] = 1 /\ Power(ByteValues)[1] = ByteValues
  /\ \A k \in Nat : Power(ByteValues)[k + 1] = ByteValues * Power(ByteValues)[k]
  /\ Word = Power(ByteValues)[4] /\ Word \in Nat /\ Word >= 16
  /\ Power(ByteValues)[8] = Word * Word
  /\ \A i, j \in Nat : i <= j => Power(ByteValues)[i] <= Power(ByteValues)[j]
<1> DEFINE P == Power(ByteValues)
<1>1. ByteValues \in Nat \ {0} /\ ByteValues >= 2
  BY BuffersAssumption
<1>2. P[0] = 1 /\ \A k \in Nat : P[k] \in Nat /\ P[k + 1] = ByteValues * P[k]
  BY <1>1, PowerDef
<1>3. \A i, j \in Nat : i <= j => P[i] \in Nat \ {0} /\ P[i] <= P[j]
  BY <1>1, PowerMonotonic
<1>4. \A j \in Nat : P[4 + j] = P[4] * P[j]
  BY <1>1, PowerOfSum
<1> HIDE DEF P
<1>5. P[1] = ByteValues
  BY <1>1, <1>2
<1>6. P[2] = ByteValues * ByteValues /\ P[2] >= 4
  <2>1. P[2] = ByteValues * ByteValues
    BY <1>1, <1>2, <1>5
  <2>2. ByteValues * 2 <= ByteValues * ByteValues
    BY <1>1, ProductMonotonic
  <2> QED BY <1>1, <2>1, <2>2
<1>7. P[4] >= 16
  <2>1. P[3] = ByteValues * P[2] /\ P[4] = ByteValues * P[3] /\ P[2] \in Nat /\ P[3] \in Nat
    BY <1>2
  <2>2. P[2] * 2 <= P[2] * ByteValues
    BY <1>1, <2>1, ProductMonotonic
  <2>3. P[3] >= 8
    BY <1>1, <1>6, <2>1, <2>2
  <2>4. P[3] * 2 <= P[3] * ByteValues
    BY <1>1, <2>1, ProductMonotonic
  <2> QED BY <1>1, <2>1, <2>3, <2>4
<1>8. P[8] = P[4] * P[4]
  BY <1>4
<1>9. \A k \in Nat : P[k] \in Nat \ {0}
  BY <1>3
<1> QED BY <1>1, <1>2, <1>3, <1>5, <1>7, <1>8, <1>9 DEF P, Word

\* The bytes of an integer.
LEMMA UintBytesFacts ==
  ASSUME NEW v \in Int, NEW k \in Nat
  PROVE  /\ UintBytes(v, k) \in Seq(Nat) /\ UintBytes(v, k) \in Octets
         /\ Len(UintBytes(v, k)) = k
         /\ \A i \in 1..k : UintBytes(v, k)[i] = (v \div Power(ByteValues)[k - i]) % ByteValues
<1> DEFINE w == UintBytes(v, k)
<1>1. \A i \in 1..k : w[i] = (v \div Power(ByteValues)[k - i]) % ByteValues
  BY DEF UintBytes
<1>2. w \in [1..k -> 0..(ByteValues - 1)]
  <2>1. ASSUME NEW i \in 1..k
        PROVE  (v \div Power(ByteValues)[k - i]) % ByteValues \in 0..(ByteValues - 1)
    <3>1. Power(ByteValues)[k - i] \in Nat \ {0} /\ ByteValues \in Nat \ {0}
      BY WidthFacts
    <3>2. v \div Power(ByteValues)[k - i] \in Int
      BY <3>1, IntDivMod
    <3> QED BY <3>1, <3>2, IntDivMod
  <2> QED BY <2>1 DEF UintBytes
<1> HIDE DEF w
<1>3. w \in Seq(0..(ByteValues - 1)) /\ Len(w) = k
  BY <1>2, IsSequence
<1>4. w \in Seq(Nat)
  <2>1. 0..(ByteValues - 1) \subseteq Nat
    BY WidthFacts
  <2> QED BY <1>3, <2>1, SeqMonotonic
<1> QED BY <1>1, <1>3, <1>4 DEF Octets, w

\* They are read as the integer modulo their number.
LEMMA UintOfBytes ==
  ASSUME NEW v \in Int, NEW k \in Nat
  PROVE  ToUint(UintBytes(v, k)) = v % Power(ByteValues)[k]
<1> DEFINE w == UintBytes(v, k)
           P == Power(ByteValues)
<1>1. /\ w \in Seq(Nat) /\ Len(w) = k
      /\ \A i \in 1..k : w[i] = (v \div P[k - i]) % ByteValues
  BY UintBytesFacts
<1>2. /\ ByteValues \in Nat \ {0} /\ P[0] = 1
      /\ \A n \in Nat : P[n] \in Nat \ {0} /\ P[n + 1] = ByteValues * P[n]
  BY WidthFacts
<1> HIDE DEF w, P
<1>3. PICK f : /\ ToUint(w) = f[k]
               /\ f[0] = 0
               /\ \A i \in 1..k : f[i] = f[i - 1] * ByteValues + w[i]
  BY <1>1, ToUintSteps
<1> DEFINE S == {j \in Nat : j <= k => f[j] = (v \div P[k - j]) % P[j]}
<1>4. 0 \in S
  <2>1. (v \div P[k]) % 1 = 0
    <3>1. v \div P[k] \in Int
      BY <1>2, IntDivMod
    <3> QED BY <3>1
  <2> QED BY <1>2, <1>3, <2>1
<1>5. ASSUME NEW j \in Nat, j \in S PROVE j + 1 \in S
  <2> SUFFICES ASSUME j + 1 <= k PROVE f[j + 1] = (v \div P[k - (j + 1)]) % P[j + 1]
    OBVIOUS
  <2> DEFINE a == P[k - (j + 1)]
             x == v \div a
  <2>1. a \in Nat \ {0} /\ P[k - j] = a * ByteValues
    <3>1. k - (j + 1) \in Nat /\ (k - (j + 1)) + 1 = k - j
      OBVIOUS
    <3> QED BY <1>2, <3>1
  <2>2. x \in Int
    BY <2>1, IntDivMod
  <2>3. v \div P[k - j] = x \div ByteValues
    <3> HIDE DEF a
    <3>1. a \in Nat \ {0} /\ ByteValues \in Nat \ {0}
      BY <1>2, <2>1
    <3> HIDE DEF S
    <3>2. v \div (a * ByteValues) = (v \div a) \div ByteValues
      BY <3>1, DivDiv, ZenonT(30)
    <3> QED BY <2>1, <3>2
  <2>4. w[j + 1] = x % ByteValues
    <3>1. j + 1 \in 1..k
      OBVIOUS
    <3> QED BY <1>1, <3>1
  <2>5. f[j + 1] = f[j] * ByteValues + w[j + 1] /\ f[j] = (v \div P[k - j]) % P[j]
    <3>1. j + 1 \in 1..k /\ (j + 1) - 1 = j
      OBVIOUS
    <3>2. f[j] = (v \div P[k - j]) % P[j]
      BY <1>5
    <3> QED BY <1>3, <3>1, <3>2
  <2> HIDE DEF x, a, S
  <2>6. x % (ByteValues * P[j]) = ByteValues * ((x \div ByteValues) % P[j]) + (x % ByteValues)
    BY <1>2, <2>2, DivDiv
  <2>7. x \div ByteValues \in Int /\ (x \div ByteValues) % P[j] \in Int /\ x % ByteValues \in Int
    <3> DEFINE y == x \div ByteValues
    <3>1. y \in Int /\ x % ByteValues \in Int
      BY <1>2, <2>2, IntDivMod
    <3>2. P[j] \in Nat \ {0}
      BY <1>2
    <3> HIDE DEF y
    <3>3. y % P[j] \in Int
      BY <3>1, <3>2, IntDivMod
    <3> QED BY <3>1, <3>3 DEF y
  <2>8. P[j + 1] = ByteValues * P[j]
    BY <1>2
  <2> DEFINE y == (x \div ByteValues) % P[j]
             z == x % ByteValues
  <2>9. f[j + 1] = y * ByteValues + z /\ x % P[j + 1] = ByteValues * y + z /\ y \in Int /\ z \in Int
    BY <2>3, <2>4, <2>5, <2>6, <2>7, <2>8
  <2> HIDE DEF y, z
  <2>10. f[j + 1] = x % P[j + 1]
    BY <1>2, <2>9
  <2> QED BY <2>10 DEF x, a
<1>6. k \in S
  <2> HIDE DEF S
  <2> QED BY <1>4, <1>5, NatSteps
<1>7. f[k] = (v \div P[0]) % P[k]
  BY <1>6
<1>8. v \div 1 = v
  OBVIOUS
<1> QED BY <1>2, <1>3, <1>7, <1>8 DEF w, P

\* A byte is read as itself.
LEMMA UintOfOne ==
  ASSUME NEW b \in Nat
  PROVE  ToUint(<<b>>) = b
<1>1. <<b>> \in Seq(Nat) /\ Len(<<b>>) = 1 /\ <<b>>[1] = b
  OBVIOUS
<1> DEFINE w == <<b>>
<1> HIDE DEF w
<1>2. PICK f : /\ ToUint(w) = f[1]
               /\ f[0] = 0
               /\ \A i \in 1..1 : f[i] = f[i - 1] * ByteValues + w[i]
  BY <1>1, ToUintSteps DEF w
<1>3. f[1] = 0 * ByteValues + b
  BY <1>1, <1>2 DEF w
<1>4. 0 * ByteValues + b = b
  BY WidthFacts
<1> QED BY <1>2, <1>3, <1>4 DEF w

\* What is read of octets has their width.
LEMMA UintBound ==
  ASSUME NEW w \in Octets
  PROVE  ToUint(w) \in 0..(Power(ByteValues)[Len(w)] - 1)
<1> DEFINE P == Power(ByteValues)
           k == Len(w)
<1>1. k \in Nat /\ w \in Seq(Nat) /\ \A i \in 1..k : w[i] \in 0..(ByteValues - 1)
  <2>1. 0..(ByteValues - 1) \subseteq Nat /\ w \in Seq(0..(ByteValues - 1))
    BY WidthFacts DEF Octets
  <2>2. w \in Seq(Nat)
    BY <2>1, SeqMonotonic
  <2>3. k \in Nat /\ w \in [1..k -> 0..(ByteValues - 1)]
    BY <2>1, LenProperties
  <2> QED BY <2>2, <2>3
<1>2. /\ ByteValues \in Nat \ {0} /\ P[0] = 1
      /\ \A n \in Nat : P[n] \in Nat \ {0} /\ P[n + 1] = ByteValues * P[n]
  BY WidthFacts
<1>3. PICK f : /\ ToUint(w) = f[k]
               /\ f[0] = 0
               /\ \A i \in 1..k : f[i] = f[i - 1] * ByteValues + w[i]
               /\ \A i \in 0..k : f[i] \in Nat
  BY <1>1, ToUintSteps
<1> DEFINE S == {j \in Nat : j <= k => f[j] < P[j]}
<1> HIDE DEF P, k
<1>4. 0 \in S
  BY <1>2, <1>3
<1>5. ASSUME NEW j \in Nat, j \in S PROVE j + 1 \in S
  <2> SUFFICES ASSUME j + 1 <= k PROVE f[j + 1] < P[j + 1]
    OBVIOUS
  <2>1. f[j + 1] = f[j] * ByteValues + w[j + 1] /\ w[j + 1] \in 0..(ByteValues - 1)
    <3>1. j + 1 \in 1..k /\ (j + 1) - 1 = j
      BY <1>1
    <3> QED BY <1>1, <1>3, <3>1
  <2>2. f[j] \in Nat /\ f[j] + 1 <= P[j] /\ P[j] \in Nat /\ P[j + 1] = ByteValues * P[j]
    <3>1. j \in 0..k /\ j <= k
      BY <1>1
    <3>2. f[j] \in Nat /\ f[j] < P[j]
      BY <1>3, <1>5, <3>1
    <3>3. P[j] \in Nat /\ P[j + 1] = ByteValues * P[j]
      BY <1>2
    <3> QED BY <3>2, <3>3
  <2>3. ByteValues * (f[j] + 1) <= ByteValues * P[j]
    <3>1. ByteValues \in Nat /\ f[j] + 1 \in Int /\ P[j] \in Int
      BY <1>2, <2>2
    <3> QED BY <2>2, <3>1, ProductMonotonic
  <2> DEFINE a == f[j]
             b == w[j + 1]
  <2>4. ByteValues * (a + 1) = a * ByteValues + ByteValues
    BY <1>2, <2>2
  <2>5. a * ByteValues \in Nat
    BY <1>2, <2>2
  <2> HIDE DEF a, b
  <2>6. f[j + 1] = a * ByteValues + b /\ b \in 0..(ByteValues - 1)
        /\ a * ByteValues + ByteValues <= P[j + 1]
    BY <2>1, <2>2, <2>3, <2>4 DEF a, b
  <2>7. P[j + 1] \in Nat
    BY <1>2
  <2> QED BY <1>2, <2>5, <2>6, <2>7
<1>6. k \in S
  <2> HIDE DEF S
  <2> QED BY <1>1, <1>4, <1>5, NatSteps
<1>7. f[k] \in Nat /\ f[k] < P[k] /\ P[k] \in Nat
  <2>1. f[k] < P[k]
    BY <1>1, <1>6
  <2> HIDE DEF S
  <2>2. k \in 0..k
    BY <1>1
  <2>3. f[k] \in Nat
    BY <1>3, <2>2
  <2>4. P[k] \in Nat
    BY <1>1, <1>2
  <2> QED BY <2>1, <2>3, <2>4
<1> QED BY <1>3, <1>7 DEF P, k

\* An integer of the width is read as itself, with or without a sign.
LEMMA OfBytes ==
  ASSUME NEW v \in Int, NEW k \in Nat
  PROVE  /\ v \in 0..(Power(ByteValues)[k] - 1) => ToUint(UintBytes(v, k)) = v
         /\ -Power(ByteValues)[k] <= 2 * v /\ 2 * v < Power(ByteValues)[k] =>
              ToInt(UintBytes(v, k)) = v
<1> DEFINE n == Power(ByteValues)[k]
           w == UintBytes(v, k)
           u == ToUint(w)
<1>1. n \in Nat \ {0} /\ u = v % n /\ Len(w) = k
  BY WidthFacts, UintOfBytes, UintBytesFacts
<1>2. ToInt(w) = IF 2 * u < n THEN u ELSE u - n
  BY <1>1 DEF ToInt
<1> HIDE DEF n, w, u
<1>3. ASSUME v \in 0..(n - 1) PROVE u = v
  <2>1. v = n * 0 + v
    BY <1>1
  <2>2. v % n = v
    BY <1>1, <1>3, <2>1, IntDivModUnique
  <2> QED BY <1>1, <2>2
<1>4. ASSUME -n <= 2 * v, 2 * v < n PROVE ToInt(w) = v
  <2>1. CASE v >= 0
    <3>1. u = v
      BY <1>1, <1>3, <1>4, <2>1
    <3> QED BY <1>2, <1>4, <3>1
  <2>2. CASE v < 0
    <3>1. v + n \in 0..(n - 1) /\ v = n * (-1) + (v + n)
      BY <1>1, <1>4, <2>2
    <3>2. v % n = v + n
      BY <1>1, <3>1, IntDivModUnique
    <3> QED BY <1>1, <1>2, <1>4, <3>2
  <2> QED BY <2>1, <2>2
<1> QED BY <1>3, <1>4 DEF n, u, w

\* What is read of octets with a sign.
LEMMA IntBound ==
  ASSUME NEW w \in Octets
  PROVE  /\ ToInt(w) \in Int
         /\ -Power(ByteValues)[Len(w)] <= 2 * ToInt(w) /\ 2 * ToInt(w) < Power(ByteValues)[Len(w)]
<1> DEFINE n == Power(ByteValues)[Len(w)]
           u == ToUint(w)
<1>1. n \in Nat /\ u \in 0..(n - 1)
  <2>1. Len(w) \in Nat
    BY DEF Octets
  <2> QED BY <2>1, WidthFacts, UintBound
<1>2. ToInt(w) = IF 2 * u < n THEN u ELSE u - n
  BY DEF ToInt
<1> HIDE DEF n, u
<1>3. ToInt(w) \in Int /\ -n <= 2 * ToInt(w) /\ 2 * ToInt(w) < n
  BY <1>1, <1>2
<1> QED BY <1>3 DEF n

-----------------------------------------------------------------------------
(* What a reader has before it.                                            *)

\* The first bytes that the reader r of s is to read are w.
Holds(s, r, w) ==
  /\ IsReader(s, r)
  /\ w \in Seq(Nat)
  /\ Len(w) <= Remaining(r)
  /\ \A i \in 1..Len(w) : s[ReadPosition(r) + i] = w[i]

\* It can read and pass them.
LEMMA HoldsFacts ==
  ASSUME NEW s, NEW r, NEW w, Holds(s, r, w)
  PROVE  /\ IsReader(s, r) /\ w \in Seq(Nat) /\ Len(w) \in Nat
         /\ Remaining(r) \in Nat /\ Len(w) \in 0..Remaining(r)
         /\ HasBytes(r, Len(w))
         /\ BytesOf(s, r, Len(w)) = w
         /\ IsReader(s, Moved(r, Len(w)))
         /\ Remaining(Moved(r, Len(w))) = Remaining(r) - Len(w)
<1>1. IsReader(s, r) /\ w \in Seq(Nat) /\ Len(w) <= Remaining(r) /\ Len(w) \in Nat
  BY DEF Holds
<1>2. /\ Remaining(r) \in Nat /\ s \in Seq(Nat)
      /\ ReadPosition(r) \in Nat /\ ReadPosition(r) + Remaining(r) <= Len(s)
  BY <1>1, ReaderFacts DEF IsReader
<1>3. Len(w) \in 0..Remaining(r)
  BY <1>1, <1>2
<1>4. /\ HasBytes(r, Len(w)) /\ IsReader(s, Moved(r, Len(w)))
      /\ Remaining(Moved(r, Len(w))) = Remaining(r) - Len(w)
  BY <1>1, <1>3, ReaderFacts
<1>5. ReadPosition(r) + Len(w) <= Len(s)
  BY <1>1, <1>2
<1>6. SubSeq(s, ReadPosition(r) + 1, ReadPosition(r) + Len(w)) = w
  BY <1>1, <1>2, <1>5, PartIs DEF Holds
<1> QED BY <1>1, <1>2, <1>3, <1>4, <1>6 DEF BytesOf

\* What is joined is read one after the other.
LEMMA HoldsJoin ==
  ASSUME NEW s, NEW r, NEW u \in Seq(Nat), NEW w \in Seq(Nat)
  PROVE  Holds(s, r, u \o w) <=> Holds(s, r, u) /\ Holds(s, Moved(r, Len(u)), w)
<1>1. /\ u \o w \in Seq(Nat) /\ Len(u \o w) = Len(u) + Len(w)
      /\ \A i \in 1..Len(u) : (u \o w)[i] = u[i]
      /\ \A i \in 1..Len(w) : (u \o w)[Len(u) + i] = w[i]
  BY JoinFacts
<1>2. Len(u) \in Nat /\ Len(w) \in Nat
  OBVIOUS
<1>3. ASSUME IsReader(s, r), Len(u) <= Remaining(r)
      PROVE  /\ Remaining(r) \in Nat /\ ReadPosition(r) \in Nat
             /\ IsReader(s, Moved(r, Len(u)))
             /\ Remaining(Moved(r, Len(u))) = Remaining(r) - Len(u)
             /\ ReadPosition(Moved(r, Len(u))) = ReadPosition(r) + Len(u)
  <2>1. Len(u) \in 0..Remaining(r)
    BY <1>2, <1>3, ReaderFacts
  <2> QED BY <1>3, <2>1, ReaderFacts
<1> DEFINE a == ReadPosition(r)
           x == u \o w
<1> HIDE DEF a, x
<1>4. ASSUME Holds(s, r, x)
      PROVE  Holds(s, r, u) /\ Holds(s, Moved(r, Len(u)), w)
  <2>1. IsReader(s, r) /\ Len(u) <= Remaining(r) /\ Len(u) + Len(w) <= Remaining(r)
    <3>1. IsReader(s, r) /\ Len(u) + Len(w) <= Remaining(r)
      BY <1>1, <1>4 DEF Holds, x
    <3>2. Remaining(r) \in Nat
      BY <3>1, ReaderFacts
    <3> QED BY <1>2, <3>1, <3>2
  <2>2. \A i \in 1..(Len(u) + Len(w)) : s[a + i] = x[i]
    BY <1>1, <1>4 DEF Holds, x, a
  <2>3. \A i \in 1..Len(u) : s[a + i] = u[i]
    <3> SUFFICES ASSUME NEW i \in 1..Len(u) PROVE s[a + i] = u[i]
      OBVIOUS
    <3>1. i \in 1..(Len(u) + Len(w)) /\ x[i] = u[i]
      BY <1>1, <1>2 DEF x
    <3> QED BY <2>2, <3>1
  <2>4. ASSUME NEW i \in 1..Len(w) PROVE s[(a + Len(u)) + i] = w[i]
    <3>1. Len(u) + i \in 1..(Len(u) + Len(w)) /\ x[Len(u) + i] = w[i]
      BY <1>1, <1>2 DEF x
    <3>2. (a + Len(u)) + i = a + (Len(u) + i)
      BY <1>2, <1>3, <2>1 DEF a
    <3> QED BY <2>2, <3>1, <3>2
  <2>5. Holds(s, r, u)
    BY <2>1, <2>3 DEF Holds, a
  <2>6. Holds(s, Moved(r, Len(u)), w)
    <3>1. Len(w) <= Remaining(Moved(r, Len(u)))
      BY <1>2, <1>3, <2>1
    <3> QED BY <1>3, <2>1, <2>4, <3>1 DEF Holds, a
  <2> QED BY <2>5, <2>6
<1>5. ASSUME Holds(s, r, u), Holds(s, Moved(r, Len(u)), w)
      PROVE  Holds(s, r, x)
  <2>1. IsReader(s, r) /\ Len(u) <= Remaining(r) /\ \A i \in 1..Len(u) : s[a + i] = u[i]
    BY <1>5 DEF Holds, a
  <2>2. /\ Len(w) <= Remaining(r) - Len(u)
        /\ \A i \in 1..Len(w) : s[(a + Len(u)) + i] = w[i]
    BY <1>3, <1>5, <2>1 DEF Holds, a
  <2>3. ASSUME NEW i \in 1..(Len(u) + Len(w)) PROVE s[a + i] = x[i]
    <3>1. CASE i <= Len(u)
      <4>1. i \in 1..Len(u) /\ x[i] = u[i]
        BY <1>1, <1>2, <3>1 DEF x
      <4> QED BY <2>1, <4>1
    <3>2. CASE Len(u) < i
      <4> DEFINE j == i - Len(u)
      <4>1. j \in 1..Len(w) /\ i = Len(u) + j
        BY <1>2, <3>2
      <4> HIDE DEF j
      <4>2. x[i] = w[j]
        BY <1>1, <4>1 DEF x
      <4>3. a + i = (a + Len(u)) + j
        BY <1>2, <1>3, <2>1, <4>1 DEF a
      <4> QED BY <2>2, <4>1, <4>2, <4>3
    <3> QED BY <1>2, <3>1, <3>2
  <2>4. Len(u) + Len(w) <= Remaining(r)
    BY <1>2, <1>3, <2>1, <2>2
  <2> QED BY <1>1, <2>1, <2>3, <2>4 DEF Holds, x, a
<1> QED BY <1>4, <1>5 DEF x

\* An integer is read as itself.
LEMMA IntegerRead ==
  ASSUME NEW s, NEW r, NEW v \in Int, NEW k \in Nat, Holds(s, r, UintBytes(v, k))
  PROVE  /\ v \in 0..(Power(ByteValues)[k] - 1) => UintAt(s, r, k) = v
         /\ -Power(ByteValues)[k] <= 2 * v /\ 2 * v < Power(ByteValues)[k] => IntAt(s, r, k) = v
<1>1. BytesOf(s, r, k) = UintBytes(v, k)
  <2>1. Len(UintBytes(v, k)) = k
    BY UintBytesFacts
  <2> QED BY <2>1, HoldsFacts
<1> QED BY <1>1, OfBytes DEF UintAt, IntAt

\* Words and safe integers.
LEMMA SafeFacts ==
  /\ Word \in Nat \ {0} /\ SafeHigh \in Nat \ {0}
  /\ Word * SafeHigh = MaxSafe + 1
  /\ \E h \in Nat \ {0} : Word = 2 * h /\ Word * Word = 2 * (Word * h)
  /\ MaxSafe \in Nat /\ 2 * MaxSafe < Word * Word
<1>1. Word \in Nat \ {0} /\ MaxSafe + 1 \in Nat \ {0} /\ MaxSafe \in Nat
  BY WidthFacts, BuffersAssumption
<1>2. Word * SafeHigh = MaxSafe + 1 /\ SafeHigh \in Nat
  <2>1. (MaxSafe + 1) \div Word \in Nat
        /\ MaxSafe + 1 = Word * ((MaxSafe + 1) \div Word) + ((MaxSafe + 1) % Word)
    <3> HIDE DEF Word
    <3> QED BY <1>1, DivMod
  <2>2. (MaxSafe + 1) % Word = 0
    BY MsgpackAssumption
  <2>3. SafeHigh = (MaxSafe + 1) \div Word
    BY DEF SafeHigh
  <2> HIDE DEF Word
  <2>4. Word * ((MaxSafe + 1) \div Word) \in Nat
    BY <1>1, <2>1
  <2> QED BY <2>1, <2>2, <2>3, <2>4
<1>3. SafeHigh # 0
  <2> SUFFICES ASSUME SafeHigh = 0 PROVE FALSE
    OBVIOUS
  <2> HIDE DEF Word, SafeHigh
  <2> QED BY <1>1, <1>2
<1>4. PICK b \in Nat : ByteValues = 2 * b
  <2>1. ByteValues = 2 * (ByteValues \div 2) + (ByteValues % 2) /\ ByteValues \div 2 \in Nat
    BY WidthFacts, DivMod
  <2> QED BY <2>1, BuffersAssumption
<1>5. PICK h \in Nat : Word = 2 * h
  <2> DEFINE c == Power(ByteValues)[3]
  <2>1. c \in Nat /\ Word = ByteValues * c
    BY WidthFacts
  <2> HIDE DEF c, Word
  <2>2. ByteValues * c = 2 * (b * c) /\ b * c \in Nat
    BY <1>4, <2>1
  <2> QED BY <2>1, <2>2
<1>6. Word * Word = 2 * (Word * h) /\ h # 0
  <2> HIDE DEF Word
  <2> QED BY <1>1, <1>5
<1>7. 2 * MaxSafe < Word * Word
  BY WidthFacts, MsgpackAssumption
<1> QED BY <1>1, <1>2, <1>3, <1>5, <1>6, <1>7

\* The halves of eight bytes.
LEMMA HalvesRead ==
  ASSUME NEW s, NEW r, NEW v \in Int, Holds(s, r, Bytes64(v))
  PROVE  LET h == v \div Word
         IN  /\ h \in Int /\ v % Word \in 0..(Word - 1) /\ v = Word * h + (v % Word)
             /\ Low(s, r) = v % Word
             /\ h \in 0..(Word - 1) => UintAt(s, r, 4) = h
             /\ -Word <= 2 * h /\ 2 * h < Word => IntAt(s, r, 4) = h
             /\ UintAt(s, r, 4) \in Nat /\ IntAt(s, r, 4) \in Int
<1> DEFINE h == v \div Word
           l == v % Word
<1>1. h \in Int /\ l \in 0..(Word - 1) /\ v = Word * h + l
  <2>1. Word \in Nat \ {0}
    BY SafeFacts
  <2> HIDE DEF Word
  <2> QED BY <2>1, IntDivMod
<1>2. Word = Power(ByteValues)[4] /\ Word \in Nat
  BY WidthFacts
<1>3. Bytes64(v) = UintBytes(h, 4) \o UintBytes(l, 4)
  BY DEF Bytes64
<1> HIDE DEF h, l, Word
<1>4. /\ UintBytes(h, 4) \in Seq(Nat) /\ Len(UintBytes(h, 4)) = 4 /\ UintBytes(h, 4) \in Octets
      /\ UintBytes(l, 4) \in Seq(Nat)
  <2>1. h \in Int /\ l \in Int /\ 4 \in Nat
    BY <1>1, <1>2
  <2> QED BY <2>1, UintBytesFacts
<1>5. Holds(s, r, UintBytes(h, 4)) /\ Holds(s, Moved(r, 4), UintBytes(l, 4))
  BY <1>3, <1>4, HoldsJoin, ZenonT(30)
<1>6. Low(s, r) = l
  <2>1. Low(s, r) = UintAt(s, Moved(r, 4), 4)
    BY DEF Low, UintAt
  <2> QED BY <1>1, <1>2, <1>5, <2>1, IntegerRead
<1>7. /\ h \in 0..(Word - 1) => UintAt(s, r, 4) = h
      /\ -Word <= 2 * h /\ 2 * h < Word => IntAt(s, r, 4) = h
  BY <1>1, <1>2, <1>5, IntegerRead
<1>8. BytesOf(s, r, 4) = UintBytes(h, 4)
  BY <1>4, <1>5, HoldsFacts
<1>9. UintAt(s, r, 4) \in Nat /\ IntAt(s, r, 4) \in Int
  BY <1>4, <1>8, ToUintFacts, IntBound DEF UintAt, IntAt
<1> QED BY <1>1, <1>6, <1>7, <1>9 DEF h, l

\* An integer without a sign is read from eight bytes as itself, and as a number
\* when it is safe.
LEMMA Uint64Read ==
  ASSUME NEW s, NEW r, NEW v \in 0..(Word * Word - 1), Holds(s, r, Bytes64(v))
  PROVE  Uint64At(s, r) = v /\ (UintIsNumber(s, r) <=> v <= MaxSafe)
<1> DEFINE h == v \div Word
           l == v % Word
<1>1. Word \in Nat \ {0} /\ SafeHigh \in Nat /\ Word * SafeHigh = MaxSafe + 1 /\ MaxSafe \in Nat
  BY SafeFacts
<1>2. v \in Int
  BY <1>1
<1>3. /\ h \in Int /\ l \in 0..(Word - 1) /\ v = Word * h + l
      /\ Low(s, r) = l /\ (h \in 0..(Word - 1) => UintAt(s, r, 4) = h)
  BY <1>2, HalvesRead
<1> HIDE DEF Word
<1>4. /\ v < Word * Word <=> h < Word
      /\ Word * 0 <= v <=> 0 <= h
      /\ v < Word * SafeHigh <=> h < SafeHigh
  BY <1>1, <1>2, QuotientWithin
<1> HIDE DEF h, l
<1>5. h \in 0..(Word - 1)
  <2>1. Word * Word \in Int /\ Word * 0 = 0
    BY <1>1
  <2> QED BY <1>1, <1>3, <1>4, <2>1
<1>6. Uint64At(s, r) = h * Word + l
  BY <1>3, <1>5 DEF Uint64At
<1>7. h * Word = Word * h
  BY <1>1, <1>3
<1>8. UintIsNumber(s, r) <=> h < SafeHigh
  BY <1>3, <1>5 DEF UintIsNumber
<1>9. h < SafeHigh <=> v <= MaxSafe
  BY <1>1, <1>2, <1>4
<1> QED BY <1>3, <1>6, <1>7, <1>8, <1>9

\* So is an integer with a sign.
LEMMA Int64Read ==
  ASSUME NEW s, NEW r, NEW v \in Int, -(Word * Word) <= 2 * v, 2 * v < Word * Word,
         Holds(s, r, Bytes64(v))
  PROVE  Int64At(s, r) = v /\ (IntIsNumber(s, r) <=> v \in -MaxSafe..MaxSafe)
<1> DEFINE h == v \div Word
           l == v % Word
<1>1. Word \in Nat \ {0} /\ SafeHigh \in Nat \ {0} /\ Word * SafeHigh = MaxSafe + 1 /\ MaxSafe \in Nat
  BY SafeFacts
<1>2. /\ h \in Int /\ l \in 0..(Word - 1) /\ v = Word * h + l
      /\ Low(s, r) = l /\ (-Word <= 2 * h /\ 2 * h < Word => IntAt(s, r, 4) = h)
  BY HalvesRead
<1>3. PICK m \in Nat \ {0} : Word = 2 * m /\ Word * Word = 2 * (Word * m)
  BY SafeFacts
<1> HIDE DEF Word
<1>4. /\ v < Word * m <=> h < m
      /\ Word * (-m) <= v <=> -m <= h
      /\ v < Word * SafeHigh <=> h < SafeHigh
      /\ Word * (-SafeHigh) <= v <=> -SafeHigh <= h
  <2>1. -m \in Int /\ -SafeHigh \in Int
    BY <1>1, <1>3
  <2> QED BY <1>1, <1>3, <2>1, QuotientWithin
<1> HIDE DEF h, l
<1>5. Word * (-m) = -(Word * m) /\ Word * (-SafeHigh) = -(Word * SafeHigh) /\ Word * m \in Int
  BY <1>1, <1>3
<1>6. -m <= h /\ h < m
  <2>1. -(Word * m) <= v /\ v < Word * m
    <3> DEFINE x == Word * m
    <3> HIDE DEF x
    <3>1. x \in Int /\ Word * Word = 2 * x
      BY <1>3, <1>5 DEF x
    <3>2. -x <= v /\ v < x
      BY <3>1
    <3> QED BY <3>2 DEF x
  <2> QED BY <1>4, <1>5, <2>1
<1>7. IntAt(s, r, 4) = h
  BY <1>2, <1>3, <1>6
<1>8. Int64At(s, r) = h * Word + l
  BY <1>2, <1>7 DEF Int64At
<1>9. h * Word = Word * h
  BY <1>1, <1>2
<1>10. IntIsNumber(s, r) <=> ((h > -SafeHigh /\ h < SafeHigh) \/ (h = -SafeHigh /\ l # 0))
  BY <1>2, <1>7 DEF IntIsNumber
<1>11. v <= MaxSafe <=> h < SafeHigh
  BY <1>1, <1>4
<1>12. -MaxSafe <= v <=> -SafeHigh <= h /\ ~(h = -SafeHigh /\ l = 0)
  <2>1. -MaxSafe <= v <=> -(Word * SafeHigh) <= v /\ v # -(Word * SafeHigh)
    BY <1>1
  <2>2. -(Word * SafeHigh) <= v <=> -SafeHigh <= h
    BY <1>4, <1>5
  <2>3. v = -(Word * SafeHigh) <=> h = -SafeHigh /\ l = 0
    <3>1. ASSUME h = -SafeHigh, l = 0 PROVE v = -(Word * SafeHigh)
      <4>1. Word * h = Word * (-SafeHigh)
        BY <3>1
      <4> QED BY <1>1, <1>2, <1>5, <3>1, <4>1
    <3>2. ASSUME v = -(Word * SafeHigh) PROVE h = -SafeHigh /\ l = 0
      <4>1. v = Word * (-SafeHigh) + 0 /\ -SafeHigh \in Int /\ 0 \in 0..(Word - 1)
        BY <1>1, <1>5, <3>2
      <4>2. v \div Word = -SafeHigh /\ v % Word = 0
        BY <1>1, <4>1, IntDivModUnique
      <4> QED BY <4>2 DEF h, l
    <3> QED BY <3>1, <3>2
  <2> QED BY <2>1, <2>2, <2>3
<1>13. IntIsNumber(s, r) <=> v \in -MaxSafe..MaxSafe
  BY <1>1, <1>2, <1>10, <1>11, <1>12
<1> QED BY <1>2, <1>8, <1>9, <1>13

-----------------------------------------------------------------------------
(* deserialize, from a value to what is nested in it.                      *)

\* nested tells what deserialize finds behind the reader.
Behind(s, r, nested) ==
  \A d \in 1..Remaining(r) : nested[r.pos + d] = NextValue(s, Moved(r, d))

\* What next() finds behind a position is what deserialize finds there.
LEMMA NextUnfolds ==
  ASSUME NEW s, NEW r, IsReader(s, r), Remaining(r) > 0
  PROVE  \E nested : NextValue(s, r) = NextAt(s, r, nested) /\ Behind(s, r, nested)
<1> DEFINE N == Remaining(r)
<1>1. N \in Nat /\ r.pos \in Nat /\ Sees(s, r, s, r)
  <2>1. N \in Nat
    BY ReaderFacts
  <2> QED BY <2>1 DEF IsReader, Sees
<1>2. PICK f : NextValue(s, r) = f[N][r.pos] /\ ByDepth(s, r, f)
  BY NextSteps
<1> DEFINE nested == f[N - 1]
<1>3. NextValue(s, r) = NextAt(s, r, nested)
  <2>1. [r EXCEPT !.pos = r.pos] = r
    BY DEF IsReader
  <2>2. N \in 0..N /\ N # 0
    BY <1>1
  <2>3. f[N][r.pos] = NextAt(s, [r EXCEPT !.pos = r.pos], f[N - 1])
    BY <1>1, <1>2, <2>2, Zenon DEF ByDepth
  <2> QED BY <1>2, <2>1, <2>3
<1>4. ASSUME NEW d \in 1..N PROVE nested[r.pos + d] = NextValue(s, Moved(r, d))
  <2> DEFINE m == Moved(r, d)
  <2>1. /\ IsReader(s, m) /\ Remaining(m) = N - d /\ m.pos = r.pos + d
        /\ d \in 0..N /\ N - d \in Nat
    <3>1. d \in 0..N
      BY <1>1
    <3> QED BY <1>1, <3>1, ReaderFacts
  <2>2. PICK g : NextValue(s, m) = g[N - d][m.pos] /\ ByDepth(s, m, g)
    BY <2>1, NextSteps
  <2>3. Carries(f[N - d][r.pos + d], m, f[N - 1][r.pos + d], m, 1)
    <3>1. N - d \in (N - d)..N /\ N - 1 \in (N - d)..N
      BY <1>1
    <3> QED BY <1>1, <1>2, <2>1, <3>1, SameDepths
  <2>4. ByDepth(s, m, f)
    <3> SUFFICES ASSUME NEW depth \in 0..(N - d), NEW p \in Nat
                 PROVE  f[depth][p] = IF depth = 0 THEN Incomplete
                                      ELSE NextAt(s, [m EXCEPT !.pos = p], f[depth - 1])
      BY <2>1 DEF ByDepth
    <3>1. [m EXCEPT !.pos = p] = [r EXCEPT !.pos = p]
      BY DEF Moved, IsReader
    <3>2. depth \in 0..N
      BY <1>1
    <3>3. f[depth][p] = IF depth = 0 THEN Incomplete
                        ELSE NextAt(s, [r EXCEPT !.pos = p], f[depth - 1])
      BY <1>2, <3>2, Zenon DEF ByDepth
    <3> QED BY <3>1, <3>3
  <2> HIDE DEF m, N
  <2>5. Carries(f[N - d][m.pos + 0], Moved(m, 0), g[N - d][m.pos + 0], Moved(m, 0), 1)
    <3>1. Sees(s, m, s, m) /\ 0 \in 0..Remaining(m) /\ N - d \in (Remaining(m) - 0)..Remaining(m)
      BY <2>1 DEF Sees
    <3> QED BY <2>2, <2>4, <3>1, SameDepths
  <2>6. m.pos + 0 = m.pos
    BY <2>1 DEF IsReader
  <2>7. \A o, p, q : Carries(o, q, p, q, 1) /\ Remaining(q) \in Nat => o = p
    BY DEF Carries
  <2>8. Remaining(m) \in Nat /\ Remaining(Moved(m, 0)) \in Nat
    <3>1. 0 \in 0..Remaining(m)
      BY <2>1
    <3> QED BY <2>1, <3>1, ReaderFacts
  <2>9. f[N - d][m.pos] = g[N - d][m.pos]
    BY <2>5, <2>6, <2>7, <2>8
  <2>10. f[N - d][r.pos + d] = f[N - 1][r.pos + d]
    BY <2>3, <2>7, <2>8
  <2>11. NextValue(s, m) = f[N - 1][r.pos + d]
    BY <2>1, <2>2, <2>9, <2>10
  <2> QED BY <2>11 DEF m
<1>5. Behind(s, r, nested)
  BY <1>4 DEF Behind
<1> QED BY <1>3, <1>5

\* Where no byte is left there is no value.
LEMMA NoneLeft ==
  ASSUME NEW s, NEW r, IsReader(s, r), Remaining(r) = 0
  PROVE  NextValue(s, r) = Incomplete
<1>1. PICK f : NextValue(s, r) = f[0][r.pos] /\ ByDepth(s, r, f)
  BY NextSteps
<1>2. r.pos \in Nat /\ 0 \in 0..Remaining(r)
  BY DEF IsReader
<1>3. f[0][r.pos] = Incomplete
  BY <1>1, <1>2 DEF ByDepth
<1> QED BY <1>1, <1>3

\* What follows the format of a small number.
LEMMA PositiveContent ==
  ASSUME NEW s, NEW f \in Nat, f < 128, NEW field, NEW r, NEW length, NEW nested
  PROVE  ContentAt(s, f, field, r, length, nested) = Value(<<"number", f>>, r)
<1>1. /\ f < Formats.fixmap
      /\ ~(f >= Formats.negative_fixint)
      /\ ~IsMap(f)
      /\ ~IsArray(f)
      /\ ~IsNumber(f)
      /\ ~IsExt(f)
      /\ ~IsBinary(f)
      /\ ~IsString(f)
      /\ f \notin {Formats.boolean_false, Formats.boolean_true}
      /\ f \notin {Formats.nil, Formats.never_used}
  BY DEF Formats, IsMap, IsArray, IsString, IsBinary, IsExt, IsNumber
<1> QED BY <1>1 DEF ContentAt

\* What follows the format of a small negative number.
LEMMA NegativeContent ==
  ASSUME NEW s, NEW f \in Nat, f >= 224, NEW field, NEW r, NEW length, NEW nested
  PROVE  ContentAt(s, f, field, r, length, nested) = Value(<<"number", (f % 32) + NegativeFix>>, r)
<1>1. /\ ~(f < Formats.fixmap)
      /\ f >= Formats.negative_fixint
      /\ ~IsMap(f)
      /\ ~IsArray(f)
      /\ ~IsNumber(f)
      /\ ~IsExt(f)
      /\ ~IsBinary(f)
      /\ ~IsString(f)
      /\ f \notin {Formats.boolean_false, Formats.boolean_true}
      /\ f \notin {Formats.nil, Formats.never_used}
  BY DEF Formats, IsMap, IsArray, IsString, IsBinary, IsExt, IsNumber
<1> QED BY <1>1 DEF ContentAt

\* What follows the format of a number.
LEMMA NumberContent ==
  ASSUME NEW s, NEW f \in Nat, IsNumber(f), NEW field, NEW r, NEW length, NEW nested
  PROVE  ContentAt(s, f, field, r, length, nested) = Value(NumberAt(s, field, f), r)
<1>1. /\ ~(f < Formats.fixmap)
      /\ ~(f >= Formats.negative_fixint)
      /\ ~IsMap(f)
      /\ ~IsArray(f)
      /\ IsNumber(f)
      /\ ~IsExt(f)
      /\ ~IsBinary(f)
      /\ ~IsString(f)
      /\ f \notin {Formats.boolean_false, Formats.boolean_true}
      /\ f \notin {Formats.nil, Formats.never_used}
  BY DEF Formats, IsMap, IsArray, IsString, IsBinary, IsExt, IsNumber
<1> QED BY <1>1 DEF ContentAt

\* The items of an array, or of a map, make it.
Wrap(keys, items) == IF keys THEN <<"object", ObjectOf(items)>> ELSE <<"array", items>>

Wrapped(keys, x) ==
  IF x.kind = "value" THEN Value(Wrap(keys, x.value), x.reader) ELSE x

\* What is found of the items of an array and of a map.
ArrayAt(r, n, nested) == Wrapped(FALSE, Items(r, n, FALSE, nested))
MapAt(r, n, nested) == Wrapped(TRUE, Items(r, 2 * n, TRUE, nested))

\* What follows the format of a map.
LEMMA MapContent ==
  ASSUME NEW s, NEW f \in Nat, IsMap(f), NEW field, NEW r, NEW length, NEW nested
  PROVE  ContentAt(s, f, field, r, length, nested) = MapAt(r, length, nested)
<1>1. /\ ~(f < Formats.fixmap)
      /\ ~(f >= Formats.negative_fixint)
      /\ IsMap(f)
      /\ ~IsArray(f)
      /\ ~IsNumber(f)
      /\ ~IsExt(f)
      /\ ~IsBinary(f)
      /\ ~IsString(f)
      /\ f \notin {Formats.boolean_false, Formats.boolean_true}
      /\ f \notin {Formats.nil, Formats.never_used}
  BY DEF Formats, IsMap, IsArray, IsString, IsBinary, IsExt, IsNumber
<1> QED BY <1>1 DEF ContentAt, MapAt, Wrapped, Wrap

\* What follows the format of an array.
LEMMA ArrayContent ==
  ASSUME NEW s, NEW f \in Nat, IsArray(f), NEW field, NEW r, NEW length, NEW nested
  PROVE  ContentAt(s, f, field, r, length, nested) = ArrayAt(r, length, nested)
<1>1. /\ ~(f < Formats.fixmap)
      /\ ~(f >= Formats.negative_fixint)
      /\ ~IsMap(f)
      /\ IsArray(f)
      /\ ~IsNumber(f)
      /\ ~IsExt(f)
      /\ ~IsBinary(f)
      /\ ~IsString(f)
      /\ f \notin {Formats.boolean_false, Formats.boolean_true}
      /\ f \notin {Formats.nil, Formats.never_used}
  BY DEF Formats, IsMap, IsArray, IsString, IsBinary, IsExt, IsNumber
<1> QED BY <1>1 DEF ContentAt, ArrayAt, Wrapped, Wrap

\* What follows the format of an extension.
LEMMA ExtContent ==
  ASSUME NEW s, NEW f \in Nat, IsExt(f), NEW field, NEW r, NEW length, NEW nested
  PROVE  LET o == ContentAt(s, f, field, r, length, nested)
             data == Moved(r, 1)
             x == HandleExtension(s, IntAt(s, r, 1), SubReader(data, length))
         IN  o = IF ~HasBytes(data, length) THEN Incomplete
                 ELSE IF x.kind = "value" THEN Value(x.value, Moved(data, length))
                 ELSE x
<1>1. /\ ~(f < Formats.fixmap)
      /\ ~(f >= Formats.negative_fixint)
      /\ ~IsMap(f)
      /\ ~IsArray(f)
      /\ ~IsNumber(f)
      /\ IsExt(f)
      /\ ~IsBinary(f)
      /\ ~IsString(f)
      /\ f \notin {Formats.boolean_false, Formats.boolean_true}
      /\ f \notin {Formats.nil, Formats.never_used}
  BY DEF Formats, IsMap, IsArray, IsString, IsBinary, IsExt, IsNumber
<1> QED BY <1>1 DEF ContentAt

\* What follows the format of binary data.
LEMMA BinaryContent ==
  ASSUME NEW s, NEW f \in Nat, IsBinary(f), NEW field, NEW r, NEW length, NEW nested
  PROVE  ContentAt(s, f, field, r, length, nested)
           = IF ~HasBytes(r, length) THEN Incomplete
             ELSE Value(<<"bytes", BytesOf(s, r, length)>>, Moved(r, length))
<1>1. /\ ~(f < Formats.fixmap)
      /\ ~(f >= Formats.negative_fixint)
      /\ ~IsMap(f)
      /\ ~IsArray(f)
      /\ ~IsNumber(f)
      /\ ~IsExt(f)
      /\ IsBinary(f)
      /\ ~IsString(f)
      /\ f \notin {Formats.boolean_false, Formats.boolean_true}
      /\ f \notin {Formats.nil, Formats.never_used}
  BY DEF Formats, IsMap, IsArray, IsString, IsBinary, IsExt, IsNumber
<1> QED BY <1>1 DEF ContentAt

\* What follows the format of a text.
LEMMA StringContent ==
  ASSUME NEW s, NEW f \in Nat, IsString(f), NEW field, NEW r, NEW length, NEW nested
  PROVE  ContentAt(s, f, field, r, length, nested)
           = IF ~HasBytes(r, length) THEN Incomplete
             ELSE Value(<<"string", Decoded(BytesOf(s, r, length))>>, Moved(r, length))
<1>1. /\ ~(f < Formats.fixmap)
      /\ ~(f >= Formats.negative_fixint)
      /\ ~IsMap(f)
      /\ ~IsArray(f)
      /\ ~IsNumber(f)
      /\ ~IsExt(f)
      /\ ~IsBinary(f)
      /\ IsString(f)
      /\ f \notin {Formats.boolean_false, Formats.boolean_true}
      /\ f \notin {Formats.nil, Formats.never_used}
  BY DEF Formats, IsMap, IsArray, IsString, IsBinary, IsExt, IsNumber
<1> QED BY <1>1 DEF ContentAt

\* What follows the format of a boolean.
LEMMA BooleanContent ==
  ASSUME NEW s, NEW f \in Nat, f \in {194, 195}, NEW field, NEW r, NEW length, NEW nested
  PROVE  ContentAt(s, f, field, r, length, nested) = Value(<<"boolean", f = 195>>, r)
<1>1. /\ ~(f < Formats.fixmap)
      /\ ~(f >= Formats.negative_fixint)
      /\ ~IsMap(f)
      /\ ~IsArray(f)
      /\ ~IsNumber(f)
      /\ ~IsExt(f)
      /\ ~IsBinary(f)
      /\ ~IsString(f)
      /\ f \in {Formats.boolean_false, Formats.boolean_true}
      /\ f \notin {Formats.nil, Formats.never_used}
  BY DEF Formats, IsMap, IsArray, IsString, IsBinary, IsExt, IsNumber
<1> QED BY <1>1 DEF ContentAt, Formats

\* What follows the format of nil.
LEMMA NilContent ==
  ASSUME NEW s, NEW f \in Nat, f \in {192, 193}, NEW field, NEW r, NEW length, NEW nested
  PROVE  ContentAt(s, f, field, r, length, nested) = Value(<<"undefined">>, r)
<1>1. /\ ~(f < Formats.fixmap)
      /\ ~(f >= Formats.negative_fixint)
      /\ ~IsMap(f)
      /\ ~IsArray(f)
      /\ ~IsNumber(f)
      /\ ~IsExt(f)
      /\ ~IsBinary(f)
      /\ ~IsString(f)
      /\ f \notin {Formats.boolean_false, Formats.boolean_true}
      /\ f \in {Formats.nil, Formats.never_used}
  BY DEF Formats, IsMap, IsArray, IsString, IsBinary, IsExt, IsNumber
<1> QED BY <1>1 DEF ContentAt

\* The length that a format and its field tell.
LengthOf(f, w) == IF Len(w) = 0 THEN FixLength(f) ELSE ToUint(w)

\* A format and its field, and what they are followed by.
LEMMA HeadRead ==
  ASSUME NEW s, NEW r, NEW f \in Nat, NEW w \in Seq(Nat), FieldBytes(f) = Len(w),
         Holds(s, r, <<f>> \o w)
  PROVE  /\ Holds(s, Moved(r, 1), w)
         /\ \E nested :
              /\ NextValue(s, r)
                   = ContentAt(s, f, Moved(r, 1), Moved(r, 1 + Len(w)), LengthOf(f, w), nested)
              /\ Behind(s, r, nested)
<1> DEFINE length == LengthOf(f, w)
           k == Len(w)
           m == Moved(r, 1)
<1>1. <<f>> \in Seq(Nat) /\ Len(<<f>>) = 1 /\ k \in Nat
  OBVIOUS
<1>2. Holds(s, r, <<f>>) /\ Holds(s, m, w)
  BY <1>1, HoldsJoin
<1>3. /\ IsReader(s, r) /\ Remaining(r) \in Nat /\ 1 \in 0..Remaining(r)
      /\ HasBytes(r, 1) /\ BytesOf(s, r, 1) = <<f>>
  BY <1>1, <1>2, HoldsFacts
<1>4. UintAt(s, r, 1) = f
  BY <1>3, UintOfOne DEF UintAt
<1>5. HasBytes(m, k) /\ BytesOf(s, m, k) = w
  BY <1>2, HoldsFacts
<1>6. Moved(m, k) = Moved(r, 1 + k)
  BY <1>1, <1>3, MovedTwice
<1>7. PICK nested : NextValue(s, r) = NextAt(s, r, nested) /\ Behind(s, r, nested)
  <2>1. Remaining(r) > 0
    BY <1>3
  <2> QED BY <1>3, <2>1, NextUnfolds
<1>8. NextAt(s, r, nested) = ContentAt(s, f, m, Moved(m, k), length, nested)
  <2>1. UintAt(s, m, k) = ToUint(w)
    BY <1>5 DEF UintAt
  <2> HIDE DEF m
  <2>2. (IF FieldBytes(f) = 0 THEN FixLength(f) ELSE UintAt(s, m, FieldBytes(f))) = length
    BY <2>1 DEF LengthOf
  <2> HIDE DEF length
  <2>3. NextAt(s, r, nested)
          = ContentAt(s, f, m, Moved(m, FieldBytes(f)),
                      IF FieldBytes(f) = 0 THEN FixLength(f) ELSE UintAt(s, m, FieldBytes(f)), nested)
    <3>1. FieldBytes(UintAt(s, r, 1)) = k
      BY <1>4
    <3> QED BY <1>3, <1>4, <1>5, <3>1, Zenon DEF NextAt, m
  <2> QED BY <2>2, <2>3
<1> QED BY <1>2, <1>6, <1>7, <1>8, Zenon

-----------------------------------------------------------------------------
(* What is written and what is read of it.                                 *)

\* Wherever w lies in a buffer, deserialize reads v there, and nothing else of it.
ReadsAs(w, v) ==
  /\ w \in Seq(Nat) /\ Len(w) >= 1
  /\ \A s, r : Holds(s, r, w) => NextValue(s, r) = Value(v, Moved(r, Len(w)))

\* h is a header of the format f with the field w, which tell the length n.
IsHeader(h, f, w, n) ==
  /\ f \in Nat /\ w \in Seq(Nat) /\ FieldBytes(f) = Len(w)
  /\ h = <<f>> \o w
  /\ n = LengthOf(f, w)

\* What follows a header.
LEMMA HeaderRead ==
  ASSUME NEW s, NEW r, NEW h, NEW f, NEW w, NEW n, IsHeader(h, f, w, n),
         NEW body \in Seq(Nat), Holds(s, r, h \o body)
  PROVE  /\ h \in Seq(Nat) /\ Len(h) = 1 + Len(w) /\ Len(h) \in 1..Remaining(r)
         /\ Holds(s, Moved(r, Len(h)), body)
         /\ Holds(s, Moved(r, 1), w)
         /\ \E nested :
              /\ NextValue(s, r) = ContentAt(s, f, Moved(r, 1), Moved(r, Len(h)), n, nested)
              /\ Behind(s, r, nested)
<1>1. /\ f \in Nat /\ w \in Seq(Nat) /\ FieldBytes(f) = Len(w) /\ h = <<f>> \o w
      /\ n = LengthOf(f, w)
  BY DEF IsHeader
<1>2. h \in Seq(Nat) /\ Len(h) = 1 + Len(w) /\ Len(w) \in Nat
  <2>1. <<f>> \in Seq(Nat) /\ Len(<<f>>) = 1
    BY <1>1
  <2>2. <<f>> \o w \in Seq(Nat) /\ Len(<<f>> \o w) = Len(<<f>>) + Len(w)
    BY <1>1, <2>1, JoinFacts
  <2> QED BY <1>1, <2>1, <2>2
<1>3. Holds(s, r, h) /\ Holds(s, Moved(r, Len(h)), body)
  BY <1>2, HoldsJoin
<1>4. Len(h) \in 1..Remaining(r)
  BY <1>2, <1>3, HoldsFacts
<1>5. /\ Holds(s, Moved(r, 1), w)
      /\ \E nested :
           /\ NextValue(s, r)
                = ContentAt(s, f, Moved(r, 1), Moved(r, 1 + Len(w)), LengthOf(f, w), nested)
           /\ Behind(s, r, nested)
  <2>1. Holds(s, r, <<f>> \o w)
    BY <1>1, <1>3
  <2> QED BY <1>1, <2>1, HeadRead
<1> QED BY <1>1, <1>2, <1>3, <1>4, <1>5

\* A header with nothing behind it.
LEMMA HeaderAlone ==
  ASSUME NEW s, NEW r, NEW h, NEW f, NEW w, NEW n, IsHeader(h, f, w, n), Holds(s, r, h)
  PROVE  /\ h \in Seq(Nat) /\ Len(h) >= 1
         /\ Holds(s, Moved(r, 1), w)
         /\ \E nested :
              /\ NextValue(s, r) = ContentAt(s, f, Moved(r, 1), Moved(r, Len(h)), n, nested)
              /\ Behind(s, r, nested)
<1> DEFINE none == <<>>
<1>1. h \in Seq(Nat) /\ none \in Seq(Nat)
  BY HoldsFacts
<1>2. h \o none = h
  BY <1>1
<1> HIDE DEF none
<1>3. Holds(s, r, h \o none)
  BY <1>2
<1>4. /\ Len(h) \in 1..Remaining(r) /\ Holds(s, Moved(r, 1), w)
      /\ \E nested :
           /\ NextValue(s, r) = ContentAt(s, f, Moved(r, 1), Moved(r, Len(h)), n, nested)
           /\ Behind(s, r, nested)
  BY <1>1, <1>3, HeaderRead
<1> QED BY <1>1, <1>4

\* A format that is a value of its own.
LEMMA OneByteRead ==
  ASSUME NEW f \in Nat
  PROVE  /\ f < 128 => ReadsAs(<<f>>, <<"number", f>>)
         /\ f \in 224..255 => ReadsAs(<<f>>, <<"number", (f % 32) + NegativeFix>>)
         /\ f \in {194, 195} => ReadsAs(<<f>>, <<"boolean", f = 195>>)
         /\ f \in {192, 193} => ReadsAs(<<f>>, <<"undefined">>)
<1> SUFFICES ASSUME f < 128 \/ f \in 224..255 \/ f \in 192..195
             PROVE  /\ <<f>> \in Seq(Nat) /\ Len(<<f>>) = 1
                    /\ \A s, r : Holds(s, r, <<f>>) =>
                         \E field, n, nested :
                           NextValue(s, r) = ContentAt(s, f, field, Moved(r, 1), n, nested)
  <2>1. ASSUME NEW v,
               \A s, field, r, n, nested : ContentAt(s, f, field, r, n, nested) = Value(v, r),
               <<f>> \in Seq(Nat) /\ Len(<<f>>) = 1,
               \A s, r : Holds(s, r, <<f>>) =>
                 \E field, n, nested :
                   NextValue(s, r) = ContentAt(s, f, field, Moved(r, 1), n, nested)
        PROVE  ReadsAs(<<f>>, v)
    <3>1. ASSUME NEW s, NEW r, Holds(s, r, <<f>>)
          PROVE  NextValue(s, r) = Value(v, Moved(r, Len(<<f>>)))
      <4>1. PICK field, n, nested : NextValue(s, r) = ContentAt(s, f, field, Moved(r, 1), n, nested)
        BY <2>1, <3>1
      <4> QED BY <2>1, <4>1
    <3> QED BY <2>1, <3>1 DEF ReadsAs
  <2>2. ASSUME f < 128, NEW s, NEW field, NEW r, NEW n, NEW nested
        PROVE  ContentAt(s, f, field, r, n, nested) = Value(<<"number", f>>, r)
    BY <2>2, PositiveContent
  <2>3. ASSUME f >= 224, NEW s, NEW field, NEW r, NEW n, NEW nested
        PROVE  ContentAt(s, f, field, r, n, nested)
                 = Value(<<"number", (f % 32) + NegativeFix>>, r)
    BY <2>3, NegativeContent
  <2>4. ASSUME f \in {194, 195}, NEW s, NEW field, NEW r, NEW n, NEW nested
        PROVE  ContentAt(s, f, field, r, n, nested) = Value(<<"boolean", f = 195>>, r)
    BY <2>4, BooleanContent
  <2>5. ASSUME f \in {192, 193}, NEW s, NEW field, NEW r, NEW n, NEW nested
        PROVE  ContentAt(s, f, field, r, n, nested) = Value(<<"undefined">>, r)
    BY <2>5, NilContent
  <2> QED BY <2>1, <2>2, <2>3, <2>4, <2>5
<1> DEFINE h == <<f>>
           none == <<>>
<1>1. /\ h \in Seq(Nat) /\ Len(h) = 1
      /\ none \in Seq(Nat) /\ Len(none) = 0 /\ h = <<f>> \o none
  OBVIOUS
<1>2. FieldBytes(f) = 0
  BY DEF FieldBytes
<1> HIDE DEF h, none
<1>3. IsHeader(h, f, none, FixLength(f))
  BY <1>1, <1>2 DEF IsHeader, LengthOf
<1>4. ASSUME NEW s, NEW r, Holds(s, r, h)
      PROVE  \E field, n, nested :
               NextValue(s, r) = ContentAt(s, f, field, Moved(r, 1), n, nested)
  <2>1. \E nested : NextValue(s, r) = ContentAt(s, f, Moved(r, 1), Moved(r, Len(h)),
                                               FixLength(f), nested)
    BY <1>3, <1>4, HeaderAlone
  <2> QED BY <1>1, <2>1
<1> QED BY <1>1, <1>4 DEF h

\* A number in the field of its format.
LEMMA NumberRead ==
  ASSUME NEW f \in Nat, IsNumber(f), NEW w \in Seq(Nat), FieldBytes(f) = Len(w), NEW v,
         \A s, r : Holds(s, r, w) => NumberAt(s, r, f) = v
  PROVE  ReadsAs(<<f>> \o w, v)
<1> DEFINE h == <<f>> \o w
           n == LengthOf(f, w)
<1>1. IsHeader(h, f, w, n)
  BY DEF IsHeader
<1>2. <<f>> \in Seq(Nat) /\ h \in Seq(Nat) /\ Len(h) >= 1
  BY JoinFacts
<1> HIDE DEF h, n
<1>3. ASSUME NEW s, NEW r, Holds(s, r, h) PROVE NextValue(s, r) = Value(v, Moved(r, Len(h)))
  <2>1. Holds(s, Moved(r, 1), w)
    BY <1>1, <1>3, HeaderAlone
  <2>2. PICK nested : NextValue(s, r) = ContentAt(s, f, Moved(r, 1), Moved(r, Len(h)), n, nested)
    BY <1>1, <1>3, HeaderAlone
  <2>3. ContentAt(s, f, Moved(r, 1), Moved(r, Len(h)), n, nested)
          = Value(NumberAt(s, Moved(r, 1), f), Moved(r, Len(h)))
    BY NumberContent
  <2> QED BY <2>1, <2>2, <2>3
<1> QED BY <1>2, <1>3 DEF ReadsAs, h

-----------------------------------------------------------------------------
(* Numbers.                                                                *)

\* The least of a set of naturals.
LEMMA MinFacts ==
  ASSUME NEW S \in SUBSET Nat, S # {}
  PROVE  Min(S) \in S /\ \A n \in S : Min(S) <= n
<1>1. \E n \in S : \A m \in S : n <= m
  BY LeastNat
<1> QED BY <1>1 DEF Min

\* The first format that fits, or the one behind the last.
LEMMA UintFormatFacts ==
  ASSUME NEW n, NEW first \in Nat
  PROVE  LET f == UintFormat(n, first)
         IN  /\ f \in first..(first + 3)
             /\ f # first + 3 => FitsUint(n, f)
             /\ \A g \in first..(first + 2) : g < f => ~FitsUint(n, g)
<1> DEFINE S == {f \in first..(first + 2) : FitsUint(n, f)} \cup {first + 3}
<1>1. S \in SUBSET Nat /\ S # {}
  OBVIOUS
<1> HIDE DEF S
<1>2. Min(S) \in S /\ \A g \in S : Min(S) <= g
  BY <1>1, MinFacts
<1> QED BY <1>2 DEF S, UintFormat

\* So for integers below zero.
LEMMA IntFormatFacts ==
  ASSUME NEW n, NEW first \in Nat
  PROVE  LET f == IntFormat(n, first)
         IN  /\ f \in first..(first + 3)
             /\ f # first + 3 => FitsInt(n, f)
             /\ \A g \in first..(first + 2) : g < f => ~FitsInt(n, g)
<1> DEFINE S == {f \in first..(first + 2) : FitsInt(n, f)} \cup {first + 3}
<1>1. S \in SUBSET Nat /\ S # {}
  OBVIOUS
<1> HIDE DEF S
<1>2. Min(S) \in S /\ \A g \in S : Min(S) <= g
  BY <1>1, MinFacts
<1> QED BY <1>2 DEF S, IntFormat

\* Eight bytes.
LEMMA Bytes64Facts ==
  ASSUME NEW v \in Int
  PROVE  Bytes64(v) \in Seq(Nat) /\ Bytes64(v) \in Octets /\ Len(Bytes64(v)) = 8
<1> DEFINE h == v \div Word
           l == v % Word
           a == UintBytes(h, 4)
           b == UintBytes(l, 4)
<1>1. h \in Int /\ l \in Int
  <2>1. Word \in Nat \ {0}
    BY SafeFacts
  <2> HIDE DEF Word
  <2> QED BY <2>1, IntDivMod
<1> HIDE DEF h, l
<1>2. /\ a \in Seq(Nat) /\ a \in Octets /\ Len(a) = 4
      /\ b \in Seq(Nat) /\ b \in Octets /\ Len(b) = 4
  BY <1>1, UintBytesFacts
<1> HIDE DEF a, b
<1>3. a \o b \in Seq(Nat) /\ Len(a \o b) = 8
  <2>1. a \in Seq(Nat) /\ b \in Seq(Nat)
    BY <1>2
  <2>2. a \o b \in Seq(Nat) /\ Len(a \o b) = Len(a) + Len(b)
    BY <2>1, JoinFacts
  <2> QED BY <1>2, <2>2
<1>4. a \o b \in Octets
  <2> DEFINE S == 0..(ByteValues - 1)
  <2>1. a \in Seq(S) /\ b \in Seq(S)
    BY <1>2 DEF Octets
  <2> HIDE DEF S
  <2>2. a \o b \in Seq(S)
    BY <2>1, JoinFacts
  <2> QED BY <2>2 DEF Octets, S
<1> QED BY <1>3, <1>4 DEF Bytes64, a, b, h, l

\* An integer without a sign in one, two or four bytes.
LEMMA UintField ==
  ASSUME NEW f \in {204, 205, 206}, NEW v \in Nat, v < Power(ByteValues)[FieldBytes(f)]
  PROVE  ReadsAs(<<f>> \o UintBytes(v, FieldBytes(f)), <<"number", v>>)
<1> DEFINE k == FieldBytes(f)
           w == UintBytes(v, k)
<1>1. f \in Nat /\ IsNumber(f) /\ k \in Nat
  BY DEF IsNumber, FieldBytes
<1>2. v \in 0..(Power(ByteValues)[k] - 1)
  BY <1>1, WidthFacts
<1>3. w \in Seq(Nat) /\ Len(w) = k
  <2>1. v \in Int
    OBVIOUS
  <2> HIDE DEF k
  <2> QED BY <1>1, <2>1, UintBytesFacts
<1> HIDE DEF k, w
<1>4. ASSUME NEW s, NEW r, Holds(s, r, w) PROVE NumberAt(s, r, f) = <<"number", v>>
  <2>1. UintAt(s, r, k) = v
    BY <1>1, <1>2, <1>4, IntegerRead DEF w
  <2>2. NumberAt(s, r, f) = <<"number", UintAt(s, r, k)>>
    BY DEF NumberAt, k
  <2> QED BY <2>1, <2>2
<1>5. ReadsAs(<<f>> \o w, <<"number", v>>)
  BY <1>1, <1>3, <1>4, NumberRead DEF k
<1> QED BY <1>5 DEF w, k

\* One with a sign.
LEMMA IntField ==
  ASSUME NEW f \in {208, 209, 210}, NEW v \in Int,
         -Power(ByteValues)[FieldBytes(f)] <= 2 * v, 2 * v < Power(ByteValues)[FieldBytes(f)]
  PROVE  ReadsAs(<<f>> \o UintBytes(v, FieldBytes(f)), <<"number", v>>)
<1> DEFINE k == FieldBytes(f)
           w == UintBytes(v, k)
<1>1. f \in Nat /\ IsNumber(f) /\ k \in Nat
  BY DEF IsNumber, FieldBytes
<1>2. w \in Seq(Nat) /\ Len(w) = k
  BY <1>1, UintBytesFacts
<1> HIDE DEF k, w
<1>3. ASSUME NEW s, NEW r, Holds(s, r, w) PROVE NumberAt(s, r, f) = <<"number", v>>
  <2>1. IntAt(s, r, k) = v
    BY <1>1, <1>3, IntegerRead DEF w, k
  <2>2. NumberAt(s, r, f) = <<"number", IntAt(s, r, k)>>
    BY DEF NumberAt, k
  <2> QED BY <2>1, <2>2
<1>4. ReadsAs(<<f>> \o w, <<"number", v>>)
  BY <1>1, <1>2, <1>3, NumberRead DEF k
<1> QED BY <1>4 DEF w, k

\* The type of an integer that is read from eight bytes.
TypeOf(v) == IF v \in -MaxSafe..MaxSafe THEN "number" ELSE "bigint"

\* An integer without a sign in eight bytes.
LEMMA Uint64Field ==
  ASSUME NEW v \in 0..(Word * Word - 1)
  PROVE  ReadsAs(<<207>> \o Bytes64(v), <<TypeOf(v), v>>)
<1> DEFINE w == Bytes64(v)
<1>1. 207 \in Nat /\ IsNumber(207) /\ FieldBytes(207) = 8
  BY DEF IsNumber, FieldBytes
<1>2. v \in Int /\ v >= 0 /\ MaxSafe \in Nat
  <2>1. Word * Word \in Int
    BY SafeFacts
  <2> QED BY <2>1, SafeFacts
<1>3. w \in Seq(Nat) /\ Len(w) = 8
  BY <1>2, Bytes64Facts
<1> HIDE DEF w
<1>4. ASSUME NEW s, NEW r, Holds(s, r, w) PROVE NumberAt(s, r, 207) = <<TypeOf(v), v>>
  <2>1. Uint64At(s, r) = v /\ (UintIsNumber(s, r) <=> v <= MaxSafe)
    BY <1>4, Uint64Read DEF w
  <2>2. NumberAt(s, r, 207) = <<IF UintIsNumber(s, r) THEN "number" ELSE "bigint", Uint64At(s, r)>>
    BY DEF NumberAt
  <2>3. (IF UintIsNumber(s, r) THEN "number" ELSE "bigint") = TypeOf(v)
    BY <1>2, <2>1 DEF TypeOf
  <2> QED BY <2>1, <2>2, <2>3
<1>5. ReadsAs(<<207>> \o w, <<TypeOf(v), v>>)
  <2> DEFINE f == 207
             x == <<TypeOf(v), v>>
  <2>1. f \in Nat /\ IsNumber(f) /\ FieldBytes(f) = Len(w)
        /\ \A s, r : Holds(s, r, w) => NumberAt(s, r, f) = x
    BY <1>1, <1>3, <1>4
  <2> HIDE DEF f, x
  <2>2. ReadsAs(<<f>> \o w, x)
    BY <1>3, <2>1, NumberRead
  <2> QED BY <2>2 DEF f, x
<1> QED BY <1>5 DEF w

\* One with a sign.
LEMMA Int64Field ==
  ASSUME NEW v \in Int, -(Word * Word) <= 2 * v, 2 * v < Word * Word
  PROVE  ReadsAs(<<211>> \o Bytes64(v), <<TypeOf(v), v>>)
<1> DEFINE w == Bytes64(v)
<1>1. 211 \in Nat /\ IsNumber(211) /\ FieldBytes(211) = 8
  BY DEF IsNumber, FieldBytes
<1>2. w \in Seq(Nat) /\ Len(w) = 8
  BY Bytes64Facts
<1> HIDE DEF w
<1>3. ASSUME NEW s, NEW r, Holds(s, r, w) PROVE NumberAt(s, r, 211) = <<TypeOf(v), v>>
  <2>1. Int64At(s, r) = v /\ (IntIsNumber(s, r) <=> v \in -MaxSafe..MaxSafe)
    BY <1>3, Int64Read DEF w
  <2>2. NumberAt(s, r, 211) = <<IF IntIsNumber(s, r) THEN "number" ELSE "bigint", Int64At(s, r)>>
    BY DEF NumberAt
  <2>3. (IF IntIsNumber(s, r) THEN "number" ELSE "bigint") = TypeOf(v)
    BY <2>1 DEF TypeOf
  <2> QED BY <2>1, <2>2, <2>3
<1>4. ReadsAs(<<211>> \o w, <<TypeOf(v), v>>)
  <2> DEFINE f == 211
             x == <<TypeOf(v), v>>
  <2>1. f \in Nat /\ IsNumber(f) /\ FieldBytes(f) = Len(w)
        /\ \A s, r : Holds(s, r, w) => NumberAt(s, r, f) = x
    BY <1>1, <1>2, <1>3
  <2> HIDE DEF f, x
  <2>2. ReadsAs(<<f>> \o w, x)
    BY <1>2, <2>1, NumberRead
  <2> QED BY <2>2 DEF f, x
<1> QED BY <1>4 DEF w

\* What no value is promised for is read as a value of its length or not at all.
ReadsSome(w) ==
  /\ w \in Seq(Nat) /\ Len(w) >= 1
  /\ \A s, r : Holds(s, r, w) =>
       \/ NextValue(s, r) \in {Incomplete, Failed}
       \/ \E v : NextValue(s, r) = Value(v, Moved(r, Len(w)))

\* What is read back is a value.
LEMMA ReadsAsSome ==
  ASSUME NEW w, NEW v, ReadsAs(w, v)
  PROVE  ReadsSome(w)
BY DEF ReadsAs, ReadsSome

\* A number is read, whichever it is.
LEMMA SomeNumber ==
  ASSUME NEW f \in Nat, IsNumber(f), NEW w \in Seq(Nat), FieldBytes(f) = Len(w)
  PROVE  ReadsSome(<<f>> \o w)
<1> DEFINE h == <<f>> \o w
           n == LengthOf(f, w)
<1>1. IsHeader(h, f, w, n)
  BY DEF IsHeader
<1>2. <<f>> \in Seq(Nat) /\ h \in Seq(Nat) /\ Len(h) >= 1
  BY JoinFacts
<1> HIDE DEF h, n
<1>3. ASSUME NEW s, NEW r, Holds(s, r, h)
      PROVE  \E v : NextValue(s, r) = Value(v, Moved(r, Len(h)))
  <2>1. PICK nested : NextValue(s, r) = ContentAt(s, f, Moved(r, 1), Moved(r, Len(h)), n, nested)
    BY <1>1, <1>3, HeaderAlone
  <2>2. ContentAt(s, f, Moved(r, 1), Moved(r, Len(h)), n, nested)
          = Value(NumberAt(s, Moved(r, 1), f), Moved(r, Len(h)))
    BY NumberContent
  <2> QED BY <2>1, <2>2, Zenon
<1> QED BY <1>2, <1>3 DEF ReadsSome, h

\* addInt: a safe integer, in whatever format.
LEMMA AddIntReads ==
  ASSUME NEW num \in -MaxSafe..MaxSafe
  PROVE  ReadsAs(AddInt(num), <<"number", num>>)
<1> DEFINE u == UintFormat(num, 204)
           i == IntFormat(num, 208)
           f == IF num >= 0 THEN u ELSE i
           k == FieldBytes(f)
<1>1. /\ num \in Int /\ MaxSafe \in Nat /\ 2 * MaxSafe < Word * Word /\ Word * Word \in Nat
      /\ NegativeFix \in -32..-1 /\ PositiveFix \in 0..127
  BY SafeFacts, MsgpackAssumption, SerializerAssumption DEF NegativeFix
<1>2. AddInt(num) = CASE num \in 0..PositiveFix -> <<num>>
                      [] num \in NegativeFix..-1 -> <<224 + num - NegativeFix>>
                      [] OTHER -> <<f>> \o (IF k = 8 THEN Bytes64(num) ELSE UintBytes(num, k))
  BY DEF AddInt, Formats
<1> HIDE DEF u, i
<1>3. CASE num \in 0..PositiveFix
  <2>1. num \in Nat /\ num < 128 /\ num \notin NegativeFix..-1
    BY <1>1, <1>3
  <2> HIDE DEF f, k
  <2>2. AddInt(num) = <<num>>
    BY <1>2, <1>3, <2>1
  <2> QED BY <2>1, <2>2, OneByteRead
<1>4. CASE num \in NegativeFix..-1
  <2> DEFINE g == 224 + num - NegativeFix
  <2>1. g \in 224..255 /\ (g % 32) + NegativeFix = num
    BY <1>1, <1>4
  <2>2. AddInt(num) = <<g>>
    BY <1>1, <1>2, <1>4
  <2> HIDE DEF g
  <2>3. g \in Nat
    BY <2>1
  <2>4. ReadsAs(<<g>>, <<"number", (g % 32) + NegativeFix>>)
    BY <2>1, <2>3, OneByteRead
  <2> QED BY <2>1, <2>2, <2>4
<1>5. CASE num \notin 0..PositiveFix /\ num \notin NegativeFix..-1
  <2>1. AddInt(num) = <<f>> \o (IF k = 8 THEN Bytes64(num) ELSE UintBytes(num, k))
    BY <1>2, <1>5
  <2>2. TypeOf(num) = "number"
    BY DEF TypeOf
  <2>3. CASE num >= 0
    <3>1. u \in 204..207 /\ (u # 207 => FitsUint(num, u))
      BY UintFormatFacts DEF u
    <3>2. CASE u = 207
      <4>1. AddInt(num) = <<207>> \o Bytes64(num)
        <5>1. k = 8
          BY <2>3, <3>2 DEF FieldBytes
        <5> QED BY <2>1, <2>3, <3>2, <5>1
      <4>2. num \in 0..(Word * Word - 1)
        BY <1>1, <2>3
      <4> QED BY <2>2, <4>1, <4>2, Uint64Field
    <3>3. CASE u # 207
      <4>1. u \in {204, 205, 206} /\ FieldBytes(u) # 8
        BY <3>1, <3>3 DEF FieldBytes
      <4>2. AddInt(num) = <<u>> \o UintBytes(num, FieldBytes(u))
        BY <2>1, <2>3, <4>1
      <4>3. num \in Nat /\ num < Power(ByteValues)[FieldBytes(u)]
        BY <1>1, <2>3, <3>1, <3>3 DEF FitsUint
      <4> QED BY <4>1, <4>2, <4>3, UintField
    <3> QED BY <3>2, <3>3
  <2>4. CASE num < 0
    <3>1. i \in 208..211 /\ (i # 211 => FitsInt(num, i))
      BY IntFormatFacts DEF i
    <3>2. CASE i = 211
      <4>1. AddInt(num) = <<211>> \o Bytes64(num)
        <5>1. k = 8 /\ ~(num >= 0)
          BY <1>1, <2>4, <3>2 DEF FieldBytes
        <5> QED BY <2>1, <3>2, <5>1
      <4>2. -(Word * Word) <= 2 * num /\ 2 * num < Word * Word
        <5> DEFINE x == Word * Word
        <5> HIDE DEF x
        <5>1. x \in Nat /\ 2 * MaxSafe < x
          BY <1>1 DEF x
        <5>2. -x <= 2 * num /\ 2 * num < x
          BY <1>1, <2>4, <5>1
        <5> QED BY <5>2 DEF x
      <4> QED BY <1>1, <2>2, <4>1, <4>2, Int64Field
    <3>3. CASE i # 211
      <4>1. i \in {208, 209, 210} /\ FieldBytes(i) # 8 /\ FieldBytes(i) \in Nat
        BY <3>1, <3>3 DEF FieldBytes
      <4>2. AddInt(num) = <<i>> \o UintBytes(num, FieldBytes(i))
        <5>1. ~(num >= 0)
          BY <1>1, <2>4
        <5> QED BY <2>1, <4>1, <5>1
      <4> DEFINE n == Power(ByteValues)[FieldBytes(i)]
      <4>3. num >= -(n \div 2) /\ n \in Nat
        BY <3>1, <3>3, <4>1, WidthFacts DEF FitsInt
      <4> HIDE DEF n
      <4>4. -n <= 2 * num /\ 2 * num < n
        <5>1. n = 2 * (n \div 2) + (n % 2) /\ n \div 2 \in Nat /\ n % 2 \in 0..1
          BY <4>3, DivMod
        <5> QED BY <1>1, <2>4, <4>3, <5>1
      <4>5. ReadsAs(<<i>> \o UintBytes(num, FieldBytes(i)), <<"number", num>>)
        BY <1>1, <4>1, <4>4, IntField DEF n
      <4> QED BY <4>2, <4>5
    <3> QED BY <3>2, <3>3
  <2> QED BY <1>1, <2>3, <2>4
<1> QED BY <1>3, <1>4, <1>5

\* addBigInt: an integer of up to 64 bits, and some value of any other.
LEMMA AddBigIntReads ==
  ASSUME NEW num \in Int
  PROVE  LET half == Power(ByteValues)[8] \div 2
         IN  /\ ReadsSome(AddBigInt(num))
             /\ num \in (-half)..(2 * half - 1) => ReadsAs(AddBigInt(num), <<TypeOf(num), num>>)
<1> DEFINE n == Word * Word
           half == Power(ByteValues)[8] \div 2
<1>1. n \in Nat /\ n = 2 * half /\ half \in Nat
  <2>1. PICK h \in Nat : Word * Word = 2 * (Word * h)
    BY SafeFacts
  <2> DEFINE x == Word * h
  <2>2. x \in Nat /\ Power(ByteValues)[8] = 2 * x
    BY <2>1, WidthFacts
  <2> HIDE DEF x
  <2>3. Power(ByteValues)[8] \div 2 = x
    BY <2>2
  <2> QED BY <2>2, <2>3, WidthFacts
<1> HIDE DEF half
<1>2. Bytes64(num) \in Seq(Nat) /\ Len(Bytes64(num)) = 8
  BY Bytes64Facts
<1>3. CASE num \in -MaxSafe..MaxSafe
  <2>1. AddBigInt(num) = AddInt(num) /\ TypeOf(num) = "number"
    BY <1>3 DEF AddBigInt, TypeOf
  <2>2. ReadsAs(AddBigInt(num), <<TypeOf(num), num>>)
    BY <1>3, <2>1, AddIntReads
  <2> QED BY <2>2, ReadsAsSome
<1>4. CASE num \notin -MaxSafe..MaxSafe /\ num >= 0
  <2>1. AddBigInt(num) = <<207>> \o Bytes64(num)
    BY <1>4 DEF AddBigInt, Formats
  <2>2. ReadsSome(AddBigInt(num))
    <3> DEFINE f == 207
    <3>1. f \in Nat /\ IsNumber(f) /\ FieldBytes(f) = 8
      BY DEF IsNumber, FieldBytes
    <3> HIDE DEF f
    <3>2. ReadsSome(<<f>> \o Bytes64(num))
      BY <1>2, <3>1, SomeNumber
    <3> QED BY <2>1, <3>2 DEF f
  <2>3. ASSUME num \in (-half)..(2 * half - 1) PROVE ReadsAs(AddBigInt(num), <<TypeOf(num), num>>)
    <3>1. num \in 0..(Word * Word - 1)
      <4>1. num \in 0..(n - 1)
        <5> HIDE DEF n
        <5> QED BY <1>1, <1>4, <2>3
      <4> QED BY <4>1
    <3> QED BY <2>1, <3>1, Uint64Field
  <2> QED BY <2>2, <2>3 DEF half
<1>5. CASE num \notin -MaxSafe..MaxSafe /\ num < 0
  <2>1. AddBigInt(num) = <<211>> \o Bytes64(num)
    <3>1. ~(num >= 0)
      BY <1>5
    <3> QED BY <1>5, <3>1 DEF AddBigInt, Formats
  <2>2. ReadsSome(AddBigInt(num))
    <3> DEFINE f == 211
    <3>1. f \in Nat /\ IsNumber(f) /\ FieldBytes(f) = 8
      BY DEF IsNumber, FieldBytes
    <3> HIDE DEF f
    <3>2. ReadsSome(<<f>> \o Bytes64(num))
      BY <1>2, <3>1, SomeNumber
    <3> QED BY <2>1, <3>2 DEF f
  <2>3. ASSUME num \in (-half)..(2 * half - 1) PROVE ReadsAs(AddBigInt(num), <<TypeOf(num), num>>)
    <3>1. -(Word * Word) <= 2 * num /\ 2 * num < Word * Word
      <4>1. -n <= 2 * num /\ 2 * num < n
        <5> HIDE DEF n
        <5> QED BY <1>1, <1>5, <2>3
      <4> QED BY <4>1
    <3> QED BY <2>1, <3>1, Int64Field
  <2> QED BY <2>2, <2>3 DEF half
<1> QED BY <1>3, <1>4, <1>5 DEF half

\* addFloat: the bytes of a double, or as many as a float has.
LEMMA AddFloatReads ==
  ASSUME NEW double \in [1..8 -> 0..(ByteValues - 1)]
  PROVE  /\ ReadsAs(AddFloat(double, FALSE), <<"float", double>>)
         /\ ReadsAs(AddFloat(double, TRUE), <<"float", FromFloat32(ToFloat32(double))>>)
<1> DEFINE four == ToFloat32(double)
<1>1. double \in Seq(Nat) /\ Len(double) = 8
  <2>1. double \in [1..8 -> Nat]
    BY WidthFacts
  <2> QED BY <2>1, IsSequence, ZenonT(30)
<1>2. four \in Seq(Nat) /\ Len(four) = 4
  <2>1. SubSeq(double, 0 + 1, 4) \in Seq(Nat) /\ Len(SubSeq(double, 0 + 1, 4)) = 4 - 0
    <3>1. 0 \in Nat /\ 4 \in 0..Len(double)
      BY <1>1
    <3> QED BY <1>1, <3>1, PartFacts
  <2> QED BY <2>1 DEF ToFloat32
<1> HIDE DEF four
<1>3. ReadsAs(<<203>> \o double, <<"float", double>>)
  <2> DEFINE f == 203
             x == <<"float", double>>
  <2>1. ASSUME NEW s, NEW r, Holds(s, r, double) PROVE NumberAt(s, r, f) = x
    <3>1. BytesOf(s, r, 8) = double
      BY <1>1, <2>1, HoldsFacts
    <3> QED BY <3>1 DEF NumberAt
  <2>2. f \in Nat /\ IsNumber(f) /\ FieldBytes(f) = Len(double)
    BY <1>1 DEF IsNumber, FieldBytes
  <2> HIDE DEF f, x
  <2>3. ReadsAs(<<f>> \o double, x)
    BY <1>1, <2>1, <2>2, NumberRead
  <2> QED BY <2>3 DEF f, x
<1>4. ReadsAs(<<202>> \o four, <<"float", FromFloat32(four)>>)
  <2> DEFINE f == 202
             x == <<"float", FromFloat32(four)>>
  <2>1. ASSUME NEW s, NEW r, Holds(s, r, four) PROVE NumberAt(s, r, f) = x
    <3>1. BytesOf(s, r, 4) = four
      BY <1>2, <2>1, HoldsFacts
    <3>2. NumberAt(s, r, 202) = <<"float", FromFloat32(BytesOf(s, r, 4))>>
      BY DEF NumberAt
    <3> QED BY <3>1, <3>2
  <2>2. f \in Nat /\ IsNumber(f) /\ FieldBytes(f) = Len(four)
    BY <1>2 DEF IsNumber, FieldBytes
  <2> HIDE DEF f, x
  <2>3. ReadsAs(<<f>> \o four, x)
    BY <1>2, <2>1, <2>2, NumberRead
  <2> QED BY <2>3 DEF f, x
<1> QED BY <1>3, <1>4 DEF AddFloat, Formats, four

-----------------------------------------------------------------------------
(* Headers with a length, and texts, binary data and extensions.           *)

\* A field of a length.
LEMMA FieldIs ==
  ASSUME NEW n \in Nat, NEW k \in Nat, n < Power(ByteValues)[k]
  PROVE  /\ UintBytes(n, k) \in Seq(Nat) /\ Len(UintBytes(n, k)) = k
         /\ ToUint(UintBytes(n, k)) = n
<1>1. n \in Int /\ n \in 0..(Power(ByteValues)[k] - 1)
  <2>1. Power(ByteValues)[k] \in Nat
    BY WidthFacts
  <2> QED BY <2>1
<1> QED BY <1>1, UintBytesFacts, OfBytes

\* A header with a length of less than 2^32.
LEMMA SizedHeader ==
  ASSUME NEW first \in {196, 199, 217}, NEW n \in 0..(Word - 1)
  PROVE  \E f \in first..(first + 2) : \E w : IsHeader(Sized(first, n), f, w, n)
<1> DEFINE f == UintFormat(n, first)
           k == FieldBytes(f)
           w == UintBytes(n, k)
<1>1. n \in Nat /\ first \in Nat /\ first + 2 \in {198, 201, 219}
  BY SafeFacts
<1>2. FitsUint(n, first + 2)
  <2>1. FieldBytes(first + 2) = 4
    BY <1>1 DEF FieldBytes
  <2> QED BY <2>1, WidthFacts DEF FitsUint
<1>3. f \in first..(first + 2) /\ FitsUint(n, f)
  <2>1. f \in first..(first + 3) /\ (f # first + 3 => FitsUint(n, f))
        /\ (first + 2 < f => ~FitsUint(n, first + 2))
    <3>1. first + 2 \in first..(first + 2)
      BY <1>1
    <3> QED BY <1>1, <3>1, UintFormatFacts
  <2> HIDE DEF f
  <2>2. ~(first + 2 < f)
    BY <1>2, <2>1
  <2> QED BY <1>1, <2>1, <2>2
<1> HIDE DEF f
<1>4. f \in Nat /\ k \in {1, 2, 4}
  <2>1. f \in Nat /\ f \in {196, 197, 198, 199, 200, 201, 217, 218, 219}
    BY <1>3
  <2> QED BY <2>1 DEF FieldBytes
<1>5. n < Power(ByteValues)[k]
  BY <1>3 DEF FitsUint
<1> HIDE DEF k
<1>6. w \in Seq(Nat) /\ Len(w) = k /\ ToUint(w) = n
  <2>1. k \in Nat
    BY <1>4
  <2> QED BY <1>1, <1>5, <2>1, FieldIs
<1>7. Sized(first, n) = <<f>> \o w
  BY DEF Sized, f, k
<1> HIDE DEF w
<1>8. LengthOf(f, w) = n
  BY <1>4, <1>6 DEF LengthOf
<1>9. IsHeader(Sized(first, n), f, w, n)
  BY <1>4, <1>6, <1>7, <1>8 DEF IsHeader, k
<1> QED BY <1>3, <1>9

\* A header of one byte.
LEMMA FixHeader ==
  ASSUME NEW f \in Nat, FieldBytes(f) = 0
  PROVE  IsHeader(<<f>>, f, <<>>, FixLength(f))
<1> DEFINE none == <<>>
<1>1. none \in Seq(Nat) /\ Len(none) = 0 /\ <<f>> \o none = <<f>>
  OBVIOUS
<1> HIDE DEF none
<1>2. IsHeader(<<f>>, f, none, FixLength(f))
  BY <1>1 DEF IsHeader, LengthOf
<1> QED BY <1>2 DEF none

\* The headers of arrays and maps.
LEMMA CountHeaderIs ==
  ASSUME NEW fix \in {128, 144}, NEW first, first = IF fix = 128 THEN 222 ELSE 220,
         NEW n \in 0..(Word - 1)
  PROVE  \E f \in (fix..(fix + 15)) \cup {first, first + 1} : \E w :
           IsHeader(CountHeader(fix, first, n), f, w, n)
<1>1. n \in Nat /\ FixCount \in 0..16 /\ first \in {220, 222}
  BY SafeFacts, SerializerAssumption
<1>2. CASE n < FixCount
  <2> DEFINE f == fix + n
  <2>1. f \in fix..(fix + 15) /\ f \in Nat
    BY <1>1, <1>2
  <2>2. f % 16 = n
    BY <1>1, <1>2
  <2> HIDE DEF f
  <2>3. f \in 128..159
    BY <2>1
  <2>4. FieldBytes(f) = 0
    BY <2>3 DEF FieldBytes
  <2>5. FixLength(f) = n
    BY <2>2, <2>3 DEF FixLength, IsString
  <2>6. IsHeader(<<f>>, f, <<>>, n)
    BY <2>1, <2>4, <2>5, FixHeader
  <2>7. CountHeader(fix, first, n) = <<f>>
    BY <1>2 DEF CountHeader, f
  <2> QED BY <2>1, <2>6, <2>7
<1>3. ASSUME NEW f \in {first, first + 1}, FieldBytes(f) \in {2, 4},
             n < Power(ByteValues)[FieldBytes(f)],
             CountHeader(fix, first, n) = <<f>> \o UintBytes(n, FieldBytes(f))
      PROVE  \E w : IsHeader(CountHeader(fix, first, n), f, w, n)
  <2> DEFINE k == FieldBytes(f)
             w == UintBytes(n, k)
  <2>1. f \in Nat /\ k \in {2, 4}
    BY <1>1, <1>3
  <2>2. n < Power(ByteValues)[k]
    BY <1>3
  <2>3. w \in Seq(Nat) /\ Len(w) = k /\ ToUint(w) = n
    <3>1. k \in Nat
      BY <2>1
    <3> HIDE DEF k
    <3> QED BY <1>1, <2>2, <3>1, FieldIs
  <2>4. CountHeader(fix, first, n) = <<f>> \o w
    BY <1>3
  <2> HIDE DEF w
  <2>5. LengthOf(f, w) = n
    BY <2>1, <2>3 DEF LengthOf
  <2>6. IsHeader(CountHeader(fix, first, n), f, w, n)
    BY <2>1, <2>3, <2>4, <2>5 DEF IsHeader
  <2> QED BY <2>6
<1>4. FieldBytes(first) = 2 /\ FieldBytes(first + 1) = 4
  BY <1>1 DEF FieldBytes
<1>5. CASE ~(n < FixCount) /\ n < Power(ByteValues)[2] - 1
  <2>1. CountHeader(fix, first, n) = <<first>> \o UintBytes(n, 2)
    BY <1>5 DEF CountHeader
  <2>2. n < Power(ByteValues)[2]
    BY <1>1, <1>5, WidthFacts
  <2> QED BY <1>3, <1>4, <2>1, <2>2
<1>6. CASE ~(n < FixCount) /\ ~(n < Power(ByteValues)[2] - 1)
  <2>1. CountHeader(fix, first, n) = <<first + 1>> \o UintBytes(n, 4)
    BY <1>6 DEF CountHeader
  <2>2. n < Power(ByteValues)[4]
    BY <1>1, WidthFacts
  <2> QED BY <1>3, <1>4, <2>1, <2>2
<1> QED BY <1>2, <1>5, <1>6

\* A text or binary data behind its header.
LEMMA BodyRead ==
  ASSUME NEW h, NEW f, NEW w, NEW n, IsHeader(h, f, w, n), NEW data \in Seq(Nat), n = Len(data),
         NEW v,
         \/ IsString(f) /\ v = <<"string", Decoded(data)>>
         \/ IsBinary(f) /\ v = <<"bytes", data>>
  PROVE  ReadsAs(h \o data, v)
<1>1. n \in Nat /\ f \in Nat
  BY DEF IsHeader
<1>2. h \in Seq(Nat) /\ Len(h) >= 1
  <2>1. <<f>> \in Seq(Nat) /\ Len(<<f>>) = 1 /\ w \in Seq(Nat) /\ h = <<f>> \o w
    BY DEF IsHeader
  <2> QED BY <2>1, JoinFacts
<1>3. h \o data \in Seq(Nat) /\ Len(h \o data) = Len(h) + Len(data)
  BY <1>2, JoinFacts
<1>4. ASSUME NEW s, NEW r, Holds(s, r, h \o data)
      PROVE  NextValue(s, r) = Value(v, Moved(r, Len(h) + n))
  <2> DEFINE m == Moved(r, Len(h))
  <2>1. Len(h) \in 1..Remaining(r) /\ Holds(s, Moved(r, Len(h)), data)
    BY <1>4, HeaderRead
  <2>2. \E nested : /\ NextValue(s, r) = ContentAt(s, f, Moved(r, 1), Moved(r, Len(h)), n, nested)
                    /\ Behind(s, r, nested)
    <3> HIDE DEF m
    <3> QED BY <1>4, HeaderRead
  <2>3. PICK nested : NextValue(s, r) = ContentAt(s, f, Moved(r, 1), m, n, nested)
    BY <2>2
  <2>4. HasBytes(m, n) /\ BytesOf(s, m, n) = data
    BY <2>1, HoldsFacts
  <2>5. Moved(m, n) = Moved(r, Len(h) + n)
    <3>1. IsReader(s, r) /\ Len(h) \in 0..Remaining(r)
      BY <1>4, <2>1 DEF Holds
    <3> QED BY <1>1, <3>1, MovedTwice, SMTT(30)
  <2> HIDE DEF m
  <2>6. ContentAt(s, f, Moved(r, 1), m, n, nested) = Value(v, Moved(m, n))
    <3>1. CASE IsString(f) /\ v = <<"string", Decoded(data)>>
      BY <1>1, <2>4, <3>1, StringContent
    <3>2. CASE IsBinary(f) /\ v = <<"bytes", data>>
      BY <1>1, <2>4, <3>2, BinaryContent
    <3> QED BY <3>1, <3>2
  <2> QED BY <2>3, <2>5, <2>6
<1>5. Len(h \o data) = Len(h) + n /\ Len(h \o data) >= 1
  BY <1>1, <1>2, <1>3
<1> QED BY <1>3, <1>4, <1>5 DEF ReadsAs

\* addString and addBinary.
LEMMA DataReads ==
  ASSUME NEW data \in Seq(Nat), Len(data) < Word
  PROVE  /\ ReadsAs(AddString(data), <<"string", Decoded(data)>>)
         /\ ReadsAs(AddBinary(data), <<"bytes", data>>)
<1>1. Len(data) \in 0..(Word - 1) /\ Len(data) \in Nat
  BY SafeFacts
<1>2. ASSUME NEW h, NEW f, NEW w, NEW v, IsHeader(h, f, w, Len(data)),
             \/ IsString(f) /\ v = <<"string", Decoded(data)>>
             \/ IsBinary(f) /\ v = <<"bytes", data>>
      PROVE  ReadsAs(h \o data, v)
  BY <1>2, BodyRead
<1>3. ReadsAs(AddBinary(data), <<"bytes", data>>)
  <2>1. PICK f, w : f \in 196..198 /\ IsHeader(Sized(196, Len(data)), f, w, Len(data))
    BY <1>1, SizedHeader
  <2>2. IsBinary(f)
    BY <2>1 DEF IsBinary
  <2>3. AddBinary(data) = Sized(196, Len(data)) \o data
    BY DEF AddBinary, Formats
  <2> QED BY <1>2, <2>1, <2>2, <2>3
<1>4. ReadsAs(AddString(data), <<"string", Decoded(data)>>)
  <2>1. CASE Len(data) < FixString
    <3> DEFINE f == 160 + Len(data)
    <3>1. f \in 160..191 /\ f \in Nat /\ f % 32 = Len(data)
      <4> DEFINE l == Len(data)
      <4>1. l \in 0..31
        <5>1. FixString \in 0..32
          BY SerializerAssumption
        <5>2. l \in Nat /\ l < FixString
          BY <1>1, <2>1
        <5> HIDE DEF l, f
        <5> QED BY <5>1, <5>2
      <4> HIDE DEF l
      <4>2. 160 + l \in 160..191 /\ (160 + l) % 32 = l
        BY <4>1
      <4> QED BY <4>2 DEF l
    <3> HIDE DEF f
    <3>2. IsString(f) /\ FieldBytes(f) = 0 /\ FixLength(f) = Len(data)
      <4>1. IsString(f)
        BY <3>1 DEF IsString
      <4>2. FieldBytes(f) = 0
        <5>1. f \in 160..191
          BY <3>1
        <5>2. /\ f \notin {196, 199, 204, 208, 217}
              /\ f \notin {197, 200, 205, 209, 218, 220, 222}
              /\ f \notin {198, 201, 202, 206, 210, 219, 221, 223}
              /\ f \notin {203, 207, 211}
          BY <5>1
        <5> QED BY ONLY <5>2 DEF FieldBytes
      <4>3. FixLength(f) = f % 32
        BY <3>1, <4>1 DEF FixLength
      <4> QED BY <3>1, <4>1, <4>2, <4>3
    <3>3. IsHeader(<<f>>, f, <<>>, Len(data))
      BY <3>1, <3>2, FixHeader
    <3>4. AddString(data) = <<f>> \o data
      BY <2>1 DEF AddString, Formats, f
    <3> QED BY <1>2, <3>2, <3>3, <3>4
  <2>2. CASE ~(Len(data) < FixString)
    <3>1. PICK f, w : f \in 217..219 /\ IsHeader(Sized(217, Len(data)), f, w, Len(data))
      BY <1>1, SizedHeader
    <3>2. IsString(f)
      BY <3>1 DEF IsString
    <3>3. AddString(data) = Sized(217, Len(data)) \o data
      BY <2>2 DEF AddString, Formats
    <3> QED BY <1>2, <3>1, <3>2, <3>3
  <2> QED BY <2>1, <2>2
<1> QED BY <1>3, <1>4

\* A reader of the part of a buffer in which data lies.
LEMMA SubReaderHolds ==
  ASSUME NEW s, NEW m, NEW data, Holds(s, m, data)
  PROVE  /\ Holds(s, SubReader(m, Len(data)), data)
         /\ Remaining(SubReader(m, Len(data))) = Len(data)
<1> DEFINE q == SubReader(m, Len(data))
           a == ReadPosition(m)
<1>1. /\ s \in Seq(Nat) /\ data \in Seq(Nat) /\ Len(data) \in Nat /\ Len(data) <= Remaining(m)
      /\ Remaining(m) \in Nat /\ a \in Nat /\ a + Remaining(m) <= Len(s)
      /\ \A i \in 1..Len(data) : s[a + i] = data[i]
  <2>1. IsReader(s, m) /\ data \in Seq(Nat) /\ Len(data) <= Remaining(m) /\ s \in Seq(Nat)
        /\ \A i \in 1..Len(data) : s[a + i] = data[i]
    BY DEF Holds, IsReader
  <2>2. /\ Remaining(m) \in Nat /\ ReadPosition(m) \in Nat
        /\ ReadPosition(m) + Remaining(m) <= Len(s)
    BY <2>1, ReaderFacts
  <2> QED BY <2>1, <2>2, SMTT(30)
<1>2. q = [off |-> a, len |-> Len(data), pos |-> 0]
  BY DEF SubReader, NewReader
<1> HIDE DEF q, a
<1>3. Remaining(q) = Len(data) /\ ReadPosition(q) = a
  BY <1>1, <1>2 DEF Remaining, ReadPosition
<1>4. IsReader(s, q)
  <2>1. a + Len(data) <= Len(s)
    BY <1>1
  <2> QED BY <1>1, <1>2, <2>1 DEF IsReader
<1>5. Holds(s, q, data)
  BY <1>1, <1>3, <1>4 DEF Holds
<1> QED BY <1>3, <1>5 DEF q

\* An int8: its byte is read as itself.
IsInt8(type) == type \in Int /\ -ByteValues <= 2 * type /\ 2 * type < ByteValues

\* What follows the header of an extension: its type, and data of its length.
LEMMA ExtBody ==
  ASSUME NEW h, NEW f, NEW w, NEW n, IsHeader(h, f, w, n), IsExt(f),
         NEW type, IsInt8(type), NEW data \in Seq(Nat), n = Len(data),
         NEW s, NEW r, Holds(s, r, (h \o UintBytes(type, 1)) \o data)
  PROVE  LET q == SubReader(Moved(r, Len(h) + 1), n)
             x == HandleExtension(s, type, q)
         IN  /\ Holds(s, q, data) /\ Remaining(q) = n
             /\ NextValue(s, r) = IF x.kind = "value"
                                  THEN Value(x.value, Moved(r, (Len(h) + 1) + n)) ELSE x
<1> DEFINE t == UintBytes(type, 1)
           m == Moved(r, Len(h))
           d == Moved(r, Len(h) + 1)
           q == SubReader(d, n)
           x == HandleExtension(s, type, q)
<1>1. type \in Int /\ t \in Seq(Nat) /\ Len(t) = 1 /\ n \in Nat /\ f \in Nat
  <2>1. type \in Int /\ f \in Nat /\ n \in Nat
    BY DEF IsInt8, IsHeader
  <2>2. UintBytes(type, 1) \in Seq(Nat) /\ Len(UintBytes(type, 1)) = 1
    BY <2>1, UintBytesFacts
  <2> QED BY <2>1, <2>2
<1>2. h \in Seq(Nat) /\ Len(h) \in Nat
  <2>1. <<f>> \in Seq(Nat) /\ w \in Seq(Nat) /\ h = <<f>> \o w
    BY DEF IsHeader
  <2> QED BY <2>1, JoinFacts
<1> HIDE DEF t
<1>3. h \o t \in Seq(Nat) /\ Len(h \o t) = Len(h) + 1
  <2>1. h \o t \in Seq(Nat) /\ Len(h \o t) = Len(h) + Len(t)
    BY <1>1, <1>2, JoinFacts
  <2> QED BY <1>1, <2>1
<1>4. Holds(s, r, h \o t) /\ Holds(s, d, data)
  <2>1. Holds(s, r, (h \o t) \o data)
    BY DEF t
  <2>2. Holds(s, r, h \o t) /\ Holds(s, Moved(r, Len(h \o t)), data)
    BY <1>3, <2>1, HoldsJoin
  <2> QED BY <1>3, <2>2
<1>5. Holds(s, q, data) /\ Remaining(q) = n
  <2> HIDE DEF d
  <2> QED BY <1>4, SubReaderHolds
<1>6. Len(h) \in 1..Remaining(r) /\ Holds(s, m, t)
  BY <1>1, <1>4, HeaderRead
<1>7. \E nested : NextValue(s, r) = ContentAt(s, f, Moved(r, 1), Moved(r, Len(h)), n, nested)
                  /\ Behind(s, r, nested)
  <2> HIDE DEF m, d, q, x
  <2> QED BY <1>1, <1>4, HeaderRead
<1>8. PICK nested : NextValue(s, r) = ContentAt(s, f, Moved(r, 1), m, n, nested)
  BY <1>7
<1>9. IntAt(s, m, 1) = type
  <2>1. Holds(s, m, UintBytes(type, 1))
    BY <1>6 DEF t
  <2>2. -Power(ByteValues)[1] <= 2 * type /\ 2 * type < Power(ByteValues)[1]
    BY WidthFacts DEF IsInt8
  <2> HIDE DEF m
  <2> QED BY <1>1, <2>1, <2>2, IntegerRead
<1>10. Moved(m, 1) = d
  <2>1. IsReader(s, r) /\ Len(h) \in 0..Remaining(r)
    BY <1>4, <1>6 DEF Holds
  <2> QED BY <2>1, MovedTwice
<1>11. Moved(d, n) = Moved(r, (Len(h) + 1) + n)
  <2> DEFINE k == Len(h) + 1
  <2>1. IsReader(s, r) /\ k \in 0..Remaining(r)
    BY <1>3, <1>4, HoldsFacts
  <2> HIDE DEF k, m, d, q, x
  <2>2. Moved(Moved(r, k), n) = Moved(r, k + n)
    <3>1. n \in Nat
      BY <1>1
    <3> QED BY ONLY <2>1, <3>1, MovedTwice
  <2> QED BY <2>2 DEF k, d
<1>12. HasBytes(d, n)
  BY <1>4, HoldsFacts
<1> HIDE DEF m, d
<1>13. ContentAt(s, f, Moved(r, 1), m, n, nested)
         = IF x.kind = "value" THEN Value(x.value, Moved(d, n)) ELSE x
  <2> DEFINE o == ContentAt(s, f, Moved(r, 1), m, n, nested)
             y == HandleExtension(s, IntAt(s, m, 1), SubReader(Moved(m, 1), n))
  <2>1. o = IF ~HasBytes(Moved(m, 1), n) THEN Incomplete
            ELSE IF y.kind = "value" THEN Value(y.value, Moved(Moved(m, 1), n))
            ELSE y
    BY <1>1, ExtContent
  <2>2. y = x
    BY <1>9, <1>10
  <2> HIDE DEF o, x, y
  <2>3. o = IF x.kind = "value" THEN Value(x.value, Moved(d, n)) ELSE x
    BY <1>10, <1>12, <2>1, <2>2
  <2> QED BY <2>3 DEF o
<1> HIDE DEF x
<1>14. NextValue(s, r) = IF x.kind = "value" THEN Value(x.value, Moved(d, n)) ELSE x
  BY <1>8, <1>13
<1>15. NextValue(s, r)
         = IF x.kind = "value" THEN Value(x.value, Moved(r, (Len(h) + 1) + n)) ELSE x
  BY <1>11, <1>14
<1> QED BY <1>5, <1>15 DEF x, q, d

\* The header of an extension.
LEMMA ExtHeader ==
  ASSUME NEW type, IsInt8(type), NEW data \in Seq(Nat), Len(data) < Word
  PROVE  \E h, f, w : /\ IsHeader(h, f, w, Len(data)) /\ IsExt(f)
                      /\ AddExt(type, data) = (h \o UintBytes(type, 1)) \o data
<1> DEFINE fix == {i \in 1..5 : FixExtBytes[i] = Len(data)}
<1>1. Len(data) \in 0..(Word - 1)
  BY SafeFacts
<1>2. AddExt(type, data)
        = ((IF fix # {} THEN <<Formats.fixext_1 + (Min(fix) - 1)>> ELSE Sized(Formats.ext_8, Len(data)))
             \o UintBytes(type, 1)) \o data
  BY Zenon DEF AddExt
<1>3. CASE fix # {}
  <2> DEFINE i == Min(fix)
             f == 212 + (i - 1)
             h == <<f>>
  <2>1. i \in fix
    <3>1. fix \in SUBSET Nat
      OBVIOUS
    <3> HIDE DEF fix
    <3> QED BY <1>3, <3>1, MinFacts
  <2>2. i \in 1..5 /\ FixExtBytes[i] = Len(data)
    BY <2>1
  <2>3. AddExt(type, data) = (h \o UintBytes(type, 1)) \o data
    <3>1. AddExt(type, data)
            = (<<Formats.fixext_1 + (Min(fix) - 1)>> \o UintBytes(type, 1)) \o data
      <4> HIDE DEF i, f, h, fix
      <4> QED BY <1>2, <1>3
    <3>2. Formats.fixext_1 = 212
      BY DEF Formats
    <3> QED BY <3>1, <3>2
  <2> HIDE DEF fix, i
  <2>4. f \in 212..216 /\ f \in Nat /\ (f - 212) + 1 = i
    BY <2>2
  <2> HIDE DEF f
  <2>5. IsExt(f)
    BY <2>4 DEF IsExt
  <2>6. FieldBytes(f) = 0
    <3>1. /\ f \notin {196, 199, 204, 208, 217}
          /\ f \notin {197, 200, 205, 209, 218, 220, 222}
          /\ f \notin {198, 201, 202, 206, 210, 219, 221, 223}
          /\ f \notin {203, 207, 211}
      BY <2>4
    <3> QED BY ONLY <3>1 DEF FieldBytes
  <2>7. FixLength(f) = Len(data)
    <3>1. FixLength(f) = FixExtBytes[(f - 212) + 1]
      <4>1. Formats.fixext_1 = 212 /\ ~IsString(f)
        BY <2>4 DEF Formats, IsString
      <4> QED BY <2>4, <4>1 DEF FixLength
    <3> QED BY <2>2, <2>4, <3>1
  <2>8. IsHeader(<<f>>, f, <<>>, Len(data))
    BY <2>4, <2>6, <2>7, FixHeader
  <2> HIDE DEF h
  <2>9. IsHeader(h, f, <<>>, Len(data))
    BY <2>8 DEF h
  <2> QED BY <2>3, <2>5, <2>9
<1>4. CASE fix = {}
  <2>1. PICK f, w : f \in 199..201 /\ IsHeader(Sized(199, Len(data)), f, w, Len(data))
    BY <1>1, SizedHeader
  <2>2. IsExt(f)
    BY <2>1 DEF IsExt
  <2> DEFINE h == Sized(199, Len(data))
  <2>3. AddExt(type, data) = (h \o UintBytes(type, 1)) \o data
    BY <1>4 DEF AddExt, Formats
  <2> HIDE DEF h, fix
  <2>4. IsHeader(h, f, w, Len(data))
    BY <2>1 DEF h
  <2> QED BY <2>2, <2>3, <2>4
<1> QED BY <1>3, <1>4

\* What a reader of an extension gives to the handler.
LEMMA ExtRead ==
  ASSUME NEW type, IsInt8(type), NEW data \in Seq(Nat), Len(data) < Word
  PROVE  /\ AddExt(type, data) \in Seq(Nat) /\ Len(AddExt(type, data)) >= 1
         /\ \A s, r : Holds(s, r, AddExt(type, data)) =>
              \E q : /\ Holds(s, q, data) /\ Remaining(q) = Len(data)
                     /\ NextValue(s, r)
                          = IF HandleExtension(s, type, q).kind = "value"
                            THEN Value(HandleExtension(s, type, q).value,
                                       Moved(r, Len(AddExt(type, data))))
                            ELSE HandleExtension(s, type, q)
<1> DEFINE n == Len(data)
           t == UintBytes(type, 1)
           e == AddExt(type, data)
<1>1. PICK h, f, w : IsHeader(h, f, w, n) /\ IsExt(f) /\ e = (h \o t) \o data
  BY ExtHeader
<1>2. h \in Seq(Nat) /\ Len(h) >= 1 /\ Len(h) \in Nat
  <2>1. f \in Nat /\ w \in Seq(Nat) /\ h = <<f>> \o w
    BY <1>1 DEF IsHeader
  <2>2. <<f>> \in Seq(Nat) /\ Len(<<f>>) = 1
    BY <2>1
  <2>3. h \in Seq(Nat) /\ Len(h) = Len(<<f>>) + Len(w)
    BY <2>1, <2>2, JoinFacts
  <2> QED BY <2>1, <2>2, <2>3
<1>3. t \in Seq(Nat) /\ Len(t) = 1
  <2>1. type \in Int
    BY DEF IsInt8
  <2> QED BY <2>1, UintBytesFacts
<1>4. n \in Nat
  OBVIOUS
<1>5. e \in Seq(Nat) /\ Len(e) = (Len(h) + 1) + n
  <2> HIDE DEF t, e
  <2>1. h \o t \in Seq(Nat) /\ Len(h \o t) = Len(h) + Len(t)
    BY <1>2, <1>3, JoinFacts
  <2>2. (h \o t) \o data \in Seq(Nat) /\ Len((h \o t) \o data) = Len(h \o t) + Len(data)
    BY <2>1, JoinFacts
  <2> QED BY <1>1, <1>3, <2>1, <2>2
<1>6. ASSUME NEW s, NEW r, Holds(s, r, e)
      PROVE  LET q == SubReader(Moved(r, Len(h) + 1), n)
                 x == HandleExtension(s, type, q)
             IN  /\ Holds(s, q, data) /\ Remaining(q) = n
                 /\ NextValue(s, r) = IF x.kind = "value"
                                      THEN Value(x.value, Moved(r, (Len(h) + 1) + n)) ELSE x
  <2>1. Holds(s, r, (h \o UintBytes(type, 1)) \o data)
    BY <1>1, <1>6
  <2>2. IsHeader(h, f, w, n) /\ IsExt(f)
    BY <1>1
  <2> HIDE DEF e, t
  <2> QED BY <2>1, <2>2, ExtBody
<1>7. Len(e) >= 1
  BY <1>2, <1>4, <1>5
<1> HIDE DEF e, n
<1>8. \A s, r : Holds(s, r, e) =>
        \E q : /\ Holds(s, q, data) /\ Remaining(q) = n
               /\ NextValue(s, r)
                    = IF HandleExtension(s, type, q).kind = "value"
                      THEN Value(HandleExtension(s, type, q).value, Moved(r, Len(e)))
                      ELSE HandleExtension(s, type, q)
  BY <1>5, <1>6
<1> QED BY <1>5, <1>7, <1>8 DEF e, n

\* An extension that its handler reads.
LEMMA ExtReads ==
  ASSUME NEW type, IsInt8(type), NEW data \in Seq(Nat), Len(data) < Word, NEW v,
         \A s, q : Holds(s, q, data) /\ Remaining(q) = Len(data) =>
           HandleExtension(s, type, q).kind = "value" /\ HandleExtension(s, type, q).value = v
  PROVE  ReadsAs(AddExt(type, data), v)
BY ExtRead DEF ReadsAs

\* Any extension.
LEMMA ExtSome ==
  ASSUME NEW type, IsInt8(type), NEW data \in Seq(Nat), Len(data) < Word
  PROVE  ReadsSome(AddExt(type, data))
<1>1. ASSUME NEW s, NEW q, Holds(s, q, data)
      PROVE  \/ HandleExtension(s, type, q).kind = "value"
             \/ HandleExtension(s, type, q) \in {Incomplete, Failed}
  <2>1. Sees(s, q, s, q)
    <3>1. IsReader(s, q)
      BY <1>1 DEF Holds
    <3>2. Remaining(q) \in Nat
      BY <3>1, ReaderFacts
    <3> QED BY <3>1, <3>2 DEF Sees
  <2>2. IsOutcome(HandleExtension(s, type, q))
    BY <2>1, SameExtension
  <2> QED BY <2>2 DEF IsOutcome
<1>2. /\ AddExt(type, data) \in Seq(Nat) /\ Len(AddExt(type, data)) >= 1
      /\ \A s, r : Holds(s, r, AddExt(type, data)) =>
           \E q : /\ Holds(s, q, data) /\ Remaining(q) = Len(data)
                  /\ NextValue(s, r)
                       = IF HandleExtension(s, type, q).kind = "value"
                         THEN Value(HandleExtension(s, type, q).value,
                                    Moved(r, Len(AddExt(type, data))))
                         ELSE HandleExtension(s, type, q)
  BY ExtRead
<1> QED BY <1>1, <1>2 DEF ReadsSome

\* An extension of the user's: the handler reads what it expects of it.
LEMMA UserExt ==
  ASSUME NEW type, IsInt8(type), type # TimeStamp, type \in DOMAIN Handled,
         NEW data \in Seq(Nat), Len(data) < Word, Handled[type] <= Len(data)
  PROVE  ReadsAs(AddExt(type, data), <<"ext", type, SubSeq(data, 1, Handled[type])>>)
<1> DEFINE k == Handled[type]
           v == <<"ext", type, SubSeq(data, 1, k)>>
<1>1. k \in Nat /\ k \in 0..Len(data)
  BY MsgpackAssumption
<1>2. ASSUME NEW s, NEW q, Holds(s, q, data), Remaining(q) = Len(data)
      PROVE  HandleExtension(s, type, q).kind = "value" /\ HandleExtension(s, type, q).value = v
  <2> DEFINE a == ReadPosition(q)
             o == HandleExtension(s, type, q)
  <2>1. HasBytes(q, k)
    BY <1>1, <1>2, ReaderFacts DEF Holds
  <2>2. o = Value(<<"ext", type, BytesOf(s, q, k)>>, q)
    BY <2>1 DEF HandleExtension
  <2>3. BytesOf(s, q, k) = SubSeq(data, 1, k)
    <3> DEFINE w == SubSeq(data, 0 + 1, k)
    <3>1. w \in Seq(Nat) /\ Len(w) = k - 0 /\ \A i \in 1..(k - 0) : w[i] = data[0 + i]
      <4>1. 0 \in Nat
        OBVIOUS
      <4> HIDE DEF k
      <4> QED BY <1>1, <4>1, PartFacts
    <3> HIDE DEF w
    <3>2. w \in Seq(Nat) /\ Len(w) = k /\ \A i \in 1..k : w[i] = data[i]
      BY <1>1, <3>1
    <3>3. Holds(s, q, w)
      BY <1>1, <1>2, <3>2 DEF Holds
    <3>4. BytesOf(s, q, k) = w
      BY <3>2, <3>3, HoldsFacts
    <3> QED BY <3>4 DEF w
  <2> HIDE DEF o
  <2>4. o = Value(v, q)
    BY <2>2, <2>3
  <2> HIDE DEF v
  <2> QED BY <2>4, Kinds DEF o
<1> HIDE DEF v
<1>3. ReadsAs(AddExt(type, data), v)
  BY <1>2, ExtReads
<1> QED BY <1>3 DEF v, k

-----------------------------------------------------------------------------
(* Timestamps.                                                             *)

\* The Date of seconds and nanoseconds.
DateOf(sec, nsec) ==
  LET ns == sec * MsPerSec * NsPerMs + nsec
  IN  <<"date", IF ns < 0 THEN -((-ns) \div NsPerMs) ELSE ns \div NsPerMs>>

\* The three forms of a timestamp.
LEMMA TimestampForms ==
  ASSUME NEW s, NEW r
  PROVE  /\ Remaining(r) = 4 => TimestampAt(s, r) = Value(DateOf(UintAt(s, r, 4), 0), r)
         /\ Remaining(r) = 8 =>
              TimestampAt(s, r) = Value(DateOf((UintAt(s, r, 4) % 4) * Word + Low(s, r),
                                               UintAt(s, r, 4) \div 4), r)
         /\ Remaining(r) = 12 =>
              TimestampAt(s, r) = Value(DateOf(Int64At(s, Moved(r, 4)), UintAt(s, r, 4)), r)
<1> DEFINE n == Remaining(r)
<1>1. TimestampAt(s, r)
        = CASE n = 4 -> Value(DateOf(UintAt(s, r, 4), 0), r)
            [] n = 8 -> Value(DateOf((UintAt(s, r, 4) % 4) * Word + Low(s, r),
                                     UintAt(s, r, 4) \div 4), r)
            [] n = 12 -> Value(DateOf(Int64At(s, Moved(r, 4)), UintAt(s, r, 4)), r)
            [] OTHER -> Failed
  BY DEF TimestampAt, DateOf
<1> HIDE DEF n
<1>2. n = 4 => TimestampAt(s, r) = Value(DateOf(UintAt(s, r, 4), 0), r)
  <2> SUFFICES ASSUME n = 4 PROVE TimestampAt(s, r) = Value(DateOf(UintAt(s, r, 4), 0), r)
    OBVIOUS
  <2>1. n # 8 /\ n # 12
    OBVIOUS
  <2> QED BY <1>1, <2>1
<1>3. n = 8 => TimestampAt(s, r) = Value(DateOf((UintAt(s, r, 4) % 4) * Word + Low(s, r),
                                                UintAt(s, r, 4) \div 4), r)
  <2> SUFFICES ASSUME n = 8
               PROVE  TimestampAt(s, r) = Value(DateOf((UintAt(s, r, 4) % 4) * Word + Low(s, r),
                                                       UintAt(s, r, 4) \div 4), r)
    OBVIOUS
  <2>1. n # 4 /\ n # 12
    OBVIOUS
  <2> QED BY <1>1, <2>1
<1>4. n = 12 => TimestampAt(s, r) = Value(DateOf(Int64At(s, Moved(r, 4)), UintAt(s, r, 4)), r)
  <2> SUFFICES ASSUME n = 12
               PROVE  TimestampAt(s, r) = Value(DateOf(Int64At(s, Moved(r, 4)), UintAt(s, r, 4)), r)
    OBVIOUS
  <2>1. n # 4 /\ n # 8
    OBVIOUS
  <2> QED BY <1>1, <2>1
<1> QED BY <1>2, <1>3, <1>4 DEF n

\* Nanoseconds of whole milliseconds make the Date of those.
LEMMA DateIs ==
  ASSUME NEW sec \in Int, NEW m \in Int
  PROVE  DateOf(sec, m * NsPerMs) = <<"date", sec * MsPerSec + m>>
<1> DEFINE t == sec * MsPerSec + m
           ns == sec * MsPerSec * NsPerMs + m * NsPerMs
<1>1. MsPerSec \in Nat \ {0} /\ NsPerMs \in Nat \ {0}
  BY MsgpackAssumption
<1>2. t \in Int
  BY <1>1
<1>3. ns = NsPerMs * t
  <2> DEFINE x == sec * MsPerSec
  <2>1. x \in Int
    BY <1>1
  <2> HIDE DEF x
  <2>2. x * NsPerMs + m * NsPerMs = NsPerMs * (x + m)
    BY <1>1, <2>1
  <2> QED BY <2>2 DEF x
<1>4. (IF ns < 0 THEN -((-ns) \div NsPerMs) ELSE ns \div NsPerMs) = t
  <2> HIDE DEF t, ns
  <2>1. NsPerMs * t \in Int /\ -(NsPerMs * t) = NsPerMs * (-t) /\ -t \in Int
    BY <1>1, <1>2
  <2>2. NsPerMs * t = NsPerMs * t + 0 /\ NsPerMs * (-t) = NsPerMs * (-t) + 0 /\ 0 \in 0..(NsPerMs - 1)
        /\ NsPerMs * (-t) \in Int
    BY <1>1, <2>1
  <2>3. (NsPerMs * t) \div NsPerMs = t
    BY <1>1, <1>2, <2>1, <2>2, IntDivModUnique
  <2>4. (NsPerMs * (-t)) \div NsPerMs = -t
    BY <1>1, <2>1, <2>2, IntDivModUnique
  <2>5. (-ns) \div NsPerMs = -t /\ ns \div NsPerMs = t
    BY <1>3, <2>1, <2>3, <2>4
  <2> QED BY <1>2, <2>5
<1> HIDE DEF ns, t
<1>5. DateOf(sec, m * NsPerMs) = <<"date", IF ns < 0 THEN -((-ns) \div NsPerMs) ELSE ns \div NsPerMs>>
  BY DEF DateOf, ns
<1> QED BY <1>4, <1>5 DEF t

\* A handler is given the data of a timestamp.
LEMMA DateRead ==
  ASSUME NEW data \in Seq(Nat), Len(data) <= 12, NEW v,
         \A s, q : Holds(s, q, data) /\ Remaining(q) = Len(data) =>
           \E p : TimestampAt(s, q) = Value(v, p)
  PROVE  ReadsAs(AddExt(TimeStamp, data), v)
<1>1. IsInt8(TimeStamp)
  <2>1. ByteValues \in Nat /\ ByteValues >= 2
    BY WidthFacts
  <2> QED BY <2>1 DEF IsInt8, TimeStamp
<1>2. Len(data) < Word
  <2>1. Word \in Nat /\ Word >= 16
    BY WidthFacts
  <2>2. Len(data) \in Nat
    OBVIOUS
  <2> QED BY <2>1, <2>2
<1>3. ASSUME NEW s, NEW q, Holds(s, q, data), Remaining(q) = Len(data)
      PROVE  HandleExtension(s, TimeStamp, q).kind = "value"
             /\ HandleExtension(s, TimeStamp, q).value = v
  <2>1. HandleExtension(s, TimeStamp, q) = TimestampAt(s, q)
    BY DEF HandleExtension
  <2>2. PICK p : TimestampAt(s, q) = Value(v, p)
    BY <1>3
  <2> QED BY <2>1, <2>2, Kinds
<1> HIDE DEF TimeStamp
<1> QED BY <1>1, <1>2, <1>3, ExtReads

\* The parts of a Date.
LEMMA DateParts ==
  ASSUME NEW msec \in -MaxSafe..MaxSafe
  PROVE  LET sec == msec \div MsPerSec
             m   == msec - sec * MsPerSec
         IN  /\ sec \in Int /\ m \in Nat /\ m * NsPerMs \in Nat
             /\ 4 * (m * NsPerMs) + 3 < Word
             /\ -(Word * Word) <= 2 * sec /\ 2 * sec < Word * Word
             /\ msec = sec * MsPerSec + m
<1> DEFINE sec == msec \div MsPerSec
           m   == msec - sec * MsPerSec
<1>1. /\ MsPerSec \in Nat \ {0} /\ NsPerMs \in Nat \ {0}
      /\ MsPerSec * NsPerMs <= Word \div 4
      /\ Word \in Nat /\ msec \in Int
      /\ MaxSafe \in Nat /\ 2 * MaxSafe < Word * Word /\ Word * Word \in Nat
  BY SafeFacts, MsgpackAssumption
<1>2. sec \in Int /\ msec % MsPerSec \in 0..(MsPerSec - 1)
      /\ msec = MsPerSec * sec + (msec % MsPerSec)
  BY <1>1, IntDivMod
<1> HIDE DEF sec
<1>3. MsPerSec * sec = sec * MsPerSec /\ sec * MsPerSec \in Int
  BY <1>1, <1>2
<1>4. m \in 0..(MsPerSec - 1) /\ msec = sec * MsPerSec + m
  BY <1>1, <1>2, <1>3
<1> HIDE DEF m
<1>5. m * NsPerMs \in Nat /\ m * NsPerMs <= MsPerSec * NsPerMs - NsPerMs
  <2>1. NsPerMs * m <= NsPerMs * (MsPerSec - 1)
    <3>1. m \in Int /\ MsPerSec - 1 \in Int /\ m <= MsPerSec - 1 /\ NsPerMs \in Nat
      BY <1>1, <1>4
    <3> QED BY <3>1, ProductMonotonic
  <2>2. NsPerMs * m = m * NsPerMs /\ NsPerMs * (MsPerSec - 1) = MsPerSec * NsPerMs - NsPerMs
    BY <1>1, <1>4
  <2>3. m * NsPerMs \in Nat
    BY <1>1, <1>4
  <2> QED BY <2>1, <2>2, <2>3
<1>6. 4 * (m * NsPerMs) + 3 < Word
  <2> DEFINE x == m * NsPerMs
             y == MsPerSec * NsPerMs
  <2>1. x \in Nat /\ y \in Nat /\ x <= y - 1 /\ y <= Word \div 4
    BY <1>1, <1>5
  <2> HIDE DEF x, y
  <2>2. 4 * (Word \div 4) <= Word
    BY <1>1
  <2> QED BY <1>1, <2>1, <2>2 DEF x
<1>7. -(Word * Word) <= 2 * sec /\ 2 * sec < Word * Word
  <2> DEFINE x == Word * Word
  <2> HIDE DEF x
  <2>1. x \in Nat /\ 2 * MaxSafe < x
    BY <1>1 DEF x
  <2>2. CASE sec >= 0
    <3>1. sec * 1 <= sec * MsPerSec
      <4>1. sec \in Nat /\ 1 \in Int /\ MsPerSec \in Int /\ 1 <= MsPerSec
        BY <1>1, <1>2, <2>2
      <4> QED BY <4>1, ProductMonotonic
    <3>2. sec <= msec
      BY <1>2, <1>3, <1>4, <3>1
    <3>3. -x <= 2 * sec /\ 2 * sec < x
      BY <1>1, <1>2, <2>1, <2>2, <3>2
    <3> QED BY <3>3 DEF x
  <2>3. CASE sec < 0
    <3>1. MsPerSec * (sec + 1) <= 1 * (sec + 1)
      <4> DEFINE a == -(sec + 1)
      <4>1. a \in Nat /\ 1 \in Int /\ MsPerSec \in Int /\ 1 <= MsPerSec
        BY <1>1, <1>2, <2>3
      <4>2. a = -(sec + 1)
        OBVIOUS
      <4> HIDE DEF a
      <4>3. a * 1 <= a * MsPerSec
        BY <4>1, ProductMonotonic
      <4>4. a * MsPerSec = -(MsPerSec * (sec + 1))
        BY <1>1, <1>2, <4>2
      <4>5. MsPerSec * (sec + 1) \in Int
        BY <1>1, <1>2
      <4> QED BY <1>2, <4>1, <4>2, <4>3, <4>4, <4>5
    <3>2. MsPerSec * (sec + 1) = sec * MsPerSec + MsPerSec
      BY <1>1, <1>2
    <3>3. msec <= sec
      BY <1>1, <1>2, <1>3, <1>4, <3>1, <3>2
    <3>4. -x <= 2 * sec /\ 2 * sec < x
      BY <1>1, <1>2, <2>1, <2>3, <3>3
    <3> QED BY <3>4 DEF x
  <2> QED BY <1>2, <2>2, <2>3
<1> QED BY <1>2, <1>4, <1>5, <1>6, <1>7 DEF sec, m

\* Two words behind each other.
LEMMA TwoWords ==
  ASSUME NEW u \in Int, NEW v \in Int
  PROVE  LET w == UintBytes(u, 4) \o UintBytes(v, 4)
         IN  /\ w \in Seq(Nat) /\ Len(w) = 8
             /\ \A s, q : Holds(s, q, w) =>
                  /\ u \in 0..(Word - 1) => UintAt(s, q, 4) = u
                  /\ Low(s, q) = v % Word
<1> DEFINE a == UintBytes(u, 4)
           b == UintBytes(v, 4)
           w == a \o b
<1>1. a \in Seq(Nat) /\ Len(a) = 4 /\ b \in Seq(Nat) /\ Len(b) = 4 /\ ToUint(b) = v % Word
  <2>1. 4 \in Nat /\ Power(ByteValues)[4] = Word
    BY DEF Word
  <2> DEFINE k == 4
  <2> HIDE DEF k
  <2>2. k \in Nat
    BY <2>1 DEF k
  <2>3. UintBytes(u, k) \in Seq(Nat) /\ Len(UintBytes(u, k)) = k
    BY <2>2, UintBytesFacts
  <2>4. UintBytes(v, k) \in Seq(Nat) /\ Len(UintBytes(v, k)) = k
    BY <2>2, UintBytesFacts
  <2>5. ToUint(UintBytes(v, k)) = v % Power(ByteValues)[k]
    BY <2>2, UintOfBytes
  <2> QED BY <2>1, <2>3, <2>4, <2>5 DEF k
<1> HIDE DEF a, b
<1>2. w \in Seq(Nat) /\ Len(w) = 8
  <2>1. a \o b \in Seq(Nat) /\ Len(a \o b) = Len(a) + Len(b)
    BY <1>1, JoinFacts
  <2> QED BY <1>1, <2>1
<1>3. ASSUME NEW s, NEW q, Holds(s, q, w)
      PROVE  (u \in 0..(Word - 1) => UintAt(s, q, 4) = u) /\ Low(s, q) = v % Word
  <2>1. Holds(s, q, a) /\ Holds(s, Moved(q, 4), b)
    <3>1. Holds(s, q, a) /\ Holds(s, Moved(q, Len(a)), b)
      BY <1>1, <1>3, HoldsJoin
    <3> QED BY <1>1, <3>1
  <2>2. u \in 0..(Word - 1) => UintAt(s, q, 4) = u
    <3> DEFINE k == 4
    <3>1. k \in Nat /\ Word = Power(ByteValues)[k]
      BY DEF Word
    <3>2. Holds(s, q, UintBytes(u, k))
      BY <2>1 DEF a
    <3> HIDE DEF k
    <3>3. u \in 0..(Power(ByteValues)[k] - 1) => UintAt(s, q, k) = u
      BY <3>1, <3>2, IntegerRead
    <3>4. u \in 0..(Word - 1) => UintAt(s, q, k) = u
      BY <3>1, <3>3
    <3> QED BY <3>4 DEF k
  <2>3. BytesOf(s, Moved(q, 4), 4) = b
    <3> DEFINE p == Moved(q, 4)
    <3> HIDE DEF p
    <3>1. Holds(s, p, b)
      BY <2>1 DEF p
    <3>2. BytesOf(s, p, Len(b)) = b
      BY <3>1, HoldsFacts
    <3> QED BY <1>1, <3>2 DEF p
  <2>4. Low(s, q) = v % Word
    BY <1>1, <2>3 DEF Low
  <2> QED BY <2>2, <2>4
<1> QED BY <1>2, <1>3 DEF a, b

\* addDate, in each of its forms.
LEMMA AddDateReads ==
  ASSUME NEW msec \in -MaxSafe..MaxSafe
  PROVE  ReadsAs(AddDate(msec), <<"date", msec>>)
<1> DEFINE sec  == msec \div MsPerSec
           m    == msec - sec * MsPerSec
           nsec == m * NsPerMs
           v    == <<"date", msec>>
<1>1. /\ sec \in Int /\ m \in Nat /\ nsec \in Nat
      /\ 4 * nsec + 3 < Word
      /\ -(Word * Word) <= 2 * sec /\ 2 * sec < Word * Word
      /\ msec = sec * MsPerSec + m
  BY DateParts
<1>2. AddDate(msec) = AddExt(TimeStamp,
        CASE sec \notin 0..(4 * Word - 1) -> UintBytes(nsec, 4) \o Bytes64(sec)
          [] nsec = 0 /\ sec \in 0..(Word - 1) -> UintBytes(sec, 4)
          [] OTHER -> UintBytes(4 * nsec + ((sec \div Word) % 4), 4) \o UintBytes(sec, 4))
  BY DEF AddDate
<1>3. Word \in Nat \ {0}
  BY SafeFacts
<1> HIDE DEF sec, m
<1>4. DateOf(sec, nsec) = v
  <2>1. DateOf(sec, m * NsPerMs) = <<"date", sec * MsPerSec + m>>
    BY <1>1, DateIs
  <2> QED BY <1>1, <2>1
<1> HIDE DEF nsec, v
<1>5. CASE sec \notin 0..(4 * Word - 1)
  <2> DEFINE a == UintBytes(nsec, 4)
             b == Bytes64(sec)
             w == a \o b
  <2>1. AddDate(msec) = AddExt(TimeStamp, w)
    <3>1. sec \notin 0..(Word - 1)
      BY <1>3, <1>5
    <3> QED BY <1>2, <1>5, <3>1
  <2>2. a \in Seq(Nat) /\ Len(a) = 4 /\ b \in Seq(Nat) /\ Len(b) = 8
    <3> DEFINE k == 4
    <3>1. k \in Nat /\ nsec \in Int
      BY <1>1
    <3> HIDE DEF k
    <3>2. UintBytes(nsec, k) \in Seq(Nat) /\ Len(UintBytes(nsec, k)) = k
      BY <3>1, UintBytesFacts
    <3> QED BY <1>1, <3>2, Bytes64Facts DEF k
  <2> HIDE DEF a, b
  <2>3. w \in Seq(Nat) /\ Len(w) = 12
    <3>1. a \o b \in Seq(Nat) /\ Len(a \o b) = Len(a) + Len(b)
      BY <2>2, JoinFacts
    <3> QED BY <2>2, <3>1
  <2>4. ASSUME NEW s, NEW q, Holds(s, q, w), Remaining(q) = Len(w)
        PROVE  \E p : TimestampAt(s, q) = Value(v, p)
    <3>1. Holds(s, q, a) /\ Holds(s, Moved(q, 4), b)
      <4>1. Holds(s, q, a) /\ Holds(s, Moved(q, Len(a)), b)
        BY <2>2, <2>4, HoldsJoin
      <4> QED BY <2>2, <4>1
    <3>2. UintAt(s, q, 4) = nsec
      <4> DEFINE k == 4
      <4>1. k \in Nat /\ nsec \in Int /\ nsec \in 0..(Power(ByteValues)[k] - 1)
        BY <1>1, <1>3 DEF Word
      <4>2. Holds(s, q, UintBytes(nsec, k))
        BY <3>1 DEF a
      <4> HIDE DEF k
      <4>3. UintAt(s, q, k) = nsec
        BY <4>1, <4>2, IntegerRead
      <4> QED BY <4>3 DEF k
    <3>3. Int64At(s, Moved(q, 4)) = sec
      <4> DEFINE p == Moved(q, 4)
      <4> HIDE DEF p
      <4>1. Holds(s, p, Bytes64(sec))
        BY <3>1 DEF p, b
      <4>2. Int64At(s, p) = sec
        BY <1>1, <4>1, Int64Read
      <4> QED BY <4>2 DEF p
    <3>4. Remaining(q) = 12
      BY <2>3, <2>4
    <3>5. TimestampAt(s, q) = Value(DateOf(Int64At(s, Moved(q, 4)), UintAt(s, q, 4)), q)
      BY <3>4, TimestampForms
    <3> QED BY <1>4, <3>2, <3>3, <3>5
  <2> HIDE DEF w
  <2>5. Len(w) <= 12
    BY <2>3
  <2>6. ReadsAs(AddExt(TimeStamp, w), v)
    BY <2>3, <2>4, <2>5, DateRead
  <2> QED BY <2>1, <2>6 DEF v
<1>6. CASE sec \in 0..(Word - 1) /\ nsec = 0
  <2> DEFINE w == UintBytes(sec, 4)
  <2>1. AddDate(msec) = AddExt(TimeStamp, w)
    <3>1. sec \in 0..(4 * Word - 1)
      BY <1>3, <1>6
    <3> QED BY <1>2, <1>6, <3>1
  <2>2. w \in Seq(Nat) /\ Len(w) = 4
    <3> DEFINE k == 4
    <3>1. k \in Nat
      OBVIOUS
    <3> HIDE DEF k
    <3>2. UintBytes(sec, k) \in Seq(Nat) /\ Len(UintBytes(sec, k)) = k
      BY <1>1, <3>1, UintBytesFacts
    <3> QED BY <3>2 DEF k
  <2>3. ASSUME NEW s, NEW q, Holds(s, q, w), Remaining(q) = Len(w)
        PROVE  \E p : TimestampAt(s, q) = Value(v, p)
    <3>1. UintAt(s, q, 4) = sec
      <4> DEFINE k == 4
      <4>1. k \in Nat /\ sec \in 0..(Power(ByteValues)[k] - 1)
        BY <1>6 DEF Word
      <4>2. Holds(s, q, UintBytes(sec, k))
        BY <2>3
      <4> HIDE DEF k
      <4>3. UintAt(s, q, k) = sec
        BY <1>1, <4>1, <4>2, IntegerRead
      <4> QED BY <4>3 DEF k
    <3>2. Remaining(q) = 4
      BY <2>2, <2>3
    <3>3. TimestampAt(s, q) = Value(DateOf(UintAt(s, q, 4), 0), q)
      BY <3>2, TimestampForms
    <3> QED BY <1>4, <1>6, <3>1, <3>3
  <2> HIDE DEF w
  <2>4. Len(w) <= 12
    BY <2>2
  <2>5. ReadsAs(AddExt(TimeStamp, w), v)
    BY <2>2, <2>3, <2>4, DateRead
  <2> QED BY <2>1, <2>5 DEF v
<1>7. CASE sec \in 0..(4 * Word - 1) /\ ~(sec \in 0..(Word - 1) /\ nsec = 0)
  <2> DEFINE h == sec \div Word
             u == 4 * nsec + (h % 4)
             w == UintBytes(u, 4) \o UintBytes(sec, 4)
  <2>1. AddDate(msec) = AddExt(TimeStamp, w)
    <3>1. ~(nsec = 0 /\ sec \in 0..(Word - 1)) /\ ~(sec \notin 0..(4 * Word - 1))
      BY <1>7
    <3> QED BY <1>2, <3>1
  <2>2. h \in 0..3 /\ sec = Word * h + (sec % Word) /\ sec % Word \in Int
    <3> DEFINE l == sec % Word
    <3>1. h \in Int /\ l \in Int /\ sec = Word * h + l
      BY <1>1, <1>3, IntDivMod
    <3> HIDE DEF h
    <3>2. h < 4 /\ 0 <= h
      <4>1. Word * 4 = 4 * Word /\ Word * 0 = 0 /\ 4 \in Int /\ 0 \in Int
        BY <1>3
      <4>2. /\ sec < Word * 4 <=> sec \div Word < 4
            /\ Word * 0 <= sec <=> 0 <= sec \div Word
        BY <1>1, <1>3, <4>1, QuotientWithin
      <4>3. 0 <= sec /\ sec < 4 * Word
        BY <1>1, <1>3, <1>7
      <4> QED BY <4>1, <4>2, <4>3 DEF h
    <3> QED BY <3>1, <3>2
  <2> HIDE DEF h
  <2>3. h % 4 = h /\ u = 4 * nsec + h /\ u % 4 = h /\ u \div 4 = nsec /\ u \in Int /\ u \in 0..(Word - 1)
    BY <1>1, <1>3, <2>2
  <2> HIDE DEF u
  <2>4. /\ w \in Seq(Nat) /\ Len(w) = 8
        /\ \A s, q : Holds(s, q, w) =>
             /\ u \in 0..(Word - 1) => UintAt(s, q, 4) = u
             /\ Low(s, q) = sec % Word
    BY <1>1, <2>3, TwoWords
  <2> HIDE DEF w
  <2>5. ASSUME NEW s, NEW q, Holds(s, q, w), Remaining(q) = Len(w)
        PROVE  \E p : TimestampAt(s, q) = Value(v, p)
    <3>1. UintAt(s, q, 4) = u /\ Low(s, q) = sec % Word
      BY <2>3, <2>4, <2>5
    <3>2. Remaining(q) = 8
      BY <2>4, <2>5
    <3>3. TimestampAt(s, q) = Value(DateOf((UintAt(s, q, 4) % 4) * Word + Low(s, q),
                                           UintAt(s, q, 4) \div 4), q)
      BY <3>2, TimestampForms
    <3>4. h * Word = Word * h
      BY <1>3, <2>2
    <3>5. (UintAt(s, q, 4) % 4) * Word + Low(s, q) = sec /\ UintAt(s, q, 4) \div 4 = nsec
      BY <2>2, <2>3, <3>1, <3>4
    <3>6. TimestampAt(s, q) = Value(DateOf(sec, nsec), q)
      BY <3>3, <3>5
    <3> QED BY <1>4, <3>6
  <2>6. Len(w) <= 12
    BY <2>4
  <2>7. ReadsAs(AddExt(TimeStamp, w), v)
    BY <2>4, <2>5, <2>6, DateRead
  <2> QED BY <2>1, <2>7 DEF v
<1> QED BY <1>3, <1>5, <1>6, <1>7

-----------------------------------------------------------------------------
(* Arrays and maps, part by part.                                          *)

\* What an exception leaves in the buffer, with nothing behind it, is no value.
IsTorn(w) ==
  \A s, r : Holds(s, r, w) /\ Remaining(r) = Len(w) => NextValue(s, r) \in {Incomplete, Failed}

\* What add wrote is read as the image of its argument, if it has one.
IsFaithful(o, image) ==
  /\ o = [out |-> o.out, threw |-> o.threw]
  /\ o.out \in Seq(Nat) /\ o.threw \in BOOLEAN
  /\ ~o.threw => ReadsSome(o.out)
  /\ ~o.threw /\ image # Unreadable => ReadsAs(o.out, image)
  /\ o.threw => IsTorn(o.out)

\* The first parts have images, those of keys are keys.
AreReadable(images, keys, i) ==
  \A j \in 1..i : images[j] # Unreadable /\ (keys /\ j % 2 = 1 => IsKey(images[j]))

\* What is found of the first i parts, when o is what was written of them.
FoundUpTo(s, r, o, found, images, keys, i) ==
  /\ o = [out |-> o.out, threw |-> o.threw]
  /\ o.out \in Seq(Nat) /\ Len(o.out) >= 1 /\ o.threw \in BOOLEAN
  /\ Holds(s, r, o.out) /\ ~o.threw =>
       \/ found \in {Incomplete, Failed}
       \/ \E v : found = Value(v, Moved(r, Len(o.out)))
  /\ Holds(s, r, o.out) /\ ~o.threw /\ AreReadable(images, keys, i) =>
       found = Value([j \in 1..i |-> images[j]], Moved(r, Len(o.out)))
  /\ Holds(s, r, o.out) /\ o.threw /\ Remaining(r) = Len(o.out) =>
       found \in {Incomplete, Failed}

\* One item more.
LEMMA AppendIs ==
  ASSUME NEW i \in Nat, NEW g
  PROVE  Append([j \in 1..i |-> g[j]], g[i + 1]) = [j \in 1..(i + 1) |-> g[j]]
<1> DEFINE S == {g[j] : j \in 1..(i + 1)}
           a == [j \in 1..i |-> g[j]]
           b == [j \in 1..(i + 1) |-> g[j]]
           c == Append(a, g[i + 1])
<1>1. a \in [1..i -> S] /\ b \in [1..(i + 1) -> S] /\ g[i + 1] \in S
      /\ (\A j \in 1..i : a[j] = g[j]) /\ (\A j \in 1..(i + 1) : b[j] = g[j])
  OBVIOUS
<1> HIDE DEF S, a, b
<1>2. a \in Seq(S) /\ Len(a) = i /\ b \in Seq(S) /\ Len(b) = i + 1
  <2>1. i + 1 \in Nat
    OBVIOUS
  <2> QED BY <1>1, <2>1, IsSequence
<1>3. c \in Seq(S) /\ Len(c) = i + 1 /\ (\A j \in 1..i : c[j] = a[j]) /\ c[i + 1] = g[i + 1]
  BY <1>1, <1>2, AppendProperties
<1> HIDE DEF c
<1>4. \A j \in 1..(i + 1) : c[j] = b[j]
  BY <1>1, <1>3
<1>5. c = b
  BY <1>2, <1>3, <1>4, SeqEqual
<1> QED BY <1>5 DEF a, b, c

\* What is found of an item behind the items before it.
LEMMA ItemFound ==
  ASSUME NEW before, NEW i, NEW keys \in BOOLEAN, NEW nested
  PROVE  LET this == nested[before.reader.pos]
             o == ItemBehind(before, i, keys, nested)
         IN  /\ before \in {Incomplete, Failed} => o = before
             /\ before.kind = "value" /\ this \in {Incomplete, Failed} => o = this
             /\ before.kind = "value" /\ this.kind = "value" =>
                  o = Failed \/ o = Value(Append(before.value, this.value), this.reader)
             /\ /\ before.kind = "value" /\ this.kind = "value"
                /\ keys /\ i % 2 = 1 => IsKey(this.value)
                => o = Value(Append(before.value, this.value), this.reader)
<1> DEFINE this == nested[before.reader.pos]
           o == ItemBehind(before, i, keys, nested)
<1>1. o = IF before.kind # "value" THEN before
          ELSE IF this.kind # "value" THEN this
          ELSE IF keys /\ i % 2 = 1 /\ ~IsKey(this.value) THEN Failed
          ELSE Value(Append(before.value, this.value), this.reader)
  BY DEF ItemBehind
<1> HIDE DEF this, o
<1>2. before \in {Incomplete, Failed} => o = before
  BY <1>1, Kinds
<1>3. before.kind = "value" /\ this \in {Incomplete, Failed} => o = this
  BY <1>1, Kinds
<1>4. before.kind = "value" /\ this.kind = "value" =>
        o = Failed \/ o = Value(Append(before.value, this.value), this.reader)
  BY <1>1
<1>5. /\ before.kind = "value" /\ this.kind = "value"
      /\ keys /\ i % 2 = 1 => IsKey(this.value)
      => o = Value(Append(before.value, this.value), this.reader)
  BY <1>1
<1> QED BY <1>2, <1>3, <1>4, <1>5 DEF this, o

\* What is written behind the parts before it.
LEMMA OutputJoins ==
  ASSUME NEW before, before = [out |-> before.out, threw |-> before.threw],
         before.out \in Seq(Nat), before.threw \in BOOLEAN,
         NEW this, this = [out |-> this.out, threw |-> this.threw],
         this.out \in Seq(Nat), this.threw \in BOOLEAN
  PROVE  LET o == OutputBehind(before, this)
         IN  /\ o = [out |-> o.out, threw |-> o.threw]
             /\ before.threw => o = before
             /\ ~before.threw => o.out = before.out \o this.out /\ o.threw = this.threw
<1>1. CASE before.threw
  BY <1>1 DEF OutputBehind
<1>2. CASE ~before.threw
  <2> DEFINE joined == before.out \o this.out
             flag == this.threw
             old == this.out
  <2>1. this = [out |-> old, threw |-> flag]
    OBVIOUS
  <2>2. OutputBehind(before, this) = [this EXCEPT !.out = joined]
    BY <1>2 DEF OutputBehind
  <2> HIDE DEF joined, flag, old
  <2>3. [this EXCEPT !.out = joined] = [out |-> joined, threw |-> flag]
    BY <2>1
  <2>4. OutputBehind(before, this) = [out |-> joined, threw |-> flag]
    BY <2>2, <2>3
  <2>5. OutputBehind(before, this).out = joined /\ OutputBehind(before, this).threw = flag
    BY <2>4
  <2> QED BY <1>2, <2>4, <2>5 DEF joined, flag
<1> QED BY <1>1, <1>2

\* One part more, when what was written before it did not end with an exception.
LEMMA PartRead ==
  ASSUME NEW s, NEW r, NEW nested, Behind(s, r, nested),
         NEW w \in Seq(Nat), Len(w) >= 1, NEW u \in Seq(Nat), Holds(s, r, w \o u)
  PROVE  LET q == Moved(r, Len(w))
         IN  /\ Holds(s, r, w) /\ Holds(s, q, u)
             /\ nested[q.pos] = NextValue(s, q)
             /\ Moved(q, Len(u)) = Moved(r, Len(w \o u))
             /\ Remaining(q) = Remaining(r) - Len(w)
<1> DEFINE l == Len(w)
           q == Moved(r, l)
<1>1. l \in Nat /\ Len(u) \in Nat /\ Len(w \o u) = l + Len(u)
  <2>1. Len(w \o u) = Len(w) + Len(u)
    BY JoinFacts
  <2> QED BY <2>1
<1>2. Holds(s, r, w) /\ Holds(s, q, u)
  BY HoldsJoin
<1>3. IsReader(s, r) /\ l \in 1..Remaining(r) /\ l \in 0..Remaining(r)
      /\ Remaining(q) = Remaining(r) - l
  BY <1>1, <1>2, HoldsFacts
<1> HIDE DEF l
<1>4. q.pos = r.pos + l /\ Moved(q, Len(u)) = Moved(r, l + Len(u))
  BY <1>1, <1>3, ReaderFacts
<1>5. nested[q.pos] = NextValue(s, q)
  BY <1>3, <1>4 DEF Behind
<1> HIDE DEF q
<1>6. Moved(q, Len(u)) = Moved(r, Len(w \o u))
  BY <1>1, <1>4
<1> QED BY <1>2, <1>3, <1>5, <1>6 DEF q, l

\* What is found of one part more.
LEMMA PartFound ==
  ASSUME NEW s, NEW r, NEW nested, Behind(s, r, nested),
         NEW images, NEW keys \in BOOLEAN, NEW i \in Nat,
         NEW before, NEW found, FoundUpTo(s, r, before, found, images, keys, i),
         NEW this, IsFaithful(this, images[i + 1])
  PROVE  FoundUpTo(s, r, OutputBehind(before, this), ItemBehind(found, i + 1, keys, nested),
                   images, keys, i + 1)
<1> DEFINE o == OutputBehind(before, this)
           x == ItemBehind(found, i + 1, keys, nested)
           item == nested[found.reader.pos]
           all == [j \in 1..i |-> images[j]]
<1>1. /\ before = [out |-> before.out, threw |-> before.threw]
      /\ before.out \in Seq(Nat) /\ Len(before.out) >= 1 /\ before.threw \in BOOLEAN
  BY DEF FoundUpTo
<1>2. /\ this = [out |-> this.out, threw |-> this.threw]
      /\ this.out \in Seq(Nat) /\ this.threw \in BOOLEAN
      /\ ~this.threw => ReadsSome(this.out)
      /\ ~this.threw /\ images[i + 1] # Unreadable => ReadsAs(this.out, images[i + 1])
      /\ this.threw => IsTorn(this.out)
  BY DEF IsFaithful
<1>3. /\ o = [out |-> o.out, threw |-> o.threw]
      /\ before.threw => o = before
      /\ ~before.threw => o.out = before.out \o this.out /\ o.threw = this.threw
  BY <1>1, <1>2, OutputJoins
<1>4. /\ found \in {Incomplete, Failed} => x = found
      /\ found.kind = "value" /\ item \in {Incomplete, Failed} => x = item
      /\ found.kind = "value" /\ item.kind = "value" =>
           x = Failed \/ x = Value(Append(found.value, item.value), item.reader)
      /\ /\ found.kind = "value" /\ item.kind = "value"
         /\ keys /\ (i + 1) % 2 = 1 => IsKey(item.value)
         => x = Value(Append(found.value, item.value), item.reader)
  <2> DEFINE n == i + 1
             z == ItemBehind(found, n, keys, nested)
  <2> HIDE DEF n
  <2>1. /\ found \in {Incomplete, Failed} => z = found
        /\ found.kind = "value" /\ item \in {Incomplete, Failed} => z = item
        /\ found.kind = "value" /\ item.kind = "value" =>
             z = Failed \/ z = Value(Append(found.value, item.value), item.reader)
        /\ /\ found.kind = "value" /\ item.kind = "value"
           /\ keys /\ n % 2 = 1 => IsKey(item.value)
           => z = Value(Append(found.value, item.value), item.reader)
    BY ItemFound
  <2> QED BY <2>1 DEF n
<1> HIDE DEF o, x, all
<1>5. CASE before.threw
  <2>1. o = before
    BY <1>3, <1>5
  <2>2. Holds(s, r, o.out) /\ Remaining(r) = Len(o.out) => x \in {Incomplete, Failed}
    BY <1>4, <1>5, <2>1 DEF FoundUpTo
  <2>3. FoundUpTo(s, r, o, x, images, keys, i + 1)
    BY <1>1, <1>5, <2>1, <2>2 DEF FoundUpTo
  <2> QED BY <2>3 DEF o, x
<1>6. CASE ~before.threw
  <2> DEFINE w == before.out
             u == this.out
             q == Moved(r, Len(w))
             y == NextValue(s, q)
             e == Moved(q, Len(u))
  <2>1. o.out = w \o u /\ o.threw = this.threw
    BY <1>3, <1>6
  <2>2. w \o u \in Seq(Nat) /\ Len(w \o u) = Len(w) + Len(u) /\ Len(w) \in Nat /\ Len(u) \in Nat
    <3>1. w \in Seq(Nat) /\ u \in Seq(Nat)
      BY <1>1, <1>2
    <3> HIDE DEF w, u
    <3>2. w \o u \in Seq(Nat) /\ Len(w \o u) = Len(w) + Len(u)
      BY <3>1, JoinFacts
    <3> QED BY <3>1, <3>2
  <2>3. Len(w \o u) >= 1
    BY <1>1, <2>2
  <2>4. ASSUME Holds(s, r, w \o u)
        PROVE  /\ Holds(s, r, w) /\ Holds(s, q, u) /\ nested[q.pos] = y
               /\ e = Moved(r, Len(w \o u)) /\ Remaining(q) = Remaining(r) - Len(w)
    <3>1. w \in Seq(Nat) /\ u \in Seq(Nat) /\ Len(w) >= 1
      BY <1>1, <1>2
    <3> HIDE DEF w, u
    <3> QED BY <2>4, <3>1, PartRead
  <2>5. ASSUME Holds(s, r, w)
        PROVE  \/ found \in {Incomplete, Failed}
               \/ found.kind = "value" /\ found.reader = q
    <3>1. \/ found \in {Incomplete, Failed}
          \/ \E v : found = Value(v, q)
      BY <1>6, <2>5 DEF FoundUpTo
    <3> QED BY <3>1, Kinds
  <2>6. ASSUME Holds(s, r, w), AreReadable(images, keys, i)
        PROVE  found = Value(all, q)
    BY <1>6, <2>6 DEF FoundUpTo, all
  <2>7. ASSUME Holds(s, q, u), ~this.threw
        PROVE  y \in {Incomplete, Failed} \/ \E v : y = Value(v, e)
    BY <1>2, <2>7 DEF ReadsSome
  <2>8. ASSUME Holds(s, q, u), ~this.threw, images[i + 1] # Unreadable
        PROVE  y = Value(images[i + 1], e)
    BY <1>2, <2>8 DEF ReadsAs
  <2>9. ASSUME Holds(s, q, u), this.threw, Remaining(q) = Len(u)
        PROVE  y \in {Incomplete, Failed}
    BY <1>2, <2>9 DEF IsTorn
  <2> HIDE DEF q, y, e, w, u, item
  <2>10. ASSUME Holds(s, r, o.out), ~o.threw
         PROVE  x \in {Incomplete, Failed} \/ \E v : x = Value(v, Moved(r, Len(o.out)))
    <3>1. Holds(s, r, w) /\ Holds(s, q, u) /\ nested[q.pos] = y /\ e = Moved(r, Len(o.out))
      BY <2>1, <2>4, <2>10
    <3>2. CASE found \in {Incomplete, Failed}
      BY <1>4, <3>2
    <3>3. CASE found.kind = "value" /\ found.reader = q
      <4>1. item = y
        BY <3>1, <3>3 DEF item
      <4>2. CASE y \in {Incomplete, Failed}
        BY <1>4, <3>3, <4>1, <4>2
      <4>3. ASSUME NEW v, y = Value(v, e) PROVE x = Failed \/ \E z : x = Value(z, e)
        <5>1. item.kind = "value" /\ item.reader = e
          BY <4>1, <4>3, Kinds
        <5> QED BY <1>4, <3>3, <5>1
      <4> QED BY <2>1, <2>7, <2>10, <3>1, <4>2, <4>3
    <3> QED BY <2>5, <3>1, <3>2, <3>3
  <2>11. ASSUME Holds(s, r, o.out), ~o.threw, AreReadable(images, keys, i + 1)
         PROVE  x = Value([j \in 1..(i + 1) |-> images[j]], Moved(r, Len(o.out)))
    <3>1. Holds(s, r, w) /\ Holds(s, q, u) /\ nested[q.pos] = y /\ e = Moved(r, Len(o.out))
      BY <2>1, <2>4, <2>11
    <3>2. AreReadable(images, keys, i) /\ images[i + 1] # Unreadable
          /\ (keys /\ (i + 1) % 2 = 1 => IsKey(images[i + 1]))
      <4>1. i + 1 \in 1..(i + 1) /\ 1..i \subseteq 1..(i + 1)
        OBVIOUS
      <4> QED BY <2>11, <4>1 DEF AreReadable
    <3>3. found.kind = "value" /\ found.value = all /\ found.reader = q
      BY <2>6, <3>1, <3>2, Kinds
    <3>4. y = Value(images[i + 1], e)
      BY <2>1, <2>8, <2>11, <3>1, <3>2
    <3>5. item.kind = "value" /\ item.value = images[i + 1] /\ item.reader = e
      BY <3>1, <3>3, <3>4, Kinds DEF item
    <3>6. x = Value(Append(all, images[i + 1]), e)
      BY <1>4, <3>2, <3>3, <3>5
    <3>7. Append(all, images[i + 1]) = [j \in 1..(i + 1) |-> images[j]]
      BY AppendIs DEF all
    <3> QED BY <3>1, <3>6, <3>7
  <2>12. ASSUME Holds(s, r, o.out), o.threw, Remaining(r) = Len(o.out)
         PROVE  x \in {Incomplete, Failed}
    <3>1. Holds(s, r, w) /\ Holds(s, q, u) /\ nested[q.pos] = y /\ Remaining(q) = Remaining(r) - Len(w)
      BY <2>1, <2>4, <2>12
    <3>2. Remaining(q) = Len(u)
      BY <2>1, <2>2, <2>12, <3>1
    <3>3. CASE found \in {Incomplete, Failed}
      BY <1>4, <3>3
    <3>4. CASE found.kind = "value" /\ found.reader = q
      <4>1. item = y /\ y \in {Incomplete, Failed}
        BY <2>1, <2>9, <2>12, <3>1, <3>2, <3>4 DEF item
      <4> QED BY <1>4, <3>4, <4>1
    <3> QED BY <2>5, <3>1, <3>3, <3>4
  <2>13. o.out \in Seq(Nat) /\ Len(o.out) >= 1 /\ o.threw \in BOOLEAN
    BY <1>2, <2>1, <2>2, <2>3
  <2>14. FoundUpTo(s, r, o, x, images, keys, i + 1)
    BY <1>3, <2>10, <2>11, <2>12, <2>13 DEF FoundUpTo
  <2> QED BY <2>14 DEF o, x
<1> QED BY <1>5, <1>6

\* The outputs of the parts, one after the other.
LEMMA OutputAllSteps ==
  ASSUME NEW header, NEW parts, Len(parts) \in Nat, NEW nested
  PROVE  \E f : /\ OutputAll(header, parts, nested) = f[Len(parts)]
               /\ f[0] = Wrote(header)
               /\ \A i \in 1..Len(parts) : f[i] = OutputBehind(f[i - 1], nested[parts[i]])
<1> DEFINE Eqn(g, m) == g = [i \in 0..m |-> IF i = 0 THEN Wrote(header)
                                           ELSE OutputBehind(g[i - 1], nested[parts[i]])]
           S == {m \in Nat : \E g : Eqn(g, m)}
           n == Len(parts)
           f == CHOOSE g : Eqn(g, n)
<1>1. 0 \in S
  <2>1. Eqn([i \in 0..0 |-> Wrote(header)], 0)
    OBVIOUS
  <2> QED BY <2>1
<1>2. ASSUME NEW m \in Nat, m \in S PROVE m + 1 \in S
  <2>1. PICK g : Eqn(g, m)
    BY <1>2
  <2> DEFINE h == [i \in 0..(m + 1) |-> IF i = 0 THEN Wrote(header)
                                       ELSE OutputBehind(g[i - 1], nested[parts[i]])]
  <2>2. ASSUME NEW i \in 0..m PROVE h[i] = g[i]
    <3>1. g[i] = IF i = 0 THEN Wrote(header) ELSE OutputBehind(g[i - 1], nested[parts[i]])
      BY <2>1, Zenon
    <3> QED BY <3>1
  <2>3. ASSUME NEW i \in 0..(m + 1), i # 0 PROVE h[i - 1] = g[i - 1]
    <3>1. i - 1 \in 0..m
      BY <2>3
    <3> HIDE DEF h
    <3> QED BY <2>2, <3>1
  <2>4. Eqn(h, m + 1)
    <3> DEFINE hh == [i \in 0..(m + 1) |-> IF i = 0 THEN Wrote(header)
                                       ELSE OutputBehind(h[i - 1], nested[parts[i]])]
    <3>1. ASSUME NEW i \in 0..(m + 1) PROVE h[i] = hh[i]
      <4> HIDE DEF h
      <4>1. CASE i = 0
        BY <4>1 DEF h
      <4>2. CASE i # 0
        <5>1. h[i] = OutputBehind(g[i - 1], nested[parts[i]])
          BY <4>2 DEF h
        <5> QED BY <2>3, <4>2, <5>1
      <4> QED BY <4>1, <4>2
    <3> QED BY <3>1
  <2>5. \E g2 : Eqn(g2, m + 1)
    <3> HIDE DEF Eqn, h
    <3> QED BY <2>4
  <2> HIDE DEF Eqn
  <2> QED BY <2>5
<1>3. n \in S
  <2>1. n \in Nat
    OBVIOUS
  <2> HIDE DEF S, n
  <2> QED BY <1>1, <1>2, <2>1, NatSteps
<1>4. OutputAll(header, parts, nested) = f[n]
  BY Zenon DEF OutputAll
<1>5. Eqn(f, n)
  <2>1. \E g : Eqn(g, n)
    BY <1>3
  <2> HIDE DEF Eqn
  <2> QED BY <2>1, Zenon
<1> HIDE DEF f
<1>6. \A i \in 0..n : f[i] = IF i = 0 THEN Wrote(header) ELSE OutputBehind(f[i - 1], nested[parts[i]])
  BY <1>5, Zenon
<1> QED BY <1>4, <1>6

\* f tells what is written of the values in n levels.
OutputByDepth(f, n) ==
  \A depth \in 1..n, a \in Values : f[depth][a] = OutputWith(a, DefaultOptions, f[depth - 1])

\* A value is written in terms of what is written of those in it.
LEMMA OutputSteps ==
  ASSUME NEW arg \in Values, NEW options
  PROVE  \E f : /\ Output(arg, options) = OutputWith(arg, options, f[Depth[arg]])
               /\ OutputByDepth(f, Depth[arg])
<1> DEFINE n == Depth[arg]
           Level(g, depth) == [a \in Values |-> IF depth = 0 THEN Refused
                                                ELSE OutputWith(a, DefaultOptions, g[depth - 1])]
           Eqn(g, m) == g = [depth \in 0..m |-> Level(g, depth)]
           S == {m \in Nat : \E g : Eqn(g, m)}
           f == CHOOSE g : Eqn(g, n)
<1>1. 0 \in S
  <2> DEFINE g == [depth \in 0..0 |-> [a \in Values |-> Refused]]
  <2>1. Eqn(g, 0)
    OBVIOUS
  <2> QED BY <2>1
<1>2. ASSUME NEW m \in Nat, m \in S PROVE m + 1 \in S
  <2>1. PICK g : Eqn(g, m)
    BY <1>2
  <2> DEFINE h == [depth \in 0..(m + 1) |-> Level(g, depth)]
  <2>2. ASSUME NEW depth \in 0..m PROVE h[depth] = g[depth]
    <3> HIDE DEF Level
    <3>1. g[depth] = Level(g, depth)
      BY <2>1, Zenon
    <3> QED BY <3>1
  <2>3. ASSUME NEW depth \in 0..(m + 1) PROVE Level(h, depth) = Level(g, depth)
    <3>1. depth = 0 \/ depth - 1 \in 0..m
      OBVIOUS
    <3>2. depth = 0 \/ h[depth - 1] = g[depth - 1]
      BY <2>2, <3>1
    <3> HIDE DEF h
    <3> QED BY <3>2
  <2>4. h = [depth \in 0..(m + 1) |-> Level(h, depth)]
    <3> HIDE DEF Level
    <3>1. \A depth \in 0..(m + 1) : h[depth] = Level(h, depth)
      BY <2>3
    <3> QED BY <3>1
  <2>5. \E g2 : Eqn(g2, m + 1)
    <3> HIDE DEF h, Level
    <3> QED BY <2>4
  <2> HIDE DEF Eqn
  <2> QED BY <2>5
<1>3. n \in Nat
  BY ValuesAssumption
<1>4. n \in S
  <2> HIDE DEF S, n
  <2> QED BY <1>1, <1>2, <1>3, NatSteps
<1>5. Output(arg, options) = OutputWith(arg, options, f[n])
  BY Zenon DEF Output
<1>6. Eqn(f, n)
  <2>1. \E g : Eqn(g, n)
    BY <1>4
  <2> HIDE DEF Eqn
  <2> QED BY <2>1, Zenon
<1> HIDE DEF f
<1>7. ASSUME NEW depth \in 0..n PROVE f[depth] = Level(f, depth)
  <2> HIDE DEF Level
  <2> QED BY <1>6, Zenon
<1>8. ASSUME NEW depth \in 1..n, NEW a \in Values
      PROVE  f[depth][a] = OutputWith(a, DefaultOptions, f[depth - 1])
  <2>1. depth \in 0..n /\ depth # 0
    BY <1>3
  <2>2. f[depth] = Level(f, depth)
    BY <1>7, <2>1
  <2> QED BY <2>1, <2>2
<1>9. OutputByDepth(f, n)
  BY <1>8 DEF OutputByDepth
<1> QED BY <1>5, <1>9

\* f tells what is read back of them.
ImageByDepth(f, n) ==
  \A depth \in 1..n, a \in Values : f[depth][a] = ImageWith(a, DefaultOptions, f[depth - 1])

\* So is its image told.
LEMMA ImageSteps ==
  ASSUME NEW arg \in Values, NEW options
  PROVE  \E f : /\ Image(arg, options) = ImageWith(arg, options, f[Depth[arg]])
               /\ ImageByDepth(f, Depth[arg])
<1> DEFINE n == Depth[arg]
           Level(g, depth) == [a \in Values |-> IF depth = 0 THEN Unreadable
                                                ELSE ImageWith(a, DefaultOptions, g[depth - 1])]
           Eqn(g, m) == g = [depth \in 0..m |-> Level(g, depth)]
           S == {m \in Nat : \E g : Eqn(g, m)}
           f == CHOOSE g : Eqn(g, n)
<1>1. 0 \in S
  <2> DEFINE g == [depth \in 0..0 |-> [a \in Values |-> Unreadable]]
  <2>1. Eqn(g, 0)
    OBVIOUS
  <2> QED BY <2>1
<1>2. ASSUME NEW m \in Nat, m \in S PROVE m + 1 \in S
  <2>1. PICK g : Eqn(g, m)
    BY <1>2
  <2> DEFINE h == [depth \in 0..(m + 1) |-> Level(g, depth)]
  <2>2. ASSUME NEW depth \in 0..m PROVE h[depth] = g[depth]
    <3> HIDE DEF Level
    <3>1. g[depth] = Level(g, depth)
      BY <2>1, Zenon
    <3> QED BY <3>1
  <2>3. ASSUME NEW depth \in 0..(m + 1) PROVE Level(h, depth) = Level(g, depth)
    <3>1. depth = 0 \/ depth - 1 \in 0..m
      OBVIOUS
    <3>2. depth = 0 \/ h[depth - 1] = g[depth - 1]
      BY <2>2, <3>1
    <3> HIDE DEF h
    <3> QED BY <3>2
  <2>4. h = [depth \in 0..(m + 1) |-> Level(h, depth)]
    <3> HIDE DEF Level
    <3>1. \A depth \in 0..(m + 1) : h[depth] = Level(h, depth)
      BY <2>3
    <3> QED BY <3>1
  <2>5. \E g2 : Eqn(g2, m + 1)
    <3> HIDE DEF h, Level
    <3> QED BY <2>4
  <2> HIDE DEF Eqn
  <2> QED BY <2>5
<1>3. n \in Nat
  BY ValuesAssumption
<1>4. n \in S
  <2> HIDE DEF S, n
  <2> QED BY <1>1, <1>2, <1>3, NatSteps
<1>5. Image(arg, options) = ImageWith(arg, options, f[n])
  BY Zenon DEF Image
<1>6. Eqn(f, n)
  <2>1. \E g : Eqn(g, n)
    BY <1>4
  <2> HIDE DEF Eqn
  <2> QED BY <2>1, Zenon
<1> HIDE DEF f
<1>7. ASSUME NEW depth \in 0..n PROVE f[depth] = Level(f, depth)
  <2> HIDE DEF Level
  <2> QED BY <1>6, Zenon
<1>8. ASSUME NEW depth \in 1..n, NEW a \in Values
      PROVE  f[depth][a] = ImageWith(a, DefaultOptions, f[depth - 1])
  <2>1. depth \in 0..n /\ depth # 0
    BY <1>3
  <2>2. f[depth] = Level(f, depth)
    BY <1>7, <2>1
  <2> QED BY <2>1, <2>2
<1>9. ImageByDepth(f, n)
  BY <1>8 DEF ImageByDepth
<1> QED BY <1>5, <1>9

\* What is found of all parts, behind a header.
LEMMA PartsFound ==
  ASSUME NEW s, NEW r, NEW found, Behind(s, r, found),
         NEW h \in Seq(Nat), Len(h) >= 1, NEW parts, Len(parts) \in Nat,
         NEW nested, NEW images, \A i \in 1..Len(parts) : IsFaithful(nested[parts[i]], images[i]),
         NEW keys \in BOOLEAN
  PROVE  LET o == OutputAll(h, parts, nested)
         IN  /\ FoundUpTo(s, r, o, Items(Moved(r, Len(h)), Len(parts), keys, found), images, keys,
                          Len(parts))
             /\ Holds(s, r, o.out) => Holds(s, r, h)
<1> DEFINE k == Len(parts)
           m == Moved(r, Len(h))
<1>1. k \in Nat /\ \A i \in 1..k : IsFaithful(nested[parts[i]], images[i])
  OBVIOUS
<1>2. PICK up : /\ OutputAll(h, parts, nested) = up[k]
                /\ up[0] = Wrote(h)
                /\ \A i \in 1..k : up[i] = OutputBehind(up[i - 1], nested[parts[i]])
  <2>1. \E up : /\ OutputAll(h, parts, nested) = up[Len(parts)]
                /\ up[0] = Wrote(h)
                /\ \A i \in 1..Len(parts) : up[i] = OutputBehind(up[i - 1], nested[parts[i]])
    <3> HIDE DEF k, m
    <3> QED BY OutputAllSteps, SMTT(30)
  <2> QED BY <2>1
<1> HIDE DEF k, m
<1>3. PICK g : /\ Items(m, k, keys, found) = g[k]
               /\ g[0] = Value(<<>>, m)
               /\ \A i \in 1..k : g[i] = ItemBehind(g[i - 1], i, keys, found)
  BY <1>1, ItemsSteps
<1> DEFINE P(i) == /\ FoundUpTo(s, r, up[i], g[i], images, keys, i)
                   /\ Holds(s, r, up[i].out) => Holds(s, r, h)
           S == {i \in Nat : i <= k => P(i)}
<1>4. 0 \in S
  <2> DEFINE o == up[0]
             x == g[0]
  <2>1. o = [out |-> h, threw |-> FALSE] /\ x = Value(<<>>, m)
    BY <1>2, <1>3 DEF Wrote
  <2>2. o.out = h /\ o.threw = FALSE /\ o = [out |-> o.out, threw |-> o.threw]
    BY <2>1
  <2>3. [j \in 1..0 |-> images[j]] = <<>>
    OBVIOUS
  <2> HIDE DEF o, x
  <2>4. FoundUpTo(s, r, o, x, images, keys, 0)
    BY <2>1, <2>2, <2>3 DEF FoundUpTo, m
  <2> QED BY <2>2, <2>4 DEF o, x
<1>5. ASSUME NEW i \in Nat, i \in S PROVE i + 1 \in S
  <2> SUFFICES ASSUME i + 1 <= k PROVE P(i + 1)
    OBVIOUS
  <2>1. P(i)
    BY <1>1, <1>5
  <2> DEFINE before == up[i]
             x == g[i]
             this == nested[parts[i + 1]]
  <2>2. i + 1 \in 1..k /\ (i + 1) - 1 = i
    BY <1>1
  <2>3. up[i + 1] = OutputBehind(before, this) /\ g[i + 1] = ItemBehind(x, i + 1, keys, found)
        /\ IsFaithful(this, images[i + 1])
    BY <1>1, <1>2, <1>3, <2>2
  <2>4. FoundUpTo(s, r, before, x, images, keys, i) /\ (Holds(s, r, before.out) => Holds(s, r, h))
    BY <2>1
  <2> HIDE DEF before, x, this
  <2>5. FoundUpTo(s, r, OutputBehind(before, this), ItemBehind(x, i + 1, keys, found),
                  images, keys, i + 1)
    BY <2>3, <2>4, PartFound
  <2>6. Holds(s, r, OutputBehind(before, this).out) => Holds(s, r, before.out)
    <3>1. /\ before = [out |-> before.out, threw |-> before.threw]
          /\ before.out \in Seq(Nat) /\ before.threw \in BOOLEAN
      BY <2>4 DEF FoundUpTo
    <3>2. /\ this = [out |-> this.out, threw |-> this.threw]
          /\ this.out \in Seq(Nat) /\ this.threw \in BOOLEAN
      BY <2>3 DEF IsFaithful
    <3> DEFINE o == OutputBehind(before, this)
    <3>3. /\ before.threw => o = before
          /\ ~before.threw => o.out = before.out \o this.out
      BY <3>1, <3>2, OutputJoins
    <3> HIDE DEF o
    <3>4. CASE before.threw
      BY <3>3, <3>4 DEF o
    <3>5. CASE ~before.threw
      <4>1. Holds(s, r, before.out \o this.out) => Holds(s, r, before.out)
        BY <3>1, <3>2, HoldsJoin
      <4> QED BY <3>3, <3>5, <4>1 DEF o
    <3> QED BY <3>1, <3>4, <3>5
  <2> QED BY <2>3, <2>4, <2>5, <2>6
<1>6. k \in S
  <2> HIDE DEF S
  <2> QED BY <1>1, <1>4, <1>5, NatSteps
<1>7. P(k)
  BY <1>1, <1>6
<1> QED BY <1>2, <1>3, <1>7 DEF k, m

\* What is found of an array or a map, and of the torn rest of one.
LEMMA ContainerReads ==
  ASSUME NEW h, NEW f, NEW w, NEW n \in Nat, IsHeader(h, f, w, n),
         NEW keys \in BOOLEAN, keys => IsMap(f), ~keys => IsArray(f),
         NEW parts, Len(parts) = IF keys THEN 2 * n ELSE n,
         NEW nested, NEW images, \A i \in 1..Len(parts) : IsFaithful(nested[parts[i]], images[i]),
         NEW image,
         image # Unreadable =>
           /\ AreReadable(images, keys, Len(parts))
           /\ image = Wrap(keys, [i \in 1..Len(parts) |-> images[i]])
  PROVE  IsFaithful(OutputAll(h, parts, nested), image)
<1> DEFINE k == Len(parts)
           o == OutputAll(h, parts, nested)
           all == [i \in 1..k |-> images[i]]
<1>1. f \in Nat /\ h \in Seq(Nat) /\ Len(h) >= 1
  <2>1. <<f>> \in Seq(Nat) /\ Len(<<f>>) = 1 /\ w \in Seq(Nat) /\ h = <<f>> \o w /\ f \in Nat
    BY DEF IsHeader
  <2> QED BY <2>1, JoinFacts
<1>2. k \in Nat
  OBVIOUS
<1>3. ASSUME NEW s, NEW r, NEW found, Behind(s, r, found)
      PROVE  /\ FoundUpTo(s, r, o, Items(Moved(r, Len(h)), k, keys, found), images, keys, k)
             /\ Holds(s, r, o.out) => Holds(s, r, h)
  BY <1>1, <1>2, <1>3, PartsFound
<1>4. o = [out |-> o.out, threw |-> o.threw] /\ o.out \in Seq(Nat) /\ Len(o.out) >= 1
      /\ o.threw \in BOOLEAN
  <2> DEFINE r == NewReader(0, 0)
  <2>1. Remaining(r) = 0
    BY DEF NewReader, Remaining
  <2> HIDE DEF r, o, k
  <2>2. Behind(<<>>, r, <<>>)
    BY <2>1 DEF Behind
  <2>3. FoundUpTo(<<>>, r, o, Items(Moved(r, Len(h)), k, keys, <<>>), images, keys, k)
    BY <1>3, <2>2
  <2> QED BY <2>3 DEF FoundUpTo
<1> HIDE DEF o, all, k
<1>5. ASSUME NEW s, NEW r, Holds(s, r, o.out)
      PROVE  \E x : /\ FoundUpTo(s, r, o, x, images, keys, k)
                    /\ NextValue(s, r) = Wrapped(keys, x)
  <2>1. Behind(s, r, [p \in Nat |-> NextValue(s, [r EXCEPT !.pos = p])])
        => Holds(s, r, h)
    BY <1>3, <1>5
  <2>2. Holds(s, r, h)
    <3>1. r.pos \in Nat /\ Remaining(r) \in Nat
      <4>1. IsReader(s, r)
        BY <1>5 DEF Holds
      <4> QED BY <4>1, ReaderFacts DEF IsReader
    <3>2. \A d \in 1..Remaining(r) :
            [p \in Nat |-> NextValue(s, [r EXCEPT !.pos = p])][r.pos + d] = NextValue(s, Moved(r, d))
      BY <3>1 DEF Moved
    <3> QED BY <2>1, <3>2 DEF Behind
  <2>3. PICK found : /\ NextValue(s, r) = ContentAt(s, f, Moved(r, 1), Moved(r, Len(h)), n, found)
                     /\ Behind(s, r, found)
    BY <2>2, HeaderAlone
  <2> DEFINE m == Moved(r, Len(h))
             x == Items(m, k, keys, found)
  <2>4. FoundUpTo(s, r, o, x, images, keys, k)
    BY <1>3, <2>3
  <2>5. NextValue(s, r) = Wrapped(keys, x)
    <3>1. CASE keys
      <4>1. f \in Nat /\ IsMap(f) /\ keys = TRUE /\ k = 2 * n
        BY <1>1, <3>1 DEF k
      <4> HIDE DEF m
      <4>2. ContentAt(s, f, Moved(r, 1), m, n, found) = MapAt(m, n, found)
        BY <4>1, MapContent
      <4>3. MapAt(m, n, found) = Wrapped(keys, Items(m, k, keys, found))
        BY <4>1 DEF MapAt
      <4> QED BY <2>3, <4>2, <4>3 DEF m
    <3>2. CASE ~keys
      <4>1. f \in Nat /\ IsArray(f) /\ keys = FALSE /\ k = n
        BY <1>1, <3>2 DEF k
      <4> HIDE DEF m
      <4>2. ContentAt(s, f, Moved(r, 1), m, n, found) = ArrayAt(m, n, found)
        BY <4>1, ArrayContent
      <4>3. ArrayAt(m, n, found) = Wrapped(keys, Items(m, k, keys, found))
        BY <4>1 DEF ArrayAt
      <4> QED BY <2>3, <4>2, <4>3 DEF m
    <3> QED BY <3>1, <3>2
  <2> HIDE DEF x
  <2> QED BY <2>4, <2>5
<1>6. ASSUME ~o.threw PROVE ReadsSome(o.out)
  <2>1. ASSUME NEW s, NEW r, Holds(s, r, o.out)
        PROVE  \/ NextValue(s, r) \in {Incomplete, Failed}
               \/ \E v : NextValue(s, r) = Value(v, Moved(r, Len(o.out)))
    <3>1. PICK x : /\ FoundUpTo(s, r, o, x, images, keys, k)
                   /\ NextValue(s, r) = Wrapped(keys, x)
      BY <1>5, <2>1
    <3>2. x \in {Incomplete, Failed} \/ \E v : x = Value(v, Moved(r, Len(o.out)))
      BY <1>6, <2>1, <3>1 DEF FoundUpTo
    <3> QED BY <3>1, <3>2, Kinds DEF Wrapped
  <2> QED BY <1>4, <2>1 DEF ReadsSome
<1>7. ASSUME ~o.threw, image # Unreadable PROVE ReadsAs(o.out, image)
  <2>1. AreReadable(images, keys, k) /\ image = Wrap(keys, all)
    BY <1>7 DEF k, all
  <2>2. ASSUME NEW s, NEW r, Holds(s, r, o.out)
        PROVE  NextValue(s, r) = Value(image, Moved(r, Len(o.out)))
    <3>1. PICK x : /\ FoundUpTo(s, r, o, x, images, keys, k)
                   /\ NextValue(s, r) = Wrapped(keys, x)
      BY <1>5, <2>2
    <3>2. x = Value(all, Moved(r, Len(o.out)))
      BY <1>7, <2>1, <2>2, <3>1 DEF FoundUpTo, all
    <3> QED BY <2>1, <3>1, <3>2, Kinds DEF Wrapped
  <2> QED BY <1>4, <2>2 DEF ReadsAs
<1>8. ASSUME o.threw PROVE IsTorn(o.out)
  <2>1. ASSUME NEW s, NEW r, Holds(s, r, o.out), Remaining(r) = Len(o.out)
        PROVE  NextValue(s, r) \in {Incomplete, Failed}
    <3>1. PICK x : /\ FoundUpTo(s, r, o, x, images, keys, k)
                   /\ NextValue(s, r) = Wrapped(keys, x)
      BY <1>5, <2>1
    <3>2. x \in {Incomplete, Failed}
      BY <1>8, <2>1, <3>1 DEF FoundUpTo
    <3> QED BY <3>1, <3>2, Kinds DEF Wrapped
  <2> QED BY <2>1 DEF IsTorn
<1> QED BY <1>4, <1>6, <1>7, <1>8 DEF IsFaithful, o

-----------------------------------------------------------------------------
(* Every value.                                                            *)

\* What is read back, or needs not be, is faithful.
LEMMA WroteReads ==
  ASSUME NEW w, NEW v, ReadsAs(w, v), NEW image, image = v \/ image = Unreadable
  PROVE  IsFaithful(Wrote(w), image)
<1> DEFINE o == Wrote(w)
<1>1. o = [out |-> w, threw |-> FALSE] /\ o.out = w /\ o.threw = FALSE
  BY DEF Wrote
<1>2. w \in Seq(Nat) /\ ReadsSome(w)
  BY ReadsAsSome DEF ReadsAs
<1> HIDE DEF o
<1>3. IsFaithful(o, image)
  BY <1>1, <1>2 DEF IsFaithful
<1> QED BY <1>3 DEF o

\* So is a value of the right length.
LEMMA WroteSome ==
  ASSUME NEW w, ReadsSome(w)
  PROVE  IsFaithful(Wrote(w), Unreadable)
<1> DEFINE o == Wrote(w)
<1>1. o = [out |-> w, threw |-> FALSE] /\ o.out = w /\ o.threw = FALSE
  BY DEF Wrote
<1>2. w \in Seq(Nat)
  BY DEF ReadsSome
<1> HIDE DEF o
<1>3. IsFaithful(o, Unreadable)
  BY <1>1, <1>2 DEF IsFaithful
<1> QED BY <1>3 DEF o

\* And an exception before anything is written.
LEMMA RefusedIsFaithful ==
  ASSUME NEW image
  PROVE  IsFaithful(Refused, image)
<1> DEFINE o == Refused
           none == <<>>
<1>1. o = [out |-> none, threw |-> TRUE] /\ o.out = none /\ o.threw = TRUE
  BY DEF Refused
<1>2. none \in Seq(Nat) /\ Len(none) = 0
  OBVIOUS
<1> HIDE DEF o, none
<1>3. IsTorn(none)
  <2>1. ASSUME NEW s, NEW r, Holds(s, r, none), Remaining(r) = Len(none)
        PROVE  NextValue(s, r) \in {Incomplete, Failed}
    <3>1. IsReader(s, r) /\ Remaining(r) = 0
      BY <1>2, <2>1 DEF Holds
    <3>2. NextValue(s, r) = Incomplete
      BY <3>1, NoneLeft
    <3> QED BY <3>2
  <2> QED BY <2>1 DEF IsTorn
<1>4. IsFaithful(o, image)
  BY <1>1, <1>2, <1>3 DEF IsFaithful
<1> QED BY <1>4 DEF o

\* The scalars by their types.
LEMMA ScalarForms ==
  ASSUME NEW arg \in Scalars
  PROVE  \/ arg[1] \in {"undefined", "null", "symbol", "function"}
         \/ arg[1] = "boolean" /\ arg[2] \in BOOLEAN /\ arg = <<"boolean", arg[2]>>
         \/ arg[1] = "number" /\ arg[2] \in -MaxSafe..MaxSafe /\ arg = <<"number", arg[2]>>
         \/ arg[1] = "date" /\ arg[2] \in -MaxSafe..MaxSafe /\ arg = <<"date", arg[2]>>
         \/ arg[1] = "bigint" /\ arg[2] \in Int
         \/ arg[1] = "float" /\ arg[2] \in [1..8 -> 0..(ByteValues - 1)] /\ arg = <<"float", arg[2]>>
         \/ arg[1] = "string" /\ arg[2] \in Seq(Nat)
         \/ arg[1] = "bytes" /\ arg[2] \in Seq(Nat) /\ arg = <<"bytes", arg[2]>>
         \/ arg[1] = "ext" /\ arg[2] \in Int /\ arg[3] \in Seq(Nat)
<1>1. \A w \in Octets : w \in Seq(Nat)
  <2>1. 0..(ByteValues - 1) \subseteq Nat
    BY WidthFacts
  <2> QED BY <2>1, SeqMonotonic DEF Octets
<1> DEFINE Double == [1..8 -> 0..(ByteValues - 1)]
           Safe == -MaxSafe..MaxSafe
<1> HIDE DEF Double, Safe
<1>2. arg \in {<<"undefined">>, <<"null">>, <<"symbol">>, <<"function">>} \cup ({"boolean"} \X BOOLEAN)
    \cup ({"number", "date"} \X Safe) \cup ({"bigint"} \X Int)
    \cup ({"float"} \X Double)
    \cup ({"string", "bytes"} \X Octets) \cup ({"ext"} \X Int \X Octets)
  BY DEF Scalars, Double, Safe
<1>3. CASE arg \in {<<"undefined">>, <<"null">>, <<"symbol">>, <<"function">>}
  BY <1>3
<1>4. CASE arg \in {"boolean"} \X BOOLEAN
  BY <1>4
<1>5. CASE arg \in {"number", "date"} \X Safe
  BY <1>5 DEF Safe
<1>6. CASE arg \in {"bigint"} \X Int
  BY <1>6
<1>7. CASE arg \in {"float"} \X Double
  BY <1>7 DEF Double
<1>8. CASE arg \in {"string", "bytes"} \X Octets
  BY <1>1, <1>8
<1>9. CASE arg \in {"ext"} \X Int \X Octets
  BY <1>1, <1>9
<1> QED BY <1>2, <1>3, <1>4, <1>5, <1>6, <1>7, <1>8, <1>9

\* What is written of a value, by its type.
LEMMA OutputForms ==
  ASSUME NEW arg, NEW options, NEW nested
  PROVE  LET o == OutputWith(arg, options, nested)
             type == arg[1]
         IN  /\ type \in {"undefined", "null"} => o = Wrote(<<192>>)
             /\ type = "boolean" => o = Wrote(<<IF arg[2] THEN 195 ELSE 194>>)
             /\ type = "number" => o = Wrote(AddInt(arg[2]))
             /\ type = "float" => o = Wrote(AddFloat(arg[2], options.asFloats))
             /\ type = "bigint" => o = Wrote(AddBigInt(arg[2]))
             /\ type = "string" /\ Len(arg[2]) < Word => o = Wrote(AddString(arg[2]))
             /\ type = "bytes" /\ Len(arg[2]) < Word => o = Wrote(AddBinary(arg[2]))
             /\ type = "date" => o = Wrote(AddDate(arg[2]))
             /\ /\ type = "ext" /\ FitsInt(arg[2], 208) /\ FitsInt(-arg[2] - 1, 208)
                /\ Len(arg[3]) < Word
                => o = Wrote(AddExt(arg[2], arg[3]))
             /\ /\ type = "ext"
                /\ ~(FitsInt(arg[2], 208) /\ FitsInt(-arg[2] - 1, 208) /\ Len(arg[3]) < Word)
                => o = Refused
             /\ type \in {"string", "bytes"} /\ ~(Len(arg[2]) < Word) => o = Refused
             /\ type \in {"symbol", "function"} => o = Refused
             /\ type = "typed" /\ options.asBinary /\ 2 * Len(arg[2]) < Word =>
                  o = Wrote(AddBinary(TypedBytes(arg[2])))
             /\ type = "typed" /\ options.asBinary /\ ~(2 * Len(arg[2]) < Word) => o = Refused
             /\ type \in {"array", "set"} =>
                  o = OutputAll(AddArrayHeader(Len(arg[2])), Parts(arg), nested)
             /\ type = "typed" /\ ~options.asBinary =>
                  o = OutputAll(AddArrayHeader(Len(arg[2])), Parts(arg), nested)
             /\ type \in {"map", "object"} =>
                  o = OutputAll(AddMapHeader(Len(arg[2])), Parts(arg), nested)
<1> DEFINE o == OutputWith(arg, options, nested)
           t == arg[1]
           n == Len(arg[2])
           short == n < Word
           shorts == 2 * n < Word
           extension == /\ FitsInt(arg[2], 208) /\ FitsInt(-arg[2] - 1, 208)
                        /\ Len(arg[3]) < Word
           binary == options.asBinary
           l1 == Wrote(<<192>>)
           l2 == Wrote(<<IF arg[2] THEN 195 ELSE 194>>)
           l3 == Wrote(AddInt(arg[2]))
           l4 == Wrote(AddFloat(arg[2], options.asFloats))
           l5 == Wrote(AddBigInt(arg[2]))
           l6 == Wrote(AddString(arg[2]))
           l7 == Wrote(AddBinary(arg[2]))
           l8 == Wrote(AddBinary(TypedBytes(arg[2])))
           l9 == OutputAll(AddArrayHeader(Len(arg[2])), Parts(arg), nested)
           l10 == OutputAll(AddMapHeader(Len(arg[2])), Parts(arg), nested)
           l11 == Wrote(AddDate(arg[2]))
           l12 == Wrote(AddExt(arg[2], arg[3]))
<1>1. o = CASE t \in {"undefined", "null"} -> l1
            [] t = "boolean" -> l2
            [] t = "number" -> l3
            [] t = "float" -> l4
            [] t = "bigint" -> l5
            [] t = "string" /\ short -> l6
            [] t = "bytes" /\ short -> l7
            [] t = "typed" /\ binary /\ shorts -> l8
            [] t \in {"array", "set"} \/ (t = "typed" /\ ~binary) -> l9
            [] t \in {"map", "object"} -> l10
            [] t = "date" -> l11
            [] t = "ext" /\ extension -> l12
            [] OTHER -> Refused
  BY DEF OutputWith, IsList, IsMapping, Formats
<1> HIDE DEF o, t, n, short, shorts, extension, binary, l1, l2, l3, l4, l5, l6, l7, l8, l9, l10, l11, l12
<1>2. /\ t \in {"undefined", "null"} => o = l1
      /\ t = "boolean" => o = l2
      /\ t = "number" => o = l3
      /\ t = "float" => o = l4
      /\ t = "bigint" => o = l5
      /\ t = "date" => o = l11
  BY <1>1
<1>3. /\ t = "string" /\ short => o = l6
      /\ t = "bytes" /\ short => o = l7
      /\ t \in {"string", "bytes"} /\ ~short => o = Refused
  BY <1>1
<1>4. /\ t = "typed" /\ binary /\ shorts => o = l8
      /\ t = "typed" /\ binary /\ ~shorts => o = Refused
      /\ t \in {"array", "set"} => o = l9
      /\ t = "typed" /\ ~binary => o = l9
  BY <1>1
<1>5. /\ t \in {"map", "object"} => o = l10
      /\ t = "ext" /\ extension => o = l12
      /\ t = "ext" /\ ~extension => o = Refused
      /\ t \in {"symbol", "function"} => o = Refused
  BY <1>1
<1> QED BY <1>2, <1>3, <1>4, <1>5
        DEF o, t, n, short, shorts, extension, binary, l1, l2, l3, l4, l5, l6, l7, l8, l9, l10, l11, l12

\* The images of the parts of a value.
PartImages(arg, nested) == [i \in 1..Len(Parts(arg)) |-> nested[Parts(arg)[i]]]

\* v is the image of an array or of a map with the k items.
ListImage(v, images, k) == AreReadable(images, FALSE, k) /\ v = Wrap(FALSE, images)
MapImage(v, images, k) == AreReadable(images, TRUE, k) /\ v = Wrap(TRUE, images)

\* The integers of 64 bits.
IsInt64(n) ==
  LET half == Power(ByteValues)[8] \div 2 IN n \in (-half)..(2 * half - 1)

\* What is read back of a value, by its type.
LEMMA ImageForms ==
  ASSUME NEW arg, NEW options, NEW nested
  PROVE  LET v == ImageWith(arg, options, nested)
             type == arg[1]
             images == PartImages(arg, nested)
         IN  /\ type \in {"undefined", "null"} => v = <<"undefined">>
             /\ type \in {"boolean", "number", "bytes", "date"} => v = arg
             /\ type = "float" /\ options.asFloats =>
                  v = <<"float", FromFloat32(ToFloat32(arg[2]))>>
             /\ type = "float" /\ ~options.asFloats => v = arg
             /\ type = "bigint" /\ v # Unreadable =>
                  IsInt64(arg[2]) /\ v = <<TypeOf(arg[2]), arg[2]>>
             /\ type = "string" => v = <<"string", Decoded(arg[2])>>
             /\ type = "typed" /\ options.asBinary => v = <<"bytes", TypedBytes(arg[2])>>
             /\ type \in {"array", "set"} /\ v # Unreadable /\ Len(Parts(arg)) \in Nat =>
                  ListImage(v, images, Len(Parts(arg)))
             /\ type = "typed" /\ ~options.asBinary /\ v # Unreadable /\ Len(Parts(arg)) \in Nat =>
                  ListImage(v, images, Len(Parts(arg)))
             /\ type \in {"map", "object"} /\ v # Unreadable /\ Len(Parts(arg)) \in Nat =>
                  MapImage(v, images, Len(Parts(arg)))
             /\ type = "ext" /\ v # Unreadable =>
                  /\ arg[2] # TimeStamp /\ arg[2] \in DOMAIN Handled
                  /\ Handled[arg[2]] <= Len(arg[3])
                  /\ v = <<"ext", arg[2], SubSeq(arg[3], 1, Handled[arg[2]])>>
<1> DEFINE v == ImageWith(arg, options, nested)
           t == arg[1]
           k == Len(Parts(arg))
           images == PartImages(arg, nested)
           readable == \A i \in 1..Len(images) : images[i] # Unreadable
           keys == \A i \in 1..Len(images) : i % 2 = 1 => IsKey(images[i])
           int64 == IsInt64(arg[2])
           asFloats == options.asFloats
           binary == options.asBinary
           handled == /\ arg[2] # TimeStamp /\ arg[2] \in DOMAIN Handled
                      /\ Handled[arg[2]] <= Len(arg[3])
           none == <<"undefined">>
           l1 == <<"float", FromFloat32(ToFloat32(arg[2]))>>
           l2 == <<TypeOf(arg[2]), arg[2]>>
           l3 == <<"string", Decoded(arg[2])>>
           l4 == <<"bytes", TypedBytes(arg[2])>>
           l5 == <<"array", images>>
           l6 == <<"object", ObjectOf(images)>>
           l7 == <<"ext", arg[2], SubSeq(arg[3], 1, Handled[arg[2]])>>
<1>1. v = CASE t \in {"undefined", "null"} -> none
            [] t \in {"boolean", "number", "bytes", "date"} -> arg
            [] t = "float" -> IF asFloats THEN l1 ELSE arg
            [] t = "bigint" /\ int64 -> l2
            [] t = "string" -> l3
            [] t = "typed" /\ binary -> l4
            [] (t \in {"array", "set"} \/ (t = "typed" /\ ~binary)) /\ readable -> l5
            [] t \in {"map", "object"} /\ readable /\ keys -> l6
            [] t = "ext" /\ handled -> l7
            [] OTHER -> Unreadable
  BY DEF ImageWith, IsList, IsMapping, PartImages, TypeOf, IsInt64
<1>2. /\ readable /\ k \in Nat => ListImage(l5, images, k)
      /\ readable /\ keys /\ k \in Nat => MapImage(l6, images, k)
  <2>1. k \in Nat => Len(images) = k
    BY DEF PartImages
  <2>2. l5 = Wrap(FALSE, images) /\ l6 = Wrap(TRUE, images)
    BY DEF Wrap
  <2> HIDE DEF images, k, l5, l6
  <2> QED BY <2>1, <2>2 DEF ListImage, MapImage, AreReadable
<1> HIDE DEF v, t, images, readable, keys, int64, asFloats, binary, handled, none, l1, l2, l3, l4,
             l5, l6, l7, k
<1>3. /\ t \in {"undefined", "null"} => v = none
      /\ t \in {"boolean", "number", "bytes", "date"} => v = arg
      /\ t = "float" /\ asFloats => v = l1
      /\ t = "float" /\ ~asFloats => v = arg
      /\ t = "string" => v = l3
  BY <1>1
<1>4. /\ t = "bigint" /\ v # Unreadable => int64 /\ v = l2
      /\ t = "typed" /\ binary => v = l4
      /\ t = "ext" /\ v # Unreadable => handled /\ v = l7
  BY <1>1
<1>5. /\ t \in {"array", "set"} /\ v # Unreadable /\ k \in Nat => ListImage(v, images, k)
      /\ t = "typed" /\ ~binary /\ v # Unreadable /\ k \in Nat => ListImage(v, images, k)
      /\ t \in {"map", "object"} /\ v # Unreadable /\ k \in Nat => MapImage(v, images, k)
  BY <1>1, <1>2
<1> QED BY <1>3, <1>4, <1>5
        DEF v, t, images, int64, asFloats, binary, handled, none, l1, l2, l3, l4, l7, k

\* The memory of a typed array is a sequence of bytes.
LEMMA TypedFacts ==
  ASSUME NEW elements, Len(elements) \in Nat,
         \A i \in 1..Len(elements) : elements[i][2] \in Int
  PROVE  TypedBytes(elements) \in Seq(Nat) /\ Len(TypedBytes(elements)) = 2 * Len(elements)
<1> DEFINE k == 2 * Len(elements)
           w == TypedBytes(elements)
           At(i) == UintBytes(elements[(i + 1) \div 2][2], 2)
<1>1. w = [i \in 1..k |-> At(i)[IF i % 2 = 1 THEN 2 ELSE 1]]
  BY DEF TypedBytes
<1>2. k \in Nat
  OBVIOUS
<1>3. ASSUME NEW i \in 1..k PROVE At(i)[IF i % 2 = 1 THEN 2 ELSE 1] \in Nat
  <2>1. (i + 1) \div 2 \in 1..Len(elements)
    OBVIOUS
  <2> DEFINE n == elements[(i + 1) \div 2][2]
  <2>2. n \in Int
    BY <2>1
  <2> HIDE DEF n
  <2>3. UintBytes(n, 2) \in Seq(Nat) /\ Len(UintBytes(n, 2)) = 2
    BY <2>2, UintBytesFacts
  <2>4. UintBytes(n, 2)[1] \in Nat /\ UintBytes(n, 2)[2] \in Nat
    BY <2>3
  <2> QED BY <2>4 DEF n
<1> HIDE DEF k, w, At
<1>4. w \in [1..k -> Nat]
  BY <1>1, <1>3
<1>5. w \in Seq(Nat) /\ Len(w) = k
  BY <1>2, <1>4, IsSequence
<1> QED BY <1>5 DEF w, k

\* The type of an extension that add takes.
LEMMA ExtType ==
  ASSUME NEW type \in Int, FitsInt(type, 208), FitsInt(-type - 1, 208)
  PROVE  IsInt8(type)
<1>1. FieldBytes(208) = 1
  BY DEF FieldBytes
<1>2. Power(ByteValues)[1] = ByteValues
  BY WidthFacts
<1>3. type >= -(ByteValues \div 2) /\ -type - 1 >= -(ByteValues \div 2)
  BY <1>1, <1>2 DEF FitsInt
<1> QED BY <1>3, BuffersAssumption DEF IsInt8

\* The headers of arrays and maps have formats of arrays and maps.
LEMMA ContainerHeaders ==
  ASSUME NEW n \in Nat, n < Word
  PROVE  /\ \E f, w : IsHeader(AddArrayHeader(n), f, w, n) /\ IsArray(f)
         /\ \E f, w : IsHeader(AddMapHeader(n), f, w, n) /\ IsMap(f)
<1>1. n \in 0..(Word - 1)
  BY SafeFacts
<1>2. \E f, w : IsHeader(AddArrayHeader(n), f, w, n) /\ IsArray(f)
  <2> DEFINE fix == 144
             first == 220
  <2>1. fix \in {128, 144} /\ first = IF fix = 128 THEN 222 ELSE 220
    OBVIOUS
  <2>2. \A f \in (fix..(fix + 15)) \cup {first, first + 1} : IsArray(f)
    BY DEF IsArray
  <2>3. AddArrayHeader(n) = CountHeader(fix, first, n)
    BY DEF AddArrayHeader, Formats
  <2> HIDE DEF fix, first
  <2>4. PICK f, w :
           /\ f \in (fix..(fix + 15)) \cup {first, first + 1}
           /\ IsHeader(CountHeader(fix, first, n), f, w, n)
    BY <1>1, <2>1, CountHeaderIs
  <2> QED BY <2>2, <2>3, <2>4
<1>3. \E f, w : IsHeader(AddMapHeader(n), f, w, n) /\ IsMap(f)
  <2> DEFINE fix == 128
             first == 222
  <2>1. fix \in {128, 144} /\ first = IF fix = 128 THEN 222 ELSE 220
    OBVIOUS
  <2>2. \A f \in (fix..(fix + 15)) \cup {first, first + 1} : IsMap(f)
    BY DEF IsMap
  <2>3. AddMapHeader(n) = CountHeader(fix, first, n)
    BY DEF AddMapHeader, Formats
  <2> HIDE DEF fix, first
  <2>4. PICK f, w :
           /\ f \in (fix..(fix + 15)) \cup {first, first + 1}
           /\ IsHeader(CountHeader(fix, first, n), f, w, n)
    BY <1>1, <2>1, CountHeaderIs
  <2> QED BY <2>2, <2>3, <2>4
<1> QED BY <1>2, <1>3

\* What is nested in a value.
Inner(v) == {w \in Values : Depth[w] < Depth[v]}

\* The parts of an array, a set or a typed array, and of a map or an object.
LEMMA PartsFacts ==
  ASSUME NEW v \in Values, v \notin Scalars
  PROVE  /\ v[1] \in {"array", "set", "typed", "map", "object"}
         /\ Len(v[2]) \in Nat /\ Len(v[2]) < Word
         /\ v[1] \in {"array", "set", "typed"} => Len(Parts(v)) = Len(v[2])
         /\ v[1] \in {"map", "object"} => Len(Parts(v)) = 2 * Len(v[2])
         /\ \A i \in 1..Len(Parts(v)) : Parts(v)[i] \in Inner(v)
         /\ v[1] = "typed" => \A i \in 1..Len(v[2]) : v[2][i][2] \in Int
<1>1. IsContainer(v)
  BY ValuesAssumption
<1> DEFINE I == Inner(v)
           type == v[1]
           x == v[2]
<1>2. /\ \/ v \in {"array", "set"} \X Seq(I)
         \/ v \in {"map", "object"} \X Seq(I \X I)
         \/ v \in {"typed"} \X Seq(I \cap ({"number"} \X Int))
      /\ Len(v[2]) < Word
  BY <1>1 DEF IsContainer, Inner
<1> HIDE DEF I
<1>3. CASE v \in {"array", "set"} \X Seq(I)
  <2>1. type \in {"array", "set"} /\ x \in Seq(I)
    BY <1>3
  <2>2. Parts(v) = x
    BY <2>1 DEF Parts, IsMapping
  <2>3. \A i \in 1..Len(x) : x[i] \in I
    BY <2>1
  <2>4. Len(x) \in Nat
    BY <2>1
  <2> HIDE DEF x, type
  <2>5. /\ type \in {"array", "set", "typed", "map", "object"}
        /\ ~(type \in {"map", "object"}) /\ type # "typed"
    BY <2>1
  <2> QED BY <1>2, <2>2, <2>3, <2>4, <2>5 DEF x, type, I
<1>4. CASE v \in {"typed"} \X Seq(I \cap ({"number"} \X Int))
  <2> DEFINE J == I \cap ({"number"} \X Int)
  <2> HIDE DEF J
  <2>1. type = "typed" /\ x \in Seq(J)
    BY <1>4 DEF J
  <2>2. Parts(v) = x
    BY <2>1 DEF Parts, IsMapping
  <2>3. \A i \in 1..Len(x) : x[i] \in J
    BY <2>1
  <2>4. Len(x) \in Nat
    BY <2>1
  <2>5. \A y \in J : y \in I /\ y[2] \in Int
    BY DEF J
  <2> HIDE DEF x, type
  <2>6. /\ type \in {"array", "set", "typed", "map", "object"}
        /\ ~(type \in {"map", "object"})
    BY <2>1
  <2>7. \A i \in 1..Len(x) : x[i] \in I /\ x[i][2] \in Int
    BY <2>3, <2>5
  <2> QED BY <1>2, <2>2, <2>4, <2>6, <2>7 DEF x, type, I
<1>5. CASE v \in {"map", "object"} \X Seq(I \X I)
  <2>1. type \in {"map", "object"} /\ x \in Seq(I \X I)
    BY <1>5
  <2>2. Len(x) \in Nat /\ \A i \in 1..Len(x) : x[i] \in I \X I
    BY <2>1
  <2> HIDE DEF x, type
  <2>3. Parts(v) = [i \in 1..(2 * Len(x)) |-> x[(i + 1) \div 2][IF i % 2 = 1 THEN 1 ELSE 2]]
    BY <2>1 DEF Parts, IsMapping, x, type
  <2>4. Len(Parts(v)) = 2 * Len(x)
    <3>1. 2 * Len(x) \in Nat
      BY <2>2
    <3> QED BY <2>3, <3>1
  <2>5. ASSUME NEW i \in 1..(2 * Len(x)) PROVE Parts(v)[i] \in I
    <3>1. (i + 1) \div 2 \in 1..Len(x)
      BY <2>2
    <3>2. x[(i + 1) \div 2] \in I \X I
      BY <2>2, <3>1
    <3>3. x[(i + 1) \div 2][1] \in I /\ x[(i + 1) \div 2][2] \in I
      BY <3>2
    <3> QED BY <2>3, <3>3
  <2>6. /\ type \in {"array", "set", "typed", "map", "object"}
        /\ ~(type \in {"array", "set", "typed"}) /\ type # "typed"
    BY <2>1
  <2> QED BY <1>2, <2>2, <2>4, <2>5, <2>6 DEF x, type, I
<1> QED BY <1>2, <1>3, <1>4, <1>5

\* The options of a call of add.
Options == [asBinary : BOOLEAN, asFloats : BOOLEAN]

\* What is written of each part of a value is faithful.
PartsFaithful(arg, written, images) ==
  \A i \in 1..Len(Parts(arg)) : IsFaithful(written[Parts(arg)[i]], images[Parts(arg)[i]])

\* A value that has no parts.
LEMMA ScalarFaithful ==
  ASSUME NEW arg \in Scalars, NEW options \in Options, NEW written, NEW images
  PROVE  IsFaithful(OutputWith(arg, options, written), ImageWith(arg, options, images))
<1> DEFINE o == OutputWith(arg, options, written)
           v == ImageWith(arg, options, images)
           t == arg[1]
<1>1. /\ t \in {"undefined", "null"} => o = Wrote(<<192>>)
      /\ t = "boolean" => o = Wrote(<<IF arg[2] THEN 195 ELSE 194>>)
      /\ t = "number" => o = Wrote(AddInt(arg[2]))
      /\ t = "float" => o = Wrote(AddFloat(arg[2], options.asFloats))
      /\ t = "bigint" => o = Wrote(AddBigInt(arg[2]))
      /\ t = "string" /\ Len(arg[2]) < Word => o = Wrote(AddString(arg[2]))
      /\ t = "bytes" /\ Len(arg[2]) < Word => o = Wrote(AddBinary(arg[2]))
      /\ t = "date" => o = Wrote(AddDate(arg[2]))
      /\ /\ t = "ext" /\ FitsInt(arg[2], 208) /\ FitsInt(-arg[2] - 1, 208)
         /\ Len(arg[3]) < Word
         => o = Wrote(AddExt(arg[2], arg[3]))
      /\ /\ t = "ext"
         /\ ~(FitsInt(arg[2], 208) /\ FitsInt(-arg[2] - 1, 208) /\ Len(arg[3]) < Word)
         => o = Refused
      /\ t \in {"string", "bytes"} /\ ~(Len(arg[2]) < Word) => o = Refused
      /\ t \in {"symbol", "function"} => o = Refused
  BY OutputForms
<1>2. /\ t \in {"undefined", "null"} => v = <<"undefined">>
      /\ t \in {"boolean", "number", "bytes", "date"} => v = arg
      /\ t = "float" /\ options.asFloats => v = <<"float", FromFloat32(ToFloat32(arg[2]))>>
      /\ t = "float" /\ ~options.asFloats => v = arg
      /\ t = "bigint" /\ v # Unreadable => IsInt64(arg[2]) /\ v = <<TypeOf(arg[2]), arg[2]>>
      /\ t = "string" => v = <<"string", Decoded(arg[2])>>
      /\ t = "ext" /\ v # Unreadable =>
           /\ arg[2] # TimeStamp /\ arg[2] \in DOMAIN Handled
           /\ Handled[arg[2]] <= Len(arg[3])
           /\ v = <<"ext", arg[2], SubSeq(arg[3], 1, Handled[arg[2]])>>
  BY ImageForms
<1>3. \/ t \in {"undefined", "null", "symbol", "function"}
      \/ t = "boolean" /\ arg[2] \in BOOLEAN /\ arg = <<"boolean", arg[2]>>
      \/ t = "number" /\ arg[2] \in -MaxSafe..MaxSafe /\ arg = <<"number", arg[2]>>
      \/ t = "date" /\ arg[2] \in -MaxSafe..MaxSafe /\ arg = <<"date", arg[2]>>
      \/ t = "bigint" /\ arg[2] \in Int
      \/ t = "float" /\ arg[2] \in [1..8 -> 0..(ByteValues - 1)] /\ arg = <<"float", arg[2]>>
      \/ t = "string" /\ arg[2] \in Seq(Nat)
      \/ t = "bytes" /\ arg[2] \in Seq(Nat) /\ arg = <<"bytes", arg[2]>>
      \/ t = "ext" /\ arg[2] \in Int /\ arg[3] \in Seq(Nat)
  BY ScalarForms
<1> HIDE DEF o, v
<1>4. CASE t \in {"undefined", "null"}
  <2>1. ReadsAs(<<192>>, <<"undefined">>)
    BY OneByteRead, ZenonT(30)
  <2> QED BY <1>1, <1>2, <1>4, <2>1, WroteReads DEF o, v
<1>5. CASE t \in {"symbol", "function"}
  BY <1>1, <1>5, RefusedIsFaithful DEF o, v
<1>6. CASE t = "boolean" /\ arg[2] \in BOOLEAN /\ arg = <<"boolean", arg[2]>>
  <2>1. ReadsAs(<<IF arg[2] THEN 195 ELSE 194>>, arg)
    <3> DEFINE x == arg[2]
               no == 194
               yes == 195
    <3>1. x \in BOOLEAN /\ arg = <<"boolean", x>>
      BY <1>6
    <3>2. ReadsAs(<<no>>, <<"boolean", no = 195>>) /\ ReadsAs(<<yes>>, <<"boolean", yes = 195>>)
      <4>1. no \in Nat /\ no \in {194, 195} /\ yes \in Nat /\ yes \in {194, 195}
        OBVIOUS
      <4> HIDE DEF no, yes
      <4> QED BY <4>1, OneByteRead
    <3> HIDE DEF x
    <3>3. CASE x = TRUE
      BY <3>1, <3>2, <3>3 DEF x
    <3>4. CASE x = FALSE
      BY <3>1, <3>2, <3>4 DEF x
    <3> QED BY <3>1, <3>3, <3>4
  <2> QED BY <1>1, <1>2, <1>6, <2>1, WroteReads DEF o, v
<1>7. CASE t = "number" /\ arg[2] \in -MaxSafe..MaxSafe /\ arg = <<"number", arg[2]>>
  <2>1. ReadsAs(AddInt(arg[2]), arg)
    BY <1>7, AddIntReads
  <2> QED BY <1>1, <1>2, <1>7, <2>1, WroteReads DEF o, v
<1>8. CASE t = "date" /\ arg[2] \in -MaxSafe..MaxSafe /\ arg = <<"date", arg[2]>>
  <2>1. ReadsAs(AddDate(arg[2]), arg)
    BY <1>8, AddDateReads
  <2> QED BY <1>1, <1>2, <1>8, <2>1, WroteReads DEF o, v
<1>9. CASE t = "bigint" /\ arg[2] \in Int
  <2>1. ReadsSome(AddBigInt(arg[2]))
    BY <1>9, AddBigIntReads
  <2>2. IsInt64(arg[2]) => ReadsAs(AddBigInt(arg[2]), <<TypeOf(arg[2]), arg[2]>>)
    BY <1>9, AddBigIntReads DEF IsInt64
  <2>3. o = Wrote(AddBigInt(arg[2]))
    BY <1>1, <1>9
  <2>4. CASE v = Unreadable
    BY <2>1, <2>3, <2>4, WroteSome DEF o, v
  <2>5. CASE v # Unreadable
    BY <1>2, <1>9, <2>2, <2>3, <2>5, WroteReads DEF o, v
  <2> QED BY <2>4, <2>5
<1>10. CASE t = "float" /\ arg[2] \in [1..8 -> 0..(ByteValues - 1)] /\ arg = <<"float", arg[2]>>
  <2>1. ReadsAs(AddFloat(arg[2], options.asFloats), v)
    <3>1. options.asFloats \in BOOLEAN
      BY DEF Options
    <3>2. CASE options.asFloats = TRUE
      BY <1>2, <1>10, <3>2, AddFloatReads
    <3>3. CASE options.asFloats = FALSE
      BY <1>2, <1>10, <3>3, AddFloatReads
    <3> QED BY <3>1, <3>2, <3>3
  <2> QED BY <1>1, <1>10, <2>1, WroteReads DEF o, v
<1>11. CASE t = "string" /\ arg[2] \in Seq(Nat)
  <2>1. CASE Len(arg[2]) < Word
    <3>1. ReadsAs(AddString(arg[2]), <<"string", Decoded(arg[2])>>)
      BY <1>11, <2>1, DataReads
    <3> QED BY <1>1, <1>2, <1>11, <2>1, <3>1, WroteReads DEF o, v
  <2>2. CASE ~(Len(arg[2]) < Word)
    BY <1>1, <1>11, <2>2, RefusedIsFaithful DEF o, v
  <2> QED BY <2>1, <2>2
<1>12. CASE t = "bytes" /\ arg[2] \in Seq(Nat) /\ arg = <<"bytes", arg[2]>>
  <2>1. CASE Len(arg[2]) < Word
    <3>1. ReadsAs(AddBinary(arg[2]), arg)
      BY <1>12, <2>1, DataReads
    <3> QED BY <1>1, <1>2, <1>12, <2>1, <3>1, WroteReads DEF o, v
  <2>2. CASE ~(Len(arg[2]) < Word)
    BY <1>1, <1>12, <2>2, RefusedIsFaithful DEF o, v
  <2> QED BY <2>1, <2>2
<1>13. CASE t = "ext" /\ arg[2] \in Int /\ arg[3] \in Seq(Nat)
  <2> DEFINE type == arg[2]
             data == arg[3]
             fits == FitsInt(type, 208) /\ FitsInt(-type - 1, 208) /\ Len(data) < Word
  <2>1. CASE fits
    <3>1. IsInt8(type) /\ Len(data) < Word /\ data \in Seq(Nat)
      BY <1>13, <2>1, ExtType
    <3>2. o = Wrote(AddExt(type, data))
      BY <1>1, <1>13, <2>1
    <3>3. ReadsSome(AddExt(type, data))
      BY <3>1, ExtSome
    <3>4. CASE v = Unreadable
      BY <3>2, <3>3, <3>4, WroteSome DEF o, v
    <3>5. CASE v # Unreadable
      <4>1. /\ type # TimeStamp /\ type \in DOMAIN Handled /\ Handled[type] <= Len(data)
            /\ v = <<"ext", type, SubSeq(data, 1, Handled[type])>>
        BY <1>2, <1>13, <3>5
      <4> HIDE DEF type, data
      <4>2. ReadsAs(AddExt(type, data), v)
        BY <3>1, <4>1, UserExt
      <4>3. IsFaithful(Wrote(AddExt(type, data)), v)
        BY <4>2, WroteReads
      <4> QED BY <3>2, <4>3 DEF o, v
    <3> QED BY <3>4, <3>5
  <2>2. CASE ~fits
    BY <1>1, <1>13, <2>2, RefusedIsFaithful DEF o, v
  <2> QED BY <2>1, <2>2
<1> QED BY <1>3, <1>4, <1>5, <1>6, <1>7, <1>8, <1>9, <1>10, <1>11, <1>12, <1>13

\* A value with parts.
LEMMA ContainerFaithful ==
  ASSUME NEW arg \in Values, arg \notin Scalars, NEW options \in Options,
         NEW written, NEW images, PartsFaithful(arg, written, images)
  PROVE  IsFaithful(OutputWith(arg, options, written), ImageWith(arg, options, images))
<1> DEFINE o == OutputWith(arg, options, written)
           v == ImageWith(arg, options, images)
           t == arg[1]
           n == Len(arg[2])
           parts == Parts(arg)
           found == PartImages(arg, images)
           binary == options.asBinary
<1> SUFFICES IsFaithful(o, v)
  OBVIOUS
<1>1. /\ t \in {"array", "set", "typed", "map", "object"}
      /\ n \in Nat /\ n < Word
      /\ t \in {"array", "set", "typed"} => Len(parts) = n
      /\ t \in {"map", "object"} => Len(parts) = 2 * n
      /\ t = "typed" => \A i \in 1..n : arg[2][i][2] \in Int
  BY PartsFacts
<1>2. /\ t = "typed" /\ binary /\ 2 * n < Word => o = Wrote(AddBinary(TypedBytes(arg[2])))
      /\ t = "typed" /\ binary /\ ~(2 * n < Word) => o = Refused
      /\ t \in {"array", "set"} => o = OutputAll(AddArrayHeader(n), parts, written)
      /\ t = "typed" /\ ~binary => o = OutputAll(AddArrayHeader(n), parts, written)
      /\ t \in {"map", "object"} => o = OutputAll(AddMapHeader(n), parts, written)
  <2>1. t = "typed" /\ binary /\ 2 * n < Word => o = Wrote(AddBinary(TypedBytes(arg[2])))
    BY ONLY OutputForms, ZenonT(90)
  <2>2. t = "typed" /\ binary /\ ~(2 * n < Word) => o = Refused
    BY ONLY OutputForms, ZenonT(90)
  <2>3. t \in {"array", "set"} => o = OutputAll(AddArrayHeader(n), parts, written)
    BY ONLY OutputForms, ZenonT(90)
  <2>4. t = "typed" /\ ~binary => o = OutputAll(AddArrayHeader(n), parts, written)
    BY ONLY OutputForms, ZenonT(90)
  <2>5. t \in {"map", "object"} => o = OutputAll(AddMapHeader(n), parts, written)
    BY ONLY OutputForms, ZenonT(90)
  <2> QED BY <2>1, <2>2, <2>3, <2>4, <2>5
<1>3. Len(parts) \in Nat
  BY <1>1
<1>4. /\ t = "typed" /\ binary => v = <<"bytes", TypedBytes(arg[2])>>
      /\ t \in {"array", "set"} /\ v # Unreadable => ListImage(v, found, Len(parts))
      /\ t = "typed" /\ ~binary /\ v # Unreadable => ListImage(v, found, Len(parts))
      /\ t \in {"map", "object"} /\ v # Unreadable => MapImage(v, found, Len(parts))
  BY <1>3, ImageForms
<1>5. \A i \in 1..Len(parts) : IsFaithful(written[parts[i]], found[i])
  BY DEF PartsFaithful, PartImages
<1>6. found = [i \in 1..Len(parts) |-> found[i]]
  BY DEF PartImages
<1>7. CASE t = "typed" /\ binary
  <2> DEFINE w == TypedBytes(arg[2])
  <2>1. w \in Seq(Nat) /\ Len(w) = 2 * n
    BY <1>1, <1>7, TypedFacts
  <2>2. CASE 2 * n < Word
    <3>1. ReadsAs(AddBinary(w), <<"bytes", w>>)
      BY <2>1, <2>2, DataReads
    <3>2. IsFaithful(Wrote(AddBinary(w)), <<"bytes", w>>)
      BY <3>1, WroteReads
    <3> QED BY <1>2, <1>4, <1>7, <2>2, <3>2
  <2>3. CASE ~(2 * n < Word)
    BY <1>2, <1>7, <2>3, RefusedIsFaithful
  <2> QED BY <2>2, <2>3
<1>8. CASE t \in {"array", "set"} \/ (t = "typed" /\ ~binary)
  <2>1. /\ o = OutputAll(AddArrayHeader(n), parts, written)
        /\ v # Unreadable => ListImage(v, found, Len(parts))
        /\ Len(parts) = n
    BY <1>1, <1>2, <1>4, <1>8
  <2>2. PICK f, w : IsHeader(AddArrayHeader(n), f, w, n) /\ IsArray(f)
    BY <1>1, ContainerHeaders
  <2> DEFINE keys == FALSE
             h == AddArrayHeader(n)
  <2>3. /\ keys \in BOOLEAN /\ ~keys
        /\ Len(parts) = IF keys THEN 2 * n ELSE n
        /\ keys => IsMap(f)
        /\ ~keys => IsArray(f)
    BY <2>1, <2>2
  <2>4. v # Unreadable => AreReadable(found, keys, Len(parts)) /\ v = Wrap(keys, found)
    BY <2>1 DEF ListImage
  <2> HIDE DEF o, v, n, parts, found, keys, h
  <2>5. v # Unreadable => /\ AreReadable(found, keys, Len(parts))
                          /\ v = Wrap(keys, [i \in 1..Len(parts) |-> found[i]])
    BY <1>6, <2>4
  <2>6. IsFaithful(OutputAll(h, parts, written), v)
    BY <1>1, <1>5, <2>2, <2>3, <2>5, ContainerReads DEF h
  <2> QED BY <2>1, <2>6 DEF o, v, h
<1>9. CASE t \in {"map", "object"}
  <2>1. /\ o = OutputAll(AddMapHeader(n), parts, written)
        /\ v # Unreadable => MapImage(v, found, Len(parts))
        /\ Len(parts) = 2 * n
    BY <1>1, <1>2, <1>4, <1>9
  <2>2. PICK f, w : IsHeader(AddMapHeader(n), f, w, n) /\ IsMap(f)
    BY <1>1, ContainerHeaders
  <2> DEFINE keys == TRUE
             h == AddMapHeader(n)
  <2>3. /\ keys \in BOOLEAN /\ keys
        /\ Len(parts) = IF keys THEN 2 * n ELSE n
        /\ keys => IsMap(f)
        /\ ~keys => IsArray(f)
    BY <2>1, <2>2
  <2>4. v # Unreadable => AreReadable(found, keys, Len(parts)) /\ v = Wrap(keys, found)
    BY <2>1 DEF MapImage
  <2> HIDE DEF o, v, n, parts, found, keys, h
  <2>5. v # Unreadable => /\ AreReadable(found, keys, Len(parts))
                          /\ v = Wrap(keys, [i \in 1..Len(parts) |-> found[i]])
    BY <1>6, <2>4
  <2>6. IsFaithful(OutputAll(h, parts, written), v)
    BY <1>1, <1>5, <2>2, <2>3, <2>5, ContainerReads DEF h
  <2> QED BY <2>1, <2>6 DEF o, v, h
<1> HIDE DEF o, v, t, n, parts, found, binary
<1>10. \/ t = "typed" /\ binary
       \/ t \in {"array", "set"} \/ (t = "typed" /\ ~binary)
       \/ t \in {"map", "object"}
  BY <1>1
<1> QED BY ONLY <1>7, <1>8, <1>9, <1>10

\* Every value, given its parts.
LEMMA ValueFaithful ==
  ASSUME NEW arg \in Values, NEW options \in Options,
         NEW written, NEW images, \A w \in Inner(arg) : IsFaithful(written[w], images[w])
  PROVE  IsFaithful(OutputWith(arg, options, written), ImageWith(arg, options, images))
<1>1. CASE arg \in Scalars
  BY <1>1, ScalarFaithful
<1>2. CASE arg \notin Scalars
  <2>1. \A i \in 1..Len(Parts(arg)) : Parts(arg)[i] \in Inner(arg)
    BY <1>2, PartsFacts
  <2>2. PartsFaithful(arg, written, images)
    BY <2>1 DEF PartsFaithful
  <2> QED BY <1>2, <2>2, ContainerFaithful
<1> QED BY <1>1, <1>2

\* Every value that is added: by induction on how deep it is nested.
LEMMA OutputFaithful ==
  ASSUME NEW arg \in Values, NEW options \in Options
  PROVE  IsFaithful(Output(arg, options), Image(arg, options))
<1> DEFINE n == Depth[arg]
<1>1. n \in Nat /\ \A a \in Values : Depth[a] \in Nat
  BY ValuesAssumption
<1>2. PICK written : Output(arg, options) = OutputWith(arg, options, written[n])
                     /\ OutputByDepth(written, n)
  BY OutputSteps
<1>3. PICK images : Image(arg, options) = ImageWith(arg, options, images[n])
                    /\ ImageByDepth(images, n)
  BY ImageSteps
<1> HIDE DEF n
<1> DEFINE P(d) == \A a \in Values : Depth[a] < d => IsFaithful(written[d][a], images[d][a])
           S == {d \in Nat : d <= n => P(d)}
<1>4. DefaultOptions \in Options
  BY DEF DefaultOptions, Options
<1>5. 0 \in S
  BY <1>1
<1>6. ASSUME NEW d \in Nat, d \in S PROVE d + 1 \in S
  <2> SUFFICES ASSUME d + 1 <= n, NEW a \in Values, Depth[a] < d + 1
               PROVE  IsFaithful(written[d + 1][a], images[d + 1][a])
    OBVIOUS
  <2>1. d + 1 \in 1..n /\ (d + 1) - 1 = d /\ d <= n
    BY <1>1
  <2>2. P(d)
    BY <1>6, <2>1
  <2>3. written[d + 1][a] = OutputWith(a, DefaultOptions, written[d])
    BY <1>2, <2>1 DEF OutputByDepth
  <2>4. images[d + 1][a] = ImageWith(a, DefaultOptions, images[d])
    BY <1>3, <2>1 DEF ImageByDepth
  <2>5. \A w \in Inner(a) : IsFaithful(written[d][w], images[d][w])
    <3>1. \A w \in Inner(a) : w \in Values /\ Depth[w] < d
      BY <1>1 DEF Inner
    <3> QED BY <2>2, <3>1
  <2> HIDE DEF P, S
  <2> DEFINE u == written[d]
             v == images[d]
  <2> HIDE DEF u, v
  <2>6. \A w \in Inner(a) : IsFaithful(u[w], v[w])
    BY <2>5 DEF u, v
  <2>7. IsFaithful(OutputWith(a, DefaultOptions, u), ImageWith(a, DefaultOptions, v))
    BY <1>4, <2>6, ValueFaithful
  <2> QED BY <2>3, <2>4, <2>7 DEF u, v
<1>7. P(n)
  <2>1. n \in S
    <3> HIDE DEF S
    <3> QED BY <1>1, <1>5, <1>6, NatSteps
  <2> QED BY <1>1, <2>1
<1> DEFINE u == written[n]
           v == images[n]
<1>8. \A w \in Inner(arg) : IsFaithful(u[w], v[w])
  BY <1>7 DEF Inner, n
<1> HIDE DEF u, v, P
<1>9. IsFaithful(OutputWith(arg, options, u), ImageWith(arg, options, v))
  BY <1>8, ValueFaithful
<1> QED BY <1>2, <1>3, <1>9 DEF u, v

-----------------------------------------------------------------------------
(* The buffer.                                                             *)

Calls == [arg : Values, options : Options, threw : BOOLEAN]

\* What a call wrote, and what of it is read back.
WrittenBy(call) == Output(call.arg, call.options)
ImageOf(call) == Image(call.arg, call.options)

\* at tells what the buffer held after each of the calls.
Grows(at, calls) ==
  /\ at[0] = <<>>
  /\ \A i \in 1..Len(calls) : at[i] = at[i - 1] \o WrittenBy(calls[i]).out

\* The buffer holds what the calls wrote, one after the other.
SerializerInv ==
  /\ added \in Seq(Calls)
  /\ \A i \in 1..Len(added) : added[i].threw = WrittenBy(added[i]).threw
  /\ \E at : Grows(at, added) /\ bytes = at[Len(added)]

\* What a call writes is faithful.
LEMMA CallFaithful ==
  ASSUME NEW call \in Calls
  PROVE  IsFaithful(WrittenBy(call), ImageOf(call))
<1>1. call.arg \in Values /\ call.options \in Options
  BY DEF Calls
<1> QED BY <1>1, OutputFaithful DEF WrittenBy, ImageOf

\* The buffer is empty at first, and after reset.
LEMMA SerializerEmpty ==
  ASSUME bytes = <<>>, added = <<>>
  PROVE  SerializerInv
<1> DEFINE at == [i \in 0..0 |-> <<>>]
<1>1. added \in Seq(Calls) /\ Len(added) = 0
  OBVIOUS
<1>2. at[0] = <<>>
  OBVIOUS
<1> HIDE DEF at
<1>3. Grows(at, added) /\ bytes = at[Len(added)]
  BY <1>1, <1>2 DEF Grows
<1> QED BY <1>1, <1>3 DEF SerializerInv

\* Each step preserves it.
LEMMA SerializerStep ==
  ASSUME SerializerInv, [Next]_vars
  PROVE  SerializerInv'
<1>1. ASSUME NEW arg \in Args, NEW options \in [asBinary : BOOLEAN, asFloats : BOOLEAN],
             Add(arg, options)
      PROVE  SerializerInv'
  <2> DEFINE output == Output(arg, options)
             threw == output.threw
             call == [arg |-> arg, options |-> options, threw |-> threw]
             k == Len(added)
             n == k + 1
  <2>1. added' = Append(added, call) /\ bytes' = bytes \o output.out
    BY <1>1 DEF Add
  <2>2. arg \in Values /\ options \in Options
    BY ValuesAssumption DEF Options
  <2>3. threw \in BOOLEAN
    BY <2>2, OutputFaithful DEF IsFaithful
  <2>4. added \in Seq(Calls) /\ k \in Nat /\ (n \in Nat) /\ n - 1 = k
    BY DEF SerializerInv
  <2>5. call.arg = arg /\ call.options = options /\ call.threw = threw
    OBVIOUS
  <2> HIDE DEF output
  <2>6. call \in Calls
    BY <2>2, <2>3 DEF Calls
  <2>7. WrittenBy(call) = output
    BY <2>5 DEF WrittenBy, output
  <2>8. call.threw = WrittenBy(call).threw
    BY <2>5, <2>7
  <2> HIDE DEF call, n
  <2>9. /\ added' \in Seq(Calls) /\ Len(added') = n
        /\ \A i \in 1..k : added'[i] = added[i]
        /\ added'[n] = call
    BY <2>1, <2>4, <2>6, AppendProperties DEF n
  <2>10. \A i \in 1..n : i \in 1..k \/ i = n
    BY <2>4 DEF n
  <2>11. \A i \in 1..Len(added') : added'[i].threw = WrittenBy(added'[i]).threw
    <3>1. \A i \in 1..k : added[i].threw = WrittenBy(added[i]).threw
      BY DEF SerializerInv
    <3> HIDE DEF k
    <3> QED BY <2>8, <2>9, <2>10, <3>1
  <2>12. PICK at : Grows(at, added) /\ bytes = at[k]
    BY DEF SerializerInv
  <2> DEFINE at2 == [i \in 0..n |-> IF i = n THEN bytes' ELSE at[i]]
  <2>13. at2[n] = bytes' /\ (\A i \in 0..k : at2[i] = at[i])
    BY <2>4 DEF n
  <2> HIDE DEF at2
  <2>14. at2[0] = <<>>
    BY <2>4, <2>12, <2>13 DEF Grows
  <2>15. ASSUME NEW i \in 1..n PROVE at2[i] = at2[i - 1] \o WrittenBy(added'[i]).out
    <3>1. CASE i \in 1..k
      <4>1. i \in 0..k /\ i - 1 \in 0..k
        BY <2>4, <3>1
      <4>2. at[i] = at[i - 1] \o WrittenBy(added[i]).out
        BY <2>12, <3>1 DEF Grows
      <4> QED BY <2>9, <2>13, <3>1, <4>1, <4>2
    <3>2. CASE i = n
      <4>1. i - 1 = k /\ k \in 0..k
        BY <2>4, <3>2
      <4>2. at2[i - 1] = bytes
        BY <2>12, <2>13, <4>1
      <4> QED BY <2>1, <2>7, <2>9, <2>13, <3>2, <4>2
    <3> QED BY <2>10, <3>1, <3>2
  <2>16. Grows(at2, added') /\ bytes' = at2[Len(added')]
    BY <2>9, <2>13, <2>14, <2>15 DEF Grows
  <2> QED BY <2>9, <2>11, <2>16 DEF SerializerInv
<1>2. CASE Reset
  <2> DEFINE at == [i \in 0..0 |-> <<>>]
  <2>1. added' \in Seq(Calls) /\ Len(added') = 0 /\ bytes' = <<>>
    BY <1>2 DEF Reset
  <2>2. at[0] = <<>>
    OBVIOUS
  <2> HIDE DEF at
  <2>3. Grows(at, added') /\ bytes' = at[Len(added')]
    BY <2>1, <2>2 DEF Grows
  <2> QED BY <2>1, <2>3 DEF SerializerInv
<1>3. CASE UNCHANGED vars
  BY <1>3 DEF vars, SerializerInv
<1> QED BY <1>1, <1>2, <1>3 DEF Next

\* The buffer always holds what the calls since the last reset wrote.
LEMMA AlwaysSerializerInv == Spec => []SerializerInv
<1>1. Init => SerializerInv
  BY SerializerEmpty DEF Init
<1> QED BY <1>1, SerializerStep, PTL DEF Spec

\* The buffer's content is bytes, whatever was added.
LEMMA GrowsFacts ==
  ASSUME NEW calls \in Seq(Calls), NEW at, Grows(at, calls)
  PROVE  \A i \in 0..Len(calls) : at[i] \in Seq(Nat)
<1> DEFINE n == Len(calls)
           S == {i \in Nat : i <= n => at[i] \in Seq(Nat)}
<1>1. n \in Nat
  OBVIOUS
<1>2. 0 \in S
  <2>1. at[0] = <<>> /\ <<>> \in Seq(Nat)
    BY DEF Grows
  <2>2. at[0] \in Seq(Nat)
    BY <2>1
  <2> QED BY <2>2
<1>3. ASSUME NEW i \in Nat, i \in S PROVE i + 1 \in S
  <2> SUFFICES ASSUME i + 1 <= n PROVE at[i + 1] \in Seq(Nat)
    OBVIOUS
  <2> DEFINE j == i + 1
  <2>1. j \in 1..Len(calls) /\ j - 1 = i
    BY <1>1
  <2>2. at[i] \in Seq(Nat)
    BY <1>1, <1>3
  <2> HIDE DEF j
  <2>3. calls[j] \in Calls
    BY <2>1
  <2>4. WrittenBy(calls[j]).out \in Seq(Nat)
    BY <2>3, CallFaithful DEF IsFaithful
  <2>5. at[j] = at[i] \o WrittenBy(calls[j]).out
    BY <2>1 DEF Grows
  <2>6. at[j] \in Seq(Nat)
    BY <2>2, <2>4, <2>5, JoinFacts
  <2> QED BY <2>6 DEF j
<1>4. \A i \in Nat : i \in S
  <2> HIDE DEF S
  <2> QED BY <1>2, <1>3, NatSteps
<1> QED BY <1>1, <1>4

\* The reader of the content that lies in a larger buffer.
LEMMA ReaderHolds ==
  ASSUME bytes \in Seq(Nat)
  PROVE  /\ Holds(Surrounded, Reader(Len(bytes)), bytes)
         /\ \A n \in 0..Len(bytes) : /\ IsReader(Surrounded, Reader(n))
                                     /\ Remaining(Reader(n)) = n
                                     /\ ReadPosition(Reader(n)) = 1
                                     /\ Reader(n).pos = 0
<1> DEFINE b == <<193>>
           e == <<193, 0>>
           w == b \o bytes
           s == w \o e
<1>1. b \in Seq(Nat) /\ Len(b) = 1 /\ e \in Seq(Nat) /\ Len(e) = 2 /\ Len(bytes) \in Nat
  OBVIOUS
<1>2. s = Surrounded
  BY DEF Surrounded
<1> HIDE DEF b, e
<1>3. w \in Seq(Nat) /\ Len(w) = 1 + Len(bytes)
  <2>1. b \o bytes \in Seq(Nat) /\ Len(b \o bytes) = Len(b) + Len(bytes)
    BY <1>1, JoinFacts
  <2> QED BY <1>1, <2>1
<1>4. \A i \in 1..Len(bytes) : w[1 + i] = bytes[i]
  <2> DEFINE v == bytes
  <2>1. v \in Seq(Nat) /\ b \in Seq(Nat)
    BY <1>1
  <2> HIDE DEF v
  <2>2. ASSUME NEW i \in 1..Len(v) PROVE (b \o v)[Len(b) + i] = v[i]
    BY ONLY <2>1
  <2> QED BY <1>1, <2>2 DEF v
<1> HIDE DEF w
<1>5. /\ s \in Seq(Nat) /\ Len(s) = 1 + Len(bytes) + 2
      /\ \A i \in 1..Len(bytes) : s[1 + i] = bytes[i]
  <2>1. w \o e \in Seq(Nat) /\ Len(w \o e) = Len(w) + Len(e)
    BY <1>1, <1>3, JoinFacts
  <2>2. \A i \in 1..Len(w) : (w \o e)[i] = w[i]
    BY <1>1, <1>3, JoinFacts
  <2>3. \A i \in 1..Len(bytes) : 1 + i \in 1..Len(w)
    BY <1>1, <1>3
  <2> QED BY <1>1, <1>3, <1>4, <2>1, <2>2, <2>3
<1> HIDE DEF s
<1>6. ASSUME NEW n \in 0..Len(bytes)
      PROVE  IsReader(s, Reader(n)) /\ Remaining(Reader(n)) = n /\ ReadPosition(Reader(n)) = 1
             /\ Reader(n).pos = 0
  <2>1. Reader(n) = [off |-> 1, len |-> n, pos |-> 0]
    BY DEF Reader, NewReader
  <2> QED BY <1>1, <1>5, <2>1 DEF IsReader, Remaining, ReadPosition
<1>7. Holds(s, Reader(Len(bytes)), bytes)
  BY <1>1, <1>5, <1>6 DEF Holds
<1> QED BY <1>2, <1>6, <1>7

\* A buffer that is held is held up to each call.
LEMMA HoldsUpTo ==
  ASSUME NEW calls \in Seq(Calls), NEW at, Grows(at, calls),
         NEW s, NEW r, Holds(s, r, at[Len(calls)])
  PROVE  \A i \in 0..Len(calls) : Holds(s, r, at[i])
<1> DEFINE n == Len(calls)
           S == {d \in Nat : d <= n => Holds(s, r, at[n - d])}
<1>1. n \in Nat
  OBVIOUS
<1>2. \A i \in 0..n : at[i] \in Seq(Nat)
  BY GrowsFacts
<1>3. 0 \in S
  BY <1>1
<1>4. ASSUME NEW d \in Nat, d \in S PROVE d + 1 \in S
  <2> SUFFICES ASSUME d + 1 <= n PROVE Holds(s, r, at[n - (d + 1)])
    OBVIOUS
  <2> DEFINE j == n - d
             i == n - (d + 1)
  <2>1. j \in 1..Len(calls) /\ j - 1 = i /\ i \in 0..n
    BY <1>1
  <2>2. Holds(s, r, at[j])
    BY <1>4
  <2> HIDE DEF i, j, n
  <2>3. at[j] = at[i] \o WrittenBy(calls[j]).out
    BY <2>1 DEF Grows
  <2>4. WrittenBy(calls[j]).out \in Seq(Nat)
    <3>1. calls[j] \in Calls
      BY <2>1
    <3> QED BY <3>1, CallFaithful DEF IsFaithful
  <2>5. Holds(s, r, at[i] \o WrittenBy(calls[j]).out)
    BY <2>2, <2>3
  <2>6. at[i] \in Seq(Nat)
    BY <1>2, <2>1
  <2>7. Holds(s, r, at[i])
    BY <2>4, <2>5, <2>6, HoldsJoin
  <2> QED BY <2>7 DEF i
<1>5. \A d \in Nat : d \in S
  <2> HIDE DEF S
  <2> QED BY <1>3, <1>4, NatSteps
<1>6. ASSUME NEW i \in 0..n PROVE Holds(s, r, at[i])
  <2>1. n - i \in Nat /\ n - i <= n /\ n - (n - i) = i
    BY <1>1
  <2>2. Holds(s, r, at[n - (n - i)])
    BY <1>5, <2>1
  <2> QED BY <2>1, <2>2
<1> QED BY <1>6

\* deserialize, called where it finds what a call wrote.
LEMMA DeserializeReads ==
  ASSUME NEW s, NEW r, NEW w \in Seq(Nat), NEW u, NEW v, ReadsAs(u, v), Holds(s, r, w \o u)
  PROVE  LET q == Moved(r, Len(w))
         IN  /\ q.pos \in Nat
             /\ [r EXCEPT !.pos = q.pos] = q
             /\ Deserialize(s, q) = Value(v, Moved(r, Len(w \o u)))
<1> DEFINE q == Moved(r, Len(w))
<1>1. u \in Seq(Nat) /\ Len(u) >= 1 /\ Len(u) \in Nat
  BY DEF ReadsAs
<1>2. Holds(s, r, w) /\ Holds(s, q, u)
  BY <1>1, HoldsJoin
<1>3. IsReader(s, r) /\ Len(w) \in 0..Remaining(r)
  BY <1>2, HoldsFacts
<1>4. Len(u) \in 0..Remaining(q) /\ Remaining(q) \in Nat /\ IsReader(s, q)
  BY <1>2, HoldsFacts
<1>5. Deserialize(s, q) = NextValue(s, q)
  <2>1. Remaining(q) # 0
    BY <1>1, <1>4
  <2> QED BY <2>1 DEF Deserialize
<1>6. NextValue(s, q) = Value(v, Moved(q, Len(u)))
  BY <1>2 DEF ReadsAs
<1>7. Moved(q, Len(u)) = Moved(r, Len(w \o u))
  <2>1. Moved(q, Len(u)) = Moved(r, Len(w) + Len(u))
    BY <1>1, <1>3, MovedTwice
  <2>2. Len(w \o u) = Len(w) + Len(u)
    BY <1>1, JoinFacts
  <2> QED BY <2>1, <2>2
<1>8. q.pos \in Nat
  BY <1>4 DEF IsReader
<1>9. [r EXCEPT !.pos = q.pos] = q
  BY <1>3 DEF Moved, IsReader
<1> HIDE DEF q
<1> QED BY <1>5, <1>6, <1>7, <1>8, <1>9 DEF q

\* Values that were added one after the other are read one after the other.
LEMMA AllRead ==
  ASSUME NEW calls \in Seq(Calls), NEW at, Grows(at, calls),
         NEW s, NEW r, Holds(s, r, at[Len(calls)]),
         \A i \in 1..Len(calls) : ~WrittenBy(calls[i]).threw /\ ImageOf(calls[i]) # Unreadable
  PROVE  ReadAll(s, r, Len(calls))
           = Value([i \in 1..Len(calls) |-> ImageOf(calls[i])], Moved(r, Len(at[Len(calls)])))
<1> DEFINE n == Len(calls)
           nested == [p \in Nat |-> Deserialize(s, [r EXCEPT !.pos = p])]
           images == [i \in 1..n |-> ImageOf(calls[i])]
           keys == FALSE
<1>1. n \in Nat
  OBVIOUS
<1>2. \A i \in 0..n : at[i] \in Seq(Nat) /\ Holds(s, r, at[i])
  BY GrowsFacts, HoldsUpTo
<1>3. PICK f : /\ Items(r, n, keys, nested) = f[n]
               /\ f[0] = Value(<<>>, r)
               /\ \A i \in 1..n : f[i] = ItemBehind(f[i - 1], i, keys, nested)
  <2> HIDE DEF nested, keys, n
  <2> QED BY <1>1, ItemsSteps, SMTT(30)
<1> DEFINE Upto(i) == [j \in 1..i |-> images[j]]
           S == {i \in Nat : i <= n => f[i] = Value(Upto(i), Moved(r, Len(at[i])))}
<1>4. 0 \in S
  <2>1. Upto(0) = <<>> /\ at[0] = <<>> /\ Len(at[0]) = 0
    BY DEF Grows
  <2>2. IsReader(s, r)
    BY DEF Holds
  <2>3. Moved(r, 0) = r
    BY <2>2 DEF Moved, IsReader
  <2> QED BY <1>3, <2>1, <2>3
<1>5. ASSUME NEW i \in Nat, i \in S PROVE i + 1 \in S
  <2> DEFINE k == i + 1
  <2> SUFFICES ASSUME k <= n PROVE f[k] = Value(Upto(k), Moved(r, Len(at[k])))
    OBVIOUS
  <2> DEFINE w == at[i]
             call == calls[k]
             u == WrittenBy(call).out
             v == images[k]
             q == Moved(r, Len(w))
             before == f[i]
             x == Value(Upto(i), q)
  <2>1. k \in 1..Len(calls) /\ k - 1 = i /\ i \in 0..n /\ k \in 0..n
    BY <1>1
  <2>2. before = x
    BY <1>1, <1>5
  <2>3. f[k] = ItemBehind(before, k, keys, nested)
    BY <1>3, <2>1
  <2>4. call \in Calls /\ ~WrittenBy(call).threw /\ ImageOf(call) # Unreadable /\ v = ImageOf(call)
    BY <2>1
  <2>5. at[k] = w \o u
    BY <2>1 DEF Grows
  <2> HIDE DEF call, k
  <2>6. ReadsAs(u, v)
    BY <2>4, CallFaithful DEF IsFaithful
  <2>7. w \in Seq(Nat) /\ Holds(s, r, w \o u)
    BY <1>2, <2>1, <2>5
  <2> HIDE DEF w, u, v, q
  <2>8. /\ q.pos \in Nat
        /\ [r EXCEPT !.pos = q.pos] = q
        /\ Deserialize(s, q) = Value(v, Moved(r, Len(w \o u)))
    <3>1. Moved(r, Len(w)).pos \in Nat
      BY ONLY <2>6, <2>7, DeserializeReads
    <3>2. [r EXCEPT !.pos = Moved(r, Len(w)).pos] = Moved(r, Len(w))
      BY ONLY <2>6, <2>7, DeserializeReads
    <3>3. Deserialize(s, Moved(r, Len(w))) = Value(v, Moved(r, Len(w \o u)))
      BY ONLY <2>6, <2>7, DeserializeReads
    <3> QED BY <3>1, <3>2, <3>3 DEF q
  <2>9. nested[q.pos] = Value(v, Moved(r, Len(w \o u)))
    BY <2>8
  <2> DEFINE t == Upto(i)
  <2> HIDE DEF nested, before, x, keys, t, S
  <2>10. x.kind = "value" /\ x.value = t /\ x.reader = q
    BY Kinds DEF x, t
  <2>11. nested[x.reader.pos] = Value(v, Moved(r, Len(w \o u)))
    BY <2>9, <2>10
  <2>12. ItemBehind(x, k, keys, nested) = Value(Append(t, v), Moved(r, Len(w \o u)))
    <3> DEFINE this == nested[x.reader.pos]
    <3>1. this.kind = "value" /\ this.value = v /\ this.reader = Moved(r, Len(w \o u))
      BY <2>11, Kinds
    <3> HIDE DEF this
    <3>2. ItemBehind(x, k, keys, nested) = Value(Append(x.value, this.value), this.reader)
      BY <2>10, <3>1 DEF ItemBehind, this, keys
    <3> QED BY <2>10, <3>1, <3>2
  <2>13. Append(t, v) = Upto(k)
    BY AppendIs DEF t, v, k
  <2> QED BY <2>2, <2>3, <2>5, <2>12, <2>13
<1>6. f[n] = Value(Upto(n), Moved(r, Len(at[n])))
  <2>1. n \in S
    <3> HIDE DEF S
    <3> QED BY <1>1, <1>4, <1>5, NatSteps
  <2> QED BY <1>1, <2>1
<1>7. Upto(n) = images
  OBVIOUS
<1>8. ReadAll(s, r, n) = Items(r, n, keys, nested)
  BY DEF ReadAll
<1> HIDE DEF Upto, nested, images, keys
<1>9. ReadAll(s, r, n) = Value(images, Moved(r, Len(at[n])))
  BY <1>3, <1>6, <1>7, <1>8
<1> QED BY <1>9 DEF images

\* What was added is read back, value by value and with nothing between or left
\* over (ValuesReadBack).
THEOREM EveryValueReadBack == Spec => []ValuesReadBack
<1>1. SerializerInv => ValuesReadBack
  <2> SUFFICES ASSUME SerializerInv PROVE ValuesReadBack
    OBVIOUS
  <2> DEFINE images == [i \in 1..Len(added) |-> Image(added[i].arg, added[i].options)]
             n == Len(added)
             r == Reader(Len(bytes))
  <2> SUFFICES ASSUME \A i \in 1..n : ~added[i].threw /\ images[i] # Unreadable
               PROVE  ReadAll(Surrounded, r, n) = Value(images, Moved(r, Len(bytes)))
    BY DEF ValuesReadBack
  <2>1. added \in Seq(Calls) /\ \A i \in 1..n : added[i].threw = WrittenBy(added[i]).threw
    BY DEF SerializerInv
  <2>2. PICK at : Grows(at, added) /\ bytes = at[n]
    BY DEF SerializerInv
  <2>3. n \in 0..n
    BY <2>1
  <2>4. bytes \in Seq(Nat)
    BY <2>1, <2>2, <2>3, GrowsFacts
  <2>5. Holds(Surrounded, r, at[n])
    BY <2>2, <2>4, ReaderHolds
  <2>6. images = [i \in 1..n |-> ImageOf(added[i])]
    BY DEF ImageOf
  <2>7. \A i \in 1..n : ~WrittenBy(added[i]).threw /\ ImageOf(added[i]) # Unreadable
    BY <2>1, <2>6
  <2> HIDE DEF images, r
  <2>8. ReadAll(Surrounded, r, Len(added))
          = Value([i \in 1..Len(added) |-> ImageOf(added[i])], Moved(r, Len(at[Len(added)])))
    BY <2>1, <2>2, <2>5, <2>7, AllRead
  <2> QED BY <2>2, <2>6, <2>8
<1> QED BY <1>1, AlwaysSerializerInv, PTL

\* The buffer of one call.
LEMMA OneCall ==
  ASSUME SerializerInv, Len(added) = 1
  PROVE  LET call == added[1]
         IN  /\ call \in Calls
             /\ call.threw = WrittenBy(call).threw
             /\ bytes = WrittenBy(call).out /\ bytes \in Seq(Nat)
             /\ IsFaithful(WrittenBy(call), ImageOf(call))
<1> DEFINE call == added[1]
           out == WrittenBy(call).out
<1>1. call \in Calls /\ call.threw = WrittenBy(call).threw /\ added \in Seq(Calls)
  BY DEF SerializerInv
<1>2. IsFaithful(WrittenBy(call), ImageOf(call))
  BY <1>1, CallFaithful
<1>3. PICK at : Grows(at, added) /\ bytes = at[1]
  BY DEF SerializerInv
<1>4. at[0] = <<>> /\ at[1] = at[1 - 1] \o out
  <2>1. 1 \in 1..Len(added)
    OBVIOUS
  <2> HIDE DEF call
  <2>2. at[0] = <<>> /\ at[1] = at[1 - 1] \o WrittenBy(added[1]).out
    BY <1>3, <2>1 DEF Grows
  <2> QED BY <2>2 DEF call
<1>5. out \in Seq(Nat)
  BY <1>2 DEF IsFaithful
<1> HIDE DEF out
<1>6. bytes = out
  <2>1. at[1 - 1] = <<>>
    BY <1>4
  <2>2. <<>> \o out = out
    BY <1>5
  <2> QED BY <1>3, <1>4, <2>1, <2>2
<1> QED BY <1>1, <1>2, <1>5, <1>6 DEF out

\* What a torn array or map leaves in the buffer is not taken for a value
\* (TornIsNoValue).
THEOREM TornNeverRead == Spec => []TornIsNoValue
<1>1. SerializerInv => TornIsNoValue
  <2> SUFFICES ASSUME SerializerInv, Len(added) = 1, added[1].threw
               PROVE  NextValue(Surrounded, Reader(Len(bytes))).kind # "value"
    BY DEF TornIsNoValue
  <2> DEFINE r == Reader(Len(bytes))
  <2>1. WrittenBy(added[1]).threw /\ bytes = WrittenBy(added[1]).out /\ bytes \in Seq(Nat)
        /\ IsFaithful(WrittenBy(added[1]), ImageOf(added[1]))
    BY OneCall
  <2>2. IsTorn(bytes)
    BY <2>1 DEF IsFaithful
  <2>3. Holds(Surrounded, r, bytes) /\ Remaining(r) = Len(bytes)
    BY <2>1, ReaderHolds
  <2>4. NextValue(Surrounded, r) \in {Incomplete, Failed}
    BY <2>2, <2>3 DEF IsTorn
  <2> QED BY <2>4, Kinds
<1> QED BY <1>1, AlwaysSerializerInv, PTL

\* A reader that ends before what is read as a value ends finds it incomplete.
LEMMA CutReads ==
  ASSUME NEW s, NEW r, NEW w, NEW v, ReadsAs(w, v), Holds(s, r, w), Remaining(r) = Len(w),
         NEW q, IsReader(s, q), ReadPosition(q) = ReadPosition(r), Remaining(q) < Len(w)
  PROVE  NextValue(s, q) = Incomplete
<1> DEFINE o == NextValue(s, q)
           x == NextValue(s, r)
           k == Len(w)
<1>1. IsReader(s, r) /\ Remaining(r) \in Nat /\ Remaining(q) \in Nat /\ k \in Nat
  <2>1. IsReader(s, r) /\ k \in Nat
    BY DEF Holds, ReadsAs
  <2> QED BY <2>1, ReaderFacts
<1>2. Sees(s, q, s, r)
  BY <1>1 DEF Sees
<1>3. Carries(o, q, x, r, 1)
  BY <1>2, SameValue
<1>4. x = Value(v, Moved(r, k))
  BY DEF ReadsAs
<1> HIDE DEF o, x, k
<1>5. x \notin {Incomplete, Failed}
  BY <1>4, Kinds
<1>6. ASSUME NEW d \in 1..Remaining(q), NEW y, x = Value(y, Moved(r, d))
      PROVE  FALSE
  <2>1. Moved(r, k) = Moved(r, d)
    <3>1. x.reader = Moved(r, k)
      BY <1>4, Kinds
    <3>2. x.reader = Moved(r, d)
      BY <1>6, Kinds
    <3> QED BY <3>1, <3>2
  <2>2. Moved(r, k).pos = r.pos + k /\ Moved(r, d).pos = r.pos + d
    <3>1. k \in 0..Remaining(r) /\ d \in 0..Remaining(r)
      BY <1>1 DEF k
    <3> QED BY <1>1, <3>1, ReaderFacts
  <2>3. r.pos \in Nat
    BY <1>1 DEF IsReader
  <2>4. k = d
    BY <1>1, <2>1, <2>2, <2>3
  <2> QED BY <1>1, <2>4 DEF k
<1>7. o = Incomplete
  BY <1>3, <1>5, <1>6 DEF Carries
<1> QED BY <1>7 DEF o

\* A value that is cut off is incomplete at every byte (CutIsIncomplete).
THEOREM CutAlwaysIncomplete == Spec => []CutIsIncomplete
<1>1. SerializerInv => CutIsIncomplete
  <2> SUFFICES ASSUME SerializerInv, Len(added) = 1, ~added[1].threw,
                      Image(added[1].arg, added[1].options) # Unreadable,
                      NEW n \in 1..(Len(bytes) - 1)
               PROVE  NextValue(Surrounded, Reader(n)) = Incomplete
    BY DEF CutIsIncomplete
  <2> DEFINE v == ImageOf(added[1])
             r == Reader(Len(bytes))
             q == Reader(n)
  <2>1. ~WrittenBy(added[1]).threw /\ bytes = WrittenBy(added[1]).out /\ bytes \in Seq(Nat)
        /\ IsFaithful(WrittenBy(added[1]), v)
    BY OneCall
  <2>2. v # Unreadable
    BY DEF ImageOf
  <2>3. ReadsAs(bytes, v)
    BY <2>1, <2>2 DEF IsFaithful
  <2>4. n \in 0..Len(bytes) /\ Len(bytes) \in 0..Len(bytes) /\ n < Len(bytes)
    BY <2>1
  <2>5. /\ Holds(Surrounded, r, bytes) /\ Remaining(r) = Len(bytes)
        /\ IsReader(Surrounded, q) /\ Remaining(q) = n
        /\ ReadPosition(q) = 1 /\ ReadPosition(r) = 1
    BY <2>1, <2>4, ReaderHolds
  <2> HIDE DEF v, r, q
  <2>6. NextValue(Surrounded, q) = Incomplete
    BY <2>3, <2>4, <2>5, CutReads
  <2> QED BY <2>6 DEF q
<1> QED BY <1>1, AlwaysSerializerInv, PTL

-----------------------------------------------------------------------------
(* The smallest format of an integer.                                      *)

\* The integers that have a format with a field of k bytes.
Within(num, k) ==
  IF num >= 0 THEN num < Power(ByteValues)[k] ELSE num >= -(Power(ByteValues)[k] \div 2)

\* What addInt writes is no longer than the integer takes.
LEMMA NoShorter ==
  ASSUME NEW num \in -MaxSafe..MaxSafe
  PROVE  /\ AddInt(num) \in Seq(Nat) /\ Len(AddInt(num)) >= 1
         /\ Len(AddInt(num)) > 1 => num \notin 0..PositiveFix /\ num \notin NegativeFix..-1
         /\ \A k \in {1, 2, 4, 8} : k < Len(AddInt(num)) - 1 => k # 8 /\ ~Within(num, k)
<1> DEFINE u == UintFormat(num, 204)
           i == IntFormat(num, 208)
           f == IF num >= 0 THEN u ELSE i
           K == FieldBytes(f)
           w == IF K = 8 THEN Bytes64(num) ELSE UintBytes(num, K)
           out == AddInt(num)
<1>1. out \in Seq(Nat) /\ Len(out) >= 1
  BY AddIntReads DEF ReadsAs
<1>2. num \in Int
  BY MsgpackAssumption, BuffersAssumption
<1>3. out = CASE num \in 0..PositiveFix -> <<num>>
              [] num \in NegativeFix..-1 -> <<224 + num - NegativeFix>>
              [] OTHER -> <<f>> \o w
  BY DEF AddInt, Formats
<1> HIDE DEF out
<1>4. CASE num \in 0..PositiveFix \/ num \in NegativeFix..-1
  <2>1. Len(out) = 1
    <3>1. CASE num \in 0..PositiveFix
      <4>1. num \notin NegativeFix..-1
        BY <1>2, <3>1, SerializerAssumption
      <4>2. out = <<num>>
        BY <1>3, <3>1, <4>1
      <4> QED BY <4>2
    <3>2. CASE num \in NegativeFix..-1
      <4>1. num \notin 0..PositiveFix
        BY <1>2, <3>2, SerializerAssumption, MsgpackAssumption DEF NegativeFix
      <4>2. out = <<224 + num - NegativeFix>>
        BY <1>3, <3>2, <4>1
      <4> QED BY <4>2
    <3> QED BY <1>4, <3>1, <3>2
  <2> QED BY <1>1, <2>1 DEF out
<1>5. CASE num \notin 0..PositiveFix /\ num \notin NegativeFix..-1
  <2>1. out = <<f>> \o w
    BY <1>3, <1>5
  <2>2. /\ FieldBytes(204) = 1 /\ FieldBytes(205) = 2 /\ FieldBytes(206) = 4 /\ FieldBytes(207) = 8
        /\ FieldBytes(208) = 1 /\ FieldBytes(209) = 2 /\ FieldBytes(210) = 4 /\ FieldBytes(211) = 8
    BY DEF FieldBytes
  <2>3. num >= 0 => /\ f \in {204, 205, 206, 207}
                    /\ \A g \in {204, 205, 206} : g < f => ~FitsUint(num, g)
    <3>1. /\ u \in 204..(204 + 3)
          /\ \A g \in 204..(204 + 2) : g < u => ~FitsUint(num, g)
      BY UintFormatFacts
    <3> HIDE DEF u, i
    <3> QED BY <3>1
  <2>4. num < 0 => /\ f \in {208, 209, 210, 211}
                   /\ \A g \in {208, 209, 210} : g < f => ~FitsInt(num, g)
    <3>1. /\ i \in 208..(208 + 3)
          /\ \A g \in 208..(208 + 2) : g < i => ~FitsInt(num, g)
      BY IntFormatFacts
    <3> HIDE DEF u, i
    <3> QED BY <1>2, <3>1
  <2> HIDE DEF f
  <2>5. K \in {1, 2, 4, 8}
    BY <1>2, <2>2, <2>3, <2>4
  <2>6. Len(out) = 1 + K
    <3>1. w \in Seq(Nat) /\ Len(w) = K
      <4>1. CASE K = 8
        BY <1>2, <4>1, Bytes64Facts
      <4>2. CASE K # 8
        <5>1. w = UintBytes(num, K)
          BY <4>2
        <5> HIDE DEF w, K
        <5>2. K \in Nat
          BY <2>5
        <5>3. UintBytes(num, K) \in Seq(Nat) /\ Len(UintBytes(num, K)) = K
          BY <1>2, <5>2, UintBytesFacts
        <5> QED BY <5>1, <5>3
      <4> QED BY <4>1, <4>2
    <3>2. <<f>> \in Seq(Nat) /\ Len(<<f>>) = 1
      <4>1. f \in Nat
        BY <1>2, <2>3, <2>4
      <4> QED BY <4>1
    <3> HIDE DEF w, K
    <3>3. Len(<<f>> \o w) = Len(<<f>>) + Len(w)
      BY <3>1, <3>2, JoinFacts
    <3> QED BY <2>1, <3>1, <3>2, <3>3
  <2>7. ASSUME NEW k \in {1, 2, 4, 8}, k < K PROVE k # 8 /\ ~Within(num, k)
    <3>1. k # 8
      BY <2>5, <2>7
    <3>2. CASE num >= 0
      <4>1. PICK g \in {204, 205, 206} : FieldBytes(g) = k /\ g < f
        BY <2>2, <2>3, <2>7, <3>1, <3>2
      <4>2. ~FitsUint(num, g)
        BY <2>3, <3>2, <4>1
      <4> QED BY <3>1, <3>2, <4>1, <4>2 DEF FitsUint, Within
    <3>3. CASE num < 0
      <4>1. PICK g \in {208, 209, 210} : FieldBytes(g) = k /\ g < f
        BY <2>2, <2>4, <2>7, <3>1, <3>3
      <4>2. ~FitsInt(num, g)
        BY <2>4, <3>3, <4>1
      <4>3. ~(num >= 0)
        BY <1>2, <3>3
      <4> QED BY <3>1, <4>1, <4>2, <4>3 DEF FitsInt, Within
    <3> QED BY <1>2, <3>2, <3>3
  <2> HIDE DEF K
  <2>8. Len(out) - 1 = K
    BY <2>5, <2>6
  <2> QED BY <1>1, <1>5, <2>7, <2>8 DEF out
<1> QED BY <1>4, <1>5

\* A format behind which its field is cut off.
LEMMA FieldMissing ==
  ASSUME NEW s, NEW r, NEW f \in Nat, Holds(s, r, <<f>>), Remaining(r) < 1 + FieldBytes(f),
         FieldBytes(f) \in Nat
  PROVE  NextValue(s, r) = Incomplete
<1> DEFINE k == FieldBytes(f)
           m == Moved(r, 1)
<1>1. <<f>> \in Seq(Nat) /\ Len(<<f>>) = 1
  OBVIOUS
<1>2. /\ IsReader(s, r) /\ Remaining(r) \in Nat /\ 1 \in 0..Remaining(r)
      /\ HasBytes(r, 1) /\ BytesOf(s, r, 1) = <<f>>
      /\ IsReader(s, m) /\ Remaining(m) = Remaining(r) - 1
  <2> DEFINE b == <<f>>
  <2>1. Holds(s, r, b) /\ Len(b) = 1
    BY <1>1
  <2> HIDE DEF b, m
  <2>2. /\ IsReader(s, r) /\ Remaining(r) \in Nat /\ Len(b) \in 0..Remaining(r)
        /\ HasBytes(r, Len(b)) /\ BytesOf(s, r, Len(b)) = b
    BY ONLY <2>1, HoldsFacts
  <2> DEFINE one == 1
  <2>3. one \in 0..Remaining(r)
    BY <2>1, <2>2
  <2> HIDE DEF one
  <2>4. IsReader(s, Moved(r, one)) /\ Remaining(Moved(r, one)) = Remaining(r) - one
    BY <2>2, <2>3, ReaderFacts
  <2> QED BY <2>1, <2>2, <2>4 DEF b, m, one
<1>3. UintAt(s, r, 1) = f
  BY <1>2, UintOfOne DEF UintAt
<1>4. ~HasBytes(m, k)
  <2> HIDE DEF m
  <2> QED BY <1>2, ReaderFacts
<1>5. PICK nested : NextValue(s, r) = NextAt(s, r, nested)
  <2>1. Remaining(r) > 0
    BY <1>2
  <2> QED BY <1>2, <2>1, NextUnfolds
<1>6. NextAt(s, r, nested) = Incomplete
  BY <1>3, <1>4 DEF NextAt
<1> QED BY <1>5, <1>6

\* An integer that is read from a field has a field of that width.
LEMMA NumberWithin ==
  ASSUME NEW s, NEW r, NEW f \in Nat, IsNumber(f), NEW w \in Octets, FieldBytes(f) = Len(w),
         Holds(s, r, w), NEW num \in Int, NumberAt(s, r, f) = <<"number", num>>
  PROVE  Len(w) \in {1, 2, 4, 8} /\ (Len(w) = 8 \/ Within(num, Len(w)))
<1> DEFINE k == Len(w)
<1>1. f \in {202, 203, 204, 205, 206, 207, 208, 209, 210, 211}
  BY DEF IsNumber
<1>2. k \in {1, 2, 4, 8}
  BY <1>1 DEF FieldBytes
<1>3. BytesOf(s, r, k) = w
  BY HoldsFacts
<1>4. Power(ByteValues)[k] \in Nat
  BY <1>2, WidthFacts
<1>5. CASE f \in {202, 203}
  <2>1. NumberAt(s, r, f)[1] = "float"
    BY <1>5 DEF NumberAt
  <2> QED BY <2>1
<1>6. CASE f \in {204, 205, 206}
  <2>1. NumberAt(s, r, f) = <<"number", UintAt(s, r, k)>>
    BY <1>6 DEF NumberAt
  <2>2. num = ToUint(w)
    BY <1>3, <2>1 DEF UintAt
  <2>3. num \in 0..(Power(ByteValues)[k] - 1)
    BY <2>2, UintBound
  <2>4. num >= 0 /\ num < Power(ByteValues)[k]
    BY <1>4, <2>3
  <2> QED BY <1>2, <2>4 DEF Within
<1>7. CASE f \in {208, 209, 210}
  <2>1. NumberAt(s, r, f) = <<"number", IntAt(s, r, k)>>
    BY <1>7 DEF NumberAt
  <2>2. num = ToInt(w)
    BY <1>3, <2>1 DEF IntAt
  <2> DEFINE p == Power(ByteValues)[k]
  <2>3. -p <= 2 * num /\ 2 * num < p
    BY <2>2, IntBound
  <2> HIDE DEF p
  <2>4. p \in Nat
    BY <1>4 DEF p
  <2>5. IF num >= 0 THEN num < p ELSE num >= -(p \div 2)
    BY <2>3, <2>4
  <2> QED BY <1>2, <2>5 DEF Within, p
<1>8. CASE f \in {207, 211}
  BY <1>8 DEF FieldBytes
<1> QED BY <1>1, <1>5, <1>6, <1>7, <1>8, SMTT(30)

\* What is read, of up to n bytes of an integer behind a format, is not that
\* integer when addInt takes more bytes for it.
LEMMA NotRead ==
  ASSUME NEW num \in -MaxSafe..MaxSafe, NEW n \in Nat, n + 1 < Len(AddInt(num)),
         NEW f \in Nat,
         \/ IsNumber(f)
         \/ f \in 0..PositiveFix
         \/ f \in 224..(224 + NegativeFixes - 1)
  PROVE  LET o == NextValue(<<f>> \o UintBytes(num, n), NewReader(0, n + 1))
         IN  o.kind = "value" => o.value # <<"number", num>>
<1> DEFINE b == <<f>>
           t == UintBytes(num, n)
           s == b \o t
           r == NewReader(0, n + 1)
           o == NextValue(s, r)
<1>1. num \in Int /\ NegativeFixes \in 1..32 /\ PositiveFix \in 0..127
  BY MsgpackAssumption, BuffersAssumption, SerializerAssumption
<1>2. b \in Seq(Nat) /\ Len(b) = 1
  OBVIOUS
<1>3. t \in Seq(Nat) /\ t \in Octets /\ Len(t) = n
  BY <1>1, UintBytesFacts
<1>4. /\ Len(AddInt(num)) \in Nat
      /\ num \notin 0..PositiveFix /\ num \notin NegativeFix..-1
      /\ \A k \in {1, 2, 4, 8} : k < Len(AddInt(num)) - 1 => k # 8 /\ ~Within(num, k)
  <2>1. AddInt(num) \in Seq(Nat) /\ Len(AddInt(num)) >= 1
        /\ (Len(AddInt(num)) > 1 => num \notin 0..PositiveFix /\ num \notin NegativeFix..-1)
    BY NoShorter
  <2>2. \A k \in {1, 2, 4, 8} : k < Len(AddInt(num)) - 1 => k # 8 /\ ~Within(num, k)
    BY NoShorter
  <2>3. Len(AddInt(num)) \in Nat
    BY <2>1
  <2>4. Len(AddInt(num)) > 1
    BY <2>3
  <2> QED BY <2>1, <2>2, <2>3, <2>4
<1> HIDE DEF b, t, s
<1>5. s \in Seq(Nat) /\ Len(s) = n + 1
  <2>1. b \o t \in Seq(Nat) /\ Len(b \o t) = Len(b) + Len(t)
    BY <1>2, <1>3, JoinFacts
  <2> QED BY <1>2, <1>3, <2>1 DEF s
<1>6. IsReader(s, r) /\ Remaining(r) = n + 1 /\ ReadPosition(r) = 0
  <2> DEFINE l == n + 1
  <2>1. r = [off |-> 0, len |-> l, pos |-> 0] /\ l \in Nat /\ Len(s) = l
    BY <1>5 DEF NewReader
  <2> HIDE DEF l, r
  <2>2. r.off = 0 /\ r.len = l /\ r.pos = 0 /\ r \in [off : Nat, len : Nat, pos : Nat]
    BY <2>1
  <2>3. IsReader(s, r)
    BY <1>5, <2>1, <2>2 DEF IsReader
  <2>4. Remaining(r) = l /\ ReadPosition(r) = 0
    BY <2>1, <2>2 DEF Remaining, ReadPosition
  <2> QED BY <2>3, <2>4 DEF l
<1> HIDE DEF r
<1>7. Holds(s, r, s)
  BY <1>5, <1>6 DEF Holds
<1>8. Holds(s, r, b) /\ Holds(s, Moved(r, 1), t)
  <2>1. Holds(s, r, b \o t)
    BY <1>7 DEF s
  <2>2. Holds(s, r, b) /\ Holds(s, Moved(r, Len(b)), t)
    BY <1>2, <1>3, <2>1, HoldsJoin
  <2> QED BY <1>2, <2>2
<1> SUFFICES ASSUME o.kind = "value", o.value = <<"number", num>> PROVE FALSE
  BY DEF s, r, b, t
<1>9. CASE f \in 0..PositiveFix
  <2>1. ReadsAs(b, <<"number", f>>)
    <3>1. f < 128
      BY <1>1, <1>9
    <3> QED BY <3>1, OneByteRead DEF b
  <2>2. o = Value(<<"number", f>>, Moved(r, Len(b)))
    BY <1>8, <2>1 DEF ReadsAs
  <2>3. <<"number", f>> = <<"number", num>>
    BY <2>2, Kinds
  <2>4. f = num
    BY <2>3
  <2> QED BY <1>4, <1>9, <2>4
<1>10. CASE f \in 224..(224 + NegativeFixes - 1)
  <2> DEFINE v == (f % 32) + NegativeFix
  <2>1. f \in 224..255 /\ v \in NegativeFix..-1
    BY <1>1, <1>10 DEF NegativeFix
  <2>2. ReadsAs(b, <<"number", v>>)
    BY <2>1, OneByteRead DEF b
  <2> HIDE DEF v
  <2>3. o = Value(<<"number", v>>, Moved(r, Len(b)))
    BY <1>8, <2>2 DEF ReadsAs
  <2>4. <<"number", v>> = <<"number", num>>
    BY <2>3, Kinds
  <2>5. v = num
    BY <2>4
  <2> QED BY <1>4, <2>1, <2>5
<1>11. CASE IsNumber(f)
  <2> DEFINE k == FieldBytes(f)
             m == Moved(r, 1)
  <2>1. k \in Nat
    <3>1. f \in {202, 203, 204, 205, 206, 207, 208, 209, 210, 211}
      BY <1>11 DEF IsNumber
    <3> QED BY <3>1 DEF FieldBytes
  <2>2. k <= n
    <3> SUFFICES ASSUME ~(k <= n) PROVE FALSE
      OBVIOUS
    <3>1. Remaining(r) < 1 + FieldBytes(f)
      BY <1>6, <2>1
    <3>2. Holds(s, r, <<f>>)
      BY <1>8 DEF b
    <3>3. o = Incomplete
      BY <2>1, <3>1, <3>2, FieldMissing
    <3> QED BY <3>3, Kinds
  <2> DEFINE w == SubSeq(t, 1, k)
  <2>3. w \in Octets /\ w \in Seq(Nat) /\ Len(w) = k /\ \A i \in 1..k : w[i] = t[i]
    <3>1. k \in 0..Len(t) /\ 0 \in Nat /\ k - 0 = k
      BY <1>3, <2>1, <2>2
    <3>2. t \in Seq(0..(ByteValues - 1))
      BY <1>3 DEF Octets
    <3> HIDE DEF k
    <3>3. /\ SubSeq(t, 0 + 1, k) \in Seq(0..(ByteValues - 1))
          /\ Len(SubSeq(t, 0 + 1, k)) = k - 0
          /\ \A i \in 1..(k - 0) : SubSeq(t, 0 + 1, k)[i] = t[0 + i]
      BY <3>1, <3>2, PartFacts
    <3>4. SubSeq(t, 0 + 1, k) \in Seq(Nat)
      BY <1>3, <3>1, PartFacts
    <3>5. \A i \in 1..k : w[i] = t[i]
      BY <3>1, <3>3
    <3> QED BY <3>1, <3>3, <3>4, <3>5 DEF Octets
  <2> HIDE DEF k, w
  <2>4. IsReader(s, m) /\ Remaining(m) = n
    <3>1. 1 \in 0..Remaining(r) /\ (n + 1) - 1 = n
      BY <1>6
    <3> DEFINE one == 1
    <3>2. IsReader(s, r) /\ one \in 0..Remaining(r)
      BY <1>6, <3>1
    <3> HIDE DEF one
    <3>3. IsReader(s, Moved(r, one)) /\ Remaining(Moved(r, one)) = Remaining(r) - one
      BY ONLY <3>2, ReaderFacts
    <3> QED BY <1>6, <3>1, <3>3 DEF one
  <2> HIDE DEF m
  <2>5. Holds(s, m, w)
    <3>1. \A i \in 1..k : s[ReadPosition(m) + i] = t[i]
      <4>1. \A i \in 1..Len(t) : s[ReadPosition(m) + i] = t[i]
        BY <1>8 DEF Holds, m
      <4> QED BY <1>3, <2>1, <2>2, <4>1
    <3> QED BY <2>1, <2>2, <2>3, <2>4, <3>1 DEF Holds
  <2> DEFINE x == NumberAt(s, m, f)
  <2>6. o.value = x
    <3>1. Holds(s, r, b \o w)
      BY <1>2, <1>8, <2>3, <2>5, HoldsJoin DEF m
    <3>2. FieldBytes(f) = Len(w)
      BY <2>3 DEF k
    <3> DEFINE e == Moved(r, 1 + Len(w))
    <3>3. Holds(s, r, <<f>> \o w)
      BY <3>1 DEF b
    <3> HIDE DEF o
    <3>4. \E nested :
            /\ NextValue(s, r)
                 = ContentAt(s, f, Moved(r, 1), Moved(r, 1 + Len(w)), LengthOf(f, w), nested)
            /\ Behind(s, r, nested)
      BY ONLY <2>3, <3>2, <3>3, f \in Nat, HeadRead
    <3>5. PICK nested : o = ContentAt(s, f, m, e, LengthOf(f, w), nested)
      BY <3>4 DEF o, m
    <3> HIDE DEF e
    <3>6. o = Value(x, e)
      BY <1>11, <3>5, NumberContent
    <3> HIDE DEF x
    <3> QED BY <3>6, Kinds
  <2>7. x = <<"number", num>>
    BY <2>6
  <2>8. Len(w) \in {1, 2, 4, 8} /\ (Len(w) = 8 \/ Within(num, Len(w)))
    <3>1. FieldBytes(f) = Len(w)
      BY <2>3 DEF k
    <3> QED BY <1>1, <1>11, <2>3, <2>5, <2>7, <3>1, NumberWithin, ZenonT(30)
  <2>9. Len(w) < Len(AddInt(num)) - 1
    BY <1>4, <2>1, <2>2, <2>3
  <2> QED BY <1>4, <2>8, <2>9
<1> QED BY <1>9, <1>10, <1>11

\* What is written of a number.
LEMMA NumberOutput ==
  ASSUME NEW arg, NEW options \in Options, NEW written
  PROVE  arg[1] = "number" => OutputWith(arg, options, written) = Wrote(AddInt(arg[2]))
<1> DEFINE o == OutputWith(arg, options, written)
           t == arg[1]
<1>1. /\ t \in {"undefined", "null"} => o = Wrote(<<192>>)
      /\ t = "boolean" => o = Wrote(<<IF arg[2] THEN 195 ELSE 194>>)
      /\ t = "number" => o = Wrote(AddInt(arg[2]))
      /\ t = "float" => o = Wrote(AddFloat(arg[2], options.asFloats))
      /\ t = "bigint" => o = Wrote(AddBigInt(arg[2]))
  BY OutputForms
<1> QED BY <1>1

\* No other format of an integer that is read as the same number is shorter
\* (SmallestInteger).
THEOREM IntegersSmallest == Spec => []SmallestInteger
<1>1. SerializerInv => SmallestInteger
  <2> DEFINE Numbers == {g \in 0..255 : IsNumber(g)} \cup 0..PositiveFix
                          \cup 224..(224 + NegativeFixes - 1)
             num == added[1].arg[2]
  <2> SUFFICES ASSUME SerializerInv, Len(added) = 1, added[1].arg[1] = "number",
                      NEW f \in Numbers, NEW n \in 0..(Len(bytes) - 2)
               PROVE  LET o == NextValue(<<f>> \o UintBytes(num, n), NewReader(0, n + 1))
                      IN  o.kind = "value" => o.value # added[1].arg
    BY DEF SmallestInteger, Formats
  <2>1. added[1] \in Calls /\ bytes = WrittenBy(added[1]).out /\ bytes \in Seq(Nat)
    BY OneCall
  <2>2. added[1].arg \in Values
    BY <2>1 DEF Calls
  <2>3. added[1].arg \in Scalars
    BY <2>2, PartsFacts
  <2>4. num \in -MaxSafe..MaxSafe /\ added[1].arg = <<"number", num>>
    BY <2>3, ScalarForms
  <2>5. bytes = AddInt(num)
    <3>1. PICK written : Output(added[1].arg, added[1].options)
                           = OutputWith(added[1].arg, added[1].options, written)
      BY <2>2, OutputSteps
    <3>2. OutputWith(added[1].arg, added[1].options, written) = Wrote(AddInt(num))
      <4> DEFINE arg == added[1].arg
                 options == added[1].options
      <4>1. arg[1] = "number" /\ options \in Options
        BY <2>1 DEF Calls
      <4> HIDE DEF arg, options
      <4>2. OutputWith(arg, options, written) = Wrote(AddInt(arg[2]))
        BY <4>1, NumberOutput
      <4> QED BY <4>2 DEF arg, options
    <3> QED BY <2>1, <3>1, <3>2 DEF WrittenBy, Wrote
  <2>6. n \in Nat /\ n + 1 < Len(bytes)
    BY <2>1
  <2>7. /\ f \in Nat
        /\ IsNumber(f) \/ f \in 0..PositiveFix \/ f \in 224..(224 + NegativeFixes - 1)
    BY MsgpackAssumption, SerializerAssumption
  <2> HIDE DEF num, Numbers
  <2> QED BY <2>4, <2>5, <2>6, <2>7, NotRead
<1> QED BY <1>1, AlwaysSerializerInv, PTL
=============================================================================
