------------------------- MODULE PacketWriterProofs -------------------------
(***************************************************************************)
(* Theorems about PacketFraming and PacketWriter.                          *)
(*                                                                         *)
(* For any width of a digit and any number of bytes up to four,            *)
(* readVariableByteInteger undoes addVariableByteInteger, over as many     *)
(* bytes as lengthVariableByteInteger says.  The argument: the equations   *)
(* of the recursive functions (PowerDef, IntegerDef), by Recursion; then,  *)
(* by induction on the number k of digits, that an integer in              *)
(* Base^(k-1)..Base^k-1 is k bytes of which the last alone has no          *)
(* continuation bit, and whose digits add up to it (DigitsReadBack).  That *)
(* the integer has k digits exactly when its bits, rounded up to whole     *)
(* digits, are k digits is LengthIsDigits.                                 *)
(*                                                                         *)
(* Whatever packets are written one after the other, given up or refused,  *)
(* and however the buffer grows, the buffer holds the body that was        *)
(* written, and what finalizeMessage returns is one packet with that body  *)
(* for the reader.  The argument: the operations on the buffer change the  *)
(* bytes they write and no others (PutFacts), so the buffer holds the body *)
(* behind the reserved bytes (WriterInv).  The header fits these because   *)
(* the length takes as many bytes as lengthVariableByteInteger says,       *)
(* LengthBytes at most, and it is read back from them (LengthReadsBack).   *)
(***************************************************************************)
EXTENDS PacketWriter, MCPacketFraming, DataLemmas

-----------------------------------------------------------------------------
(* The length of the integer.                                              *)

\* lengthVariableByteInteger counts the digits: of the integers that k digits can
\* express and k - 1 cannot it is k.
LEMMA LengthIsDigits ==
  ASSUME NEW n \in Nat \ {0}, NEW k \in 1..LengthBytes,
         Power(Base)[k - 1] <= n, n < Power(Base)[k]
  PROVE  LengthVariableByteInteger(n) = k
<1> DEFINE p == Power(2)
           D == DigitBits
           Bits == 1..(D * LengthBytes)
           IsLength(b) == p[b - 1] <= n /\ n < p[b]
<1>1. D \in Nat \ {0} /\ LengthBytes \in Nat /\ k - 1 \in Nat /\ k \in Nat
  BY DigitAssumption, FramingAssumption
<1>2. p[0] = 1 /\ \A i \in Nat : p[i] \in Nat /\ p[i + 1] = 2 * p[i]
  BY PowerDef
<1>3. \A i, j \in Nat : i <= j => p[i] <= p[j]
  BY PowerMonotonic
<1>4. p[D * (k - 1)] <= n /\ n < p[D * k]
  <2>1. \A j \in Nat : Power(Power(2)[D])[j] = Power(2)[D * j]
    BY <1>1, PowerOfProduct
  <2>2. Power(2)[D] = Base
    BY DigitAssumption
  <2> QED BY <1>1, <2>1, <2>2
<1> HIDE DEF p
<1>5. D * (k - 1) \in Nat /\ D * k \in Nat /\ D * k = D * (k - 1) + D
  BY <1>1
<1>6. D * LengthBytes \in Nat /\ D * k <= D * LengthBytes
  BY <1>1, ProductMonotonic
<1>7. \E b \in Bits : IsLength(b)
  <2> DEFINE T == {b \in Nat : n < p[b]}
  <2>1. PICK b \in T : \A e \in T : b <= e
    <3>1. T \in SUBSET Nat /\ T # {}
      BY <1>4, <1>5
    <3> HIDE DEF T
    <3> QED BY <3>1, LeastNat
  <2>2. b \in Nat /\ n < p[b] /\ b # 0
    BY <1>2
  <2>3. b - 1 \in Nat /\ b - 1 \notin T
    BY <2>1, <2>2
  <2>4. p[b - 1] <= n
    BY <2>3, <1>2
  <2>5. b <= D * k
    BY <2>1, <1>4, <1>5
  <2>6. b \in Bits
    <3> DEFINE top == D * LengthBytes
    <3>1. top \in Nat /\ D * k \in Nat /\ D * k <= top
      BY <1>5, <1>6
    <3>2. b \in 1..top
      <4> HIDE DEF top
      <4> QED BY <2>2, <2>5, <3>1
    <3> QED BY <3>2
  <2> QED BY <2>2, <2>4, <2>6
<1> DEFINE b == BitLength(n)
<1>8. b \in Bits /\ IsLength(b)
  <2>1. b = CHOOSE x \in Bits : IsLength(x)
    BY DEF BitLength, p
  <2> HIDE DEF b, Bits, IsLength
  <2> QED BY <1>7, <2>1, Zenon
<1> HIDE DEF b
<1>9. b \in Nat \ {0}
  BY <1>8, <1>1
<1>10. b <= D * k
  <2> SUFFICES ASSUME D * k <= b - 1 PROVE FALSE
    BY <1>5, <1>9
  <2>1. p[D * k] <= p[b - 1]
    BY <1>3, <1>5, <1>9
  <2>2. b - 1 \in Nat
    BY <1>9
  <2> QED BY <2>1, <2>2, <1>2, <1>4, <1>5, <1>8
<1>11. D * (k - 1) < b
  <2> SUFFICES ASSUME b <= D * (k - 1) PROVE FALSE
    BY <1>5, <1>9
  <2>1. p[b] <= p[D * (k - 1)]
    BY <1>3, <1>5, <1>9
  <2> QED BY <2>1, <1>2, <1>4, <1>5, <1>8, <1>9
<1>12. b + D - 1 = D * k + (b - 1 - D * (k - 1))
  BY <1>1, <1>5, <1>9
<1>13. (b + D - 1) \div D = k
  <2> DEFINE r == b - 1 - D * (k - 1)
             m == b + D - 1
  <2>1. r \in 0..(D - 1) /\ m \in Nat
    BY <1>1, <1>5, <1>9, <1>10, <1>11
  <2>2. m = D * k + r
    BY <1>12
  <2> HIDE DEF r, m
  <2>3. m \div D = k
    BY <1>1, <2>1, <2>2, DivModUnique
  <2> QED BY <2>3 DEF m
<1> QED
  BY <1>13 DEF LengthVariableByteInteger, b

\* Every integer up to MaxLength has a number of digits.
LEMMA HasDigits ==
  ASSUME NEW n \in 0..MaxLength, n # 0
  PROVE  \E k \in 1..LengthBytes : Power(Base)[k - 1] <= n /\ n < Power(Base)[k]
<1> DEFINE p == Power(Base)
           T == {k \in Nat : n < p[k]}
<1>1. Base \in Nat /\ LengthBytes \in Nat
  BY FramingAssumption
<1>2. p[0] = 1 /\ \A k \in Nat : p[k] \in Nat
  BY <1>1, PowerDef
<1>3. n \in Nat /\ LengthBytes \in T
  BY <1>1, <1>2 DEF MaxLength
<1> HIDE DEF p
<1>4. PICK k \in T : \A e \in T : k <= e
  <2>1. T \in SUBSET Nat /\ T # {}
    BY <1>3
  <2> HIDE DEF T
  <2> QED BY <2>1, LeastNat
<1>5. k \in Nat /\ n < p[k] /\ k # 0 /\ k <= LengthBytes
  BY <1>2, <1>3, <1>4
<1>6. k - 1 \in Nat /\ k - 1 \notin T
  BY <1>4, <1>5
<1>7. p[k - 1] <= n
  BY <1>2, <1>3, <1>6
<1> QED BY <1>1, <1>5, <1>7 DEF p

-----------------------------------------------------------------------------
(* The bytes of the integer.                                               *)

\* The digits of a length and their number.
LEMMA DigitFacts ==
  /\ Byte \subseteq Nat
  /\ \A d \in Byte : Digit(d) \in Nat
  /\ \A n \in Nat : n < Base => n \in Byte /\ ~More(n) /\ Digit(n) = n
  /\ \A n \in Nat : LET d == Base + (n % Base)
                    IN  d \in Byte /\ More(d) /\ Digit(d) = n % Base
<1>1. Byte \subseteq Nat /\ \A d \in Byte : Digit(d) \in Nat
  BY FramingAssumption DEF Byte, Digit
<1>2. \A n \in Nat : n < Base => n \in Byte /\ ~More(n) /\ Digit(n) = n
  BY FramingAssumption DEF Byte, More, Digit
<1>3. ASSUME NEW n \in Nat PROVE LET d == Base + (n % Base)
                                 IN  d \in Byte /\ More(d) /\ Digit(d) = n % Base
  <2> DEFINE r == n % Base
  <2>1. r \in 0..(Base - 1) /\ Base \in Nat \ {0}
    BY FramingAssumption
  <2> HIDE DEF r
  <2>2. Base + r \in Byte /\ More(Base + r)
    BY <2>1 DEF Byte, More
  <2>3. Base + r = Base * 1 + r /\ Base + r \in Nat /\ 1 \in Nat
    BY <2>1
  <2>4. (Base + r) % Base = r
    BY <2>1, <2>3, DivModUnique
  <2> QED BY <2>2, <2>4 DEF Digit, r
<1> QED BY <1>1, <1>2, <1>3

\* VariableByteInteger satisfies its equation, and its values are bytes.
LEMMA IntegerDef ==
  \A n \in Nat :
    /\ VariableByteInteger[n] =
         IF n < Base THEN <<n>>
         ELSE <<Base + (n % Base)>> \o VariableByteInteger[n \div Base]
    /\ VariableByteInteger[n] \in Seq(Byte)
<1> DEFINE small == 0..(Base - 1)
           init == [n \in Nat |-> IF n < Base THEN <<n>> ELSE <<>>]
           prev == [n \in Nat |-> n \div Base]
           step == [d \in Nat \X Seq(Byte) |-> <<Base + (d[1] % Base)>> \o d[2]]
           rank == [n \in Nat |-> n]
           Value(g, n) == IF n < Base THEN <<n>> ELSE <<Base + (n % Base)>> \o g[n \div Base]
           Eqn(g) == g = [n \in Nat |-> Value(g, n)]
<1>1. Base \in Nat \ {0, 1}
  BY FramingAssumption
<1>2. \A n \in Nat : n \div Base \in Nat /\ (~(n < Base) => n \div Base < n)
  BY <1>1, DivMod
<1>3. \A n \in Nat : n \notin small <=> ~(n < Base)
  BY <1>1
<1>4. PICK g \in [Nat -> Seq(Byte)] : \A n \in Nat : Follows(g, small, init, prev, step, n)
  <2>1. rank \in [Nat -> Nat] /\ prev \in [Nat -> Nat] /\ <<>> \in Seq(Byte)
    BY <1>2
  <2>2. init \in [Nat -> Seq(Byte)]
    BY DigitFacts
  <2>3. step \in [Nat \X Seq(Byte) -> Seq(Byte)]
    <3> SUFFICES ASSUME NEW n \in Nat, NEW t \in Seq(Byte)
                 PROVE  <<Base + (n % Base)>> \o t \in Seq(Byte)
      OBVIOUS
    <3>1. Base + (n % Base) \in Byte
      BY DigitFacts
    <3> QED BY <3>1
  <2>4. \A n \in Nat : n \notin small => rank[prev[n]] < rank[n]
    BY <1>2, <1>3
  <2> HIDE DEF small, init, prev, step, rank
  <2> QED BY <2>1, <2>2, <2>3, <2>4, Recursion
<1>5. \A n \in Nat : g[n] = Value(g, n)
  <2> SUFFICES ASSUME NEW n \in Nat PROVE g[n] = Value(g, n)
    OBVIOUS
  <2>1. Follows(g, small, init, prev, step, n) /\ n \div Base \in Nat
    BY <1>2, <1>4
  <2>2. CASE n < Base
    BY <1>3, <2>1, <2>2 DEF Follows
  <2>3. CASE ~(n < Base)
    <3> DEFINE t == g[n \div Base]
    <3>1. t \in Seq(Byte)
      BY <2>1
    <3>2. n \notin small /\ prev[n] = n \div Base
      BY <1>3, <2>3
    <3>3. g[n] = step[<<n, t>>]
      <4> HIDE DEF small, step, prev, init
      <4> QED BY <2>1, <3>2 DEF Follows
    <3> HIDE DEF t
    <3>4. step[<<n, t>>] = <<Base + (n % Base)>> \o t
      BY <3>1
    <3> QED BY <2>3, <3>3, <3>4 DEF t
  <2> QED BY <2>2, <2>3
<1>6. Eqn(g)
  <2> HIDE DEF Value
  <2> QED BY <1>5
<1> DEFINE v == VariableByteInteger
<1>7. Eqn(v)
  <2>1. v = CHOOSE h : Eqn(h)
    BY Zenon DEF VariableByteInteger
  <2> HIDE DEF Eqn, v
  <2> QED BY <1>6, <2>1, Zenon
<1> HIDE DEF v
<1>8. \A n \in Nat : v[n] = Value(v, n)
  <2> HIDE DEF Value
  <2> QED BY <1>7
<1>9. \A n \in Nat : v[n] \in Seq(Byte)
  <2> DEFINE T == {n \in Nat : v[n] \notin Seq(Byte)}
  <2> SUFFICES ASSUME T # {} PROVE FALSE
    OBVIOUS
  <2>1. PICK n \in T : \A m \in T : n <= m
    <3>1. T \in SUBSET Nat
      OBVIOUS
    <3> HIDE DEF T
    <3> QED BY <3>1, LeastNat
  <2>2. n \in Nat /\ v[n] \notin Seq(Byte)
    OBVIOUS
  <2>3. ASSUME NEW m \in Nat, m < n PROVE v[m] \in Seq(Byte)
    <3>1. m \notin T
      BY <2>1, <2>2, <2>3
    <3> QED BY <3>1
  <2> HIDE DEF T
  <2>4. CASE n < Base
    <3>1. v[n] = <<n>> /\ n \in Byte
      BY <1>8, <2>2, <2>4, DigitFacts
    <3> QED BY <2>2, <3>1
  <2>5. CASE ~(n < Base)
    <3>1. n \div Base \in Nat /\ n \div Base < n
      BY <1>2, <2>2, <2>5
    <3>2. v[n \div Base] \in Seq(Byte)
      BY <2>3, <3>1
    <3>3. Base + (n % Base) \in Byte
      BY <2>2, DigitFacts
    <3>4. v[n] = <<Base + (n % Base)>> \o v[n \div Base]
      BY <1>8, <2>2, <2>5
    <3>5. <<Base + (n % Base)>> \in Seq(Byte)
      BY <3>3
    <3> QED BY <2>2, <3>2, <3>4, <3>5
  <2> QED BY <2>4, <2>5
<1> QED BY <1>8, <1>9 DEF v

-----------------------------------------------------------------------------
(* Reading the integer back.                                               *)

\* The value of an integer is its first digit and Base times the value of the rest.
LEMMA ValueOfRest ==
  ASSUME NEW d \in Byte, NEW t \in Seq(Byte), NEW k \in 1..3, Len(t) = k
  PROVE  IntegerValue(<<d>> \o t, 0, k + 1) = Digit(d) + Base * IntegerValue(t, 0, k)
<1> DEFINE s == <<d>> \o t
           x(i) == IF i <= k + 1 THEN Digit(s[0 + i]) ELSE 0
           y(i) == IF i <= k THEN Digit(t[0 + i]) ELSE 0
<1>1. /\ IntegerValue(s, 0, k + 1) = x(1) + Base * (x(2) + Base * (x(3) + Base * x(4)))
      /\ IntegerValue(t, 0, k) = y(1) + Base * (y(2) + Base * (y(3) + Base * y(4)))
  BY DEF IntegerValue
<1>2. s[1] = d /\ \A i \in 1..k : s[i + 1] = t[i]
  BY InFront
<1>3. x(1) = Digit(d)
  BY <1>2
<1>4. ASSUME NEW i \in 1..3 PROVE x(i + 1) = y(i) /\ y(i) \in Nat
  <2>1. CASE i <= k
    <3>1. s[i + 1] = t[i] /\ t[i] \in Byte
      BY <1>2, <2>1
    <3>2. x(i + 1) = Digit(s[i + 1]) /\ y(i) = Digit(t[i])
      BY <2>1
    <3> QED BY <3>1, <3>2, DigitFacts
  <2>2. CASE ~(i <= k)
    BY <2>2
  <2> QED BY <2>1, <2>2
<1>5. y(4) = 0
  OBVIOUS
<1>6. x(2) = y(1) /\ x(3) = y(2) /\ x(4) = y(3) /\ y(3) \in Nat
  <2> HIDE DEF x, y
  <2>1. x(1 + 1) = y(1) /\ x(2 + 1) = y(2) /\ x(3 + 1) = y(3) /\ y(3) \in Nat
    BY <1>4
  <2> QED BY <2>1
<1> HIDE DEF x, y
<1>7. y(3) + Base * y(4) = y(3)
  BY <1>5, <1>6, FramingAssumption
<1> QED BY <1>1, <1>3, <1>6, <1>7

\* What reading an integer of k digits finds.
ReadsBackAs(n, k) ==
  LET bytes == VariableByteInteger[n]
  IN  /\ Len(bytes) = k
      /\ \A i \in 1..(k - 1) : More(bytes[i])
      /\ ~More(bytes[k])
      /\ IntegerValue(bytes, 0, k) = n

\* An integer that has k digits reads back as its value.
LEMMA DigitsReadBack ==
  ASSUME NEW n \in Nat, NEW k \in 1..LengthBytes,
         k = 1 \/ Power(Base)[k - 1] <= n, n < Power(Base)[k]
  PROVE  ReadsBackAs(n, k)
<1> DEFINE p == Power(Base)
           HasLength(m, j) == (j = 1 \/ p[j - 1] <= m) /\ m < p[j]
           S == {j \in Nat : j + 1 \in 1..LengthBytes =>
                               \A m \in Nat : HasLength(m, j + 1) => ReadsBackAs(m, j + 1)}
<1>1. Base \in Nat \ {0, 1} /\ LengthBytes \in 1..4
  BY FramingAssumption
<1>2. p[0] = 1 /\ \A j \in Nat : p[j] \in Nat /\ p[j + 1] = Base * p[j]
  BY <1>1, PowerDef
<1>3. \A j \in Nat : 1 <= j => Base <= p[j]
  <2>1. p[0 + 1] = Base * p[0]
    BY <1>2
  <2>2. p[1] = Base
    BY <1>1, <1>2, <2>1
  <2> QED BY <1>1, <2>2, PowerMonotonic
<1> HIDE DEF p
<1>4. 0 \in S
  <2> SUFFICES ASSUME NEW m \in Nat, m < p[1] PROVE ReadsBackAs(m, 1)
    OBVIOUS
  <2>1. p[0 + 1] = Base * p[0]
    BY <1>2
  <2>2. m < Base
    BY <1>1, <1>2, <2>1
  <2>3. VariableByteInteger[m] = <<m>> /\ ~More(m) /\ Digit(m) = m
    BY <2>2, IntegerDef, DigitFacts
  <2>4. IntegerValue(<<m>>, 0, 1) = m + Base * (0 + Base * (0 + Base * 0))
    BY <2>3 DEF IntegerValue
  <2>5. IntegerValue(<<m>>, 0, 1) = m
    BY <1>1, <2>4
  <2> QED BY <2>3, <2>5 DEF ReadsBackAs
<1>5. ASSUME NEW j \in Nat, j \in S PROVE j + 1 \in S
  <2> SUFFICES ASSUME j + 2 \in 1..LengthBytes, NEW m \in Nat, HasLength(m, j + 2)
               PROVE  ReadsBackAs(m, j + 2)
    <3>1. (j + 1) + 1 = j + 2
      OBVIOUS
    <3> QED BY <3>1
  <2> DEFINE q == m \div Base
             d == Base + (m % Base)
             t == VariableByteInteger[q]
  <2>1. p[j + 1] <= m /\ m < p[j + 2]
    BY <1>5
  <2>2. p[j + 2] = Base * p[j + 1] /\ p[j + 1] = Base * p[j] /\ p[j + 1] \in Nat /\ p[j] \in Nat
    <3>1. p[(j + 1) + 1] = Base * p[j + 1]
      BY <1>2
    <3> QED BY <1>2, <3>1
  <2>3. Base <= m
    <3>1. Base <= p[j + 1]
      BY <1>3
    <3> QED BY <1>1, <2>1, <2>2, <3>1
  <2>4. q \in Nat /\ q < p[j + 1]
    BY <1>1, <2>1, <2>2, QuotientBelow, DivMod
  <2>5. p[j] <= q
    <3> SUFFICES ASSUME q < p[j] PROVE FALSE
      BY <2>2, <2>4
    <3>1. m < Base * p[j]
      BY <1>1, <2>2, QuotientBelow
    <3> QED BY <2>1, <2>2, <3>1
  <2>6. ReadsBackAs(q, j + 1)
    <3>1. HasLength(q, j + 1)
      BY <2>4, <2>5
    <3>2. j + 1 \in 1..LengthBytes
      BY <1>1
    <3> HIDE DEF q, HasLength
    <3> QED BY <1>5, <2>4, <3>1, <3>2
  <2>7. /\ VariableByteInteger[m] = <<d>> \o t
        /\ t \in Seq(Byte) /\ d \in Byte /\ More(d) /\ Digit(d) = m % Base
    <3>1. d \in Byte /\ More(d) /\ Digit(d) = m % Base
      BY DigitFacts
    <3>2. t \in Seq(Byte)
      BY <2>4, IntegerDef
    <3>3. ~(m < Base)
      BY <1>1, <2>3
    <3> QED BY <3>1, <3>2, <3>3, IntegerDef
  <2>8. m = Base * q + (m % Base) /\ m % Base \in Nat
    <3>1. m = Base * (m \div Base) + (m % Base) /\ m % Base \in 0..(Base - 1)
      BY <1>1, DivMod
    <3> DEFINE r == m % Base
    <3> HIDE DEF r
    <3>2. r \in 0..(Base - 1) => r \in Nat
      BY <1>1
    <3> QED BY <3>1, <3>2 DEF r
  <2> HIDE DEF q, d, t
  <2>9. /\ Len(t) = j + 1 /\ ~More(t[j + 1]) /\ IntegerValue(t, 0, j + 1) = q
        /\ \A i \in 1..j : More(t[i])
    BY <2>6 DEF ReadsBackAs, t
  <2> DEFINE s == <<d>> \o t
  <2>10. Len(s) = j + 2 /\ s[1] = d /\ \A i \in 1..(j + 1) : s[i + 1] = t[i]
    BY <2>7, <2>9
  <2>11. IntegerValue(s, 0, j + 2) = m
    <3>1. j + 1 \in 1..3 /\ (j + 1) + 1 = j + 2
      BY <1>1
    <3>2. IntegerValue(s, 0, (j + 1) + 1) = Digit(d) + Base * IntegerValue(t, 0, j + 1)
      BY <2>7, <2>9, <3>1, ValueOfRest
    <3>3. Base * q \in Int
      BY <1>1, <2>4
    <3> QED BY <2>7, <2>8, <2>9, <3>1, <3>2, <3>3
  <2> HIDE DEF s
  <2>12. \A i \in 1..(j + 1) : More(s[i])
    <3> SUFFICES ASSUME NEW i \in 1..(j + 1) PROVE More(s[i])
      OBVIOUS
    <3>1. CASE i = 1
      BY <2>7, <2>10, <3>1
    <3>2. CASE i # 1
      <4>1. i - 1 \in 1..j /\ (i - 1) + 1 = i
        BY <3>2
      <4>2. s[i] = t[i - 1]
        BY <2>10, <4>1
      <4> QED BY <2>9, <4>1, <4>2
    <3> QED BY <3>1, <3>2
  <2>13. ~More(s[j + 2])
    <3>1. j + 1 \in 1..(j + 1) /\ (j + 1) + 1 = j + 2
      OBVIOUS
    <3> QED BY <2>9, <2>10, <3>1
  <2>14. VariableByteInteger[m] = s /\ (j + 2) - 1 = j + 1
    BY <2>7 DEF s
  <2> QED BY <2>10, <2>11, <2>12, <2>13, <2>14 DEF ReadsBackAs
<1>6. k - 1 \in S
  <2>1. k - 1 \in Nat
    BY <1>1
  <2> HIDE DEF S
  <2> QED BY <1>4, <1>5, <2>1, NatSteps
<1>7. HasLength(n, k)
  BY DEF p
<1>8. (k - 1) + 1 = k
  BY <1>1
<1> QED BY <1>6, <1>7, <1>8

\* finalizeMessage reserves lengthVariableByteInteger bytes for the length, and
\* reading finds it in exactly these: for every length that can be written.
THEOREM LengthReadsBack ==
  \A n \in 0..MaxLength :
    /\ LengthVariableByteInteger(n) \in 1..LengthBytes
    /\ ReadsBackAs(n, LengthVariableByteInteger(n))
<1> SUFFICES ASSUME NEW n \in 0..MaxLength
             PROVE  /\ LengthVariableByteInteger(n) \in 1..LengthBytes
                    /\ ReadsBackAs(n, LengthVariableByteInteger(n))
  OBVIOUS
<1>1. n \in Nat
  OBVIOUS
<1>2. CASE n = 0
  <2>1. LengthVariableByteInteger(n) = 1
    BY <1>2 DEF LengthVariableByteInteger
  <2>2. 1 \in 1..LengthBytes /\ n < Power(Base)[1]
    <3>1. Base \in Nat /\ 0 + 1 = 1
      BY FramingAssumption
    <3>2. Power(Base)[0] = 1 /\ Power(Base)[0 + 1] = Base * Power(Base)[0]
      BY <3>1, PowerDef
    <3> QED BY <1>2, <3>1, <3>2, FramingAssumption
  <2> QED BY <1>1, <2>1, <2>2, DigitsReadBack
<1>3. CASE n # 0
  <2>1. PICK k \in 1..LengthBytes : Power(Base)[k - 1] <= n /\ n < Power(Base)[k]
    BY <1>3, HasDigits
  <2>2. LengthVariableByteInteger(n) = k
    BY <1>1, <1>3, <2>1, LengthIsDigits
  <2> QED BY <1>1, <2>1, <2>2, DigitsReadBack
<1> QED BY <1>2, <1>3

\* What was read back is what the invariant of the run asks for: no other length
\* is found, and an integer that is cut off is neither read nor malformed.
LEMMA ReadBackIsExact ==
  ASSUME NEW n \in Nat, NEW k \in 1..LengthBytes, ReadsBackAs(n, k)
  PROVE  LET bytes == VariableByteInteger[n]
         IN  /\ {j \in 1..LengthBytes : IntegerAt(bytes, 0, j)} = {k}
             /\ \A cut \in 0..(k - 1) :
                  LET s == SubSeq(<<0>> \o bytes, 1, cut + 1)
                  IN  ~HeaderRead(s, 0) /\ ~Malformed(s, 0)
<1> DEFINE bytes == VariableByteInteger[n]
<1>1. bytes \in Seq(Byte) /\ Len(bytes) = k /\ \A i \in 1..(k - 1) : More(bytes[i])
  BY IntegerDef DEF ReadsBackAs
<1>2. ~More(bytes[k])
  BY DEF ReadsBackAs
<1>3. k \in Nat \ {0} /\ LengthBytes \in Nat /\ k <= LengthBytes /\ Byte \subseteq Nat
  BY FramingAssumption, DigitFacts
<1> HIDE DEF bytes
<1>4. {j \in 1..LengthBytes : IntegerAt(bytes, 0, j)} = {k}
  <2>1. IntegerAt(bytes, 0, k)
    BY <1>1, <1>2, <1>3 DEF IntegerAt
  <2>2. ASSUME NEW j \in 1..LengthBytes, IntegerAt(bytes, 0, j) PROVE j = k
    <3>1. j <= k /\ ~More(bytes[j])
      BY <1>1, <1>3, <2>2 DEF IntegerAt
    <3>2. j \notin 1..(k - 1)
      BY <1>1, <3>1
    <3> QED BY <1>3, <3>1, <3>2
  <2> QED BY <2>1, <2>2
<1>5. ASSUME NEW cut \in 0..(k - 1)
      PROVE  LET s == SubSeq(<<0>> \o bytes, 1, cut + 1)
             IN  ~HeaderRead(s, 0) /\ ~Malformed(s, 0)
  <2> DEFINE whole == <<0>> \o bytes
             s == SubSeq(whole, 1, cut + 1)
  <2>1. 0 \in Byte
    BY FramingAssumption DEF Byte
  <2>2. /\ whole \in Seq(Byte) /\ Len(whole) = k + 1
        /\ \A i \in 1..k : whole[i + 1] = bytes[i]
    BY <1>1, <2>1, InFront
  <2> HIDE DEF whole
  <2>3. Len(s) = cut + 1 /\ \A i \in 1..(cut + 1) : s[i] = whole[i]
    BY <1>3, <2>2
  <2>4. \A i \in 1..cut : More(s[i + 1])
    <3> SUFFICES ASSUME NEW i \in 1..cut PROVE More(s[i + 1])
      OBVIOUS
    <3>1. i \in 1..(k - 1) /\ i \in 1..k /\ i + 1 \in 1..(cut + 1)
      BY <1>3
    <3>2. s[i + 1] = bytes[i]
      BY <2>2, <2>3, <3>1
    <3> QED BY <1>1, <3>1, <3>2
  <2> HIDE DEF s
  <2>5. ASSUME NEW j \in 1..LengthBytes, IntegerAt(s, 1, j) PROVE FALSE
    <3>1. 1 + j <= cut + 1 /\ ~More(s[1 + j])
      BY <2>3, <2>5 DEF IntegerAt
    <3>2. j \in 1..cut /\ 1 + j = j + 1
      BY <3>1
    <3> QED BY <2>4, <3>1, <3>2
  <2>6. ~HeaderRead(s, 0)
    <3>1. 0 + 1 = 1
      OBVIOUS
    <3> QED BY <2>5, <3>1 DEF HeaderRead
  <2>7. ~Malformed(s, 0)
    BY <1>3, <2>3 DEF Malformed
  <2> QED BY <2>6, <2>7 DEF s, whole
<1> QED BY <1>4, <1>5 DEF bytes

-----------------------------------------------------------------------------
(* The run of MCPacketFraming, for any reach.                              *)

\* Every integer the specification may hold is one that can be written, so it
\* reads back (IntegerReadsBack).
THEOREM IntegersReadBack == MCSpec => []IntegerReadsBack
<1> DEFINE Inv == number \in 0..MaxLength
<1>1. MCInit => Inv
  BY DEF MCInit, Around
<1>2. Inv /\ [MCNext]_number => Inv'
  BY DEF MCNext
<1>3. Inv => IntegerReadsBack
  <2> SUFFICES ASSUME Inv PROVE IntegerReadsBack
    OBVIOUS
  <2> DEFINE k == LengthVariableByteInteger(number)
  <2>1. number \in Nat /\ k \in 1..LengthBytes /\ ReadsBackAs(number, k)
    BY LengthReadsBack
  <2>2. /\ {j \in 1..LengthBytes : IntegerAt(VariableByteInteger[number], 0, j)} = {k}
        /\ \A cut \in 0..(k - 1) :
             LET s == SubSeq(<<0>> \o VariableByteInteger[number], 1, cut + 1)
             IN  ~HeaderRead(s, 0) /\ ~Malformed(s, 0)
    <3> HIDE DEF k
    <3> QED BY <2>1, ReadBackIsExact
  <2>3. /\ Len(VariableByteInteger[number]) = k
        /\ IntegerValue(VariableByteInteger[number], 0, k) = number
    BY <2>1 DEF ReadsBackAs
  <2> QED
    BY <2>2, <2>3, Zenon DEF IntegerReadsBack
<1> QED BY <1>1, <1>2, <1>3, PTL DEF MCSpec

-----------------------------------------------------------------------------
(* The buffer.                                                             *)

\* A new buffer has the bytes of the old one and is large enough.
LEMMA EnsuredFacts ==
  ASSUME NEW b \in Seq(Byte), NEW p \in Nat, NEW n \in Nat
  PROVE  /\ Ensured(b, p, n) \in Seq(Byte)
         /\ Len(Ensured(b, p, n)) >= p + n
         /\ Len(Ensured(b, p, n)) >= Len(b)
         /\ \A i \in 1..Len(b) : Ensured(b, p, n)[i] = b[i]
<1>1. CASE ~(Len(b) < p + n)
  BY <1>1 DEF Ensured
<1>2. CASE Len(b) < p + n
  <2> DEFINE k == (p + n) * 2 - Len(b)
             z == Zeros(k)
  <2>1. k \in Nat /\ (p + n) * 2 \in Nat
    BY <1>2
  <2>2. 0 \in Byte
    BY FramingAssumption DEF Byte
  <2> HIDE DEF k
  <2>3. z \in Seq(Byte) /\ Len(z) = k
    BY <2>1, <2>2 DEF Zeros
  <2> HIDE DEF z
  <2>4. b \o z \in Seq(Byte) /\ Len(b \o z) = Len(b) + k /\ \A i \in 1..Len(b) : (b \o z)[i] = b[i]
    BY <2>1, <2>3
  <2>5. Len(b) + k = (p + n) * 2
    BY DEF k
  <2>6. Ensured(b, p, n) = b \o z
    BY <1>2 DEF Ensured, Resized, z, k
  <2> QED BY <1>2, <2>1, <2>4, <2>5, <2>6
<1> QED BY <1>1, <1>2

\* The bytes written are at their place, and the others are as they were.
LEMMA OverwrittenFacts ==
  ASSUME NEW b \in Seq(Byte), NEW p \in Nat, NEW v \in Seq(Byte), p + Len(v) <= Len(b)
  PROVE  /\ Overwritten(b, p, v) \in Seq(Byte)
         /\ Len(Overwritten(b, p, v)) = Len(b)
         /\ \A i \in 1..Len(b) : i \notin (p + 1)..(p + Len(v)) => Overwritten(b, p, v)[i] = b[i]
         /\ \A j \in 1..Len(v) : Overwritten(b, p, v)[p + j] = v[j]
<1> DEFINE e(i) == IF i \in (p + 1)..(p + Len(v)) THEN v[i - p] ELSE b[i]
           o == [i \in 1..Len(b) |-> e(i)]
<1>1. \A i \in 1..Len(b) : e(i) \in Byte
  OBVIOUS
<1>2. \A i \in 1..Len(b) : i \notin (p + 1)..(p + Len(v)) => e(i) = b[i]
  OBVIOUS
<1>3. \A j \in 1..Len(v) : p + j \in 1..Len(b) /\ e(p + j) = v[j]
  OBVIOUS
<1> HIDE DEF e
<1>4. o \in Seq(Byte) /\ Len(o) = Len(b) /\ \A i \in 1..Len(b) : o[i] = e(i)
  BY <1>1
<1>5. Overwritten(b, p, v) = o
  BY Zenon DEF Overwritten, e
<1> HIDE DEF o
<1> QED BY <1>2, <1>3, <1>4, <1>5

\* addArray: the same in a buffer that is grown first.
LEMMA PutFacts ==
  ASSUME NEW b \in Seq(Byte), NEW p \in Nat, NEW v \in Seq(Byte)
  PROVE  /\ Put(b, p, v) \in Seq(Byte)
         /\ Len(Put(b, p, v)) >= Len(b) /\ Len(Put(b, p, v)) >= p + Len(v)
         /\ \A i \in 1..Len(b) : i \notin (p + 1)..(p + Len(v)) => Put(b, p, v)[i] = b[i]
         /\ \A j \in 1..Len(v) : Put(b, p, v)[p + j] = v[j]
<1> DEFINE e == Ensured(b, p, Len(v))
<1>1. /\ e \in Seq(Byte) /\ Len(e) >= p + Len(v) /\ Len(e) >= Len(b)
      /\ \A i \in 1..Len(b) : e[i] = b[i]
  BY EnsuredFacts
<1> HIDE DEF e
<1>2. /\ Overwritten(e, p, v) \in Seq(Byte) /\ Len(Overwritten(e, p, v)) = Len(e)
      /\ \A i \in 1..Len(e) : i \notin (p + 1)..(p + Len(v)) => Overwritten(e, p, v)[i] = e[i]
      /\ \A j \in 1..Len(v) : Overwritten(e, p, v)[p + j] = v[j]
  BY <1>1, OverwrittenFacts
<1>3. Put(b, p, v) = Overwritten(e, p, v)
  BY DEF Put, e
<1>4. \A i \in 1..Len(b) : i \in 1..Len(e)
  BY <1>1
<1> QED BY <1>1, <1>2, <1>3, <1>4


-----------------------------------------------------------------------------
(* The length in front of a string.                                        *)

\* setUint16 writes PrefixBytes bytes, and those of a number they can hold are the
\* number.
LEMMA PrefixFacts ==
  ASSUME NEW n \in Nat
  PROVE  /\ LengthPrefix(n) \in Seq(Byte) /\ Len(LengthPrefix(n)) = PrefixBytes
         /\ n < Power(2 * Base)[PrefixBytes] => TrueLength(n) = LengthPrefix(n)
<1> DEFINE B == 2 * Base
           p == Power(B)
           e(i) == (n \div p[PrefixBytes - i]) % B
           l == [i \in 1..PrefixBytes |-> e(i)]
<1>1. B \in Nat \ {0} /\ PrefixBytes \in Nat \ {0} /\ Byte = 0..(B - 1)
  BY FramingAssumption, WriterAssumption DEF Byte
<1>2. \A k \in Nat : p[k] \in Nat \ {0} /\ p[k + 1] = B * p[k]
  <2>1. \A k \in Nat : p[k + 1] = B * p[k]
    BY <1>1, PowerDef
  <2>2. \A k \in Nat : p[k] \in Nat \ {0}
    BY <1>1, PowerMonotonic
  <2> QED BY <2>1, <2>2
<1> HIDE DEF B, p
<1>3. \A i \in 1..PrefixBytes : n \div p[PrefixBytes - i] \in Nat /\ e(i) \in Byte
  <2> SUFFICES ASSUME NEW i \in 1..PrefixBytes
               PROVE  n \div p[PrefixBytes - i] \in Nat /\ e(i) \in Byte
    OBVIOUS
  <2>1. PrefixBytes - i \in Nat
    BY <1>1
  <2>2. n \div p[PrefixBytes - i] \in Nat
    BY <1>2, <2>1, DivMod
  <2> QED BY <1>1, <2>2, DivMod
<1> HIDE DEF e
<1>4. l \in Seq(Byte) /\ Len(l) = PrefixBytes /\ \A i \in 1..PrefixBytes : l[i] = e(i)
  BY <1>1, <1>3
<1>5. LengthPrefix(n) = l
  BY DEF LengthPrefix, e, B, p
<1>6. ASSUME n < p[PrefixBytes] PROVE TrueLength(n) = l
  <2> DEFINE q == n \div p[PrefixBytes - 1]
  <2>1. PrefixBytes - 1 \in Nat /\ (PrefixBytes - 1) + 1 = PrefixBytes
    BY <1>1
  <2>2. p[PrefixBytes] = B * p[PrefixBytes - 1] /\ p[PrefixBytes - 1] \in Nat \ {0}
    BY <1>2, <2>1
  <2>3. n < p[PrefixBytes - 1] * B
    BY <1>1, <1>6, <2>2
  <2>4. q \in Nat /\ q < B
    BY <1>1, <2>2, <2>3, QuotientBelow, DivMod
  <2>5. TrueLength(n) = [l EXCEPT ![1] = q]
    BY <1>5 DEF TrueLength, p, B
  <2>6. e(1) = q % B
    BY DEF e
  <2> HIDE DEF q
  <2>7. q = B * 0 + q /\ q \in 0..(B - 1) /\ 0 \in Nat
    BY <1>1, <2>4
  <2>8. e(1) = q
    BY <1>1, <2>4, <2>6, <2>7, DivModUnique
  <2>9. 1 \in 1..PrefixBytes /\ l[1] = q
    BY <1>1, <1>4, <2>8
  <2> HIDE DEF l
  <2>10. [l EXCEPT ![1] = q] = l
    BY <1>4, <2>9
  <2> QED BY <2>5, <2>10
<1> QED BY <1>4, <1>5, <1>6 DEF p, B

-----------------------------------------------------------------------------
(* The bytes of a string.                                                  *)

\* FlattenSeq concatenates sequences of bytes to a sequence of bytes.
LEMMA FlattenFacts ==
  ASSUME NEW seqs \in Seq(Seq(Byte))
  PROVE  /\ FlattenSeq(seqs) \in Seq(Byte)
         /\ seqs = <<>> => FlattenSeq(seqs) = <<>>
<1> DEFINE D == 1..Len(seqs)
           V == Seq(Byte)
           Value(g, i) == IF i = 1 THEN seqs[i] ELSE g[i - 1] \o seqs[i]
           Eqn(g) == g = [i \in D |-> Value(g, i)]
           init == [i \in D |-> seqs[i]]
           prev == [i \in D |-> IF i = 1 THEN 1 ELSE i - 1]
           rank == [i \in D |-> i]
           step == [d \in D \X V |-> d[2] \o seqs[d[1]]]
           f == CHOOSE g : Eqn(g)
<1>1. CASE Len(seqs) = 0
  <2>1. seqs = <<>> /\ FlattenSeq(seqs) = seqs
    BY <1>1 DEF FlattenSeq
  <2>2. <<>> \in Seq(Byte)
    OBVIOUS
  <2> QED BY <2>1, <2>2, Zenon
<1>2. CASE Len(seqs) # 0
  <2>1. FlattenSeq(seqs) = f[Len(seqs)]
    BY <1>2, Zenon DEF FlattenSeq
  <2>2. \A i \in D : seqs[i] \in V /\ i \in Nat /\ (i # 1 => i - 1 \in D)
    OBVIOUS
  <2>3. PICK g \in [D -> V] : \A i \in D : Follows(g, {1}, init, prev, step, i)
    <3>1. /\ rank \in [D -> Nat] /\ init \in [D -> V] /\ prev \in [D -> D] /\ <<>> \in V
          /\ \A i \in D : i \notin {1} => rank[prev[i]] < rank[i]
      BY <2>2
    <3>2. step \in [D \X V -> V]
      <4>1. ASSUME NEW i \in D, NEW w \in V PROVE w \o seqs[i] \in V
        BY <2>2
      <4> HIDE DEF D, V
      <4>2. \A d \in D \X V : d[2] \o seqs[d[1]] \in V
        BY <4>1
      <4> QED BY <4>2
    <3> HIDE DEF D, V, init, prev, step, rank
    <3> QED BY <3>1, <3>2, Recursion, ZenonT(30)
  <2>4. \A i \in D : g[i] = Value(g, i)
    <3> SUFFICES ASSUME NEW i \in D PROVE g[i] = Value(g, i)
      OBVIOUS
    <3>1. Follows(g, {1}, init, prev, step, i)
      BY <2>3
    <3>2. CASE i = 1
      BY <3>1, <3>2 DEF Follows
    <3>3. CASE i # 1
      <4>1. i - 1 \in D /\ prev[i] = i - 1 /\ g[i - 1] \in V
        BY <2>2, <3>3
      <4>2. g[i] = step[<<i, g[i - 1]>>]
        <5> HIDE DEF step, init
        <5> QED BY <3>1, <3>3, <4>1 DEF Follows
      <4> QED BY <3>3, <4>1, <4>2
    <3> QED BY <3>2, <3>3
  <2>5. Eqn(g)
    <3> HIDE DEF D, V, Value
    <3> QED BY <2>4
  <2>6. Eqn(f)
    <3> HIDE DEF Eqn
    <3> QED BY <2>5, Zenon
  <2> HIDE DEF f
  <2>7. \A i \in D : f[i] = Value(f, i)
    <3> HIDE DEF D, Value
    <3> QED BY <2>6
  <2>8. \A i \in D : f[i] \in V
    <3> DEFINE S == {i \in Nat : i + 1 \in D => f[i + 1] \in V}
    <3>1. 0 \in S
      BY <2>2, <2>7
    <3>2. ASSUME NEW i \in Nat, i \in S PROVE i + 1 \in S
      <4> SUFFICES ASSUME (i + 1) + 1 \in D PROVE f[(i + 1) + 1] \in V
        OBVIOUS
      <4>1. i + 1 \in D /\ (i + 1) + 1 # 1 /\ ((i + 1) + 1) - 1 = i + 1
        OBVIOUS
      <4>2. f[i + 1] \in V
        BY <3>2, <4>1
      <4>3. f[(i + 1) + 1] = f[i + 1] \o seqs[(i + 1) + 1]
        BY <2>7, <4>1
      <4>4. seqs[(i + 1) + 1] \in V
        BY <2>2
      <4> HIDE DEF D
      <4> QED BY <4>2, <4>3, <4>4
    <3>3. \A i \in Nat : i \in S
      <4> HIDE DEF S
      <4> QED BY <3>1, <3>2, NatSteps
    <3>4. \A i \in D : i - 1 \in Nat /\ (i - 1) + 1 = i
      OBVIOUS
    <3> HIDE DEF D, V
    <3> QED BY <3>3, <3>4
  <2>9. Len(seqs) \in D
    BY <1>2
  <2> QED BY <1>2, <2>1, <2>8, <2>9
<1> QED BY <1>1, <1>2

\* A string is encoded as bytes, the empty one as none.
LEMMA EncodedFacts ==
  ASSUME NEW str \in Seq(1..3)
  PROVE  Encoded(str) \in Seq(Byte) /\ (str = <<>> => Encoded(str) = <<>>)
<1> DEFINE e(i) == [j \in 1..str[i] |-> str[i]]
           seqs == [i \in 1..Len(str) |-> e(i)]
<1>1. \A i \in 1..Len(str) : e(i) \in Seq(Byte)
  <2> SUFFICES ASSUME NEW i \in 1..Len(str) PROVE e(i) \in Seq(Byte)
    OBVIOUS
  <2> DEFINE w == str[i]
  <2>1. w \in 1..3 /\ w \in Byte
    BY WriterAssumption, FramingAssumption DEF Byte
  <2> HIDE DEF w
  <2>2. [j \in 1..w |-> w] \in Seq(Byte)
    BY <2>1
  <2> QED BY <2>2 DEF w
<1> HIDE DEF e
<1>2. seqs \in Seq(Seq(Byte)) /\ Len(seqs) = Len(str)
  BY <1>1
<1>3. Encoded(str) = FlattenSeq(seqs)
  BY DEF Encoded, e
<1>4. str = <<>> => seqs = <<>>
  BY <1>2
<1> HIDE DEF seqs
<1> QED BY <1>2, <1>3, <1>4, FlattenFacts

\* encodeInto writes no more than there is room for.
LEMMA FittingFacts ==
  ASSUME NEW str \in Seq(1..3), NEW room \in Nat
  PROVE  /\ Fitting(str, room) \in Seq(1..3)
         /\ Len(Encoded(Fitting(str, room))) <= room
<1> DEFINE Part(m) == SubSeq(str, 1, m)
           fits == {m \in 0..Len(str) : Len(Encoded(Part(m))) <= room}
           T == {k \in Nat : k <= Len(str) /\ Len(str) - k \in fits}
<1>1. \A m \in 0..Len(str) : Part(m) \in Seq(1..3)
  <2> SUFFICES ASSUME NEW m \in 0..Len(str) PROVE Part(m) \in Seq(1..3)
    OBVIOUS
  <2>1. m \in 0..Len(str) /\ 0 \in Nat /\ 0 + 1 = 1
    OBVIOUS
  <2> QED BY <2>1, PartFacts
<1>2. 0 \in fits
  <2>1. Part(0) = <<>> /\ 0 \in 0..Len(str)
    OBVIOUS
  <2>2. Part(0) \in Seq(1..3)
    BY <1>1, <2>1
  <2> DEFINE w == Part(0)
  <2> HIDE DEF w
  <2>3. Encoded(w) = <<>>
    BY <2>1, <2>2, EncodedFacts DEF w
  <2>4. Len(Encoded(w)) <= room
    BY <2>3
  <2> QED BY <2>1, <2>4 DEF w
<1>3. fits \subseteq 0..Len(str) /\ Len(str) \in Nat
  OBVIOUS
<1> HIDE DEF fits
<1>4. PICK k \in T : \A j \in T : k <= j
  <2>1. T \in SUBSET Nat /\ Len(str) \in T
    BY <1>2, <1>3
  <2> HIDE DEF T
  <2> QED BY <2>1, LeastNat
<1>5. ASSUME NEW m \in fits PROVE Len(str) - k >= m
  <2>1. m \in Int /\ Len(str) - m \in T
    BY <1>3
  <2> QED BY <1>3, <1>4, <2>1
<1>6. Len(str) - k \in fits
  BY <1>4
<1>7. Max(fits) \in fits
  BY <1>5, <1>6 DEF Max
<1>8. Fitting(str, room) = Part(Max(fits))
  BY DEF Fitting, fits
<1>9. Len(Encoded(Part(Max(fits)))) <= room
  BY <1>7 DEF fits
<1> QED BY <1>1, <1>3, <1>7, <1>8, <1>9

-----------------------------------------------------------------------------
(* The packet.                                                             *)

\* The bytes of a head, the length of a body and the body are one packet for
\* readFixedHeader, and its head and body are those.
LEMMA PacketIsRead ==
  ASSUME NEW s \in Seq(Byte), NEW head \in Byte, NEW w \in Seq(Byte),
         NEW k \in 1..LengthBytes, ReadsBackAs(Len(w), k),
         Len(s) = 1 + k + Len(w), s[1] = head,
         \A i \in 1..k : s[1 + i] = VariableByteInteger[Len(w)][i],
         \A i \in 1..Len(w) : s[1 + k + i] = w[i]
  PROVE  /\ Whole(s, 0) /\ FrameEnd(s, 0) = Len(s)
         /\ Frame(s, 0) = [head |-> head, body |-> w]
<1> DEFINE v == VariableByteInteger[Len(w)]
<1>1. k \in Nat /\ k <= LengthBytes /\ LengthBytes \in 1..4 /\ k >= 1 /\ Len(w) \in Nat
  BY FramingAssumption
<1>2. /\ Len(v) = k /\ ~More(v[k]) /\ IntegerValue(v, 0, k) = Len(w)
      /\ \A i \in 1..(k - 1) : More(v[i])
  BY DEF ReadsBackAs
<1>3. \A i \in 1..k : s[1 + i] = v[i]
  OBVIOUS
<1> HIDE DEF v
<1>4. IntegerAt(s, 1, k)
  BY <1>1, <1>2, <1>3 DEF IntegerAt
<1>5. ASSUME NEW j \in 1..LengthBytes, IntegerAt(s, 1, j) PROVE j = k
  <2>1. ~More(s[1 + j]) /\ \A i \in 1..(j - 1) : More(s[1 + i])
    BY <1>5 DEF IntegerAt
  <2>2. ~(j < k)
    <3> SUFFICES ASSUME j < k PROVE FALSE
      OBVIOUS
    <3>1. j \in 1..(k - 1) /\ j \in 1..k
      BY <1>1
    <3> QED BY <1>2, <1>3, <2>1, <3>1
  <2>3. ~(k < j)
    <3> SUFFICES ASSUME k < j PROVE FALSE
      OBVIOUS
    <3>1. k \in 1..(j - 1) /\ k \in 1..k
      BY <1>1
    <3> QED BY <1>2, <1>3, <2>1, <3>1
  <2> QED BY <1>1, <2>2, <2>3
<1>6. IntegerLength(s, 1) = k
  BY <1>4, <1>5, Zenon DEF IntegerLength
<1>7. IntegerValue(s, 1, k) = Len(w)
  <2> DEFINE x(i) == IF i <= k THEN Digit(s[1 + i]) ELSE 0
             y(i) == IF i <= k THEN Digit(v[0 + i]) ELSE 0
  <2>1. /\ IntegerValue(s, 1, k) = x(1) + Base * (x(2) + Base * (x(3) + Base * x(4)))
        /\ IntegerValue(v, 0, k) = y(1) + Base * (y(2) + Base * (y(3) + Base * y(4)))
    BY DEF IntegerValue
  <2>2. ASSUME NEW i \in 1..4 PROVE x(i) = y(i)
    <3>1. CASE i <= k
      <4>1. i \in 1..k /\ 0 + i = i
        BY <3>1
      <4>2. s[1 + i] = v[0 + i]
        BY <1>3, <4>1
      <4> QED BY <4>2
    <3>2. CASE ~(i <= k)
      BY <3>2
    <3> QED BY <3>1, <3>2
  <2> HIDE DEF x, y
  <2>3. x(1) = y(1) /\ x(2) = y(2) /\ x(3) = y(3) /\ x(4) = y(4)
    BY <2>2
  <2> QED BY <1>2, <2>1, <2>3
<1>8. 0 + 1 = 1
  OBVIOUS
<1>9. FrameEnd(s, 0) = Len(s)
  BY <1>1, <1>6, <1>7, <1>8 DEF FrameEnd
<1>10. Whole(s, 0)
  <2>1. HeaderRead(s, 0)
    BY <1>4, <1>8 DEF HeaderRead
  <2> QED BY <1>9, <2>1 DEF Whole
<1>11. SubSeq(s, 2 + k, Len(s)) = w
  <2>1. 1 + k \in Nat /\ (1 + k) + Len(w) = Len(s) /\ (1 + k) + 1 = 2 + k
    BY <1>1
  <2>2. SubSeq(s, (1 + k) + 1, (1 + k) + Len(w)) = w
    BY <2>1, PartIs
  <2> QED BY <2>1, <2>2
<1>12. Frame(s, 0) = [head |-> head, body |-> w]
  <2>1. 0 + 2 + IntegerLength(s, 0 + 1) = 2 + k
    BY <1>1, <1>6, <1>8
  <2> QED BY <1>8, <1>9, <1>11, <2>1 DEF Frame
<1> QED BY <1>9, <1>10, <1>12

\* The header is written into the reserved bytes, and what is copied out of the
\* buffer is one packet for the reader.
LEMMA FinalizedReadsBack ==
  ASSUME NEW b \in Seq(Byte), NEW w \in Seq(Byte), NEW head \in Byte,
         HeaderSpace + Len(w) <= Len(b), Len(w) <= MaxLength,
         \A i \in 1..Len(w) : b[HeaderSpace + i] = w[i]
  PROVE  LET size  == Len(w)
             start == HeaderSpace - 1 - LengthVariableByteInteger(size)
             out   == Put(b, start, <<head>> \o VariableByteInteger[size])
             s     == SubSeq(out, start + 1, HeaderSpace + size)
         IN  /\ out \in Seq(Byte) /\ Len(out) >= Len(b)
             /\ Whole(s, 0) /\ FrameEnd(s, 0) = Len(s)
             /\ Frame(s, 0) = [head |-> head, body |-> w]
<1> DEFINE size  == Len(w)
           k     == LengthVariableByteInteger(size)
           start == HeaderSpace - 1 - k
           v     == VariableByteInteger[size]
           h     == <<head>> \o v
           out   == Put(b, start, h)
           s     == SubSeq(out, start + 1, HeaderSpace + size)
<1>1. size \in 0..MaxLength /\ size \in Nat
  <2>1. Power(Base)[LengthBytes] \in Nat
    <3>1. Base \in Nat /\ LengthBytes \in Nat
      BY FramingAssumption
    <3> QED BY <3>1, PowerDef
  <2>2. MaxLength \in Int
    BY <2>1 DEF MaxLength
  <2> QED BY <2>2
<1>2. k \in 1..LengthBytes /\ ReadsBackAs(size, k)
  BY <1>1, LengthReadsBack
<1>3. v \in Seq(Byte) /\ Len(v) = k
  BY <1>1, <1>2, IntegerDef DEF ReadsBackAs
<1> HIDE DEF size, k, v
<1>4. /\ HeaderSpace = LengthBytes + 1 /\ LengthBytes \in Nat /\ k \in Nat
      /\ k <= LengthBytes /\ start = LengthBytes - k
  BY <1>2, FramingAssumption DEF HeaderSpace
<1>5. h \in Seq(Byte) /\ Len(h) = 1 + k /\ h[1] = head /\ \A i \in 1..k : h[i + 1] = v[i]
  BY <1>3, <1>4, InFront
<1> HIDE DEF h
<1>6. start \in Nat /\ start + Len(h) = HeaderSpace
  BY <1>4, <1>5
<1> HIDE DEF start
<1>7. /\ out \in Seq(Byte) /\ Len(out) >= Len(b)
      /\ \A i \in 1..Len(b) : i \notin (start + 1)..(start + Len(h)) => out[i] = b[i]
      /\ \A j \in 1..Len(h) : out[start + j] = h[j]
  BY <1>5, <1>6, PutFacts
<1> HIDE DEF out
<1>8. /\ s \in Seq(Byte) /\ Len(s) = (HeaderSpace + size) - start
      /\ \A i \in 1..((HeaderSpace + size) - start) : s[i] = out[start + i]
  <2>1. HeaderSpace + size \in start..Len(out)
    BY <1>1, <1>4, <1>5, <1>6, <1>7 DEF size
  <2>2. ASSUME NEW e \in start..Len(out)
        PROVE  /\ SubSeq(out, start + 1, e) \in Seq(Byte)
               /\ Len(SubSeq(out, start + 1, e)) = e - start
               /\ \A i \in 1..(e - start) : SubSeq(out, start + 1, e)[i] = out[start + i]
    BY <1>6, <1>7, PartFacts
  <2> QED BY <2>1, <2>2, Zenon
<1>9. (HeaderSpace + size) - start = 1 + k + size
  BY <1>1, <1>4, <1>5, <1>6
<1> HIDE DEF s
<1>10. s[1] = head
  <2>1. 1 \in 1..(1 + k + size) /\ 1 \in 1..Len(h)
    BY <1>1, <1>4, <1>5
  <2> QED BY <1>5, <1>7, <1>8, <1>9, <2>1
<1>11. \A i \in 1..k : s[1 + i] = v[i]
  <2> SUFFICES ASSUME NEW i \in 1..k PROVE s[1 + i] = v[i]
    OBVIOUS
  <2>1. 1 + i \in 1..(1 + k + size) /\ 1 + i \in 1..Len(h) /\ 1 + i = i + 1
    BY <1>1, <1>4, <1>5
  <2> QED BY <1>5, <1>7, <1>8, <1>9, <2>1
<1>12. \A i \in 1..size : s[1 + k + i] = w[i]
  <2> SUFFICES ASSUME NEW i \in 1..size PROVE s[1 + k + i] = w[i]
    OBVIOUS
  <2>1. 1 + k + i \in 1..(1 + k + size) /\ start + (1 + k + i) = HeaderSpace + i
    BY <1>1, <1>4, <1>5, <1>6
  <2>2. /\ HeaderSpace + i \in 1..Len(b)
        /\ HeaderSpace + i \notin (start + 1)..(start + Len(h))
    BY <1>1, <1>4, <1>6 DEF size
  <2>3. s[1 + k + i] = b[HeaderSpace + i]
    BY <1>7, <1>8, <1>9, <2>1, <2>2
  <2> QED BY <2>3 DEF size
<1>13. /\ Whole(s, 0) /\ FrameEnd(s, 0) = Len(s)
       /\ Frame(s, 0) = [head |-> head, body |-> w]
  <2>1. /\ ReadsBackAs(Len(w), k) /\ Len(s) = 1 + k + Len(w)
        /\ \A i \in 1..k : s[1 + i] = VariableByteInteger[Len(w)][i]
        /\ \A i \in 1..Len(w) : s[1 + k + i] = w[i]
    BY <1>2, <1>8, <1>9, <1>11, <1>12 DEF size, v
  <2> QED BY <1>2, <1>8, <1>10, <2>1, PacketIsRead
<1> QED BY <1>7, <1>13 DEF s, out, start, h, v, k, size

-----------------------------------------------------------------------------
(* The steps of the writer.                                                *)

\* The buffer b holds the bytes w behind the reserved ones.
Holds(b, w) ==
  /\ HeaderSpace + Len(w) <= Len(b)
  /\ \A i \in 1..Len(w) : b[HeaderSpace + i] = w[i]

\* The inductive invariant.  The position stays within the buffer when a packet is
\* given up, too: the next one is begun there.
WriterInv ==
  /\ buffer \in Seq(Byte)
  /\ body \in Seq(Byte)
  /\ limit \in 0..MaxLength
  /\ pos \in Nat /\ HeaderSpace <= pos /\ pos <= Len(buffer)
  /\ state = "writing" => pos = HeaderSpace + Len(body) /\ Holds(buffer, body)
  /\ PacketReadsBack

\* The reserved bytes and the largest length are numbers.
LEMMA SpaceFacts == HeaderSpace \in Nat /\ MaxLength \in Nat
<1>1. Base \in Nat \ {0} /\ LengthBytes \in Nat
  BY FramingAssumption
<1>2. Power(Base)[LengthBytes] \in Nat \ {0}
  BY <1>1, PowerMonotonic
<1> QED BY <1>1, <1>2 DEF HeaderSpace, MaxLength

\* Bytes put behind what the buffer holds are held, too.
LEMMA HoldsMore ==
  ASSUME NEW b \in Seq(Byte), NEW w \in Seq(Byte), NEW v \in Seq(Byte), Holds(b, w)
  PROVE  /\ Holds(Put(b, HeaderSpace + Len(w), v), w \o v)
         /\ Len(w \o v) = Len(w) + Len(v) /\ w \o v \in Seq(Byte)
<1> DEFINE p == HeaderSpace + Len(w)
           o == Put(b, p, v)
           u == w \o v
<1>1. HeaderSpace \in Nat /\ p \in Nat /\ p <= Len(b)
  BY SpaceFacts DEF Holds
<1>2. /\ o \in Seq(Byte) /\ Len(o) >= p + Len(v)
      /\ \A i \in 1..Len(b) : i \notin (p + 1)..(p + Len(v)) => o[i] = b[i]
      /\ \A j \in 1..Len(v) : o[p + j] = v[j]
  BY <1>1, PutFacts
<1>3. /\ u \in Seq(Byte) /\ Len(u) = Len(w) + Len(v)
      /\ \A i \in 1..Len(w) : u[i] = w[i]
      /\ \A j \in 1..Len(v) : u[Len(w) + j] = v[j]
  OBVIOUS
<1> HIDE DEF o, u
<1>4. ASSUME NEW i \in 1..Len(u) PROVE o[HeaderSpace + i] = u[i]
  <2>1. CASE i <= Len(w)
    <3>1. HeaderSpace + i \in 1..Len(b) /\ HeaderSpace + i \notin (p + 1)..(p + Len(v))
      BY <1>1, <2>1
    <3>2. i \in 1..Len(w)
      BY <2>1
    <3>3. b[HeaderSpace + i] = w[i]
      BY <3>2 DEF Holds
    <3> QED BY <1>2, <1>3, <3>1, <3>2, <3>3
  <2>2. CASE ~(i <= Len(w))
    <3> DEFINE j == i - Len(w)
    <3>1. j \in 1..Len(v) /\ p + j = HeaderSpace + i /\ Len(w) + j = i
      BY <1>1, <1>3, <2>2
    <3> HIDE DEF j
    <3> QED BY <1>2, <1>3, <3>1
  <2> QED BY <2>1, <2>2
<1>5. HeaderSpace + Len(u) <= Len(o)
  BY <1>1, <1>2, <1>3
<1> QED BY <1>3, <1>4, <1>5 DEF Holds, o, u

\* The first buffer, all zeros, has room for a header.
LEMMA InitInv == Init => WriterInv
<1> SUFFICES ASSUME Init PROVE WriterInv
  OBVIOUS
<1>1. buffer \in Seq(Byte) /\ Len(buffer) = BufferSize
  <2>1. 0 \in Byte /\ BufferSize \in Nat
    BY FramingAssumption, WriterAssumption DEF Byte
  <2> QED BY <2>1 DEF Init, Zeros
<1>2. HeaderSpace <= BufferSize /\ BufferSize \in Nat
  BY WriterAssumption
<1>3. limit \in 0..MaxLength
  BY SpaceFacts DEF Init
<1>4. PacketReadsBack
  BY DEF Init, PacketReadsBack
<1> QED
  BY <1>1, <1>2, <1>3, <1>4, SpaceFacts DEF Init, WriterInv

\* Bytes that are added are behind the body that is held, and leave it alone.
LEMMA AddArrayInv ==
  ASSUME WriterInv, NEW v \in Arrays, AddArray(v)
  PROVE  WriterInv'
<1>1. v \in Seq(Byte) /\ buffer \in Seq(Byte) /\ body \in Seq(Byte)
  BY WriterAssumption DEF WriterInv
<1>2. pos = HeaderSpace + Len(body) /\ Holds(buffer, body)
  BY DEF WriterInv, AddArray
<1>3. /\ Holds(buffer', body') /\ body' \in Seq(Byte)
      /\ Len(body') = Len(body) + Len(v) /\ pos' = pos + Len(v)
  BY <1>1, <1>2, HoldsMore DEF AddArray
<1>4. pos \in Nat /\ buffer' \in Seq(Byte)
  BY <1>1, PutFacts DEF AddArray, WriterInv
<1>5. pos' = HeaderSpace + Len(body')
  BY <1>1, <1>2, <1>3, SpaceFacts
<1>6. pos' \in Nat /\ HeaderSpace <= pos' /\ pos' <= Len(buffer')
  BY <1>3, <1>5, SpaceFacts DEF Holds
<1>7. limit' = limit /\ PacketReadsBack'
  BY DEF AddArray, WriterInv, PacketReadsBack
<1> QED
  BY <1>3, <1>4, <1>5, <1>6, <1>7 DEF WriterInv

\* The length of a string is put in front of the bytes that are already there.
LEMMA HoldsString ==
  ASSUME NEW b \in Seq(Byte), NEW w \in Seq(Byte), NEW l \in Seq(Byte), NEW u \in Seq(Byte),
         Holds(b, w), HeaderSpace + Len(w) + Len(l) + Len(u) <= Len(b),
         \A j \in 1..Len(u) : b[HeaderSpace + Len(w) + Len(l) + j] = u[j]
  PROVE  /\ Holds(Put(b, HeaderSpace + Len(w), l), w \o l \o u)
         /\ Len(w \o l \o u) = Len(w) + Len(l) + Len(u) /\ w \o l \o u \in Seq(Byte)
<1> DEFINE p == HeaderSpace + Len(w)
           o == Put(b, p, l)
           x == w \o l
           y == x \o u
<1>1. HeaderSpace \in Nat /\ p \in Nat
  BY SpaceFacts
<1>2. Holds(o, x) /\ Len(x) = Len(w) + Len(l) /\ x \in Seq(Byte)
  BY HoldsMore
<1>3. /\ Len(o) >= Len(b)
      /\ \A i \in 1..Len(b) : i \notin (p + 1)..(p + Len(l)) => o[i] = b[i]
  BY <1>1, PutFacts
<1> HIDE DEF o, x
<1>4. /\ y \in Seq(Byte) /\ Len(y) = Len(x) + Len(u)
      /\ \A i \in 1..Len(x) : y[i] = x[i]
      /\ \A j \in 1..Len(u) : y[Len(x) + j] = u[j]
  <2>1. x \in Seq(Byte) /\ u \in Seq(Byte)
    BY <1>2
  <2>2. x \o u \in Seq(Byte) /\ Len(x \o u) = Len(x) + Len(u)
    BY <2>1, JoinFacts
  <2>3. \A i \in 1..Len(x) : (x \o u)[i] = x[i]
    BY <2>1, JoinFacts
  <2>4. \A j \in 1..Len(u) : (x \o u)[Len(x) + j] = u[j]
    BY <2>1, JoinFacts
  <2> QED BY <2>2, <2>3, <2>4
<1> HIDE DEF y
<1>5. ASSUME NEW i \in 1..Len(y) PROVE o[HeaderSpace + i] = y[i]
  <2>1. CASE i <= Len(x)
    <3>1. i \in 1..Len(x)
      BY <2>1
    <3> QED BY <1>2, <1>4, <3>1 DEF Holds
  <2>2. CASE ~(i <= Len(x))
    <3> DEFINE j == i - Len(x)
    <3>1. j \in 1..Len(u) /\ Len(x) + j = i
      BY <1>2, <1>4, <2>2
    <3>2. /\ HeaderSpace + i = HeaderSpace + Len(w) + Len(l) + j
          /\ HeaderSpace + i \in 1..Len(b)
          /\ HeaderSpace + i \notin (p + 1)..(p + Len(l))
      BY <1>1, <1>2, <3>1
    <3> HIDE DEF j
    <3>3. o[HeaderSpace + i] = b[HeaderSpace + i]
      BY <1>3, <3>2
    <3>4. b[HeaderSpace + i] = u[j]
      BY <3>1, <3>2
    <3> QED BY <1>4, <3>1, <3>3, <3>4
  <2> QED BY <2>1, <2>2
<1>6. HeaderSpace + Len(y) <= Len(o)
  BY <1>1, <1>2, <1>3, <1>4
<1> QED BY <1>2, <1>4, <1>5, <1>6 DEF Holds, y, o, x

\* A string is added with its length, or is given up when its space is short.
LEMMA AddUTF8StringInv ==
  ASSUME WriterInv, NEW str \in Strings, AddUTF8String(str)
  PROVE  WriterInv'
<1> DEFINE n    == 3 * Len(str)
           e    == Ensured(buffer, pos, n)
           zero == Put(e, pos, LengthPrefix(0))
           at   == pos + PrefixBytes
           room == Len(zero) - at
           part == Fitting(str, room)
           utf8 == Encoded(part)
           text == Overwritten(zero, at, utf8)
           l    == LengthPrefix(Len(utf8))
           out  == Put(text, pos, l)
<1>1. /\ str \in Seq(1..3) /\ n \in Nat /\ PrefixBytes \in Nat \ {0}
      /\ buffer \in Seq(Byte) /\ body \in Seq(Byte) /\ pos \in Nat /\ HeaderSpace \in Nat
  BY WriterAssumption, SpaceFacts DEF WriterInv
<1>2. pos = HeaderSpace + Len(body) /\ Holds(buffer, body)
  BY DEF WriterInv, AddUTF8String
<1>3. e \in Seq(Byte) /\ Len(e) >= Len(buffer) /\ \A i \in 1..Len(buffer) : e[i] = buffer[i]
  BY <1>1, EnsuredFacts
<1> HIDE DEF e
<1>4. LengthPrefix(0) \in Seq(Byte) /\ Len(LengthPrefix(0)) = PrefixBytes
  BY PrefixFacts
<1>5. /\ zero \in Seq(Byte) /\ Len(zero) >= Len(e) /\ Len(zero) >= at
      /\ \A i \in 1..Len(e) : i \notin (pos + 1)..(pos + PrefixBytes) => zero[i] = e[i]
  BY <1>1, <1>3, <1>4, PutFacts
<1> HIDE DEF zero
<1>6. room \in Nat /\ at \in Nat
  BY <1>1, <1>5
<1>7. part \in Seq(1..3) /\ Len(utf8) <= room
  BY <1>1, <1>6, FittingFacts
<1>8. utf8 \in Seq(Byte)
  BY <1>7, EncodedFacts
<1> HIDE DEF part, utf8
<1>9. at + Len(utf8) <= Len(zero)
  BY <1>5, <1>6, <1>7, <1>8
<1>10. /\ text \in Seq(Byte) /\ Len(text) = Len(zero)
       /\ \A i \in 1..Len(zero) : i \notin (at + 1)..(at + Len(utf8)) => text[i] = zero[i]
       /\ \A j \in 1..Len(utf8) : text[at + j] = utf8[j]
  BY <1>5, <1>6, <1>8, <1>9, OverwrittenFacts
<1> HIDE DEF text
<1>11. Holds(text, body)
  <2>1. HeaderSpace + Len(body) <= Len(text)
    BY <1>1, <1>2, <1>5, <1>6, <1>10
  <2>2. ASSUME NEW i \in 1..Len(body) PROVE text[HeaderSpace + i] = body[i]
    <3> DEFINE m == HeaderSpace + i
    <3>1. m \in 1..pos /\ pos <= Len(buffer) /\ m \in 1..Len(buffer)
      BY <1>1, <1>2 DEF Holds
    <3>2. buffer[m] = body[i]
      BY <1>2 DEF Holds
    <3> HIDE DEF m
    <3>3. m \in 1..Len(e) /\ m \in 1..Len(zero) /\ m \notin (pos + 1)..(pos + PrefixBytes)
      BY <1>1, <1>3, <1>5, <3>1
    <3>4. m \notin (at + 1)..(at + Len(utf8))
      BY <1>1, <3>1, <1>8
    <3>5. text[m] = body[i]
      BY <1>3, <1>5, <1>10, <3>1, <3>2, <3>3, <3>4
    <3> QED BY <3>5 DEF m
  <2> QED BY <2>1, <2>2 DEF Holds
<1>12. limit' = limit /\ PacketReadsBack'
  BY DEF AddUTF8String, WriterInv, PacketReadsBack
<1>13. CASE part = str /\ buffer' = out /\ pos' = at + Len(utf8)
            /\ body' = body \o TrueLength(Len(utf8)) \o utf8
  <2>1. Len(utf8) < Power(2 * Base)[PrefixBytes]
    BY <1>13, StringsAssumption DEF utf8
  <2>2. l \in Seq(Byte) /\ Len(l) = PrefixBytes /\ TrueLength(Len(utf8)) = l
    BY <1>8, <2>1, PrefixFacts
  <2> HIDE DEF l
  <2>3. HeaderSpace + Len(body) + Len(l) = at
    BY <1>1, <1>2, <2>2
  <2>4. /\ Holds(out, body \o l \o utf8) /\ body \o l \o utf8 \in Seq(Byte)
        /\ Len(body \o l \o utf8) = Len(body) + Len(l) + Len(utf8)
    <3>1. HeaderSpace + Len(body) + Len(l) + Len(utf8) <= Len(text)
      BY <1>9, <1>10, <2>3
    <3>2. \A j \in 1..Len(utf8) : text[HeaderSpace + Len(body) + Len(l) + j] = utf8[j]
      BY <1>10, <2>3, Zenon
    <3>3. /\ Holds(Put(text, HeaderSpace + Len(body), l), body \o l \o utf8)
          /\ body \o l \o utf8 \in Seq(Byte)
          /\ Len(body \o l \o utf8) = Len(body) + Len(l) + Len(utf8)
      <4>1. /\ text \in Seq(Byte) /\ body \in Seq(Byte) /\ l \in Seq(Byte)
            /\ utf8 \in Seq(Byte) /\ Holds(text, body)
        BY <1>1, <1>8, <1>10, <1>11, <2>2
      <4> QED BY <4>1, <3>1, <3>2, HoldsString
    <3> QED BY <1>2, <3>3, Zenon
  <2>5. out \in Seq(Byte)
    BY <1>1, <1>10, <2>2, PutFacts
  <2>6. pos' = HeaderSpace + Len(body') /\ Holds(buffer', body')
    <3>1. body' = body \o l \o utf8 /\ buffer' = out
      BY <1>13, <2>2, Zenon
    <3>2. Holds(buffer', body')
      BY <2>4, <3>1, Zenon
    <3>3. Len(body') = Len(body) + Len(l) + Len(utf8)
      BY <2>4, <3>1, Zenon
    <3>4. Len(utf8) \in Nat /\ Len(body) \in Nat /\ Len(l) \in Nat
      BY <1>1, <1>8, <2>2
    <3> QED BY <1>1, <1>13, <2>3, <3>2, <3>3, <3>4
  <2>7. pos' \in Nat /\ HeaderSpace <= pos' /\ pos' <= Len(buffer')
    BY <1>1, <1>13, <2>2, <2>4, <2>6 DEF Holds
  <2> QED BY <1>12, <1>13, <2>2, <2>4, <2>5, <2>6, <2>7 DEF WriterInv
<1>14. CASE buffer' = text /\ pos' = at /\ state' = "noRoom" /\ body' = body
  <2>1. HeaderSpace <= at /\ at <= Len(text)
    BY <1>1, <1>2, <1>5, <1>10
  <2> QED BY <1>1, <1>6, <1>10, <1>12, <1>14, <2>1 DEF WriterInv
<1> QED
  BY <1>13, <1>14
     DEF AddUTF8String, n, e, zero, at, room, part, utf8, text, l, out

\* The packet returned reads back; one that is too large is none.
LEMMA FinalizeMessageInv ==
  ASSUME WriterInv, NEW head \in Heads, FinalizeMessage(head)
  PROVE  WriterInv'
<1> DEFINE size  == pos - HeaderSpace
           start == HeaderSpace - 1 - LengthVariableByteInteger(size)
           out   == Put(buffer, start, <<head>> \o VariableByteInteger[size])
           s     == SubSeq(out, start + 1, pos)
<1>1. /\ buffer \in Seq(Byte) /\ body \in Seq(Byte) /\ pos \in Nat /\ limit \in 0..MaxLength
      /\ HeaderSpace \in Nat /\ MaxLength \in Nat /\ head \in Byte
      /\ pos = HeaderSpace + Len(body) /\ Holds(buffer, body)
  BY WriterAssumption, SpaceFacts DEF WriterInv, FinalizeMessage
<1>2. size = Len(body) /\ limit' = limit /\ body' = body
  BY <1>1 DEF FinalizeMessage
<1>3. CASE state' = "tooLarge" /\ UNCHANGED <<buffer, pos, packet>>
  BY <1>2, <1>3 DEF WriterInv, PacketReadsBack
<1>4. CASE /\ size < limit /\ buffer' = out /\ pos' = HeaderSpace /\ state' = "ready"
           /\ packet' = [bytes |-> s, head |-> head, body |-> body, limit |-> limit]
  <2>1. Len(body) <= MaxLength
    BY <1>1, <1>2, <1>4
  <2>2. /\ out \in Seq(Byte) /\ Len(out) >= Len(buffer)
        /\ Whole(s, 0) /\ FrameEnd(s, 0) = Len(s)
        /\ Frame(s, 0) = [head |-> head, body |-> body]
    <3> DEFINE H == HeaderSpace + Len(body)
               D == HeaderSpace - 1 - LengthVariableByteInteger(Len(body))
               O == Put(buffer, D, <<head>> \o VariableByteInteger[Len(body)])
    <3>1. /\ O \in Seq(Byte) /\ Len(O) >= Len(buffer)
          /\ Whole(SubSeq(O, D + 1, H), 0)
          /\ FrameEnd(SubSeq(O, D + 1, H), 0) = Len(SubSeq(O, D + 1, H))
          /\ Frame(SubSeq(O, D + 1, H), 0) = [head |-> head, body |-> body]
      <4>1. /\ HeaderSpace + Len(body) <= Len(buffer)
            /\ \A i \in 1..Len(body) : buffer[HeaderSpace + i] = body[i]
        BY <1>1 DEF Holds
      <4> QED BY <1>1, <2>1, <4>1, FinalizedReadsBack, ZenonT(30)
    <3>2. H = pos
      BY <1>1
    <3>3. O = out /\ D = start
      <4> HIDE DEF size
      <4> QED BY <1>2
    <3> HIDE DEF O, D, H, out, start
    <3> QED BY <3>1, <3>2, <3>3, Zenon DEF s
  <2> HIDE DEF s, out
  <2>3. PacketReadsBack'
    BY <1>4, <2>2 DEF PacketReadsBack
  <2>4. HeaderSpace <= Len(out)
    BY <1>1, <2>2 DEF Holds
  <2> QED BY <1>1, <1>2, <1>4, <2>2, <2>3, <2>4 DEF WriterInv
<1> QED
  BY <1>3, <1>4 DEF FinalizeMessage

\* The invariant is inductive.
LEMMA StepInv == WriterInv /\ [Next]_vars => WriterInv'
<1> SUFFICES ASSUME WriterInv, [Next]_vars PROVE WriterInv'
  OBVIOUS
<1>1. ASSUME NEW value \in Limits, SetMaximumPacketSize(value) PROVE WriterInv'
  BY <1>1 DEF SetMaximumPacketSize, WriterInv, PacketReadsBack
<1>2. CASE BeginMessage
  <2>1. Len(<<>>) = 0 /\ <<>> \in Seq(Byte)
    OBVIOUS
  <2>2. HeaderSpace \in Nat /\ HeaderSpace <= Len(buffer)
    BY SpaceFacts DEF WriterInv
  <2>3. Holds(buffer, <<>>) /\ HeaderSpace = HeaderSpace + Len(<<>>)
    BY <2>1, <2>2 DEF Holds
  <2> QED BY <1>2, <2>1, <2>2, <2>3 DEF BeginMessage, WriterInv, PacketReadsBack
<1>3. CASE UNCHANGED vars
  BY <1>3 DEF vars, WriterInv, PacketReadsBack
<1> QED
  BY <1>1, <1>2, <1>3, AddArrayInv, AddUTF8StringInv, FinalizeMessageInv DEF Next

-----------------------------------------------------------------------------
\* It holds of every behaviour.
LEMMA AlwaysWriterInv == Spec => []WriterInv
BY InitInv, StepInv, PTL DEF Spec

\* While a packet is written the buffer holds its body behind the reserved bytes
\* (BufferHoldsBody): growing the buffer loses nothing, and nothing of an earlier
\* packet, or of one that was given up, shows through.
THEOREM BodyIsHeld == Spec => []BufferHoldsBody
<1>1. WriterInv => BufferHoldsBody
  <2> SUFFICES ASSUME WriterInv, state = "writing"
               PROVE  /\ pos = HeaderSpace + Len(body)
                      /\ SubSeq(buffer, HeaderSpace + 1, pos) = body
    BY DEF BufferHoldsBody
  <2>1. pos = HeaderSpace + Len(body) /\ Holds(buffer, body)
    BY DEF WriterInv
  <2>2. buffer \in Seq(Byte) /\ body \in Seq(Byte) /\ HeaderSpace \in Nat
    BY SpaceFacts DEF WriterInv
  <2>3. SubSeq(buffer, HeaderSpace + 1, HeaderSpace + Len(body)) = body
    BY <2>1, <2>2, PartIs DEF Holds
  <2> QED BY <2>1, <2>3
<1> QED BY <1>1, AlwaysWriterInv, PTL

\* What finalizeMessage returns is one packet for readFixedHeader, with the head
\* and the body that were written (PacketReadsBack).
THEOREM PacketsReadBack == Spec => []PacketReadsBack
<1>1. WriterInv => PacketReadsBack
  BY DEF WriterInv
<1> QED BY <1>1, AlwaysWriterInv, PTL
=============================================================================
