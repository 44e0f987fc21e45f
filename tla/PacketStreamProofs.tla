------------------------- MODULE PacketStreamProofs -------------------------
(***************************************************************************)
(* Theorems about PacketStream: for any wires and however they are cut,    *)
(* the packets enqueued are the packets of the wire, and no byte is lost.  *)
(*                                                                         *)
(* The argument: what transform reads is a window of the wire that reaches *)
(* up to the last byte received (BytesAccountedFor).  A header in a window *)
(* is the header at the same place of the wire (WindowFrame), so a packet  *)
(* that is whole in the window is that packet of the wire, and conversely  *)
(* (WindowWhole) a packet of the wire within the bytes received is whole   *)
(* in the window.  From there, the refinement of InOrderDelivery needs     *)
(* that what was enqueued comes first of PacketsFrom (FirstPackets), and   *)
(* the arrival of what was sent that the boundaries on the wire are those  *)
(* of the packets it was made of (PieceBoundaries).                        *)
(***************************************************************************)
EXTENDS PacketStream, DataLemmas

\* Bytes and their digits are naturals.
LEMMA ByteFacts ==
  /\ Byte \subseteq Nat
  /\ \A b \in Byte : Digit(b) \in Nat
BY FramingAssumption DEF Byte, Digit

\* One more digit in front leaves a natural number.
LEMMA DigitIsNat == \A x, y, z \in Nat : x + y * z \in Nat
OBVIOUS

\* readVariableByteInteger finds one length, and a natural number.
LEMMA IntegerFacts ==
  ASSUME NEW s \in Seq(Byte), NEW p \in Nat, HeaderRead(s, p)
  PROVE  /\ IntegerLength(s, p + 1) \in 1..LengthBytes
         /\ IntegerAt(s, p + 1, IntegerLength(s, p + 1))
         /\ IntegerValue(s, p + 1, IntegerLength(s, p + 1)) \in Nat
         /\ FrameEnd(s, p) \in Nat
         /\ FrameEnd(s, p) >= p + 1 + IntegerLength(s, p + 1)
<1> DEFINE k == IntegerLength(s, p + 1)
           digit(i) == IF i <= k THEN Digit(s[p + 1 + i]) ELSE 0
<1>1. k \in 1..LengthBytes /\ IntegerAt(s, p + 1, k)
  BY Zenon DEF HeaderRead, IntegerLength
<1>2. \A i \in 1..4 : digit(i) \in Nat
  <2> SUFFICES ASSUME NEW i \in 1..4, i <= k PROVE Digit(s[p + 1 + i]) \in Nat
    BY <1>1, FramingAssumption
  <2>1. p + 1 + i \in 1..Len(s)
    BY <1>1, FramingAssumption DEF IntegerAt
  <2>2. s[p + 1 + i] \in Byte
    BY <2>1
  <2> QED BY <2>2, ByteFacts
<1>3. IntegerValue(s, p + 1, k)
        = digit(1) + Base * (digit(2) + Base * (digit(3) + Base * digit(4)))
  BY DEF IntegerValue
<1>4. digit(1) + Base * (digit(2) + Base * (digit(3) + Base * digit(4))) \in Nat
  <2> HIDE DEF digit
  <2>1. /\ Base \in Nat
        /\ digit(1) \in Nat /\ digit(2) \in Nat /\ digit(3) \in Nat /\ digit(4) \in Nat
    BY <1>2, FramingAssumption
  <2>2. digit(3) + Base * digit(4) \in Nat
    BY <2>1, DigitIsNat, Zenon
  <2>3. digit(2) + Base * (digit(3) + Base * digit(4)) \in Nat
    BY <2>1, <2>2, DigitIsNat, Zenon
  <2> QED BY <2>1, <2>3, DigitIsNat, Zenon
<1>5. IntegerValue(s, p + 1, k) \in Nat
  BY <1>3, <1>4
<1>6. FrameEnd(s, p) = p + 1 + k + IntegerValue(s, p + 1, k)
  BY DEF FrameEnd
<1>7. FrameEnd(s, p) \in Nat /\ FrameEnd(s, p) >= p + 1 + k
  <2> HIDE DEF k
  <2> QED BY <1>1, <1>5, <1>6, FramingAssumption
<1> QED BY <1>1, <1>5, <1>7

\* An integer has one length.
LEMMA OneLength ==
  ASSUME NEW s \in Seq(Byte), NEW p \in Nat,
         NEW j \in 1..LengthBytes, NEW k \in 1..LengthBytes,
         IntegerAt(s, p, j), IntegerAt(s, p, k)
  PROVE  j = k
BY FramingAssumption DEF IntegerAt

\* s is what t has behind its first o bytes.
Window(s, t, o) ==
  /\ o + Len(s) <= Len(t)
  /\ \A i \in 1..Len(s) : s[i] = t[o + i]

\* An integer within a window is that of the whole.
LEMMA WindowInteger ==
  ASSUME NEW s \in Seq(Byte), NEW t \in Seq(Byte), NEW o \in Nat, NEW p \in Nat,
         Window(s, t, o), NEW k \in 1..LengthBytes, p + k <= Len(s),
         NEW q \in Nat, q = o + p
  PROVE  /\ IntegerAt(s, p, k) <=> IntegerAt(t, q, k)
         /\ IntegerValue(s, p, k) = IntegerValue(t, q, k)
<1>1. \A i \in 1..k : s[p + i] = t[q + i]
  BY FramingAssumption DEF Window
<1>2. IntegerAt(s, p, k) <=> IntegerAt(t, q, k)
  <2>1. q + k <= Len(t)
    BY FramingAssumption DEF Window
  <2>2. s[p + k] = t[q + k]
    BY <1>1, FramingAssumption
  <2>3. ASSUME NEW i \in 1..(k - 1) PROVE s[p + i] = t[q + i]
    <3>1. i \in 1..k
      BY FramingAssumption
    <3> QED BY <1>1, <3>1
  <2> QED BY <2>1, <2>2, <2>3 DEF IntegerAt, More
<1>3. \A i \in 1..4 : (IF i <= k THEN Digit(s[p + i]) ELSE 0)
                        = (IF i <= k THEN Digit(t[q + i]) ELSE 0)
  BY <1>1, FramingAssumption
<1>4. IntegerValue(s, p, k) = IntegerValue(t, q, k)
  <2> DEFINE ds(i) == IF i <= k THEN Digit(s[p + i]) ELSE 0
             dt(i) == IF i <= k THEN Digit(t[q + i]) ELSE 0
  <2>1. ds(1) = dt(1) /\ ds(2) = dt(2) /\ ds(3) = dt(3) /\ ds(4) = dt(4)
    BY <1>3
  <2>2. IntegerValue(s, p, k) = ds(1) + Base * (ds(2) + Base * (ds(3) + Base * ds(4)))
    BY DEF IntegerValue
  <2>3. IntegerValue(t, q, k) = dt(1) + Base * (dt(2) + Base * (dt(3) + Base * dt(4)))
    BY DEF IntegerValue
  <2> HIDE DEF ds, dt
  <2> QED BY <2>1, <2>2, <2>3
<1> QED BY <1>2, <1>4

\* A header within a window is the header of the whole.
LEMMA WindowHeader ==
  ASSUME NEW s \in Seq(Byte), NEW t \in Seq(Byte), NEW o \in Nat, NEW p \in Nat,
         Window(s, t, o), HeaderRead(s, p)
  PROVE  /\ HeaderRead(t, o + p)
         /\ IntegerLength(t, o + p + 1) = IntegerLength(s, p + 1)
         /\ FrameEnd(t, o + p) = o + FrameEnd(s, p)
<1> DEFINE k == IntegerLength(s, p + 1)
           j == IntegerLength(t, o + p + 1)
<1>1. k \in 1..LengthBytes /\ IntegerAt(s, p + 1, k)
  BY IntegerFacts
<1>2. p + 1 + k <= Len(s)
  BY <1>1 DEF IntegerAt
<1>3. IntegerAt(t, o + p + 1, k) /\ IntegerValue(t, o + p + 1, k) = IntegerValue(s, p + 1, k)
  <2> HIDE DEF k
  <2> DEFINE r == p + 1
             q == o + p + 1
  <2>1. r \in Nat /\ q \in Nat /\ q = o + r /\ r + k <= Len(s) /\ k \in 1..LengthBytes
    BY <1>1, <1>2
  <2>2. IntegerAt(s, r, k)
    BY <1>1
  <2> HIDE DEF q, r
  <2>3. IntegerAt(t, q, k) /\ IntegerValue(t, q, k) = IntegerValue(s, r, k)
    BY <2>1, <2>2, WindowInteger
  <2> QED BY <2>3 DEF q, r
<1>4. HeaderRead(t, o + p)
  <2> HIDE DEF k
  <2> QED BY <1>1, <1>3 DEF HeaderRead
<1>5. j \in 1..LengthBytes /\ IntegerAt(t, o + p + 1, j)
  BY <1>4, IntegerFacts
<1>6. j = k
  <2> HIDE DEF j, k
  <2> QED BY <1>1, <1>3, <1>5, OneLength
<1>7. FrameEnd(s, p) = p + 1 + k + IntegerValue(s, p + 1, k)
  BY DEF FrameEnd
<1>8. FrameEnd(t, o + p) = o + p + 1 + j + IntegerValue(t, o + p + 1, j)
  BY DEF FrameEnd
<1>9. IntegerValue(s, p + 1, k) \in Nat
  BY IntegerFacts
<1>10. FrameEnd(t, o + p) = o + FrameEnd(s, p)
  <2> HIDE DEF j, k
  <2> QED BY <1>1, <1>3, <1>6, <1>7, <1>8, <1>9, FramingAssumption
<1> QED BY <1>4, <1>6, <1>10

\* A whole packet of a window is a packet of the whole.
LEMMA WindowFrame ==
  ASSUME NEW s \in Seq(Byte), NEW t \in Seq(Byte), NEW o \in Nat, NEW p \in Nat,
         Window(s, t, o), Whole(s, p)
  PROVE  /\ Whole(t, o + p)
         /\ FrameEnd(t, o + p) = o + FrameEnd(s, p)
         /\ Frame(t, o + p) = Frame(s, p)
         /\ FrameEnd(s, p) \in (p + 2)..Len(s)
         /\ t[o + p + 1] = s[p + 1]
         /\ Frame(s, p) \in Packet
<1> DEFINE k == IntegerLength(s, p + 1)
           e == FrameEnd(s, p)
<1>1. HeaderRead(s, p) /\ e <= Len(s)
  BY DEF Whole
<1>2. k \in 1..LengthBytes /\ e \in Nat /\ e >= p + 1 + k
  BY <1>1, IntegerFacts
<1>3. e \in (p + 2)..Len(s)
  <2> HIDE DEF k, e
  <2> QED BY <1>1, <1>2, FramingAssumption
<1>4. /\ HeaderRead(t, o + p)
      /\ IntegerLength(t, o + p + 1) = k
      /\ FrameEnd(t, o + p) = o + e
  BY <1>1, WindowHeader
<1>5. Whole(t, o + p)
  <2> HIDE DEF k, e
  <2> QED BY <1>3, <1>4 DEF Whole, Window
<1>6. t[o + p + 1] = s[p + 1] /\ s[p + 1] \in Byte
  <2> HIDE DEF k, e
  <2>1. p + 1 \in 1..Len(s)
    BY <1>3
  <2> QED BY <2>1 DEF Window
<1>7. SubSeq(t, o + p + 2 + k, o + e) = SubSeq(s, p + 2 + k, e)
  <2> HIDE DEF k, e
  <2>1. \A i \in (p + 2 + k)..e : s[i] = t[o + i]
    BY <1>2, <1>3, FramingAssumption DEF Window
  <2>2. 1 <= p + 2 + k /\ e <= Len(s) /\ o + e <= Len(t)
    BY <1>2, <1>3, FramingAssumption DEF Window
  <2> QED BY <1>2, <2>1, <2>2, FramingAssumption
<1>8. SubSeq(s, p + 2 + k, e) \in Seq(Byte)
  <2> HIDE DEF k, e
  <2> QED BY <1>2, <1>3, FramingAssumption
<1>9. Frame(s, p) = [head |-> s[p + 1], body |-> SubSeq(s, p + 2 + k, e)]
  BY DEF Frame
<1>10. Frame(t, o + p) = [head |-> t[o + p + 1], body |-> SubSeq(t, o + p + 2 + k, o + e)]
  BY <1>4 DEF Frame
<1>11. Frame(t, o + p) = Frame(s, p)
  <2> HIDE DEF k, e
  <2> QED BY <1>6, <1>7, <1>9, <1>10
<1>12. Frame(s, p) \in Packet
  <2> HIDE DEF k, e
  <2> QED BY <1>6, <1>8, <1>9 DEF Packet
<1> QED BY <1>3, <1>4, <1>5, <1>6, <1>11, <1>12

\* A packet of the whole that a window reaches over is whole in the window.
LEMMA WindowWhole ==
  ASSUME NEW s \in Seq(Byte), NEW t \in Seq(Byte), NEW o \in Nat, NEW p \in Nat,
         Window(s, t, o), Whole(t, o + p), FrameEnd(t, o + p) <= o + Len(s)
  PROVE  Whole(s, p)
<1> DEFINE k == IntegerLength(t, o + p + 1)
           e == FrameEnd(t, o + p)
<1>1. HeaderRead(t, o + p)
  BY DEF Whole
<1>2. k \in 1..LengthBytes /\ IntegerAt(t, o + p + 1, k) /\ e \in Nat /\ e >= o + p + 1 + k
  BY <1>1, IntegerFacts
<1>3. p + 1 + k <= Len(s)
  <2> HIDE DEF k
  <2> QED BY <1>2, FramingAssumption
<1>4. IntegerAt(s, p + 1, k)
  <2> HIDE DEF k
  <2> DEFINE r == p + 1
             q == o + p + 1
  <2>1. r \in Nat /\ q \in Nat /\ q = o + r /\ r + k <= Len(s) /\ k \in 1..LengthBytes
    BY <1>2, <1>3
  <2>2. IntegerAt(t, q, k)
    BY <1>2
  <2> HIDE DEF q, r
  <2>3. IntegerAt(s, r, k)
    BY <2>1, <2>2, WindowInteger
  <2> QED BY <2>3 DEF r
<1>5. HeaderRead(s, p)
  <2> HIDE DEF k
  <2> QED BY <1>2, <1>4 DEF HeaderRead
<1>6. FrameEnd(t, o + p) = o + FrameEnd(s, p) /\ FrameEnd(s, p) \in Nat
  BY <1>5, WindowHeader, IntegerFacts
<1> QED BY <1>5, <1>6 DEF Whole
-----------------------------------------------------------------------------
(* Pieces of the wire.                                                     *)

\* The bytes of a piece.
LEMMA PieceFacts ==
  ASSUME NEW w \in Seq(Byte), NEW a \in Nat, NEW b \in Nat, a <= b, b <= Len(w)
  PROVE  /\ SubSeq(w, a + 1, b) \in Seq(Byte)
         /\ Len(SubSeq(w, a + 1, b)) = b - a
         /\ \A i \in 1..(b - a) : SubSeq(w, a + 1, b)[i] = w[a + i]
OBVIOUS

\* Two pieces that meet are one.
LEMMA JoinedPieces ==
  ASSUME NEW w \in Seq(Byte), NEW a \in Nat, NEW b \in Nat, NEW c \in Nat,
         a <= b, b <= c, c <= Len(w)
  PROVE  SubSeq(w, a + 1, b) \o SubSeq(w, b + 1, c) = SubSeq(w, a + 1, c)
<1> DEFINE l == SubSeq(w, a + 1, b)
           r == SubSeq(w, b + 1, c)
           u == SubSeq(w, a + 1, c)
<1>1. /\ l \in Seq(Byte) /\ Len(l) = b - a
      /\ \A i \in 1..(b - a) : l[i] = w[a + i]
  BY PieceFacts
<1>2. /\ r \in Seq(Byte) /\ Len(r) = c - b
      /\ \A i \in 1..(c - b) : r[i] = w[b + i]
  BY PieceFacts
<1>3. /\ u \in Seq(Byte) /\ Len(u) = c - a
      /\ \A i \in 1..(c - a) : u[i] = w[a + i]
  BY PieceFacts
<1> HIDE DEF l, r, u
<1>4. l \o r \in Seq(Byte) /\ Len(l \o r) = Len(u)
  BY <1>1, <1>2, <1>3
<1>5. ASSUME NEW i \in 1..Len(l \o r) PROVE (l \o r)[i] = u[i]
  <2>1. i \in 1..(c - a)
    BY <1>3, <1>4
  <2>2. CASE i <= b - a
    <3>1. (l \o r)[i] = l[i]
      BY <1>1, <1>2, <2>1, <2>2
    <3> QED BY <1>1, <1>3, <2>1, <2>2, <3>1
  <2>3. CASE i > b - a
    <3>1. i - (b - a) \in 1..(c - b) /\ b + (i - (b - a)) = a + i
      BY <2>1, <2>3
    <3>2. (l \o r)[i] = r[i - (b - a)]
      BY <1>1, <1>2, <2>1, <2>3
    <3> QED BY <1>2, <1>3, <2>1, <3>1, <3>2
  <2> QED BY <2>1, <2>2, <2>3
<1>6. l \o r = u
  BY <1>3, <1>4, <1>5, SeqEqual
<1> QED BY <1>6 DEF l, r, u

\* The rest of a piece is a piece.
LEMMA RestOfPiece ==
  ASSUME NEW w \in Seq(Byte), NEW a \in Nat, NEW b \in Nat, a <= b, b <= Len(w),
         NEW n \in 0..(b - a)
  PROVE  SubSeq(SubSeq(w, a + 1, b), n + 1, b - a) = SubSeq(w, a + n + 1, b)
<1> DEFINE u == SubSeq(w, a + 1, b)
           x == SubSeq(u, n + 1, b - a)
           y == SubSeq(w, a + n + 1, b)
<1>1. /\ u \in Seq(Byte) /\ Len(u) = b - a
      /\ \A i \in 1..(b - a) : u[i] = w[a + i]
  BY PieceFacts
<1>2. /\ x \in Seq(Byte) /\ Len(x) = b - a - n
      /\ \A i \in 1..(b - a - n) : x[i] = u[n + i]
  <2> HIDE DEF u
  <2> QED BY <1>1, PieceFacts
<1>3. a + n \in Nat /\ a + n <= b
  OBVIOUS
<1>4. /\ y \in Seq(Byte) /\ Len(y) = b - (a + n)
      /\ \A i \in 1..(b - (a + n)) : y[i] = w[a + n + i]
  BY <1>3, PieceFacts
<1> HIDE DEF u, x, y
<1>5. ASSUME NEW i \in 1..Len(x) PROVE x[i] = y[i]
  <2>1. i \in 1..(b - a - n) /\ i \in 1..(b - (a + n)) /\ n + i \in 1..(b - a)
    BY <1>2
  <2>2. x[i] = u[n + i] /\ u[n + i] = w[a + (n + i)] /\ y[i] = w[a + n + i]
    BY <1>1, <1>2, <1>4, <2>1
  <2> QED BY <2>2
<1>6. Len(x) = Len(y)
  BY <1>2, <1>4
<1>7. x = y
  BY <1>2, <1>4, <1>5, <1>6, SeqEqual
<1> QED BY <1>7 DEF u, x, y
-----------------------------------------------------------------------------
(* The inductive invariant.                                                *)

\* The packets enqueued are the packets of the wire itself, in order and
\* without a gap from its beginning: each ends where the wire's own header at
\* the end of the one before says, and has the wire's bytes between.
PacketsOfTheWire ==
  \A i \in 1..Len(ends) :
    /\ Whole(wire, Boundary(i - 1))
    /\ ends[i] = FrameEnd(wire, Boundary(i - 1))
    /\ i <= Len(emitted) => emitted[i] = Frame(wire, Boundary(i - 1))

\* Nothing is enqueued beyond the first packet that is refused, and until then
\* every consumed packet was enqueued (the catch clause, lines 75-77, does not
\* leave the loop).
NothingAfterRefusal ==
  /\ Len(emitted) <= Len(ends)
  /\ ~errored => Len(emitted) = Len(ends)
  /\ \A i \in 1..Len(ends) :
       i <= Len(emitted) <=> \A j \in 1..i : wire[Boundary(j - 1) + 1] \notin BadHeads

\* Within a call, an error was preceded by a packet that was refused.
RefusedInLoop == pc = "loop" /\ errored => Len(emitted) < Len(ends)

\* What is read or kept is not longer than what was received.
WithinReceived == Len(chunk) <= got /\ (pc # "loop" => Len(partial) <= got)

Inv ==
  /\ TypeOK
  /\ WithinReceived
  /\ BytesAccountedFor
  /\ PacketsOfTheWire
  /\ NothingAfterRefusal
  /\ RefusedInLoop
  /\ OnlyIncompleteKept

\* While transform runs, it reads a window of the wire.
LEMMA LoopWindow ==
  ASSUME Inv, pc = "loop"
  PROVE  /\ wire \in Seq(Byte) /\ chunk \in Seq(Byte)
         /\ got - Len(chunk) \in Nat
         /\ Window(chunk, wire, got - Len(chunk))
         /\ Boundary(Len(ends)) = got - Len(chunk) + pos
<1> DEFINE o == got - Len(chunk)
<1>1. /\ wire \in Seq(Byte) /\ chunk \in Seq(Byte)
      /\ got \in Nat /\ got <= Len(wire)
  BY WiresAssumption DEF Inv, TypeOK
<1>2. Len(chunk) \in Nat /\ Len(chunk) <= got
  BY <1>1 DEF Inv, WithinReceived
<1>3. chunk = SubSeq(wire, o + 1, got) /\ Boundary(Len(ends)) = o + pos
  BY DEF Inv, BytesAccountedFor
<1>4. o \in Nat /\ o <= got /\ got - o = Len(chunk)
  BY <1>1, <1>2
<1>5. \A i \in 1..Len(chunk) : chunk[i] = wire[o + i]
  <2> HIDE DEF o
  <2> QED BY <1>1, <1>3, <1>4, PieceFacts
<1>6. Window(chunk, wire, o)
  <2> HIDE DEF o
  <2> QED BY <1>1, <1>4, <1>5 DEF Window
<1> QED BY <1>1, <1>3, <1>4, <1>6

\* Packets end at natural numbers.
LEMMA BoundaryFacts ==
  ASSUME TypeOK
  PROVE  \A i \in 0..Len(ends) : Boundary(i) \in Nat
BY DEF TypeOK, Boundary

\* What the loop consumes is the packet of the wire at the last boundary.
LEMMA ConsumeFacts ==
  ASSUME Inv, InLoop, Consume
  PROVE  LET b == Boundary(Len(ends)) IN
         /\ Whole(wire, b)
         /\ Frame(chunk, pos) = Frame(wire, b)
         /\ Frame(chunk, pos) \in Packet
         /\ chunk[pos + 1] = wire[b + 1]
         /\ pos' \in 0..Len(chunk)
         /\ ends' \in Seq(Nat)
         /\ Len(ends') = Len(ends) + 1
         /\ ends'[Len(ends) + 1] = FrameEnd(wire, b)
         /\ \A i \in 0..Len(ends) : Boundary(i)' = Boundary(i)
         /\ \A i \in 1..Len(ends) : ends'[i] = ends[i]
         /\ Boundary(Len(ends))' = got - Len(chunk) + pos'
<1> DEFINE o == got - Len(chunk)
           e == FrameEnd(chunk, pos)
           b == Boundary(Len(ends))
<1>1. /\ wire \in Seq(Byte) /\ chunk \in Seq(Byte)
      /\ o \in Nat
      /\ Window(chunk, wire, o)
      /\ b = o + pos
  BY LoopWindow DEF InLoop
<1>2. pos \in Nat /\ ends \in Seq(Nat)
  BY DEF Inv, TypeOK
<1>3. Whole(chunk, pos) /\ pos' = e /\ ends' = Append(ends, o + e)
  BY DEF Consume
<1>4. /\ Whole(wire, b)
      /\ FrameEnd(wire, b) = o + e
      /\ Frame(wire, b) = Frame(chunk, pos)
      /\ e \in (pos + 2)..Len(chunk)
      /\ wire[b + 1] = chunk[pos + 1]
      /\ Frame(chunk, pos) \in Packet
  <2> HIDE DEF o, b
  <2>1. /\ Whole(wire, o + pos)
        /\ FrameEnd(wire, o + pos) = o + e
        /\ Frame(wire, o + pos) = Frame(chunk, pos)
        /\ e \in (pos + 2)..Len(chunk)
        /\ wire[o + pos + 1] = chunk[pos + 1]
        /\ Frame(chunk, pos) \in Packet
    BY <1>1, <1>2, <1>3, WindowFrame
  <2> QED BY <1>1, <2>1
<1> HIDE DEF o, e, b
<1>5. e \in Nat /\ e \in 0..Len(chunk) /\ o + e \in Nat
  BY <1>1, <1>2, <1>4
<1>6. /\ ends' \in Seq(Nat)
      /\ Len(ends') = Len(ends) + 1
      /\ ends'[Len(ends) + 1] = o + e
      /\ \A i \in 1..Len(ends) : ends'[i] = ends[i]
  BY <1>2, <1>3, <1>5
<1>7. \A i \in 0..Len(ends) : Boundary(i)' = Boundary(i)
  BY <1>6, <1>2 DEF Boundary
<1>8. Boundary(Len(ends))' = o + e
  BY <1>6, <1>2 DEF Boundary
<1>9. pos' \in 0..Len(chunk) /\ Boundary(Len(ends))' = o + pos'
  BY <1>3, <1>5, <1>8
<1> QED BY <1>4, <1>6, <1>7, <1>9 DEF o, b

\* A packet that was consumed keeps its place, and its place in emitted.
LEMMA ConsumeKeepsPackets ==
  ASSUME Inv, InLoop, Consume, UNCHANGED wire,
         \/ emitted' = emitted
         \/ ~errored /\ emitted' = Append(emitted, Frame(chunk, pos))
  PROVE  PacketsOfTheWire'
<1> SUFFICES ASSUME NEW i \in 1..Len(ends')
             PROVE  /\ Whole(wire, Boundary(i - 1)')
                    /\ ends'[i] = FrameEnd(wire, Boundary(i - 1)')
                    /\ i <= Len(emitted') => emitted'[i] = Frame(wire, Boundary(i - 1)')
  BY DEF PacketsOfTheWire
<1>1. ends \in Seq(Nat) /\ emitted \in Seq(Packet) /\ Len(emitted) <= Len(ends)
      /\ (~errored => Len(emitted) = Len(ends))
  BY DEF Inv, TypeOK, NothingAfterRefusal
<1>2. Len(ends') = Len(ends) + 1 /\ Boundary(i - 1)' = Boundary(i - 1)
  BY <1>1, ConsumeFacts
<1>packet. Frame(chunk, pos) \in Packet
  BY ConsumeFacts
<1>3. CASE i \in 1..Len(ends)
  <2>1. /\ Whole(wire, Boundary(i - 1))
        /\ ends[i] = FrameEnd(wire, Boundary(i - 1))
        /\ i <= Len(emitted) => emitted[i] = Frame(wire, Boundary(i - 1))
    BY <1>3 DEF Inv, PacketsOfTheWire
  <2>2. ends'[i] = ends[i]
    BY <1>3, ConsumeFacts
  <2>3. i <= Len(emitted') => i <= Len(emitted) /\ emitted'[i] = emitted[i]
    BY <1>1, <1>3, <1>packet
  <2> QED BY <1>2, <2>1, <2>2, <2>3, Zenon
<1>4. CASE i = Len(ends) + 1
  <2>1. i - 1 = Len(ends)
    BY <1>1, <1>4
  <2>2. /\ Whole(wire, Boundary(Len(ends)))
        /\ ends'[i] = FrameEnd(wire, Boundary(Len(ends)))
        /\ Frame(chunk, pos) = Frame(wire, Boundary(Len(ends)))
    BY <1>4, ConsumeFacts
  <2>3. i <= Len(emitted') => emitted'[i] = Frame(chunk, pos)
    BY <1>1, <1>4, <1>packet
  <2> QED BY <1>2, <2>1, <2>2, <2>3
<1> QED BY <1>1, <1>2, <1>3, <1>4

\* The first i packets of the wire were not ones to be refused.
Accepted(i) == \A j \in 1..i : wire[Boundary(j - 1) + 1] \notin BadHeads

\* A consumed packet changes nothing for those before it, and is accepted unless its
\* first byte is a refused one.
LEMMA AcceptedFacts ==
  ASSUME Inv, InLoop, Consume, UNCHANGED wire
  PROVE  /\ \A i \in 1..(Len(ends) + 1) : Accepted(i)' <=> Accepted(i)
         /\ Accepted(Len(ends) + 1)
              <=> Accepted(Len(ends)) /\ chunk[pos + 1] \notin BadHeads
         /\ \A i \in 1..Len(ends) : i <= Len(emitted) <=> Accepted(i)
<1>1. Len(ends) \in Nat
  BY DEF Inv, TypeOK
<1>2. \A i \in 0..Len(ends) : Boundary(i)' = Boundary(i)
  BY ConsumeFacts
<1>3. chunk[pos + 1] = wire[Boundary(Len(ends)) + 1]
  BY ConsumeFacts
<1>4. ASSUME NEW i \in 1..(Len(ends) + 1) PROVE Accepted(i)' <=> Accepted(i)
  <2>1. \A j \in 1..i : Boundary(j - 1)' = Boundary(j - 1)
    BY <1>1, <1>2
  <2> QED BY <2>1 DEF Accepted
<1>5. Accepted(Len(ends) + 1)
        <=> Accepted(Len(ends)) /\ wire[Boundary(Len(ends)) + 1] \notin BadHeads
  <2> DEFINE Good(j) == wire[Boundary(j - 1) + 1] \notin BadHeads
  <2>1. Good(Len(ends) + 1) <=> wire[Boundary(Len(ends)) + 1] \notin BadHeads
    BY <1>1
  <2>2. /\ Accepted(Len(ends)) <=> \A j \in 1..Len(ends) : Good(j)
        /\ Accepted(Len(ends) + 1) <=> \A j \in 1..(Len(ends) + 1) : Good(j)
    BY DEF Accepted
  <2> HIDE DEF Good
  <2>3. (\A j \in 1..(Len(ends) + 1) : Good(j))
          <=> (\A j \in 1..Len(ends) : Good(j)) /\ Good(Len(ends) + 1)
    BY <1>1
  <2> QED BY <2>1, <2>2, <2>3, Zenon
<1>6. \A i \in 1..Len(ends) : i <= Len(emitted) <=> Accepted(i)
  BY DEF Inv, NothingAfterRefusal, Accepted
<1> QED BY <1>3, <1>4, <1>5, <1>6

\* A packet ends behind its first byte.
LEMMA FrameIsNotEmpty ==
  ASSUME NEW b \in Nat, NEW w \in Seq(Byte), Whole(w, b)
  PROVE  FrameEnd(w, b) > b
<1>1. HeaderRead(w, b)
  BY DEF Whole
<1>2. /\ IntegerLength(w, b + 1) \in 1..LengthBytes
      /\ FrameEnd(w, b) \in Nat
      /\ FrameEnd(w, b) >= b + 1 + IntegerLength(w, b + 1)
  BY <1>1, IntegerFacts
<1> QED BY <1>2, FramingAssumption
-----------------------------------------------------------------------------
(* The steps.                                                              *)

\* At the beginning nothing was received.
LEMMA InitInv == ASSUME Init PROVE Inv
<1>1. wire \in Seq(Byte)
  BY WiresAssumption DEF Init
<1>2. TypeOK
  <2>1. Len(wire) \in Nat
    BY <1>1
  <2>2. got \in 0..Len(wire)
    BY <2>1 DEF Init
  <2>3. partial \in Seq(Byte) /\ chunk \in Seq(Byte) /\ emitted \in Seq(Packet)
        /\ ends \in Seq(Nat) /\ pos \in 0..Len(chunk)
    BY EmptySeq DEF Init
  <2>4. wire \in Wires /\ pc \in {"idle", "loop", "closed"} /\ errored \in BOOLEAN
    BY Zenon DEF Init
  <2> QED BY <2>2, <2>3, <2>4 DEF TypeOK
<1>3. WithinReceived /\ RefusedInLoop
  BY DEF Init, WithinReceived, RefusedInLoop
<1>4. BytesAccountedFor
  <2>1. SubSeq(wire, 1, 0) = <<>>
    BY <1>1
  <2>2. Len(partial) = 0 /\ Len(ends) = 0 /\ got = 0 /\ partial = <<>>
    BY DEF Init
  <2>3. Boundary(Len(ends)) = 0 /\ got - Len(partial) = 0
    BY <2>2 DEF Boundary
  <2>4. partial = SubSeq(wire, got - Len(partial) + 1, got)
    BY <2>1, <2>2
  <2> QED BY <2>3, <2>4 DEF Init, BytesAccountedFor
<1>5. PacketsOfTheWire /\ NothingAfterRefusal
  BY DEF Init, PacketsOfTheWire, NothingAfterRefusal
<1>6. OnlyIncompleteKept
  <2>1. Boundary(Len(ends)) = 0
    BY DEF Init, Boundary
  <2>2. Whole(wire, 0) => FrameEnd(wire, 0) > 0
    BY <1>1, FrameIsNotEmpty
  <2> QED BY <2>1, <2>2 DEF Init, OnlyIncompleteKept
<1> QED BY <1>2, <1>3, <1>4, <1>5, <1>6 DEF Inv

\* PacketsOfTheWire and NothingAfterRefusal speak of these variables alone.
LEMMA FramePackets ==
  ASSUME Inv, UNCHANGED <<wire, emitted, ends>>
  PROVE  PacketsOfTheWire'
<1>1. \A i : Boundary(i)' = Boundary(i)
  BY DEF Boundary
<1> QED BY <1>1 DEF Inv, PacketsOfTheWire

\* The same of NothingAfterRefusal, whatever error is added.
LEMMA FrameRefusal ==
  ASSUME Inv, UNCHANGED <<wire, emitted, ends>>, errored => errored'
  PROVE  NothingAfterRefusal'
<1>1. \A i : Boundary(i)' = Boundary(i)
  BY DEF Boundary
<1> QED BY <1>1 DEF Inv, NothingAfterRefusal

\* What was kept and the new bytes are a piece of the wire, from the same boundary on.
LEMMA TransformInv ==
  ASSUME Inv, NEW n \in 0..(Len(wire) - got), Transform(n)
  PROVE  Inv'
<1>1. /\ wire \in Seq(Byte) /\ partial \in Seq(Byte) /\ got \in Nat /\ got <= Len(wire)
      /\ Len(partial) <= got /\ pc = "idle" /\ ~errored
  BY WiresAssumption DEF Inv, TypeOK, WithinReceived, Transform
<1> DEFINE a == got - Len(partial)
<1>2. a \in Nat /\ a <= got /\ got + n \in Nat /\ got <= got + n /\ got + n <= Len(wire)
  BY <1>1
<1>3. partial = SubSeq(wire, a + 1, got) /\ Boundary(Len(ends)) = a
  BY <1>1 DEF Inv, BytesAccountedFor
<1>4. chunk' = SubSeq(wire, a + 1, got + n)
  <2> DEFINE c == got + n
  <2>1. chunk' = partial \o SubSeq(wire, got + 1, c)
    BY DEF Transform, Joined
  <2>2. c \in Nat /\ got <= c /\ c <= Len(wire)
    BY <1>2
  <2> HIDE DEF a, c
  <2>3. SubSeq(wire, a + 1, got) \o SubSeq(wire, got + 1, c) = SubSeq(wire, a + 1, c)
    BY <1>1, <1>2, <2>2, JoinedPieces
  <2>4. chunk' = SubSeq(wire, a + 1, c)
    BY <1>3, <2>1, <2>3
  <2> QED BY <2>4 DEF c
<1>5. chunk' \in Seq(Byte) /\ Len(chunk') = got + n - a
  <2> HIDE DEF a
  <2>1. a <= got + n
    BY <1>1, <1>2
  <2> QED BY <1>1, <1>2, <1>4, <2>1, PieceFacts
<1> HIDE DEF a
<1>6. TypeOK'
  BY <1>1, <1>2, <1>5 DEF Inv, TypeOK, Transform
<1>7. WithinReceived' /\ RefusedInLoop' /\ OnlyIncompleteKept'
  BY <1>1, <1>2, <1>5 DEF Transform, WithinReceived, RefusedInLoop, OnlyIncompleteKept
<1>8. BytesAccountedFor'
  <2>1. got' - Len(chunk') = a /\ pos' = 0 /\ got' = got + n /\ partial' = <<>> /\ pc' = "loop"
    BY <1>1, <1>2, <1>5 DEF Transform
  <2>2. Boundary(Len(ends))' = a
    BY <1>3 DEF Transform, Boundary
  <2>3. Boundary(Len(ends))' = got' - Len(chunk') + pos'
    BY <1>2, <2>1, <2>2
  <2>4. chunk' = SubSeq(wire', a + 1, got')
    BY <1>4, <2>1 DEF Transform
  <2>5. chunk' = SubSeq(wire', got' - Len(chunk') + 1, got')
    BY <2>1, <2>4
  <2> QED BY <2>1, <2>3, <2>5 DEF BytesAccountedFor
<1>9. PacketsOfTheWire' /\ NothingAfterRefusal'
  BY FramePackets, FrameRefusal DEF Transform
<1> QED BY <1>6, <1>7, <1>8, <1>9 DEF Inv

\* A packet is consumed, and enqueued or refused.
LEMMA ConsumeInv ==
  ASSUME Inv, Enqueue \/ Refuse
  PROVE  Inv'
<1>1. InLoop /\ Consume /\ UNCHANGED <<wire, got, partial, chunk, pc>> /\ pc = "loop"
  BY DEF Enqueue, Refuse, InLoop
<1>2. /\ wire \in Seq(Byte) /\ got \in Nat
      /\ emitted \in Seq(Packet) /\ ends \in Seq(Nat) /\ errored \in BOOLEAN
      /\ Len(emitted) <= Len(ends)
      /\ ~errored => Len(emitted) = Len(ends)
      /\ errored => Len(emitted) < Len(ends)
  BY <1>1, WiresAssumption DEF Inv, TypeOK, NothingAfterRefusal, RefusedInLoop
<1>3. /\ Frame(chunk, pos) \in Packet
      /\ pos' \in 0..Len(chunk)
      /\ ends' \in Seq(Nat)
      /\ Len(ends') = Len(ends) + 1
      /\ Boundary(Len(ends))' = got - Len(chunk) + pos'
  BY <1>1, ConsumeFacts
<1>4. \/ /\ ~errored /\ ~errored' /\ chunk[pos + 1] \notin BadHeads
         /\ emitted' = Append(emitted, Frame(chunk, pos))
         /\ Len(emitted') = Len(emitted) + 1
         /\ emitted' \in Seq(Packet)
      \/ /\ errored' = TRUE /\ emitted' = emitted
         /\ errored \/ chunk[pos + 1] \in BadHeads
  <2>1. CASE Enqueue
    <3>1. /\ ~errored /\ ~errored' /\ chunk[pos + 1] \notin BadHeads
          /\ emitted' = Append(emitted, Frame(chunk, pos))
      BY <2>1 DEF Enqueue
    <3>2. Len(emitted') = Len(emitted) + 1 /\ emitted' \in Seq(Packet)
      BY <1>2, <1>3, <3>1
    <3> QED BY <3>1, <3>2
  <2>2. CASE Refuse
    BY <2>2 DEF Refuse, Fail
  <2> QED BY <2>1, <2>2
<1>5. TypeOK'
  <2>1. emitted' \in Seq(Packet)
    BY <1>2, <1>4
  <2>2. errored' \in BOOLEAN
    BY <1>2, Zenon DEF Enqueue, Refuse, Fail
  <2>3. wire \in Wires /\ got \in 0..Len(wire) /\ partial \in Seq(Byte) /\ chunk \in Seq(Byte)
    BY DEF Inv, TypeOK
  <2> QED BY <1>1, <1>3, <2>1, <2>2, <2>3 DEF TypeOK
<1>6. WithinReceived' /\ OnlyIncompleteKept'
  BY <1>1 DEF Inv, WithinReceived, OnlyIncompleteKept
<1>7. RefusedInLoop'
  BY <1>2, <1>3, <1>4 DEF RefusedInLoop
<1>8. BytesAccountedFor'
  <2>1. partial = <<>> /\ chunk = SubSeq(wire, got - Len(chunk) + 1, got)
    BY <1>1 DEF Inv, BytesAccountedFor
  <2> QED BY <1>1, <1>3, <2>1 DEF BytesAccountedFor
<1>9. PacketsOfTheWire'
  BY <1>1, <1>4, ConsumeKeepsPackets
<1>10. NothingAfterRefusal'
  <2>1. /\ Len(emitted') <= Len(ends')
        /\ ~errored' => Len(emitted') = Len(ends')
    BY <1>2, <1>3, <1>4
  <2>2. ASSUME NEW i \in 1..(Len(ends) + 1)
        PROVE  i <= Len(emitted') <=> Accepted(i)'
    <3>1. Accepted(i)' <=> Accepted(i)
      BY <1>1, AcceptedFacts
    <3>2. CASE i \in 1..Len(ends)
      <4>1. i <= Len(emitted') <=> i <= Len(emitted)
        BY <1>2, <1>4, <3>2
      <4> QED BY <1>1, <3>1, <3>2, <4>1, AcceptedFacts
    <3>3. CASE i = Len(ends) + 1
      <4>1. Accepted(i) <=> Accepted(Len(ends)) /\ chunk[pos + 1] \notin BadHeads
        BY <1>1, <3>3, AcceptedFacts
      <4>2. i <= Len(emitted') <=> ~errored /\ chunk[pos + 1] \notin BadHeads
        BY <1>2, <1>4, <3>3
      <4>3. ~errored <=> Accepted(Len(ends))
        <5>1. CASE Len(ends) = 0
          BY <1>2, <5>1 DEF Accepted
        <5>2. CASE Len(ends) \in Nat \ {0}
          <6>1. Len(ends) <= Len(emitted) <=> Accepted(Len(ends))
            BY <1>1, <5>2, AcceptedFacts
          <6> QED BY <1>2, <6>1
        <5> QED BY <1>2, <5>1, <5>2
      <4> QED BY <3>1, <4>1, <4>2, <4>3
    <3> QED BY <1>2, <3>2, <3>3
  <2> QED BY <1>3, <2>1, <2>2 DEF NothingAfterRefusal, Accepted
<1> QED BY <1>5, <1>6, <1>7, <1>8, <1>9, <1>10 DEF Inv

\* What is kept is the piece from the boundary on, and begins with no whole packet.
LEMMA KeepRestInv == ASSUME Inv, KeepRest PROVE Inv'
<1>1. pc = "loop" /\ pos < Len(chunk) /\ ~Whole(chunk, pos) /\ pc' = "idle"
      /\ UNCHANGED <<wire, got, chunk, pos, errored, emitted, ends>>
      /\ partial' = SubSeq(chunk, pos + 1, Len(chunk))
  BY DEF KeepRest, InLoop, Rest
<1> DEFINE o == got - Len(chunk)
<1>2. /\ wire \in Seq(Byte) /\ chunk \in Seq(Byte)
      /\ o \in Nat
      /\ Window(chunk, wire, o)
      /\ Boundary(Len(ends)) = o + pos
  BY <1>1, LoopWindow
<1>3. /\ pos \in Nat /\ got \in Nat /\ got <= Len(wire)
      /\ chunk = SubSeq(wire, o + 1, got)
      /\ ends \in Seq(Nat)
      /\ Len(chunk) \in Nat /\ Len(chunk) = got - o
  BY <1>1, <1>2 DEF Inv, TypeOK, BytesAccountedFor
<1> HIDE DEF o
<1>4. pos \in 0..(got - o) /\ o <= got
  BY <1>1, <1>2, <1>3
<1>5. partial' = SubSeq(wire, o + pos + 1, got)
  <2>1. SubSeq(SubSeq(wire, o + 1, got), pos + 1, got - o) = SubSeq(wire, o + pos + 1, got)
    BY <1>2, <1>3, <1>4, RestOfPiece
  <2> QED BY <1>1, <1>3, <2>1
<1>6. o + pos \in Nat /\ o + pos <= got
  BY <1>2, <1>3, <1>4
<1>7. partial' \in Seq(Byte) /\ Len(partial') = got - (o + pos)
  BY <1>2, <1>3, <1>5, <1>6, PieceFacts
<1>8. TypeOK'
  BY <1>1, <1>7 DEF Inv, TypeOK
<1>9. WithinReceived' /\ RefusedInLoop'
  BY <1>1, <1>2, <1>3, <1>6, <1>7 DEF Inv, WithinReceived, RefusedInLoop
<1>10. Boundary(Len(ends))' = o + pos
  BY <1>1, <1>2 DEF Boundary
<1>11. BytesAccountedFor'
  <2>1. got' - Len(partial') = o + pos /\ got' = got /\ wire' = wire
    BY <1>1, <1>2, <1>3, <1>6, <1>7
  <2>2. partial' = SubSeq(wire', got' - Len(partial') + 1, got')
    BY <1>5, <2>1
  <2> QED BY <1>1, <1>10, <2>1, <2>2 DEF BytesAccountedFor
<1>12. OnlyIncompleteKept'
  <2>1. Whole(wire, o + pos) => FrameEnd(wire, o + pos) > got
    <3> SUFFICES ASSUME Whole(wire, o + pos), ~(FrameEnd(wire, o + pos) > got) PROVE FALSE
      OBVIOUS
    <3>1. FrameEnd(wire, o + pos) \in Nat
      BY <1>2, <1>6, IntegerFacts DEF Whole
    <3>2. FrameEnd(wire, o + pos) <= o + Len(chunk)
      BY <1>2, <1>3, <3>1
    <3>3. Whole(chunk, pos)
      BY <1>2, <1>3, <3>2, WindowWhole
    <3> QED BY <1>1, <3>3
  <2> QED BY <1>1, <1>10, <2>1 DEF OnlyIncompleteKept
<1>13. PacketsOfTheWire' /\ NothingAfterRefusal'
  BY <1>1, FramePackets, FrameRefusal
<1> QED BY <1>8, <1>9, <1>11, <1>12, <1>13 DEF Inv

\* An exception of transform leaves everything but the error in place.
LEMMA ThrowInv == ASSUME Inv, Throw PROVE Inv'
<1>1. pc = "loop" /\ pc' = "idle" /\ errored' = TRUE
      /\ UNCHANGED <<wire, got, partial, chunk, pos, emitted, ends>>
  BY DEF Throw, InLoop
<1>2. TypeOK'
  BY <1>1 DEF Inv, TypeOK
<1>3. WithinReceived'
  <2>1. partial = <<>> /\ got \in Nat
    BY <1>1 DEF Inv, TypeOK, BytesAccountedFor
  <2>2. Len(partial) = 0
    BY <2>1
  <2> QED BY <1>1, <2>1, <2>2 DEF Inv, WithinReceived
<1>4. BytesAccountedFor' /\ RefusedInLoop' /\ OnlyIncompleteKept'
  BY <1>1 DEF BytesAccountedFor, RefusedInLoop, OnlyIncompleteKept
<1>5. PacketsOfTheWire' /\ NothingAfterRefusal'
  BY <1>1, FramePackets, FrameRefusal
<1> QED BY <1>2, <1>3, <1>4, <1>5 DEF Inv

\* When the chunk was read to its end, the boundary is where the received bytes end.
LEMMA ReturnInv == ASSUME Inv, Return PROVE Inv'
<1>1. pc = "loop" /\ pc' = "idle" /\ pos = Len(chunk)
      /\ UNCHANGED <<wire, got, partial, chunk, pos, errored, emitted, ends>>
  BY DEF Return
<1>2. /\ wire \in Seq(Byte) /\ got \in Nat /\ got <= Len(wire) /\ Len(chunk) \in Nat
      /\ Boundary(Len(ends)) = got - Len(chunk) + pos
      /\ partial = <<>>
  BY <1>1, WiresAssumption DEF Inv, TypeOK, BytesAccountedFor
<1>3. Boundary(Len(ends)) = got /\ Len(partial) = 0
  BY <1>1, <1>2
<1>4. TypeOK' /\ WithinReceived' /\ RefusedInLoop'
  BY <1>1, <1>2, <1>3 DEF Inv, TypeOK, WithinReceived, RefusedInLoop
<1>5. Boundary(Len(ends))' = got
  BY <1>1, <1>3 DEF Boundary
<1>6. BytesAccountedFor'
  <2>1. SubSeq(wire, got + 1, got) = <<>>
    BY <1>2, SubSeqEmpty
  <2>2. got' - Len(partial') = got /\ partial' = SubSeq(wire', got' - Len(partial') + 1, got')
    BY <1>1, <1>2, <1>3, <2>1
  <2> QED BY <1>1, <1>5, <2>2 DEF BytesAccountedFor
<1>7. OnlyIncompleteKept'
  BY <1>1, <1>2, <1>5, FrameIsNotEmpty DEF OnlyIncompleteKept
<1>8. PacketsOfTheWire' /\ NothingAfterRefusal'
  BY <1>1, FramePackets, FrameRefusal
<1> QED BY <1>4, <1>6, <1>7, <1>8 DEF Inv

\* Closing, and a step that changes nothing.
LEMMA IdleInv ==
  ASSUME Inv, Close \/ UNCHANGED vars
  PROVE  Inv'
<1>1. /\ UNCHANGED <<wire, got, partial, chunk, pos, errored, emitted, ends>>
      /\ pc' = pc \/ (pc = "idle" /\ pc' = "closed")
  BY DEF Close, vars
<1>2. \A i : Boundary(i)' = Boundary(i)
  BY <1>1 DEF Boundary
<1>3. TypeOK' /\ WithinReceived' /\ RefusedInLoop'
  BY <1>1 DEF Inv, TypeOK, WithinReceived, RefusedInLoop
<1>4. BytesAccountedFor' /\ OnlyIncompleteKept'
  BY <1>1, <1>2 DEF Inv, BytesAccountedFor, OnlyIncompleteKept
<1>5. PacketsOfTheWire' /\ NothingAfterRefusal'
  BY <1>1, FramePackets, FrameRefusal
<1> QED BY <1>3, <1>4, <1>5 DEF Inv
-----------------------------------------------------------------------------
\* The invariant holds always: the theorems below follow from it.
THEOREM StreamInv == Spec => []Inv
<1>1. Init => Inv
  BY InitInv
<1>2. Inv /\ [Next]_vars => Inv'
  <2> SUFFICES ASSUME Inv, [Next]_vars PROVE Inv'
    OBVIOUS
  <2>1. CASE \E n \in 0..(Len(wire) - got) : Transform(n)
    BY <2>1, TransformInv
  <2>2. CASE LoopStep
    BY <2>2, ConsumeInv, KeepRestInv, ThrowInv, ReturnInv DEF LoopStep
  <2>3. CASE Close \/ UNCHANGED vars
    BY <2>3, IdleInv
  <2> QED BY <2>1, <2>2, <2>3 DEF Next
<1> QED BY <1>1, <1>2, PTL DEF Spec

\* Every variable of the stream keeps its type (src/mqtt/DeserializeStream.ts):
\* the reader never leaves the chunk.
THEOREM StreamTypeCorrect == Spec => []TypeOK
<1>1. Inv => TypeOK
  BY DEF Inv
<1> QED BY <1>1, StreamInv, PTL

\* No byte that was received is lost, read twice or moved by joining and keeping
\* chunks (lines 40-48, 57-66).
THEOREM NoByteLost == Spec => []BytesAccountedFor
<1>1. Inv => BytesAccountedFor
  BY DEF Inv
<1> QED BY <1>1, StreamInv, PTL

\* However the wire is cut, what is enqueued is its packets, in order, up to the
\* first one that is refused, and each with the call that brings its last byte
\* (the loop of transform, lines 51-79).
THEOREM PacketsInOrder == Spec => []PacketsOfTheWire
<1>1. Inv => PacketsOfTheWire
  BY DEF Inv
<1> QED BY <1>1, StreamInv, PTL

\* No packet is enqueued behind one that deserializePacket refused (line 76).
THEOREM RefusalIsLast == Spec => []NothingAfterRefusal
<1>1. Inv => NothingAfterRefusal
  BY DEF Inv
<1> QED BY <1>1, StreamInv, PTL

\* Between two calls nothing but an incomplete packet is kept (lines 57-66).
THEOREM KeptIsIncomplete == Spec => []OnlyIncompleteKept
<1>1. Inv => OnlyIncompleteKept
  BY DEF Inv
<1> QED BY <1>1, StreamInv, PTL
-----------------------------------------------------------------------------
(* The in-order delivery.                                                  *)

\* A packet of a wire, and where it ends.
LEMMA FrameFacts ==
  ASSUME NEW w \in Seq(Byte), NEW p \in Nat, Whole(w, p)
  PROVE  FrameEnd(w, p) \in (p + 2)..Len(w) /\ Frame(w, p) \in Packet
<1>1. Window(w, w, 0) /\ 0 \in Nat
  BY DEF Window
<1> QED BY <1>1, WindowFrame

\* The equation of PacketsFrom: it is the only function with it.
LEMMA PacketsFromDef ==
  ASSUME NEW w \in Seq(Byte), NEW p \in 0..Len(w)
  PROVE  /\ PacketsFrom(w)[p] \in Seq(Packet)
         /\ PacketsFrom(w)[p] = IF Whole(w, p) /\ w[p + 1] \notin BadHeads
                                THEN <<Frame(w, p)>> \o PacketsFrom(w)[FrameEnd(w, p)]
                                ELSE <<>>
<1> DEFINE D    == 0..Len(w)
           V    == Seq(Packet)
           base == {d \in D : ~(Whole(w, d) /\ w[d + 1] \notin BadHeads)}
           init == [d \in D |-> <<>>]
           prev == [d \in D |-> IF d \in base THEN d ELSE FrameEnd(w, d)]
           step == [dt \in D \X V |->
                      IF dt[1] \in base THEN <<>> ELSE <<Frame(w, dt[1])>> \o dt[2]]
           rank == [d \in D |-> Len(w) - d]
           Eqn(g) == g = [d \in 0..Len(w) |->
                           IF Whole(w, d) /\ w[d + 1] \notin BadHeads
                           THEN <<Frame(w, d)>> \o g[FrameEnd(w, d)] ELSE <<>>]
<1>1. Len(w) \in Nat
  OBVIOUS
<1>2. \A d \in D : d \notin base => FrameEnd(w, d) \in (d + 2)..Len(w) /\ Frame(w, d) \in Packet
  <2> SUFFICES ASSUME NEW d \in D, d \notin base
               PROVE  FrameEnd(w, d) \in (d + 2)..Len(w) /\ Frame(w, d) \in Packet
    OBVIOUS
  <2>1. Whole(w, d) /\ d \in Nat
    BY <1>1
  <2> QED BY <2>1, FrameFacts
<1>3. /\ rank \in [D -> Nat] /\ init \in [D -> V] /\ prev \in [D -> D]
      /\ \A d \in D : d \notin base => rank[prev[d]] < rank[d]
  <2>1. rank \in [D -> Nat] /\ init \in [D -> V]
    BY <1>1
  <2> HIDE DEF base
  <2>2. prev \in [D -> D]
    BY <1>1, <1>2
  <2>3. \A d \in D : d \notin base => rank[prev[d]] < rank[d]
    BY <1>1, <1>2
  <2> QED BY <2>1, <2>2, <2>3
<1>4. step \in [D \X V -> V]
  <2> HIDE DEF base
  <2>1. ASSUME NEW d \in D, NEW t \in V, d \notin base PROVE <<Frame(w, d)>> \o t \in V
    BY <1>2, <2>1, InFront
  <2> QED BY <2>1
<1>5. PICK g \in [D -> V] : \A d \in D : Follows(g, base, init, prev, step, d)
  <2>1. <<>> \in V
    OBVIOUS
  <2> HIDE DEF D, V, base, init, prev, step, rank
  <2> QED BY <1>3, <1>4, <2>1, Recursion, ZenonT(30)
<1>6. ASSUME NEW d \in D
      PROVE  g[d] = IF Whole(w, d) /\ w[d + 1] \notin BadHeads
                    THEN <<Frame(w, d)>> \o g[FrameEnd(w, d)] ELSE <<>>
  <2>1. Follows(g, base, init, prev, step, d)
    BY <1>5
  <2>2. CASE d \in base
    BY <2>1, <2>2 DEF Follows
  <2>3. CASE d \notin base
    <3>1. g[d] = step[<<d, g[FrameEnd(w, d)]>>]
      BY <2>1, <2>3 DEF Follows
    <3>2. g[FrameEnd(w, d)] \in V
      BY <1>1, <1>2, <1>5, <2>3
    <3>3. g[d] = <<Frame(w, d)>> \o g[FrameEnd(w, d)]
      BY <2>3, <3>1, <3>2
    <3> QED BY <2>3, <3>3
  <2> QED BY <2>2, <2>3
<1>7. Eqn(g)
  BY <1>5, <1>6
<1>8. PacketsFrom(w) = CHOOSE h : Eqn(h)
  BY Zenon DEF PacketsFrom
<1>9. Eqn(PacketsFrom(w))
  <2> HIDE DEF Eqn
  <2> QED BY <1>7, <1>8, Zenon
<1> DEFINE F == PacketsFrom(w)
<1>10. ASSUME NEW d \in D
       PROVE  F[d] = IF Whole(w, d) /\ w[d + 1] \notin BadHeads
                     THEN <<Frame(w, d)>> \o F[FrameEnd(w, d)] ELSE <<>>
  <2>1. F = [e \in 0..Len(w) |->
               IF Whole(w, e) /\ w[e + 1] \notin BadHeads
               THEN <<Frame(w, e)>> \o F[FrameEnd(w, e)] ELSE <<>>]
    BY <1>9
  <2> HIDE DEF F
  <2> QED BY <2>1
<1> HIDE DEF F
<1>11. \A d \in D : F[d] \in V
  <2> DEFINE T == {d \in D : F[d] \notin V}
  <2> SUFFICES ASSUME T # {} PROVE FALSE
    OBVIOUS
  <2>1. PICK d \in T : \A e \in T : rank[d] <= rank[e]
    <3>1. T \in SUBSET D
      OBVIOUS
    <3> HIDE DEF T, rank, D
    <3> QED BY <1>3, <3>1, LeastRank
  <2>2. d \in D /\ F[d] \notin V /\ \A e \in D : F[e] \notin V => rank[d] <= rank[e]
    BY <2>1
  <2> HIDE DEF T
  <2>3. CASE d \in base
    <3>1. F[d] = <<>>
      BY <1>10, <2>2, <2>3
    <3> QED BY <2>2, <3>1
  <2>4. CASE d \notin base
    <3> DEFINE e == FrameEnd(w, d)
               v == Frame(w, d)
    <3>1. e \in (d + 2)..Len(w) /\ v \in Packet
      BY <1>2, <2>2, <2>4
    <3>2. F[d] = <<v>> \o F[e]
      BY <1>10, <2>2, <2>4
    <3> HIDE DEF e, v
    <3>3. e \in D /\ ~(rank[d] <= rank[e])
      BY <1>1, <2>2, <3>1
    <3>4. F[e] \in V
      BY <2>2, <3>3
    <3>5. <<v>> \o F[e] \in V
      BY <3>1, <3>4, InFront
    <3> QED BY <2>2, <3>2, <3>5
  <2> QED BY <2>3, <2>4
<1> QED BY <1>10, <1>11 DEF F

\* What was enqueued is what comes first of what PacketsFrom finds on the wire.
GivenFirst ==
  LET all == PacketsFrom(wire)[0]
  IN  /\ all \in Seq(Packet) /\ Len(emitted) <= Len(all)
      /\ \A i \in 1..Len(emitted) : all[i] = emitted[i]

\* By induction on the number of packets: up to the boundary behind each, what
\* PacketsFrom finds is what was enqueued, followed by what it finds from there.
LEMMA FirstPackets == ASSUME Inv PROVE GivenFirst
<1> DEFINE P(q) == PacketsFrom(wire)[q]
           n == Len(emitted)
           Fits(i) == /\ Boundary(i) \in 0..Len(wire) /\ P(Boundary(i)) \in Seq(Packet)
                      /\ Len(P(0)) = i + Len(P(Boundary(i)))
                      /\ \A j \in 1..i : P(0)[j] = emitted[j]
                      /\ \A j \in 1..Len(P(Boundary(i))) : P(0)[i + j] = P(Boundary(i))[j]
           S == {i \in Nat : i <= n => Fits(i)}
<1>1. /\ wire \in Seq(Byte) /\ Len(wire) \in Nat
      /\ emitted \in Seq(Packet) /\ ends \in Seq(Nat) /\ n \in Nat /\ n <= Len(ends)
  BY WiresAssumption DEF Inv, TypeOK, NothingAfterRefusal
<1>2. \A q \in 0..Len(wire) : P(q) \in Seq(Packet)
  BY <1>1, PacketsFromDef
<1>3. 0 \in S
  <2>1. Boundary(0) = 0 /\ 0 \in 0..Len(wire) /\ 0 \in Nat
    BY <1>1 DEF Boundary
  <2>2. P(0) \in Seq(Packet)
    BY <1>2, <2>1
  <2> HIDE DEF P
  <2> QED BY <2>1, <2>2
<1>4. ASSUME NEW i \in Nat, i \in S PROVE i + 1 \in S
  <2> HIDE DEF Fits
  <2> SUFFICES ASSUME i + 1 <= n PROVE Fits(i + 1)
    OBVIOUS
  <2> DEFINE b == Boundary(i)
             c == FrameEnd(wire, b)
             f == Frame(wire, b)
  <2>1. /\ b \in 0..Len(wire) /\ Len(P(0)) = i + Len(P(b))
        /\ \A j \in 1..i : P(0)[j] = emitted[j]
        /\ \A j \in 1..Len(P(b)) : P(0)[i + j] = P(b)[j]
    <3>1. i <= n
      BY <1>1
    <3>2. Fits(i)
      BY <1>4, <3>1
    <3> QED BY <3>2 DEF Fits
  <2>2. i + 1 \in 1..Len(ends) /\ i + 1 \in 1..n /\ (i + 1) - 1 = i
    BY <1>1
  <2>3. /\ Whole(wire, b) /\ Boundary(i + 1) = c /\ emitted[i + 1] = f
        /\ wire[b + 1] \notin BadHeads
    <3>1. Whole(wire, b) /\ ends[i + 1] = c /\ emitted[i + 1] = f
      BY <2>2 DEF Inv, PacketsOfTheWire
    <3>2. \A j \in 1..(i + 1) : wire[Boundary(j - 1) + 1] \notin BadHeads
      BY <2>2 DEF Inv, NothingAfterRefusal
    <3>3. i + 1 \in 1..(i + 1) /\ i + 1 # 0
      OBVIOUS
    <3>4. wire[Boundary((i + 1) - 1) + 1] \notin BadHeads
      BY <3>2, <3>3
    <3> QED BY <2>2, <3>1, <3>3, <3>4 DEF Boundary
  <2>4. c \in 0..Len(wire) /\ f \in Packet
    <3>1. b \in Nat
      BY <1>1, <2>1
    <3> HIDE DEF b, c, f
    <3>2. c \in (b + 2)..Len(wire) /\ f \in Packet
      BY <1>1, <2>3, <3>1, FrameFacts DEF c, f
    <3> QED BY <1>1, <3>1, <3>2
  <2>5. P(b) = <<f>> \o P(c)
    <3> HIDE DEF b
    <3> QED BY <1>1, <2>1, <2>3, PacketsFromDef
  <2>6. P(c) \in Seq(Packet)
    BY <1>2, <2>4
  <2> HIDE DEF P, b, c, f
  <2>7. /\ Len(P(b)) = Len(P(c)) + 1 /\ P(b)[1] = f
        /\ \A j \in 1..Len(P(c)) : P(b)[j + 1] = P(c)[j]
    BY <2>4, <2>5, <2>6, InFront
  <2>8. Len(P(0)) = (i + 1) + Len(P(c))
    BY <2>1, <2>6, <2>7
  <2>9. ASSUME NEW j \in 1..(i + 1) PROVE P(0)[j] = emitted[j]
    <3>1. CASE j \in 1..i
      BY <2>1, <3>1
    <3>2. CASE j = i + 1
      <4>1. 1 \in 1..Len(P(b))
        BY <2>6, <2>7
      <4>2. P(0)[i + 1] = P(b)[1]
        BY <2>1, <4>1
      <4> QED BY <2>3, <2>7, <3>2, <4>2
    <3> QED BY <3>1, <3>2
  <2>10. ASSUME NEW j \in 1..Len(P(c)) PROVE P(0)[(i + 1) + j] = P(c)[j]
    <3>1. j + 1 \in 1..Len(P(b)) /\ i + (j + 1) = (i + 1) + j
      BY <2>6, <2>7
    <3>2. P(0)[i + (j + 1)] = P(b)[j + 1]
      BY <2>1, <3>1
    <3> QED BY <2>7, <3>1, <3>2
  <2> QED BY <2>3, <2>4, <2>6, <2>8, <2>9, <2>10 DEF Fits
<1> HIDE DEF Fits, S
<1>5. n \in S
  BY <1>1, <1>3, <1>4, NatSteps
<1>6. /\ P(0) \in Seq(Packet) /\ Len(P(0)) = n + Len(P(Boundary(n)))
      /\ P(Boundary(n)) \in Seq(Packet) /\ \A j \in 1..n : P(0)[j] = emitted[j]
  <2>1. Fits(n)
    BY <1>1, <1>5 DEF S
  <2>2. P(0) \in Seq(Packet)
    BY <1>1, <1>2
  <2> QED BY <2>1, <2>2 DEF Fits
<1> HIDE DEF P
<1>7. n <= Len(P(0))
  BY <1>1, <1>6
<1> QED BY <1>6, <1>7 DEF P, GivenFirst

\* A step of the stream is one of the in-order delivery, or leaves it alone.
LEMMA DeliveryStep ==
  ASSUME Inv, GivenFirst, GivenFirst', [Next]_vars
  PROVE  [Delivery!Next]_<<PacketsFrom(wire)[0], emitted, errored>>
<1> DEFINE all == PacketsFrom(wire)[0]
<1>1. CASE Enqueue
  <2>1. /\ ~errored /\ errored' = errored /\ wire' = wire
        /\ emitted' = Append(emitted, Frame(chunk, pos))
    BY <1>1 DEF Enqueue
  <2>2. Frame(chunk, pos) \in Packet /\ emitted \in Seq(Packet)
    BY <1>1, ConsumeFacts DEF Enqueue, Inv, TypeOK
  <2>3. all' = all
    BY <2>1
  <2>4. Len(emitted') <= Len(all) /\ \A i \in 1..Len(emitted') : all[i] = emitted'[i]
    <3>1. /\ Len(emitted') <= Len(PacketsFrom(wire')[0])
          /\ \A i \in 1..Len(emitted') : PacketsFrom(wire')[0][i] = emitted'[i]
      BY Zenon DEF GivenFirst
    <3> QED BY <2>1, <3>1
  <2>5. all \in Seq(Packet)
    BY Zenon DEF GivenFirst
  <2> HIDE DEF all
  <2>6. /\ Len(emitted') = Len(emitted) + 1
        /\ emitted'[Len(emitted) + 1] = Frame(chunk, pos)
    BY <2>1, <2>2
  <2>7. Len(emitted) < Len(all) /\ all[Len(emitted) + 1] = Frame(chunk, pos)
    BY <2>2, <2>4, <2>5, <2>6
  <2>8. Len(emitted) < Len(all) /\ emitted' = Append(emitted, all[Len(emitted) + 1])
    BY <2>1, <2>7
  <2> QED BY <2>1, <2>3, <2>8 DEF Delivery!Next, Delivery!Deliver, all
<1>2. CASE (\E n \in 0..(Len(wire) - got) : Transform(n)) \/ KeepRest \/ Return \/ Close
  BY <1>2 DEF Transform, KeepRest, Return, Close
<1>3. CASE Refuse \/ Throw
  <2>1. errored' = TRUE /\ wire' = wire /\ emitted' = emitted
    BY <1>3 DEF Refuse, Fail, Throw
  <2> QED BY <2>1 DEF Delivery!Next, Delivery!Break
<1>4. CASE UNCHANGED vars
  BY <1>4 DEF vars
<1> QED BY <1>1, <1>2, <1>3, <1>4 DEF Next, LoopStep

\* The stream implements the in-order delivery of the packets the wire begins with:
\* they are enqueued one after the other from the first, and none once the stream
\* was given an error (ImplementsInOrderDelivery).
THEOREM StreamImplementsInOrderDelivery == Spec => ImplementsInOrderDelivery
<1>1. Init => Delivery!Init
  BY DEF Init, Delivery!Init
<1>2. Inv => GivenFirst
  BY FirstPackets
<1>3. Inv /\ GivenFirst /\ GivenFirst' /\ [Next]_vars
        => [Delivery!Next]_<<PacketsFrom(wire)[0], emitted, errored>>
  BY DeliveryStep
<1> QED BY <1>1, <1>2, <1>3, StreamInv, PTL DEF Spec, ImplementsInOrderDelivery, Delivery!Spec

-----------------------------------------------------------------------------
(* Packets that were written.                                              *)

\* On a wire that is made of packets, the boundaries are between them.
LEMMA PieceBoundaries ==
  ASSUME Inv, NEW pieces \in Seq(Seq(Byte)), \A i \in 1..Len(pieces) : IsPacket(pieces[i]),
         NEW at \in [0..Len(pieces) -> 0..Len(wire)],
         at[0] = 0, at[Len(pieces)] = Len(wire),
         \A i \in 1..Len(pieces) :
           at[i - 1] <= at[i] /\ SubSeq(wire, at[i - 1] + 1, at[i]) = pieces[i]
  PROVE  /\ Len(ends) <= Len(pieces)
         /\ \A i \in 0..Len(ends) : Boundary(i) = at[i]
         /\ \A i \in 0..(Len(pieces) - 1) :
              /\ at[i] \in 0..Len(wire) /\ at[i + 1] \in 0..Len(wire)
              /\ Whole(wire, at[i]) /\ FrameEnd(wire, at[i]) = at[i + 1]
              /\ Frame(wire, at[i]) = Frame(pieces[i + 1], 0)
              /\ wire[at[i] + 1] \notin BadHeads
<1> DEFINE n == Len(pieces)
<1>1. /\ wire \in Seq(Byte) /\ Len(wire) \in Nat /\ n \in Nat
      /\ ends \in Seq(Nat) /\ Len(ends) \in Nat
  BY WiresAssumption DEF Inv, TypeOK
<1>2. ASSUME NEW i \in 0..(n - 1)
      PROVE  /\ at[i] \in 0..Len(wire) /\ at[i + 1] \in 0..Len(wire)
             /\ Whole(wire, at[i]) /\ FrameEnd(wire, at[i]) = at[i + 1]
             /\ Frame(wire, at[i]) = Frame(pieces[i + 1], 0)
             /\ wire[at[i] + 1] \notin BadHeads
  <2> DEFINE a == at[i]
             b == at[i + 1]
             s == pieces[i + 1]
  <2>1. i \in 0..n /\ i + 1 \in 1..n /\ i + 1 \in 0..n /\ (i + 1) - 1 = i
    BY <1>1
  <2>2. a \in 0..Len(wire) /\ b \in 0..Len(wire)
    BY <2>1
  <2>3. a <= b /\ SubSeq(wire, a + 1, b) = s
    <3>1. at[(i + 1) - 1] <= at[i + 1]
          /\ SubSeq(wire, at[(i + 1) - 1] + 1, at[i + 1]) = pieces[i + 1]
      BY <2>1
    <3> QED BY <2>1, <3>1
  <2>4. s \in Seq(Byte) /\ IsPacket(s)
    BY <2>1
  <2> HIDE DEF a, b, s, n
  <2>5. a \in Nat /\ b \in Nat /\ b <= Len(wire)
    BY <1>1, <2>2
  <2>6. Len(s) = b - a /\ \A j \in 1..(b - a) : s[j] = wire[a + j]
    BY <1>1, <2>3, <2>5, PieceFacts
  <2>7. Window(s, wire, a)
    BY <1>1, <2>5, <2>6 DEF Window
  <2>8. 0 \in Nat /\ a + 0 = a /\ 0 + 1 = 1
    BY <2>5
  <2>9. Whole(s, 0) /\ FrameEnd(s, 0) = Len(s) /\ s[1] \notin BadHeads
    BY <2>4, Len(s) \in Nat DEF IsPacket, Whole
  <2>10. /\ Whole(wire, a + 0) /\ FrameEnd(wire, a + 0) = a + FrameEnd(s, 0)
         /\ Frame(wire, a + 0) = Frame(s, 0) /\ wire[a + 0 + 1] = s[0 + 1]
    BY <1>1, <2>4, <2>5, <2>7, <2>8, <2>9, WindowFrame
  <2>11. /\ Whole(wire, a) /\ FrameEnd(wire, a) = a + Len(s)
         /\ Frame(wire, a) = Frame(s, 0) /\ wire[a + 1] = s[1]
    BY <2>8, <2>9, <2>10
  <2>12. a + Len(s) = b
    BY <2>5, <2>6
  <2> QED BY <2>2, <2>9, <2>11, <2>12 DEF a, b, s
<1> DEFINE S == {i \in Nat : i <= Len(ends) => i <= n /\ Boundary(i) = at[i]}
<1>3. 0 \in S
  BY <1>1 DEF Boundary
<1>4. ASSUME NEW i \in Nat, i \in S PROVE i + 1 \in S
  <2> SUFFICES ASSUME i + 1 <= Len(ends) PROVE i + 1 <= n /\ Boundary(i + 1) = at[i + 1]
    OBVIOUS
  <2>1. i <= n /\ Boundary(i) = at[i]
    BY <1>1, <1>4
  <2>2. i + 1 \in 1..Len(ends) /\ (i + 1) - 1 = i /\ i + 1 # 0
    BY <1>1
  <2>3. Whole(wire, at[i]) /\ Boundary(i + 1) = FrameEnd(wire, at[i])
    <3>1. Whole(wire, Boundary((i + 1) - 1)) /\ ends[i + 1] = FrameEnd(wire, Boundary((i + 1) - 1))
      BY <2>2 DEF Inv, PacketsOfTheWire
    <3> QED BY <2>1, <2>2, <3>1 DEF Boundary
  <2>4. i # n
    <3>1. at[i] \in Nat
      <4>1. i \in 0..Len(pieces)
        BY <1>1, <2>1
      <4>2. at[i] \in 0..Len(wire)
        BY <4>1
      <4> QED BY <1>1, <4>2
    <3>2. FrameEnd(wire, at[i]) \in (at[i] + 2)..Len(wire)
      BY <1>1, <2>3, <3>1, FrameFacts
    <3> QED BY <1>1, <3>1, <3>2
  <2>5. i \in 0..(n - 1)
    BY <1>1, <2>1, <2>4
  <2> QED BY <1>1, <1>2, <2>3, <2>5
<1> HIDE DEF S
<1>5. \A i \in Nat : i \in S
  BY <1>3, <1>4, NatSteps
<1>6. Len(ends) <= n /\ \A i \in 0..Len(ends) : Boundary(i) = at[i]
  BY <1>1, <1>5 DEF S
<1> QED BY <1>2, <1>6

\* The equation of PieceEnds.
LEMMA PieceEndsDef ==
  ASSUME NEW pieces \in Seq(Seq(Byte))
  PROVE  /\ \A i \in 0..Len(pieces) : PieceEnds(pieces)[i] \in Nat
         /\ PieceEnds(pieces)[0] = 0
         /\ \A i \in 1..Len(pieces) :
              PieceEnds(pieces)[i] = PieceEnds(pieces)[i - 1] + Len(pieces[i])
<1> DEFINE D    == 0..Len(pieces)
           base == {0}
           init == [d \in D |-> 0]
           prev == [d \in D |-> IF d = 0 THEN 0 ELSE d - 1]
           step == [dt \in D \X Nat |-> IF dt[1] = 0 THEN 0 ELSE dt[2] + Len(pieces[dt[1]])]
           rank == [d \in D |-> d]
           Eqn(g) == g = [i \in 0..Len(pieces) |-> IF i = 0 THEN 0 ELSE g[i - 1] + Len(pieces[i])]
           F == PieceEnds(pieces)
<1>1. Len(pieces) \in Nat /\ \A d \in D : d # 0 => d \in 1..Len(pieces) /\ Len(pieces[d]) \in Nat
  OBVIOUS
<1>2. /\ rank \in [D -> Nat] /\ init \in [D -> Nat] /\ prev \in [D -> D] /\ 0 \in Nat
      /\ \A d \in D : d \notin base => rank[prev[d]] < rank[d]
  BY <1>1
<1>3. step \in [D \X Nat -> Nat]
  BY <1>1
<1>4. PICK g \in [D -> Nat] : \A d \in D : Follows(g, base, init, prev, step, d)
  <2> HIDE DEF D, base, init, prev, step, rank
  <2> QED BY <1>2, <1>3, Recursion, ZenonT(30)
<1>5. ASSUME NEW i \in D PROVE g[i] = IF i = 0 THEN 0 ELSE g[i - 1] + Len(pieces[i])
  <2>1. Follows(g, base, init, prev, step, i)
    BY <1>4
  <2>2. CASE i = 0
    BY <2>1, <2>2 DEF Follows
  <2>3. CASE i # 0
    <3>1. g[i] = step[<<i, g[i - 1]>>]
      BY <2>1, <2>3 DEF Follows
    <3>2. g[i - 1] \in Nat
      <4>1. i - 1 \in D
        BY <1>1, <2>3
      <4> QED BY <1>4, <4>1
    <3> QED BY <2>3, <3>1, <3>2
  <2> QED BY <2>2, <2>3
<1>6. Eqn(g)
  BY <1>4, <1>5
<1>7. F = CHOOSE h : Eqn(h)
  BY Zenon DEF PieceEnds
<1>8. Eqn(F)
  <2> HIDE DEF Eqn, F
  <2> QED BY <1>6, <1>7, Zenon
<1> HIDE DEF F
<1>9. \A i \in D : F[i] = IF i = 0 THEN 0 ELSE F[i - 1] + Len(pieces[i])
  <2> SUFFICES ASSUME NEW i \in D PROVE F[i] = IF i = 0 THEN 0 ELSE F[i - 1] + Len(pieces[i])
    OBVIOUS
  <2>1. F = [j \in 0..Len(pieces) |-> IF j = 0 THEN 0 ELSE F[j - 1] + Len(pieces[j])]
    BY <1>8
  <2> QED BY <2>1
<1> DEFINE S == {i \in Nat : i <= Len(pieces) => F[i] \in Nat}
<1>10. 0 \in S
  BY <1>1, <1>9
<1>11. ASSUME NEW i \in Nat, i \in S PROVE i + 1 \in S
  <2> SUFFICES ASSUME i + 1 <= Len(pieces) PROVE F[i + 1] \in Nat
    OBVIOUS
  <2>1. i + 1 \in D /\ i + 1 # 0 /\ (i + 1) - 1 = i /\ F[i] \in Nat
    BY <1>1, <1>11
  <2>2. F[i + 1] = F[(i + 1) - 1] + Len(pieces[i + 1])
    BY <1>9, <2>1
  <2> QED BY <1>1, <2>1, <2>2
<1>12. \A i \in Nat : i \in S
  <2> HIDE DEF S
  <2> QED BY <1>10, <1>11, NatSteps
<1>13. \A i \in 1..Len(pieces) : i \in D /\ i # 0
  BY <1>1
<1>14. \A i \in 1..Len(pieces) : F[i] = F[i - 1] + Len(pieces[i])
  BY <1>9, <1>13
<1>15. \A i \in 0..Len(pieces) : F[i] \in Nat
  BY <1>1, <1>12
<1>16. F[0] = 0
  BY <1>1, <1>9
<1> QED BY <1>14, <1>15, <1>16 DEF F

\* The places on a wire of the pieces it is made of.
LEMMA PlacedPieces ==
  ASSUME NEW w \in Seq(Byte), NEW pieces \in Seq(Seq(Byte)), MadeOf(w, pieces)
  PROVE  \E at \in [0..Len(pieces) -> 0..Len(w)] :
           /\ at[0] = 0 /\ at[Len(pieces)] = Len(w)
           /\ \A i \in 1..Len(pieces) :
                at[i - 1] <= at[i] /\ SubSeq(w, at[i - 1] + 1, at[i]) = pieces[i]
<1> DEFINE n == Len(pieces)
           F == PieceEnds(pieces)
           at == [i \in 0..n |-> F[i]]
           S == {i \in Nat : i <= n => F[n - i] <= Len(w)}
<1>1. n \in Nat /\ Len(w) \in Nat /\ \A i \in 1..n : Len(pieces[i]) \in Nat
  OBVIOUS
<1>2. /\ \A i \in 0..n : F[i] \in Nat
      /\ F[0] = 0
      /\ \A i \in 1..n : F[i] = F[i - 1] + Len(pieces[i])
  BY PieceEndsDef
<1>3. /\ F[n] = Len(w)
      /\ \A i \in 1..n : SubSeq(w, F[i - 1] + 1, F[i]) = pieces[i]
  BY DEF MadeOf
<1> HIDE DEF F, n
<1>4. ASSUME NEW i \in 1..n PROVE i - 1 \in 0..n /\ i \in 0..n /\ F[i - 1] <= F[i]
  <2>1. i - 1 \in 0..n /\ i \in 0..n
    BY <1>1
  <2>2. F[i - 1] \in Nat /\ F[i] = F[i - 1] + Len(pieces[i]) /\ Len(pieces[i]) \in Nat
    BY <1>1, <1>2, <2>1
  <2> QED BY <2>1, <2>2
<1>5. 0 \in S
  BY <1>1, <1>3
<1>6. ASSUME NEW i \in Nat, i \in S PROVE i + 1 \in S
  <2> SUFFICES ASSUME i + 1 <= n PROVE F[n - (i + 1)] <= Len(w)
    OBVIOUS
  <2>1. n - i \in 1..n /\ (n - i) - 1 = n - (i + 1) /\ F[n - i] <= Len(w)
    BY <1>1, <1>6
  <2>2. F[(n - i) - 1] <= F[n - i] /\ F[(n - i) - 1] \in Nat /\ F[n - i] \in Nat
    BY <1>2, <1>4, <2>1
  <2> QED BY <1>1, <2>1, <2>2
<1>7. \A i \in Nat : i \in S
  <2> HIDE DEF S
  <2> QED BY <1>5, <1>6, NatSteps
<1>8. ASSUME NEW i \in 0..n PROVE F[i] \in 0..Len(w)
  <2>1. n - i \in Nat /\ n - i <= n /\ n - (n - i) = i
    BY <1>1
  <2>2. F[n - (n - i)] <= Len(w)
    BY <1>7, <2>1
  <2> QED BY <1>1, <1>2, <2>1, <2>2
<1>9. at \in [0..n -> 0..Len(w)] /\ \A i \in 0..n : at[i] = F[i]
  BY <1>8
<1>10. at[0] = 0 /\ at[n] = Len(w)
  BY <1>1, <1>2, <1>3, <1>9
<1>11. \A i \in 1..n : at[i - 1] <= at[i] /\ SubSeq(w, at[i - 1] + 1, at[i]) = pieces[i]
  BY <1>3, <1>4, <1>9
<1> HIDE DEF at
<1> QED BY <1>9, <1>10, <1>11 DEF n

\* Such a wire gives no reason for an error.
LEMMA NoError ==
  ASSUME Inv, NEW pieces \in Seq(Seq(Byte)), \A i \in 1..Len(pieces) : IsPacket(pieces[i]),
         MadeOf(wire, pieces), ~errored
  PROVE  ~Refuse /\ ~Throw
<1>1. PICK at \in [0..Len(pieces) -> 0..Len(wire)] :
        /\ at[0] = 0 /\ at[Len(pieces)] = Len(wire)
        /\ \A i \in 1..Len(pieces) :
             at[i - 1] <= at[i] /\ SubSeq(wire, at[i - 1] + 1, at[i]) = pieces[i]
  <2>1. wire \in Seq(Byte)
    BY WiresAssumption DEF Inv, TypeOK
  <2> QED BY <2>1, PlacedPieces
<1> DEFINE k == Len(ends)
           o == got - Len(chunk)
<1> SUFFICES ASSUME InLoop PROVE ~Refuse /\ ~Throw
  BY DEF Refuse, Throw
<1>2. /\ k <= Len(pieces) /\ Boundary(k) = at[k] /\ k \in Nat /\ Len(pieces) \in Nat
      /\ \A i \in 0..(Len(pieces) - 1) :
           /\ at[i] \in 0..Len(wire)
           /\ Whole(wire, at[i]) /\ wire[at[i] + 1] \notin BadHeads
  <2>1. k \in Nat /\ k \in 0..k /\ Len(pieces) \in Nat
    BY DEF Inv, TypeOK
  <2> QED BY <1>1, <2>1, PieceBoundaries
<1>3. /\ wire \in Seq(Byte) /\ chunk \in Seq(Byte) /\ o \in Nat /\ Window(chunk, wire, o)
      /\ at[k] = o + pos /\ pos \in Nat /\ pos < Len(chunk)
  BY <1>2, LoopWindow DEF InLoop, Inv, TypeOK
<1>4. k \in 0..(Len(pieces) - 1)
  <2>1. o + Len(chunk) <= Len(wire)
    BY <1>3 DEF Window
  <2> HIDE DEF o
  <2>2. at[k] < Len(wire)
    BY <1>3, <2>1
  <2>3. k # Len(pieces)
    BY <1>1, <1>3, <2>2
  <2> QED BY <1>2, <2>3
<1>5. Whole(wire, o + pos) /\ wire[o + pos + 1] \notin BadHeads
  BY <1>2, <1>3, <1>4
<1> HIDE DEF o, k
<1>6. ~Refuse
  <2> SUFFICES ASSUME Refuse PROVE FALSE
    OBVIOUS
  <2>1. chunk[pos + 1] \in BadHeads
    BY DEF Refuse
  <2>2. pos + 1 \in 1..Len(chunk) /\ o + (pos + 1) = o + pos + 1
    BY <1>3
  <2>3. chunk[pos + 1] = wire[o + (pos + 1)]
    BY <2>2, <1>3 DEF Window
  <2> QED BY <1>5, <2>1, <2>2, <2>3
<1>7. ~Throw
  <2> SUFFICES ASSUME Throw PROVE FALSE
    OBVIOUS
  <2>1. /\ pos + 1 + LengthBytes < Len(chunk)
        /\ \A i \in 1..LengthBytes : More(chunk[pos + 1 + i])
    BY DEF Throw, Malformed
  <2>2. PICK j \in 1..LengthBytes : IntegerAt(wire, o + pos + 1, j)
    BY <1>5 DEF Whole, HeaderRead
  <2>3. ~More(wire[(o + pos + 1) + j])
    BY <2>2 DEF IntegerAt
  <2>4. /\ pos + 1 + j \in 1..Len(chunk) /\ o + (pos + 1 + j) = (o + pos + 1) + j
    BY <1>3, <2>1, FramingAssumption
  <2>5. chunk[pos + 1 + j] = wire[o + (pos + 1 + j)]
    BY <1>3, <2>4 DEF Window
  <2> QED BY <2>1, <2>3, <2>4, <2>5
<1> QED BY <1>6, <1>7

\* And once every byte was given, every packet of it was enqueued.
LEMMA AllArrived ==
  ASSUME Inv, NEW pieces \in Seq(Seq(Byte)), \A i \in 1..Len(pieces) : IsPacket(pieces[i]),
         MadeOf(wire, pieces), ~errored
  PROVE  Arrived(pieces)
<1>1. PICK at \in [0..Len(pieces) -> 0..Len(wire)] :
        /\ at[0] = 0 /\ at[Len(pieces)] = Len(wire)
        /\ \A i \in 1..Len(pieces) :
             at[i - 1] <= at[i] /\ SubSeq(wire, at[i - 1] + 1, at[i]) = pieces[i]
  <2>1. wire \in Seq(Byte)
    BY WiresAssumption DEF Inv, TypeOK
  <2> QED BY <2>1, PlacedPieces
<1>2. /\ Len(ends) <= Len(pieces) /\ \A i \in 0..Len(ends) : Boundary(i) = at[i]
      /\ \A i \in 0..(Len(pieces) - 1) :
           /\ at[i + 1] \in 0..Len(wire)
           /\ Whole(wire, at[i]) /\ FrameEnd(wire, at[i]) = at[i + 1]
           /\ Frame(wire, at[i]) = Frame(pieces[i + 1], 0)
  BY <1>1, PieceBoundaries
<1>3. Len(emitted) = Len(ends) /\ Len(ends) \in Nat /\ Len(pieces) \in Nat /\ Len(wire) \in Nat
  BY WiresAssumption DEF Inv, TypeOK, NothingAfterRefusal
<1>4. ASSUME NEW i \in 1..Len(emitted)
      PROVE  i <= Len(pieces) /\ emitted[i] = Frame(pieces[i], 0)
  <2>1. i \in 1..Len(ends) /\ i <= Len(emitted) /\ i - 1 \in 0..Len(ends)
        /\ i - 1 \in 0..(Len(pieces) - 1) /\ (i - 1) + 1 = i /\ i <= Len(pieces)
    BY <1>2, <1>3
  <2>2. emitted[i] = Frame(wire, Boundary(i - 1)) /\ Boundary(i - 1) = at[i - 1]
    BY <1>2, <2>1 DEF Inv, PacketsOfTheWire
  <2>3. Frame(wire, at[i - 1]) = Frame(pieces[(i - 1) + 1], 0)
    BY <1>2, <2>1
  <2> QED BY <2>1, <2>2, <2>3
<1>5. ASSUME pc # "loop", got = Len(wire) PROVE Len(emitted) = Len(pieces)
  <2> SUFFICES ASSUME Len(ends) # Len(pieces) PROVE FALSE
    BY <1>3
  <2>1. Len(ends) \in 0..(Len(pieces) - 1) /\ Len(ends) \in 0..Len(ends)
    BY <1>2, <1>3
  <2> DEFINE k == Len(ends)
  <2>2. Boundary(k) = at[k]
    BY <1>2, <2>1
  <2>3. at[k + 1] \in 0..Len(wire) /\ Whole(wire, at[k]) /\ FrameEnd(wire, at[k]) = at[k + 1]
    BY <1>2, <2>1
  <2> HIDE DEF k
  <2>4. Whole(wire, Boundary(k)) /\ FrameEnd(wire, Boundary(k)) \in 0..Len(wire)
    BY <2>2, <2>3
  <2>5. ~Whole(wire, Boundary(k)) \/ FrameEnd(wire, Boundary(k)) > got
    BY <1>5, ~errored DEF Inv, OnlyIncompleteKept, k
  <2> QED BY <1>3, <1>5, <2>4, <2>5
<1> QED BY <1>4, <1>5 DEF Arrived

\* What is sent packet by packet arrives packet by packet, without an error, and all
\* of it once all bytes were given: however the bytes are cut, however many packets
\* there are and whatever they hold (WrittenPacketsArrive).
THEOREM PacketsArrive == Spec => []WrittenPacketsArrive
<1> DEFINE Sound == \A pieces \in Sendings : MadeOf(wire, pieces) => ~errored
<1>1. Init => Sound
  BY DEF Init
<1>2. Inv /\ Sound /\ [Next]_vars => Sound'
  <2> SUFFICES ASSUME Inv, Sound, [Next]_vars,
                      NEW pieces \in Sendings, MadeOf(wire', pieces)
               PROVE  ~errored'
    OBVIOUS
  <2>1. wire' = wire
    BY DEF Next, LoopStep, Transform, Enqueue, Refuse, KeepRest, Throw, Return, Close, vars
  <2>2. MadeOf(wire, pieces) /\ ~errored
    BY <2>1
  <2>3. pieces \in Seq(Seq(Byte)) /\ \A i \in 1..Len(pieces) : IsPacket(pieces[i])
    BY SendingsAssumption
  <2>4. ~Refuse /\ ~Throw
    BY <2>2, <2>3, NoError
  <2> QED BY <2>2, <2>4
          DEF Next, LoopStep, Transform, Enqueue, KeepRest, Return, Close, vars
<1>3. Inv /\ Sound => WrittenPacketsArrive
  <2> SUFFICES ASSUME Inv, Sound, NEW pieces \in Sendings, MadeOf(wire, pieces)
               PROVE  Arrived(pieces)
    BY DEF WrittenPacketsArrive
  <2>1. ~errored
    OBVIOUS
  <2>2. pieces \in Seq(Seq(Byte)) /\ \A i \in 1..Len(pieces) : IsPacket(pieces[i])
    BY SendingsAssumption
  <2> QED BY <2>1, <2>2, AllArrived
<1> QED BY <1>1, <1>2, <1>3, StreamInv, PTL DEF Spec
=============================================================================
