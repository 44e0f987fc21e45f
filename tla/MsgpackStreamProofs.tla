------------------------- MODULE MsgpackStreamProofs -------------------------
(***************************************************************************)
(* Theorems about MsgpackStream: however the bytes of a connection are     *)
(* cut, the reader gets the values one call with all of them would have    *)
(* enqueued, in order, and an error costs it the values of one chunk.      *)
(*                                                                         *)
(* The argument: the chunk and what is kept are always the end of the      *)
(* bytes given to transform (Place), so that the reader is at a place of   *)
(* the wire, and what deserialize does there does not depend on where the  *)
(* chunk begins (OutcomeInChunk).  What was enqueued, followed by the      *)
(* values from that place on, are the values of the wire, whatever number  *)
(* of bytes behind the given ones is added (Parsed): a value is a value,   *)
(* and ends at the same place, when more bytes follow.                     *)
(***************************************************************************)
EXTENDS MsgpackStream, DataLemmas

\* The outcome at the place p of the first b bytes of w, the values from there on,
\* and all values of w.
At(w, b, p) == Deserialize(SubSeq(w, 1, b), p)
From(w, b, p) == ValuesFrom(SubSeq(w, 1, b))[p]
Vals(w) == {At(w, bp[1], bp[2]).value : bp \in (0..Len(w)) \X (0..Len(w))}

\* What the assumption says of these, and of a chunk.
LEMMA AtFacts ==
  ASSUME NEW w \in Wires, NEW b \in 0..Len(w), NEW p \in 0..(b - 1)
  PROVE  /\ \/ At(w, b, p).kind \in {"incomplete", "error"}
            \/ At(w, b, p).kind = "value" /\ At(w, b, p).end \in (p + 1)..b
         /\ \A a \in 0..p : SameOutcome(At(w, b, p), Deserialize(SubSeq(w, a + 1, b), p - a), -a)
         /\ At(w, b, p).kind # "incomplete" =>
              \A c \in b..Len(w) : SameOutcome(At(w, b, p), At(w, c, p), 0)
BY DeserializeAssumption DEF At, ReadsForward

\* A wire is a sequence of bytes.
LEMMA WireFacts ==
  ASSUME NEW w \in Wires, NEW b \in 0..Len(w)
  PROVE  /\ w \in Seq(0..255) /\ Len(w) \in Nat /\ b \in Nat
         /\ SubSeq(w, 1, b) \in Seq(0..255) /\ Len(SubSeq(w, 1, b)) = b
<1>1. w \in Seq(0..255) /\ Len(w) \in Nat
  BY DeserializeAssumption
<1>2. b \in 0..Len(w) /\ b - 0 = b /\ 0 + 1 = 1 /\ 0 \in Nat
  BY <1>1
<1>3. SubSeq(w, 0 + 1, b) \in Seq(0..255) /\ Len(SubSeq(w, 0 + 1, b)) = b - 0
  BY <1>1, <1>2, PartFacts
<1> QED BY <1>1, <1>2, <1>3

\* The equation of ValuesFrom: it is the only function with it.
LEMMA FromDef ==
  ASSUME NEW w \in Wires, NEW b \in 0..Len(w), NEW p \in 0..b
  PROVE  /\ From(w, b, p) \in Seq(Vals(w))
         /\ From(w, b, p) = IF p = b \/ At(w, b, p).kind # "value" THEN <<>>
                            ELSE <<At(w, b, p).value>> \o From(w, b, At(w, b, p).end)
<1> DEFINE s    == SubSeq(w, 1, b)
           D    == 0..b
           V    == Seq(Vals(w))
           base == {d \in D : d = b \/ At(w, b, d).kind # "value"}
           init == [d \in D |-> <<>>]
           prev == [d \in D |-> IF d \in base THEN d ELSE At(w, b, d).end]
           step == [dt \in D \X V |-> <<At(w, b, dt[1]).value>> \o dt[2]]
           rank == [d \in D |-> b - d]
           Eqn(g) == g = [d \in 0..Len(s) |->
                           IF d = Len(s) \/ Deserialize(s, d).kind # "value" THEN <<>>
                           ELSE <<Deserialize(s, d).value>> \o g[Deserialize(s, d).end]]
<1>1. Len(s) = b /\ b \in Nat /\ Len(w) \in Nat
  BY WireFacts
<1>2. \A d \in D : At(w, b, d) = Deserialize(s, d) /\ At(w, b, d).value \in Vals(w)
  <2>1. ASSUME NEW d \in D PROVE At(w, b, d).value \in Vals(w)
    <3>1. <<b, d>> \in (0..Len(w)) \X (0..Len(w))
      BY <1>1
    <3> QED BY <3>1 DEF Vals
  <2> QED BY <2>1 DEF At
<1>3. \A d \in D : d \notin base => At(w, b, d).end \in (d + 1)..b
  <2> SUFFICES ASSUME NEW d \in D, d \notin base PROVE At(w, b, d).end \in (d + 1)..b
    OBVIOUS
  <2>1. d \in 0..(b - 1) /\ At(w, b, d).kind = "value"
    BY <1>1
  <2> QED BY <2>1, AtFacts
<1>4. /\ rank \in [D -> Nat] /\ init \in [D -> V] /\ prev \in [D -> D]
      /\ \A d \in D : d \notin base => rank[prev[d]] < rank[d]
  <2>1. rank \in [D -> Nat] /\ init \in [D -> V]
    BY <1>1
  <2> HIDE DEF base
  <2>2. prev \in [D -> D]
    BY <1>1, <1>3
  <2>3. \A d \in D : d \notin base => rank[prev[d]] < rank[d]
    BY <1>1, <1>3
  <2> QED BY <2>1, <2>2, <2>3
<1>5. step \in [D \X V -> V]
  BY <1>2
<1>6. PICK g \in [D -> V] : \A d \in D : Follows(g, base, init, prev, step, d)
  <2>1. <<>> \in V
    OBVIOUS
  <2> HIDE DEF D, V, base, init, prev, step, rank
  <2> QED BY <1>4, <1>5, <2>1, Recursion, ZenonT(30)
<1>7. ASSUME NEW d \in D
      PROVE  g[d] = IF d = b \/ At(w, b, d).kind # "value" THEN <<>>
                    ELSE <<At(w, b, d).value>> \o g[At(w, b, d).end]
  <2>1. Follows(g, base, init, prev, step, d)
    BY <1>6
  <2>2. CASE d \in base
    BY <2>1, <2>2 DEF Follows
  <2>3. CASE d \notin base
    <3>1. g[d] = step[<<d, g[At(w, b, d).end]>>]
      BY <2>1, <2>3 DEF Follows
    <3>2. At(w, b, d).end \in D
      BY <1>1, <1>3, <2>3
    <3>3. g[At(w, b, d).end] \in V
      BY <1>6, <3>2
    <3>4. g[d] = <<At(w, b, d).value>> \o g[At(w, b, d).end]
      BY <3>1, <3>3
    <3> QED BY <2>3, <3>4
  <2> QED BY <2>2, <2>3
<1>8. Eqn(g)
  BY <1>1, <1>2, <1>6, <1>7
<1>9. ValuesFrom(s) = CHOOSE h : Eqn(h)
  BY Zenon DEF ValuesFrom
<1>10. Eqn(ValuesFrom(s))
  <2> HIDE DEF Eqn
  <2> QED BY <1>8, <1>9, Zenon
<1> DEFINE F == ValuesFrom(s)
<1>11. ASSUME NEW d \in D
       PROVE  F[d] = IF d = b \/ At(w, b, d).kind # "value" THEN <<>>
                     ELSE <<At(w, b, d).value>> \o F[At(w, b, d).end]
  <2>1. F = [e \in 0..Len(s) |->
               IF e = Len(s) \/ Deserialize(s, e).kind # "value" THEN <<>>
               ELSE <<Deserialize(s, e).value>> \o F[Deserialize(s, e).end]]
    BY <1>10
  <2> HIDE DEF F, s
  <2>2. d \in 0..Len(s) /\ Len(s) = b /\ At(w, b, d) = Deserialize(s, d)
    BY <1>1, <1>2
  <2>3. F[d] = IF d = Len(s) \/ Deserialize(s, d).kind # "value" THEN <<>>
               ELSE <<Deserialize(s, d).value>> \o F[Deserialize(s, d).end]
    BY <2>1, <2>2
  <2> QED BY <2>2, <2>3
<1> HIDE DEF F, s
<1>12. \A d \in D : F[d] \in V
  <2> DEFINE T == {d \in D : F[d] \notin V}
  <2> SUFFICES ASSUME T # {} PROVE FALSE
    OBVIOUS
  <2>1. PICK d \in T : \A e \in T : rank[d] <= rank[e]
    <3>1. T \in SUBSET D
      OBVIOUS
    <3> HIDE DEF T, rank, D
    <3> QED BY <1>4, <3>1, LeastRank
  <2>2. d \in D /\ F[d] \notin V /\ \A e \in D : F[e] \notin V => rank[d] <= rank[e]
    BY <2>1
  <2> HIDE DEF T
  <2>3. CASE d \in base
    <3>1. F[d] = <<>>
      BY <1>11, <2>2, <2>3
    <3> QED BY <2>2, <3>1
  <2>4. CASE d \notin base
    <3> DEFINE e == At(w, b, d).end
               v == At(w, b, d).value
    <3>1. e \in (d + 1)..b /\ ~(d = b \/ At(w, b, d).kind # "value")
      BY <1>3, <2>2, <2>4
    <3>2. F[d] = <<v>> \o F[e] /\ v \in Vals(w)
      BY <1>2, <1>11, <2>2, <3>1
    <3> HIDE DEF e, v
    <3>3. e \in D /\ ~(rank[d] <= rank[e])
      BY <1>1, <2>2, <3>1
    <3>4. F[e] \in V
      BY <2>2, <3>3
    <3>5. <<v>> \o F[e] \in V
      BY <3>2, <3>4
    <3> QED BY <2>2, <3>2, <3>5
  <2> QED BY <2>3, <2>4
<1> QED BY <1>11, <1>12 DEF From, F, s

\* What a chunk that ends with the given bytes tells of a place of the wire.
LEMMA OutcomeInChunk ==
  ASSUME NEW w \in Wires, NEW b \in 0..Len(w), NEW a \in 0..b, NEW q \in 0..(b - a - 1)
  PROVE  LET there == Deserialize(SubSeq(w, a + 1, b), q)
             here  == At(w, b, a + q)
         IN  /\ there.kind = here.kind
             /\ here.kind \in {"incomplete", "error", "value"}
             /\ here.kind = "value" =>
                  /\ there.value = here.value /\ there.end = here.end - a
                  /\ here.end \in (a + q + 1)..b
<1> DEFINE there == Deserialize(SubSeq(w, a + 1, b), q)
           p == a + q
           here == At(w, b, p)
<1>1. Len(w) \in Nat
  BY WireFacts
<1>2. p \in 0..(b - 1) /\ a \in 0..p /\ p - a = q
  BY <1>1
<1> HIDE DEF p
<1>3. /\ \/ here.kind \in {"incomplete", "error"}
         \/ here.kind = "value" /\ here.end \in (p + 1)..b
      /\ SameOutcome(here, Deserialize(SubSeq(w, a + 1, b), p - a), -a)
  BY <1>2, AtFacts
<1>4. SameOutcome(here, there, -a)
  BY <1>2, <1>3, Zenon
<1>5. here.kind = "value" => here.end \in (p + 1)..b /\ here.end + (-a) = here.end - a
  BY <1>1, <1>2, <1>3
<1> HIDE DEF there, here
<1>6. /\ there.kind = here.kind
      /\ here.kind \in {"incomplete", "error", "value"}
      /\ here.kind = "value" =>
           /\ there.value = here.value /\ there.end = here.end - a
           /\ here.end \in (p + 1)..b
  BY <1>3, <1>4, <1>5 DEF SameOutcome
<1> QED BY <1>6 DEF there, here, p

\* A value stays where it is when more bytes follow.
LEMMA ValueStays ==
  ASSUME NEW w \in Wires, NEW b \in 0..Len(w), NEW p \in 0..(b - 1),
         At(w, b, p).kind = "value", NEW c \in b..Len(w)
  PROVE  From(w, c, p) = <<At(w, b, p).value>> \o From(w, c, At(w, b, p).end)
<1>1. c \in 0..Len(w) /\ p \in 0..c /\ p # c
  BY WireFacts
<1>2. SameOutcome(At(w, b, p), At(w, c, p), 0) /\ At(w, b, p).end \in (p + 1)..b
  BY AtFacts
<1>3. /\ At(w, c, p).kind = "value" /\ At(w, c, p).value = At(w, b, p).value
      /\ At(w, c, p).end = At(w, b, p).end
  BY <1>2, WireFacts DEF SameOutcome
<1>4. From(w, c, p) = IF p = c \/ At(w, c, p).kind # "value" THEN <<>>
                      ELSE <<At(w, c, p).value>> \o From(w, c, At(w, c, p).end)
  BY <1>1, FromDef
<1> QED BY <1>1, <1>3, <1>4

-----------------------------------------------------------------------------
(* The inductive invariant.                                                *)

\* The place of the wire up to which its values were enqueued.
Place == got - (IF pc = "loop" THEN Len(chunk) - pos ELSE Len(partial))

\* The chunk, or what is kept, is the end of the bytes given to transform.
InPlace ==
  IF pc = "loop"
  THEN Len(chunk) <= got /\ chunk = SubSeq(wire, got - Len(chunk) + 1, got)
  ELSE Len(partial) <= got /\ partial = SubSeq(wire, got - Len(partial) + 1, got)

\* What was enqueued, with the values from Place on, are the values of the wire.
Parsed ==
  ~errored => \A b \in got..Len(wire) :
                From(wire, b, 0) = (delivered \o queue) \o From(wire, b, Place)

\* The first elements of t are the elements of s.
Begins(s, t) == Len(s) <= Len(t) /\ s = SubSeq(t, 1, Len(s))

MsgpackInv ==
  /\ TypeOK
  /\ before \in 0..got
  /\ chunk \in Seq(0..255)
  /\ partial \in Seq(0..255)
  /\ queue \in Seq(Vals(wire))
  /\ delivered \in Seq(Vals(wire))
  /\ errored => queue = <<>> /\ pc = "idle"
  /\ pc = "loop" => partial = <<>>
  /\ InPlace
  /\ Parsed
  /\ pc # "loop" /\ ~errored => From(wire, got, Place) = <<>>
  /\ Begins(From(wire, before, 0), delivered)
  /\ Begins(delivered, From(wire, Len(wire), 0))

-----------------------------------------------------------------------------
(* Beginnings of sequences.                                                *)

\* Begins, element by element.
LEMMA BeginsDef ==
  ASSUME NEW S, NEW s \in Seq(S), NEW t \in Seq(S)
  PROVE  Begins(s, t) <=> Len(s) <= Len(t) /\ \A i \in 1..Len(s) : t[i] = s[i]
<1>1. 0 \in Nat /\ 0 + 1 = 1 /\ 0 + Len(s) = Len(s) /\ \A i \in 1..Len(s) : 0 + i = i
  OBVIOUS
<1>2. ASSUME Len(s) <= Len(t)
      PROVE  SubSeq(t, 1, Len(s)) = s <=> \A i \in 1..Len(s) : t[i] = s[i]
  <2>1. SubSeq(t, 0 + 1, 0 + Len(s)) = s <=> \A i \in 1..Len(s) : t[0 + i] = s[i]
    BY <1>1, <1>2, PartIs
  <2> QED BY <1>1, <2>1
<1> QED BY <1>2 DEF Begins

\* A sequence begins with itself, and what it is continued by changes no beginning.
LEMMA BeginsFacts ==
  ASSUME NEW S, NEW s \in Seq(S), NEW t \in Seq(S), NEW u \in Seq(S)
  PROVE  /\ Begins(s, s \o u)
         /\ Begins(s, t) => Begins(s, t \o u)
<1>1. ASSUME NEW x \in Seq(S), NEW y \in Seq(S), Begins(x, y) PROVE Begins(x, y \o u)
  <2>1. Len(x) <= Len(y) /\ \A i \in 1..Len(x) : y[i] = x[i]
    BY <1>1, BeginsDef
  <2>2. y \o u \in Seq(S) /\ Len(y \o u) = Len(y) + Len(u)
    BY JoinFacts
  <2>3. \A i \in 1..Len(y) : (y \o u)[i] = y[i]
    BY JoinFacts
  <2> DEFINE z == y \o u
  <2> HIDE DEF z
  <2>4. z \in Seq(S) /\ Len(x) <= Len(z) /\ \A i \in 1..Len(x) : z[i] = x[i]
    BY <2>1, <2>2, <2>3 DEF z
  <2>5. Begins(x, z)
    BY <2>4, BeginsDef
  <2> QED BY <2>5 DEF z
<1>2. Begins(s, s)
  BY BeginsDef
<1> QED BY <1>1, <1>2

\* Values that were read, with others behind them, are the first ones.
LEMMA BeginsThree ==
  ASSUME NEW S, NEW d \in Seq(S), NEW q \in Seq(S), NEW x \in Seq(S)
  PROVE  Begins(d, (d \o q) \o x)
<1>1. Begins(d, d \o q) /\ d \o q \in Seq(S)
  BY BeginsFacts
<1> QED BY <1>1, BeginsFacts

-----------------------------------------------------------------------------
(* The steps.                                                              *)

\* Where a state is, in numbers.
LEMMA PlaceFacts ==
  ASSUME MsgpackInv
  PROVE  /\ wire \in Wires /\ wire \in Seq(0..255) /\ Len(wire) \in Nat /\ got \in 0..Len(wire)
         /\ Place \in 0..got
         /\ \A b \in got..Len(wire) : b \in 0..Len(wire) /\ From(wire, b, 0) \in Seq(Vals(wire))
                                      /\ From(wire, b, Place) \in Seq(Vals(wire))
<1>1. wire \in Wires /\ got \in 0..Len(wire)
  BY DEF MsgpackInv, TypeOK
<1>2. wire \in Seq(0..255) /\ Len(wire) \in Nat /\ got \in Nat
  BY <1>1, WireFacts
<1>3. Place \in 0..got
  BY <1>2 DEF MsgpackInv, TypeOK, InPlace, Place
<1>4. ASSUME NEW b \in got..Len(wire)
      PROVE  b \in 0..Len(wire) /\ From(wire, b, 0) \in Seq(Vals(wire))
             /\ From(wire, b, Place) \in Seq(Vals(wire))
  <2>1. b \in 0..Len(wire) /\ 0 \in 0..b /\ Place \in 0..b
    BY <1>2, <1>3
  <2> QED BY <1>1, <2>1, FromDef
<1> QED BY <1>1, <1>2, <1>3, <1>4

\* At first nothing was given, kept or read.
LEMMA InitInv == Init => MsgpackInv
<1> SUFFICES ASSUME Init PROVE MsgpackInv
  OBVIOUS
<1>1. wire \in Wires /\ Len(wire) \in Nat /\ wire \in Seq(0..255)
  <2>1. wire \in Wires
    BY DEF Init
  <2> QED BY <2>1, DeserializeAssumption
<1>2. Place = 0
  <2>1. Place = 0 - Len(<<>>)
    BY Zenon DEF Place, Init
  <2>2. Len(<<>>) = 0 /\ 0 - 0 = 0
    OBVIOUS
  <2> QED BY <2>1, <2>2, Zenon
<1>3. \A b \in 0..Len(wire) : From(wire, b, 0) \in Seq(Vals(wire))
  <2>1. \A b \in 0..Len(wire) : 0 \in 0..b
    BY <1>1
  <2> QED BY <1>1, <2>1, FromDef
<1>4. From(wire, 0, 0) = <<>>
  <2>1. 0 \in 0..Len(wire) /\ 0 \in 0..0
    BY <1>1
  <2>2. From(wire, 0, 0) = IF 0 = 0 \/ At(wire, 0, 0).kind # "value" THEN <<>>
                           ELSE <<At(wire, 0, 0).value>> \o From(wire, 0, At(wire, 0, 0).end)
    BY <1>1, <2>1, FromDef
  <2> QED BY <2>2
<1>5. Parsed
  <2> SUFFICES ASSUME NEW b \in 0..Len(wire)
               PROVE  From(wire, b, 0) = (<<>> \o <<>>) \o From(wire, b, 0)
    BY <1>2 DEF Parsed, Init
  <2> QED BY <1>3
<1>6. InPlace
  <2>1. SubSeq(wire, 1, 0) = <<>>
    BY <1>1
  <2> QED BY <2>1 DEF InPlace, Init
<1>7. Begins(<<>>, <<>>) /\ Begins(<<>>, From(wire, Len(wire), 0))
  <2>1. <<>> \in Seq(Vals(wire)) /\ Len(wire) \in 0..Len(wire) /\ Len(<<>>) = 0
    BY <1>1
  <2>2. From(wire, Len(wire), 0) \in Seq(Vals(wire))
    BY <1>3, <2>1
  <2>3. Begins(<<>>, <<>>)
    BY DEF Begins
  <2> HIDE DEF Vals, From
  <2>4. ASSUME NEW t \in Seq(Vals(wire)) PROVE Begins(<<>>, t)
    <3>1. SubSeq(t, 1, 0) = <<>>
      OBVIOUS
    <3> QED BY <3>1 DEF Begins
  <2> QED BY <2>2, <2>3, <2>4
<1>8. TypeOK
  <2>1. got \in 0..Len(wire) /\ Len(partial) <= got /\ pos \in 0..Len(chunk)
    BY <1>1 DEF Init
  <2>2. errored \in BOOLEAN /\ waiting \in BOOLEAN /\ pc \in {"idle", "loop", "closed"}
    BY DEF Init
  <2> QED BY <1>1, <2>1, <2>2 DEF Init, TypeOK
<1>9. before \in 0..got /\ got = 0 /\ before = 0 /\ ~errored
  BY DEF Init
<1> QED BY <1>2, <1>4, <1>5, <1>6, <1>7, <1>8, <1>9 DEF Init, MsgpackInv

\* A value that is taken from the queue stays in front of the others.
LEMMA ReadInv ==
  ASSUME MsgpackInv, Read
  PROVE  MsgpackInv'
<1> DEFINE V == Vals(wire)
<1>1. Place' = Place /\ InPlace' /\ wire' = wire /\ got' = got
  BY DEF Read, MsgpackInv, Place, InPlace
<1>2. queue \in Seq(V) /\ delivered \in Seq(V) /\ ~errored
  BY DEF MsgpackInv, Read
<1> HIDE DEF V
<1>3. /\ queue' \in Seq(V) /\ delivered' \in Seq(V)
      /\ delivered' \o queue' = delivered \o queue
      /\ \E u \in Seq(V) : delivered' = delivered \o u
  <2>1. CASE queue = <<>>
    <3>1. delivered' = delivered /\ queue' = queue
      BY <2>1 DEF Read
    <3>2. <<>> \in Seq(V) /\ delivered = delivered \o <<>>
      BY <1>2, ConcatEmptySeq
    <3> QED BY <1>2, <3>1, <3>2, Zenon
  <2>2. CASE queue # <<>>
    <3> DEFINE e == Head(queue) t == Tail(queue)
    <3>1. e \in V /\ t \in Seq(V) /\ queue = <<e>> \o t
      BY <1>2, <2>2
    <3>2. delivered' = Append(delivered, e) /\ queue' = t
      BY <2>2 DEF Read
    <3> HIDE DEF e, t
    <3>3. delivered' = delivered \o <<e>> /\ <<e>> \in Seq(V)
      BY <1>2, <3>1, <3>2, AppendIsConcat
    <3>4. (delivered \o <<e>>) \o t = delivered \o (<<e>> \o t)
      BY <1>2, <3>1, <3>3, ConcatAssociative
    <3>5. delivered \o <<e>> \in Seq(V)
      BY <1>2, <3>3
    <3>6. delivered' \o queue' = delivered \o queue
      BY <3>1, <3>2, <3>3, <3>4, Zenon
    <3> QED BY <3>1, <3>2, <3>3, <3>5, <3>6
  <2> QED BY <2>1, <2>2
<1>4. PICK u \in Seq(V) : delivered' = delivered \o u
  BY <1>3
<1>5. Parsed'
  <2>1. ASSUME NEW b \in got..Len(wire)
        PROVE  From(wire, b, 0) = (delivered' \o queue') \o From(wire, b, Place)
    BY <1>2, <1>3 DEF MsgpackInv, Parsed
  <2>2. errored' = errored
    BY DEF Read
  <2> QED BY <1>1, <2>1, <2>2 DEF Parsed
<1>6. Begins(From(wire, before, 0), delivered')
  <2>1. From(wire, before, 0) \in Seq(V) /\ Begins(From(wire, before, 0), delivered)
    <3>1. before \in 0..Len(wire) /\ 0 \in 0..before
      BY PlaceFacts DEF MsgpackInv
    <3> QED BY <3>1, PlaceFacts, FromDef DEF MsgpackInv, V
  <2> QED BY <1>2, <1>4, <2>1, BeginsFacts
<1>7. Begins(delivered', From(wire, Len(wire), 0))
  <2>1. Len(wire) \in got..Len(wire) /\ From(wire, Len(wire), Place) \in Seq(V)
    BY PlaceFacts DEF V
  <2>2. From(wire, Len(wire), 0) = (delivered' \o queue') \o From(wire, Len(wire), Place)
    BY <1>2, <1>3, <2>1 DEF MsgpackInv, Parsed
  <2> QED BY <1>3, <2>1, <2>2, BeginsThree
<1>8. TypeOK'
  <2>1. waiting' \in BOOLEAN /\ (waiting' => queue' = <<>>)
    BY DEF Read, MsgpackInv, TypeOK
  <2> QED BY <2>1 DEF Read, MsgpackInv, TypeOK
<1> QED BY <1>1, <1>3, <1>5, <1>6, <1>7, <1>8 DEF Read, MsgpackInv, V

\* The bytes that are given follow the ones that were kept.
LEMMA TransformInv ==
  ASSUME MsgpackInv, NEW n \in 0..(Len(wire) - got), Transform(n)
  PROVE  MsgpackInv'
<1> DEFINE a == got - Len(partial)
           c == got + n
           k == SubSeq(wire, a + 1, c)
<1>1. /\ wire \in Wires /\ wire \in Seq(0..255) /\ Len(wire) \in Nat /\ got \in 0..Len(wire)
      /\ partial \in Seq(0..255) /\ Len(partial) \in Nat /\ n \in Nat
  BY PlaceFacts DEF MsgpackInv
<1>2. /\ pc = "idle" /\ ~errored /\ queue = <<>> /\ Len(partial) <= got
      /\ partial = SubSeq(wire, a + 1, got)
  BY DEF Transform, MsgpackInv, TypeOK, InPlace
<1>3. a \in Nat /\ got \in a..Len(wire) /\ c \in got..Len(wire) /\ c \in a..Len(wire)
  BY <1>1, <1>2
<1> HIDE DEF a, c
<1>4. chunk' = k
  <2>1. chunk' = SubSeq(wire, a + 1, got) \o SubSeq(wire, got + 1, c)
    BY <1>2 DEF Transform, Joined, c
  <2>2. a + 1 \in 1..(Len(wire) + 1) /\ got \in ((a + 1) - 1)..Len(wire)
    BY <1>1, <1>3
  <2> QED BY <1>1, <1>3, <2>1, <2>2, ConcatAdjacentSubSeq
<1>5. k \in Seq(0..255) /\ Len(k) = c - a
  <2>1. wire \in Seq(0..255) /\ a \in Nat /\ c \in a..Len(wire)
    BY <1>1, <1>3
  <2> QED BY ONLY <2>1, PartFacts, ZenonT(30)
<1> HIDE DEF k
<1>6. /\ got' = c /\ partial' = <<>> /\ pos' = 0 /\ pc' = "loop" /\ before' = got
      /\ UNCHANGED <<wire, errored, waiting, queue, delivered>>
  BY DEF Transform, c
<1>7. Place' = a /\ Place = a /\ InPlace'
  <2>1. Place' = c - (Len(k) - 0)
    BY <1>4, <1>6 DEF Place
  <2>2. Place = a
    BY <1>2 DEF Place, a
  <2>3. c - Len(k) = a /\ Len(k) <= c
    BY <1>1, <1>3, <1>5
  <2>4. chunk' = SubSeq(wire', got' - Len(chunk') + 1, got')
    BY <1>4, <1>6, <2>3 DEF k
  <2> QED BY <1>1, <1>3, <1>4, <1>5, <1>6, <2>1, <2>2, <2>3, <2>4 DEF InPlace
<1>8. Parsed'
  <2>1. ASSUME NEW b \in c..Len(wire)
        PROVE  From(wire, b, 0) = (delivered \o queue) \o From(wire, b, Place)
    <3>1. b \in got..Len(wire)
      BY <1>1, <1>3
    <3> QED BY <1>2, <3>1 DEF MsgpackInv, Parsed
  <2> QED BY <1>6, <1>7, <2>1 DEF Parsed
<1>9. Begins(From(wire, got, 0), delivered)
  <2>1. got \in got..Len(wire)
    BY <1>1
  <2>2. From(wire, got, 0) = (delivered \o queue) \o From(wire, got, Place)
    BY <1>2, <2>1 DEF MsgpackInv, Parsed
  <2>3. From(wire, got, Place) = <<>>
    BY <1>2 DEF MsgpackInv
  <2>4. delivered \in Seq(Vals(wire))
    BY DEF MsgpackInv
  <2>5. (delivered \o <<>>) \o <<>> = delivered
    BY <2>4, ConcatEmptySeq
  <2>6. From(wire, got, 0) = delivered
    BY <1>2, <2>2, <2>3, <2>5
  <2> QED BY <2>4, <2>6, BeginsDef
<1>10. TypeOK'
  <2>1. got' \in 0..Len(wire) /\ Len(partial') <= got' /\ pos' \in 0..Len(chunk')
    BY <1>1, <1>3, <1>4, <1>5, <1>6
  <2>2. /\ errored \in BOOLEAN /\ waiting \in BOOLEAN /\ (waiting => queue = <<>>)
        /\ pc' \in {"idle", "loop", "closed"}
    BY <1>6 DEF MsgpackInv, TypeOK
  <2> QED BY <1>1, <1>6, <2>1, <2>2 DEF TypeOK
<1>11. before' \in 0..got' /\ partial' \in Seq(0..255)
  BY <1>1, <1>3, <1>6
<1>12. /\ queue \in Seq(Vals(wire)) /\ delivered \in Seq(Vals(wire))
       /\ Begins(delivered, From(wire, Len(wire), 0))
  BY DEF MsgpackInv
<1> QED BY <1>2, <1>4, <1>5, <1>6, <1>7, <1>8, <1>9, <1>10, <1>11, <1>12 DEF MsgpackInv

\* Where the reader is in the loop, and what it meets there.
LEMMA LoopFacts ==
  ASSUME MsgpackInv, InLoop
  PROVE  /\ Place \in 0..(got - 1)
         /\ Place = (got - Len(chunk)) + pos /\ got - Len(chunk) \in 0..got
         /\ pos \in Nat /\ Len(chunk) \in Nat /\ pc = "loop" /\ ~errored
         /\ Outcome.kind = At(wire, got, Place).kind
         /\ At(wire, got, Place).kind \in {"incomplete", "error", "value"}
         /\ Outcome.kind = "value" =>
              /\ Outcome.value = At(wire, got, Place).value
              /\ At(wire, got, Place).end = (got - Len(chunk)) + Outcome.end
              /\ Outcome.end \in (pos + 1)..Len(chunk)
<1> DEFINE a == got - Len(chunk)
<1>1. /\ wire \in Wires /\ got \in 0..Len(wire) /\ Len(wire) \in Nat
      /\ pc = "loop" /\ pos \in 0..Len(chunk) /\ pos < Len(chunk)
      /\ Len(chunk) \in Nat /\ Len(chunk) <= got /\ chunk = SubSeq(wire, a + 1, got)
  BY PlaceFacts DEF InLoop, MsgpackInv, TypeOK, InPlace
<1>2. a \in 0..got /\ pos \in 0..(got - a - 1) /\ a + pos \in 0..(got - 1)
  BY <1>1
<1>3. Place = a + pos
  BY <1>1 DEF Place
<1>4. ~errored
  BY <1>1 DEF MsgpackInv
<1> HIDE DEF a
<1> DEFINE here == At(wire, got, a + pos)
<1>5. Outcome = Deserialize(SubSeq(wire, a + 1, got), pos)
  BY <1>1, Zenon DEF Outcome
<1>6. /\ Outcome.kind = here.kind
      /\ here.kind \in {"incomplete", "error", "value"}
      /\ here.kind = "value" =>
           /\ Outcome.value = here.value /\ Outcome.end = here.end - a
           /\ here.end \in (a + pos + 1)..got
  BY <1>1, <1>2, <1>5, OutcomeInChunk
<1> HIDE DEF here
<1>7. here.kind = "value" =>
        here.end = a + Outcome.end /\ Outcome.end \in (pos + 1)..Len(chunk)
  <2> SUFFICES ASSUME here.kind = "value"
               PROVE  here.end = a + Outcome.end /\ Outcome.end \in (pos + 1)..Len(chunk)
    OBVIOUS
  <2> DEFINE e == here.end
             o == Outcome.end
  <2>1. o = e - a /\ e \in (a + pos + 1)..got
    BY <1>6
  <2>2. got = a + Len(chunk) /\ a \in Nat /\ got \in Nat /\ pos \in Nat /\ Len(chunk) \in Nat
    BY <1>1, <1>2 DEF a
  <2> HIDE DEF e, o
  <2>3. e = a + o /\ o \in (pos + 1)..Len(chunk)
    BY <2>1, <2>2
  <2> QED BY <2>3 DEF e, o
<1> QED BY <1>1, <1>2, <1>3, <1>4, <1>6, <1>7 DEF a, here

\* A value is enqueued, and the reader is behind it.
LEMMA EnqueueInv ==
  ASSUME MsgpackInv, Enqueue
  PROVE  MsgpackInv'
<1> DEFINE a == got - Len(chunk)
           V == Vals(wire)
           v == Outcome.value
           e == Outcome.end
           next == At(wire, got, Place).end
<1>1. /\ wire \in Wires /\ Len(wire) \in Nat /\ got \in 0..Len(wire) /\ Place \in 0..(got - 1)
      /\ Len(chunk) \in Nat /\ pos \in Nat /\ a \in 0..got /\ Place = a + pos
      /\ pc = "loop" /\ ~errored
  BY PlaceFacts, LoopFacts DEF Enqueue
<1>2. /\ At(wire, got, Place).kind = "value" /\ v = At(wire, got, Place).value
      /\ next = a + e /\ e \in (pos + 1)..Len(chunk)
  BY LoopFacts DEF Enqueue
<1>3. queue \in Seq(V) /\ delivered \in Seq(V) /\ (waiting => queue = <<>>) /\ before \in 0..got
  BY DEF MsgpackInv, TypeOK
<1>4. v \in V
  <2>1. <<got, Place>> \in (0..Len(wire)) \X (0..Len(wire))
    BY <1>1
  <2>2. At(wire, got, Place).value \in V
    BY <2>1 DEF Vals
  <2> QED BY <1>2, <2>2
<1>5. next \in 0..got
  BY <1>1, <1>2
<1>6. \A b \in got..Len(wire) :
        From(wire, b, Place) = <<v>> \o From(wire, b, next) /\ From(wire, b, next) \in Seq(V)
  <2> SUFFICES ASSUME NEW b \in got..Len(wire)
               PROVE  From(wire, b, Place) = <<v>> \o From(wire, b, next)
                      /\ From(wire, b, next) \in Seq(V)
    OBVIOUS
  <2>1. From(wire, b, Place) = <<At(wire, got, Place).value>> \o From(wire, b, next)
    BY <1>1, <1>2, ValueStays
  <2>2. b \in 0..Len(wire) /\ next \in 0..b
    BY <1>1, <1>5
  <2>3. From(wire, b, next) \in Seq(V)
    <3> HIDE DEF next
    <3> QED BY <1>1, <2>2, FromDef
  <2> QED BY <1>2, <2>1, <2>3
<1>7. /\ pos' = e
      /\ IF waiting THEN delivered' = Append(delivered, v) /\ queue' = queue
         ELSE queue' = Append(queue, v) /\ delivered' = delivered
      /\ waiting' = FALSE
      /\ UNCHANGED <<wire, got, partial, chunk, pc, errored, before>>
  BY DEF Enqueue
<1>8. Place' = next /\ InPlace'
  <2>1. Place' = got - (Len(chunk) - e)
    BY <1>1, <1>7 DEF Place
  <2>2. e \in Nat
    BY <1>1, <1>2
  <2> HIDE DEF e, next
  <2>3. got - (Len(chunk) - e) = next
    BY <1>1, <1>2, <2>2 DEF a
  <2>4. InPlace'
    BY <1>1, <1>7 DEF InPlace, MsgpackInv
  <2> QED BY <2>1, <2>3, <2>4
<1> HIDE DEF V, v, e, next, a
<1>9. <<v>> \in Seq(V)
  BY <1>4
<1>10. /\ queue' \in Seq(V) /\ delivered' \in Seq(V)
       /\ delivered' \o queue' = (delivered \o queue) \o <<v>>
       /\ \E u \in Seq(V) : delivered' = delivered \o u
  <2>1. CASE waiting
    <3>1. delivered' = delivered \o <<v>> /\ queue' = <<>> /\ queue = <<>>
      BY <1>3, <1>4, <1>7, <2>1, AppendIsConcat
    <3>2. <<>> \in Seq(V) /\ delivered \o <<v>> \in Seq(V)
      BY <1>3, <1>9
    <3>3. (delivered \o <<v>>) \o <<>> = delivered \o <<v>> /\ delivered \o <<>> = delivered
      BY <1>3, <3>2, ConcatEmptySeq
    <3> QED BY <1>9, <3>1, <3>2, <3>3, Zenon
  <2>2. CASE ~waiting
    <3>1. queue' = queue \o <<v>> /\ delivered' = delivered
      BY <1>3, <1>4, <1>7, <2>2, AppendIsConcat
    <3>2. (delivered \o queue) \o <<v>> = delivered \o (queue \o <<v>>)
      BY <1>3, <1>9, ConcatAssociative
    <3>3. queue \o <<v>> \in Seq(V) /\ <<>> \in Seq(V)
      BY <1>3, <1>9
    <3>4. delivered = delivered \o <<>>
      BY <1>3, ConcatEmptySeq
    <3> QED BY <1>3, <3>1, <3>2, <3>3, <3>4, Zenon
  <2> QED BY <2>1, <2>2
<1>11. PICK u \in Seq(V) : delivered' = delivered \o u
  BY <1>10
<1>12. \A b \in got..Len(wire) :
         From(wire, b, 0) = (delivered' \o queue') \o From(wire, b, next)
  <2> SUFFICES ASSUME NEW b \in got..Len(wire)
               PROVE  From(wire, b, 0) = (delivered' \o queue') \o From(wire, b, next)
    OBVIOUS
  <2> DEFINE r == delivered \o queue
             x == From(wire, b, next)
  <2>1. From(wire, b, 0) = r \o From(wire, b, Place)
    BY <1>1 DEF MsgpackInv, Parsed
  <2>2. From(wire, b, Place) = <<v>> \o x /\ x \in Seq(V)
    BY <1>6
  <2>3. r \in Seq(V)
    BY <1>3
  <2>4. delivered' \o queue' = r \o <<v>>
    BY <1>10
  <2> HIDE DEF r, x
  <2>5. (r \o <<v>>) \o x = r \o (<<v>> \o x)
    BY <1>9, <2>2, <2>3, ConcatAssociative
  <2>6. From(wire, b, 0) = (delivered' \o queue') \o x
    BY <2>1, <2>2, <2>4, <2>5, Zenon
  <2> QED BY <2>6 DEF x
<1>13. Parsed'
  BY <1>7, <1>8, <1>12 DEF Parsed
<1>14. Begins(From(wire, before, 0), delivered')
  <2>1. From(wire, before, 0) \in Seq(V)
    <3>1. before \in 0..Len(wire) /\ 0 \in 0..before
      BY <1>1, <1>3
    <3> QED BY <1>1, <3>1, FromDef DEF V
  <2>2. Begins(From(wire, before, 0), delivered)
    BY DEF MsgpackInv
  <2> QED BY <1>3, <1>11, <2>1, <2>2, BeginsFacts
<1>15. Begins(delivered', From(wire, Len(wire), 0))
  <2>1. Len(wire) \in got..Len(wire)
    BY <1>1
  <2>2. /\ From(wire, Len(wire), 0) = (delivered' \o queue') \o From(wire, Len(wire), next)
        /\ From(wire, Len(wire), next) \in Seq(V)
    BY <1>6, <1>12, <2>1
  <2> QED BY <1>10, <2>2, BeginsThree
<1>16. TypeOK'
  <2>1. pos' \in 0..Len(chunk')
    BY <1>1, <1>2, <1>7
  <2>2. waiting' = FALSE
    BY <1>7
  <2> QED BY <1>7, <2>1, <2>2 DEF TypeOK, MsgpackInv
<1> QED
  BY <1>1, <1>7, <1>8, <1>10, <1>13, <1>14, <1>15, <1>16 DEF MsgpackInv, V

\* What is left of the chunk is kept, from the place of the value that is cut off.
LEMMA KeepRestInv ==
  ASSUME MsgpackInv, KeepRest
  PROVE  MsgpackInv'
<1> DEFINE a == got - Len(chunk)
           rest == SubSeq(wire, Place + 1, got)
<1>1. /\ wire \in Wires /\ wire \in Seq(0..255) /\ Len(wire) \in Nat /\ got \in 0..Len(wire)
      /\ Place \in 0..(got - 1) /\ Len(chunk) \in Nat /\ pos \in Nat /\ a \in 0..got
      /\ Place = a + pos /\ pc = "loop" /\ ~errored
  BY PlaceFacts, LoopFacts DEF KeepRest
<1>2. chunk = SubSeq(wire, a + 1, got) /\ Len(chunk) <= got /\ pos \in 0..Len(chunk)
  BY <1>1 DEF MsgpackInv, InPlace, TypeOK
<1>3. partial' = rest
  <2>1. a \in Nat /\ got \in a..Len(wire) /\ pos \in 0..(got - a) /\ Len(chunk) = got - a
    BY <1>1, <1>2
  <2>2. partial' = SubSeq(chunk, pos + 1, Len(chunk))
    BY DEF KeepRest, Rest
  <2> HIDE DEF a
  <2>3. SubSeq(SubSeq(wire, a + 1, got), pos + 1, got - a) = SubSeq(wire, a + pos + 1, got)
    BY <1>1, <2>1, PartOfPart
  <2> QED BY <1>1, <1>2, <2>1, <2>2, <2>3
<1>4. rest \in Seq(0..255) /\ Len(rest) = got - Place
  <2>1. Place \in Nat /\ got \in Place..Len(wire)
    BY <1>1
  <2> QED BY <1>1, <2>1, PartFacts, ZenonT(30)
<1>5. /\ pc' = "idle"
      /\ UNCHANGED <<wire, got, chunk, pos, errored, waiting, queue, delivered, before>>
  BY DEF KeepRest
<1>6. Place' = Place
  <2>1. Place' = got - Len(rest)
    BY <1>3, <1>5 DEF Place
  <2> HIDE DEF rest
  <2>2. got - Len(rest) = Place
    BY <1>1, <1>4
  <2> QED BY <2>1, <2>2
<1>7. InPlace'
  <2>1. got - Len(rest) = Place /\ Len(rest) <= got
    BY <1>1, <1>4
  <2>2. rest = SubSeq(wire, got - Len(rest) + 1, got)
    BY <2>1, Zenon
  <2> QED BY <1>3, <1>5, <2>1, <2>2 DEF InPlace
<1>8. Parsed'
  BY <1>5, <1>6 DEF MsgpackInv, Parsed
<1>9. From(wire, got, Place) = <<>>
  <2>1. Outcome.kind = "incomplete" /\ At(wire, got, Place).kind = Outcome.kind
    BY LoopFacts DEF KeepRest, CutOff
  <2>2. Place \in 0..got
    BY <1>1
  <2>3. From(wire, got, Place) = IF Place = got \/ At(wire, got, Place).kind # "value" THEN <<>>
          ELSE <<At(wire, got, Place).value>> \o From(wire, got, At(wire, got, Place).end)
    BY <1>1, <2>2, FromDef
  <2> QED BY <2>1, <2>3
<1>10. TypeOK'
  <2>1. Len(partial') <= got
    BY <1>1, <1>3, <1>4
  <2> QED BY <1>5, <2>1 DEF TypeOK, MsgpackInv
<1> HIDE DEF rest
<1> QED
  BY <1>1, <1>3, <1>4, <1>5, <1>6, <1>7, <1>8, <1>9, <1>10 DEF MsgpackInv

\* An error ends the stream, and no value of the queue is read any more.
LEMMA FailInv ==
  ASSUME MsgpackInv, Fail
  PROVE  MsgpackInv'
<1>1. pc = "loop" /\ partial = <<>>
  BY LoopFacts DEF Fail, MsgpackInv
<1>2. /\ errored' = TRUE /\ queue' = <<>> /\ waiting' = FALSE /\ pc' = "idle"
      /\ UNCHANGED <<wire, got, partial, chunk, pos, delivered, before>>
  BY DEF Fail, Discarded
<1>3. InPlace'
  <2>1. wire \in Seq(0..255) /\ got \in Nat
    BY PlaceFacts
  <2>2. SubSeq(wire, got + 1, got) = <<>> /\ got - 0 = got /\ 0 <= got
    BY <2>1
  <2> QED BY <1>1, <1>2, <2>2 DEF InPlace
<1>4. TypeOK'
  BY <1>2 DEF TypeOK, MsgpackInv
<1> QED BY <1>2, <1>3, <1>4 DEF MsgpackInv, Parsed

\* A chunk that was read to its end leaves nothing.
LEMMA ReturnInv ==
  ASSUME MsgpackInv, Return
  PROVE  MsgpackInv'
<1>1. pc = "loop" /\ pos = Len(chunk) /\ partial = <<>> /\ ~errored
  BY DEF Return, MsgpackInv
<1>2. /\ pc' = "idle"
      /\ UNCHANGED <<wire, got, partial, chunk, pos, errored, waiting, queue, delivered, before>>
  BY DEF Return
<1>3. wire \in Wires /\ wire \in Seq(0..255) /\ got \in 0..Len(wire) /\ got \in Nat
  BY PlaceFacts
<1>4. Place = got /\ Place' = got
  <2>1. Place' = got - Len(<<>>) /\ Place = got - (Len(chunk) - Len(chunk))
    BY <1>1, <1>2 DEF Place
  <2>2. Len(chunk) \in Nat
    BY DEF MsgpackInv
  <2> QED BY <1>3, <2>1, <2>2
<1>5. InPlace'
  <2>1. SubSeq(wire, got + 1, got) = <<>> /\ got - 0 = got /\ 0 <= got
    BY <1>3
  <2> QED BY <1>1, <1>2, <2>1 DEF InPlace
<1>6. Parsed'
  BY <1>2, <1>4 DEF MsgpackInv, Parsed
<1>7. From(wire, got, got) = <<>>
  <2>1. got \in 0..got
    BY <1>3
  <2> QED BY <1>3, <2>1, FromDef
<1>8. TypeOK'
  BY <1>2 DEF TypeOK, MsgpackInv
<1> QED BY <1>1, <1>2, <1>4, <1>5, <1>6, <1>7, <1>8 DEF MsgpackInv

\* The invariant is inductive.
LEMMA StepInv == MsgpackInv /\ [Next]_vars => MsgpackInv'
<1> SUFFICES ASSUME MsgpackInv, [Next]_vars PROVE MsgpackInv'
  OBVIOUS
<1>1. CASE Close
  <2>1. /\ pc = "idle" /\ pc' = "closed" /\ ~errored
        /\ UNCHANGED <<wire, got, partial, chunk, pos, errored, waiting, queue, delivered, before>>
    BY <1>1 DEF Close
  <2>2. Place' = Place /\ InPlace'
    BY <2>1 DEF Place, InPlace, MsgpackInv
  <2>3. TypeOK'
    BY <2>1 DEF TypeOK, MsgpackInv
  <2> QED BY <2>1, <2>2, <2>3 DEF MsgpackInv, Parsed
<1>2. CASE UNCHANGED vars
  BY <1>2 DEF vars, MsgpackInv, TypeOK, Place, InPlace, Parsed
<1> QED
  BY <1>1, <1>2, ReadInv, TransformInv, EnqueueInv, KeepRestInv, FailInv, ReturnInv
     DEF Next, LoopStep

\* It holds of every behaviour.
LEMMA AlwaysMsgpackInv == Spec => []MsgpackInv
BY InitInv, StepInv, PTL DEF Spec

-----------------------------------------------------------------------------
(* The theorems.                                                           *)

\* Every variable of the stream keeps its type: the reader stays in the chunk, no
\* more is kept than was given, and a reader waits only for an empty queue.
THEOREM TypeCorrect == Spec => []TypeOK
<1>1. MsgpackInv => TypeOK
  BY DEF MsgpackInv
<1> QED BY <1>1, AlwaysMsgpackInv, PTL

\* The chunks cannot be told from what is read: between two calls of transform it
\* is what one call with all the bytes would have enqueued (ChunksInvisible).
THEOREM ChunksNotSeen == Spec => []ChunksInvisible
<1>1. MsgpackInv => ChunksInvisible
  <2> SUFFICES ASSUME MsgpackInv, pc # "loop", ~errored
               PROVE  delivered \o queue = ValuesIn(SubSeq(wire, 1, got))
    BY DEF ChunksInvisible
  <2>1. got \in got..Len(wire)
    BY PlaceFacts
  <2>2. From(wire, got, 0) = (delivered \o queue) \o From(wire, got, Place)
    BY <2>1 DEF MsgpackInv, Parsed
  <2>3. From(wire, got, Place) = <<>> /\ delivered \o queue \in Seq(Vals(wire))
    BY DEF MsgpackInv
  <2>4. From(wire, got, 0) = delivered \o queue
    BY <2>2, <2>3, ConcatEmptySeq
  <2> QED BY <2>4 DEF From, ValuesIn
<1> QED BY <1>1, AlwaysMsgpackInv, PTL

\* An error costs the reader no value that was complete before the chunk with the
\* error (ErrorCostsOneChunk).
THEOREM ErrorCosts == Spec => []ErrorCostsOneChunk
<1>1. MsgpackInv => ErrorCostsOneChunk
  BY DEF MsgpackInv, Begins, ErrorCostsOneChunk, From, ValuesIn
<1> QED BY <1>1, AlwaysMsgpackInv, PTL

\* A step of the stream changes what was read by its next value, or not at all; and
\* what was read before an error stays.
LEMMA StepReads ==
  ASSUME MsgpackInv, [Next]_vars
  PROVE  /\ wire' = wire
         /\ \/ delivered' = delivered /\ (errored' = errored \/ errored' = TRUE)
            \/ /\ ~errored /\ errored' = errored
               /\ \E v \in Vals(wire) : delivered' = Append(delivered, v)
<1>1. CASE Read
  <2>1. ~errored /\ errored' = errored /\ wire' = wire
    BY <1>1 DEF Read
  <2>2. CASE queue = <<>>
    BY <1>1, <2>1, <2>2 DEF Read
  <2>3. CASE queue # <<>>
    <3>1. delivered' = Append(delivered, Head(queue))
      BY <1>1, <2>3 DEF Read
    <3>2. Head(queue) \in Vals(wire)
      BY <2>3 DEF MsgpackInv
    <3> QED BY <2>1, <3>1, <3>2
  <2> QED BY <2>2, <2>3
<1>2. CASE Enqueue
  <2>1. errored' = errored /\ wire' = wire
    BY <1>2 DEF Enqueue
  <2>2. /\ ~errored /\ Place \in 0..(got - 1) /\ got \in 0..Len(wire) /\ Len(wire) \in Nat
        /\ Outcome.value = At(wire, got, Place).value
    BY <1>2, LoopFacts, PlaceFacts DEF Enqueue
  <2>3. <<got, Place>> \in (0..Len(wire)) \X (0..Len(wire))
    BY <2>2
  <2>4. Outcome.value \in Vals(wire)
    BY <2>2, <2>3 DEF Vals
  <2>5. delivered' = Append(delivered, Outcome.value) \/ delivered' = delivered
    BY <1>2 DEF Enqueue
  <2> QED BY <2>1, <2>2, <2>4, <2>5
<1>3. CASE (\E n \in 0..(Len(wire) - got) : Transform(n)) \/ KeepRest \/ Fail \/ Return \/ Close
  BY <1>3 DEF Transform, KeepRest, Fail, Return, Close
<1>4. CASE UNCHANGED vars
  BY <1>4 DEF vars
<1> QED BY <1>1, <1>2, <1>3, <1>4 DEF Next, LoopStep

\* A step of the stream is one of the in-order delivery, or leaves it alone.
LEMMA DeliveryStep ==
  ASSUME MsgpackInv, MsgpackInv', [Next]_vars
  PROVE  [Delivery!Next]_<<ValuesIn(wire), delivered, errored>>
<1> DEFINE P == ValuesIn(wire)
<1>1. wire' = wire
  BY StepReads
<1>2. P' = P
  BY <1>1
<1>3. CASE delivered' = delivered /\ (errored' = errored \/ errored' = TRUE)
  BY <1>2, <1>3 DEF Delivery!Next, Delivery!Break
<1>4. CASE ~errored /\ errored' = errored /\ \E v \in Vals(wire) : delivered' = Append(delivered, v)
  <2>1. PICK v \in Vals(wire) : delivered' = Append(delivered, v)
    BY <1>4
  <2>2. P \in Seq(Vals(wire)) /\ delivered \in Seq(Vals(wire)) /\ delivered' \in Seq(Vals(wire))
    <3>1. wire \in Wires /\ wire \in Seq(0..255) /\ Len(wire) \in Nat
      BY PlaceFacts
    <3>2. SubSeq(wire, 1, Len(wire)) = wire /\ Len(wire) \in 0..Len(wire) /\ 0 \in 0..Len(wire)
      BY <3>1
    <3>3. P = From(wire, Len(wire), 0)
      BY <3>2 DEF From, ValuesIn
    <3> HIDE DEF P
    <3> QED BY <1>1, <3>1, <3>2, <3>3, FromDef DEF MsgpackInv
  <2>3. Begins(delivered', P)
    <3>1. wire' \in Seq(0..255)
      BY <1>1, PlaceFacts
    <3>2. SubSeq(wire', 1, Len(wire')) = wire'
      BY <3>1
    <3>3. From(wire', Len(wire'), 0) = P
      BY <1>2, <3>2 DEF From, ValuesIn
    <3> QED BY <3>3 DEF MsgpackInv
  <2> HIDE DEF P
  <2>4. Len(delivered') <= Len(P) /\ \A i \in 1..Len(delivered') : P[i] = delivered'[i]
    BY <2>2, <2>3, BeginsDef
  <2>5. Len(delivered') = Len(delivered) + 1 /\ delivered'[Len(delivered) + 1] = v
    BY <2>1, <2>2
  <2>6. Len(delivered) < Len(P) /\ P[Len(delivered) + 1] = v
    BY <2>2, <2>4, <2>5
  <2>7. Len(delivered) < Len(P) /\ delivered' = Append(delivered, P[Len(delivered) + 1])
    BY <2>1, <2>6
  <2> QED BY <1>2, <1>4, <2>7 DEF Delivery!Next, Delivery!Deliver, P
<1> QED BY <1>3, <1>4, StepReads

\* The stream implements the in-order delivery of the values of the wire: they are
\* read one after the other from the first, and none once controller.error was
\* called (ImplementsInOrderDelivery).
THEOREM StreamImplementsInOrderDelivery == Spec => ImplementsInOrderDelivery
<1>1. Init => Delivery!Init
  BY DEF Init, Delivery!Init
<1>2. MsgpackInv /\ MsgpackInv' /\ [Next]_vars
        => [Delivery!Next]_<<ValuesIn(wire), delivered, errored>>
  BY DeliveryStep
<1> QED BY <1>1, <1>2, AlwaysMsgpackInv, PTL DEF Spec, ImplementsInOrderDelivery, Delivery!Spec
=============================================================================
