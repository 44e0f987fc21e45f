------------------------- MODULE PacketRelayProofs -------------------------
(***************************************************************************)
(* What holds of PacketRelay for all packets of the user, all wires of     *)
(* other programs and all ways to read:                                    *)
(*                                                                         *)
(*   - what serialize.ts writes are bytes, and what deserialize.ts returns *)
(*     is a packet of packets.ts (PacketsWellTyped);                       *)
(*   - of a body that is cut off, the reader makes up nothing              *)
(*     (CutBodiesAgree);                                                   *)
(*   - the filters it lets pass are the well formed ones                   *)
(*     (FiltersAreJudged).                                                 *)
(*                                                                         *)
(* The loops of the model are functions of the number of turns.  A loop    *)
(* over s exists and obeys its equation (AllSteps, ManySteps, LoopSteps,   *)
(* LevelsSteps); what holds before the first turn and is kept by one holds *)
(* behind the last (NatSteps of DataLemmas).  The rest goes from the       *)
(* reader of one value to the readers of lists of values to those of       *)
(* packets, first for the types, then for two readings of the same bytes,  *)
(* one of which ends early.  Filters are compared by their levels, which   *)
(* the validator splits them into (LevelsTell), and by the positions of    *)
(* their wildcards.                                                        *)
(***************************************************************************)
EXTENDS PacketRelay, DataLemmas
-----------------------------------------------------------------------------
(* The loops of the model are functions of the turns.                      *)

\* ToUint adds digit to digit.
LEMMA ToUintSteps ==
  ASSUME NEW v, Len(v) \in Nat
  PROVE  \E f : /\ ToUint(v) = f[Len(v)]
                /\ f[0] = 0
                /\ \A i \in 1..Len(v) : f[i] = f[i - 1] * ByteValues + v[i]
<1> DEFINE Eqn(g, m) == g = [i \in 0..m |-> IF i = 0 THEN 0 ELSE g[i - 1] * ByteValues + v[i]]
           S == {m \in Nat : \E g : Eqn(g, m)}
           f == CHOOSE g : Eqn(g, Len(v))
<1>1. 0 \in S
  <2>1. Eqn([i \in 0..0 |-> 0], 0)
    OBVIOUS
  <2> QED BY <2>1
<1>2. ASSUME NEW m \in Nat, m \in S PROVE m + 1 \in S
  <2>1. PICK g : Eqn(g, m)
    BY <1>2
  <2> DEFINE h == [i \in 0..(m + 1) |-> IF i = 0 THEN 0 ELSE g[i - 1] * ByteValues + v[i]]
  <2>2. ASSUME NEW i \in 0..m PROVE h[i] = g[i]
    <3>1. g[i] = IF i = 0 THEN 0 ELSE g[i - 1] * ByteValues + v[i]
      BY <2>1, Zenon
    <3> QED BY <3>1
  <2>3. ASSUME NEW i \in 0..(m + 1), i # 0 PROVE h[i - 1] = g[i - 1]
    <3>1. i - 1 \in 0..m
      BY <2>3
    <3> HIDE DEF h
    <3> QED BY <2>2, <3>1
  <2>4. Eqn(h, m + 1)
    <3> DEFINE hh == [i \in 0..(m + 1) |-> IF i = 0 THEN 0 ELSE h[i - 1] * ByteValues + v[i]]
    <3>1. ASSUME NEW i \in 0..(m + 1) PROVE h[i] = hh[i]
      <4> HIDE DEF h
      <4>1. CASE i = 0
        BY <4>1 DEF h
      <4>2. CASE i # 0
        <5>1. h[i] = g[i - 1] * ByteValues + v[i]
          BY <4>2 DEF h
        <5> QED BY <2>3, <4>2, <5>1
      <4> QED BY <4>1, <4>2
    <3> QED BY <3>1
  <2>5. \E g2 : Eqn(g2, m + 1)
    <3> HIDE DEF Eqn, h
    <3> QED BY <2>4
  <2> HIDE DEF Eqn
  <2> QED BY <2>5
<1>3. Len(v) \in S
  <2> HIDE DEF S
  <2> QED BY <1>1, <1>2, NatSteps
<1>4. ToUint(v) = f[Len(v)]
  BY Zenon DEF ToUint
<1>5. Eqn(f, Len(v))
  <2>1. \E g : Eqn(g, Len(v))
    BY <1>3
  <2> HIDE DEF Eqn
  <2> QED BY <2>1, Zenon
<1> HIDE DEF f
<1>6. \A i \in 0..Len(v) : f[i] = IF i = 0 THEN 0 ELSE f[i - 1] * ByteValues + v[i]
  BY <1>5, Zenon
<1>7. f[0] = 0
  BY <1>6
<1>8. \A i \in 1..Len(v) : f[i] = f[i - 1] * ByteValues + v[i]
  BY <1>6
<1> QED BY <1>4, <1>7, <1>8

\* readProperties goes turn by turn.
LEMMA LoopSteps ==
  ASSUME NEW s, Len(s) \in Nat
  PROVE  \E f : /\ PropertyLoop(s) = f[Len(s)]
                /\ f[0] = Got(<<>>, s)
                /\ \A i \in 1..Len(s) : f[i] = PropertyTurn(f[i - 1])
<1> DEFINE Eqn(g, m) == g = [i \in 0..m |-> IF i = 0 THEN Got(<<>>, s) ELSE PropertyTurn(g[i - 1])]
           S == {m \in Nat : \E g : Eqn(g, m)}
           f == CHOOSE g : Eqn(g, Len(s))
<1>1. 0 \in S
  <2>1. Eqn([i \in 0..0 |-> Got(<<>>, s)], 0)
    OBVIOUS
  <2> QED BY <2>1
<1>2. ASSUME NEW m \in Nat, m \in S PROVE m + 1 \in S
  <2>1. PICK g : Eqn(g, m)
    BY <1>2
  <2> DEFINE h == [i \in 0..(m + 1) |-> IF i = 0 THEN Got(<<>>, s) ELSE PropertyTurn(g[i - 1])]
  <2>2. ASSUME NEW i \in 0..m PROVE h[i] = g[i]
    <3>1. g[i] = IF i = 0 THEN Got(<<>>, s) ELSE PropertyTurn(g[i - 1])
      BY <2>1, Zenon
    <3> QED BY <3>1
  <2>3. ASSUME NEW i \in 0..(m + 1), i # 0 PROVE h[i - 1] = g[i - 1]
    <3>1. i - 1 \in 0..m
      BY <2>3
    <3> HIDE DEF h
    <3> QED BY <2>2, <3>1
  <2>4. Eqn(h, m + 1)
    <3> DEFINE hh == [i \in 0..(m + 1) |-> IF i = 0 THEN Got(<<>>, s) ELSE PropertyTurn(h[i - 1])]
    <3>1. ASSUME NEW i \in 0..(m + 1) PROVE h[i] = hh[i]
      <4> HIDE DEF h
      <4>1. CASE i = 0
        BY <4>1 DEF h
      <4>2. CASE i # 0
        <5>1. h[i] = PropertyTurn(g[i - 1])
          BY <4>2 DEF h
        <5> QED BY <2>3, <4>2, <5>1
      <4> QED BY <4>1, <4>2
    <3> QED BY <3>1
  <2>5. \E g2 : Eqn(g2, m + 1)
    <3> HIDE DEF Eqn, h
    <3> QED BY <2>4
  <2> HIDE DEF Eqn
  <2> QED BY <2>5
<1>3. Len(s) \in S
  <2> HIDE DEF S
  <2> QED BY <1>1, <1>2, NatSteps
<1>4. PropertyLoop(s) = f[Len(s)]
  BY Zenon DEF PropertyLoop
<1>5. Eqn(f, Len(s))
  <2>1. \E g : Eqn(g, Len(s))
    BY <1>3
  <2> HIDE DEF Eqn
  <2> QED BY <2>1, Zenon
<1> HIDE DEF f
<1>6. \A i \in 0..Len(s) : f[i] = IF i = 0 THEN Got(<<>>, s) ELSE PropertyTurn(f[i - 1])
  BY <1>5, Zenon
<1>7. f[0] = Got(<<>>, s)
  BY <1>6
<1>8. \A i \in 1..Len(s) : f[i] = PropertyTurn(f[i - 1])
  BY <1>6
<1> QED BY <1>4, <1>7, <1>8

\* Values are read one by one.
LEMMA AllSteps ==
  ASSUME NEW kinds, NEW s, Len(kinds) \in Nat
  PROVE  \E f : /\ ReadAll(kinds, s) = f[Len(kinds)]
                /\ f[0] = Got(<<>>, s)
                /\ \A i \in 1..Len(kinds) : f[i] = NextRead(f[i - 1], kinds[i])
<1> DEFINE Eqn(g, m) == g = [i \in 0..m |-> IF i = 0 THEN Got(<<>>, s) ELSE NextRead(g[i - 1], kinds[i])]
           S == {m \in Nat : \E g : Eqn(g, m)}
           f == CHOOSE g : Eqn(g, Len(kinds))
<1>1. 0 \in S
  <2>1. Eqn([i \in 0..0 |-> Got(<<>>, s)], 0)
    OBVIOUS
  <2> QED BY <2>1
<1>2. ASSUME NEW m \in Nat, m \in S PROVE m + 1 \in S
  <2>1. PICK g : Eqn(g, m)
    BY <1>2
  <2> DEFINE h == [i \in 0..(m + 1) |-> IF i = 0 THEN Got(<<>>, s) ELSE NextRead(g[i - 1], kinds[i])]
  <2>2. ASSUME NEW i \in 0..m PROVE h[i] = g[i]
    <3>1. g[i] = IF i = 0 THEN Got(<<>>, s) ELSE NextRead(g[i - 1], kinds[i])
      BY <2>1, Zenon
    <3> QED BY <3>1
  <2>3. ASSUME NEW i \in 0..(m + 1), i # 0 PROVE h[i - 1] = g[i - 1]
    <3>1. i - 1 \in 0..m
      BY <2>3
    <3> HIDE DEF h
    <3> QED BY <2>2, <3>1
  <2>4. Eqn(h, m + 1)
    <3> DEFINE hh == [i \in 0..(m + 1) |-> IF i = 0 THEN Got(<<>>, s) ELSE NextRead(h[i - 1], kinds[i])]
    <3>1. ASSUME NEW i \in 0..(m + 1) PROVE h[i] = hh[i]
      <4> HIDE DEF h
      <4>1. CASE i = 0
        BY <4>1 DEF h
      <4>2. CASE i # 0
        <5>1. h[i] = NextRead(g[i - 1], kinds[i])
          BY <4>2 DEF h
        <5> QED BY <2>3, <4>2, <5>1
      <4> QED BY <4>1, <4>2
    <3> QED BY <3>1
  <2>5. \E g2 : Eqn(g2, m + 1)
    <3> HIDE DEF Eqn, h
    <3> QED BY <2>4
  <2> HIDE DEF Eqn
  <2> QED BY <2>5
<1>3. Len(kinds) \in S
  <2> HIDE DEF S
  <2> QED BY <1>1, <1>2, NatSteps
<1>4. ReadAll(kinds, s) = f[Len(kinds)]
  BY Zenon DEF ReadAll
<1>5. Eqn(f, Len(kinds))
  <2>1. \E g : Eqn(g, Len(kinds))
    BY <1>3
  <2> HIDE DEF Eqn
  <2> QED BY <2>1, Zenon
<1> HIDE DEF f
<1>6. \A i \in 0..Len(kinds) : f[i] = IF i = 0 THEN Got(<<>>, s) ELSE NextRead(f[i - 1], kinds[i])
  BY <1>5, Zenon
<1>7. f[0] = Got(<<>>, s)
  BY <1>6
<1>8. \A i \in 1..Len(kinds) : f[i] = NextRead(f[i - 1], kinds[i])
  BY <1>6
<1> QED BY <1>4, <1>7, <1>8

\* A list is read entry by entry.
LEMMA ManySteps ==
  ASSUME NEW kinds, NEW s, Len(s) \in Nat
  PROVE  \E f : /\ ReadMany(kinds, s) = f[Len(s)]
                /\ f[0] = Got(<<>>, s)
                /\ \A i \in 1..Len(s) : f[i] = NextEntry(f[i - 1], kinds)
<1> DEFINE Eqn(g, m) == g = [i \in 0..m |-> IF i = 0 THEN Got(<<>>, s) ELSE NextEntry(g[i - 1], kinds)]
           S == {m \in Nat : \E g : Eqn(g, m)}
           f == CHOOSE g : Eqn(g, Len(s))
<1>1. 0 \in S
  <2>1. Eqn([i \in 0..0 |-> Got(<<>>, s)], 0)
    OBVIOUS
  <2> QED BY <2>1
<1>2. ASSUME NEW m \in Nat, m \in S PROVE m + 1 \in S
  <2>1. PICK g : Eqn(g, m)
    BY <1>2
  <2> DEFINE h == [i \in 0..(m + 1) |-> IF i = 0 THEN Got(<<>>, s) ELSE NextEntry(g[i - 1], kinds)]
  <2>2. ASSUME NEW i \in 0..m PROVE h[i] = g[i]
    <3>1. g[i] = IF i = 0 THEN Got(<<>>, s) ELSE NextEntry(g[i - 1], kinds)
      BY <2>1, Zenon
    <3> QED BY <3>1
  <2>3. ASSUME NEW i \in 0..(m + 1), i # 0 PROVE h[i - 1] = g[i - 1]
    <3>1. i - 1 \in 0..m
      BY <2>3
    <3> HIDE DEF h
    <3> QED BY <2>2, <3>1
  <2>4. Eqn(h, m + 1)
    <3> DEFINE hh == [i \in 0..(m + 1) |-> IF i = 0 THEN Got(<<>>, s) ELSE NextEntry(h[i - 1], kinds)]
    <3>1. ASSUME NEW i \in 0..(m + 1) PROVE h[i] = hh[i]
      <4> HIDE DEF h
      <4>1. CASE i = 0
        BY <4>1 DEF h
      <4>2. CASE i # 0
        <5>1. h[i] = NextEntry(g[i - 1], kinds)
          BY <4>2 DEF h
        <5> QED BY <2>3, <4>2, <5>1
      <4> QED BY <4>1, <4>2
    <3> QED BY <3>1
  <2>5. \E g2 : Eqn(g2, m + 1)
    <3> HIDE DEF Eqn, h
    <3> QED BY <2>4
  <2> HIDE DEF Eqn
  <2> QED BY <2>5
<1>3. Len(s) \in S
  <2> HIDE DEF S
  <2> QED BY <1>1, <1>2, NatSteps
<1>4. ReadMany(kinds, s) = f[Len(s)]
  BY Zenon DEF ReadMany
<1>5. Eqn(f, Len(s))
  <2>1. \E g : Eqn(g, Len(s))
    BY <1>3
  <2> HIDE DEF Eqn
  <2> QED BY <2>1, Zenon
<1> HIDE DEF f
<1>6. \A i \in 0..Len(s) : f[i] = IF i = 0 THEN Got(<<>>, s) ELSE NextEntry(f[i - 1], kinds)
  BY <1>5, Zenon
<1>7. f[0] = Got(<<>>, s)
  BY <1>6
<1>8. \A i \in 1..Len(s) : f[i] = NextEntry(f[i - 1], kinds)
  BY <1>6
<1> QED BY <1>4, <1>7, <1>8

\* A filter is split character by character.
LEMMA LevelsSteps ==
  ASSUME NEW text, Len(text) \in Nat
  PROVE  \E f : /\ Levels(text) = f[Len(text)]
                /\ f[0] = <<<<>>>>
                /\ \A i \in 1..Len(text) : f[i] = LevelsBehind(f[i - 1], text[i])
<1> DEFINE Eqn(g, m) == g = [i \in 0..m |-> IF i = 0 THEN <<<<>>>> ELSE LevelsBehind(g[i - 1], text[i])]
           S == {m \in Nat : \E g : Eqn(g, m)}
           f == CHOOSE g : Eqn(g, Len(text))
<1>1. 0 \in S
  <2>1. Eqn([i \in 0..0 |-> <<<<>>>>], 0)
    OBVIOUS
  <2> QED BY <2>1
<1>2. ASSUME NEW m \in Nat, m \in S PROVE m + 1 \in S
  <2>1. PICK g : Eqn(g, m)
    BY <1>2
  <2> DEFINE h == [i \in 0..(m + 1) |-> IF i = 0 THEN <<<<>>>> ELSE LevelsBehind(g[i - 1], text[i])]
  <2>2. ASSUME NEW i \in 0..m PROVE h[i] = g[i]
    <3>1. g[i] = IF i = 0 THEN <<<<>>>> ELSE LevelsBehind(g[i - 1], text[i])
      BY <2>1, Zenon
    <3> QED BY <3>1
  <2>3. ASSUME NEW i \in 0..(m + 1), i # 0 PROVE h[i - 1] = g[i - 1]
    <3>1. i - 1 \in 0..m
      BY <2>3
    <3> HIDE DEF h
    <3> QED BY <2>2, <3>1
  <2>4. Eqn(h, m + 1)
    <3> DEFINE hh == [i \in 0..(m + 1) |-> IF i = 0 THEN <<<<>>>> ELSE LevelsBehind(h[i - 1], text[i])]
    <3>1. ASSUME NEW i \in 0..(m + 1) PROVE h[i] = hh[i]
      <4> HIDE DEF h
      <4>1. CASE i = 0
        BY <4>1 DEF h
      <4>2. CASE i # 0
        <5>1. h[i] = LevelsBehind(g[i - 1], text[i])
          BY <4>2 DEF h
        <5> QED BY <2>3, <4>2, <5>1
      <4> QED BY <4>1, <4>2
    <3> QED BY <3>1
  <2>5. \E g2 : Eqn(g2, m + 1)
    <3> HIDE DEF Eqn, h
    <3> QED BY <2>4
  <2> HIDE DEF Eqn
  <2> QED BY <2>5
<1>3. Len(text) \in S
  <2> HIDE DEF S
  <2> QED BY <1>1, <1>2, NatSteps
<1>4. Levels(text) = f[Len(text)]
  BY Zenon DEF Levels
<1>5. Eqn(f, Len(text))
  <2>1. \E g : Eqn(g, Len(text))
    BY <1>3
  <2> HIDE DEF Eqn
  <2> QED BY <2>1, Zenon
<1> HIDE DEF f
<1>6. \A i \in 0..Len(text) : f[i] = IF i = 0 THEN <<<<>>>> ELSE LevelsBehind(f[i - 1], text[i])
  BY <1>5, Zenon
<1>7. f[0] = <<<<>>>>
  BY <1>6
<1>8. \A i \in 1..Len(text) : f[i] = LevelsBehind(f[i - 1], text[i])
  BY <1>6
<1> QED BY <1>4, <1>7, <1>8

\* FlattenSeq adds sequence to sequence.
LEMMA FlattenSteps ==
  ASSUME NEW S, NEW seqs \in Seq(Seq(S))
  PROVE  \E f : /\ FlattenSeq(seqs) = f[Len(seqs)]
                /\ f[0] = <<>>
                /\ \A i \in 1..Len(seqs) : f[i] = f[i - 1] \o seqs[i]
                /\ \A i \in 0..Len(seqs) : f[i] \in Seq(S)
<1> DEFINE D == 1..Len(seqs)
           V == Seq(S)
           Value(g, i) == IF i = 1 THEN seqs[i] ELSE g[i - 1] \o seqs[i]
           Eqn(g) == g = [i \in D |-> Value(g, i)]
           init == [i \in D |-> seqs[i]]
           prev == [i \in D |-> IF i = 1 THEN 1 ELSE i - 1]
           rank == [i \in D |-> i]
           step == [d \in D \X V |-> d[2] \o seqs[d[1]]]
           f == CHOOSE g : Eqn(g)
<1>1. CASE Len(seqs) = 0
  <2> DEFINE h == [i \in {0} |-> <<>>]
  <2>1. seqs = <<>> /\ FlattenSeq(seqs) = seqs
    BY <1>1 DEF FlattenSeq
  <2>2. <<>> \in Seq(S) /\ h[0] = <<>> /\ 1..0 = {} /\ \A i \in 0..0 : i = 0
    OBVIOUS
  <2> HIDE DEF h
  <2>3. /\ FlattenSeq(seqs) = h[Len(seqs)] /\ h[0] = <<>>
        /\ \A i \in 1..Len(seqs) : h[i] = h[i - 1] \o seqs[i]
        /\ \A i \in 0..Len(seqs) : h[i] \in Seq(S)
    BY <1>1, <2>1, <2>2
  <2> QED BY <2>3
<1>2. CASE Len(seqs) # 0
  <2>1. FlattenSeq(seqs) = f[Len(seqs)]
    BY <1>2, Zenon DEF FlattenSeq
  <2>2. \A i \in D : seqs[i] \in V /\ i \in Nat /\ (i # 1 => i - 1 \in D)
    OBVIOUS
  <2>3. PICK g \in [D -> V] : \A i \in D : Follows(g, {1}, init, prev, step, i)
    <3>1. /\ rank \in [D -> Nat] /\ init \in [D -> V] /\ prev \in [D -> D] /\ <<>> \in V
          /\ \A i \in D : i \notin {1} => rank[prev[i]] < rank[i]
      BY <2>2
    <3>2. step \in [D \X V -> V]
      <4>1. ASSUME NEW i \in D, NEW w \in V PROVE w \o seqs[i] \in V
        BY <2>2
      <4> HIDE DEF D, V
      <4>2. \A d \in D \X V : d[2] \o seqs[d[1]] \in V
        BY <4>1
      <4> QED BY <4>2
    <3> HIDE DEF D, V, init, prev, step, rank
    <3> QED BY <3>1, <3>2, Recursion, ZenonT(30)
  <2>4. \A i \in D : g[i] = Value(g, i)
    <3> SUFFICES ASSUME NEW i \in D PROVE g[i] = Value(g, i)
      OBVIOUS
    <3>1. Follows(g, {1}, init, prev, step, i)
      BY <2>3
    <3>2. CASE i = 1
      BY <3>1, <3>2 DEF Follows
    <3>3. CASE i # 1
      <4>1. i - 1 \in D /\ prev[i] = i - 1 /\ g[i - 1] \in V
        BY <2>2, <3>3
      <4>2. g[i] = step[<<i, g[i - 1]>>]
        <5> HIDE DEF step, init
        <5> QED BY <3>1, <3>3, <4>1 DEF Follows
      <4> QED BY <3>3, <4>1, <4>2
    <3> QED BY <3>2, <3>3
  <2>5. Eqn(g)
    <3> HIDE DEF D, V, Value
    <3> QED BY <2>4
  <2>6. Eqn(f)
    <3> HIDE DEF Eqn
    <3> QED BY <2>5, Zenon
  <2> HIDE DEF f
  <2>7. \A i \in D : f[i] = Value(f, i)
    <3> HIDE DEF D, Value
    <3> QED BY <2>6
  <2>8. \A i \in D : f[i] \in V
    <3> DEFINE T == {i \in Nat : i + 1 \in D => f[i + 1] \in V}
    <3>1. 0 \in T
      BY <2>2, <2>7
    <3>2. ASSUME NEW i \in Nat, i \in T PROVE i + 1 \in T
      <4> SUFFICES ASSUME (i + 1) + 1 \in D PROVE f[(i + 1) + 1] \in V
        OBVIOUS
      <4>1. i + 1 \in D /\ (i + 1) + 1 # 1 /\ ((i + 1) + 1) - 1 = i + 1
        OBVIOUS
      <4>2. f[i + 1] \in V
        BY <3>2, <4>1
      <4>3. f[(i + 1) + 1] = f[i + 1] \o seqs[(i + 1) + 1]
        BY <2>7, <4>1
      <4>4. seqs[(i + 1) + 1] \in V
        BY <2>2
      <4> HIDE DEF D
      <4> QED BY <4>2, <4>3, <4>4
    <3>3. \A i \in Nat : i \in T
      <4> HIDE DEF T
      <4> QED BY <3>1, <3>2, NatSteps
    <3>4. \A i \in D : i - 1 \in Nat /\ (i - 1) + 1 = i
      OBVIOUS
    <3> HIDE DEF D, V
    <3> QED BY <3>3, <3>4
  <2>9. Len(seqs) \in D
    BY <1>2
  <2> DEFINE h == [i \in 0..Len(seqs) |-> IF i = 0 THEN <<>> ELSE f[i]]
  <2>10. h[0] = <<>> /\ \A i \in D : h[i] = f[i]
    <3> HIDE DEF f
    <3> QED OBVIOUS
  <2>11. \A i \in D : h[i] = h[i - 1] \o seqs[i]
    <3> SUFFICES ASSUME NEW i \in D PROVE h[i] = h[i - 1] \o seqs[i]
      OBVIOUS
    <3> HIDE DEF h
    <3>1. CASE i = 1
      <4>1. f[i] = seqs[i] /\ h[i] = f[i] /\ h[i - 1] = <<>> /\ seqs[i] \in V
        BY <2>2, <2>7, <2>10, <3>1
      <4> QED BY <4>1
    <3>2. CASE i # 1
      <4>1. i - 1 \in D
        BY <3>2
      <4> QED BY <2>7, <2>10, <3>2, <4>1
    <3> QED BY <3>1, <3>2
  <2>12. \A i \in 0..Len(seqs) : h[i] \in V
    <3>1. \A i \in 0..Len(seqs) : i = 0 \/ i \in D
      OBVIOUS
    <3>2. <<>> \in V
      OBVIOUS
    <3> HIDE DEF h, D, V
    <3> QED BY <2>8, <2>10, <3>1, <3>2
  <2>13. FlattenSeq(seqs) = h[Len(seqs)]
    BY <2>1, <2>9, <2>10
  <2> HIDE DEF h
  <2> QED BY <2>10, <2>11, <2>12, <2>13
<1> QED BY <1>1, <1>2

\* FlattenSeq concatenates sequences to a sequence.
LEMMA FlattenFacts ==
  ASSUME NEW S, NEW seqs \in Seq(Seq(S))
  PROVE  /\ FlattenSeq(seqs) \in Seq(S)
         /\ seqs = <<>> => FlattenSeq(seqs) = <<>>
<1>1. PICK f : /\ FlattenSeq(seqs) = f[Len(seqs)] /\ f[0] = <<>>
               /\ \A i \in 0..Len(seqs) : f[i] \in Seq(S)
  BY FlattenSteps, Zenon
<1>2. Len(seqs) \in 0..Len(seqs) /\ (seqs = <<>> => Len(seqs) = 0)
  OBVIOUS
<1> QED BY <1>1, <1>2, Zenon
-----------------------------------------------------------------------------
(* What is written are bytes.                                              *)

\* The bytes of a digit.
LEMMA DigitFacts ==
  /\ Byte \subseteq Nat
  /\ \A d \in Byte : Digit(d) \in Nat
  /\ \A n \in Nat : n < Base => n \in Byte /\ ~More(n) /\ Digit(n) = n
  /\ \A n \in Nat : LET d == Base + (n % Base)
                    IN  d \in Byte /\ More(d) /\ Digit(d) = n % Base
<1>1. Byte \subseteq Nat /\ \A d \in Byte : Digit(d) \in Nat
  BY FramingAssumption DEF Byte, Digit
<1>2. \A n \in Nat : n < Base => n \in Byte /\ ~More(n) /\ Digit(n) = n
  BY FramingAssumption DEF Byte, More, Digit
<1>3. ASSUME NEW n \in Nat PROVE LET d == Base + (n % Base)
                                 IN  d \in Byte /\ More(d) /\ Digit(d) = n % Base
  <2> DEFINE r == n % Base
  <2>1. r \in 0..(Base - 1) /\ Base \in Nat \ {0}
    BY FramingAssumption
  <2> HIDE DEF r
  <2>2. Base + r \in Byte /\ More(Base + r)
    BY <2>1 DEF Byte, More
  <2>3. Base + r = Base * 1 + r /\ Base + r \in Nat /\ 1 \in Nat
    BY <2>1
  <2>4. (Base + r) % Base = r
    BY <2>1, <2>3, DivModUnique
  <2> QED BY <2>2, <2>4 DEF Digit, r
<1> QED BY <1>1, <1>2, <1>3

\* VariableByteInteger satisfies its equation, and its values are bytes.
LEMMA IntegerDef ==
  \A n \in Nat :
    /\ VariableByteInteger[n] =
         IF n < Base THEN <<n>>
         ELSE <<Base + (n % Base)>> \o VariableByteInteger[n \div Base]
    /\ VariableByteInteger[n] \in Seq(Byte)
<1> DEFINE small == 0..(Base - 1)
           init == [n \in Nat |-> IF n < Base THEN <<n>> ELSE <<>>]
           prev == [n \in Nat |-> n \div Base]
           step == [d \in Nat \X Seq(Byte) |-> <<Base + (d[1] % Base)>> \o d[2]]
           rank == [n \in Nat |-> n]
           Value(g, n) == IF n < Base THEN <<n>> ELSE <<Base + (n % Base)>> \o g[n \div Base]
           Eqn(g) == g = [n \in Nat |-> Value(g, n)]
<1>1. Base \in Nat \ {0, 1}
  BY FramingAssumption
<1>2. \A n \in Nat : n \div Base \in Nat /\ (~(n < Base) => n \div Base < n)
  BY <1>1, DivMod
<1>3. \A n \in Nat : n \notin small <=> ~(n < Base)
  BY <1>1
<1>4. PICK g \in [Nat -> Seq(Byte)] : \A n \in Nat : Follows(g, small, init, prev, step, n)
  <2>1. rank \in [Nat -> Nat] /\ prev \in [Nat -> Nat] /\ <<>> \in Seq(Byte)
    BY <1>2
  <2>2. init \in [Nat -> Seq(Byte)]
    BY DigitFacts
  <2>3. step \in [Nat \X Seq(Byte) -> Seq(Byte)]
    <3> SUFFICES ASSUME NEW n \in Nat, NEW t \in Seq(Byte)
                 PROVE  <<Base + (n % Base)>> \o t \in Seq(Byte)
      OBVIOUS
    <3> DEFINE b == Base + (n % Base)
    <3>1. b \in Byte
      BY DigitFacts
    <3> HIDE DEF b
    <3>2. <<b>> \o t \in Seq(Byte)
      BY <3>1, InFront
    <3> QED BY <3>2 DEF b
  <2>4. \A n \in Nat : n \notin small => rank[prev[n]] < rank[n]
    BY <1>2, <1>3
  <2> HIDE DEF small, init, prev, step, rank
  <2> QED BY <2>1, <2>2, <2>3, <2>4, Recursion
<1>5. \A n \in Nat : g[n] = Value(g, n)
  <2> SUFFICES ASSUME NEW n \in Nat PROVE g[n] = Value(g, n)
    OBVIOUS
  <2>1. Follows(g, small, init, prev, step, n) /\ n \div Base \in Nat
    BY <1>2, <1>4
  <2>2. CASE n < Base
    BY <1>3, <2>1, <2>2 DEF Follows
  <2>3. CASE ~(n < Base)
    <3> DEFINE t == g[n \div Base]
    <3>1. t \in Seq(Byte)
      BY <2>1
    <3>2. n \notin small /\ prev[n] = n \div Base
      BY <1>3, <2>3
    <3>3. g[n] = step[<<n, t>>]
      <4> HIDE DEF small, step, prev, init
      <4> QED BY <2>1, <3>2 DEF Follows
    <3> HIDE DEF t
    <3>4. step[<<n, t>>] = <<Base + (n % Base)>> \o t
      BY <3>1
    <3> QED BY <2>3, <3>3, <3>4 DEF t
  <2> QED BY <2>2, <2>3
<1>6. Eqn(g)
  <2> HIDE DEF Value
  <2> QED BY <1>5
<1> DEFINE v == VariableByteInteger
<1>7. Eqn(v)
  <2>1. v = CHOOSE h : Eqn(h)
    BY Zenon DEF VariableByteInteger
  <2> HIDE DEF Eqn, v
  <2> QED BY <1>6, <2>1, Zenon
<1> HIDE DEF v
<1>8. \A n \in Nat : v[n] = Value(v, n)
  <2> HIDE DEF Value
  <2> QED BY <1>7
<1>9. \A n \in Nat : v[n] \in Seq(Byte)
  <2> DEFINE T == {n \in Nat : v[n] \notin Seq(Byte)}
  <2> SUFFICES ASSUME T # {} PROVE FALSE
    OBVIOUS
  <2>1. PICK n \in T : \A m \in T : n <= m
    <3>1. T \in SUBSET Nat
      OBVIOUS
    <3> HIDE DEF T
    <3> QED BY <3>1, LeastNat
  <2>2. n \in Nat /\ v[n] \notin Seq(Byte)
    OBVIOUS
  <2>3. ASSUME NEW m \in Nat, m < n PROVE v[m] \in Seq(Byte)
    <3>1. m \notin T
      BY <2>1, <2>2, <2>3
    <3> QED BY <3>1
  <2> HIDE DEF T
  <2>4. CASE n < Base
    <3>1. v[n] = <<n>> /\ n \in Byte
      BY <1>8, <2>2, <2>4, DigitFacts
    <3> QED BY <2>2, <3>1
  <2>5. CASE ~(n < Base)
    <3>1. n \div Base \in Nat /\ n \div Base < n
      BY <1>2, <2>2, <2>5
    <3>2. v[n \div Base] \in Seq(Byte)
      BY <2>3, <3>1
    <3>3. Base + (n % Base) \in Byte
      BY <2>2, DigitFacts
    <3>4. v[n] = <<Base + (n % Base)>> \o v[n \div Base]
      BY <1>8, <2>2, <2>5
    <3>5. <<Base + (n % Base)>> \in Seq(Byte)
      BY <3>3
    <3> QED BY <2>2, <3>2, <3>4, <3>5
  <2> QED BY <2>4, <2>5
<1> QED BY <1>8, <1>9 DEF v

\* How many integers there are of a number of bytes.
LEMMA WidthFacts ==
  /\ ByteValues = 256
  /\ \A k \in Nat : Power(ByteValues)[k] \in Nat \ {0}
  /\ Power(ByteValues)[0] = 1
  /\ \A k \in Nat : Power(ByteValues)[k + 1] = 256 * Power(ByteValues)[k]
  /\ Power(ByteValues)[1] = 256
<1> DEFINE P == Power(ByteValues)
<1>1. ByteValues = 256
  BY PacketsWidths
<1>2. P[0] = 1 /\ \A k \in Nat : P[k] \in Nat /\ P[k + 1] = 256 * P[k]
  <2>1. ByteValues \in Nat
    BY <1>1
  <2> QED BY <1>1, <2>1, PowerDef
<1>3. \A k \in Nat : P[k] \in Nat \ {0}
  <2>1. ByteValues \in Nat \ {0}
    BY <1>1
  <2> QED BY <2>1, PowerMonotonic
<1> HIDE DEF P
<1>4. P[1] = 256
  <2>1. P[0 + 1] = 256 * P[0]
    BY <1>2
  <2> QED BY <1>2, <2>1
<1> QED BY <1>1, <1>2, <1>3, <1>4 DEF P

\* The bytes of an integer.
LEMMA UintBytesFacts ==
  ASSUME NEW v \in Int, NEW k \in Nat
  PROVE  UintBytes(v, k) \in Octets /\ Len(UintBytes(v, k)) = k
<1>1. ASSUME NEW i \in 1..k
      PROVE  (v \div Power(ByteValues)[k - i]) % ByteValues \in 0..255
  <2> DEFINE p == Power(ByteValues)[k - i]
             q == v \div p
  <2>1. p \in Nat \ {0} /\ ByteValues \in Nat \ {0} /\ ByteValues - 1 = 255
    BY WidthFacts
  <2>2. q \in Int
    <3> HIDE DEF p
    <3> QED BY <2>1, IntDivMod
  <2> HIDE DEF q
  <2>3. q % ByteValues \in 0..(ByteValues - 1)
    BY <2>1, <2>2, IntDivMod
  <2> QED BY <2>1, <2>3 DEF q
<1> DEFINE w == UintBytes(v, k)
<1>2. w \in [1..k -> 0..255]
  BY <1>1 DEF UintBytes
<1> HIDE DEF w
<1>3. w \in Seq(0..255) /\ Len(w) = k
  BY <1>2, IsSequence, ZenonT(30)
<1> QED BY <1>3 DEF Octets, w

\* The bytes of a variable byte integer.
LEMMA VarintOctets ==
  ASSUME NEW n \in Nat
  PROVE  VariableByteInteger[n] \in Octets
<1>1. Byte = 0..255
  BY PacketsWidths DEF Byte
<1>2. VariableByteInteger[n] \in Seq(Byte)
  BY IntegerDef
<1> QED BY <1>1, <1>2 DEF Octets

\* Octets behind octets.
LEMMA JoinOctets ==
  ASSUME NEW s \in Octets, NEW t \in Octets
  PROVE  s \o t \in Octets /\ Len(s \o t) = Len(s) + Len(t)
BY JoinFacts DEF Octets

\* One byte, and none.
LEMMA OneOctet ==
  ASSUME NEW b \in 0..255
  PROVE  <<b>> \in Octets /\ Len(<<b>>) = 1
BY DEF Octets

\* No bytes are octets too.
LEMMA NoOctets == <<>> \in Octets
BY DEF Octets

\* Text and data behind their length.
LEMMA TextOctets ==
  ASSUME NEW s \in Octets
  PROVE  /\ BinaryData(s) \in Octets /\ UTF8String(s) \in Octets
         /\ Len(BinaryData(s)) = Len(s) + 2
<1>1. Len(s) \in Int
  BY DEF Octets
<1>2. UintBytes(Len(s), 2) \in Octets /\ Len(UintBytes(Len(s), 2)) = 2
  BY <1>1, UintBytesFacts
<1> DEFINE w == UintBytes(Len(s), 2)
<1> HIDE DEF w
<1>3. w \o s \in Octets /\ Len(w \o s) = Len(w) + Len(s)
  BY <1>2, JoinOctets DEF w
<1>4. BinaryData(s) = w \o s /\ UTF8String(s) = BinaryData(s)
  BY DEF BinaryData, UTF8String, w
<1>5. Len(w) = 2
  BY <1>2 DEF w
<1> QED BY <1>1, <1>3, <1>4, <1>5

\* The kinds of the properties.
LEMMA KindFacts ==
  ASSUME NEW n \in DOMAIN Property
  PROVE  /\ Kind(n) \in {"byte", "two", "four", "isOne", "notZero", "text", "topic", "binary",
                         "varint", "pair"}
         /\ Identifier(n) \in 1..255
BY DEF Property, Kind, Identifier

\* The bytes of a value.
LEMMA FieldOctets ==
  ASSUME NEW kind \in {"byte", "two", "four", "isOne", "notZero", "text", "topic", "binary",
                       "varint", "pair"},
         NEW v, Holds(kind, v)
  PROVE  Field(kind, v) \in Octets
<1>1. CASE kind = "byte"
  <2>1. v \in Int
    BY <1>1 DEF Holds
  <2>2. Field(kind, v) = UintBytes(v, 1)
    BY <1>1 DEF Field
  <2> QED BY <2>1, <2>2, UintBytesFacts
<1>2. CASE kind = "two"
  <2>1. v \in Int
    BY <1>2 DEF Holds
  <2>2. Field(kind, v) = UintBytes(v, 2)
    BY <1>2 DEF Field
  <2> QED BY <2>1, <2>2, UintBytesFacts
<1>3. CASE kind = "four"
  <2>1. v \in Int
    BY <1>3 DEF Holds
  <2>2. Field(kind, v) = UintBytes(v, 4)
    BY <1>3 DEF Field
  <2> QED BY <2>1, <2>2, UintBytesFacts
<1>4. CASE kind = "text"
  <2>1. v \in Octets
    BY <1>4 DEF Holds
  <2>2. Field(kind, v) = UTF8String(v)
    BY <1>4 DEF Field
  <2> QED BY <2>1, <2>2, TextOctets
<1>5. CASE kind = "topic"
  <2>1. v \in Octets
    BY <1>5 DEF Holds
  <2>2. Field(kind, v) = UTF8String(v)
    BY <1>5 DEF Field
  <2> QED BY <2>1, <2>2, TextOctets
<1>6. CASE kind = "binary"
  <2>1. v \in Octets
    BY <1>6 DEF Holds
  <2>2. Field(kind, v) = BinaryData(v)
    BY <1>6 DEF Field
  <2> QED BY <2>1, <2>2, TextOctets
<1>7. CASE kind = "varint"
  <2>1. v \in Nat
    BY <1>7 DEF Holds
  <2>2. Field(kind, v) = VariableByteInteger[v]
    BY <1>7 DEF Field
  <2> QED BY <2>1, <2>2, VarintOctets
<1>8. CASE kind = "isOne"
  <2>1. Field(kind, v) = <<Bit(v, 1)>>
    BY <1>8 DEF Field
  <2>2. Bit(v, 1) \in 0..255
    BY DEF Bit
  <2> QED BY <2>1, <2>2, OneOctet
<1>9. CASE kind = "notZero"
  <2>1. Field(kind, v) = <<Bit(v, 1)>>
    BY <1>9 DEF Field
  <2>2. Bit(v, 1) \in 0..255
    BY DEF Bit
  <2> QED BY <2>1, <2>2, OneOctet
<1>10. CASE kind = "pair"
  <2>1. Field(kind, v) = UTF8String(v[1]) \o UTF8String(v[2])
    BY <1>10 DEF Field
  <2>2. v[1] \in Octets /\ v[2] \in Octets
    BY <1>10 DEF Holds
  <2>3. UTF8String(v[1]) \in Octets /\ UTF8String(v[2]) \in Octets
    BY <2>2, TextOctets
  <2> QED BY <2>1, <2>3, JoinOctets
<1> QED BY <1>1, <1>2, <1>3, <1>4, <1>5, <1>6, <1>7, <1>8, <1>9, <1>10

\* Pieces one behind the other.
LEMMA FlattenOctets ==
  ASSUME NEW n \in Nat, NEW f, \A i \in 1..n : f[i] \in Octets
  PROVE  FlattenSeq([i \in 1..n |-> f[i]]) \in Octets
<1> DEFINE pieces == [i \in 1..n |-> f[i]]
<1>1. pieces \in [1..n -> Octets]
  OBVIOUS
<1> HIDE DEF pieces
<1>2. pieces \in Seq(Octets)
  BY <1>1, IsSequence, ZenonT(30)
<1>3. FlattenSeq(pieces) \in Octets
  BY <1>2, FlattenFacts DEF Octets
<1> QED BY <1>3 DEF pieces

\* The bytes of a property, which has a list where it may be repeated.
LEMMA PropertyOctets ==
  ASSUME NEW n \in DOMAIN Property, NEW v, HoldsProperty(Type.Connect, n, v)
  PROVE  PropertyBytes(n, v) \in Octets
<1> DEFINE one(x) == <<Identifier(n)>> \o Field(Kind(n), x)
<1>1. ASSUME NEW x, Holds(Kind(n), x) PROVE one(x) \in Octets
  <2>1. Field(Kind(n), x) \in Octets
    BY <1>1, KindFacts, FieldOctets
  <2>2. Identifier(n) \in 0..255
    BY KindFacts
  <2>3. <<Identifier(n)>> \in Octets
    BY <2>2, OneOctet
  <2> QED BY <2>1, <2>3, JoinOctets
<1>2. CASE Repeated(n)
  <2>1. IsArray(v) /\ \A i \in 1..Len(v) : Holds(Kind(n), v[i])
    <3>1. Type.Connect # Type.Subscribe
      BY DEF Type
    <3> QED BY <1>2, <3>1 DEF HoldsProperty
  <2> DEFINE f == [i \in 1..Len(v) |-> one(v[i])]
  <2>2. Len(v) \in Nat
    BY <2>1 DEF IsArray
  <2>3. \A i \in 1..Len(v) : f[i] \in Octets
    <3> HIDE DEF one
    <3> QED BY <1>1, <2>1
  <2>4. [i \in 1..Len(v) |-> f[i]] = f
    OBVIOUS
  <2>5. PropertyBytes(n, v) = FlattenSeq(f)
    BY <1>2 DEF PropertyBytes
  <2> HIDE DEF f
  <2> QED BY <2>2, <2>3, <2>4, <2>5, FlattenOctets
<1>3. CASE ~Repeated(n)
  <2>1. Holds(Kind(n), v) /\ PropertyBytes(n, v) = one(v)
    BY <1>3 DEF HoldsProperty, PropertyBytes
  <2> HIDE DEF one
  <2> QED BY <1>1, <2>1
<1> QED BY <1>2, <1>3

\* The numbers of the types.
LEMMA TypeFacts ==
  /\ Type.Reserved = 0 /\ Type.Connect = 1 /\ Type.ConnAck = 2 /\ Type.Publish = 3
  /\ Type.PubAck = 4 /\ Type.PubRec = 5 /\ Type.PubRel = 6 /\ Type.PubComp = 7
  /\ Type.Subscribe = 8 /\ Type.SubAck = 9 /\ Type.Unsubscribe = 10 /\ Type.UnsubAck = 11
  /\ Type.PingReq = 12 /\ Type.PingResp = 13 /\ Type.Disconnect = 14 /\ Type.Auth = 15
BY DEF Type

\* The properties of a packet are those of a CONNECT but for the list of a SUBSCRIBE.
LEMMA AsConnect ==
  ASSUME NEW type, NEW props, IsProperties(type, props), type # Type.Subscribe
  PROVE  IsProperties(Type.Connect, props)
BY TypeFacts DEF IsProperties, HoldsProperty

\* A field that may be left out.
LEMMA OptionalFacts ==
  ASSUME NEW p, NEW f, NEW default
  PROVE  /\ f \in DOMAIN p => Optional(p, f, default) = p[f]
         /\ f \notin DOMAIN p => Optional(p, f, default) = default
BY DEF Optional

\* No properties are properties.
LEMMA NoProperties == IsProperties(Type.Connect, <<>>) /\ DOMAIN <<>> = {}
BY DEF IsProperties

\* The properties that are written for a payload, and for a SUBSCRIBE.
LEMMA FormattedHolds ==
  ASSUME NEW p, "properties" \in DOMAIN p => IsProperties(Type.Connect, p.properties)
  PROVE  IsProperties(Type.Connect, Formatted(p))
<1> DEFINE given == Given(p)
           props == Restrict(given, DOMAIN given \ {"payload_format_indicator"})
<1>1. IsProperties(Type.Connect, given)
  BY NoProperties, OptionalFacts DEF Given
<1>2. /\ DOMAIN props \subseteq DOMAIN given /\ \A n \in DOMAIN props : props[n] = given[n]
  BY DEF Restrict
<1> HIDE DEF given, props
<1>3. IsProperties(Type.Connect, props)
  BY <1>1, <1>2 DEF IsProperties
<1> DEFINE both == [payload_format_indicator |-> 1] ++ props
<1>4. IsProperties(Type.Connect, both)
  <2>1. /\ DOMAIN both = {"payload_format_indicator"} \cup DOMAIN props
        /\ both["payload_format_indicator"] = 1
        /\ \A n \in DOMAIN props \ {"payload_format_indicator"} : both[n] = props[n]
    BY DEF ++
  <2>2. /\ "payload_format_indicator" \in DOMAIN Property
        /\ HoldsProperty(Type.Connect, "payload_format_indicator", 1)
    BY DEF Property, HoldsProperty, Repeated, Kind, Holds
  <2> HIDE DEF both
  <2> QED BY <1>3, <2>1, <2>2 DEF IsProperties
<1>5. Formatted(p) = both \/ Formatted(p) = props
  BY DEF Formatted, both, props, given
<1> QED BY <1>3, <1>4, <1>5

\* A SUBSCRIBE writes its one identifier as the list of one that other packets have.
LEMMA OneIdentifierHolds ==
  ASSUME NEW props, IsProperties(Type.Subscribe, props)
  PROVE  IsProperties(Type.Connect, OneIdentifier(props))
<1> DEFINE id == "subscription_identifier"
<1>1. Kind(id) = "varint" /\ Repeated(id)
  BY DEF Property, Kind, Repeated
<1>2. ASSUME NEW n \in DOMAIN props, n # id PROVE HoldsProperty(Type.Connect, n, props[n])
  BY <1>2 DEF IsProperties, HoldsProperty
<1>3. CASE id \notin DOMAIN props
  BY <1>2, <1>3 DEF OneIdentifier, IsProperties
<1>4. CASE id \in DOMAIN props
  <2> DEFINE v == IF props[id] = 0 THEN <<>> ELSE <<props[id]>>
             q == OneIdentifier(props)
  <2>1. props[id] \in Nat
    BY <1>1, <1>4 DEF IsProperties, HoldsProperty, Holds
  <2>2. q = [props EXCEPT ![id] = v]
    BY <1>4 DEF OneIdentifier
  <2>3. IsArray(v) /\ \A i \in 1..Len(v) : v[i] \in Nat
    BY <2>1 DEF IsArray
  <2> HIDE DEF v, q
  <2>4. DOMAIN q = DOMAIN props /\ q[id] = v /\ \A n \in DOMAIN props : n # id => q[n] = props[n]
    BY <1>4, <2>2
  <2>5. HoldsProperty(Type.Connect, id, q[id])
    <3>1. Repeated(id) /\ Kind(id) = "varint" /\ Type.Connect # Type.Subscribe
      BY <1>1, TypeFacts
    <3>2. \A x : x \in Nat => Holds("varint", x)
      BY DEF Holds
    <3> QED BY <2>3, <2>4, <3>1, <3>2 DEF HoldsProperty
  <2>6. \A n \in DOMAIN q : HoldsProperty(Type.Connect, n, q[n])
    BY <1>2, <2>4, <2>5
  <2> QED BY <2>4, <2>6 DEF IsProperties, q
<1> QED BY <1>3, <1>4

\* A length and what it counts.
LEMMA CountedOctets ==
  ASSUME NEW n \in Nat, NEW f, \A i \in 1..n : f[i] \in Octets
  PROVE  LET data == FlattenSeq([i \in 1..n |-> f[i]])
         IN  VariableByteInteger[Len(data)] \o data \in Octets
<1> DEFINE data == FlattenSeq([i \in 1..n |-> f[i]])
<1>1. data \in Octets
  BY FlattenOctets
<1> HIDE DEF data
<1>2. Len(data) \in Nat
  BY <1>1 DEF Octets
<1>3. VariableByteInteger[Len(data)] \in Octets
  BY <1>2, VarintOctets
<1>4. VariableByteInteger[Len(data)] \o data \in Octets
  BY <1>1, <1>3, JoinOctets
<1> QED BY <1>4 DEF data

\* The lists of names have an end.
LEMMA NamesCounted ==
  /\ \A type : Len(PropertiesOf(type)) \in Nat
  /\ Len(WillProperties) \in Nat
BY DEF PropertiesOf, WillProperties

\* The properties of a will are written as bytes.
LEMMA WillPropertiesOctets ==
  ASSUME NEW props, IsProperties(Type.Connect, props)
  PROVE  AddProperties(WillProperties, props, LAMBDA n : TRUE) \in Octets
<1> DEFINE names == WillProperties
           bytes(name) == IF name \in DOMAIN props /\ TRUE
                          THEN PropertyBytes(name, props[name]) ELSE <<>>
           f == [i \in 1..Len(names) |-> bytes(names[i])]
<1>1. Len(names) \in Nat
  BY NamesCounted
<1>2. \A name : bytes(name) \in Octets
  BY PropertyOctets, NoOctets DEF IsProperties
<1>3. \A i \in 1..Len(names) : f[i] \in Octets
  <2> HIDE DEF names, bytes
  <2> QED BY <1>2
<1>4. [i \in 1..Len(names) |-> f[i]] = f
  OBVIOUS
<1>5. AddProperties(WillProperties, props, LAMBDA n : TRUE)
        = VariableByteInteger[Len(FlattenSeq(f))] \o FlattenSeq(f)
  BY DEF AddProperties
<1> HIDE DEF f, names, bytes
<1> QED BY <1>1, <1>3, <1>4, <1>5, CountedOctets

\* The properties of a packet are written as bytes.
LEMMA PacketPropertiesOctets ==
  ASSUME NEW p, "properties" \in DOMAIN p => IsProperties(p.type, p.properties)
  PROVE  PacketProperties(p) \in Octets
<1> DEFINE props == CASE p.type = Type.Publish -> Formatted(p)
                      [] p.type = Type.Subscribe -> OneIdentifier(Given(p))
                      [] OTHER -> Given(p)
           names == PropertiesOf(p.type)
           bytes(name) == IF name \in DOMAIN props /\ Sent(p.type, name, props[name])
                          THEN PropertyBytes(name, props[name]) ELSE <<>>
           f == [i \in 1..Len(names) |-> bytes(names[i])]
<1>1. IsProperties(Type.Connect, props)
  <2>1. CASE p.type = Type.Publish
    <3>1. "properties" \in DOMAIN p => IsProperties(Type.Connect, p.properties)
      BY <2>1, AsConnect, TypeFacts
    <3>2. IsProperties(Type.Connect, Formatted(p))
      BY <3>1, FormattedHolds
    <3> QED BY <2>1, <3>2, TypeFacts
  <2>2. CASE p.type = Type.Subscribe
    <3>1. IsProperties(Type.Subscribe, Given(p))
      BY <2>2, OptionalFacts, NoProperties DEF Given, IsProperties
    <3>2. IsProperties(Type.Connect, OneIdentifier(Given(p)))
      BY <3>1, OneIdentifierHolds
    <3> QED BY <2>2, <3>2, TypeFacts
  <2>3. CASE p.type \notin {Type.Publish, Type.Subscribe}
    <3>1. IsProperties(Type.Connect, Given(p))
      BY <2>3, OptionalFacts, NoProperties, AsConnect DEF Given
    <3> QED BY <2>3, <3>1
  <2> QED BY <2>1, <2>2, <2>3
<1>2. Len(names) \in Nat
  BY NamesCounted
<1> HIDE DEF names
<1>3. PacketProperties(p) = VariableByteInteger[Len(FlattenSeq(f))] \o FlattenSeq(f)
  BY DEF PacketProperties, AddProperties, names
<1> HIDE DEF props
<1>4. \A name : bytes(name) \in Octets
  BY <1>1, PropertyOctets, NoOctets DEF IsProperties
<1>5. \A i \in 1..Len(names) : f[i] \in Octets
  <2> HIDE DEF bytes
  <2> QED BY <1>4
<1>6. [i \in 1..Len(names) |-> f[i]] = f
  OBVIOUS
<1> HIDE DEF f
<1> QED BY <1>2, <1>3, <1>5, <1>6, CountedOctets

\* A text that may be left out is written as bytes.
LEMMA TextField ==
  ASSUME NEW p, NEW f, f \in DOMAIN p => p[f] \in Octets
  PROVE  /\ (IF f \in DOMAIN p THEN UTF8String(p[f]) ELSE <<>>) \in Octets
         /\ UTF8String(Optional(p, f, <<>>)) \in Octets
<1>1. CASE f \in DOMAIN p
  BY <1>1, TextOctets, OptionalFacts
<1>2. CASE f \notin DOMAIN p
  BY <1>2, TextOctets, NoOctets, OptionalFacts
<1> QED BY <1>1, <1>2

\* What a payload is.
LEMMA PayloadOctets ==
  ASSUME NEW p, "payload" \in DOMAIN p => p.payload[2] \in Octets
  PROVE  PayloadBytes(p) \in Octets
<1>1. CASE "payload" \in DOMAIN p
  <2>1. PayloadBytes(p) = p.payload[2]
    BY <1>1, OptionalFacts DEF PayloadBytes
  <2> QED BY <1>1, <2>1
<1>2. CASE "payload" \notin DOMAIN p
  <2>1. Optional(p, "payload", <<"binary", <<>>>>) = <<"binary", <<>>>>
    BY <1>2, OptionalFacts
  <2>2. PayloadBytes(p) = <<>>
    BY <2>1 DEF PayloadBytes
  <2> QED BY <2>2, NoOctets
<1> QED BY <1>1, <1>2

\* Five pieces and six.
LEMMA JoinMany ==
  ASSUME NEW a \in Octets, NEW b \in Octets, NEW c \in Octets
  PROVE  a \o b \o c \in Octets
<1>1. a \o b \in Octets
  BY JoinOctets
<1> QED BY <1>1, JoinOctets

\* A byte that may be left out.
LEMMA ByteField ==
  ASSUME NEW p, NEW f, NEW default \in 0..255, f \in DOMAIN p => p[f] \in 0..255
  PROVE  Optional(p, f, default) \in 0..255 /\ <<Optional(p, f, default)>> \in Octets
<1>1. Optional(p, f, default) \in 0..255
  BY OptionalFacts
<1> QED BY <1>1, OneOctet

\* The flags of a CONNECT are a byte.
LEMMA ConnectFlagsByte ==
  ASSUME NEW p, HoldFields(p), "will" \in DOMAIN p => HoldFields(p.will)
  PROVE  ConnectFlags(p) \in 0..255
<1> DEFINE will == Optional(p, "will", <<>>)
           retain == Optional(will, "retain", FALSE)
           qos == Optional(will, "qos", 0)
           clean == Optional(p, "clean_start", TRUE)
<1>1. HoldFields(will)
  <2>1. HoldFields(<<>>)
    BY NoProperties DEF HoldFields
  <2> QED BY <2>1, OptionalFacts
<1>2. qos \in 0..3
  <2> HIDE DEF will
  <2> QED BY <1>1, OptionalFacts DEF HoldFields
<1>3. /\ Bit("username" \in DOMAIN p, 128) \in {0, 128} /\ Bit("password" \in DOMAIN p, 64) \in {0, 64}
      /\ Bit(retain, 32) \in {0, 32} /\ Bit("will" \in DOMAIN p, 4) \in {0, 4} /\ Bit(clean, 2) \in {0, 2}
  BY DEF Bit
<1>4. ConnectFlags(p) = Bit("username" \in DOMAIN p, 128) + Bit("password" \in DOMAIN p, 64)
        + Bit(retain, 32) + 8 * qos + Bit("will" \in DOMAIN p, 4) + Bit(clean, 2)
  BY DEF ConnectFlags
<1> HIDE DEF retain, qos, clean
<1>5. ASSUME NEW a \in {0, 128}, NEW b \in {0, 64}, NEW c \in {0, 32}, NEW d \in 0..3,
             NEW e \in {0, 4}, NEW g \in {0, 2}
      PROVE  a + b + c + 8 * d + e + g \in 0..255
  OBVIOUS
<1> QED BY <1>2, <1>3, <1>4, <1>5

\* What each function of serialize.ts writes behind the fixed header are bytes: CONNECT.
LEMMA ConnectOctets ==
  ASSUME NEW p, IsPacket(p), p.type = Type.Connect
  PROVE  ConnectBody(p) \in Octets
<1> DEFINE b1 == UTF8String(Optional(p, "protocol_name", MQTT))
           b2 == <<Optional(p, "protocol_version", 5), ConnectFlags(p)>>
           b3 == UintBytes(Optional(p, "keepalive", 0), 2)
           b4 == PacketProperties(p)
           b5 == UTF8String(Optional(p, "client_id", <<>>))
           w1 == AddProperties(WillProperties, Formatted(p.will), LAMBDA n : TRUE)
           w2 == UTF8String(p.will.topic)
           w3 == BinaryData(PayloadBytes(p.will))
           b6 == IF "will" \notin DOMAIN p THEN <<>> ELSE w1 \o w2 \o w3
           b7 == IF "username" \in DOMAIN p THEN UTF8String(p.username) ELSE <<>>
           b8 == IF "password" \in DOMAIN p THEN UTF8String(p.password) ELSE <<>>
<1>1. HoldFields(p)
  BY DEF IsPacket, HasFields
<1>2. "will" \in DOMAIN p => IsWill(p.will) /\ HoldFields(p.will) /\ "topic" \in DOMAIN p.will
  BY DEF IsPacket, IsWill, HasFields
<1>3. b1 \in Octets
  <2>1. MQTT \in Octets
    BY DEF MQTT, Octets
  <2>2. Optional(p, "protocol_name", MQTT) \in Octets
    BY <1>1, <2>1, OptionalFacts DEF HoldFields
  <2> QED BY <2>2, TextOctets
<1>4. b2 \in Octets
  <2>1. Optional(p, "protocol_version", 5) \in 0..255
    BY <1>1, OptionalFacts DEF HoldFields
  <2>2. ConnectFlags(p) \in 0..255
    BY <1>1, <1>2, ConnectFlagsByte
  <2> QED BY <2>1, <2>2 DEF Octets
<1>5. b3 \in Octets
  <2>1. Optional(p, "keepalive", 0) \in Int
    BY <1>1, OptionalFacts DEF HoldFields
  <2> QED BY <2>1, UintBytesFacts
<1>6. b4 \in Octets
  BY PacketPropertiesOctets DEF IsPacket
<1>7. b5 \in Octets
  BY <1>1, TextField DEF HoldFields
<1>8. b6 \in Octets
  <2>1. CASE "will" \in DOMAIN p
    <3>1. w1 \in Octets
      <4>1. IsProperties(Type.Connect, Formatted(p.will))
        BY <1>2, <2>1, FormattedHolds DEF IsWill
      <4> QED BY <4>1, WillPropertiesOctets
    <3>2. w2 \in Octets
      <4>1. p.will.topic \in Octets
        BY <1>2, <2>1 DEF HoldFields
      <4> QED BY <4>1, TextOctets
    <3>3. w3 \in Octets
      <4>1. PayloadBytes(p.will) \in Octets
        BY <1>2, <2>1, PayloadOctets DEF HoldFields
      <4> QED BY <4>1, TextOctets
    <3>4. b6 = w1 \o w2 \o w3
      BY <2>1
    <3> HIDE DEF w1, w2, w3, b6
    <3> QED BY <3>1, <3>2, <3>3, <3>4, JoinMany
  <2>2. CASE "will" \notin DOMAIN p
    BY <2>2, NoOctets
  <2> QED BY <2>1, <2>2
<1>9. b7 \in Octets /\ b8 \in Octets
  BY <1>1, TextField DEF HoldFields
<1>10. ConnectBody(p) = b1 \o b2 \o b3 \o b4 \o b5 \o b6 \o b7 \o b8
  BY DEF ConnectBody
<1> HIDE DEF b1, b2, b3, b4, b5, b6, b7, b8
<1>11. b1 \o b2 \o b3 \in Octets
  BY <1>3, <1>4, <1>5, JoinMany
<1>12. b1 \o b2 \o b3 \o b4 \o b5 \in Octets
  BY <1>6, <1>7, <1>11, JoinMany
<1>13. b1 \o b2 \o b3 \o b4 \o b5 \o b6 \o b7 \in Octets
  BY <1>8, <1>9, <1>12, JoinMany
<1> QED BY <1>9, <1>10, <1>13, JoinOctets

\* CONNACK.
LEMMA ConnAckOctets ==
  ASSUME NEW p, IsPacket(p), p.type = Type.ConnAck
  PROVE  ConnAckBody(p) \in Octets
<1> DEFINE a == Bit(Optional(p, "session_present", FALSE), 1)
           b == Optional(p, "connect_reason_code", 0)
<1>1. HoldFields(p)
  BY DEF IsPacket, HasFields
<1>2. a \in 0..255
  BY DEF Bit
<1>3. b \in 0..255
  BY <1>1, OptionalFacts DEF HoldFields
<1>4. PacketProperties(p) \in Octets
  BY PacketPropertiesOctets DEF IsPacket
<1>5. ConnAckBody(p) = <<a, b>> \o PacketProperties(p)
  BY DEF ConnAckBody
<1> HIDE DEF a, b
<1>6. <<a, b>> \in Octets
  BY <1>2, <1>3 DEF Octets
<1> QED BY <1>4, <1>5, <1>6, JoinOctets

\* PUBLISH.
LEMMA PublishOctets ==
  ASSUME NEW p, IsPacket(p), p.type = Type.Publish
  PROVE  PublishBody(p) \in Octets
<1> DEFINE b1 == UTF8String(p.topic)
           b2 == IF "packet_identifier" \in DOMAIN p THEN UintBytes(p.packet_identifier, 2) ELSE <<>>
           b3 == PacketProperties(p)
           b4 == PayloadBytes(p)
<1>1. HoldFields(p) /\ "topic" \in DOMAIN p
  BY TypeFacts DEF IsPacket, HasFields, RequiredFields
<1>2. b1 \in Octets
  BY <1>1, TextOctets DEF HoldFields
<1>3. b2 \in Octets
  BY <1>1, UintBytesFacts, NoOctets DEF HoldFields
<1>4. b3 \in Octets
  BY PacketPropertiesOctets DEF IsPacket
<1>5. b4 \in Octets
  BY <1>1, PayloadOctets DEF HoldFields
<1>6. PublishBody(p) = b1 \o b2 \o b3 \o b4
  BY DEF PublishBody
<1> HIDE DEF b1, b2, b3, b4
<1>7. b1 \o b2 \o b3 \in Octets
  BY <1>2, <1>3, <1>4, JoinMany
<1> QED BY <1>5, <1>6, <1>7, JoinOctets

\* A reason code and the properties.
LEMMA ReasonOctets ==
  ASSUME NEW p, HoldFields(p), "properties" \in DOMAIN p => IsProperties(p.type, p.properties)
  PROVE  <<Optional(p, "reason_code", 0)>> \o PacketProperties(p) \in Octets
<1>1. Optional(p, "reason_code", 0) \in 0..255
  BY OptionalFacts DEF HoldFields
<1>2. <<Optional(p, "reason_code", 0)>> \in Octets
  BY <1>1, OneOctet
<1>3. PacketProperties(p) \in Octets
  BY PacketPropertiesOctets
<1> QED BY <1>2, <1>3, JoinOctets

\* The packet identifier.
LEMMA IdentifierOctets ==
  ASSUME NEW p, IsPacket(p), "packet_identifier" \in DOMAIN p
  PROVE  UintBytes(p.packet_identifier, 2) \in Octets
<1>1. p.packet_identifier \in Int
  BY DEF IsPacket, HasFields, HoldFields
<1> QED BY <1>1, UintBytesFacts

\* PUBACK, PUBREC, PUBREL and PUBCOMP.
LEMMA AckOctets ==
  ASSUME NEW p, IsPacket(p), IsAck(p.type)
  PROVE  AckBody(p) \in Octets
<1> DEFINE more == <<Optional(p, "reason_code", 0)>> \o PacketProperties(p)
           b2 == IF Optional(p, "reason_code", 1) = 0 /\ "properties" \notin DOMAIN p THEN <<>> ELSE more
<1>1. "packet_identifier" \in DOMAIN p
  BY TypeFacts DEF IsPacket, HasFields, RequiredFields, IsAck
<1>2. UintBytes(p.packet_identifier, 2) \in Octets
  BY <1>1, IdentifierOctets
<1>3. more \in Octets
  BY ReasonOctets DEF IsPacket, HasFields
<1> HIDE DEF more
<1>4. b2 \in Octets
  BY <1>3, NoOctets
<1>5. AckBody(p) = UintBytes(p.packet_identifier, 2) \o b2
  BY DEF AckBody, more
<1> QED BY <1>2, <1>4, <1>5, JoinOctets

\* DISCONNECT and AUTH.
LEMMA EndOctets ==
  ASSUME NEW p, IsPacket(p)
  PROVE  EndBody(p) \in Octets
<1> DEFINE more == <<Optional(p, "reason_code", 0)>> \o PacketProperties(p)
<1>1. more \in Octets
  BY ReasonOctets DEF IsPacket, HasFields
<1>2. EndBody(p) \in {<<>>, more}
  BY DEF EndBody
<1> QED BY <1>1, <1>2, NoOctets

\* A subscription and its options.
LEMMA SubscriptionOctets ==
  ASSUME NEW s, IsSubscription(s)
  PROVE  SubscriptionBytes(s) \in Octets
<1> DEFINE qos == Optional(s, "qos", 0)
           a == Bit(Optional(s, "no_local", FALSE), 4)
           b == Bit(Optional(s, "retain_as_published", FALSE), 8)
           h == Optional(s, "retain_handling", 0)
<1>1. HoldFields(s) /\ "topic" \in DOMAIN s
  BY DEF IsSubscription, HasFields
<1>2. qos \in 0..3 /\ h \in 0..15
  BY <1>1, OptionalFacts DEF HoldFields
<1>3. a \in {0, 4} /\ b \in {0, 8}
  BY DEF Bit
<1>4. SubscriptionBytes(s) = UTF8String(s.topic) \o <<qos + a + b + 16 * h>>
  BY DEF SubscriptionBytes
<1> HIDE DEF qos, a, b, h
<1>5. qos + a + b + 16 * h \in 0..255
  BY <1>2, <1>3
<1>6. <<qos + a + b + 16 * h>> \in Octets
  BY <1>5, OneOctet
<1>7. UTF8String(s.topic) \in Octets
  BY <1>1, TextOctets DEF HoldFields
<1> QED BY <1>4, <1>6, <1>7, JoinOctets

\* SUBSCRIBE, SUBACK, UNSUBSCRIBE and UNSUBACK.
LEMMA ListOctets ==
  ASSUME NEW p, IsPacket(p), IsList(p.type)
  PROVE  ListBody(p) \in Octets
<1>1. "packet_identifier" \in DOMAIN p /\ p.type \in 8..11
  BY TypeFacts DEF IsPacket, HasFields, RequiredFields, IsList
<1>2. UintBytes(p.packet_identifier, 2) \in Octets
  BY <1>1, IdentifierOctets
<1>3. PacketProperties(p) \in Octets
  BY PacketPropertiesOctets DEF IsPacket
<1>4. FlattenSeq(Entries(p)) \in Octets
  <2>1. CASE p.type = Type.Subscribe
    <3> DEFINE v == p.subscriptions
               f == [i \in 1..Len(v) |-> SubscriptionBytes(v[i])]
    <3>1. "subscriptions" \in DOMAIN p
      BY <2>1, TypeFacts DEF IsPacket, HasFields, RequiredFields
    <3>2. Len(v) \in Nat /\ \A i \in 1..Len(v) : IsSubscription(v[i])
      BY <3>1 DEF IsPacket, IsArray
    <3>3. \A i \in 1..Len(v) : f[i] \in Octets
      BY <3>2, SubscriptionOctets
    <3>4. [i \in 1..Len(v) |-> f[i]] = f
      OBVIOUS
    <3>5. Entries(p) = f
      BY <2>1, TypeFacts DEF Entries
    <3> HIDE DEF v, f
    <3> QED BY <3>2, <3>3, <3>4, <3>5, FlattenOctets
  <2>2. CASE p.type = Type.Unsubscribe
    <3> DEFINE v == p.topic_filters
               f == [i \in 1..Len(v) |-> UTF8String(v[i])]
    <3>1. "topic_filters" \in DOMAIN p
      BY <2>2, TypeFacts DEF IsPacket, HasFields, RequiredFields
    <3>2. Len(v) \in Nat /\ \A i \in 1..Len(v) : v[i] \in Octets
      BY <3>1 DEF IsPacket, IsArray
    <3>3. \A i \in 1..Len(v) : f[i] \in Octets
      BY <3>2, TextOctets
    <3>4. [i \in 1..Len(v) |-> f[i]] = f
      OBVIOUS
    <3>5. Entries(p) = f
      BY <2>2, TypeFacts DEF Entries
    <3> HIDE DEF v, f
    <3> QED BY <3>2, <3>3, <3>4, <3>5, FlattenOctets
  <2>3. CASE p.type \in {Type.SubAck, Type.UnsubAck}
    <3> DEFINE v == p.reason_codes
               f == [i \in 1..Len(v) |-> <<v[i]>>]
    <3>1. "reason_codes" \in DOMAIN p
      BY <2>3, TypeFacts DEF IsPacket, HasFields, RequiredFields
    <3>2. Len(v) \in Nat /\ \A i \in 1..Len(v) : v[i] \in 0..255
      BY <3>1 DEF IsPacket, IsArray
    <3>3. \A i \in 1..Len(v) : f[i] \in Octets
      BY <3>2, OneOctet
    <3>4. [i \in 1..Len(v) |-> f[i]] = f
      OBVIOUS
    <3>5. Entries(p) = f
      BY <2>3, TypeFacts DEF Entries
    <3> HIDE DEF v, f
    <3> QED BY <3>2, <3>3, <3>4, <3>5, FlattenOctets
  <2> QED BY <1>1, <2>1, <2>2, <2>3, TypeFacts
<1> QED BY <1>2, <1>3, <1>4, JoinMany DEF ListBody

\* What is written of a packet can be sent.
LEMMA WireOfPacket ==
  ASSUME NEW p, IsPacket(p)
  PROVE  Serialize(p) \in WireFormat
<1>1. p.type \in 1..15 /\ HoldFields(p)
  BY TypeFacts DEF IsPacket, HasFields
<1>2. Flags(p) \in 0..15
  <2> DEFINE dup == Bit(Optional(p, "dup", FALSE), 8)
             qos == Optional(p, "qos", 0)
             retain == Bit(Optional(p, "retain", FALSE), 1)
  <2>1. dup \in {0, 8} /\ retain \in {0, 1}
    BY DEF Bit
  <2>2. qos \in 0..3
    BY <1>1, OptionalFacts DEF HoldFields
  <2>3. PublishFlags(p) = dup + 2 * qos + retain
    BY DEF PublishFlags
  <2> HIDE DEF dup, qos, retain
  <2>4. PublishFlags(p) \in 0..15
    BY <2>1, <2>2, <2>3
  <2> QED BY <1>1, <2>4, TypeFacts DEF Flags
<1>3. Serialize(p).body \in Octets
  <2>1. CASE p.type = Type.Connect
    BY <2>1, ConnectOctets, TypeFacts DEF Serialize, IsAck, IsList, IsEnd
  <2>2. CASE p.type = Type.ConnAck
    BY <2>2, ConnAckOctets, TypeFacts DEF Serialize, IsAck, IsList, IsEnd
  <2>3. CASE p.type = Type.Publish
    BY <2>3, PublishOctets, TypeFacts DEF Serialize, IsAck, IsList, IsEnd
  <2>4. CASE IsAck(p.type)
    BY <2>4, AckOctets, TypeFacts DEF Serialize, IsAck, IsList, IsEnd
  <2>5. CASE IsList(p.type)
    BY <2>5, ListOctets, TypeFacts DEF Serialize, IsAck, IsList, IsEnd
  <2>6. CASE IsEnd(p.type)
    BY <2>6, EndOctets, TypeFacts DEF Serialize, IsAck, IsList, IsEnd
  <2>7. CASE p.type \in {12, 13}
    BY <2>7, NoOctets, TypeFacts DEF Serialize, IsAck, IsList, IsEnd
  <2> QED BY <1>1, <2>1, <2>2, <2>3, <2>4, <2>5, <2>6, <2>7, TypeFacts DEF IsAck, IsList, IsEnd
<1>4. /\ Serialize(p).type = p.type /\ Serialize(p).flags = Flags(p)
      /\ Serialize(p) = [type |-> Serialize(p).type, flags |-> Serialize(p).flags,
                         body |-> Serialize(p).body]
  BY DEF Serialize
<1>5. ASSUME NEW t \in 0..15, NEW g \in 0..15, NEW b \in Octets
      PROVE  [type |-> t, flags |-> g, body |-> b] \in WireFormat
  BY DEF WireFormat
<1> DEFINE w == Serialize(p)
<1>6. w.type \in 0..15 /\ w.flags \in 0..15 /\ w.body \in Octets
  BY <1>1, <1>2, <1>3, <1>4
<1>7. w = [type |-> w.type, flags |-> w.flags, body |-> w.body]
  BY <1>4
<1> HIDE DEF w
<1>8. w \in WireFormat
  BY <1>5, <1>6, <1>7, Zenon
<1> QED BY <1>8 DEF w
-----------------------------------------------------------------------------
(* Octets, and the beginning of octets.                                    *)

\* What a sequence has is of its set.
LEMMA ElementOf ==
  ASSUME NEW S, NEW w \in Seq(S), NEW i \in 1..Len(w)
  PROVE  w[i] \in S
OBVIOUS

\* Octets one by one.
LEMMA OctetFacts ==
  ASSUME NEW w \in Octets
  PROVE  Len(w) \in Nat /\ \A i \in 1..Len(w) : w[i] \in 0..255 /\ w[i] \in Nat /\ w[i] < 256
<1>1. Len(w) \in Nat
  BY DEF Octets
<1> DEFINE S == 0..255
<1>2. ASSUME NEW i \in 1..Len(w) PROVE w[i] \in S
  <2>1. w \in Seq(S)
    BY DEF Octets
  <2> HIDE DEF S
  <2> QED BY <2>1, ElementOf
<1>3. \A x \in S : x \in Nat /\ x < 256
  OBVIOUS
<1> HIDE DEF S
<1>4. \A i \in 1..Len(w) : w[i] \in S /\ w[i] \in Nat /\ w[i] < 256
  BY <1>2, <1>3
<1> QED BY <1>1, <1>4 DEF S

\* t is the beginning of s.
Cut(t, s) ==
  /\ t \in Octets /\ s \in Octets
  /\ Len(t) <= Len(s) /\ \A i \in 1..Len(t) : t[i] = s[i]

\* What is behind n bytes.
LEMMA RestFacts ==
  ASSUME NEW s \in Octets, NEW n \in 0..Len(s)
  PROVE  /\ SubSeq(s, n + 1, Len(s)) \in Octets
         /\ Len(SubSeq(s, n + 1, Len(s))) = Len(s) - n
         /\ \A i \in 1..(Len(s) - n) : SubSeq(s, n + 1, Len(s))[i] = s[n + i]
<1>1. Len(s) \in n..Len(s) /\ n \in Nat
  OBVIOUS
<1> QED BY <1>1, PartFacts DEF Octets

\* A part of octets, from the byte behind i to byte j.
LEMMA PartOctets ==
  ASSUME NEW s \in Octets, NEW i \in Nat, NEW j \in i..Len(s)
  PROVE  /\ SubSeq(s, i + 1, j) \in Octets /\ Len(SubSeq(s, i + 1, j)) = j - i
         /\ \A k \in 1..(j - i) : SubSeq(s, i + 1, j)[k] = s[i + k]
<1> DEFINE S == 0..255
<1>1. s \in Seq(S)
  BY DEF Octets
<1> HIDE DEF S
<1>2. /\ SubSeq(s, i + 1, j) \in Seq(S) /\ Len(SubSeq(s, i + 1, j)) = j - i
      /\ \A k \in 1..(j - i) : SubSeq(s, i + 1, j)[k] = s[i + k]
  BY <1>1, PartFacts
<1> QED BY <1>2 DEF Octets, S

\* The first n bytes.
LEMMA FirstFacts ==
  ASSUME NEW s \in Octets, NEW n \in 0..Len(s)
  PROVE  /\ SubSeq(s, 1, n) \in Octets /\ Len(SubSeq(s, 1, n)) = n
         /\ \A i \in 1..n : SubSeq(s, 1, n)[i] = s[i]
<1>1. n \in 0..Len(s) /\ 0 \in Nat /\ n - 0 = n /\ 0 + 1 = 1 /\ \A i \in 1..n : 0 + i = i
  OBVIOUS
<1>2. /\ SubSeq(s, 0 + 1, n) \in Octets /\ Len(SubSeq(s, 0 + 1, n)) = n - 0
      /\ \A i \in 1..(n - 0) : SubSeq(s, 0 + 1, n)[i] = s[0 + i]
  BY <1>1, PartOctets
<1> QED BY <1>1, <1>2

\* Two sequences that agree everywhere are the same.
LEMMA SameSeq ==
  ASSUME NEW s \in Octets, NEW t \in Octets, Len(s) = Len(t), \A i \in 1..Len(s) : s[i] = t[i]
  PROVE  s = t
BY SeqEqual DEF Octets

\* Of a sequence and its beginning the first n bytes are the same.
LEMMA CutFacts ==
  ASSUME NEW t, NEW s, Cut(t, s), NEW n \in 0..Len(t)
  PROVE  /\ n \in 0..Len(s) /\ SubSeq(t, 1, n) = SubSeq(s, 1, n)
         /\ Cut(SubSeq(t, n + 1, Len(t)), SubSeq(s, n + 1, Len(s)))
<1>1. t \in Octets /\ s \in Octets /\ n \in 0..Len(s) /\ Len(t) <= Len(s)
      /\ Len(t) \in Nat /\ Len(s) \in Nat /\ n \in Nat /\ n <= Len(t)
  BY DEF Cut, Octets
<1> DEFINE a == SubSeq(t, 1, n)
           b == SubSeq(s, 1, n)
           c == SubSeq(t, n + 1, Len(t))
           d == SubSeq(s, n + 1, Len(s))
<1>2. /\ a \in Octets /\ b \in Octets /\ Len(a) = n /\ Len(b) = n
      /\ (\A i \in 1..n : a[i] = t[i]) /\ (\A i \in 1..n : b[i] = s[i])
  BY <1>1, FirstFacts
<1>3. /\ c \in Octets /\ d \in Octets /\ Len(c) = Len(t) - n /\ Len(d) = Len(s) - n
      /\ (\A i \in 1..(Len(t) - n) : c[i] = t[n + i])
      /\ (\A i \in 1..(Len(s) - n) : d[i] = s[n + i])
  BY <1>1, RestFacts
<1>4. \A i \in 1..Len(t) : t[i] = s[i]
  BY DEF Cut
<1> HIDE DEF a, b, c, d
<1>5. a = b
  BY <1>1, <1>2, <1>4, SameSeq
<1>6. Cut(c, d)
  BY <1>1, <1>3, <1>4 DEF Cut
<1> QED BY <1>1, <1>5, <1>6 DEF a, b, c, d

\* The bytes that are there.
LEMMA BytesRead ==
  ASSUME NEW s \in Octets, NEW n \in Nat
  PROVE  \/ n > Len(s) /\ ReadBytes(s, n) = Refused
         \/ /\ n \in 0..Len(s)
            /\ ReadBytes(s, n) = Got(SubSeq(s, 1, n), SubSeq(s, n + 1, Len(s)))
            /\ SubSeq(s, 1, n) \in Octets /\ Len(SubSeq(s, 1, n)) = n
            /\ SubSeq(s, n + 1, Len(s)) \in Octets
            /\ Len(SubSeq(s, n + 1, Len(s))) = Len(s) - n
<1>1. Len(s) \in Nat
  BY DEF Octets
<1>2. CASE Len(s) < n
  BY <1>1, <1>2 DEF ReadBytes
<1>3. CASE ~(Len(s) < n)
  <2>1. n \in 0..Len(s)
    BY <1>1, <1>3
  <2>2. ReadBytes(s, n) = Got(SubSeq(s, 1, n), SubSeq(s, n + 1, Len(s)))
    BY <1>3 DEF ReadBytes
  <2> QED BY <2>1, <2>2, RestFacts, FirstFacts
<1> QED BY <1>2, <1>3

\* What an outcome is.
LEMMA OutcomeFacts ==
  /\ ~Refused.ok
  /\ \A v, rest : Got(v, rest).ok /\ Got(v, rest).v = v /\ Got(v, rest).rest = rest
BY DEF Refused, Got

\* What was read is of a kind.
Good(o, kind) == o.ok => o.rest \in Octets /\ Holds(kind, o.v)

\* What is read of the beginning is what is read of the whole.
Follow(o, q) == o.ok /\ q.ok => o.v = q.v /\ Cut(o.rest, q.rest)
-----------------------------------------------------------------------------
(* Reading a value.                                                        *)

\* The numbers that octets may be.
LEMMA UintRange ==
  ASSUME NEW w \in Octets
  PROVE  /\ ToUint(w) \in Nat
         /\ Len(w) = 1 => ToUint(w) = w[1]
         /\ Len(w) = 2 => ToUint(w) = 256 * w[1] + w[2]
<1>1. Len(w) \in Nat /\ \A i \in 1..Len(w) : w[i] \in 0..255 /\ w[i] \in Nat /\ w[i] < 256
  BY OctetFacts
<1>2. PICK f : /\ ToUint(w) = f[Len(w)]
               /\ f[0] = 0
               /\ \A i \in 1..Len(w) : f[i] = f[i - 1] * ByteValues + w[i]
  BY <1>1, ToUintSteps
<1>3. \A i \in 1..Len(w) : f[i] = f[i - 1] * 256 + w[i]
  BY <1>2, WidthFacts
<1> DEFINE S == {i \in Nat : i <= Len(w) => f[i] \in Nat}
<1>4. 0 \in S
  BY <1>2
<1>5. ASSUME NEW i \in Nat, i \in S PROVE i + 1 \in S
  <2> SUFFICES ASSUME i + 1 <= Len(w) PROVE f[i + 1] \in Nat
    OBVIOUS
  <2>1. i + 1 \in 1..Len(w) /\ (i + 1) - 1 = i
    BY <1>1
  <2>2. f[i + 1] = f[i] * 256 + w[i + 1] /\ w[i + 1] \in Nat
    BY <1>1, <1>3, <2>1
  <2>3. f[i] \in Nat
    BY <1>1, <1>5
  <2> DEFINE a == f[i]
             b == w[i + 1]
  <2>4. a \in Nat /\ b \in Nat /\ f[i + 1] = a * 256 + b
    BY <2>2, <2>3
  <2> HIDE DEF a, b
  <2> QED BY <2>4
<1>6. \A i \in Nat : i \in S
  <2> HIDE DEF S
  <2> QED BY <1>4, <1>5, NatSteps
<1>7. ToUint(w) \in Nat
  BY <1>1, <1>2, <1>6
<1>8. ASSUME Len(w) >= 1 PROVE f[1] = w[1]
  <2>1. f[1] = f[1 - 1] * 256 + w[1] /\ w[1] \in 0..255 /\ f[1 - 1] = 0
    BY <1>1, <1>2, <1>3, <1>8
  <2> QED BY <2>1
<1>9. ASSUME Len(w) = 2 PROVE f[2] = 256 * w[1] + w[2]
  <2>1. f[2] = f[2 - 1] * 256 + w[2] /\ w[2] \in 0..255 /\ f[2 - 1] = w[1] /\ w[1] \in 0..255
    BY <1>1, <1>3, <1>8, <1>9
  <2> QED BY <2>1
<1> QED BY <1>1, <1>2, <1>7, <1>8, <1>9

\* Each kind of value by what it is read from.
LEMMA UintUnfolds ==
  ASSUME NEW s, NEW n
  PROVE  LET o == ReadBytes(s, n)
         IN  ReadUint(s, n) = IF o.ok THEN Got(ToUint(o.v), o.rest) ELSE Refused
BY DEF ReadUint, Mapped, Then

\* The readers that are made of others, one case after the other: data,
LEMMA BinaryUnfolds ==
  ASSUME NEW s
  PROVE  LET o == ReadUint(s, 2)
         IN  ReadBinaryData(s) = IF o.ok THEN ReadBytes(o.rest, o.v) ELSE Refused
BY DEF ReadBinaryData, Then

\* text,
LEMMA TextUnfolds ==
  ASSUME NEW s
  PROVE  LET o == ReadBinaryData(s)
         IN  ReadUTF8String(s) = IF o.ok THEN Got(DecodedText(o.v), o.rest) ELSE Refused
BY DEF ReadUTF8String, Mapped, Then

\* a pair of texts,
LEMMA PairUnfolds ==
  ASSUME NEW s
  PROVE  LET o == ReadUTF8String(s)
             q == ReadUTF8String(o.rest)
         IN  ReadValue("pair", s) = IF o.ok /\ q.ok THEN Got(<<o.v, q.v>>, q.rest) ELSE Refused
BY OutcomeFacts DEF ReadValue, Mapped, Then

\* a byte that stands for a truth value,
LEMMA NumberUnfolds ==
  ASSUME NEW s
  PROVE  LET o == ReadUint(s, 1)
         IN  /\ ReadValue("isOne", s) = IF o.ok THEN Got(o.v = 1, o.rest) ELSE Refused
             /\ ReadValue("notZero", s) = IF o.ok THEN Got(o.v # 0, o.rest) ELSE Refused
BY DEF ReadValue, Mapped, Then

\* topics and filters,
LEMMA TopicUnfolds ==
  ASSUME NEW s
  PROVE  LET o == ReadUTF8String(s)
         IN  /\ ReadValue("topic", s) = IF o.ok /\ AsTopic(o.v) THEN Got(o.v, o.rest) ELSE Refused
             /\ ReadValue("filter", s)
                  = IF o.ok /\ AsTopicFilter(o.v) THEN Got(o.v, o.rest) ELSE Refused
BY DEF ReadValue, Checked, Then

\* and the readers that ReadValue takes as they are.
LEMMA OtherUnfolds ==
  ASSUME NEW s
  PROVE  /\ ReadValue("byte", s) = ReadUint(s, 1)
         /\ ReadValue("two", s) = ReadUint(s, 2)
         /\ ReadValue("four", s) = ReadUint(s, 4)
         /\ ReadValue("binary", s) = ReadBinaryData(s)
         /\ ReadValue("text", s) = ReadUTF8String(s)
         /\ ReadValue("varint", s) = ReadVariableByteInteger(s)
BY DEF ReadValue

\* Integers, data and texts are of their kinds.
LEMMA UintRead ==
  ASSUME NEW s \in Octets, NEW n \in Nat, ReadUint(s, n).ok
  PROVE  /\ ReadBytes(s, n).ok
         /\ ReadUint(s, n).v = ToUint(ReadBytes(s, n).v)
         /\ ReadUint(s, n).rest = ReadBytes(s, n).rest
         /\ ReadBytes(s, n).v \in Octets /\ Len(ReadBytes(s, n).v) = n
         /\ ReadUint(s, n).v \in Nat
         /\ ReadUint(s, n).rest \in Octets
         /\ n = 1 => ReadUint(s, n).v \in 0..255
         /\ n = 2 => ReadUint(s, n).v < 65536
<1> DEFINE o == ReadBytes(s, n)
           q == ReadUint(s, n)
<1>1. o.ok /\ q = Got(ToUint(o.v), o.rest)
  BY UintUnfolds, OutcomeFacts
<1>2. n \in 0..Len(s) /\ o = Got(SubSeq(s, 1, n), SubSeq(s, n + 1, Len(s)))
      /\ SubSeq(s, 1, n) \in Octets /\ Len(SubSeq(s, 1, n)) = n
      /\ SubSeq(s, n + 1, Len(s)) \in Octets
  BY <1>1, BytesRead, OutcomeFacts
<1>4. q.v = ToUint(o.v) /\ q.rest = o.rest
  BY <1>1, OutcomeFacts
<1> HIDE DEF o, q
<1> DEFINE a == SubSeq(s, 1, n)
           b == SubSeq(s, n + 1, Len(s))
<1>8. o = Got(a, b) /\ a \in Octets /\ Len(a) = n /\ b \in Octets
  BY <1>2
<1> HIDE DEF a, b
<1>3. o.v \in Octets /\ Len(o.v) = n /\ o.rest \in Octets
  BY <1>8, OutcomeFacts
<1>5. ToUint(o.v) \in Nat
  BY <1>3, UintRange
<1>6. n = 1 => ToUint(o.v) \in 0..255
  <2> DEFINE d == o.v
  <2>1. d \in Octets /\ Len(d) = n
    BY <1>3
  <2> HIDE DEF d
  <2>2. Len(d) = 1 => 1 \in 1..Len(d)
    OBVIOUS
  <2>3. \A i \in 1..Len(d) : d[i] \in 0..255
    BY <2>1, OctetFacts
  <2>4. Len(d) = 1 => d[1] \in 0..255
    BY <2>2, <2>3
  <2> QED BY <2>1, <2>4, UintRange DEF d
<1>7. n = 2 => ToUint(o.v) < 65536
  <2> SUFFICES ASSUME n = 2 PROVE ToUint(o.v) < 65536
    OBVIOUS
  <2> DEFINE a1 == o.v[1]
             b1 == o.v[2]
  <2>1. a1 \in Nat /\ a1 < 256 /\ b1 \in Nat /\ b1 < 256
    BY <1>3, OctetFacts
  <2>2. ToUint(o.v) = 256 * a1 + b1
    BY <1>3, UintRange
  <2> HIDE DEF a1, b1
  <2> QED BY <2>1, <2>2
<1> QED BY <1>1, <1>3, <1>4, <1>5, <1>6, <1>7 DEF o, q

\* What is read as data are bytes, and so is what is left.
LEMMA BinaryRead ==
  ASSUME NEW s \in Octets, ReadBinaryData(s).ok
  PROVE  /\ ReadUint(s, 2).ok
         /\ ReadBinaryData(s) = ReadBytes(ReadUint(s, 2).rest, ReadUint(s, 2).v)
         /\ ReadUint(s, 2).rest \in Octets /\ ReadUint(s, 2).v \in Nat
         /\ ReadBinaryData(s).v \in Octets /\ ReadBinaryData(s).rest \in Octets
<1> DEFINE o == ReadUint(s, 2)
           q == ReadBinaryData(s)
<1>1. o.ok /\ q = ReadBytes(o.rest, o.v)
  BY BinaryUnfolds, OutcomeFacts
<1>2. o.v \in Nat /\ o.rest \in Octets
  BY <1>1, UintRead
<1> HIDE DEF o
<1>3. \E a, b \in Octets : q = Got(a, b)
  <2>1. q # Refused
    BY OutcomeFacts
  <2> HIDE DEF q
  <2> QED BY <1>1, <1>2, <2>1, BytesRead
<1> QED BY <1>1, <1>2, <1>3, OutcomeFacts DEF o

\* A character takes no more bytes than there are.
LEMMA TakenFacts ==
  ASSUME NEW s \in Octets, NEW i \in 1..Len(s)
  PROVE  /\ Taken(s, i) \in 1..4 /\ i + Taken(s, i) - 1 <= Len(s)
         /\ \A k \in 1..(Taken(s, i) - 1) : s[i + k] \in 128..191
<1>1. \A k : Continues(s, i, k) => i + k <= Len(s) /\ s[i + k] \in 128..191
  BY DEF Continues
<1>2. Len(s) \in Nat
  BY OctetFacts
<1>3. /\ Taken(s, i) \in 1..4
      /\ Taken(s, i) > 1 => Continues(s, i, 1)
      /\ Taken(s, i) > 2 => Continues(s, i, 2)
      /\ Taken(s, i) > 3 => Continues(s, i, 3)
  BY DEF Taken
<1> DEFINE n == Taken(s, i)
<1> HIDE DEF n
<1>4. \A k \in 1..(n - 1) : Continues(s, i, k)
  <2>1. \A k \in 1..(n - 1) : k = 1 \/ k = 2 \/ k = 3
    BY <1>3 DEF n
  <2>2. \A k \in 1..(n - 1) : n > k
    BY <1>3 DEF n
  <2> QED BY <1>3, <2>1, <2>2 DEF n
<1>5. n = 1 \/ n - 1 \in 1..(n - 1)
  BY <1>3 DEF n
<1>6. n = 1 \/ i + (n - 1) <= Len(s)
  BY <1>1, <1>4, <1>5
<1>7. n \in 1..4 /\ i + n - 1 <= Len(s)
  BY <1>2, <1>3, <1>6 DEF n
<1>8. \A k \in 1..(n - 1) : s[i + k] \in 128..191
  BY <1>1, <1>4
<1> QED BY <1>7, <1>8 DEF n

\* What a byte is decoded to: nothing, a character, or the replacement.
LEMMA DecodedAtOctets ==
  ASSUME NEW s \in Octets, NEW i \in 1..Len(s)
  PROVE  DecodedAt(s, i) \in Octets
<1>1. SubSeq(s, i, i + Taken(s, i) - 1) \in Octets
  <2>1. /\ i - 1 \in Nat /\ (i - 1) + 1 = i
        /\ i + Taken(s, i) - 1 \in (i - 1)..Len(s)
    BY TakenFacts, OctetFacts
  <2>2. SubSeq(s, (i - 1) + 1, i + Taken(s, i) - 1) \in Octets
    BY <2>1, PartOctets
  <2> QED BY <2>1, <2>2
<1>2. Replacement \in Octets
  BY DEF Replacement, Octets
<1> QED BY <1>1, <1>2, NoOctets DEF DecodedAt

\* Decoding adds piece to piece.
LEMMA DecodedSteps ==
  ASSUME NEW w \in Octets
  PROVE  \E f : /\ DecodedText(w) = f[Len(w)]
                /\ f[0] = <<>>
                /\ \A i \in 1..Len(w) : f[i] = f[i - 1] \o DecodedAt(w, i)
                /\ \A i \in 0..Len(w) : f[i] \in Octets
<1>1. Len(w) \in Nat
  BY OctetFacts
<1> DEFINE n == Len(w)
           d == [i \in 1..n |-> DecodedAt(w, i)]
<1>2. d \in [1..n -> Octets]
  BY DecodedAtOctets
<1>3. \A i \in 1..n : d[i] = DecodedAt(w, i)
  OBVIOUS
<1>4. DecodedText(w) = FlattenSeq(d)
  BY DEF DecodedText
<1> HIDE DEF d, n
<1>5. d \in Seq(Octets) /\ Len(d) = n
  BY <1>1, <1>2, IsSequence, ZenonT(30) DEF n
<1>6. PICK f : /\ FlattenSeq(d) = f[Len(d)]
               /\ f[0] = <<>>
               /\ \A i \in 1..Len(d) : f[i] = f[i - 1] \o d[i]
               /\ \A i \in 0..Len(d) : f[i] \in Octets
  BY <1>5, FlattenSteps, Zenon DEF Octets
<1>7. /\ DecodedText(w) = f[n] /\ f[0] = <<>>
      /\ \A i \in 1..n : f[i] = f[i - 1] \o DecodedAt(w, i)
      /\ \A i \in 0..n : f[i] \in Octets
  BY <1>3, <1>4, <1>5, <1>6, Zenon
<1> QED BY <1>7 DEF n

\* Decoded bytes are bytes again.
LEMMA DecodedOctets ==
  ASSUME NEW w \in Octets
  PROVE  DecodedText(w) \in Octets
<1>1. Len(w) \in 0..Len(w)
  BY OctetFacts
<1> QED BY <1>1, DecodedSteps, Zenon

\* What is read as text are bytes, and so is what is left.
LEMMA TextRead ==
  ASSUME NEW s \in Octets, ReadUTF8String(s).ok
  PROVE  /\ ReadBinaryData(s).ok
         /\ ReadUTF8String(s).v = DecodedText(ReadBinaryData(s).v)
         /\ ReadUTF8String(s).rest = ReadBinaryData(s).rest
         /\ ReadUTF8String(s).v \in Octets /\ ReadUTF8String(s).rest \in Octets
<1> DEFINE o == ReadBinaryData(s)
           q == ReadUTF8String(s)
<1>1. o.ok /\ q = Got(DecodedText(o.v), o.rest)
  BY TextUnfolds, OutcomeFacts
<1>2. o.v \in Octets /\ o.rest \in Octets
  BY <1>1, BinaryRead
<1>3. DecodedText(o.v) \in Octets
  BY <1>2, DecodedOctets
<1> QED BY <1>1, <1>2, <1>3, OutcomeFacts

\* The kinds of values that are no properties.
Kinds == {"byte", "two", "four", "isOne", "notZero", "binary", "text", "topic", "filter",
          "varint", "pair"}

\* What the kinds hold, one by one.
LEMMA HoldsFacts ==
  ASSUME NEW v
  PROVE  /\ v \in 0..255 => Holds("byte", v)
         /\ v \in Nat /\ v < 65536 => Holds("two", v)
         /\ v \in Nat => Holds("four", v) /\ Holds("varint", v)
         /\ v \in BOOLEAN => Holds("isOne", v) /\ Holds("notZero", v)
         /\ v \in Octets => /\ Holds("text", v) /\ Holds("topic", v)
                            /\ Holds("filter", v) /\ Holds("binary", v)
         /\ v = <<v[1], v[2]>> /\ v[1] \in Octets /\ v[2] \in Octets => Holds("pair", v)
BY DEF Holds

\* There is one length at most.
LEMMA OneIntegerLength ==
  ASSUME NEW s, NEW k, IntegerAt(s, 0, k)
  PROVE  IntegerLength(s, 0) = k /\ k \in 1..4
<1>1. LengthBytes = 4
  BY PacketsWidths
<1>2. \A j : IntegerAt(s, 0, j) => j = k
  BY <1>1 DEF IntegerAt
<1>3. k \in 1..LengthBytes
  BY DEF IntegerAt
<1>4. IntegerLength(s, 0) \in 1..LengthBytes /\ IntegerAt(s, 0, IntegerLength(s, 0))
  <2> DEFINE P(j) == IntegerAt(s, 0, j)
  <2>1. \E j \in 1..LengthBytes : P(j)
    BY <1>3
  <2> HIDE DEF P
  <2>2. (CHOOSE j \in 1..LengthBytes : P(j)) \in 1..LengthBytes
        /\ P(CHOOSE j \in 1..LengthBytes : P(j))
    BY <2>1, Zenon
  <2> QED BY <2>2 DEF P, IntegerLength
<1> QED BY <1>1, <1>2, <1>3, <1>4

\* The integer, when there is one.
LEMMA VarintUnfolds ==
  ASSUME NEW s, ReadVariableByteInteger(s).ok
  PROVE  \E k \in 1..4 :
           /\ IntegerAt(s, 0, k)
           /\ ReadVariableByteInteger(s) = Got(IntegerValue(s, 0, k), SubSeq(s, k + 1, Len(s)))
<1>1. \E k \in 1..LengthBytes : IntegerAt(s, 0, k)
  BY OutcomeFacts DEF ReadVariableByteInteger
<1>2. PICK k \in 1..LengthBytes : IntegerAt(s, 0, k)
  BY <1>1
<1>3. IntegerLength(s, 0) = k /\ k \in 1..4
  BY <1>2, OneIntegerLength
<1>4. ReadVariableByteInteger(s)
        = Got(IntegerValue(s, 0, IntegerLength(s, 0)), SubSeq(s, IntegerLength(s, 0) + 1, Len(s)))
  BY <1>1 DEF ReadVariableByteInteger
<1> QED BY <1>2, <1>3, <1>4

\* A variable byte integer is a natural number.
LEMMA IntegerValueRange ==
  ASSUME NEW s \in Octets, NEW k \in 1..4, IntegerAt(s, 0, k)
  PROVE  IntegerValue(s, 0, k) \in Nat
<1> DEFINE d(i) == IF i <= k THEN Digit(s[0 + i]) ELSE 0
<1>1. k <= Len(s) /\ Base = 128
  BY PacketsWidths, OctetFacts DEF IntegerAt
<1>2. ASSUME NEW i \in 1..4 PROVE d(i) \in Nat
  <2>1. CASE i <= k
    <3>1. 0 + i = i /\ i \in 1..Len(s)
      BY <1>1, <2>1, OctetFacts
    <3>2. s[i] \in Nat
      BY <3>1, OctetFacts
    <3>3. d(i) = s[i] % 128
      BY <1>1, <2>1, <3>1 DEF Digit
    <3>4. \A n \in Nat : n % 128 \in Nat
      OBVIOUS
    <3> HIDE DEF d
    <3> QED BY <3>2, <3>3, <3>4
  <2>2. CASE ~(i <= k)
    BY <2>2
  <2> QED BY <2>1, <2>2
<1>3. IntegerValue(s, 0, k) = d(1) + Base * (d(2) + Base * (d(3) + Base * d(4)))
  BY DEF IntegerValue
<1> HIDE DEF d
<1>4. d(1) \in Nat /\ d(2) \in Nat /\ d(3) \in Nat /\ d(4) \in Nat
  BY <1>2
<1> QED BY <1>1, <1>3, <1>4

\* So is what the reader of one returns, with bytes left.
LEMMA VarintRead ==
  ASSUME NEW s \in Octets, ReadVariableByteInteger(s).ok
  PROVE  ReadVariableByteInteger(s).v \in Nat /\ ReadVariableByteInteger(s).rest \in Octets
<1> DEFINE q == ReadVariableByteInteger(s)
<1>1. PICK k \in 1..4 : /\ IntegerAt(s, 0, k)
                        /\ q = Got(IntegerValue(s, 0, k), SubSeq(s, k + 1, Len(s)))
  BY VarintUnfolds
<1>2. k \in 0..Len(s)
  BY <1>1, OctetFacts DEF IntegerAt
<1>3. IntegerValue(s, 0, k) \in Nat /\ SubSeq(s, k + 1, Len(s)) \in Octets
  BY <1>1, <1>2, IntegerValueRange, RestFacts
<1> HIDE DEF q
<1>4. q.v \in Nat /\ q.rest \in Octets
  BY <1>1, <1>3, OutcomeFacts
<1> QED BY <1>4 DEF q

\* What is read is of its kind.
LEMMA ValueRead ==
  ASSUME NEW s \in Octets, NEW kind \in Kinds, ReadValue(kind, s).ok
  PROVE  ReadValue(kind, s).rest \in Octets /\ Holds(kind, ReadValue(kind, s).v)
<1>1. CASE kind \in {"byte", "two", "four"}
  <2>1. PICK n \in {1, 2, 4} : ReadValue(kind, s) = ReadUint(s, n)
                               /\ (kind = "byte" => n = 1) /\ (kind = "two" => n = 2)
    BY <1>1, OtherUnfolds
  <2>2. ReadUint(s, n).v \in Nat /\ ReadUint(s, n).rest \in Octets
    BY <2>1, UintRead
  <2>3. CASE kind = "byte"
    <3>1. ReadUint(s, 1).v \in 0..255
      BY <2>1, <2>3, UintRead
    <3> QED BY <2>1, <2>2, <2>3, <3>1, HoldsFacts
  <2>4. CASE kind = "two"
    <3>1. ReadUint(s, 2).v < 65536
      BY <2>1, <2>4, UintRead
    <3> QED BY <2>1, <2>2, <2>4, <3>1, HoldsFacts
  <2>5. CASE kind = "four"
    BY <2>1, <2>2, <2>5, HoldsFacts
  <2> QED BY <1>1, <2>3, <2>4, <2>5
<1>2. CASE kind \in {"isOne", "notZero"}
  <2>1. ReadUint(s, 1).ok
    BY <1>2, NumberUnfolds, OutcomeFacts
  <2>2. ReadUint(s, 1).rest \in Octets
    BY <2>1, UintRead
  <2>3. \E b \in BOOLEAN : ReadValue(kind, s) = Got(b, ReadUint(s, 1).rest)
    BY <1>2, <2>1, NumberUnfolds
  <2> QED BY <1>2, <2>2, <2>3, OutcomeFacts, HoldsFacts
<1>3. CASE kind = "binary"
  BY <1>3, OtherUnfolds, BinaryRead, HoldsFacts
<1>4. CASE kind = "text"
  BY <1>4, OtherUnfolds, TextRead, HoldsFacts
<1>5. CASE kind \in {"topic", "filter"}
  <2>1. ReadUTF8String(s).ok /\ ReadValue(kind, s) = Got(ReadUTF8String(s).v, ReadUTF8String(s).rest)
    BY <1>5, TopicUnfolds, OutcomeFacts
  <2>2. ReadUTF8String(s).v \in Octets /\ ReadUTF8String(s).rest \in Octets
    BY <2>1, TextRead
  <2> QED BY <1>5, <2>1, <2>2, OutcomeFacts, HoldsFacts
<1>6. CASE kind = "varint"
  BY <1>6, OtherUnfolds, VarintRead, HoldsFacts
<1>7. CASE kind = "pair"
  <2> DEFINE o == ReadUTF8String(s)
             q == ReadUTF8String(o.rest)
  <2>1. o.ok /\ q.ok /\ ReadValue(kind, s) = Got(<<o.v, q.v>>, q.rest)
    BY <1>7, PairUnfolds, OutcomeFacts
  <2>2. o.v \in Octets /\ o.rest \in Octets
    BY <2>1, TextRead
  <2>3. q.v \in Octets /\ q.rest \in Octets
    BY <2>1, <2>2, TextRead
  <2> HIDE DEF o, q
  <2>4. Holds("pair", <<o.v, q.v>>)
    BY <2>2, <2>3, HoldsFacts
  <2> QED BY <1>7, <2>1, <2>3, <2>4, OutcomeFacts
<1> QED BY <1>1, <1>2, <1>3, <1>4, <1>5, <1>6, <1>7 DEF Kinds
-----------------------------------------------------------------------------
(* Reading the beginning, and the whole.                                   *)

\* Bytes, integers, data and texts.
LEMMA BytesFollow ==
  ASSUME NEW t, NEW s, Cut(t, s), NEW n \in Nat, ReadBytes(t, n).ok
  PROVE  /\ ReadBytes(s, n).ok /\ ReadBytes(t, n).v = ReadBytes(s, n).v
         /\ Cut(ReadBytes(t, n).rest, ReadBytes(s, n).rest)
<1>1. t \in Octets /\ s \in Octets
  BY DEF Cut
<1> DEFINE a == SubSeq(t, 1, n)
           b == SubSeq(s, 1, n)
           c == SubSeq(t, n + 1, Len(t))
           d == SubSeq(s, n + 1, Len(s))
<1>2. n \in 0..Len(t) /\ ReadBytes(t, n) = Got(a, c)
  BY <1>1, BytesRead, OutcomeFacts
<1>3. n \in 0..Len(s) /\ a = b /\ Cut(c, d)
  BY <1>2, CutFacts
<1>4. ReadBytes(s, n) = Got(b, d)
  <2>1. ~(n > Len(s))
    BY <1>1, <1>3, OctetFacts
  <2> QED BY <1>1, <2>1, BytesRead
<1> HIDE DEF a, b, c, d
<1> QED BY <1>2, <1>3, <1>4, OutcomeFacts

\* What a reader returns for the shorter data it returns for the longer: integers,
LEMMA UintFollows ==
  ASSUME NEW t, NEW s, Cut(t, s), NEW n \in Nat, ReadUint(t, n).ok
  PROVE  /\ ReadUint(s, n).ok /\ ReadUint(t, n).v = ReadUint(s, n).v
         /\ Cut(ReadUint(t, n).rest, ReadUint(s, n).rest)
<1>1. ReadBytes(t, n).ok
  BY UintUnfolds, OutcomeFacts
<1> DEFINE o == ReadBytes(t, n)
           q == ReadBytes(s, n)
<1>2. o.ok /\ q.ok /\ o.v = q.v /\ Cut(o.rest, q.rest)
  BY <1>1, BytesFollow
<1>3. /\ ReadUint(t, n) = Got(ToUint(o.v), o.rest)
      /\ ReadUint(s, n) = Got(ToUint(q.v), q.rest)
  BY <1>2, UintUnfolds
<1> HIDE DEF o, q
<1> QED BY <1>2, <1>3, OutcomeFacts

\* data,
LEMMA BinaryFollows ==
  ASSUME NEW t, NEW s, Cut(t, s), ReadBinaryData(t).ok
  PROVE  /\ ReadBinaryData(s).ok /\ ReadBinaryData(t).v = ReadBinaryData(s).v
         /\ Cut(ReadBinaryData(t).rest, ReadBinaryData(s).rest)
<1> DEFINE o == ReadUint(t, 2)
           q == ReadUint(s, 2)
<1>1. t \in Octets /\ o.ok
  BY BinaryUnfolds, OutcomeFacts DEF Cut
<1>2. q.ok /\ o.v = q.v /\ Cut(o.rest, q.rest)
  BY <1>1, UintFollows
<1>3. ReadBinaryData(t) = ReadBytes(o.rest, o.v) /\ ReadBinaryData(s) = ReadBytes(q.rest, q.v)
  BY <1>1, <1>2, BinaryUnfolds
<1>4. o.v \in Nat
  BY <1>1, UintRead
<1> HIDE DEF o, q
<1>5. ReadBytes(o.rest, o.v).ok
  BY <1>3
<1> QED BY <1>2, <1>3, <1>4, <1>5, BytesFollow

\* text,
LEMMA TextFollows ==
  ASSUME NEW t, NEW s, Cut(t, s), ReadUTF8String(t).ok
  PROVE  /\ ReadUTF8String(s).ok /\ ReadUTF8String(t).v = ReadUTF8String(s).v
         /\ Cut(ReadUTF8String(t).rest, ReadUTF8String(s).rest)
<1> DEFINE o == ReadBinaryData(t)
           q == ReadBinaryData(s)
<1>1. o.ok
  BY TextUnfolds, OutcomeFacts
<1>2. q.ok /\ o.v = q.v /\ Cut(o.rest, q.rest)
  BY <1>1, BinaryFollows
<1>3. /\ ReadUTF8String(t) = Got(DecodedText(o.v), o.rest)
      /\ ReadUTF8String(s) = Got(DecodedText(q.v), q.rest)
  BY <1>1, <1>2, TextUnfolds
<1> HIDE DEF o, q
<1> QED BY <1>2, <1>3, OutcomeFacts

\* and variable byte integers.
LEMMA VarintFollows ==
  ASSUME NEW t, NEW s, Cut(t, s), ReadVariableByteInteger(t).ok
  PROVE  /\ ReadVariableByteInteger(s).ok
         /\ ReadVariableByteInteger(t).v = ReadVariableByteInteger(s).v
         /\ Cut(ReadVariableByteInteger(t).rest, ReadVariableByteInteger(s).rest)
<1>1. /\ t \in Octets /\ s \in Octets /\ Len(t) <= Len(s) /\ \A i \in 1..Len(t) : t[i] = s[i]
      /\ Len(t) \in Nat /\ Len(s) \in Nat /\ LengthBytes = 4
  BY OctetFacts, PacketsWidths DEF Cut
<1>2. PICK k \in 1..4 :
        /\ IntegerAt(t, 0, k)
        /\ ReadVariableByteInteger(t) = Got(IntegerValue(t, 0, k), SubSeq(t, k + 1, Len(t)))
  BY VarintUnfolds
<1>3. k <= Len(t) /\ \A i \in 1..k : i \in 1..Len(t) /\ 0 + i = i /\ t[0 + i] = s[0 + i]
  BY <1>1, <1>2 DEF IntegerAt
<1>4. IntegerAt(s, 0, k)
  <2>1. 0 + k <= Len(s)
    BY <1>1, <1>3
  <2>2. t[0 + k] = s[0 + k] /\ \A i \in 1..(k - 1) : t[0 + i] = s[0 + i]
    BY <1>3
  <2> QED BY <1>2, <2>1, <2>2 DEF IntegerAt
<1>5. IntegerLength(s, 0) = k
  BY <1>4, OneIntegerLength
<1>6. ReadVariableByteInteger(s) = Got(IntegerValue(s, 0, k), SubSeq(s, k + 1, Len(s)))
  <2>1. ~(\A j \in 1..LengthBytes : ~IntegerAt(s, 0, j))
    BY <1>1, <1>4
  <2> QED BY <1>5, <2>1 DEF ReadVariableByteInteger
<1>7. IntegerValue(t, 0, k) = IntegerValue(s, 0, k)
  <2> DEFINE x(i) == IF i <= k THEN Digit(t[0 + i]) ELSE 0
             y(i) == IF i <= k THEN Digit(s[0 + i]) ELSE 0
  <2>1. x(1) = y(1) /\ x(2) = y(2) /\ x(3) = y(3) /\ x(4) = y(4)
    BY <1>3
  <2>2. /\ IntegerValue(t, 0, k) = x(1) + Base * (x(2) + Base * (x(3) + Base * x(4)))
        /\ IntegerValue(s, 0, k) = y(1) + Base * (y(2) + Base * (y(3) + Base * y(4)))
    BY DEF IntegerValue
  <2> HIDE DEF x, y
  <2> QED BY <2>1, <2>2
<1>8. Cut(SubSeq(t, k + 1, Len(t)), SubSeq(s, k + 1, Len(s)))
  <2>1. k \in 0..Len(t)
    BY <1>1, <1>3
  <2> QED BY <2>1, CutFacts
<1> QED BY <1>2, <1>6, <1>7, <1>8, OutcomeFacts

\* What the beginning gives the whole gives, for every kind.
LEMMA ValueFollows ==
  ASSUME NEW t, NEW s, Cut(t, s), NEW kind \in Kinds, ReadValue(kind, t).ok
  PROVE  /\ ReadValue(kind, s).ok /\ ReadValue(kind, t).v = ReadValue(kind, s).v
         /\ Cut(ReadValue(kind, t).rest, ReadValue(kind, s).rest)
<1>1. CASE kind \in {"byte", "two", "four"}
  <2>1. PICK n \in {1, 2, 4} : /\ ReadValue(kind, t) = ReadUint(t, n)
                               /\ ReadValue(kind, s) = ReadUint(s, n)
    BY <1>1, OtherUnfolds
  <2> QED BY <2>1, UintFollows
<1>2. CASE kind \in {"isOne", "notZero"}
  <2> DEFINE o == ReadUint(t, 1)
             q == ReadUint(s, 1)
  <2>1. o.ok
    BY <1>2, NumberUnfolds, OutcomeFacts
  <2>2. q.ok /\ o.v = q.v /\ Cut(o.rest, q.rest)
    BY <2>1, UintFollows
  <2>3. CASE kind = "isOne"
    <3>1. ReadValue(kind, t) = Got(o.v = 1, o.rest) /\ ReadValue(kind, s) = Got(q.v = 1, q.rest)
      BY <2>1, <2>2, <2>3, NumberUnfolds
    <3> HIDE DEF o, q
    <3> QED BY <2>2, <3>1, OutcomeFacts
  <2>4. CASE kind = "notZero"
    <3>1. ReadValue(kind, t) = Got(o.v # 0, o.rest) /\ ReadValue(kind, s) = Got(q.v # 0, q.rest)
      BY <2>1, <2>2, <2>4, NumberUnfolds
    <3> HIDE DEF o, q
    <3> QED BY <2>2, <3>1, OutcomeFacts
  <2> QED BY <1>2, <2>3, <2>4
<1>3. CASE kind = "binary"
  BY <1>3, OtherUnfolds, BinaryFollows
<1>4. CASE kind = "text"
  BY <1>4, OtherUnfolds, TextFollows
<1>5. CASE kind \in {"topic", "filter"}
  <2> DEFINE o == ReadUTF8String(t)
             q == ReadUTF8String(s)
  <2>1. o.ok /\ ReadValue(kind, t) = Got(o.v, o.rest)
    BY <1>5, TopicUnfolds, OutcomeFacts
  <2>2. q.ok /\ o.v = q.v /\ Cut(o.rest, q.rest)
    BY <2>1, TextFollows
  <2>3. ReadValue(kind, s) = Got(q.v, q.rest)
    <3>1. CASE kind = "topic"
      <4>1. AsTopic(o.v)
        BY <3>1, TopicUnfolds, OutcomeFacts
      <4> QED BY <2>2, <3>1, <4>1, TopicUnfolds
    <3>2. CASE kind = "filter"
      <4>1. AsTopicFilter(o.v)
        BY <3>2, TopicUnfolds, OutcomeFacts
      <4> QED BY <2>2, <3>2, <4>1, TopicUnfolds
    <3> QED BY <1>5, <3>1, <3>2
  <2> HIDE DEF o, q
  <2> QED BY <2>1, <2>2, <2>3, OutcomeFacts
<1>6. CASE kind = "varint"
  BY <1>6, OtherUnfolds, VarintFollows
<1>7. CASE kind = "pair"
  <2> DEFINE o == ReadUTF8String(t)
             q == ReadUTF8String(o.rest)
             x == ReadUTF8String(s)
             y == ReadUTF8String(x.rest)
  <2>1. o.ok /\ q.ok /\ ReadValue(kind, t) = Got(<<o.v, q.v>>, q.rest)
    BY <1>7, PairUnfolds, OutcomeFacts
  <2>2. x.ok /\ o.v = x.v /\ Cut(o.rest, x.rest)
    BY <2>1, TextFollows
  <2>3. y.ok /\ q.v = y.v /\ Cut(q.rest, y.rest)
    BY <2>1, <2>2, TextFollows
  <2>4. ReadValue(kind, s) = Got(<<x.v, y.v>>, y.rest)
    BY <1>7, <2>2, <2>3, PairUnfolds
  <2> HIDE DEF o, q, x, y
  <2> QED BY <2>1, <2>2, <2>3, <2>4, OutcomeFacts
<1> QED BY <1>1, <1>2, <1>3, <1>4, <1>5, <1>6, <1>7 DEF Kinds

\* Nothing is read of nothing.
LEMMA NothingRead ==
  ASSUME NEW kind \in Kinds
  PROVE  ~ReadValue(kind, <<>>).ok
<1> DEFINE e == <<>>
<1>1. e \in Octets /\ Len(e) = 0
  BY NoOctets
<1> HIDE DEF e
<1>2. ASSUME NEW n \in Nat \ {0} PROVE ~ReadUint(e, n).ok
  <2>1. ReadBytes(e, n) = Refused
    <3>1. n \in Nat /\ ~(n \in 0..Len(e))
      BY <1>1
    <3> QED BY <1>1, <3>1, BytesRead
  <2> QED BY <2>1, UintUnfolds, OutcomeFacts
<1>3. ~ReadUint(e, 1).ok /\ ~ReadUint(e, 2).ok /\ ~ReadUint(e, 4).ok
  BY <1>2
<1>4. ~ReadBinaryData(e).ok
  BY <1>3, BinaryUnfolds, OutcomeFacts
<1>5. ~ReadUTF8String(e).ok
  BY <1>4, TextUnfolds, OutcomeFacts
<1>6. ~ReadVariableByteInteger(e).ok
  <2> SUFFICES ASSUME ReadVariableByteInteger(e).ok PROVE FALSE
    OBVIOUS
  <2>1. PICK k \in 1..4 : IntegerAt(e, 0, k)
    BY VarintUnfolds
  <2> QED BY <1>1, <2>1 DEF IntegerAt
<1>7. ~ReadValue(kind, e).ok
  <2>1. CASE kind \in {"byte", "two", "four", "binary", "text", "varint"}
    BY <1>3, <1>4, <1>5, <1>6, <2>1, OtherUnfolds
  <2>2. CASE kind \in {"isOne", "notZero"}
    BY <1>3, <2>2, NumberUnfolds, OutcomeFacts
  <2>3. CASE kind \in {"topic", "filter"}
    BY <1>5, <2>3, TopicUnfolds, OutcomeFacts
  <2>4. CASE kind = "pair"
    BY <1>5, <2>4, PairUnfolds, OutcomeFacts
  <2> QED BY <2>1, <2>2, <2>3, <2>4 DEF Kinds
<1> QED BY <1>7 DEF e
-----------------------------------------------------------------------------
(* Properties.                                                             *)

\* An array with one more value.
LEMMA LongerArray ==
  ASSUME NEW v, IsArray(v), NEW x
  PROVE  /\ IsArray(Append(v, x)) /\ Len(Append(v, x)) = Len(v) + 1
         /\ Append(v, x)[Len(v) + 1] = x
         /\ \A i \in 1..Len(v) : Append(v, x)[i] = v[i]
<1> DEFINE n == Len(v)
           S == {v[i] : i \in 1..n} \cup {x}
           w == Append(v, x)
<1>1. n \in Nat /\ v = [i \in 1..n |-> v[i]]
  BY DEF IsArray
<1>2. v \in [1..n -> S] /\ x \in S
  BY <1>1
<1>3. v \in Seq(S)
  <2> HIDE DEF n, S
  <2> QED BY <1>1, <1>2, IsSequence, ZenonT(30)
<1>4. w \in Seq(S) /\ Len(w) = n + 1 /\ w[n + 1] = x /\ \A i \in 1..n : w[i] = v[i]
  <2> HIDE DEF S
  <2> QED BY <1>2, <1>3
<1>5. IsArray(w)
  <2> HIDE DEF w, S
  <2> QED BY <1>4 DEF IsArray
<1> QED BY <1>4, <1>5

\* No values.
LEMMA EmptyArray == IsArray(<<>>) /\ Len(<<>>) = 0
BY DEF IsArray

\* Of what is read a list has a value at least.
PropertiesRead(props) ==
  /\ IsProperties(Type.Connect, props)
  /\ "subscription_identifier" \in DOMAIN props => Len(props.subscription_identifier) > 0

\* An assignment keeps the properties well typed.
LEMMA AssignedRead ==
  ASSUME NEW props, PropertiesRead(props), NEW n \in DOMAIN Property, NEW v, Holds(Kind(n), v)
  PROVE  PropertiesRead(Assigned(props, n, v))
<1> DEFINE new == Assigned(props, n, v)
<1>1. /\ DOMAIN new = DOMAIN props \cup {n}
      /\ \A m \in DOMAIN props : m # n => new[m] = props[m]
      /\ new[n] = IF Repeated(n) THEN Append(IF n \in DOMAIN props THEN props[n] ELSE <<>>, v)
                  ELSE v
  <2> DEFINE x == IF Repeated(n) THEN Append(Optional(props, n, <<>>), v) ELSE v
  <2>1. new = Single(n, x) ++ props
    BY DEF Assigned
  <2>2. x = IF Repeated(n) THEN Append(IF n \in DOMAIN props THEN props[n] ELSE <<>>, v) ELSE v
    BY DEF Optional
  <2> HIDE DEF x, new
  <2>3. DOMAIN Single(n, x) = {n} /\ Single(n, x)[n] = x
    BY DEF Single
  <2> QED BY <2>1, <2>2, <2>3 DEF ++
<1> HIDE DEF new
<1>2. ASSUME Repeated(n)
      PROVE  HoldsProperty(Type.Connect, n, new[n]) /\ Len(new[n]) > 0
  <2> DEFINE old == IF n \in DOMAIN props THEN props[n] ELSE <<>>
  <2>1. IsArray(old) /\ \A i \in 1..Len(old) : Holds(Kind(n), old[i])
    <3>1. CASE n \in DOMAIN props
      <4>1. HoldsProperty(Type.Connect, n, props[n])
        BY <3>1 DEF PropertiesRead, IsProperties
      <4>2. Type.Connect # Type.Subscribe
        BY DEF Type
      <4> QED BY <1>2, <3>1, <4>1, <4>2 DEF HoldsProperty
    <3>2. CASE n \notin DOMAIN props
      BY <3>2, EmptyArray
    <3> QED BY <3>1, <3>2
  <2>2. new[n] = Append(old, v)
    BY <1>1, <1>2
  <2> HIDE DEF old
  <2>3. /\ IsArray(new[n]) /\ Len(new[n]) = Len(old) + 1 /\ new[n][Len(old) + 1] = v
        /\ \A i \in 1..Len(old) : new[n][i] = old[i]
    BY <2>1, <2>2, LongerArray
  <2>4. Len(old) \in Nat
    BY <2>1 DEF IsArray
  <2>5. ASSUME NEW i \in 1..Len(new[n]) PROVE Holds(Kind(n), new[n][i])
    <3>1. CASE i \in 1..Len(old)
      BY <2>1, <2>3, <3>1
    <3>2. CASE i = Len(old) + 1
      BY <2>3, <3>2
    <3> QED BY <2>3, <2>4, <3>1, <3>2
  <2> QED BY <1>2, <2>3, <2>4, <2>5 DEF HoldsProperty, Type
<1>3. ASSUME ~Repeated(n) PROVE HoldsProperty(Type.Connect, n, new[n])
  BY <1>1, <1>3 DEF HoldsProperty
<1>4. \A m \in DOMAIN props : HoldsProperty(Type.Connect, m, props[m])
  BY DEF PropertiesRead, IsProperties
<1>5. IsProperties(Type.Connect, new)
  <2>1. DOMAIN new \subseteq DOMAIN Property
    BY <1>1 DEF PropertiesRead, IsProperties
  <2>2. ASSUME NEW m \in DOMAIN new PROVE HoldsProperty(Type.Connect, m, new[m])
    <3>1. CASE m = n
      BY <1>2, <1>3, <3>1
    <3>2. CASE m # n
      BY <1>1, <1>4, <3>2
    <3> QED BY <3>1, <3>2
  <2> QED BY <2>1, <2>2 DEF IsProperties
<1>6. ASSUME "subscription_identifier" \in DOMAIN new
      PROVE  Len(new.subscription_identifier) > 0
  <2>1. CASE n = "subscription_identifier"
    <3>1. Repeated(n)
      BY <2>1 DEF Repeated, Kind, Property
    <3> QED BY <1>2, <2>1, <3>1
  <2>2. CASE n # "subscription_identifier"
    BY <1>1, <1>6, <2>2 DEF PropertiesRead
  <2> QED BY <2>1, <2>2
<1> QED BY <1>5, <1>6 DEF PropertiesRead, new

\* A turn of the loop.
LEMMA TurnUnfolds ==
  ASSUME NEW before, before.ok, before.rest \in Octets, PropertyTurn(before).ok
  PROVE  \/ PropertyTurn(before) = before
         \/ PropertyTurn(before) = Got(before.v, Tail(before.rest)) /\ before.rest # <<>>
         \/ \E n \in DOMAIN Property :
              /\ before.rest # <<>>
              /\ ReadValue(Kind(n), Tail(before.rest)).ok
              /\ PropertyTurn(before)
                   = Got(Assigned(before.v, n, ReadValue(Kind(n), Tail(before.rest)).v),
                         ReadValue(Kind(n), Tail(before.rest)).rest)
<1> DEFINE s == before.rest
           props == before.v
           names == {n \in DOMAIN Property : Identifier(n) = s[1]}
           name == CHOOSE n \in names : TRUE
           o == ReadValue(Kind(name), Tail(s))
           one == Mapped(o, LAMBDA v : Assigned(props, name, v))
<1>1. PropertyTurn(before) =
        CASE s = <<>> -> before
          [] s # <<>> /\ names = {} -> Got(props, Tail(s))
          [] OTHER -> one
  BY DEF PropertyTurn, Then
<1>2. one = IF o.ok THEN Got(Assigned(props, name, o.v), o.rest) ELSE Refused
  BY DEF Mapped, Then
<1>3. names # {} => name \in DOMAIN Property
  OBVIOUS
<1> HIDE DEF one, o, names, props
<1>4. CASE s = <<>>
  BY <1>1, <1>4
<1>5. CASE s # <<>> /\ names = {}
  BY <1>1, <1>5 DEF props
<1>6. CASE s # <<>> /\ names # {}
  <2>1. PropertyTurn(before) = one
    BY <1>1, <1>6
  <2>2. o.ok /\ one = Got(Assigned(props, name, o.v), o.rest)
    BY <1>2, <2>1, OutcomeFacts
  <2> HIDE DEF name
  <2> QED BY <1>3, <1>6, <2>1, <2>2 DEF o, props
<1> QED BY <1>4, <1>5, <1>6

\* What is behind the first.
LEMMA TailFacts ==
  ASSUME NEW s \in Octets, s # <<>>
  PROVE  Tail(s) \in Octets /\ Len(Tail(s)) = Len(s) - 1
BY DEF Octets

\* The kinds of the properties are kinds.
LEMMA KindsOfProperties ==
  ASSUME NEW n \in DOMAIN Property
  PROVE  Kind(n) \in Kinds
BY KindFacts DEF Kinds

\* A turn keeps the properties well typed.
LEMMA TurnRead ==
  ASSUME NEW before, before.ok, before.rest \in Octets, PropertiesRead(before.v),
         PropertyTurn(before).ok
  PROVE  PropertyTurn(before).rest \in Octets /\ PropertiesRead(PropertyTurn(before).v)
<1> DEFINE q == PropertyTurn(before)
           s == before.rest
<1> HIDE DEF q, s
<1>1. CASE q = before
  BY <1>1 DEF q
<1>2. CASE q = Got(before.v, Tail(s)) /\ s # <<>>
  BY <1>2, TailFacts, OutcomeFacts DEF q, s
<1>3. CASE \E n \in DOMAIN Property :
             /\ s # <<>> /\ ReadValue(Kind(n), Tail(s)).ok
             /\ q = Got(Assigned(before.v, n, ReadValue(Kind(n), Tail(s)).v),
                        ReadValue(Kind(n), Tail(s)).rest)
  <2> PICK n \in DOMAIN Property :
             /\ s # <<>> /\ ReadValue(Kind(n), Tail(s)).ok
             /\ q = Got(Assigned(before.v, n, ReadValue(Kind(n), Tail(s)).v),
                        ReadValue(Kind(n), Tail(s)).rest)
    BY <1>3
  <2> DEFINE o == ReadValue(Kind(n), Tail(s))
  <2>1. Tail(s) \in Octets /\ Kind(n) \in Kinds
    BY TailFacts, KindsOfProperties DEF s
  <2>2. o.rest \in Octets /\ Holds(Kind(n), o.v)
    BY <2>1, ValueRead
  <2>3. q = Got(Assigned(before.v, n, o.v), o.rest)
    OBVIOUS
  <2> HIDE DEF o
  <2>4. PropertiesRead(Assigned(before.v, n, o.v))
    BY <2>2, AssignedRead
  <2>5. q.rest \in Octets /\ PropertiesRead(q.v)
    BY <2>2, <2>3, <2>4, OutcomeFacts
  <2> QED BY <2>5 DEF q
<1> QED BY <1>1, <1>2, <1>3, TurnUnfolds DEF q, s

\* And so does the loop.
LEMMA LoopRead ==
  ASSUME NEW s \in Octets, PropertyLoop(s).ok
  PROVE  PropertiesRead(PropertyLoop(s).v)
<1>1. Len(s) \in Nat
  BY OctetFacts
<1>2. PICK f : /\ PropertyLoop(s) = f[Len(s)]
               /\ f[0] = Got(<<>>, s)
               /\ \A i \in 1..Len(s) : f[i] = PropertyTurn(f[i - 1])
  BY <1>1, LoopSteps
<1> DEFINE P(o) == o.ok => o.rest \in Octets /\ PropertiesRead(o.v)
           S == {i \in Nat : i <= Len(s) => P(f[i])}
<1>3. PropertiesRead(<<>>)
  <2>1. DOMAIN <<>> = {}
    OBVIOUS
  <2> QED BY <2>1 DEF PropertiesRead, IsProperties
<1>4. 0 \in S
  <2>1. P(f[0])
    BY <1>2, <1>3, OutcomeFacts
  <2> QED BY <2>1
<1>5. ASSUME NEW i \in Nat, i \in S PROVE i + 1 \in S
  <2> SUFFICES ASSUME i + 1 <= Len(s), f[i + 1].ok
               PROVE  f[i + 1].rest \in Octets /\ PropertiesRead(f[i + 1].v)
    OBVIOUS
  <2>1. i + 1 \in 1..Len(s) /\ (i + 1) - 1 = i /\ i <= Len(s)
    BY <1>1
  <2>2. f[i + 1] = PropertyTurn(f[i])
    BY <1>2, <2>1
  <2>3. f[i].ok
    BY <2>2, OutcomeFacts DEF PropertyTurn, Then
  <2>4. f[i].rest \in Octets /\ PropertiesRead(f[i].v)
    BY <1>5, <2>1, <2>3
  <2> QED BY <2>2, <2>3, <2>4, TurnRead
<1>6. \A i \in Nat : i \in S
  <2> HIDE DEF S
  <2> QED BY <1>4, <1>5, NatSteps
<1>7. P(f[Len(s)])
  <2> HIDE DEF P
  <2> QED BY <1>1, <1>6
<1> QED BY <1>2, <1>7

\* The properties, as the part of a packet that has them.
LEMMA PropertiesUnfold ==
  ASSUME NEW s, s # <<>>, ReadProperties(s).ok
  PROVE  LET o == ReadVariableByteInteger(s)
             d == ReadBytes(o.rest, o.v)
             l == PropertyLoop(d.v)
         IN  /\ o.ok
             /\ o.v = 0 => ReadProperties(s) = Got(<<>>, o.rest)
             /\ o.v # 0 => d.ok /\ l.ok /\ ReadProperties(s) = Got([properties |-> l.v], d.rest)
<1> DEFINE o == ReadVariableByteInteger(s)
           d == ReadBytes(o.rest, o.v)
           l == PropertyLoop(d.v)
           q == ReadProperties(s)
<1>1. q = IF ~o.ok THEN Refused
          ELSE IF o.v = 0 THEN Got(<<>>, o.rest)
          ELSE IF ~d.ok THEN Refused
          ELSE IF ~l.ok THEN Refused
          ELSE Got([properties |-> l.v], d.rest)
  BY DEF ReadProperties, Then
<1> HIDE DEF o, d, l
<1>2. q # Refused
  BY OutcomeFacts
<1> HIDE DEF q
<1> QED BY <1>1, <1>2 DEF o, d, l, q

\* A part of a packet: its properties, if it has some.
IsPart(part) == part = <<>> \/ \E props : part = [properties |-> props] /\ PropertiesRead(props)

\* What readProperties returns are properties or nothing.
LEMMA PartRead ==
  ASSUME NEW s \in Octets, ReadProperties(s).ok
  PROVE  ReadProperties(s).rest \in Octets /\ IsPart(ReadProperties(s).v)
<1>1. CASE s = <<>>
  BY <1>1, OutcomeFacts DEF ReadProperties, IsPart
<1>2. CASE s # <<>>
  <2> DEFINE o == ReadVariableByteInteger(s)
             d == ReadBytes(o.rest, o.v)
             l == PropertyLoop(d.v)
             q == ReadProperties(s)
  <2>1. /\ o.ok
        /\ o.v = 0 => q = Got(<<>>, o.rest)
        /\ o.v # 0 => d.ok /\ l.ok /\ q = Got([properties |-> l.v], d.rest)
    BY <1>2, PropertiesUnfold
  <2>2. o.v \in Nat /\ o.rest \in Octets
    BY <2>1, VarintRead
  <2>3. CASE o.v = 0
    <3> HIDE DEF o, q
    <3>1. q.rest \in Octets /\ IsPart(q.v)
      BY <2>1, <2>2, <2>3, OutcomeFacts DEF IsPart
    <3> QED BY <3>1 DEF q
  <2>4. CASE o.v # 0
    <3> HIDE DEF o
    <3>1. \E a, b \in Octets : d = Got(a, b)
      BY <2>1, <2>2, <2>4, BytesRead, OutcomeFacts
    <3>2. d.v \in Octets /\ d.rest \in Octets
      BY <3>1, OutcomeFacts
    <3> HIDE DEF d
    <3>3. PropertiesRead(l.v)
      BY <2>1, <2>4, <3>2, LoopRead
    <3> HIDE DEF l, q
    <3>4. q.rest \in Octets /\ IsPart(q.v)
      BY <2>1, <2>4, <3>2, <3>3, OutcomeFacts DEF IsPart
    <3> QED BY <3>4 DEF q
  <2> QED BY <2>3, <2>4
<1> QED BY <1>1, <1>2

\* The properties of the beginning are those of the whole, unless it has nothing of
\* them and nothing behind them.
LEMMA PartFollows ==
  ASSUME NEW t, NEW s, Cut(t, s), ReadProperties(t).ok, ReadProperties(s).ok
  PROVE  \/ /\ ReadProperties(t).v = ReadProperties(s).v
            /\ Cut(ReadProperties(t).rest, ReadProperties(s).rest)
         \/ ReadProperties(t) = Got(<<>>, <<>>)
<1>1. CASE t = <<>>
  BY <1>1 DEF ReadProperties
<1>2. CASE t # <<>>
  <2>1. s # <<>>
    <3>1. Len(t) # 0
      BY <1>2 DEF Cut, Octets
    <3> QED BY <3>1, OctetFacts DEF Cut
  <2> DEFINE o == ReadVariableByteInteger(t)
             d == ReadBytes(o.rest, o.v)
             x == ReadVariableByteInteger(s)
             y == ReadBytes(x.rest, x.v)
  <2>2. /\ o.ok
        /\ o.v = 0 => ReadProperties(t) = Got(<<>>, o.rest)
        /\ o.v # 0 => d.ok /\ ReadProperties(t) = Got([properties |-> PropertyLoop(d.v).v], d.rest)
    BY <1>2, PropertiesUnfold
  <2>3. /\ x.v = 0 => ReadProperties(s) = Got(<<>>, x.rest)
        /\ x.v # 0 => ReadProperties(s) = Got([properties |-> PropertyLoop(y.v).v], y.rest)
    BY <2>1, PropertiesUnfold
  <2>4. o.v = x.v /\ Cut(o.rest, x.rest) /\ o.v \in Nat
    BY <2>2, VarintFollows, VarintRead DEF Cut
  <2>5. CASE o.v = 0
    <3> HIDE DEF o, x
    <3> QED BY <2>2, <2>3, <2>4, <2>5, OutcomeFacts
  <2>6. CASE o.v # 0
    <3> HIDE DEF o, x
    <3>1. d.v = y.v /\ Cut(d.rest, y.rest)
      BY <2>2, <2>4, <2>6, BytesFollow
    <3> HIDE DEF d, y
    <3> QED BY <2>2, <2>3, <2>4, <2>6, <3>1, OutcomeFacts
  <2> QED BY <2>5, <2>6
<1> QED BY <1>1, <1>2
-----------------------------------------------------------------------------
(* Several values.                                                         *)

\* Of a kind, or the properties.
OfKind(kind, v) == IF kind = "properties" THEN IsPart(v) ELSE Holds(kind, v)
AllKinds == Kinds \cup {"properties"}

\* Read tells the properties from the values.
LEMMA ReadIs ==
  /\ \A s : Read("properties", s) = ReadProperties(s)
  /\ \A s, kind : kind \in Kinds => Read(kind, s) = ReadValue(kind, s) /\ kind # "properties"
BY DEF Read, Kinds

\* One more value is read behind the values so far.
LEMMA NextUnfolds ==
  ASSUME NEW before, NEW kind
  PROVE  NextRead(before, kind)
           = IF before.ok /\ Read(kind, before.rest).ok
             THEN Got(Append(before.v, Read(kind, before.rest).v), Read(kind, before.rest).rest)
             ELSE Refused
BY OutcomeFacts DEF NextRead, Mapped, Then

\* What is read is of the kinds.
LEMMA AllRead ==
  ASSUME NEW s \in Octets, NEW n \in Nat, NEW kinds, Len(kinds) = n,
         \A i \in 1..n : kinds[i] \in AllKinds, ReadAll(kinds, s).ok
  PROVE  /\ ReadAll(kinds, s).rest \in Octets
         /\ IsArray(ReadAll(kinds, s).v) /\ Len(ReadAll(kinds, s).v) = n
         /\ \A i \in 1..n : OfKind(kinds[i], ReadAll(kinds, s).v[i])
<1>1. PICK f : /\ ReadAll(kinds, s) = f[n]
               /\ f[0] = Got(<<>>, s)
               /\ \A i \in 1..n : f[i] = NextRead(f[i - 1], kinds[i])
  BY AllSteps
<1> DEFINE P(o, i) == o.ok => /\ o.rest \in Octets /\ IsArray(o.v) /\ Len(o.v) = i
                              /\ \A j \in 1..i : OfKind(kinds[j], o.v[j])
           S == {i \in Nat : i <= n => P(f[i], i)}
<1>2. 0 \in S
  <2>1. P(f[0], 0)
    BY <1>1, OutcomeFacts, EmptyArray
  <2> HIDE DEF P
  <2> QED BY <2>1
<1>3. ASSUME NEW i \in Nat, i \in S PROVE i + 1 \in S
  <2> DEFINE o == f[i]
             q == Read(kinds[i + 1], o.rest)
             p == f[i + 1]
  <2> SUFFICES ASSUME i + 1 <= n, p.ok PROVE P(p, i + 1)
    OBVIOUS
  <2>1. i + 1 \in 1..n /\ (i + 1) - 1 = i /\ i <= n
    OBVIOUS
  <2>2. o.ok /\ q.ok /\ p = Got(Append(o.v, q.v), q.rest)
    BY <1>1, <2>1, NextUnfolds, OutcomeFacts
  <2>3. /\ o.rest \in Octets /\ IsArray(o.v) /\ Len(o.v) = i
        /\ \A j \in 1..i : OfKind(kinds[j], o.v[j])
    BY <1>3, <2>1, <2>2
  <2>4. kinds[i + 1] \in AllKinds
    BY <2>1
  <2>5. q.rest \in Octets /\ OfKind(kinds[i + 1], q.v)
    <3>1. CASE kinds[i + 1] = "properties"
      BY <2>2, <2>3, <3>1, ReadIs, PartRead DEF OfKind
    <3>2. CASE kinds[i + 1] \in Kinds
      BY <2>2, <2>3, <3>2, ReadIs, ValueRead DEF OfKind
    <3> QED BY <2>4, <3>1, <3>2 DEF AllKinds
  <2> HIDE DEF o, q, p
  <2>6. p.v = Append(o.v, q.v) /\ p.rest = q.rest
    BY <2>2, OutcomeFacts
  <2>7. /\ IsArray(p.v) /\ Len(p.v) = i + 1 /\ p.v[i + 1] = q.v
        /\ \A j \in 1..i : p.v[j] = o.v[j]
    BY <2>3, <2>6, LongerArray
  <2>8. \A j \in 1..(i + 1) : j \in 1..i \/ j = i + 1
    OBVIOUS
  <2>9. \A j \in 1..(i + 1) : OfKind(kinds[j], p.v[j])
    BY <2>3, <2>5, <2>7, <2>8
  <2> QED BY <2>5, <2>6, <2>7, <2>9
<1>4. \A i \in Nat : i \in S
  <2> HIDE DEF S
  <2> QED BY <1>2, <1>3, NatSteps
<1>5. P(f[n], n)
  <2> HIDE DEF P
  <2> QED BY <1>4
<1> QED BY <1>1, <1>5

\* What the beginning has and the whole has too.  The properties may be missing, and
\* then there is nothing behind them.
SameUpTo(a, b, n) == \A j \in 1..n : a[j] = b[j]

\* The same values are read from data and from its beginning, but for the properties that
\* end the shorter data: what is missing of them is none.
LEMMA AllFollow ==
  ASSUME NEW t, NEW s, Cut(t, s), NEW n \in Nat, NEW kinds, Len(kinds) = n,
         \A i \in 1..n : kinds[i] \in AllKinds,
         \A i \in 1..n : kinds[i] = "properties" /\ (i + 1) \in 1..n => kinds[i + 1] \in Kinds,
         ReadAll(kinds, t).ok, ReadAll(kinds, s).ok
  PROVE  \/ /\ ReadAll(kinds, t).v = ReadAll(kinds, s).v
            /\ Cut(ReadAll(kinds, t).rest, ReadAll(kinds, s).rest)
         \/ /\ n > 0 /\ kinds[n] = "properties"
            /\ SameUpTo(ReadAll(kinds, t).v, ReadAll(kinds, s).v, n - 1)
            /\ ReadAll(kinds, t).v[n] = <<>> /\ ReadAll(kinds, t).rest = <<>>
<1>1. PICK f : /\ ReadAll(kinds, t) = f[n]
               /\ f[0] = Got(<<>>, t)
               /\ \A i \in 1..n : f[i] = NextRead(f[i - 1], kinds[i])
  <2>1. Len(kinds) \in Nat
    OBVIOUS
  <2>2. \E f : /\ ReadAll(kinds, t) = f[Len(kinds)]
               /\ f[0] = Got(<<>>, t)
               /\ \A i \in 1..Len(kinds) : f[i] = NextRead(f[i - 1], kinds[i])
    BY <2>1, AllSteps
  <2> QED BY <2>2
<1>2. PICK g : /\ ReadAll(kinds, s) = g[n]
               /\ g[0] = Got(<<>>, s)
               /\ \A i \in 1..n : g[i] = NextRead(g[i - 1], kinds[i])
  <2>1. Len(kinds) \in Nat
    OBVIOUS
  <2>2. \E h : /\ ReadAll(kinds, s) = h[Len(kinds)]
               /\ h[0] = Got(<<>>, s)
               /\ \A i \in 1..Len(kinds) : h[i] = NextRead(h[i - 1], kinds[i])
    BY <2>1, AllSteps
  <2> QED BY <2>2
<1> DEFINE Arrays(a, b, i) == IsArray(a) /\ IsArray(b) /\ Len(a) = i /\ Len(b) = i
           Same(a, b) == a.v = b.v /\ Cut(a.rest, b.rest)
           Less(a, b, i) == /\ i > 0 /\ kinds[i] = "properties" /\ SameUpTo(a.v, b.v, i - 1)
                            /\ a.v[i] = <<>> /\ a.rest = <<>>
           P(a, b, i) == a.ok /\ b.ok => Arrays(a.v, b.v, i) /\ (Same(a, b) \/ Less(a, b, i))
           S == {i \in Nat : i <= n => P(f[i], g[i], i)}
<1>3. 0 \in S
  <2>1. Arrays(f[0].v, g[0].v, 0) /\ Same(f[0], g[0])
    BY <1>1, <1>2, OutcomeFacts, EmptyArray
  <2> HIDE DEF Same, Less, Arrays
  <2> QED BY <2>1
<1>4. ASSUME NEW i \in Nat, i \in S PROVE i + 1 \in S
  <2> DEFINE kind == kinds[i + 1]
             o == f[i]
             q == Read(kind, o.rest)
             p == f[i + 1]
             x == g[i]
             y == Read(kind, x.rest)
             z == g[i + 1]
  <2> SUFFICES ASSUME i + 1 <= n, p.ok, z.ok
               PROVE  Arrays(p.v, z.v, i + 1) /\ (Same(p, z) \/ Less(p, z, i + 1))
    OBVIOUS
  <2>1. i + 1 \in 1..n /\ (i + 1) - 1 = i /\ i <= n /\ i + 1 > 0
    OBVIOUS
  <2>2. o.ok /\ q.ok /\ p = Got(Append(o.v, q.v), q.rest)
    BY <1>1, <2>1, NextUnfolds, OutcomeFacts
  <2>3. x.ok /\ y.ok /\ z = Got(Append(x.v, y.v), y.rest)
    BY <1>2, <2>1, NextUnfolds, OutcomeFacts
  <2>4. Arrays(o.v, x.v, i) /\ (Same(o, x) \/ Less(o, x, i))
    <3> HIDE DEF Same, Less, Arrays
    <3> QED BY <1>4, <2>1, <2>2, <2>3
  <2>5. kind \in AllKinds
    BY <2>1
  <2>6. Same(o, x)
    <3> SUFFICES ASSUME Less(o, x, i) PROVE FALSE
      BY <2>4
    <3>1. i \in 1..n /\ kinds[i] = "properties" /\ o.rest = <<>>
      BY <2>1
    <3>2. kind \in Kinds
      BY <2>1, <3>1
    <3> QED BY <2>2, <3>1, <3>2, ReadIs, NothingRead
  <2>7. \/ q.v = y.v /\ Cut(q.rest, y.rest)
        \/ kind = "properties" /\ q.v = <<>> /\ q.rest = <<>>
    <3>1. CASE kind = "properties"
      <4>1. q = ReadProperties(o.rest) /\ y = ReadProperties(x.rest)
        BY <3>1, ReadIs
      <4>2. (q.v = y.v /\ Cut(q.rest, y.rest)) \/ q = Got(<<>>, <<>>)
        BY <2>2, <2>3, <2>6, <4>1, PartFollows
      <4> HIDE DEF q, y, o, x
      <4> QED BY <3>1, <4>2, OutcomeFacts
    <3>2. CASE kind \in Kinds
      <4>1. q = ReadValue(kind, o.rest) /\ y = ReadValue(kind, x.rest)
        BY <3>2, ReadIs
      <4>2. q.v = y.v /\ Cut(q.rest, y.rest)
        BY <2>2, <2>6, <3>2, <4>1, ValueFollows
      <4> QED BY <4>2
    <3> QED BY <2>5, <3>1, <3>2 DEF AllKinds
  <2> HIDE DEF o, q, p, x, y, z
  <2>8. p.v = Append(o.v, q.v) /\ p.rest = q.rest /\ z.v = Append(x.v, y.v) /\ z.rest = y.rest
    BY <2>2, <2>3, OutcomeFacts
  <2>9. /\ IsArray(p.v) /\ Len(p.v) = i + 1 /\ p.v[i + 1] = q.v
        /\ \A j \in 1..i : p.v[j] = o.v[j]
    BY <2>4, <2>8, LongerArray
  <2>10. /\ IsArray(z.v) /\ Len(z.v) = i + 1 /\ z.v[i + 1] = y.v
         /\ \A j \in 1..i : z.v[j] = x.v[j]
    BY <2>4, <2>8, LongerArray
  <2>11. CASE q.v = y.v /\ Cut(q.rest, y.rest)
    BY <2>6, <2>8, <2>9, <2>10, <2>11
  <2>12. CASE kind = "properties" /\ q.v = <<>> /\ q.rest = <<>>
    <3>1. SameUpTo(p.v, z.v, i)
      BY <2>6, <2>9, <2>10 DEF SameUpTo
    <3> QED BY <2>1, <2>8, <2>9, <2>10, <2>12, <3>1
  <2> QED BY <2>7, <2>11, <2>12
<1>5. \A i \in Nat : i \in S
  <2> HIDE DEF S
  <2> QED BY <1>3, <1>4, NatSteps
<1>6. P(f[n], g[n], n)
  <2> HIDE DEF P
  <2> QED BY <1>5
<1> QED BY <1>1, <1>2, <1>6

\* The entries of a list.
LEMMA EntryUnfolds ==
  ASSUME NEW before, NEW kinds
  PROVE  NextEntry(before, kinds)
           = IF ~before.ok THEN Refused
             ELSE IF before.rest = <<>> THEN before
             ELSE IF ~ReadAll(kinds, before.rest).ok THEN Refused
             ELSE Got(Append(before.v, ReadAll(kinds, before.rest).v),
                      ReadAll(kinds, before.rest).rest)
BY DEF NextEntry, Mapped, Then

\* An entry has a value of each kind.
IsEntry(kinds, v) ==
  IsArray(v) /\ Len(v) = Len(kinds) /\ \A i \in 1..Len(kinds) : Holds(kinds[i], v[i])

\* The kinds of an entry.
IsEntryKinds(kinds) == Len(kinds) \in Nat /\ \A i \in 1..Len(kinds) : kinds[i] \in Kinds

\* Entries that are read again and again each have their kinds.
LEMMA ManyRead ==
  ASSUME NEW s \in Octets, NEW kinds, IsEntryKinds(kinds), ReadMany(kinds, s).ok
  PROVE  /\ IsArray(ReadMany(kinds, s).v)
         /\ \A i \in 1..Len(ReadMany(kinds, s).v) : IsEntry(kinds, ReadMany(kinds, s).v[i])
<1>1. Len(s) \in Nat
  BY OctetFacts
<1>2. PICK f : /\ ReadMany(kinds, s) = f[Len(s)]
               /\ f[0] = Got(<<>>, s)
               /\ \A i \in 1..Len(s) : f[i] = NextEntry(f[i - 1], kinds)
  BY <1>1, ManySteps
<1> DEFINE P(o) == o.ok => /\ o.rest \in Octets /\ IsArray(o.v)
                           /\ \A j \in 1..Len(o.v) : IsEntry(kinds, o.v[j])
           S == {i \in Nat : i <= Len(s) => P(f[i])}
<1>3. 0 \in S
  <2>1. P(f[0])
    BY <1>2, OutcomeFacts, EmptyArray
  <2> HIDE DEF P
  <2> QED BY <2>1
<1>4. ASSUME NEW i \in Nat, i \in S PROVE i + 1 \in S
  <2> DEFINE o == f[i]
             q == ReadAll(kinds, o.rest)
             p == f[i + 1]
  <2> SUFFICES ASSUME i + 1 <= Len(s), p.ok PROVE P(p)
    OBVIOUS
  <2>1. i + 1 \in 1..Len(s) /\ (i + 1) - 1 = i /\ i <= Len(s)
    BY <1>1
  <2>2. p = IF ~o.ok THEN Refused ELSE IF o.rest = <<>> THEN o
            ELSE IF ~q.ok THEN Refused ELSE Got(Append(o.v, q.v), q.rest)
    BY <1>2, <2>1, EntryUnfolds
  <2>3. o.ok
    <3> HIDE DEF o, q, p
    <3> QED BY <2>2, OutcomeFacts
  <2>4. P(o)
    BY <1>4, <2>1
  <2>5. CASE o.rest = <<>>
    <3> HIDE DEF P
    <3> QED BY <2>2, <2>3, <2>4, <2>5
  <2>6. CASE o.rest # <<>>
    <3>1. q.ok /\ p = Got(Append(o.v, q.v), q.rest)
      <4> HIDE DEF o, q, p
      <4> QED BY <2>2, <2>3, <2>6, OutcomeFacts
    <3>2. \A j \in 1..Len(kinds) : kinds[j] \in AllKinds /\ kinds[j] \in Kinds
      BY DEF IsEntryKinds, AllKinds
    <3>3. /\ q.rest \in Octets /\ IsArray(q.v) /\ Len(q.v) = Len(kinds)
          /\ \A j \in 1..Len(kinds) : OfKind(kinds[j], q.v[j])
      BY <2>3, <2>4, <3>1, <3>2, AllRead DEF IsEntryKinds
    <3>4. IsEntry(kinds, q.v)
      BY <3>2, <3>3, ReadIs DEF IsEntry, OfKind
    <3> HIDE DEF o, q, p
    <3>5. p.v = Append(o.v, q.v) /\ p.rest = q.rest
      BY <3>1, OutcomeFacts
    <3>6. /\ IsArray(o.v) /\ \A j \in 1..Len(o.v) : IsEntry(kinds, o.v[j])
      BY <2>3, <2>4
    <3>7. /\ IsArray(p.v) /\ Len(p.v) = Len(o.v) + 1 /\ p.v[Len(o.v) + 1] = q.v
          /\ \A j \in 1..Len(o.v) : p.v[j] = o.v[j]
      BY <3>5, <3>6, LongerArray
    <3>8. Len(o.v) \in Nat
      BY <3>6 DEF IsArray
    <3>9. \A j \in 1..Len(p.v) : j \in 1..Len(o.v) \/ j = Len(o.v) + 1
      BY <3>7, <3>8
    <3>10. \A j \in 1..Len(p.v) : IsEntry(kinds, p.v[j])
      BY <3>4, <3>6, <3>7, <3>9
    <3> QED BY <3>3, <3>5, <3>7, <3>10
  <2> QED BY <2>5, <2>6
<1>5. \A i \in Nat : i \in S
  <2> HIDE DEF S
  <2> QED BY <1>3, <1>4, NatSteps
<1>6. P(f[Len(s)])
  <2> HIDE DEF P
  <2> QED BY <1>1, <1>5
<1> QED BY <1>2, <1>6

\* An array begins with another.
Begins(b, a) == IsArray(a) /\ IsArray(b) /\ Len(a) <= Len(b) /\ SameUpTo(a, b, Len(a))

\* A list that goes on still begins as it did.
LEMMA BeginsLonger ==
  ASSUME NEW a, NEW b, Begins(b, a), NEW x
  PROVE  Begins(Append(b, x), a)
<1> DEFINE c == Append(b, x)
<1>1. IsArray(c) /\ Len(c) = Len(b) + 1 /\ \A i \in 1..Len(b) : c[i] = b[i]
  BY LongerArray DEF Begins
<1> HIDE DEF c
<1>2. Len(a) \in Nat /\ Len(b) \in Nat /\ Len(a) <= Len(b) /\ \A i \in 1..Len(a) : a[i] = b[i]
  BY DEF Begins, IsArray, SameUpTo
<1>3. SameUpTo(a, c, Len(a))
  BY <1>1, <1>2 DEF SameUpTo
<1> QED BY <1>1, <1>2, <1>3 DEF Begins, c

\* The entries of the beginning are the first of the whole.
LEMMA ManyFollow ==
  ASSUME NEW t, NEW s, Cut(t, s), NEW kinds, IsEntryKinds(kinds),
         ReadMany(kinds, t).ok, ReadMany(kinds, s).ok
  PROVE  Begins(ReadMany(kinds, s).v, ReadMany(kinds, t).v)
<1> DEFINE n == Len(t)
           m == Len(s)
<1>1. n \in Nat /\ m \in Nat /\ n <= m
  BY OctetFacts DEF Cut
<1>2. PICK f : /\ ReadMany(kinds, t) = f[n]
               /\ f[0] = Got(<<>>, t)
               /\ \A i \in 1..n : f[i] = NextEntry(f[i - 1], kinds)
  BY <1>1, ManySteps
<1>3. PICK g : /\ ReadMany(kinds, s) = g[m]
               /\ g[0] = Got(<<>>, s)
               /\ \A i \in 1..m : g[i] = NextEntry(g[i - 1], kinds)
  BY <1>1, ManySteps
<1> HIDE DEF n, m
<1> DEFINE h(i) == IF i <= n THEN f[i] ELSE f[n]
           Same(a, b) == a.v = b.v /\ Cut(a.rest, b.rest)
           P(a, b, i) == a.ok /\ b.ok => /\ Begins(b.v, a.v)
                                         /\ i <= n => Same(a, b) \/ a.rest = <<>>
           S == {i \in Nat : i <= m => P(h(i), g[i], i)}
<1>4. 0 \in S
  <2>1. h(0) = f[0]
    BY <1>1
  <2>2. Same(f[0], g[0])
    BY <1>2, <1>3, OutcomeFacts
  <2>3. Begins(<<>>, <<>>)
    BY EmptyArray DEF Begins, SameUpTo
  <2>4. Begins(g[0].v, f[0].v)
    BY <1>2, <1>3, <2>3, OutcomeFacts
  <2> HIDE DEF h, Same
  <2> QED BY <2>1, <2>2, <2>4
<1>5. ASSUME NEW i \in Nat, i \in S PROVE i + 1 \in S
  <2> DEFINE o == h(i)
             p == h(i + 1)
             x == g[i]
             z == g[i + 1]
             q == ReadAll(kinds, o.rest)
             y == ReadAll(kinds, x.rest)
  <2> SUFFICES ASSUME i + 1 <= m, p.ok, z.ok
               PROVE  Begins(z.v, p.v) /\ (i + 1 <= n => Same(p, z) \/ p.rest = <<>>)
    <3> HIDE DEF Same, h
    <3> QED OBVIOUS
  <2>1. i + 1 \in 1..m /\ (i + 1) - 1 = i /\ i <= m
    BY <1>1
  <2>2. z = IF ~x.ok THEN Refused ELSE IF x.rest = <<>> THEN x
            ELSE IF ~y.ok THEN Refused ELSE Got(Append(x.v, y.v), y.rest)
    BY <1>3, <2>1, EntryUnfolds
  <2>3. i + 1 <= n => /\ i <= n
                      /\ p = IF ~o.ok THEN Refused ELSE IF o.rest = <<>> THEN o
                             ELSE IF ~q.ok THEN Refused ELSE Got(Append(o.v, q.v), q.rest)
    <3> SUFFICES ASSUME i + 1 <= n
                 PROVE  /\ i <= n
                        /\ p = IF ~o.ok THEN Refused ELSE IF o.rest = <<>> THEN o
                               ELSE IF ~q.ok THEN Refused ELSE Got(Append(o.v, q.v), q.rest)
      OBVIOUS
    <3>1. i <= n /\ i + 1 \in 1..n /\ (i + 1) - 1 = i
      BY <1>1
    <3>2. o = f[i] /\ p = f[i + 1] /\ f[i + 1] = NextEntry(f[i], kinds)
      BY <1>2, <3>1
    <3> HIDE DEF o, p
    <3> QED BY <3>1, <3>2, EntryUnfolds
  <2>4. ~(i + 1 <= n) => p = o
    BY <1>1
  <2>5. P(o, x, i)
    <3> HIDE DEF P, h
    <3> QED BY <1>5, <2>1
  <2> HIDE DEF o, p, x, z, q, y, h
  <2>6. o.ok /\ x.ok
    BY <2>2, <2>3, <2>4, OutcomeFacts
  <2>7. Begins(x.v, o.v) /\ (i <= n => Same(o, x) \/ o.rest = <<>>)
    <3> HIDE DEF Same
    <3> QED BY <2>5, <2>6
  <2>8. Begins(z.v, o.v)
    <3>1. CASE x.rest = <<>>
      BY <2>2, <2>6, <2>7, <3>1
    <3>2. CASE x.rest # <<>>
      <4>1. z.v = Append(x.v, y.v)
        BY <2>2, <2>6, <3>2, OutcomeFacts
      <4> QED BY <2>7, <4>1, BeginsLonger
    <3> QED BY <3>1, <3>2
  <2>9. CASE ~(i + 1 <= n)
    BY <2>4, <2>8, <2>9
  <2>10. CASE i + 1 <= n /\ o.rest = <<>>
    <3>1. p = o
      BY <2>3, <2>6, <2>10
    <3> QED BY <2>8, <2>10, <3>1
  <2>11. CASE i + 1 <= n /\ o.rest # <<>>
    <3>1. o.v = x.v /\ Cut(o.rest, x.rest)
      BY <2>3, <2>7, <2>11
    <3>2. x.rest # <<>>
      <4>1. Len(o.rest) # 0
        BY <2>11, <3>1 DEF Cut, Octets
      <4> QED BY <3>1, <4>1, OctetFacts DEF Cut
    <3>3. q.ok /\ p = Got(Append(o.v, q.v), q.rest)
      BY <2>3, <2>6, <2>11, OutcomeFacts
    <3>4. y.ok /\ z = Got(Append(x.v, y.v), y.rest)
      BY <2>2, <2>6, <3>2, OutcomeFacts
    <3>5. q.v = y.v /\ Cut(q.rest, y.rest)
      <4>1. /\ Len(kinds) \in Nat
            /\ \A j \in 1..Len(kinds) : kinds[j] \in AllKinds /\ kinds[j] # "properties"
        BY ReadIs DEF IsEntryKinds, AllKinds
      <4> QED BY <3>1, <3>3, <3>4, <4>1, AllFollow DEF q, y
    <3>6. Same(p, z)
      BY <3>1, <3>3, <3>4, <3>5, OutcomeFacts
    <3>7. Begins(z.v, p.v)
      <4>1. IsArray(x.v)
        BY <2>7 DEF Begins
      <4>2. IsArray(z.v)
        BY <3>4, <4>1, LongerArray, OutcomeFacts
      <4> QED BY <3>6, <4>2 DEF Begins, SameUpTo, IsArray
    <3> HIDE DEF Same
    <3> QED BY <3>6, <3>7
  <2> QED BY <2>9, <2>10, <2>11
<1>6. \A i \in Nat : i \in S
  <2> HIDE DEF S
  <2> QED BY <1>4, <1>5, NatSteps
<1>7. P(h(m), g[m], m)
  <2> HIDE DEF P, h
  <2> QED BY <1>1, <1>6
<1>8. h(m) = f[n]
  BY <1>1
<1> QED BY <1>2, <1>3, <1>7, <1>8
-----------------------------------------------------------------------------
(* Packets that are read.                                                  *)

\* What some fields of a packet of a type have to hold.
Fits(type, r) ==
  /\ DOMAIN r \subseteq RequiredFields(type) \cup OptionalFields(type)
  /\ HoldFields(r)
  /\ "properties" \in DOMAIN r => IsProperties(type, r.properties)
  /\ "will" \in DOMAIN r => IsWill(r.will)
  /\ \A n \in {"subscriptions", "topic_filters", "reason_codes"} \cap DOMAIN r : IsArray(r[n])
  /\ "subscriptions" \in DOMAIN r =>
       \A i \in 1..Len(r.subscriptions) : IsSubscription(r.subscriptions[i])
  /\ "topic_filters" \in DOMAIN r =>
       \A i \in 1..Len(r.topic_filters) : r.topic_filters[i] \in Octets
  /\ "reason_codes" \in DOMAIN r =>
       \A i \in 1..Len(r.reason_codes) : r.reason_codes[i] \in 0..255

\* A record with the fields its type requires and others that fit is a packet.
LEMMA FitsPacket ==
  ASSUME NEW p, "type" \in DOMAIN p, p.type \in 1..15, RequiredFields(p.type) \subseteq DOMAIN p,
         Fits(p.type, p)
  PROVE  IsPacket(p)
BY TypeFacts DEF Fits, IsPacket, HasFields

\* The fields of two parts.
LEMMA MoreFields ==
  ASSUME NEW f, NEW g
  PROVE  /\ DOMAIN (f ++ g) = DOMAIN f \cup DOMAIN g
         /\ \A n \in DOMAIN f : (f ++ g)[n] = f[n]
         /\ \A n \in DOMAIN g : n \notin DOMAIN f => (f ++ g)[n] = g[n]
BY DEF ++

\* Fields that hold what they should do so in any record.
LEMMA SameFieldsHold ==
  ASSUME NEW f, NEW g, HoldFields(f), HoldFields(g)
  PROVE  HoldFields(f ++ g)
<1> DEFINE h == f ++ g
<1>1. /\ DOMAIN h = DOMAIN f \cup DOMAIN g
      /\ \A n \in DOMAIN f : h[n] = f[n]
      /\ \A n \in DOMAIN g : n \notin DOMAIN f => h[n] = g[n]
  BY MoreFields
<1> HIDE DEF h
<1>2. \A n \in DOMAIN h : (n \in DOMAIN f /\ h[n] = f[n]) \/ (n \in DOMAIN g /\ h[n] = g[n])
  BY <1>1
<1>3. \A n \in {"clean_start", "session_present", "dup", "retain", "no_local",
                "retain_as_published"} \cap DOMAIN h : h[n] \in BOOLEAN
  BY <1>2 DEF HoldFields
<1>4. \A n \in {"protocol_version", "connect_reason_code", "reason_code"} \cap DOMAIN h :
        h[n] \in 0..255
  BY <1>2 DEF HoldFields
<1>5. \A n \in {"keepalive", "packet_identifier"} \cap DOMAIN h : h[n] \in Nat /\ h[n] < 65536
  BY <1>2 DEF HoldFields
<1>6. /\ "qos" \in DOMAIN h => h.qos \in 0..3
      /\ "retain_handling" \in DOMAIN h => h.retain_handling \in 0..15
  BY <1>2 DEF HoldFields
<1>7. \A n \in {"protocol_name", "client_id", "username", "password", "topic"} \cap DOMAIN h :
        h[n] \in Octets
  BY <1>2 DEF HoldFields
<1>8. "payload" \in DOMAIN h => /\ h.payload = <<h.payload[1], h.payload[2]>>
                                /\ h.payload[1] \in {"text", "binary"} /\ h.payload[2] \in Octets
  BY <1>2 DEF HoldFields
<1>9. HoldFields(h)
  BY <1>3, <1>4, <1>5, <1>6, <1>7, <1>8 DEF HoldFields
<1> QED BY <1>9 DEF h

\* Fields that fit, put together.
LEMMA FitsTogether ==
  ASSUME NEW type, NEW f, NEW g, Fits(type, f), Fits(type, g)
  PROVE  Fits(type, f ++ g)
<1> DEFINE h == f ++ g
<1>1. /\ DOMAIN h = DOMAIN f \cup DOMAIN g
      /\ \A n \in DOMAIN f : h[n] = f[n]
      /\ \A n \in DOMAIN g : n \notin DOMAIN f => h[n] = g[n]
  BY MoreFields
<1>2. HoldFields(h)
  BY SameFieldsHold DEF Fits
<1> HIDE DEF h
<1>3. \A n \in DOMAIN h : (n \in DOMAIN f /\ h[n] = f[n]) \/ (n \in DOMAIN g /\ h[n] = g[n])
  BY <1>1
<1>4. DOMAIN h \subseteq RequiredFields(type) \cup OptionalFields(type)
  BY <1>1 DEF Fits
<1>5. "properties" \in DOMAIN h => IsProperties(type, h.properties)
  BY <1>3 DEF Fits
<1>6. "will" \in DOMAIN h => IsWill(h.will)
  BY <1>3 DEF Fits
<1>7. \A n \in {"subscriptions", "topic_filters", "reason_codes"} \cap DOMAIN h : IsArray(h[n])
  BY <1>3 DEF Fits
<1>8. "subscriptions" \in DOMAIN h =>
        \A i \in 1..Len(h.subscriptions) : IsSubscription(h.subscriptions[i])
  BY <1>3 DEF Fits
<1>9. "topic_filters" \in DOMAIN h =>
        \A i \in 1..Len(h.topic_filters) : h.topic_filters[i] \in Octets
  BY <1>3 DEF Fits
<1>10. "reason_codes" \in DOMAIN h =>
         \A i \in 1..Len(h.reason_codes) : h.reason_codes[i] \in 0..255
  BY <1>3 DEF Fits
<1>11. Fits(type, h)
  BY <1>2, <1>4, <1>5, <1>6, <1>7, <1>8, <1>9, <1>10 DEF Fits
<1> QED BY <1>11 DEF h

\* The properties of the packets but SUBSCRIBE.
LEMMA PartFits ==
  ASSUME NEW type, type # Type.Subscribe, NEW part, IsPart(part),
         "properties" \in OptionalFields(type)
  PROVE  Fits(type, part)
<1>1. CASE part = <<>>
  BY <1>1 DEF Fits, HoldFields
<1>2. CASE part # <<>>
  <2>1. PICK props : part = [properties |-> props] /\ PropertiesRead(props)
    BY <1>2 DEF IsPart
  <2>2. DOMAIN part = {"properties"} /\ part.properties = props
    BY <2>1
  <2>3. IsProperties(type, props)
    BY <2>1, TypeFacts DEF PropertiesRead, IsProperties, HoldsProperty
  <2>4. HoldFields(part)
    BY <2>2 DEF HoldFields
  <2> QED BY <2>2, <2>3, <2>4 DEF Fits
<1> QED BY <1>1, <1>2

\* The same with the fields of the kind.
LEMMA KindHolds ==
  ASSUME NEW v
  PROVE  /\ OfKind("byte", v) => v \in 0..255
         /\ OfKind("two", v) => v \in Nat /\ v < 65536
         /\ OfKind("isOne", v) => v \in BOOLEAN
         /\ \A kind \in {"text", "topic", "filter"} : OfKind(kind, v) => v \in Octets
         /\ OfKind("properties", v) => IsPart(v)
BY DEF OfKind, Holds
-----------------------------------------------------------------------------
(* The packets by what they are read from.                                 *)

\* What CONNACK is read from,
ConnAckKinds == <<"isOne", "byte", "properties">>

\* What each function of deserialize.ts returns, from the values it reads: CONNACK,
LEMMA ConnAckUnfolds ==
  ASSUME NEW w, ReadConnAck(w).ok
  PROVE  LET o == ReadAll(ConnAckKinds, w.body)
         IN  /\ o.ok
             /\ ReadConnAck(w).v = [type |-> w.type, session_present |-> o.v[1],
                                    connect_reason_code |-> o.v[2]] ++ o.v[3]
<1> DEFINE o == ReadAll(ConnAckKinds, w.body)
           p == [type |-> w.type, session_present |-> o.v[1],
                 connect_reason_code |-> o.v[2]] ++ o.v[3]
<1>1. ReadConnAck(w) = IF o.ok THEN Got(p, <<>>) ELSE Refused
  BY DEF ReadConnAck, Packet, Then, ConnAckKinds
<1> HIDE DEF o, p
<1>2. o.ok /\ ReadConnAck(w).v = p
  BY <1>1, OutcomeFacts
<1> QED BY <1>2 DEF o, p

\* PUBLISH,
PublishKinds(w) ==
  IF QoSOf(w.flags, 2) # 0 THEN <<"topic", "two", "properties">> ELSE <<"topic", "properties">>

\* and the fields of PUBLISH in front of its properties and payload.
PublishHead(w, head) ==
  LET qos == QoSOf(w.flags, 2)
  IN  [type |-> w.type, topic |-> head[1]]
        ++ (IF Flag(w.flags, 8) THEN [dup |-> TRUE] ELSE <<>>)
        ++ (IF Flag(w.flags, 1) THEN [retain |-> TRUE] ELSE <<>>)
        ++ (IF qos # 0 THEN [qos |-> qos, packet_identifier |-> head[2]] ELSE <<>>)

\* PUBLISH,
LEMMA PublishUnfolds ==
  ASSUME NEW w, NEW choice, ReadPublish(w, choice).ok
  PROVE  LET o == ReadAll(PublishKinds(w), w.body)
         IN  /\ o.ok
             /\ ReadPublish(w, choice).v = PublishHead(w, o.v) ++ Last(o.v)
                                             ++ ReadPayload(o.rest, Last(o.v), choice)
<1> DEFINE o == ReadAll(PublishKinds(w), w.body)
           p == PublishHead(w, o.v) ++ Last(o.v) ++ ReadPayload(o.rest, Last(o.v), choice)
<1>1. ReadPublish(w, choice) = IF o.ok THEN Got(p, <<>>) ELSE Refused
  BY DEF ReadPublish, Packet, Then, PublishKinds, PublishHead
<1> HIDE DEF o, p
<1>2. o.ok /\ ReadPublish(w, choice).v = p
  BY <1>1, OutcomeFacts
<1> QED BY <1>2 DEF o, p

\* A reason code and properties.
ReasonKinds == <<"byte", "properties">>

\* a reason code and properties, or neither,
LEMMA ReasonUnfolds ==
  ASSUME NEW head, NEW s, ReadReason(head, s).ok
  PROVE  LET o == ReadAll(ReasonKinds, s)
         IN  \/ s = <<>> /\ ReadReason(head, s).v = head
             \/ /\ s # <<>> /\ o.ok
                /\ ReadReason(head, s).v = head ++ [reason_code |-> o.v[1]] ++ o.v[2]
<1> DEFINE o == ReadAll(ReasonKinds, s)
           p == head ++ [reason_code |-> o.v[1]] ++ o.v[2]
<1>1. ReadReason(head, s) = IF s = <<>> THEN Got(head, <<>>)
                            ELSE IF o.ok THEN Got(p, <<>>) ELSE Refused
  BY DEF ReadReason, Packet, Then, ReasonKinds
<1> HIDE DEF o, p
<1>2. \/ s = <<>> /\ ReadReason(head, s).v = head
      \/ s # <<>> /\ o.ok /\ ReadReason(head, s).v = p
  BY <1>1, OutcomeFacts
<1> QED BY <1>2 DEF o, p

\* the acknowledgements, whose identifier comes first,
LEMMA AckUnfolds ==
  ASSUME NEW w, ReadAck(w).ok
  PROVE  LET o == ReadUint(w.body, 2)
         IN  o.ok /\ ReadAck(w) = ReadReason([type |-> w.type, packet_identifier |-> o.v], o.rest)
<1> DEFINE o == ReadUint(w.body, 2)
           q == ReadReason([type |-> w.type, packet_identifier |-> o.v], o.rest)
<1>1. ReadAck(w) = Refused \/ (o.ok /\ ReadAck(w) = q) \/ (~o.ok /\ ReadAck(w) = Refused)
  BY DEF ReadAck, Then
<1> HIDE DEF o, q
<1>2. o.ok /\ ReadAck(w) = q
  BY <1>1, OutcomeFacts
<1> QED BY <1>2 DEF o, q

\* What the packets with a list begin with.
HeadKinds == <<"two", "properties">>

\* the packets that end with a list,
LEMMA ListUnfolds ==
  ASSUME NEW w, ReadList(w).ok
  PROVE  LET o == ReadAll(HeadKinds, w.body)
             l == ReadMany(ListOf(w.type)[2], o.rest)
         IN  /\ o.ok /\ l.ok
             /\ ReadList(w).v
                  = [type |-> w.type, packet_identifier |-> o.v[1]]
                      ++ (IF w.type = Type.Subscribe THEN SubscribeProperties(o.v[2]) ELSE o.v[2])
                      ++ Single(ListOf(w.type)[1],
                                [i \in 1..Len(l.v) |-> Entry(w.type, l.v[i])])
<1> DEFINE o == ReadAll(HeadKinds, w.body)
           l == ReadMany(ListOf(w.type)[2], o.rest)
           p == [type |-> w.type, packet_identifier |-> o.v[1]]
                      ++ (IF w.type = Type.Subscribe THEN SubscribeProperties(o.v[2]) ELSE o.v[2])
                      ++ Single(ListOf(w.type)[1],
                                [i \in 1..Len(l.v) |-> Entry(w.type, l.v[i])])
           list == Then(l, LAMBDA items, none :
                     Packet([type |-> w.type, packet_identifier |-> o.v[1]]
                      ++ (IF w.type = Type.Subscribe THEN SubscribeProperties(o.v[2]) ELSE o.v[2])
                      ++ Single(ListOf(w.type)[1],
                                [i \in 1..Len(items) |-> Entry(w.type, items[i])])))
<1>1. ReadList(w) = Refused \/ (o.ok /\ ReadList(w) = list) \/ (~o.ok /\ ReadList(w) = Refused)
  BY DEF ReadList, Then, HeadKinds
<1>2. list = IF l.ok THEN Got(p, <<>>) ELSE Refused
  BY DEF Then, Packet
<1> HIDE DEF o, l, p, list
<1>3. o.ok /\ l.ok /\ ReadList(w).v = p
  BY <1>1, <1>2, OutcomeFacts
<1> QED BY <1>3 DEF o, l, p

\* The names CONNECT has, as the flags tell.
LoginNames(flags) ==
  (IF Flag(flags, 128) THEN <<"username">> ELSE <<>>)
    \o (IF Flag(flags, 64) THEN <<"password">> ELSE <<>>)

\* Where a name is among them.
LoginAt(flags, n) == CHOOSE i \in 1..Len(LoginNames(flags)) : LoginNames(flags)[i] = n

\* the user name and the password, as the flags tell,
LEMMA LoginUnfolds ==
  ASSUME NEW flags, NEW s, ReadLogin(flags, s).ok
  PROVE  LET names == LoginNames(flags)
             o == ReadAll([i \in 1..Len(names) |-> "text"], s)
         IN  /\ o.ok
             /\ ReadLogin(flags, s).v = [n \in ToSet(names) |-> o.v[LoginAt(flags, n)]]
<1> DEFINE names == LoginNames(flags)
           o == ReadAll([i \in 1..Len(names) |-> "text"], s)
           p == [n \in ToSet(names) |-> o.v[LoginAt(flags, n)]]
<1>1. ReadLogin(flags, s) = IF o.ok THEN Got(p, o.rest) ELSE Refused
  BY DEF ReadLogin, Mapped, Then, LoginNames, LoginAt
<1> HIDE DEF o, p, names
<1>2. o.ok /\ ReadLogin(flags, s).v = p
  BY <1>1, OutcomeFacts
<1> QED BY <1>2 DEF o, p, names

\* What a will is read from in front of its payload.
WillKinds == <<"properties", "text">>

\* the will, when the flags tell of one,
LEMMA WillUnfolds ==
  ASSUME NEW flags, NEW s, ReadWill(flags, s).ok
  PROVE  LET o == ReadAll(WillKinds, s)
             l == ReadWillPayload(o.rest)
         IN  \/ ~Flag(flags, 4) /\ ReadWill(flags, s) = Got(<<>>, s)
             \/ /\ Flag(flags, 4) /\ o.ok /\ l.ok
                /\ ReadWill(flags, s)
                     = Got([will |-> [qos |-> QoSOf(flags, 8), retain |-> Flag(flags, 32),
                                      topic |-> o.v[2], payload |-> l.v] ++ o.v[1]], l.rest)
<1> DEFINE o == ReadAll(WillKinds, s)
           l == ReadWillPayload(o.rest)
           p == [will |-> [qos |-> QoSOf(flags, 8), retain |-> Flag(flags, 32),
                           topic |-> o.v[2], payload |-> l.v] ++ o.v[1]]
           will == Mapped(l, LAMBDA v : [will |-> [qos |-> QoSOf(flags, 8),
                           retain |-> Flag(flags, 32),
                           topic |-> o.v[2], payload |-> v] ++ o.v[1]])
<1>1. ReadWill(flags, s) = IF ~Flag(flags, 4) THEN Got(<<>>, s) ELSE IF o.ok THEN will ELSE Refused
  BY DEF ReadWill, Then, WillKinds
<1>2. will = IF l.ok THEN Got(p, l.rest) ELSE Refused
  BY DEF Mapped, Then
<1> HIDE DEF o, l, p, will
<1>3. \/ ~Flag(flags, 4) /\ ReadWill(flags, s) = Got(<<>>, s)
      \/ Flag(flags, 4) /\ o.ok /\ l.ok /\ ReadWill(flags, s) = Got(p, l.rest)
  BY <1>1, <1>2, OutcomeFacts
<1> QED BY <1>3 DEF o, l, p

\* What CONNECT is read from in front of the will.
ConnectKinds == <<"text", "byte", "byte", "two", "properties", "text">>

\* and CONNECT, of the parts above.
LEMMA ConnectUnfolds ==
  ASSUME NEW w, ReadConnect(w).ok
  PROVE  LET o == ReadAll(ConnectKinds, w.body)
             l == ReadWill(o.v[3], o.rest)
             m == ReadLogin(o.v[3], l.rest)
         IN  /\ o.ok /\ l.ok /\ m.ok
             /\ ReadConnect(w).v
                  = [type |-> w.type, protocol_name |-> MQTT, protocol_version |-> 5,
                     clean_start |-> Flag(o.v[3], 2), keepalive |-> o.v[4],
                     client_id |-> o.v[6]] ++ o.v[5] ++ l.v ++ m.v
<1> DEFINE o == ReadAll(ConnectKinds, w.body)
           l == ReadWill(o.v[3], o.rest)
           m == ReadLogin(o.v[3], l.rest)
           p == [type |-> w.type, protocol_name |-> MQTT, protocol_version |-> 5,
                     clean_start |-> Flag(o.v[3], 2), keepalive |-> o.v[4],
                     client_id |-> o.v[6]] ++ o.v[5] ++ l.v ++ m.v
<1>1. \/ ReadConnect(w) = Refused
      \/ o.ok /\ l.ok /\ m.ok /\ ReadConnect(w) = Got(p, <<>>)
  BY DEF ReadConnect, Packet, Then, ConnectKinds
<1> HIDE DEF o, l, m, p
<1>2. o.ok /\ l.ok /\ m.ok /\ ReadConnect(w).v = p
  BY <1>1, OutcomeFacts
<1> QED BY <1>2 DEF o, l, m, p

\* Which of them reads a packet.
LEMMA ReaderOf ==
  ASSUME NEW w, w.type \in 0..15, NEW choice
  PROVE  /\ w.type = 1 => DeserializePacket(w, choice) = ReadConnect(w)
         /\ w.type = 2 => DeserializePacket(w, choice) = ReadConnAck(w)
         /\ w.type = 3 => DeserializePacket(w, choice) = ReadPublish(w, choice)
         /\ w.type \in 4..7 => DeserializePacket(w, choice) = ReadAck(w)
         /\ w.type \in 8..11 => DeserializePacket(w, choice) = ReadList(w)
         /\ w.type \in {14, 15} => DeserializePacket(w, choice) = ReadEnd(w)
         /\ w.type \in {12, 13} => DeserializePacket(w, choice) = Got([type |-> w.type], <<>>)
         /\ w.type = 0 => DeserializePacket(w, choice) = Refused
<1>1. /\ IsAck(w.type) <=> w.type \in 4..7
      /\ IsList(w.type) <=> w.type \in 8..11
      /\ IsEnd(w.type) <=> w.type \in {14, 15}
  BY TypeFacts DEF IsAck, IsList, IsEnd
<1>2. CASE w.type \in 0..3
  <2>1. w.type = 0 \/ w.type = 1 \/ w.type = 2 \/ w.type = 3
    BY <1>2
  <2>2. ~IsAck(w.type) /\ ~IsList(w.type) /\ ~IsEnd(w.type)
    BY <1>1, <2>1
  <2>3. w.type = 0 => DeserializePacket(w, choice) = Refused
    BY <2>2, TypeFacts DEF DeserializePacket
  <2>4. w.type = 1 => DeserializePacket(w, choice) = ReadConnect(w)
    BY <2>2, TypeFacts DEF DeserializePacket
  <2>5. w.type = 2 => DeserializePacket(w, choice) = ReadConnAck(w)
    BY <2>2, TypeFacts DEF DeserializePacket
  <2>6. w.type = 3 => DeserializePacket(w, choice) = ReadPublish(w, choice)
    BY <2>2, TypeFacts DEF DeserializePacket
  <2> QED BY <2>1, <2>3, <2>4, <2>5, <2>6
<1>3. CASE w.type \in 4..7
  <2>1. IsAck(w.type) /\ ~IsList(w.type) /\ ~IsEnd(w.type) /\ w.type \notin {0, 1, 2, 3, 12, 13}
    BY <1>1, <1>3
  <2>2. DeserializePacket(w, choice) = ReadAck(w)
    BY <2>1, TypeFacts DEF DeserializePacket
  <2> QED BY <1>3, <2>2
<1>4. CASE w.type \in 8..11
  <2>1. IsList(w.type) /\ ~IsAck(w.type) /\ ~IsEnd(w.type) /\ w.type \notin {0, 1, 2, 3, 12, 13}
    BY <1>1, <1>4
  <2>2. DeserializePacket(w, choice) = ReadList(w)
    BY <2>1, TypeFacts DEF DeserializePacket
  <2> QED BY <1>4, <2>2
<1>5. CASE w.type \in {14, 15}
  <2>1. IsEnd(w.type) /\ ~IsAck(w.type) /\ ~IsList(w.type) /\ w.type \notin {0, 1, 2, 3, 12, 13}
    BY <1>1, <1>5
  <2>2. DeserializePacket(w, choice) = ReadEnd(w)
    BY <2>1, TypeFacts DEF DeserializePacket
  <2> QED BY <1>5, <2>2
<1>6. CASE w.type \in {12, 13}
  <2>1. ~IsAck(w.type) /\ ~IsList(w.type) /\ ~IsEnd(w.type) /\ w.type \notin {0, 1, 2, 3}
    BY <1>1, <1>6
  <2>2. DeserializePacket(w, choice) = Packet([type |-> w.type])
    BY <1>6, <2>1, TypeFacts DEF DeserializePacket
  <2> QED BY <1>6, <2>2 DEF Packet
<1> QED BY <1>2, <1>3, <1>4, <1>5, <1>6

\* The beginning of a packet, and more fields of it.
Begun(f) == "type" \in DOMAIN f /\ f.type \in 1..15 /\ Fits(f.type, f)

\* The fields that come first stay.
LEMMA TypeStays ==
  ASSUME NEW f, NEW g, "type" \in DOMAIN f
  PROVE  "type" \in DOMAIN (f ++ g) /\ (f ++ g).type = f.type
BY DEF ++

\* A packet that is begun, with more fields.
LEMMA BegunMore ==
  ASSUME NEW f, NEW g, Begun(f), Fits(f.type, g)
  PROVE  Begun(f ++ g) /\ (f ++ g).type = f.type
<1>1. Fits(f.type, f ++ g)
  BY FitsTogether DEF Begun
<1>2. "type" \in DOMAIN (f ++ g) /\ (f ++ g).type = f.type
  BY TypeStays DEF Begun
<1> QED BY <1>1, <1>2 DEF Begun

\* A packet that is begun is one when nothing it requires is missing.
LEMMA BegunPacket ==
  ASSUME NEW p, Begun(p), RequiredFields(p.type) \subseteq DOMAIN p
  PROVE  IsPacket(p)
BY FitsPacket DEF Begun

\* No fields.
LEMMA NothingFits ==
  ASSUME NEW type
  PROVE  Fits(type, <<>>)
BY DEF Fits, HoldFields

\* The numbers in the flags.
LEMMA FlagFacts ==
  ASSUME NEW flags \in Nat, NEW n \in Nat \ {0}
  PROVE  QoSOf(flags, n) \in 0..3 /\ Flag(flags, n) \in BOOLEAN
<1> DEFINE d == flags \div n
<1>1. d \in Nat
  BY DivMod
<1> HIDE DEF d
<1>2. d % 4 \in 0..3
  BY <1>1
<1> QED BY <1>2 DEF QoSOf, Flag, d
-----------------------------------------------------------------------------
(* What is read is a packet.                                               *)

\* What each function of deserialize.ts returns is a packet: CONNACK,
LEMMA ConnAckRead ==
  ASSUME NEW w, w.type = Type.ConnAck, w.body \in Octets, ReadConnAck(w).ok
  PROVE  IsPacket(ReadConnAck(w).v)
<1> DEFINE o == ReadAll(ConnAckKinds, w.body)
           r == [type |-> w.type, session_present |-> o.v[1], connect_reason_code |-> o.v[2]]
           p == ReadConnAck(w).v
<1>1. o.ok /\ p = r ++ o.v[3]
  BY ConnAckUnfolds
<1>2. Len(ConnAckKinds) = 3 /\ \A i \in 1..3 : ConnAckKinds[i] \in AllKinds
  BY DEF ConnAckKinds, AllKinds, Kinds
<1>3. \A i \in 1..3 : OfKind(ConnAckKinds[i], o.v[i])
  BY <1>1, <1>2, AllRead
<1> DEFINE a == o.v[1]
           b == o.v[2]
           c == o.v[3]
<1>5. a \in BOOLEAN /\ b \in 0..255 /\ IsPart(c)
  BY <1>3, KindHolds DEF ConnAckKinds
<1> HIDE DEF a, b, c
<1>6. r = [type |-> 2, session_present |-> a, connect_reason_code |-> b]
  BY TypeFacts DEF a, b
<1> HIDE DEF o, p, r
<1>7. /\ DOMAIN r = {"type", "session_present", "connect_reason_code"}
      /\ r.type = 2 /\ r.session_present = a /\ r.connect_reason_code = b
  BY <1>6
<1>8. /\ OptionalFields(2) = {"session_present", "connect_reason_code", "properties"}
      /\ RequiredFields(2) = {"type"}
  BY TypeFacts DEF OptionalFields, RequiredFields
<1>9. Fits(2, r)
  BY <1>5, <1>7, <1>8 DEF Fits, HoldFields
<1>10. Fits(2, c)
  BY <1>5, <1>8, PartFits, TypeFacts
<1>11. Begun(r)
  BY <1>7, <1>9 DEF Begun
<1>12. p = r ++ c
  BY <1>1 DEF c
<1>13. Begun(p) /\ p.type = 2
  BY <1>7, <1>10, <1>11, <1>12, BegunMore
<1>14. "type" \in DOMAIN p
  BY <1>13 DEF Begun
<1>15. IsPacket(p)
  BY <1>8, <1>13, <1>14, BegunPacket
<1> QED BY <1>15 DEF p

\* The payload is the rest, as it is or decoded.
LEMMA PayloadRead ==
  ASSUME NEW s \in Octets, NEW part, NEW choice
  PROVE  \/ ReadPayload(s, part, choice) = <<>>
         \/ \E kind \in {"text", "binary"}, v \in Octets :
              ReadPayload(s, part, choice) = [payload |-> <<kind, v>>]
<1>1. DecodedText(s) \in Octets
  BY DecodedOctets
<1> QED BY <1>1 DEF ReadPayload

\* PUBLISH,
LEMMA PublishRead ==
  ASSUME NEW w, w.type = Type.Publish, w.flags \in 0..15, w.body \in Octets,
         NEW choice, ReadPublish(w, choice).ok
  PROVE  IsPacket(ReadPublish(w, choice).v)
<1> DEFINE kinds == PublishKinds(w)
           n == Len(kinds)
           qos == QoSOf(w.flags, 2)
           o == ReadAll(kinds, w.body)
           p == ReadPublish(w, choice).v
           part == Last(o.v)
           load == ReadPayload(o.rest, part, choice)
<1>1. o.ok /\ p = PublishHead(w, o.v) ++ part ++ load
  BY PublishUnfolds
<1>2. /\ qos # 0 => kinds = <<"topic", "two", "properties">> /\ n = 3
      /\ qos = 0 => kinds = <<"topic", "properties">> /\ n = 2
  BY DEF PublishKinds
<1>3. \A i \in 1..n : kinds[i] \in AllKinds
  <2> HIDE DEF kinds, n, qos
  <2> QED BY <1>2 DEF AllKinds, Kinds
<1>4. n \in Nat
  <2> HIDE DEF kinds, n, qos
  <2> QED BY <1>2
<1>5. o.rest \in Octets /\ Len(o.v) = n /\ \A i \in 1..n : OfKind(kinds[i], o.v[i])
  BY <1>1, <1>3, <1>4, AllRead
<1> DEFINE a == o.v[1]
           b == o.v[2]
<1>6. part = o.v[n]
  BY <1>5 DEF Last
<1>7. qos \in 0..3
  BY FlagFacts
<1> HIDE DEF kinds, n, qos, o, p, part, load
<1>8. a \in Octets /\ IsPart(part)
  BY <1>2, <1>5, <1>6, KindHolds
<1>9. qos # 0 => b \in Nat /\ b < 65536
  BY <1>2, <1>5, KindHolds
<1>10. load = <<>> \/ \E kind \in {"text", "binary"}, v \in Octets : load = [payload |-> <<kind, v>>]
  BY <1>5, PayloadRead DEF load
<1> DEFINE r1 == [type |-> 3, topic |-> a]
           r2 == IF Flag(w.flags, 8) THEN [dup |-> TRUE] ELSE <<>>
           r3 == IF Flag(w.flags, 1) THEN [retain |-> TRUE] ELSE <<>>
           r4 == IF qos # 0 THEN [qos |-> qos, packet_identifier |-> b] ELSE <<>>
<1>11. PublishHead(w, o.v) = r1 ++ r2 ++ r3 ++ r4
  BY TypeFacts DEF PublishHead, qos
<1> HIDE DEF a, b
<1>12. /\ OptionalFields(3) = {"packet_identifier", "dup", "qos", "retain", "payload", "properties"}
       /\ RequiredFields(3) = {"type", "topic"}
  BY TypeFacts DEF OptionalFields, RequiredFields
<1>13. Fits(3, r1)
  <2>1. DOMAIN r1 = {"type", "topic"} /\ r1.topic = a
    OBVIOUS
  <2> HIDE DEF r1
  <2> QED BY <1>8, <1>12, <2>1 DEF Fits, HoldFields, a
<1>14. Fits(3, r2)
  <2>1. CASE Flag(w.flags, 8)
    <3>1. DOMAIN r2 = {"dup"} /\ r2.dup \in BOOLEAN
      BY <2>1
    <3> HIDE DEF r2
    <3>2. HoldFields(r2)
      BY <3>1 DEF HoldFields
    <3> QED BY <1>12, <3>1, <3>2 DEF Fits
  <2> QED BY <2>1, NothingFits
<1>15. Fits(3, r3)
  <2>1. CASE Flag(w.flags, 1)
    <3>1. DOMAIN r3 = {"retain"} /\ r3.retain \in BOOLEAN
      BY <2>1
    <3> HIDE DEF r3
    <3>2. HoldFields(r3)
      BY <3>1 DEF HoldFields
    <3> QED BY <1>12, <3>1, <3>2 DEF Fits
  <2> QED BY <2>1, NothingFits
<1>16. Fits(3, r4)
  <2>1. CASE qos # 0
    <3>1. DOMAIN r4 = {"qos", "packet_identifier"} /\ r4.qos = qos /\ r4.packet_identifier = b
      BY <2>1
    <3>2. b \in Nat /\ b < 65536
      BY <1>9, <2>1 DEF b
    <3> HIDE DEF r4
    <3> QED BY <1>7, <1>12, <3>1, <3>2 DEF Fits, HoldFields
  <2> QED BY <2>1, NothingFits
<1>17. Fits(3, part)
  BY <1>8, <1>12, PartFits, TypeFacts
<1>18. Fits(3, load)
  <2>1. CASE load # <<>>
    <3>1. PICK kind \in {"text", "binary"}, v \in Octets : load = [payload |-> <<kind, v>>]
      BY <1>10, <2>1
    <3>2. DOMAIN load = {"payload"} /\ load.payload = <<kind, v>>
      BY <3>1
    <3>3. /\ load.payload = <<load.payload[1], load.payload[2]>>
          /\ load.payload[1] \in {"text", "binary"} /\ load.payload[2] \in Octets
      BY <3>2
    <3> QED BY <1>12, <3>2, <3>3 DEF Fits, HoldFields
  <2> QED BY <2>1, NothingFits
<1>19. Begun(r1) /\ r1.type = 3 /\ {"type", "topic"} \subseteq DOMAIN r1
  BY <1>13 DEF Begun
<1> HIDE DEF r1, r2, r3, r4
<1>20. Begun(r1 ++ r2) /\ (r1 ++ r2).type = 3
  BY <1>14, <1>19, BegunMore
<1>21. Begun(r1 ++ r2 ++ r3) /\ (r1 ++ r2 ++ r3).type = 3
  BY <1>15, <1>20, BegunMore
<1>22. Begun(r1 ++ r2 ++ r3 ++ r4) /\ (r1 ++ r2 ++ r3 ++ r4).type = 3
  BY <1>16, <1>21, BegunMore
<1>23. Begun(r1 ++ r2 ++ r3 ++ r4 ++ part) /\ (r1 ++ r2 ++ r3 ++ r4 ++ part).type = 3
  BY <1>17, <1>22, BegunMore
<1>24. Begun(p) /\ p.type = 3
  BY <1>1, <1>11, <1>18, <1>23, BegunMore
<1>25. {"type", "topic"} \subseteq DOMAIN p
  BY <1>1, <1>11, <1>19 DEF ++
<1>26. IsPacket(p)
  BY <1>12, <1>24, <1>25, BegunPacket
<1> QED BY <1>26 DEF p

\* Two octets, then the rest.
LEMMA TwoRead ==
  ASSUME NEW s \in Octets, ReadUint(s, 2).ok
  PROVE  /\ ReadUint(s, 2).v \in Nat /\ ReadUint(s, 2).v < 65536
         /\ ReadUint(s, 2).rest \in Octets
<1>1. 2 \in Nat
  OBVIOUS
<1> QED BY <1>1, UintRead

\* a reason code and properties behind the fields so far,
LEMMA ReasonRead ==
  ASSUME NEW head, Begun(head), RequiredFields(head.type) \subseteq DOMAIN head,
         {"reason_code", "properties"} \subseteq OptionalFields(head.type),
         head.type # Type.Subscribe, NEW s \in Octets, ReadReason(head, s).ok
  PROVE  IsPacket(ReadReason(head, s).v)
<1> DEFINE p == ReadReason(head, s).v
           o == ReadAll(ReasonKinds, s)
           r == [reason_code |-> o.v[1]]
           part == o.v[2]
<1>1. p = head \/ (o.ok /\ p = head ++ r ++ part)
  BY ReasonUnfolds
<1>2. CASE p = head
  BY <1>2, BegunPacket
<1>3. CASE o.ok /\ p = head ++ r ++ part
  <2>1. Len(ReasonKinds) = 2 /\ \A i \in 1..2 : ReasonKinds[i] \in AllKinds
    BY DEF ReasonKinds, AllKinds, Kinds
  <2>2. \A i \in 1..2 : OfKind(ReasonKinds[i], o.v[i])
    BY <1>3, <2>1, AllRead
  <2>3. o.v[1] \in 0..255 /\ IsPart(part)
    BY <2>2, KindHolds DEF ReasonKinds
  <2>4. DOMAIN r = {"reason_code"} /\ r.reason_code \in 0..255
    BY <2>3
  <2> HIDE DEF o, r, p, part
  <2>5. HoldFields(r)
    BY <2>4 DEF HoldFields
  <2>6. Fits(head.type, r)
    BY <2>4, <2>5 DEF Fits
  <2>7. Fits(head.type, part)
    BY <2>3, PartFits
  <2>8. Begun(head ++ r) /\ (head ++ r).type = head.type
    BY <2>6, BegunMore
  <2>9. Begun(p) /\ p.type = head.type
    BY <1>3, <2>7, <2>8, BegunMore
  <2>10. DOMAIN head \subseteq DOMAIN p
    BY <1>3 DEF ++
  <2>11. RequiredFields(p.type) \subseteq DOMAIN p
    BY <2>9, <2>10
  <2>12. IsPacket(p)
    BY <2>9, <2>11, BegunPacket
  <2> QED BY <2>12 DEF p
<1> QED BY <1>1, <1>2, <1>3

\* PUBACK, PUBREC, PUBREL and PUBCOMP,
LEMMA AckRead ==
  ASSUME NEW w, IsAck(w.type), w.body \in Octets, ReadAck(w).ok
  PROVE  IsPacket(ReadAck(w).v)
<1> DEFINE o == ReadUint(w.body, 2)
           r == [type |-> w.type, packet_identifier |-> o.v]
<1>1. o.ok /\ ReadAck(w) = ReadReason(r, o.rest)
  BY AckUnfolds
<1>2. o.v \in Nat /\ o.v < 65536 /\ o.rest \in Octets
  BY <1>1, TwoRead
<1>3. /\ DOMAIN r = {"type", "packet_identifier"} /\ r.type = w.type
      /\ r.packet_identifier \in Nat /\ r.packet_identifier < 65536
  BY <1>2
<1> HIDE DEF o, r
<1>4. w.type \in 4..7
  BY TypeFacts DEF IsAck
<1>5. /\ RequiredFields(w.type) = {"type", "packet_identifier"}
      /\ OptionalFields(w.type) = {"reason_code", "properties"}
  BY <1>4, TypeFacts DEF RequiredFields, OptionalFields
<1>6. HoldFields(r)
  BY <1>3 DEF HoldFields
<1>7. Begun(r)
  BY <1>3, <1>4, <1>5, <1>6 DEF Begun, Fits
<1>8. r.type # Type.Subscribe
  BY <1>3, <1>4, TypeFacts
<1> QED BY <1>1, <1>2, <1>3, <1>5, <1>7, <1>8, ReasonRead

\* DISCONNECT and AUTH,
LEMMA EndRead ==
  ASSUME NEW w, IsEnd(w.type), w.body \in Octets, ReadEnd(w).ok
  PROVE  IsPacket(ReadEnd(w).v)
<1> DEFINE r == [type |-> w.type]
<1>1. ReadEnd(w) = ReadReason(r, w.body)
  BY DEF ReadEnd
<1>2. DOMAIN r = {"type"} /\ r.type = w.type
  OBVIOUS
<1> HIDE DEF r
<1>3. w.type \in {14, 15}
  BY TypeFacts DEF IsEnd
<1>4. /\ RequiredFields(w.type) = {"type"}
      /\ OptionalFields(w.type) = {"reason_code", "properties"}
  BY <1>3, TypeFacts DEF RequiredFields, OptionalFields
<1>5. HoldFields(r)
  BY <1>2 DEF HoldFields
<1>6. Begun(r)
  BY <1>2, <1>3, <1>4, <1>5 DEF Begun, Fits
<1>7. r.type # Type.Subscribe
  BY <1>2, <1>3, TypeFacts
<1> QED BY <1>1, <1>2, <1>4, <1>6, <1>7, ReasonRead

\* a subscription from its topic and its flags,
LEMMA SubscriptionRead ==
  ASSUME NEW topic \in Octets, NEW flags \in 0..255
  PROVE  IsSubscription(SubscriptionOf(topic, flags))
<1> DEFINE qos == QoSOf(flags, 1)
           handling == flags \div 16
           r1 == [topic |-> topic]
           r2 == IF qos # 0 THEN [qos |-> qos] ELSE <<>>
           r3 == IF Flag(flags, 4) THEN [no_local |-> TRUE] ELSE <<>>
           r4 == IF Flag(flags, 8) THEN [retain_as_published |-> TRUE] ELSE <<>>
           r5 == IF handling # 0 THEN [retain_handling |-> handling] ELSE <<>>
<1>1. SubscriptionOf(topic, flags) = r1 ++ r2 ++ r3 ++ r4 ++ r5
  BY DEF SubscriptionOf
<1>2. qos \in 0..3
  BY FlagFacts
<1>3. handling \in 0..15
  OBVIOUS
<1> HIDE DEF qos, handling
<1>4. HoldFields(<<>>)
  BY DEF HoldFields
<1>5. HoldFields(r1) /\ DOMAIN r1 = {"topic"}
  <2>1. DOMAIN r1 = {"topic"} /\ r1.topic \in Octets
    OBVIOUS
  <2> HIDE DEF r1
  <2> QED BY <2>1 DEF HoldFields
<1>6. HoldFields(r2) /\ DOMAIN r2 \subseteq {"qos"}
  <2>1. CASE qos # 0
    <3>1. DOMAIN r2 = {"qos"} /\ r2.qos \in 0..3
      BY <1>2, <2>1
    <3> HIDE DEF r2
    <3> QED BY <3>1 DEF HoldFields
  <2> QED BY <1>4, <2>1
<1>7. HoldFields(r3) /\ DOMAIN r3 \subseteq {"no_local"}
  <2>1. CASE Flag(flags, 4)
    <3>1. DOMAIN r3 = {"no_local"} /\ r3.no_local \in BOOLEAN
      BY <2>1
    <3> HIDE DEF r3
    <3> QED BY <3>1 DEF HoldFields
  <2> QED BY <1>4, <2>1
<1>8. HoldFields(r4) /\ DOMAIN r4 \subseteq {"retain_as_published"}
  <2>1. CASE Flag(flags, 8)
    <3>1. DOMAIN r4 = {"retain_as_published"} /\ r4.retain_as_published \in BOOLEAN
      BY <2>1
    <3> HIDE DEF r4
    <3> QED BY <3>1 DEF HoldFields
  <2> QED BY <1>4, <2>1
<1>9. HoldFields(r5) /\ DOMAIN r5 \subseteq {"retain_handling"}
  <2>1. CASE handling # 0
    <3>1. DOMAIN r5 = {"retain_handling"} /\ r5.retain_handling \in 0..15
      BY <1>3, <2>1
    <3> HIDE DEF r5
    <3> QED BY <3>1 DEF HoldFields
  <2> QED BY <1>4, <2>1
<1> HIDE DEF r1, r2, r3, r4, r5
<1>10. HoldFields(r1 ++ r2)
  BY <1>5, <1>6, SameFieldsHold
<1>11. HoldFields(r1 ++ r2 ++ r3)
  BY <1>10, <1>7, SameFieldsHold
<1>12. HoldFields(r1 ++ r2 ++ r3 ++ r4)
  BY <1>11, <1>8, SameFieldsHold
<1>13. HoldFields(r1 ++ r2 ++ r3 ++ r4 ++ r5)
  BY <1>12, <1>9, SameFieldsHold
<1>14. DOMAIN (r1 ++ r2 ++ r3 ++ r4 ++ r5)
         = DOMAIN r1 \cup DOMAIN r2 \cup DOMAIN r3 \cup DOMAIN r4 \cup DOMAIN r5
  BY DEF ++
<1> DEFINE s == r1 ++ r2 ++ r3 ++ r4 ++ r5
<1>15. HoldFields(s) /\ {"topic"} \subseteq DOMAIN s
       /\ DOMAIN s \subseteq {"topic"} \cup {"qos", "no_local", "retain_as_published",
                                             "retain_handling"}
  BY <1>5, <1>6, <1>7, <1>8, <1>9, <1>13, <1>14
<1> HIDE DEF s
<1>16. IsSubscription(s)
  BY <1>15 DEF IsSubscription, HasFields
<1> QED BY <1>1, <1>16 DEF s

\* the properties of a SUBSCRIBE, with the first identifier alone,
LEMMA SubscribePart ==
  ASSUME NEW part, IsPart(part)
  PROVE  Fits(Type.Subscribe, SubscribeProperties(part))
<1> DEFINE given == Given(part)
           names == DOMAIN given \cap {"subscription_identifier", "user_properties"}
           props == [n \in names |-> IF n = "user_properties" THEN given[n] ELSE given[n][1]]
           q == SubscribeProperties(part)
<1>1. q = IF names = {} THEN <<>> ELSE [properties |-> props]
  BY DEF SubscribeProperties
<1>2. PropertiesRead(given)
  <2>1. CASE part = <<>>
    <3>1. given = <<>>
      BY <2>1 DEF Given, Optional
    <3> QED BY <3>1, NoProperties DEF PropertiesRead
  <2>2. CASE part # <<>>
    <3>1. PICK x : part = [properties |-> x] /\ PropertiesRead(x)
      BY <2>2 DEF IsPart
    <3>2. given = x
      BY <3>1 DEF Given, Optional
    <3> QED BY <3>1, <3>2
  <2> QED BY <2>1, <2>2
<1> HIDE DEF given, names
<1>3. ASSUME NEW n \in names PROVE HoldsProperty(Type.Subscribe, n, props[n])
  <2>1. /\ n \in DOMAIN given /\ n \in {"subscription_identifier", "user_properties"}
        /\ HoldsProperty(Type.Connect, n, given[n])
    BY <1>2 DEF names, PropertiesRead, IsProperties
  <2>2. Type.Connect # Type.Subscribe
    BY DEF Type
  <2>3. CASE n = "user_properties"
    <3>1. props[n] = given[n]
      BY <2>3
    <3> HIDE DEF props
    <3> QED BY <2>1, <2>3, <3>1 DEF HoldsProperty
  <2>4. CASE n = "subscription_identifier"
    <3>1. props[n] = given[n][1]
      BY <2>4
    <3> HIDE DEF props
    <3>2. Repeated(n)
      BY <2>4 DEF Repeated, Kind, Property
    <3>3. IsArray(given[n]) /\ Len(given[n]) > 0 /\ \A i \in 1..Len(given[n]) : Holds(Kind(n), given[n][i])
      BY <1>2, <2>1, <2>2, <2>4, <3>2 DEF HoldsProperty, PropertiesRead
    <3>4. 1 \in 1..Len(given[n])
      BY <3>3 DEF IsArray
    <3>5. Holds(Kind(n), given[n][1])
      BY <3>3, <3>4
    <3> QED BY <2>4, <3>1, <3>5 DEF HoldsProperty
  <2> QED BY <2>1, <2>3, <2>4
<1>4. DOMAIN props \subseteq DOMAIN Property
  <2>1. DOMAIN props = names
    OBVIOUS
  <2> QED BY <1>2, <2>1 DEF names, PropertiesRead, IsProperties
<1>5. IsProperties(Type.Subscribe, props)
  <2>1. DOMAIN props = names
    OBVIOUS
  <2> HIDE DEF props
  <2> QED BY <1>3, <1>4, <2>1 DEF IsProperties
<1> HIDE DEF props, q
<1>6. CASE names = {}
  BY <1>1, <1>6, NothingFits DEF q
<1>7. CASE names # {}
  <2>1. DOMAIN q = {"properties"} /\ q.properties = props
    BY <1>1, <1>7
  <2>2. "properties" \in OptionalFields(Type.Subscribe)
    BY TypeFacts DEF OptionalFields
  <2>3. HoldFields(q)
    BY <2>1 DEF HoldFields
  <2>4. Fits(Type.Subscribe, q)
    BY <1>5, <2>1, <2>2, <2>3 DEF Fits
  <2> QED BY <2>4 DEF q
<1> QED BY <1>6, <1>7

\* An entry as it is read.
LEMMA EntryRead ==
  ASSUME NEW type \in 8..11, NEW v, IsEntry(ListOf(type)[2], v)
  PROVE  /\ type = 8 => IsSubscription(Entry(type, v))
         /\ type = 10 => Entry(type, v) \in Octets
         /\ type \in {9, 11} => Entry(type, v) \in 0..255
<1>1. CASE type = 8
  <2>1. ListOf(type)[2] = <<"filter", "byte">>
    BY <1>1, TypeFacts DEF ListOf
  <2>2. Holds("filter", v[1]) /\ Holds("byte", v[2])
    BY <2>1 DEF IsEntry
  <2>3. v[1] \in Octets /\ v[2] \in 0..255
    BY <2>2 DEF Holds
  <2>4. Entry(type, v) = SubscriptionOf(v[1], v[2])
    BY <1>1, TypeFacts DEF Entry
  <2> QED BY <1>1, <2>3, <2>4, SubscriptionRead
<1>2. CASE type = 10
  <2>1. ListOf(type)[2] = <<"filter">>
    BY <1>2, TypeFacts DEF ListOf
  <2>2. Holds("filter", v[1])
    BY <2>1 DEF IsEntry
  <2>3. v[1] \in Octets
    BY <2>2 DEF Holds
  <2>4. Entry(type, v) = v[1]
    BY <1>2, TypeFacts DEF Entry
  <2> QED BY <1>2, <2>3, <2>4
<1>3. CASE type \in {9, 11}
  <2>1. ListOf(type)[2] = <<"byte">>
    BY <1>3, TypeFacts DEF ListOf
  <2>2. Holds("byte", v[1])
    BY <2>1 DEF IsEntry
  <2>3. v[1] \in 0..255
    BY <2>2 DEF Holds
  <2>4. Entry(type, v) = v[1]
    BY <1>3, TypeFacts DEF Entry
  <2> QED BY <1>3, <2>3, <2>4
<1> QED BY <1>1, <1>2, <1>3

\* the kinds of the entries and the name of the list,
LEMMA ListKinds ==
  ASSUME NEW type \in 8..11
  PROVE  /\ IsEntryKinds(ListOf(type)[2])
         /\ ListOf(type)[1] = CASE type = 8 -> "subscriptions" [] type = 10 -> "topic_filters"
                                [] OTHER -> "reason_codes"
         /\ RequiredFields(type) = {"type", "packet_identifier", ListOf(type)[1]}
         /\ OptionalFields(type) = {"properties"}
<1>1. CASE type = 8
  BY <1>1, TypeFacts DEF ListOf, IsEntryKinds, Kinds, RequiredFields, OptionalFields
<1>2. CASE type = 10
  BY <1>2, TypeFacts DEF ListOf, IsEntryKinds, Kinds, RequiredFields, OptionalFields
<1>3. CASE type \in {9, 11}
  BY <1>3, TypeFacts DEF ListOf, IsEntryKinds, Kinds, RequiredFields, OptionalFields
<1> QED BY <1>1, <1>2, <1>3

\* the list of the entries,
LEMMA EntriesFit ==
  ASSUME NEW type \in 8..11, NEW items, IsArray(items),
         \A i \in 1..Len(items) : IsEntry(ListOf(type)[2], items[i])
  PROVE  LET r == Single(ListOf(type)[1], [i \in 1..Len(items) |-> Entry(type, items[i])])
         IN  Fits(type, r) /\ DOMAIN r = {ListOf(type)[1]}
<1> DEFINE name == ListOf(type)[1]
           n == Len(items)
           vs == [i \in 1..n |-> Entry(type, items[i])]
           r == Single(name, vs)
<1>1. n \in Nat
  BY DEF IsArray
<1>2. \A i \in 1..n : vs[i] = Entry(type, items[i])
  OBVIOUS
<1>3. Len(vs) = n /\ vs = [i \in 1..n |-> vs[i]]
  <2> DEFINE S == {Entry(type, items[i]) : i \in 1..n}
  <2>1. vs \in [1..n -> S]
    OBVIOUS
  <2>2. vs = [i \in 1..n |-> vs[i]]
    OBVIOUS
  <2> HIDE DEF vs, S, n
  <2> QED BY <1>1, <2>1, <2>2, IsSequence, ZenonT(30)
<1> HIDE DEF vs, n
<1>4. IsArray(vs)
  BY <1>1, <1>3 DEF IsArray
<1>5. \A i \in 1..n : /\ type = 8 => IsSubscription(vs[i])
                      /\ type = 10 => vs[i] \in Octets
                      /\ type \in {9, 11} => vs[i] \in 0..255
  <2> SUFFICES ASSUME NEW i \in 1..n
               PROVE  /\ type = 8 => IsSubscription(vs[i])
                      /\ type = 10 => vs[i] \in Octets
                      /\ type \in {9, 11} => vs[i] \in 0..255
    OBVIOUS
  <2> DEFINE item == items[i]
  <2>1. vs[i] = Entry(type, item) /\ IsEntry(ListOf(type)[2], item)
    BY <1>2 DEF n
  <2> HIDE DEF item
  <2>2. type = 8 => IsSubscription(Entry(type, item))
    BY <2>1, EntryRead
  <2>3. type = 10 => Entry(type, item) \in Octets
    BY <2>1, EntryRead
  <2>4. type \in {9, 11} => Entry(type, item) \in 0..255
    BY <2>1, EntryRead
  <2> DEFINE x == Entry(type, item)
  <2> HIDE DEF x
  <2> QED BY <2>1, <2>2, <2>3, <2>4 DEF x
<1>6. /\ name = CASE type = 8 -> "subscriptions" [] type = 10 -> "topic_filters"
                  [] OTHER -> "reason_codes"
      /\ RequiredFields(type) = {"type", "packet_identifier", name}
  BY ListKinds
<1> HIDE DEF name
<1>7. DOMAIN r = {name} /\ r[name] = vs
  BY DEF Single
<1> HIDE DEF r
<1>8. name \in {"subscriptions", "topic_filters", "reason_codes"}
  BY <1>6
<1>9. HoldFields(r)
  BY <1>7, <1>8 DEF HoldFields
<1>10. /\ "properties" \notin DOMAIN r /\ "will" \notin DOMAIN r
       /\ DOMAIN r \subseteq RequiredFields(type)
       /\ \A x \in {"subscriptions", "topic_filters", "reason_codes"} \cap DOMAIN r : IsArray(r[x])
  BY <1>4, <1>6, <1>7, <1>8
<1>11. "subscriptions" \in DOMAIN r =>
         \A i \in 1..Len(r.subscriptions) : IsSubscription(r.subscriptions[i])
  <2> SUFFICES ASSUME "subscriptions" \in DOMAIN r
               PROVE  \A i \in 1..Len(r.subscriptions) : IsSubscription(r.subscriptions[i])
    OBVIOUS
  <2>1. type = 8 /\ r.subscriptions = vs
    BY <1>6, <1>7
  <2> QED BY <1>3, <1>5, <2>1
<1>12. "topic_filters" \in DOMAIN r =>
         \A i \in 1..Len(r.topic_filters) : r.topic_filters[i] \in Octets
  <2> SUFFICES ASSUME "topic_filters" \in DOMAIN r
               PROVE  \A i \in 1..Len(r.topic_filters) : r.topic_filters[i] \in Octets
    OBVIOUS
  <2>1. type = 10 /\ r.topic_filters = vs
    BY <1>6, <1>7
  <2> QED BY <1>3, <1>5, <2>1
<1>13. "reason_codes" \in DOMAIN r =>
         \A i \in 1..Len(r.reason_codes) : r.reason_codes[i] \in 0..255
  <2> SUFFICES ASSUME "reason_codes" \in DOMAIN r
               PROVE  \A i \in 1..Len(r.reason_codes) : r.reason_codes[i] \in 0..255
    OBVIOUS
  <2>1. type \in {9, 11} /\ r.reason_codes = vs
    BY <1>6, <1>7
  <2> QED BY <1>3, <1>5, <2>1
<1>14. Fits(type, r)
  BY <1>9, <1>10, <1>11, <1>12, <1>13 DEF Fits
<1> QED BY <1>7, <1>14 DEF r, name, vs, n

\* SUBSCRIBE, SUBACK, UNSUBSCRIBE and UNSUBACK,
LEMMA ListRead ==
  ASSUME NEW w, IsList(w.type), w.body \in Octets, ReadList(w).ok
  PROVE  IsPacket(ReadList(w).v)
<1> DEFINE o == ReadAll(HeadKinds, w.body)
           l == ReadMany(ListOf(w.type)[2], o.rest)
           r1 == [type |-> w.type, packet_identifier |-> o.v[1]]
           r2 == IF w.type = Type.Subscribe THEN SubscribeProperties(o.v[2]) ELSE o.v[2]
           r3 == Single(ListOf(w.type)[1], [i \in 1..Len(l.v) |-> Entry(w.type, l.v[i])])
           p == ReadList(w).v
<1>1. o.ok /\ l.ok /\ p = r1 ++ r2 ++ r3
  BY ListUnfolds
<1>2. Len(HeadKinds) = 2 /\ \A i \in 1..2 : HeadKinds[i] \in AllKinds
  BY DEF HeadKinds, AllKinds, Kinds
<1>3. o.rest \in Octets /\ \A i \in 1..2 : OfKind(HeadKinds[i], o.v[i])
  BY <1>1, <1>2, AllRead
<1> DEFINE id == o.v[1]
           part == o.v[2]
<1>4. id \in Nat /\ id < 65536 /\ IsPart(part)
  BY <1>3, KindHolds DEF HeadKinds
<1>5. w.type \in 8..11
  BY TypeFacts DEF IsList
<1>6. IsArray(l.v) /\ \A i \in 1..Len(l.v) : IsEntry(ListOf(w.type)[2], l.v[i])
  BY <1>1, <1>3, <1>5, ListKinds, ManyRead
<1>7. Fits(w.type, r3) /\ DOMAIN r3 = {ListOf(w.type)[1]}
  <2> DEFINE items == l.v
  <2>1. IsArray(items) /\ \A i \in 1..Len(items) : IsEntry(ListOf(w.type)[2], items[i])
    BY <1>6
  <2> HIDE DEF items
  <2>2. LET r == Single(ListOf(w.type)[1], [i \in 1..Len(items) |-> Entry(w.type, items[i])])
        IN  Fits(w.type, r) /\ DOMAIN r = {ListOf(w.type)[1]}
    BY <1>5, <2>1, EntriesFit
  <2> QED BY <2>2 DEF items
<1>8. Fits(w.type, r2)
  <2>1. CASE w.type = Type.Subscribe
    BY <1>4, <2>1, SubscribePart
  <2>2. CASE w.type # Type.Subscribe
    <3>1. r2 = part /\ "properties" \in OptionalFields(w.type)
      BY <1>5, <2>2, ListKinds
    <3> HIDE DEF r2, part
    <3> QED BY <1>4, <2>2, <3>1, PartFits
  <2> QED BY <2>1, <2>2
<1>9. /\ RequiredFields(w.type) = {"type", "packet_identifier", ListOf(w.type)[1]}
      /\ OptionalFields(w.type) = {"properties"}
  BY <1>5, ListKinds
<1>10. Fits(w.type, r1) /\ r1.type = w.type /\ DOMAIN r1 = {"type", "packet_identifier"}
  <2>1. /\ DOMAIN r1 = {"type", "packet_identifier"} /\ r1.type = w.type
        /\ r1.packet_identifier \in Nat /\ r1.packet_identifier < 65536
    BY <1>4
  <2> HIDE DEF r1
  <2>2. HoldFields(r1)
    BY <2>1 DEF HoldFields
  <2> QED BY <1>9, <2>1, <2>2 DEF Fits
<1> HIDE DEF o, l, r1, r2, r3, p
<1>11. Begun(r1)
  BY <1>5, <1>10 DEF Begun
<1>12. Begun(r1 ++ r2) /\ (r1 ++ r2).type = w.type
  BY <1>8, <1>10, <1>11, BegunMore
<1>13. Begun(p) /\ p.type = w.type
  BY <1>1, <1>7, <1>12, BegunMore
<1>14. RequiredFields(p.type) \subseteq DOMAIN p
  <2>1. DOMAIN p = DOMAIN r1 \cup DOMAIN r2 \cup DOMAIN r3
    BY <1>1 DEF ++
  <2> QED BY <1>7, <1>9, <1>10, <1>13, <2>1
<1>15. IsPacket(p)
  BY <1>13, <1>14, BegunPacket
<1> QED BY <1>15 DEF p

\* The payload of a will, as text or as it is.
LEMMA WillPayloadRead ==
  ASSUME NEW s \in Octets, ReadWillPayload(s).ok
  PROVE  /\ ReadWillPayload(s).rest \in Octets
         /\ \E kind \in {"text", "binary"}, v \in Octets : ReadWillPayload(s).v = <<kind, v>>
<1> DEFINE o == ReadUTF8String(s)
           at == IF Len(s) >= 2 THEN SubSeq(s, 3, Len(s)) ELSE s
           q == ReadBinaryData(at)
           p == ReadWillPayload(s)
<1>1. p = IF o.ok THEN Got(<<"text", o.v>>, o.rest)
          ELSE IF q.ok THEN Got(<<"binary", q.v>>, q.rest) ELSE Refused
  BY DEF ReadWillPayload, Mapped, Then
<1>2. at \in Octets
  <2>1. CASE Len(s) >= 2
    <3>1. 2 \in 0..Len(s) /\ 2 + 1 = 3
      BY <2>1, OctetFacts
    <3>2. SubSeq(s, 2 + 1, Len(s)) \in Octets
      BY <3>1, RestFacts
    <3> QED BY <2>1, <3>1, <3>2
  <2> QED BY <2>1
<1> HIDE DEF at
<1>3. CASE o.ok
  <2>1. o.v \in Octets /\ o.rest \in Octets
    BY <1>3, TextRead
  <2> HIDE DEF o, p
  <2>2. p.rest \in Octets /\ p.v = <<"text", o.v>>
    BY <1>1, <1>3, <2>1, OutcomeFacts
  <2> QED BY <2>1, <2>2 DEF p
<1>4. CASE ~o.ok
  <2> HIDE DEF o
  <2>1. q.ok /\ p = Got(<<"binary", q.v>>, q.rest)
    <3> HIDE DEF q
    <3> QED BY <1>1, <1>4, OutcomeFacts
  <2>2. q.v \in Octets /\ q.rest \in Octets
    BY <1>2, <2>1, BinaryRead
  <2> HIDE DEF q, p
  <2>3. p.rest \in Octets /\ p.v = <<"binary", q.v>>
    BY <2>1, <2>2, OutcomeFacts
  <2> QED BY <2>2, <2>3 DEF p
<1> QED BY <1>3, <1>4

\* the will,
LEMMA WillRead ==
  ASSUME NEW flags \in 0..255, NEW s \in Octets, ReadWill(flags, s).ok
  PROVE  ReadWill(flags, s).rest \in Octets /\ Fits(Type.Connect, ReadWill(flags, s).v)
<1> DEFINE o == ReadAll(WillKinds, s)
           l == ReadWillPayload(o.rest)
           r == [qos |-> QoSOf(flags, 8), retain |-> Flag(flags, 32),
                 topic |-> o.v[2], payload |-> l.v]
           will == r ++ o.v[1]
           q == ReadWill(flags, s)
<1>1. \/ q = Got(<<>>, s)
      \/ o.ok /\ l.ok /\ q = Got([will |-> will], l.rest)
  BY WillUnfolds
<1>2. CASE q = Got(<<>>, s)
  <2> HIDE DEF q
  <2>1. q.v = <<>> /\ q.rest = s
    BY <1>2, OutcomeFacts
  <2> QED BY <2>1, NothingFits DEF q
<1>3. CASE o.ok /\ l.ok /\ q = Got([will |-> will], l.rest)
  <2>1. Len(WillKinds) = 2 /\ \A i \in 1..2 : WillKinds[i] \in AllKinds
    BY DEF WillKinds, AllKinds, Kinds
  <2>2. o.rest \in Octets /\ \A i \in 1..2 : OfKind(WillKinds[i], o.v[i])
    BY <1>3, <2>1, AllRead
  <2> DEFINE part == o.v[1]
             topic == o.v[2]
             qos == QoSOf(flags, 8)
             load == l.v
  <2>3. IsPart(part) /\ topic \in Octets
    BY <2>2, KindHolds DEF WillKinds
  <2>4. l.rest \in Octets /\ \E kind \in {"text", "binary"}, v \in Octets : load = <<kind, v>>
    BY <1>3, <2>2, WillPayloadRead
  <2>5. qos \in 0..3 /\ Flag(flags, 32) \in BOOLEAN
    BY FlagFacts
  <2>6. /\ DOMAIN r = {"qos", "retain", "topic", "payload"}
        /\ r.qos = qos /\ r.retain \in BOOLEAN /\ r.topic = topic /\ r.payload = load
    BY <2>5
  <2>7. /\ load = <<load[1], load[2]>> /\ load[1] \in {"text", "binary"} /\ load[2] \in Octets
    <3> HIDE DEF load
    <3> QED BY <2>4
  <2> HIDE DEF o, l, q, part, topic, qos, load, r
  <2>8. HoldFields(r)
    BY <2>3, <2>5, <2>6, <2>7 DEF HoldFields
  <2>9. Fits(Type.Connect, part)
    <3>1. Type.Connect # Type.Subscribe /\ "properties" \in OptionalFields(Type.Connect)
      BY TypeFacts DEF OptionalFields
    <3> QED BY <2>3, <3>1, PartFits
  <2>10. DOMAIN part \subseteq {"properties"}
    BY <2>3 DEF IsPart
  <2>11. HoldFields(r ++ part)
    BY <2>8, <2>9, SameFieldsHold DEF Fits
  <2>12. /\ DOMAIN (r ++ part) = DOMAIN r \cup DOMAIN part
         /\ "properties" \in DOMAIN part => (r ++ part).properties = part.properties
    BY <2>6 DEF ++
  <2>13. will = r ++ part
    BY DEF part
  <2> HIDE DEF will
  <2>14. {"topic"} \subseteq DOMAIN will
         /\ DOMAIN will \subseteq {"topic"} \cup {"qos", "retain", "payload", "properties"}
    BY <2>6, <2>10, <2>12, <2>13
  <2>15. "properties" \in DOMAIN will => IsProperties(Type.Connect, will.properties)
    <3>1. "properties" \in DOMAIN part => IsProperties(Type.Connect, part.properties)
      BY <2>9 DEF Fits
    <3> QED BY <2>6, <2>12, <2>13, <3>1
  <2>16. IsWill(will)
    BY <2>11, <2>13, <2>14, <2>15 DEF IsWill, HasFields
  <2> DEFINE f == [will |-> will]
  <2>17. DOMAIN f = {"will"} /\ f.will = will
    OBVIOUS
  <2>18. q.v = f /\ q.rest \in Octets
    BY <1>3, <2>4, OutcomeFacts
  <2> HIDE DEF f
  <2>19. HoldFields(f)
    BY <2>17 DEF HoldFields
  <2>20. "will" \in OptionalFields(Type.Connect)
    BY TypeFacts DEF OptionalFields
  <2>21. Fits(Type.Connect, f)
    BY <2>16, <2>17, <2>19, <2>20 DEF Fits
  <2> QED BY <2>18, <2>21 DEF q
<1> QED BY <1>1, <1>2, <1>3

\* the names the flags tell of,
LEMMA LoginFacts ==
  ASSUME NEW flags
  PROVE  /\ LoginNames(flags) \in Seq({"username", "password"})
         /\ ToSet(LoginNames(flags)) \subseteq {"username", "password"}
         /\ \A n \in ToSet(LoginNames(flags)) : LoginAt(flags, n) \in 1..Len(LoginNames(flags))
<1> DEFINE a == IF Flag(flags, 128) THEN <<"username">> ELSE <<>>
           b == IF Flag(flags, 64) THEN <<"password">> ELSE <<>>
           names == LoginNames(flags)
           S == {"username", "password"}
<1>1. a \in Seq(S) /\ b \in Seq(S)
  <2>1. <<>> \in Seq(S) /\ <<"username">> \in Seq(S) /\ <<"password">> \in Seq(S)
    OBVIOUS
  <2> HIDE DEF S
  <2> QED BY <2>1
<1>2. names = a \o b
  BY DEF LoginNames
<1> HIDE DEF a, b, names, S
<1>3. names \in Seq(S)
  BY <1>1, <1>2, JoinFacts
<1>4. ASSUME NEW n \in ToSet(names) PROVE \E i \in 1..Len(names) : names[i] = n
  <2>1. PICK i \in DOMAIN names : names[i] = n
    BY DEF ToSet
  <2>2. DOMAIN names = 1..Len(names)
    BY <1>3
  <2> QED BY <2>1, <2>2
<1>5. ToSet(names) \subseteq S
  BY <1>3, <1>4, ElementOf
<1>6. \A n \in ToSet(names) : LoginAt(flags, n) \in 1..Len(names)
  BY <1>4 DEF LoginAt, names
<1> QED BY <1>3, <1>5, <1>6 DEF names, S

\* as many texts as there are names,
LEMMA TextKinds ==
  ASSUME NEW n \in Nat
  PROVE  LET kinds == [i \in 1..n |-> "text"]
         IN  /\ Len(kinds) = n
             /\ \A i \in 1..n : kinds[i] = "text" /\ kinds[i] \in Kinds /\ kinds[i] \in AllKinds
<1> DEFINE kinds == [i \in 1..n |-> "text"]
<1>1. kinds \in [1..n -> {"text"}] /\ \A i \in 1..n : kinds[i] = "text"
  OBVIOUS
<1>2. "text" \in Kinds /\ "text" \in AllKinds
  BY DEF Kinds, AllKinds
<1> HIDE DEF kinds
<1>3. Len(kinds) = n
  BY <1>1, IsSequence, ZenonT(30)
<1> QED BY <1>1, <1>2, <1>3 DEF kinds

\* the user name and the password,
LEMMA LoginRead ==
  ASSUME NEW flags, NEW s \in Octets, ReadLogin(flags, s).ok
  PROVE  Fits(Type.Connect, ReadLogin(flags, s).v)
<1> DEFINE names == LoginNames(flags)
           n == Len(names)
           kinds == [i \in 1..n |-> "text"]
           o == ReadAll(kinds, s)
           q == ReadLogin(flags, s).v
<1>1. o.ok /\ q = [x \in ToSet(names) |-> o.v[LoginAt(flags, x)]]
  BY LoginUnfolds
<1>2. n \in Nat
  BY LoginFacts
<1>3. ToSet(names) \subseteq {"username", "password"} /\ \A x \in ToSet(names) : LoginAt(flags, x) \in 1..n
  BY LoginFacts
<1> HIDE DEF names, n
<1>4. Len(kinds) = n /\ \A i \in 1..n : kinds[i] = "text" /\ kinds[i] \in AllKinds
  BY <1>2, TextKinds
<1> HIDE DEF kinds
<1>5. \A i \in 1..n : OfKind(kinds[i], o.v[i])
  BY <1>1, <1>2, <1>4, AllRead
<1>6. \A i \in 1..n : o.v[i] \in Octets
  BY <1>4, <1>5, KindHolds
<1> HIDE DEF o, q
<1>7. DOMAIN q \subseteq {"username", "password"} /\ \A x \in DOMAIN q : q[x] \in Octets
  BY <1>1, <1>3, <1>6
<1>8. HoldFields(q)
  BY <1>7 DEF HoldFields
<1>9. {"username", "password"} \subseteq OptionalFields(Type.Connect)
  BY TypeFacts DEF OptionalFields
<1>10. Fits(Type.Connect, q)
  BY <1>7, <1>8, <1>9 DEF Fits
<1> QED BY <1>10 DEF q

\* and CONNECT.
LEMMA ConnectRead ==
  ASSUME NEW w, w.type = Type.Connect, w.body \in Octets, ReadConnect(w).ok
  PROVE  IsPacket(ReadConnect(w).v)
<1> DEFINE o == ReadAll(ConnectKinds, w.body)
           l == ReadWill(o.v[3], o.rest)
           m == ReadLogin(o.v[3], l.rest)
           r == [type |-> w.type, protocol_name |-> MQTT, protocol_version |-> 5,
                 clean_start |-> Flag(o.v[3], 2), keepalive |-> o.v[4], client_id |-> o.v[6]]
           p == ReadConnect(w).v
<1>1. o.ok /\ l.ok /\ m.ok /\ p = r ++ o.v[5] ++ l.v ++ m.v
  BY ConnectUnfolds
<1>2. Len(ConnectKinds) = 6 /\ \A i \in 1..6 : ConnectKinds[i] \in AllKinds
  BY DEF ConnectKinds, AllKinds, Kinds
<1>3. o.rest \in Octets /\ \A i \in 1..6 : OfKind(ConnectKinds[i], o.v[i])
  BY <1>1, <1>2, AllRead
<1> DEFINE flags == o.v[3]
           alive == o.v[4]
           part == o.v[5]
           id == o.v[6]
<1>4. flags \in 0..255 /\ alive \in Nat /\ alive < 65536 /\ IsPart(part) /\ id \in Octets
  <2>1. OfKind("byte", flags) /\ OfKind("two", alive) /\ OfKind("properties", part)
        /\ OfKind("text", id)
    BY <1>3 DEF ConnectKinds
  <2> HIDE DEF flags, alive, part, id
  <2> QED BY <2>1, KindHolds
<1>5. l.rest \in Octets /\ Fits(Type.Connect, l.v)
  <2> DEFINE rest == o.rest
  <2>1. rest \in Octets /\ ReadWill(flags, rest).ok /\ l = ReadWill(flags, rest)
    BY <1>1, <1>3
  <2>2. flags \in 0..255
    BY <1>4
  <2> HIDE DEF rest, flags, l
  <2> QED BY <2>1, <2>2, WillRead
<1>6. Fits(Type.Connect, m.v)
  BY <1>1, <1>5, LoginRead
<1>7. Flag(flags, 2) \in BOOLEAN
  BY <1>4, FlagFacts
<1>8. r = [type |-> 1, protocol_name |-> MQTT, protocol_version |-> 5,
           clean_start |-> Flag(flags, 2), keepalive |-> alive, client_id |-> id]
  BY TypeFacts
<1>9. p = r ++ part ++ l.v ++ m.v
  BY <1>1
<1> HIDE DEF o, l, m, p, r, flags, alive, part, id
<1>10. /\ DOMAIN r = {"type", "protocol_name", "protocol_version", "clean_start", "keepalive",
                      "client_id"}
       /\ r.type = 1 /\ r.protocol_name = MQTT /\ r.protocol_version = 5
       /\ r.clean_start \in BOOLEAN /\ r.keepalive = alive /\ r.client_id = id
  BY <1>7, <1>8
<1>11. MQTT \in Octets
  BY DEF MQTT, Octets
<1>12. HoldFields(r)
  BY <1>4, <1>10, <1>11 DEF HoldFields
<1>13. /\ OptionalFields(1) = {"protocol_name", "protocol_version", "clean_start", "client_id",
                               "username", "password", "keepalive", "will", "properties"}
       /\ RequiredFields(1) = {"type"}
  BY TypeFacts DEF OptionalFields, RequiredFields
<1>14. Begun(r)
  BY <1>10, <1>12, <1>13 DEF Begun, Fits
<1>15. Fits(1, part)
  BY <1>4, <1>13, PartFits, TypeFacts
<1>16. Fits(1, l.v) /\ Fits(1, m.v)
  BY <1>5, <1>6, TypeFacts
<1>17. Begun(r ++ part) /\ (r ++ part).type = 1
  BY <1>10, <1>14, <1>15, BegunMore
<1>18. Begun(r ++ part ++ l.v) /\ (r ++ part ++ l.v).type = 1
  BY <1>16, <1>17, BegunMore
<1>19. Begun(p) /\ p.type = 1
  BY <1>9, <1>16, <1>18, BegunMore
<1>20. RequiredFields(p.type) \subseteq DOMAIN p
  BY <1>13, <1>19 DEF Begun
<1>21. IsPacket(p)
  BY <1>19, <1>20, BegunPacket
<1> QED BY <1>21 DEF p

\* Whatever a wire is, what is read of it is a packet.
LEMMA PacketOfWire ==
  ASSUME NEW w \in WireFormat, NEW choice, DeserializePacket(w, choice).ok
  PROVE  IsPacket(DeserializePacket(w, choice).v)
<1>1. w.type \in 0..15 /\ w.flags \in 0..15 /\ w.body \in Octets
  BY DEF WireFormat
<1>2. CASE w.type = 1
  BY <1>1, <1>2, ConnectRead, ReaderOf, TypeFacts
<1>3. CASE w.type = 2
  BY <1>1, <1>3, ConnAckRead, ReaderOf, TypeFacts
<1>4. CASE w.type = 3
  <2>1. w.type = Type.Publish
    BY <1>4, TypeFacts
  <2>2. DeserializePacket(w, choice) = ReadPublish(w, choice)
    BY <1>1, <1>4, ReaderOf
  <2>3. ReadPublish(w, choice).ok
    BY <2>2
  <2>4. IsPacket(ReadPublish(w, choice).v)
    BY <1>1, <2>1, <2>3, PublishRead
  <2> QED BY <2>2, <2>4
<1>5. CASE w.type \in 4..7
  <2>1. IsAck(w.type)
    BY <1>5, TypeFacts DEF IsAck
  <2> QED BY <1>1, <1>5, <2>1, AckRead, ReaderOf
<1>6. CASE w.type \in 8..11
  <2>1. IsList(w.type)
    BY <1>6, TypeFacts DEF IsList
  <2> QED BY <1>1, <1>6, <2>1, ListRead, ReaderOf
<1>7. CASE w.type \in {14, 15}
  <2>1. IsEnd(w.type)
    BY <1>7, TypeFacts DEF IsEnd
  <2> QED BY <1>1, <1>7, <2>1, EndRead, ReaderOf
<1>8. CASE w.type \in {12, 13}
  <2> DEFINE p == [type |-> w.type]
  <2>1. DeserializePacket(w, choice) = Got(p, <<>>)
    BY <1>1, <1>8, ReaderOf
  <2>2. DOMAIN p = {"type"} /\ p.type = w.type
    OBVIOUS
  <2> HIDE DEF p
  <2>3. RequiredFields(w.type) = {"type"}
    BY <1>8, TypeFacts DEF RequiredFields
  <2>4. HoldFields(p)
    BY <2>2 DEF HoldFields
  <2>5. Begun(p)
    BY <1>8, <2>2, <2>3, <2>4 DEF Begun, Fits
  <2>6. IsPacket(p)
    BY <2>2, <2>3, <2>5, BegunPacket
  <2> QED BY <2>1, <2>6, OutcomeFacts
<1>9. CASE w.type = 0
  <2>1. DeserializePacket(w, choice) = Refused
    BY <1>1, <1>9, ReaderOf
  <2> QED BY <2>1, OutcomeFacts
<1> QED BY <1>1, <1>2, <1>3, <1>4, <1>5, <1>6, <1>7, <1>8, <1>9

\* Packets are well typed however often they are written and read.
THEOREM PacketsWellTyped == Spec => []TypeOK
<1>1. Init => TypeOK
  BY PacketsAssumption, WiresAssumption DEF Init, TypeOK
<1>2. TypeOK /\ [Next]_vars => TypeOK'
  <2> SUFFICES ASSUME TypeOK, [Next]_vars PROVE TypeOK'
    OBVIOUS
  <2>1. CASE Send
    <3>1. IsPacket(packet)
      BY <2>1 DEF Send, TypeOK
    <3>2. Serialize(packet) \in WireFormat
      BY <3>1, WireOfPacket
    <3> QED BY <2>1, <3>1, <3>2 DEF Send, TypeOK
  <2>2. CASE Receive
    <3>1. wire \in WireFormat
      BY <2>2 DEF Receive, TypeOK
    <3>2. DeserializePacket(wire, options).ok => IsPacket(DeserializePacket(wire, options).v)
      BY <3>1, PacketOfWire
    <3> QED BY <2>2, <3>1, <3>2 DEF Receive, TypeOK
  <2>3. CASE UNCHANGED vars
    BY <2>3 DEF vars, TypeOK
  <2> QED BY <2>1, <2>2, <2>3 DEF Next
<1> QED BY <1>1, <1>2, PTL DEF Spec
-----------------------------------------------------------------------------
(* What is read of the beginning of a body.                                *)

\* The fields a cut may shorten, and records without them.
Lists == {"subscriptions", "topic_filters", "reason_codes"}
Plain(f) == DOMAIN f \cap ({"payload"} \cup Lists) = {}

\* Fields that are the same agree.
LEMMA SameAgrees ==
  ASSUME NEW f, Plain(f)
  PROVE  Agrees(f, f)
<1>1. \A n \in DOMAIN f : n # "payload" /\ n \notin Lists
  BY DEF Plain
<1> QED BY <1>1 DEF Agrees, Lists

\* No fields agree with any.
LEMMA NothingAgrees ==
  ASSUME NEW f
  PROVE  Agrees(<<>>, f)
<1>1. DOMAIN <<>> = {}
  OBVIOUS
<1> QED BY <1>1 DEF Agrees

\* Two parts that agree do so together, unless a field of the second is one that the
\* first lacks and should have.
LEMMA AgreesTogether ==
  ASSUME NEW a, NEW b, NEW c, NEW d, Agrees(a, b), Agrees(c, d),
         DOMAIN b \cap DOMAIN c \subseteq DOMAIN a
  PROVE  Agrees(a ++ c, b ++ d)
<1> SUFFICES ASSUME NEW n \in DOMAIN (a ++ c)
             PROVE  /\ n \in DOMAIN (b ++ d)
                    /\ CASE n = "payload" -> PayloadBegins((a ++ c)[n], (b ++ d)[n])
                         [] n \in Lists -> Prefix((a ++ c)[n], (b ++ d)[n])
                         [] OTHER -> (a ++ c)[n] = (b ++ d)[n]
  BY DEF Agrees, Lists
<1>1. /\ DOMAIN (a ++ c) = DOMAIN a \cup DOMAIN c /\ DOMAIN (b ++ d) = DOMAIN b \cup DOMAIN d
      /\ \A m \in DOMAIN a : (a ++ c)[m] = a[m]
      /\ \A m \in DOMAIN b : (b ++ d)[m] = b[m]
      /\ \A m \in DOMAIN c : m \notin DOMAIN a => (a ++ c)[m] = c[m]
      /\ \A m \in DOMAIN d : m \notin DOMAIN b => (b ++ d)[m] = d[m]
  <2>1. /\ DOMAIN (a ++ c) = DOMAIN a \cup DOMAIN c
        /\ \A m \in DOMAIN a : (a ++ c)[m] = a[m]
        /\ \A m \in DOMAIN c : m \notin DOMAIN a => (a ++ c)[m] = c[m]
    BY MoreFields
  <2>2. /\ DOMAIN (b ++ d) = DOMAIN b \cup DOMAIN d
        /\ \A m \in DOMAIN b : (b ++ d)[m] = b[m]
        /\ \A m \in DOMAIN d : m \notin DOMAIN b => (b ++ d)[m] = d[m]
    BY MoreFields
  <2> QED BY <2>1, <2>2
<1>2. CASE n \in DOMAIN a
  <2>1. /\ n \in DOMAIN b
        /\ CASE n = "payload" -> PayloadBegins(a[n], b[n])
             [] n \in Lists -> Prefix(a[n], b[n])
             [] OTHER -> a[n] = b[n]
    BY <1>2 DEF Agrees, Lists
  <2>2. (a ++ c)[n] = a[n] /\ (b ++ d)[n] = b[n] /\ n \in DOMAIN (b ++ d)
    BY <1>1, <1>2, <2>1
  <2> QED BY <2>1, <2>2
<1>3. CASE n \notin DOMAIN a
  <2>1. n \in DOMAIN c /\ n \notin DOMAIN b
    BY <1>1, <1>3
  <2>2. /\ n \in DOMAIN d
        /\ CASE n = "payload" -> PayloadBegins(c[n], d[n])
             [] n \in Lists -> Prefix(c[n], d[n])
             [] OTHER -> c[n] = d[n]
    BY <2>1 DEF Agrees, Lists
  <2>3. (a ++ c)[n] = c[n] /\ (b ++ d)[n] = d[n] /\ n \in DOMAIN (b ++ d)
    BY <1>1, <1>3, <2>1, <2>2
  <2> QED BY <2>2, <2>3
<1> QED BY <1>2, <1>3

\* A part of a packet has at most the field of the properties.
LEMMA PartPlain ==
  ASSUME NEW part, IsPart(part)
  PROVE  DOMAIN part \subseteq {"properties"} /\ Plain(part)
<1>1. DOMAIN <<>> = {}
  OBVIOUS
<1>2. \A props : DOMAIN [properties |-> props] = {"properties"}
  OBVIOUS
<1>3. DOMAIN part \subseteq {"properties"}
  BY <1>1, <1>2 DEF IsPart
<1> QED BY <1>3 DEF Plain, Lists

\* The parts of two packets agree when the first has the other's or none.
LEMMA PartsAgree ==
  ASSUME NEW head, Plain(head), NEW a, NEW b, Plain(b), a = b \/ a = <<>>
  PROVE  Agrees(head ++ a, head ++ b)
<1>1. Agrees(head, head)
  BY SameAgrees
<1>2. Agrees(a, b)
  BY SameAgrees, NothingAgrees
<1> QED BY <1>1, <1>2, AgreesTogether

\* Values of which the properties are the last: they may be missing in the beginning.
LEMMA LastFollows ==
  ASSUME NEW kinds, Len(kinds) \in Nat, Len(kinds) > 0,
         \A i \in 1..Len(kinds) : i < Len(kinds) => kinds[i] \in Kinds,
         kinds[Len(kinds)] = "properties",
         NEW t, NEW s, Cut(t, s), ReadAll(kinds, t).ok, ReadAll(kinds, s).ok
  PROVE  /\ \A i \in 1..Len(kinds) :
              i < Len(kinds) => ReadAll(kinds, t).v[i] = ReadAll(kinds, s).v[i]
         /\ Cut(ReadAll(kinds, t).rest, ReadAll(kinds, s).rest)
         /\ Plain(ReadAll(kinds, s).v[Len(kinds)])
         /\ \/ ReadAll(kinds, t).v[Len(kinds)] = ReadAll(kinds, s).v[Len(kinds)]
            \/ /\ ReadAll(kinds, t).v[Len(kinds)] = <<>>
               /\ ReadAll(kinds, t).rest = <<>>
<1> DEFINE n == Len(kinds)
           o == ReadAll(kinds, t)
           q == ReadAll(kinds, s)
<1>1. \A i \in 1..n : kinds[i] \in AllKinds
  BY DEF AllKinds
<1>2. \A i \in 1..n : kinds[i] = "properties" /\ (i + 1) \in 1..n => kinds[i + 1] \in Kinds
  <2>1. "properties" \notin Kinds
    BY DEF Kinds
  <2> QED BY <2>1
<1>3. t \in Octets /\ s \in Octets
  BY DEF Cut
<1>4. q.rest \in Octets /\ \A i \in 1..n : OfKind(kinds[i], q.v[i])
  BY <1>1, <1>3, AllRead
<1>5. Plain(q.v[n])
  <2>1. n \in 1..n
    OBVIOUS
  <2> QED BY <1>4, <2>1, KindHolds, PartPlain
<1>6. \/ o.v = q.v /\ Cut(o.rest, q.rest)
      \/ SameUpTo(o.v, q.v, n - 1) /\ o.v[n] = <<>> /\ o.rest = <<>>
  BY <1>1, <1>2, AllFollow
<1>7. Cut(<<>>, q.rest)
  <2>1. <<>> \in Octets /\ Len(<<>>) = 0
    BY DEF Octets
  <2>2. Len(q.rest) \in Nat
    BY <1>4 DEF Octets
  <2> QED BY <1>4, <2>1, <2>2 DEF Cut
<1>9. n \in Nat /\ n > 0
  OBVIOUS
<1> HIDE DEF o, q, n
<1>8. \A i \in 1..n : i < n => o.v[i] = q.v[i]
  BY <1>6, <1>9 DEF SameUpTo
<1> QED BY <1>5, <1>6, <1>7, <1>8 DEF o, q, n

\* Two wires of which the second has the body of the first, cut off.
CutOff(u, w) == u.type = w.type /\ u.flags = w.flags /\ Cut(u.body, w.body)

\* A packet read from a body that was cut off agrees with the whole one: CONNACK,
LEMMA ConnAckAgrees ==
  ASSUME NEW u, NEW w, CutOff(u, w), ReadConnAck(u).ok, ReadConnAck(w).ok
  PROVE  Agrees(ReadConnAck(u).v, ReadConnAck(w).v)
<1> DEFINE o == ReadAll(ConnAckKinds, u.body)
           q == ReadAll(ConnAckKinds, w.body)
           r == [type |-> w.type, session_present |-> q.v[1], connect_reason_code |-> q.v[2]]
<1>0. u.type = w.type /\ Cut(u.body, w.body) /\ w.body \in Octets
  BY DEF CutOff, Cut
<1>1. /\ o.ok /\ q.ok
      /\ ReadConnAck(u).v = [type |-> u.type, session_present |-> o.v[1],
                             connect_reason_code |-> o.v[2]] ++ o.v[3]
      /\ ReadConnAck(w).v = r ++ q.v[3]
  BY ConnAckUnfolds
<1>2. /\ Len(ConnAckKinds) = 3 /\ ConnAckKinds[3] = "properties"
      /\ \A i \in 1..3 : i < 3 => ConnAckKinds[i] \in Kinds
  BY DEF ConnAckKinds, Kinds
<1>3. /\ o.v[1] = q.v[1] /\ o.v[2] = q.v[2] /\ Plain(q.v[3])
      /\ o.v[3] = q.v[3] \/ o.v[3] = <<>>
  <2> DEFINE n == Len(ConnAckKinds)
  <2>1. n \in Nat /\ n > 0 /\ ConnAckKinds[n] = "properties"
    BY <1>2
  <2>2. \A i \in 1..n : i < n => ConnAckKinds[i] \in Kinds
    BY <1>2
  <2>3. /\ \A i \in 1..n : i < n => o.v[i] = q.v[i]
        /\ Plain(q.v[n])
        /\ o.v[n] = q.v[n] \/ o.v[n] = <<>>
    BY <1>0, <1>1, <2>1, <2>2, LastFollows
  <2> QED BY <1>2, <2>3
<1>6. ReadConnAck(u).v = r ++ o.v[3]
  BY <1>0, <1>1, <1>3
<1>7. Plain(r)
  BY DEF Plain, Lists
<1> HIDE DEF r, o, q
<1> QED BY <1>1, <1>3, <1>6, <1>7, PartsAgree

\* A head agrees with what goes on.
LEMMA MoreAgrees ==
  ASSUME NEW a, Plain(a), NEW b, NEW c
  PROVE  Agrees(a, a ++ b ++ c)
<1>1. DOMAIN (a ++ b) = DOMAIN a \cup DOMAIN b /\ \A n \in DOMAIN a : (a ++ b)[n] = a[n]
  BY MoreFields
<1>2. /\ DOMAIN (a ++ b ++ c) = DOMAIN (a ++ b) \cup DOMAIN c
      /\ \A n \in DOMAIN (a ++ b) : (a ++ b ++ c)[n] = (a ++ b)[n]
  BY MoreFields
<1>3. \A n \in DOMAIN a : /\ n \in DOMAIN (a ++ b ++ c) /\ (a ++ b ++ c)[n] = a[n]
                          /\ n # "payload" /\ n \notin Lists
  BY <1>1, <1>2 DEF Plain
<1> QED BY <1>3 DEF Agrees, Lists

\* The reason code and the properties, after a head.
LEMMA ReasonAgrees ==
  ASSUME NEW head, Plain(head), NEW t, NEW s, Cut(t, s),
         ReadReason(head, t).ok, ReadReason(head, s).ok
  PROVE  Agrees(ReadReason(head, t).v, ReadReason(head, s).v)
<1> DEFINE o == ReadAll(ReasonKinds, t)
           q == ReadAll(ReasonKinds, s)
           r == [reason_code |-> q.v[1]]
<1>1. /\ \/ t = <<>> /\ ReadReason(head, t).v = head
         \/ /\ t # <<>> /\ o.ok
            /\ ReadReason(head, t).v = head ++ [reason_code |-> o.v[1]] ++ o.v[2]
      /\ \/ s = <<>> /\ ReadReason(head, s).v = head
         \/ s # <<>> /\ q.ok /\ ReadReason(head, s).v = head ++ r ++ q.v[2]
  BY ReasonUnfolds
<1>2. Plain(r)
  BY DEF Plain, Lists
<1>3. Plain(head ++ r)
  <2>1. DOMAIN (head ++ r) = DOMAIN head \cup DOMAIN r
    BY MoreFields
  <2> HIDE DEF r
  <2> QED BY <1>2, <2>1 DEF Plain
<1>4. CASE t = <<>>
  <2>1. ReadReason(head, t).v = head
    BY <1>1, <1>4
  <2>2. Agrees(head, head)
    BY SameAgrees
  <2>3. Agrees(head, head ++ r ++ q.v[2])
    BY MoreAgrees
  <2> QED BY <1>1, <2>1, <2>2, <2>3
<1>5. CASE t # <<>>
  <2>1. s # <<>>
    <3>1. Len(t) \in Nat /\ Len(s) \in Nat /\ Len(t) <= Len(s) /\ t \in Octets
      BY DEF Cut, Octets
    <3>2. Len(t) # 0
      BY <1>5, <3>1 DEF Octets
    <3> QED BY <3>1, <3>2
  <2>2. o.ok /\ q.ok
    BY <1>1, <1>5, <2>1
  <2>3. /\ o.v[1] = q.v[1] /\ Plain(q.v[2])
        /\ o.v[2] = q.v[2] \/ o.v[2] = <<>>
    <3> DEFINE n == Len(ReasonKinds)
    <3>1. n = 2 /\ ReasonKinds[2] = "properties" /\ ReasonKinds[1] \in Kinds
      BY DEF ReasonKinds, Kinds
    <3>2. n \in Nat /\ n > 0 /\ ReasonKinds[n] = "properties"
      BY <3>1
    <3>3. \A i \in 1..n : i < n => ReasonKinds[i] \in Kinds
      BY <3>1
    <3>4. /\ \A i \in 1..n : i < n => o.v[i] = q.v[i]
          /\ Plain(q.v[n])
          /\ o.v[n] = q.v[n] \/ o.v[n] = <<>>
      BY <2>2, <3>2, <3>3, LastFollows
    <3> QED BY <3>1, <3>4
  <2>4. ReadReason(head, t).v = head ++ r ++ o.v[2]
    BY <1>1, <1>5, <2>3
  <2>5. ReadReason(head, s).v = head ++ r ++ q.v[2]
    BY <1>1, <2>1
  <2> HIDE DEF r, o, q
  <2> QED BY <1>3, <2>3, <2>4, <2>5, PartsAgree
<1> QED BY <1>4, <1>5

\* PUBACK, PUBREC, PUBREL and PUBCOMP,
LEMMA AckAgrees ==
  ASSUME NEW u, NEW w, CutOff(u, w), ReadAck(u).ok, ReadAck(w).ok
  PROVE  Agrees(ReadAck(u).v, ReadAck(w).v)
<1> DEFINE o == ReadUint(u.body, 2)
           q == ReadUint(w.body, 2)
           r == [type |-> w.type, packet_identifier |-> q.v]
<1>0. u.type = w.type /\ Cut(u.body, w.body)
  BY DEF CutOff
<1>1. /\ o.ok /\ ReadAck(u) = ReadReason([type |-> u.type, packet_identifier |-> o.v], o.rest)
      /\ ReadAck(w) = ReadReason(r, q.rest)
  BY AckUnfolds
<1>2. o.v = q.v /\ Cut(o.rest, q.rest)
  BY <1>0, <1>1, UintFollows
<1>3. ReadAck(u) = ReadReason(r, o.rest)
  BY <1>0, <1>1, <1>2
<1>4. Plain(r)
  BY DEF Plain, Lists
<1> HIDE DEF r, o, q
<1> QED BY <1>1, <1>2, <1>3, <1>4, ReasonAgrees

\* DISCONNECT and AUTH,
LEMMA EndAgrees ==
  ASSUME NEW u, NEW w, CutOff(u, w), ReadEnd(u).ok, ReadEnd(w).ok
  PROVE  Agrees(ReadEnd(u).v, ReadEnd(w).v)
<1> DEFINE r == [type |-> w.type]
<1>1. ReadEnd(u) = ReadReason(r, u.body) /\ ReadEnd(w) = ReadReason(r, w.body)
  BY DEF CutOff, ReadEnd
<1>2. Plain(r)
  BY DEF Plain, Lists
<1>3. Cut(u.body, w.body)
  BY DEF CutOff
<1> HIDE DEF r
<1> QED BY <1>1, <1>2, <1>3, ReasonAgrees

\* A byte behind the first of a character continues it or not, whatever follows.
LEMMA ContinuesOfCut ==
  ASSUME NEW t, NEW s, Cut(t, s), NEW i \in 1..Len(t), NEW k \in 1..3
  PROVE  Continues(t, i, k) <=> i + k <= Len(t) /\ Continues(s, i, k)
<1>1. /\ Len(t) \in Nat /\ Len(s) \in Nat /\ Len(t) <= Len(s)
      /\ \A j \in 1..Len(t) : t[j] = s[j]
  BY OctetFacts DEF Cut
<1>2. CASE i + k <= Len(t)
  <2>1. i + k <= Len(s) /\ i + k \in 1..Len(t) /\ t[i + k] = s[i + k] /\ t[i] = s[i]
    BY <1>1, <1>2
  <2>2. k = 1 => t[i + 1] = s[i + 1]
    BY <2>1
  <2> QED BY <1>2, <2>1, <2>2 DEF Continues
<1>3. CASE ~(i + k <= Len(t))
  BY <1>3 DEF Continues
<1> QED BY <1>2, <1>3

\* How long a character is.
LEMMA CharFacts ==
  ASSUME NEW byte \in Nat
  PROVE  CharLength(byte) \in 1..4 /\ (byte < 128 => CharLength(byte) = 1)
BY DEF CharLength

\* A character takes as many bytes as before, or all that are left of it.
LEMMA TakenOfCut ==
  ASSUME NEW t, NEW s, Cut(t, s), NEW i \in 1..Len(t)
  PROVE  /\ i + Taken(s, i) - 1 <= Len(t) => Taken(t, i) = Taken(s, i)
         /\ i + Taken(s, i) - 1 > Len(t) => /\ i + Taken(t, i) = Len(t) + 1
                                           /\ ~WholeChar(t, i)
<1>1. Len(t) \in Nat /\ t[i] = s[i] /\ t[i] \in Nat /\ s[i] \in Nat
  BY OctetFacts DEF Cut
<1> DEFINE c == CharLength(s[i])
<1>2. CharLength(t[i]) = c
  BY <1>1
<1>3. c \in 1..4 /\ (t[i] < 128 => c = 1)
  BY <1>1, CharFacts
<1>4. /\ Continues(t, i, 1) <=> i + 1 <= Len(t) /\ Continues(s, i, 1)
      /\ Continues(t, i, 2) <=> i + 2 <= Len(t) /\ Continues(s, i, 2)
      /\ Continues(t, i, 3) <=> i + 3 <= Len(t) /\ Continues(s, i, 3)
  BY ContinuesOfCut
<1> HIDE DEF c
<1>5. Taken(s, i) \in 1..c
  BY <1>3 DEF Taken, c
<1>6. /\ i + Taken(s, i) - 1 <= Len(t) => Taken(t, i) = Taken(s, i)
      /\ i + Taken(s, i) - 1 > Len(t) => i + Taken(t, i) = Len(t) + 1
  BY <1>1, <1>2, <1>3, <1>4 DEF Taken, c
<1>7. i + Taken(s, i) - 1 > Len(t) => ~WholeChar(t, i)
  BY <1>1, <1>2, <1>3, <1>5, <1>6 DEF WholeChar
<1> QED BY <1>6, <1>7

\* So the same bytes are inside of characters.
LEMMA InsideOfCut ==
  ASSUME NEW t, NEW s, Cut(t, s), NEW i \in 1..Len(t)
  PROVE  Inside(t, i) <=> Inside(s, i)
<1>1. Len(t) \in Nat
  BY OctetFacts DEF Cut
<1>2. ASSUME NEW j \in 1..(i - 1) PROVE i < j + Taken(t, j) <=> i < j + Taken(s, j)
  <2>1. j \in 1..Len(t) /\ j \in 1..Len(s)
    BY <1>1, OctetFacts DEF Cut
  <2>2. Taken(s, j) \in 1..4
    BY <2>1, TakenFacts DEF Cut
  <2>3. /\ j + Taken(s, j) - 1 <= Len(t) => Taken(t, j) = Taken(s, j)
        /\ j + Taken(s, j) - 1 > Len(t) => j + Taken(t, j) = Len(t) + 1
    BY <2>1, TakenOfCut
  <2> QED BY <1>1, <2>1, <2>2, <2>3
<1> QED BY <1>2 DEF Inside

\* The byte order mark by its bytes.
LEMMA BomFacts ==
  ASSUME NEW s \in Octets
  PROVE  /\ IsPrefix(Bom, s) <=> Len(s) >= 3 /\ s[1] = 239 /\ s[2] = 187 /\ s[3] = 191
         /\ IsPrefix(Bom, s) => Taken(s, 1) = 3
<1>1. Len(s) \in Nat
  BY OctetFacts
<1>2. /\ Bom \in Octets /\ Len(Bom) = 3 /\ Bom[1] = 239 /\ Bom[2] = 187 /\ Bom[3] = 191
  BY DEF Bom, Octets
<1>3. IsPrefix(Bom, s) <=> Len(s) >= 3 /\ s[1] = 239 /\ s[2] = 187 /\ s[3] = 191
  <2>1. IsPrefix(Bom, s) <=> 3 <= Len(s) /\ SubSeq(Bom, 1, 3) = SubSeq(s, 1, 3)
    BY <1>2 DEF IsPrefix
  <2>2. CASE Len(s) < 3
    BY <1>1, <2>1, <2>2
  <2>3. CASE Len(s) >= 3
    <3> DEFINE a == SubSeq(Bom, 1, 3)
               b == SubSeq(s, 1, 3)
    <3>1. Bom \in Octets /\ 3 \in 0..Len(Bom) /\ 3 \in 0..Len(s)
      BY <1>1, <1>2, <2>3
    <3>2. a \in Octets /\ Len(a) = 3 /\ \A i \in 1..3 : a[i] = Bom[i]
      BY <3>1, FirstFacts, Zenon
    <3>3. b \in Octets /\ Len(b) = 3 /\ \A i \in 1..3 : b[i] = s[i]
      BY <3>1, FirstFacts
    <3> HIDE DEF a, b
    <3>4. a[1] = 239 /\ a[2] = 187 /\ a[3] = 191 /\ b[1] = s[1] /\ b[2] = s[2] /\ b[3] = s[3]
      BY <1>2, <3>2, <3>3
    <3>5. a = b <=> \A i \in 1..3 : a[i] = b[i]
      BY <3>2, <3>3, SameSeq
    <3>6. (\A i \in 1..3 : a[i] = b[i]) <=> a[1] = b[1] /\ a[2] = b[2] /\ a[3] = b[3]
      <4>1. \A i \in 1..3 : i = 1 \/ i = 2 \/ i = 3
        OBVIOUS
      <4> QED BY <4>1
    <3>7. a = b <=> s[1] = 239 /\ s[2] = 187 /\ s[3] = 191
      BY <3>4, <3>5, <3>6
    <3> QED BY <1>1, <2>1, <2>3, <3>7 DEF a, b
  <2> QED BY <1>1, <2>2, <2>3
<1>4. IsPrefix(Bom, s) => Taken(s, 1) = 3
  <2> SUFFICES ASSUME IsPrefix(Bom, s) PROVE Taken(s, 1) = 3
    OBVIOUS
  <2>1. CharLength(s[1]) = 3
    BY <1>3 DEF CharLength
  <2>2. Continues(s, 1, 1) /\ Continues(s, 1, 2)
    BY <1>1, <1>3 DEF Continues
  <2> QED BY <2>1, <2>2 DEF Taken
<1> QED BY <1>3, <1>4

\* A character that is not cut is decoded as before.
LEMMA DecodedAtOfCut ==
  ASSUME NEW t, NEW s, Cut(t, s), NEW i \in 1..Len(t), i + Taken(s, i) - 1 <= Len(t)
  PROVE  DecodedAt(t, i) = DecodedAt(s, i)
<1>1. /\ t \in Octets /\ s \in Octets /\ Len(t) \in Nat /\ Len(s) \in Nat /\ Len(t) <= Len(s)
      /\ \A j \in 1..Len(t) : t[j] = s[j]
  BY OctetFacts DEF Cut
<1>2. Inside(t, i) <=> Inside(s, i)
  BY InsideOfCut
<1>3. Taken(t, i) = Taken(s, i) /\ Taken(s, i) \in 1..4
  BY <1>1, TakenOfCut, TakenFacts
<1>4. i = 1 => (IsPrefix(Bom, t) <=> IsPrefix(Bom, s))
  <2> SUFFICES ASSUME i = 1 PROVE IsPrefix(Bom, t) <=> IsPrefix(Bom, s)
    OBVIOUS
  <2>1. IsPrefix(Bom, s) => Len(t) >= 3
    BY <1>1, BomFacts
  <2>2. Len(t) >= 3 => t[1] = s[1] /\ t[2] = s[2] /\ t[3] = s[3]
    BY <1>1
  <2> QED BY <1>1, <2>1, <2>2, BomFacts
<1>5. WholeChar(t, i) <=> WholeChar(s, i)
  BY <1>1, <1>3 DEF WholeChar
<1>6. SubSeq(t, i, i + Taken(t, i) - 1) = SubSeq(s, i, i + Taken(s, i) - 1)
  <2> DEFINE j == i + Taken(s, i) - 1
             h == i - 1
             a == SubSeq(t, h + 1, j)
             b == SubSeq(s, h + 1, j)
  <2>1. h \in Nat /\ h + 1 = i /\ j \in h..Len(t) /\ j \in h..Len(s)
    BY <1>1, <1>3
  <2> HIDE DEF h, j
  <2>2. a \in Octets /\ Len(a) = j - h /\ \A k \in 1..(j - h) : a[k] = t[h + k]
    BY <1>1, <2>1, PartOctets
  <2>3. b \in Octets /\ Len(b) = j - h /\ \A k \in 1..(j - h) : b[k] = s[h + k]
    BY <1>1, <2>1, PartOctets
  <2>4. \A k \in 1..(j - h) : t[h + k] = s[h + k]
    BY <1>1, <2>1
  <2> HIDE DEF a, b
  <2>5. a = b
    BY <2>2, <2>3, <2>4, SameSeq
  <2> QED BY <1>3, <2>1, <2>5 DEF a, b, j
<1> QED BY <1>2, <1>4, <1>5, <1>6 DEF DecodedAt

\* Octets and what follows them.
LEMMA JoinedOctets ==
  ASSUME NEW y \in Octets, NEW z \in Octets
  PROVE  /\ y \o z \in Octets /\ Len(y \o z) = Len(y) + Len(z) /\ Len(z) \in Nat
         /\ \A i \in 1..Len(y) : (y \o z)[i] = y[i]
BY JoinFacts, OctetFacts DEF Octets

\* A beginning stays one when something follows.
LEMMA CutGrows ==
  ASSUME NEW x, NEW y, NEW z \in Octets, Cut(x, y)
  PROVE  Cut(x, y \o z)
<1>1. /\ x \in Octets /\ y \in Octets /\ Len(x) \in Nat /\ Len(y) \in Nat /\ Len(x) <= Len(y)
      /\ \A i \in 1..Len(x) : x[i] = y[i]
  BY OctetFacts DEF Cut
<1>2. /\ y \o z \in Octets /\ Len(y \o z) = Len(y) + Len(z) /\ Len(z) \in Nat
      /\ \A i \in 1..Len(y) : (y \o z)[i] = y[i]
  BY <1>1, JoinedOctets
<1> QED BY <1>1, <1>2 DEF Cut

\* A sum of pieces begins with each sum of fewer.
LEMMA StepsCut ==
  ASSUME NEW n \in Nat, NEW f, NEW d,
         \A i \in 0..n : f[i] \in Octets, \A i \in 1..n : d[i] \in Octets,
         \A i \in 1..n : f[i] = f[i - 1] \o d[i], NEW m \in 0..n
  PROVE  Cut(f[m], f[n])
<1> DEFINE S == {k \in Nat : m + k <= n => Cut(f[m], f[m + k])}
<1>1. 0 \in S
  <2>1. f[m] \in Octets /\ m + 0 = m /\ Len(f[m]) <= Len(f[m])
    BY OctetFacts
  <2> QED BY <2>1 DEF Cut
<1>2. ASSUME NEW k \in Nat, k \in S PROVE k + 1 \in S
  <2> SUFFICES ASSUME m + (k + 1) <= n PROVE Cut(f[m], f[m + (k + 1)])
    OBVIOUS
  <2>1. m + k <= n /\ m + (k + 1) \in 1..n /\ (m + (k + 1)) - 1 = m + k
    OBVIOUS
  <2>2. Cut(f[m], f[m + k])
    BY <1>2, <2>1
  <2>3. f[m + (k + 1)] = f[m + k] \o d[m + (k + 1)] /\ d[m + (k + 1)] \in Octets
    BY <2>1
  <2> QED BY <2>2, <2>3, CutGrows
<1>3. \A k \in Nat : k \in S
  <2> HIDE DEF S
  <2> QED BY <1>1, <1>2, NatSteps
<1>4. n - m \in Nat /\ m + (n - m) = n
  OBVIOUS
<1> QED BY <1>3, <1>4

\* The text of the beginning is a beginning of the text, but that a character that
\* is cut is replaced.
LEMMA DecodedCut ==
  ASSUME NEW t, NEW s, Cut(t, s)
  PROVE  \/ Cut(DecodedText(t), DecodedText(s))
         \/ \E x : Cut(x, DecodedText(s)) /\ DecodedText(t) = x \o Replacement
<1> DEFINE m == Len(t)
           n == Len(s)
           d == [i \in 1..m |-> DecodedAt(t, i)]
           e == [i \in 1..n |-> DecodedAt(s, i)]
           IsCut(i) == i + Taken(s, i) - 1 > m
<1>1. t \in Octets /\ s \in Octets /\ m \in Nat /\ n \in Nat /\ m <= n
  BY OctetFacts DEF Cut
<1>2. PICK f : /\ DecodedText(t) = f[m] /\ f[0] = <<>>
               /\ \A i \in 1..m : f[i] = f[i - 1] \o DecodedAt(t, i)
               /\ \A i \in 0..m : f[i] \in Octets
  BY <1>1, DecodedSteps
<1>3. PICK g : /\ DecodedText(s) = g[n] /\ g[0] = <<>>
               /\ \A i \in 1..n : g[i] = g[i - 1] \o DecodedAt(s, i)
               /\ \A i \in 0..n : g[i] \in Octets
  BY <1>1, DecodedSteps
<1>4. /\ \A i \in 1..m : f[i] = f[i - 1] \o d[i]
      /\ \A i \in 1..n : g[i] = g[i - 1] \o e[i] /\ e[i] \in Octets
  BY <1>1, <1>2, <1>3, DecodedAtOctets
<1>5. \A i \in 1..m : ~IsCut(i) => d[i] = e[i]
  <2> SUFFICES ASSUME NEW i \in 1..m, ~IsCut(i) PROVE d[i] = e[i]
    OBVIOUS
  <2>1. i \in 1..n /\ Taken(s, i) \in 1..4
    BY <1>1, TakenFacts
  <2>2. i + Taken(s, i) - 1 <= m
    BY <1>1, <2>1
  <2>3. DecodedAt(t, i) = DecodedAt(s, i)
    BY <2>2, DecodedAtOfCut
  <2> QED BY <2>1, <2>3
<1>6. \A i \in 1..m : Inside(t, i) => d[i] = e[i]
  <2> SUFFICES ASSUME NEW i \in 1..m, Inside(t, i) PROVE d[i] = e[i]
    OBVIOUS
  <2>1. Inside(s, i)
    BY InsideOfCut
  <2>2. i \in 1..n
    BY <1>1
  <2> QED BY <2>1, <2>2 DEF DecodedAt
<1>7. ASSUME NEW k \in 0..m, \A i \in 1..k : d[i] = e[i] PROVE f[k] = g[k] /\ Cut(f[k], g[n])
  <2> HIDE DEF d, e, m, n
  <2>1. k \in Nat /\ k \in 0..n /\ \A i \in 1..k : i \in 1..m /\ i \in 1..n
    BY <1>1
  <2>2. f[0] = g[0]
    BY <1>2, <1>3
  <2>3. \A i \in 1..k : f[i] = f[i - 1] \o d[i]
    BY <1>4, <2>1
  <2>4. \A i \in 1..k : g[i] = g[i - 1] \o e[i]
    BY <1>4, <2>1
  <2>5. f[k] = g[k]
    <3> DEFINE S == {j \in Nat : j <= k => f[j] = g[j]}
    <3>1. 0 \in S
      BY <2>2
    <3>2. ASSUME NEW j \in Nat, j \in S PROVE j + 1 \in S
      <4> SUFFICES ASSUME j + 1 <= k PROVE f[j + 1] = g[j + 1]
        OBVIOUS
      <4>1. j + 1 \in 1..k /\ (j + 1) - 1 = j /\ f[j] = g[j]
        BY <2>1, <3>2
      <4> QED BY <1>7, <2>3, <2>4, <4>1
    <3>3. \A j \in Nat : j \in S
      <4> HIDE DEF S
      <4> QED BY <3>1, <3>2, NatSteps
    <3> QED BY <2>1, <3>3
  <2>6. Cut(g[k], g[n])
    BY <1>1, <1>3, <1>4, <2>1, StepsCut
  <2> QED BY <2>5, <2>6
<1>8. CASE \A i \in 1..m : Inside(t, i) \/ ~IsCut(i)
  <2>1. m \in 0..m /\ \A i \in 1..m : d[i] = e[i]
    <3> HIDE DEF d, e, m, n, IsCut
    <3> QED BY <1>1, <1>5, <1>6, <1>8
  <2>2. Cut(f[m], g[n])
    BY <1>7, <2>1
  <2> QED BY <1>2, <1>3, <2>2
<1>9. CASE \E c \in 1..m : ~Inside(t, c) /\ IsCut(c)
  <2>1. PICK c \in 1..m : ~Inside(t, c) /\ IsCut(c)
    BY <1>9
  <2>2. c + Taken(t, c) = m + 1 /\ ~WholeChar(t, c) /\ ~Inside(s, c)
    BY <2>1, TakenOfCut, InsideOfCut
  <2>3. \A i \in 1..(c - 1) : i \in 1..m /\ d[i] = e[i]
    <3> SUFFICES ASSUME NEW i \in 1..(c - 1) PROVE i \in 1..m /\ d[i] = e[i]
      OBVIOUS
    <3>1. i \in 1..m /\ i \in 1..n
      BY <1>1
    <3>2. Taken(s, i) \in 1..4 /\ ~(c < i + Taken(s, i))
      BY <1>1, <2>2, <3>1, TakenFacts DEF Inside
    <3>3. ~IsCut(i)
      BY <1>1, <3>2
    <3> QED BY <1>5, <3>1, <3>3
  <2>4. d[c] = Replacement
    <3>1. ~(c = 1 /\ IsPrefix(Bom, t))
      <4> SUFFICES ASSUME c = 1, IsPrefix(Bom, t) PROVE FALSE
        OBVIOUS
      <4>1. m >= 3 /\ Taken(t, 1) = 3 /\ t[1] = 239 /\ t[2] = 187 /\ t[3] = 191
        BY <1>1, BomFacts
      <4>2. n >= 3 /\ s[1] = 239 /\ s[2] = 187 /\ s[3] = 191
        BY <1>1, <4>1 DEF Cut
      <4>3. Taken(s, 1) = 3
        BY <1>1, <4>2, BomFacts
      <4> QED BY <1>1, <2>1, <4>1, <4>3
    <3>2. DecodedAt(t, c) = Replacement
      BY <2>1, <2>2, <3>1 DEF DecodedAt
    <3> QED BY <3>2
  <2>5. \A i \in (c + 1)..m : d[i] = <<>>
    <3> SUFFICES ASSUME NEW i \in (c + 1)..m PROVE d[i] = <<>>
      OBVIOUS
    <3>1. i \in 1..m /\ c \in 1..(i - 1) /\ i < m + 1
      BY <1>1
    <3>2. Inside(t, i)
      BY <2>2, <3>1 DEF Inside
    <3> QED BY <3>1, <3>2 DEF DecodedAt
  <2> DEFINE x == f[c - 1]
  <2>6. c - 1 \in 0..m /\ x \in Octets /\ Cut(x, g[n])
    <3>1. c - 1 \in 0..m
      BY <1>1
    <3>2. \A i \in 1..(c - 1) : d[i] = e[i]
      BY <2>3
    <3> QED BY <1>2, <1>7, <3>1, <3>2
  <2> HIDE DEF d, e, m, n, IsCut
  <2>7. f[c] = x \o Replacement
    BY <1>4, <2>4
  <2>8. f[m] = f[c]
    <3> DEFINE S == {k \in Nat : c + k <= m => f[c + k] = f[c]}
    <3>1. 0 \in S
      BY <1>1
    <3>2. ASSUME NEW k \in Nat, k \in S PROVE k + 1 \in S
      <4> SUFFICES ASSUME c + (k + 1) <= m PROVE f[c + (k + 1)] = f[c]
        OBVIOUS
      <4>1. /\ c + k <= m /\ c + k \in 0..m /\ c + (k + 1) \in 1..m
            /\ c + (k + 1) \in (c + 1)..m /\ (c + (k + 1)) - 1 = c + k
        BY <1>1
      <4>2. f[c + k] = f[c] /\ f[c + k] \in Octets
        BY <1>2, <3>2, <4>1
      <4>3. f[c + (k + 1)] = f[c + k] \o <<>>
        BY <1>4, <2>5, <4>1
      <4> QED BY <4>2, <4>3 DEF Octets
    <3>3. \A k \in Nat : k \in S
      <4> HIDE DEF S
      <4> QED BY <3>1, <3>2, NatSteps
    <3>4. m - c \in Nat /\ c + (m - c) = m
      BY <1>1
    <3> QED BY <3>3, <3>4
  <2>9. DecodedText(t) = x \o Replacement /\ Cut(x, DecodedText(s))
    BY <1>2, <1>3, <2>6, <2>7, <2>8
  <2> HIDE DEF x
  <2> QED BY <2>9
<1> QED BY <1>8, <1>9

\* A beginning by its bytes and in one piece.
LEMMA CutIsPrefix ==
  ASSUME NEW t, NEW s, Cut(t, s)
  PROVE  Prefix(t, s)
<1>1. /\ t \in Octets /\ s \in Octets /\ Len(t) <= Len(s)
      /\ \A i \in 1..Len(t) : t[i] = s[i]
  BY DEF Cut
<1>2. Len(t) \in 0..Len(s)
  BY <1>1 DEF Octets
<1>3. /\ SubSeq(s, 1, Len(t)) \in Octets /\ Len(SubSeq(s, 1, Len(t))) = Len(t)
      /\ \A i \in 1..Len(t) : SubSeq(s, 1, Len(t))[i] = s[i]
  BY <1>1, <1>2, FirstFacts
<1>4. t = SubSeq(s, 1, Len(t))
  BY <1>1, <1>3, SameSeq
<1> QED BY <1>1, <1>4 DEF Prefix

\* The payload of the beginning begins as the payload.
LEMMA PayloadAgrees ==
  ASSUME NEW t, NEW s, Cut(t, s), NEW part, NEW choice
  PROVE  Agrees(ReadPayload(t, part, choice), ReadPayload(s, part, choice))
<1> DEFINE text == \/ choice = "text"
                   \/ /\ choice = "format"
                      /\ Optional(Given(part), "payload_format_indicator", 0) # 0
<1>1. /\ t = <<>> => ReadPayload(t, part, choice) = <<>>
      /\ t # <<>> /\ text => ReadPayload(t, part, choice) = [payload |-> <<"text", DecodedText(t)>>]
      /\ t # <<>> /\ ~text => ReadPayload(t, part, choice) = [payload |-> <<"binary", t>>]
      /\ s # <<>> /\ text => ReadPayload(s, part, choice) = [payload |-> <<"text", DecodedText(s)>>]
      /\ s # <<>> /\ ~text => ReadPayload(s, part, choice) = [payload |-> <<"binary", s>>]
  BY DEF ReadPayload
<1> HIDE DEF text
<1>2. \A x, y : PayloadBegins(x, y) => Agrees([payload |-> x], [payload |-> y])
  BY DEF Agrees
<1>3. t # <<>> => s # <<>>
  <2>1. Len(t) \in Nat /\ Len(s) \in Nat /\ Len(t) <= Len(s) /\ t \in Octets
    BY DEF Cut, Octets
  <2>2. Len(t) = 0 => t = <<>>
    BY <2>1 DEF Octets
  <2> QED BY <2>1, <2>2
<1>4. \A k, x, y : Prefix(x, y) => PayloadBegins(<<k, x>>, <<k, y>>)
  BY DEF PayloadBegins
<1>5. PayloadBegins(<<"text", DecodedText(t)>>, <<"text", DecodedText(s)>>)
  <2> DEFINE x == DecodedText(t)
             y == DecodedText(s)
  <2>1. CASE Cut(x, y)
    BY <1>4, <2>1, CutIsPrefix
  <2>2. CASE \E a : Cut(a, y) /\ x = a \o Replacement
    <3>1. PICK a : Cut(a, y) /\ x = a \o Replacement
      BY <2>2
    <3> HIDE DEF x, y
    <3>2. a \in Octets /\ Replacement \in Octets /\ Len(Replacement) = 3
      BY <3>1 DEF Cut, Replacement, Octets
    <3>3. /\ x \in Octets /\ Len(x) = Len(a) + 3 /\ Len(a) \in Nat
          /\ \A i \in 1..Len(a) : x[i] = a[i]
      <4> DEFINE z == a \o Replacement
      <4>1. /\ z \in Octets /\ Len(z) = Len(a) + Len(Replacement)
            /\ \A i \in 1..Len(a) : z[i] = a[i]
        BY <3>2, JoinedOctets, Zenon
      <4>2. Len(a) \in Nat
        BY <3>2, OctetFacts
      <4>3. x = z
        BY <3>1
      <4> HIDE DEF z
      <4> QED BY <3>2, <4>1, <4>2, <4>3
    <3>4. Len(a) \in 0..Len(x)
      BY <3>3
    <3>5. /\ SubSeq(x, 1, Len(a)) \in Octets /\ Len(SubSeq(x, 1, Len(a))) = Len(a)
          /\ \A i \in 1..Len(a) : SubSeq(x, 1, Len(a))[i] = x[i]
      BY <3>3, <3>4, FirstFacts
    <3>6. SubSeq(x, 1, Len(a)) = a
      BY <3>2, <3>3, <3>5, SameSeq
    <3>7. Prefix(a, y)
      BY <3>1, CutIsPrefix
    <3>8. PayloadBegins(<<"text", x>>, <<"text", y>>)
      BY <3>1, <3>4, <3>6, <3>7 DEF PayloadBegins
    <3> QED BY <3>8 DEF x, y
  <2> QED BY <2>1, <2>2, DecodedCut
<1>6. CASE t = <<>>
  BY <1>1, <1>6, NothingAgrees
<1>7. CASE t # <<>> /\ text
  BY <1>1, <1>2, <1>3, <1>5, <1>7
<1>8. CASE t # <<>> /\ ~text
  <2>1. PayloadBegins(<<"binary", t>>, <<"binary", s>>)
    BY <1>4, CutIsPrefix
  <2> QED BY <1>1, <1>2, <1>3, <1>8, <2>1
<1> QED BY <1>6, <1>7, <1>8

\* A payload has one field at most.
LEMMA PayloadDomain ==
  ASSUME NEW s, NEW part, NEW choice
  PROVE  DOMAIN ReadPayload(s, part, choice) \subseteq {"payload"}
<1>1. DOMAIN <<>> = {}
  OBVIOUS
<1>2. \A v : DOMAIN [payload |-> v] = {"payload"}
  OBVIOUS
<1> QED BY <1>1, <1>2 DEF ReadPayload

\* The fields of the head of a PUBLISH.
LEMMA PublishPlain ==
  ASSUME NEW w, NEW head
  PROVE  Plain(PublishHead(w, head))
<1>1. \A f, g : Plain(f) /\ Plain(g) => Plain(f ++ g)
  <2> SUFFICES ASSUME NEW f, NEW g, Plain(f), Plain(g) PROVE Plain(f ++ g)
    OBVIOUS
  <2>1. DOMAIN (f ++ g) = DOMAIN f \cup DOMAIN g
    BY MoreFields
  <2> QED BY <2>1 DEF Plain
<1>2. Plain(<<>>)
  <2>1. DOMAIN <<>> = {}
    OBVIOUS
  <2> QED BY <2>1 DEF Plain
<1>3. /\ Plain([type |-> w.type, topic |-> head[1]]) /\ Plain([dup |-> TRUE])
      /\ Plain([retain |-> TRUE])
      /\ Plain([qos |-> QoSOf(w.flags, 2), packet_identifier |-> head[2]])
  BY DEF Plain, Lists
<1> DEFINE a == [type |-> w.type, topic |-> head[1]]
           b == IF Flag(w.flags, 8) THEN [dup |-> TRUE] ELSE <<>>
           c == IF Flag(w.flags, 1) THEN [retain |-> TRUE] ELSE <<>>
           d == IF QoSOf(w.flags, 2) # 0
                THEN [qos |-> QoSOf(w.flags, 2), packet_identifier |-> head[2]] ELSE <<>>
<1>4. Plain(a) /\ Plain(b) /\ Plain(c) /\ Plain(d)
  BY <1>2, <1>3
<1>5. PublishHead(w, head) = a ++ b ++ c ++ d
  BY DEF PublishHead
<1> HIDE DEF a, b, c, d
<1> QED BY <1>1, <1>4, <1>5

\* The kinds in the body of a PUBLISH, of which the properties are the last.
LEMMA PublishKindsFacts ==
  ASSUME NEW w
  PROVE  /\ Len(PublishKinds(w)) \in {2, 3}
         /\ QoSOf(w.flags, 2) # 0 => Len(PublishKinds(w)) = 3
         /\ PublishKinds(w)[Len(PublishKinds(w))] = "properties"
         /\ \A i \in 1..Len(PublishKinds(w)) :
              i < Len(PublishKinds(w)) => PublishKinds(w)[i] \in Kinds
BY DEF PublishKinds, Kinds

\* PUBLISH,
LEMMA PublishAgrees ==
  ASSUME NEW u, NEW w, CutOff(u, w), NEW choice,
         ReadPublish(u, choice).ok, ReadPublish(w, choice).ok
  PROVE  Agrees(ReadPublish(u, choice).v, ReadPublish(w, choice).v)
<1> DEFINE kinds == PublishKinds(w)
           n == Len(kinds)
           o == ReadAll(kinds, u.body)
           q == ReadAll(kinds, w.body)
           r == PublishHead(w, q.v)
           x == ReadPayload(o.rest, o.v[n], choice)
           y == ReadPayload(q.rest, q.v[n], choice)
<1>0. u.type = w.type /\ u.flags = w.flags /\ Cut(u.body, w.body)
  BY DEF CutOff
<1>1. PublishKinds(u) = kinds /\ \A head : PublishHead(u, head) = PublishHead(w, head)
  BY <1>0 DEF PublishKinds, PublishHead
<1>2. /\ o.ok /\ q.ok
      /\ ReadPublish(u, choice).v
           = PublishHead(w, o.v) ++ Last(o.v) ++ ReadPayload(o.rest, Last(o.v), choice)
      /\ ReadPublish(w, choice).v = r ++ Last(q.v) ++ ReadPayload(q.rest, Last(q.v), choice)
  BY <1>1, PublishUnfolds
<1>3. /\ n \in {2, 3} /\ (QoSOf(w.flags, 2) # 0 => n = 3)
      /\ kinds[n] = "properties" /\ \A i \in 1..n : i < n => kinds[i] \in Kinds
  BY PublishKindsFacts
<1>4. /\ \A i \in 1..n : i < n => o.v[i] = q.v[i]
      /\ Cut(o.rest, q.rest) /\ Plain(q.v[n])
      /\ o.v[n] = q.v[n] \/ (o.v[n] = <<>> /\ o.rest = <<>>)
  <2>1. n \in Nat /\ n > 0
    BY <1>3
  <2> QED BY <1>0, <1>2, <1>3, <2>1, LastFollows
<1>5. Len(o.v) = n /\ Len(q.v) = n
  <2>1. u.body \in Octets /\ w.body \in Octets
    BY <1>0 DEF Cut
  <2>2. \A i \in 1..n : kinds[i] \in AllKinds
    BY <1>3 DEF AllKinds
  <2>3. n \in Nat
    BY <1>3
  <2> QED BY <1>2, <2>1, <2>2, <2>3, AllRead
<1>6. Last(o.v) = o.v[n] /\ Last(q.v) = q.v[n]
  BY <1>5 DEF Last
<1>7. PublishHead(w, o.v) = r
  <2> HIDE DEF o, q, n, kinds
  <2>0. 1 \in 1..n /\ 1 < n /\ (n = 3 => 2 \in 1..n /\ 2 < n)
    BY <1>3
  <2>1. o.v[1] = q.v[1] /\ (QoSOf(w.flags, 2) # 0 => o.v[2] = q.v[2])
    BY <1>3, <1>4, <2>0
  <2> QED BY <2>1 DEF PublishHead
<1>8. /\ ReadPublish(u, choice).v = r ++ o.v[n] ++ x
      /\ ReadPublish(w, choice).v = r ++ q.v[n] ++ y
  BY <1>2, <1>6, <1>7
<1>9. Agrees(r ++ o.v[n], r ++ q.v[n])
  <2>1. Plain(r)
    BY PublishPlain
  <2> HIDE DEF r, o, q, n
  <2> QED BY <1>4, <2>1, PartsAgree
<1>10. DOMAIN (r ++ q.v[n]) \cap {"payload"} = {}
  <2>1. Plain(r) /\ Plain(q.v[n])
    BY <1>4, PublishPlain
  <2> DEFINE c == q.v[n]
  <2> HIDE DEF r, c
  <2>2. DOMAIN (r ++ c) = DOMAIN r \cup DOMAIN c
    BY MoreFields
  <2>3. DOMAIN (r ++ c) \cap {"payload"} = {}
    BY <2>1, <2>2 DEF Plain, c
  <2> QED BY <2>3 DEF c
<1>11. Agrees(x, y)
  <2>1. CASE o.v[n] = q.v[n]
    BY <1>4, <2>1, PayloadAgrees
  <2>2. CASE o.rest = <<>>
    <3>1. x = <<>>
      BY <2>2 DEF ReadPayload
    <3> HIDE DEF x, y
    <3> QED BY <3>1, NothingAgrees
  <2> QED BY <1>4, <2>1, <2>2
<1>12. DOMAIN x \subseteq {"payload"}
  BY PayloadDomain
<1> DEFINE a == r ++ o.v[n]
           b == r ++ q.v[n]
<1>13. Agrees(a, b) /\ DOMAIN b \cap DOMAIN x \subseteq DOMAIN a
  BY <1>9, <1>10, <1>12
<1>14. ReadPublish(u, choice).v = a ++ x /\ ReadPublish(w, choice).v = b ++ y
  BY <1>8
<1> HIDE DEF a, b, x, y
<1> QED BY <1>11, <1>13, <1>14, AgreesTogether

\* The values made of the first elements are the first of those made of them all.
LEMMA MadePrefix ==
  ASSUME NEW type, NEW a, NEW b, Begins(b, a)
  PROVE  Prefix([i \in 1..Len(a) |-> Entry(type, a[i])], [i \in 1..Len(b) |-> Entry(type, b[i])])
<1> DEFINE m == Len(a)
           n == Len(b)
           e(v) == Entry(type, v)
           x == [i \in 1..m |-> e(a[i])]
           y == [i \in 1..n |-> e(b[i])]
           S == {e(b[i]) : i \in 1..n} \cup {e(a[i]) : i \in 1..m}
<1>1. m \in Nat /\ n \in Nat /\ m <= n /\ \A i \in 1..m : a[i] = b[i]
  BY DEF Begins, IsArray, SameUpTo
<1>2. x \in [1..m -> S] /\ y \in [1..n -> S]
  OBVIOUS
<1>3. x \in Seq(S) /\ Len(x) = m
  <2> HIDE DEF x, y, m, n, S
  <2> QED BY <1>1, <1>2, IsSequence, ZenonT(30)
<1>4. y \in Seq(S) /\ Len(y) = n
  <2> HIDE DEF x, y, m, n, S
  <2> QED BY <1>1, <1>2, IsSequence, ZenonT(30)
<1>5. \A i \in 1..m : x[i] = y[i]
  <2> HIDE DEF e
  <2>1. \A i \in 1..m : i \in 1..n /\ a[i] = b[i]
    BY <1>1
  <2> QED BY <2>1
<1> HIDE DEF x, y, m, n, S
<1>6. \A i \in 1..Len(x) : y[0 + i] = x[i]
  BY <1>1, <1>3, <1>5
<1>7. SubSeq(y, 0 + 1, 0 + Len(x)) = x
  <2>1. 0 \in Nat /\ 0 + Len(x) <= Len(y)
    BY <1>1, <1>3, <1>4
  <2> QED BY <1>3, <1>4, <1>6, <2>1, PartIs
<1>8. Prefix(x, y)
  <2>1. 0 + 1 = 1 /\ 0 + Len(x) = Len(x)
    BY <1>1, <1>3
  <2>2. SubSeq(y, 1, Len(x)) = x
    BY <1>7, <2>1
  <2> QED BY <1>1, <1>3, <1>4, <2>2 DEF Prefix
<1> QED BY <1>8 DEF x, y, m, n

\* The entries of the beginning are a prefix of the entries.
LEMMA EntriesAgree ==
  ASSUME NEW type \in 8..11, NEW a, NEW b, Begins(b, a)
  PROVE  LET of(items) == Single(ListOf(type)[1], [i \in 1..Len(items) |-> Entry(type, items[i])])
         IN  Agrees(of(a), of(b)) /\ DOMAIN of(a) = {ListOf(type)[1]}
<1> DEFINE x == [i \in 1..Len(a) |-> Entry(type, a[i])]
           y == [i \in 1..Len(b) |-> Entry(type, b[i])]
           name == ListOf(type)[1]
<1>1. Prefix(x, y)
  BY MadePrefix
<1>2. name \in Lists /\ name # "payload"
  BY ListKinds DEF Lists
<1> HIDE DEF x, y, name
<1>3. /\ DOMAIN Single(name, x) = {name} /\ Single(name, x)[name] = x
      /\ DOMAIN Single(name, y) = {name} /\ Single(name, y)[name] = y
  BY DEF Single
<1>4. Agrees(Single(name, x), Single(name, y))
  BY <1>1, <1>2, <1>3 DEF Agrees, Lists
<1> QED BY <1>3, <1>4 DEF x, y, name

\* The properties of a SUBSCRIBE are a part, too.
LEMMA SubscribePlain ==
  ASSUME NEW part
  PROVE  /\ DOMAIN SubscribeProperties(part) \subseteq {"properties"}
         /\ SubscribeProperties(<<>>) = <<>>
<1>1. DOMAIN <<>> = {}
  OBVIOUS
<1>2. \A v : DOMAIN [properties |-> v] = {"properties"}
  OBVIOUS
<1>3. Given(<<>>) = <<>>
  BY <1>1 DEF Given, Optional
<1> QED BY <1>1, <1>2, <1>3 DEF SubscribeProperties

\* The identifier and the properties in front of a list.
LEMMA HeadFollows ==
  ASSUME NEW t, NEW s, Cut(t, s), ReadAll(HeadKinds, t).ok, ReadAll(HeadKinds, s).ok
  PROVE  LET o == ReadAll(HeadKinds, t)
             q == ReadAll(HeadKinds, s)
         IN  /\ o.v[1] = q.v[1] /\ Plain(q.v[2]) /\ Cut(o.rest, q.rest)
             /\ o.v[2] = q.v[2] \/ o.v[2] = <<>>
<1> DEFINE n == Len(HeadKinds)
           o == ReadAll(HeadKinds, t)
           q == ReadAll(HeadKinds, s)
<1>1. n = 2 /\ HeadKinds[2] = "properties" /\ HeadKinds[1] \in Kinds
  BY DEF HeadKinds, Kinds
<1>2. n \in Nat /\ n > 0 /\ HeadKinds[n] = "properties"
  BY <1>1
<1>3. \A i \in 1..n : i < n => HeadKinds[i] \in Kinds
  BY <1>1
<1>4. /\ \A i \in 1..n : i < n => o.v[i] = q.v[i]
      /\ Cut(o.rest, q.rest)
      /\ Plain(q.v[n])
      /\ o.v[n] = q.v[n] \/ o.v[n] = <<>>
  BY <1>2, <1>3, LastFollows
<1> QED BY <1>1, <1>4

\* SUBSCRIBE, SUBACK, UNSUBSCRIBE and UNSUBACK.
LEMMA ListAgrees ==
  ASSUME NEW u, NEW w, CutOff(u, w), IsList(w.type), ReadList(u).ok, ReadList(w).ok
  PROVE  Agrees(ReadList(u).v, ReadList(w).v)
<1> DEFINE kinds == ListOf(w.type)[2]
           o == ReadAll(HeadKinds, u.body)
           q == ReadAll(HeadKinds, w.body)
           l == ReadMany(kinds, o.rest)
           m == ReadMany(kinds, q.rest)
           r == [type |-> w.type, packet_identifier |-> q.v[1]]
           part(v) == IF w.type = Type.Subscribe THEN SubscribeProperties(v) ELSE v
           of(items) == Single(ListOf(w.type)[1],
                               [i \in 1..Len(items) |-> Entry(w.type, items[i])])
<1>0. u.type = w.type /\ Cut(u.body, w.body) /\ w.type \in 8..11
  BY TypeFacts DEF CutOff, IsList
<1>1. /\ o.ok /\ l.ok
      /\ ReadList(u).v = [type |-> w.type, packet_identifier |-> o.v[1]] ++ part(o.v[2]) ++ of(l.v)
  BY <1>0, ListUnfolds
<1>2. q.ok /\ m.ok /\ ReadList(w).v = r ++ part(q.v[2]) ++ of(m.v)
  BY ListUnfolds
<1>3. /\ o.v[1] = q.v[1] /\ Plain(q.v[2]) /\ Cut(o.rest, q.rest)
      /\ o.v[2] = q.v[2] \/ o.v[2] = <<>>
  BY <1>0, <1>1, <1>2, HeadFollows
<1>4. IsPart(q.v[2])
  <2>1. Len(HeadKinds) = 2 /\ \A i \in 1..2 : HeadKinds[i] \in AllKinds
    BY DEF HeadKinds, AllKinds, Kinds
  <2>2. w.body \in Octets
    BY <1>0 DEF Cut
  <2>3. \A i \in 1..2 : OfKind(HeadKinds[i], q.v[i])
    BY <1>2, <2>1, <2>2, AllRead
  <2> QED BY <2>3, KindHolds DEF HeadKinds
<1> DEFINE a == part(o.v[2])
           b == part(q.v[2])
<1>5. /\ DOMAIN b \subseteq {"properties"}
      /\ a = b \/ a = <<>>
  <2>1. CASE w.type = Type.Subscribe
    BY <1>3, <2>1, SubscribePlain
  <2>2. CASE w.type # Type.Subscribe
    BY <1>3, <1>4, <2>2, PartPlain
  <2> QED BY <2>1, <2>2
<1>6. Begins(m.v, l.v)
  BY <1>0, <1>1, <1>2, <1>3, ListKinds, ManyFollow
<1>7. Agrees(of(l.v), of(m.v)) /\ DOMAIN of(l.v) = {ListOf(w.type)[1]}
  <2> DEFINE x == l.v
             y == m.v
  <2>1. Begins(y, x)
    BY <1>6
  <2> HIDE DEF x, y
  <2>2. Agrees(of(x), of(y)) /\ DOMAIN of(x) = {ListOf(w.type)[1]}
    BY <1>0, <2>1, EntriesAgree
  <2> QED BY <2>2 DEF x, y
<1>8. ReadList(u).v = r ++ a ++ of(l.v) /\ ReadList(w).v = r ++ b ++ of(m.v)
  BY <1>1, <1>2, <1>3
<1>9. DOMAIN r = {"type", "packet_identifier"} /\ Plain(r)
  BY DEF Plain, Lists
<1> DEFINE c == of(l.v)
           d == of(m.v)
<1>10. Agrees(c, d) /\ DOMAIN c = {ListOf(w.type)[1]} /\ ListOf(w.type)[1] \in Lists
  BY <1>0, <1>7, ListKinds DEF Lists
<1>11. ReadList(u).v = r ++ a ++ c /\ ReadList(w).v = r ++ b ++ d
  BY <1>8
<1> HIDE DEF r, a, b, c, d
<1>12. Plain(b)
  BY <1>5 DEF Plain, Lists
<1>13. Agrees(r ++ a, r ++ b)
  BY <1>5, <1>9, <1>12, PartsAgree
<1>14. DOMAIN (r ++ b) \cap DOMAIN c = {}
  <2>1. DOMAIN (r ++ b) = DOMAIN r \cup DOMAIN b
    BY MoreFields
  <2>2. DOMAIN (r ++ b) \cap Lists = {}
    BY <1>5, <1>9, <2>1 DEF Lists
  <2> QED BY <1>10, <2>2
<1>15. Agrees((r ++ a) ++ c, (r ++ b) ++ d)
  BY <1>10, <1>13, <1>14, AgreesTogether
<1> QED BY <1>11, <1>15

\* Plain fields are so together.
LEMMA PlainTogether ==
  ASSUME NEW f, NEW g, Plain(f), Plain(g)
  PROVE  Plain(f ++ g)
<1>1. DOMAIN (f ++ g) = DOMAIN f \cup DOMAIN g
  BY MoreFields
<1> QED BY <1>1 DEF Plain

\* The fields in front of the will.
LEMMA ConnectFollows ==
  ASSUME NEW t, NEW s, Cut(t, s), ReadAll(ConnectKinds, t).ok, ReadAll(ConnectKinds, s).ok
  PROVE  LET o == ReadAll(ConnectKinds, t)
             q == ReadAll(ConnectKinds, s)
         IN  o.v = q.v /\ Cut(o.rest, q.rest) /\ Plain(q.v[5])
<1> DEFINE kinds == ConnectKinds
           n == Len(kinds)
           o == ReadAll(kinds, t)
           q == ReadAll(kinds, s)
<1>1. /\ n = 6 /\ kinds[5] = "properties" /\ kinds[6] = "text"
      /\ \A i \in 1..6 : kinds[i] \in AllKinds
      /\ \A i \in 1..6 : i # 5 => kinds[i] \in Kinds
      /\ "properties" \notin Kinds
  BY DEF ConnectKinds, AllKinds, Kinds
<1> HIDE DEF kinds
<1>2. n \in Nat /\ \A i \in 1..n : kinds[i] \in AllKinds
  BY <1>1
<1>3. \A i \in 1..n : kinds[i] = "properties" /\ (i + 1) \in 1..n => kinds[i + 1] \in Kinds
  <2>1. \A i \in 1..n : kinds[i] = "properties" => i = 5
    BY <1>1
  <2>2. 5 + 1 = 6 /\ kinds[6] \in Kinds
    BY <1>1
  <2> QED BY <2>1, <2>2
<1>4. ReadAll(kinds, t).ok /\ ReadAll(kinds, s).ok
  BY DEF kinds
<1>5. \/ o.v = q.v /\ Cut(o.rest, q.rest)
      \/ kinds[n] = "properties"
  BY <1>2, <1>3, <1>4, AllFollow
<1>6. o.v = q.v /\ Cut(o.rest, q.rest)
  BY <1>1, <1>5
<1>7. Plain(q.v[5])
  <2>1. t \in Octets /\ s \in Octets
    BY DEF Cut
  <2>2. \A i \in 1..n : OfKind(kinds[i], q.v[i])
    BY <1>2, <1>4, <2>1, AllRead
  <2>3. 5 \in 1..n
    BY <1>1
  <2>4. OfKind("properties", q.v[5])
    BY <1>1, <2>2, <2>3
  <2>5. IsPart(q.v[5])
    BY <2>4, KindHolds
  <2> QED BY <2>5, PartPlain
<1> QED BY <1>6, <1>7 DEF kinds

\* The name and the password.
LEMMA LoginFollows ==
  ASSUME NEW flags, NEW t, NEW s, Cut(t, s), ReadLogin(flags, t).ok, ReadLogin(flags, s).ok
  PROVE  ReadLogin(flags, t).v = ReadLogin(flags, s).v /\ Plain(ReadLogin(flags, s).v)
<1> DEFINE names == LoginNames(flags)
           n == Len(names)
           kinds == [i \in 1..n |-> "text"]
           o == ReadAll(kinds, t)
           q == ReadAll(kinds, s)
<1>1. /\ o.ok /\ ReadLogin(flags, t).v = [m \in ToSet(names) |-> o.v[LoginAt(flags, m)]]
      /\ q.ok /\ ReadLogin(flags, s).v = [m \in ToSet(names) |-> q.v[LoginAt(flags, m)]]
  BY LoginUnfolds
<1>2. n \in Nat /\ ToSet(names) \subseteq {"username", "password"}
  <2>1. names \in Seq({"username", "password"})
    BY LoginFacts
  <2> HIDE DEF names
  <2>2. n \in Nat
    BY <2>1
  <2> QED BY <2>2, LoginFacts DEF names
<1>3. /\ Len(kinds) = n
      /\ \A i \in 1..n : kinds[i] = "text" /\ kinds[i] \in Kinds /\ kinds[i] \in AllKinds
  <2> HIDE DEF n
  <2> QED BY <1>2, TextKinds
<1> HIDE DEF n, kinds, names
<1>4. \A i \in 1..n : kinds[i] = "properties" /\ (i + 1) \in 1..n => kinds[i + 1] \in Kinds
  BY <1>3
<1>5. \/ o.v = q.v
      \/ n > 0 /\ kinds[n] = "properties"
  BY <1>1, <1>2, <1>3, <1>4, AllFollow
<1>6. o.v = q.v
  <2>1. n > 0 => n \in 1..n
    BY <1>2
  <2> QED BY <1>3, <1>5, <2>1
<1>7. ReadLogin(flags, t).v = ReadLogin(flags, s).v
  BY <1>1, <1>6
<1>8. DOMAIN ReadLogin(flags, s).v \subseteq {"username", "password"}
  BY <1>1, <1>2
<1> QED BY <1>7, <1>8 DEF Plain, Lists

\* A will that is announced is there.
LEMMA WillThere ==
  ASSUME NEW flags, NEW s, ReadWill(flags, s).ok, Flag(flags, 4)
  PROVE  "will" \in DOMAIN ReadWill(flags, s).v
<1> DEFINE o == ReadAll(WillKinds, s)
           will == [qos |-> QoSOf(flags, 8), retain |-> Flag(flags, 32),
                    topic |-> o.v[2], payload |-> ReadWillPayload(o.rest).v] ++ o.v[1]
           p == [will |-> will]
<1>1. ReadWill(flags, s) = Got(p, ReadWillPayload(o.rest).rest)
  BY WillUnfolds
<1>2. DOMAIN p = {"will"}
  OBVIOUS
<1> HIDE DEF p
<1>3. ReadWill(flags, s).v = p
  BY <1>1, OutcomeFacts
<1> QED BY <1>2, <1>3

\* What one of the parts has they have together.
LEMMA FieldBetween ==
  ASSUME NEW f, NEW g, NEW h, NEW n, n \in DOMAIN g
  PROVE  n \in DOMAIN (f ++ g ++ h)
<1>1. DOMAIN (f ++ g) = DOMAIN f \cup DOMAIN g
  BY MoreFields
<1>2. DOMAIN (f ++ g ++ h) = DOMAIN (f ++ g) \cup DOMAIN h
  BY MoreFields
<1> QED BY <1>1, <1>2

\* A CONNECT without a will is read as it was written, or not at all.
LEMMA ConnectAgrees ==
  ASSUME NEW u, NEW w, CutOff(u, w), ReadConnect(u).ok, ReadConnect(w).ok,
         "will" \notin DOMAIN ReadConnect(w).v
  PROVE  Agrees(ReadConnect(u).v, ReadConnect(w).v)
<1> DEFINE o == ReadAll(ConnectKinds, u.body)
           l == ReadWill(o.v[3], o.rest)
           k == ReadLogin(o.v[3], l.rest)
           q == ReadAll(ConnectKinds, w.body)
           m == ReadWill(q.v[3], q.rest)
           j == ReadLogin(q.v[3], m.rest)
           r == [type |-> w.type, protocol_name |-> MQTT, protocol_version |-> 5,
                 clean_start |-> Flag(q.v[3], 2), keepalive |-> q.v[4], client_id |-> q.v[6]]
<1>0. u.type = w.type /\ Cut(u.body, w.body) /\ u.body \in Octets /\ w.body \in Octets
  BY DEF CutOff, Cut
<1>1. /\ o.ok /\ l.ok /\ k.ok
      /\ ReadConnect(u).v
           = [type |-> w.type, protocol_name |-> MQTT, protocol_version |-> 5,
              clean_start |-> Flag(o.v[3], 2), keepalive |-> o.v[4],
              client_id |-> o.v[6]] ++ o.v[5] ++ l.v ++ k.v
  BY <1>0, ConnectUnfolds
<1>2. q.ok /\ m.ok /\ j.ok /\ ReadConnect(w).v = r ++ q.v[5] ++ m.v ++ j.v
  BY ConnectUnfolds
<1>3. o.v = q.v /\ Cut(o.rest, q.rest) /\ Plain(q.v[5])
  BY <1>0, <1>1, <1>2, ConnectFollows
<1>4. m = Got(<<>>, q.rest) /\ l = Got(<<>>, o.rest)
  <2>1. ~Flag(q.v[3], 4)
    <3> SUFFICES ASSUME Flag(q.v[3], 4) PROVE FALSE
      OBVIOUS
    <3>1. "will" \in DOMAIN m.v
      BY <1>2, WillThere
    <3>2. "will" \in DOMAIN (r ++ q.v[5] ++ m.v ++ j.v)
      BY <3>1, FieldBetween
    <3> QED BY <1>2, <3>2
  <2> QED BY <1>1, <1>2, <1>3, <2>1, WillUnfolds
<1>5. m.v = <<>> /\ l.v = <<>> /\ m.rest = q.rest /\ l.rest = o.rest
  BY <1>4, OutcomeFacts
<1>6. k.v = j.v /\ Plain(j.v)
  BY <1>1, <1>2, <1>3, <1>5, LoginFollows
<1>7. ReadConnect(u).v = r ++ q.v[5] ++ <<>> ++ j.v
  BY <1>1, <1>3, <1>5, <1>6
<1>8. ReadConnect(w).v = r ++ q.v[5] ++ <<>> ++ j.v
  BY <1>2, <1>5
<1>9. Plain(r) /\ Plain(<<>>)
  BY DEF Plain, Lists
<1> DEFINE c == q.v[5]
           d == j.v
<1>10. Plain(c) /\ Plain(d) /\ ReadConnect(w).v = r ++ c ++ <<>> ++ d
  BY <1>3, <1>6, <1>8
<1> HIDE DEF r, c, d
<1>11. Plain(r ++ c ++ <<>> ++ d)
  <2>1. Plain(r ++ c)
    BY <1>9, <1>10, PlainTogether
  <2>2. Plain(r ++ c ++ <<>>)
    BY <1>9, <2>1, PlainTogether
  <2> QED BY <1>10, <2>2, PlainTogether
<1>12. Agrees(ReadConnect(w).v, ReadConnect(w).v)
  BY <1>10, <1>11, SameAgrees
<1>13. ReadConnect(u).v = ReadConnect(w).v
  BY <1>7, <1>8
<1> QED BY <1>12, <1>13

\* Whatever the type.
LEMMA CutOffAgrees ==
  ASSUME NEW u, NEW w, CutOff(u, w), w.type \in 0..15, NEW choice,
         DeserializePacket(u, choice).ok, DeserializePacket(w, choice).ok,
         "will" \notin DOMAIN DeserializePacket(w, choice).v
  PROVE  Agrees(DeserializePacket(u, choice).v, DeserializePacket(w, choice).v)
<1> DEFINE x == DeserializePacket(u, choice)
           y == DeserializePacket(w, choice)
<1>1. u.type = w.type /\ u.type \in 0..15
  BY DEF CutOff
<1>2. CASE w.type = 1
  <2>1. x = ReadConnect(u) /\ y = ReadConnect(w)
    BY <1>1, <1>2, ReaderOf
  <2> QED BY <2>1, ConnectAgrees
<1>3. CASE w.type = 2
  <2>1. x = ReadConnAck(u) /\ y = ReadConnAck(w)
    BY <1>1, <1>3, ReaderOf
  <2> QED BY <2>1, ConnAckAgrees
<1>4. CASE w.type = 3
  <2>1. x = ReadPublish(u, choice) /\ y = ReadPublish(w, choice)
    BY <1>1, <1>4, ReaderOf
  <2> QED BY <2>1, PublishAgrees
<1>5. CASE w.type \in 4..7
  <2>1. x = ReadAck(u) /\ y = ReadAck(w)
    BY <1>1, <1>5, ReaderOf
  <2> QED BY <2>1, AckAgrees
<1>6. CASE w.type \in 8..11
  <2>1. x = ReadList(u) /\ y = ReadList(w) /\ IsList(w.type)
    BY <1>1, <1>6, ReaderOf, TypeFacts DEF IsList
  <2> QED BY <2>1, ListAgrees
<1>7. CASE w.type \in {14, 15}
  <2>1. x = ReadEnd(u) /\ y = ReadEnd(w)
    BY <1>1, <1>7, ReaderOf
  <2> QED BY <2>1, EndAgrees
<1>8. CASE w.type \in {12, 13}
  <2> DEFINE p == [type |-> w.type]
  <2>1. x = Got(p, <<>>) /\ y = Got(p, <<>>)
    BY <1>1, <1>8, ReaderOf
  <2>2. Plain(p)
    BY DEF Plain, Lists
  <2> HIDE DEF p
  <2> QED BY <2>1, <2>2, OutcomeFacts, SameAgrees
<1>9. CASE w.type = 0
  <2>1. y = Refused
    BY <1>9, ReaderOf
  <2> QED BY <2>1, OutcomeFacts
<1> QED BY <1>1, <1>2, <1>3, <1>4, <1>5, <1>6, <1>7, <1>8, <1>9

\* A body that is cut off anywhere is refused, or read as a packet without some of its
\* fields and with those that are left as they were (CutBodyAgrees).
THEOREM CutBodiesAgree == Spec => []CutBodyAgrees
<1>1. TypeOK => CutBodyAgrees
  <2> SUFFICES ASSUME TypeOK, state = "sent",
                      DeserializePacket(wire, options).ok,
                      "will" \notin DOMAIN DeserializePacket(wire, options).v,
                      NEW n \in 0..(Len(wire.body) - 1),
                      DeserializePacket([wire EXCEPT !.body = SubSeq(@, 1, n)], options).ok
               PROVE  Agrees(DeserializePacket([wire EXCEPT !.body = SubSeq(@, 1, n)], options).v,
                             DeserializePacket(wire, options).v)
    BY DEF CutBodyAgrees, CutsAgree
  <2> DEFINE u == [wire EXCEPT !.body = SubSeq(@, 1, n)]
             s == wire.body
  <2>1. wire \in WireFormat
    BY DEF TypeOK
  <2>2. wire.type \in 0..15 /\ s \in Octets
    BY <2>1 DEF WireFormat
  <2>3. u.type = wire.type /\ u.flags = wire.flags /\ u.body = SubSeq(s, 1, n)
    BY <2>1 DEF WireFormat
  <2>4. n \in 0..Len(s) /\ n \in Nat /\ n <= Len(s)
    BY <2>2 DEF Octets
  <2> HIDE DEF s
  <2>5. Cut(SubSeq(s, 1, n), s)
    BY <2>2, <2>4, FirstFacts DEF Cut
  <2>6. CutOff(u, wire)
    <3> HIDE DEF u
    <3> QED BY <2>3, <2>5 DEF CutOff, s
  <2> HIDE DEF u
  <2>7. DeserializePacket(u, options).ok
    BY DEF u
  <2>8. Agrees(DeserializePacket(u, options).v, DeserializePacket(wire, options).v)
    BY <2>2, <2>6, <2>7, CutOffAgrees
  <2> QED BY <2>8 DEF u
<1> QED BY <1>1, PacketsWellTyped, PTL
-----------------------------------------------------------------------------
(* The filters of a SUBSCRIBE.                                             *)

\* A wildcard.
Wild(c) == c = Hash \/ c = Plus

\* A level that AsTopicFilter accepts, at the end or before it.
FineLevel(level, last) ==
  \/ level = <<Hash>> /\ last
  \/ level = <<Plus>>
  \/ ~Includes(level, Hash) /\ ~Includes(level, Plus)

\* All levels are accepted.
FineLevels(levels) == \A k \in 1..Len(levels) : FineLevel(levels[k], k = Len(levels))

\* WellFormed of the first n octets.
FineUpTo(text, n) ==
  \A i \in 1..n : /\ Wild(text[i]) => /\ (i = 1 \/ text[i - 1] = Slash)
                                     /\ (i = n \/ text[i + 1] = Slash)
                  /\ text[i] = Hash => i = n

\* What the levels of the first n octets tell of the last of them.
LevelsTell(levels, text, n) ==
  /\ levels \in Seq(Octets) /\ Len(levels) > 0
  /\ (levels[Len(levels)] = <<>>) <=> (n = 0 \/ text[n] = Slash)
  /\ levels[Len(levels)] # <<>> => levels[Len(levels)][Len(levels[Len(levels)])] = text[n]
  /\ FineLevels(levels) <=> FineUpTo(text, n)

\* No character of a level, or one more.
LEMMA IncludesFacts ==
  /\ \A c : ~Includes(<<>>, c)
  /\ \A level \in Octets : \A c, d : Includes(Append(level, d), c) <=> Includes(level, c) \/ d = c
<1>1. ASSUME NEW c PROVE ~Includes(<<>>, c)
  BY DEF Includes
<1>2. ASSUME NEW level \in Octets, NEW c, NEW d
      PROVE  Includes(Append(level, d), c) <=> Includes(level, c) \/ d = c
  <2> DEFINE n == Len(level)
             x == Append(level, d)
  <2>1. n \in Nat /\ Len(x) = n + 1 /\ x[n + 1] = d /\ \A i \in 1..n : x[i] = level[i]
    BY DEF Octets
  <2> HIDE DEF n, x
  <2>2. (\E i \in 1..Len(x) : x[i] = c) <=> (\E i \in 1..n : level[i] = c) \/ d = c
    <3>1. 1..Len(x) = 1..n \cup {n + 1}
      BY <2>1
    <3> QED BY <2>1, <3>1
  <2> QED BY <2>2 DEF Includes, x, n
<1> QED BY <1>1, <1>2

\* The next level begins.
LEMMA NextLevel ==
  ASSUME NEW text \in Octets, NEW n \in 0..(Len(text) - 1), NEW levels,
         LevelsTell(levels, text, n), text[n + 1] = Slash
  PROVE  LevelsTell(Append(levels, <<>>), text, n + 1)
<1> DEFINE m == Len(levels)
           last == levels[m]
           x == Append(levels, <<>>)
<1>1. n \in Nat /\ m \in Nat /\ m > 0 /\ levels \in Seq(Octets) /\ last \in Octets
  BY DEF LevelsTell
<1>2. <<>> \in Octets
  BY DEF Octets
<1>3. /\ x \in Seq(Octets) /\ Len(x) = m + 1 /\ x[m + 1] = <<>>
      /\ \A k \in 1..m : x[k] = levels[k]
  BY <1>1, <1>2
<1> HIDE DEF x
<1>4. FineLevels(x) <=> \A k \in 1..m : FineLevel(levels[k], FALSE)
  <2>1. FineLevel(<<>>, TRUE)
    BY IncludesFacts DEF FineLevel
  <2>2. 1..Len(x) = 1..m \cup {m + 1} /\ \A k \in 1..m : k # m + 1
    BY <1>1, <1>3
  <2>3. \A k \in 1..m : FineLevel(x[k], k = Len(x)) <=> FineLevel(levels[k], FALSE)
    BY <1>3, <2>2 DEF FineLevel
  <2>4. FineLevel(x[m + 1], m + 1 = Len(x))
    BY <1>3, <2>1 DEF FineLevel
  <2> QED BY <2>2, <2>3, <2>4 DEF FineLevels
<1>5. (\A k \in 1..m : FineLevel(levels[k], FALSE)) <=> FineLevels(levels) /\ last # <<Hash>>
  <2>1. \A k \in 1..m : k # m => (FineLevel(levels[k], k = m) <=> FineLevel(levels[k], FALSE))
    BY DEF FineLevel
  <2>2. FineLevel(last, FALSE) <=> FineLevel(last, TRUE) /\ last # <<Hash>>
    <3>1. Includes(<<Hash>>, Hash)
      BY DEF Includes
    <3>2. <<Hash>> # <<Plus>>
      BY DEF Hash, Plus
    <3> QED BY <3>1, <3>2 DEF FineLevel
  <2>3. m \in 1..m
    BY <1>1
  <2>4. FineLevel(levels[m], m = m) <=> FineLevel(last, TRUE)
    BY DEF FineLevel
  <2> QED BY <2>1, <2>2, <2>3, <2>4 DEF FineLevels
<1>6. FineUpTo(text, n + 1) <=> FineUpTo(text, n) /\ (n > 0 => text[n] # Hash)
  <2>1. ~Wild(text[n + 1]) /\ text[n + 1] # Hash
    BY DEF Wild, Slash, Hash, Plus
  <2>2. \A i \in 1..(n + 1) : i = n + 1 \/ i \in 1..n
    BY <1>1
  <2>3. ASSUME FineUpTo(text, n + 1) PROVE FineUpTo(text, n) /\ (n > 0 => text[n] # Hash)
    <3>1. \A i \in 1..n : i \in 1..(n + 1) /\ i # n + 1
      BY <1>1
    <3>2. \A i \in 1..n : i = n \/ i + 1 \in 1..n
      BY <1>1
    <3>3. n > 0 => n \in 1..n
      BY <1>1
    <3> QED BY <2>3, <3>1, <3>2, <3>3 DEF FineUpTo
  <2>4. ASSUME FineUpTo(text, n), n > 0 => text[n] # Hash PROVE FineUpTo(text, n + 1)
    <3>1. \A i \in 1..n : i = n => n > 0
      BY <1>1
    <3>2. \A i \in 1..n : text[i] # Hash
      BY <2>4, <3>1 DEF FineUpTo
    <3>3. \A i \in 1..n : Wild(text[i]) => (i = 1 \/ text[i - 1] = Slash) /\ text[i + 1] = Slash
      BY <2>4 DEF FineUpTo
    <3> QED BY <2>1, <2>2, <3>2, <3>3 DEF FineUpTo
  <2> QED BY <2>3, <2>4
<1>7. FineLevels(levels) => (last = <<Hash>> <=> n > 0 /\ text[n] = Hash)
  <2> SUFFICES ASSUME FineLevels(levels) PROVE last = <<Hash>> <=> n > 0 /\ text[n] = Hash
    OBVIOUS
  <2>1. FineLevel(last, TRUE)
    <3>1. m \in 1..m
      BY <1>1
    <3> QED BY <3>1 DEF FineLevels, FineLevel
  <2>2. (last = <<>>) <=> (n = 0 \/ text[n] = Slash)
    BY DEF LevelsTell
  <2>3. last # <<>> => last[Len(last)] = text[n]
    BY DEF LevelsTell
  <2>4. ASSUME last = <<Hash>> PROVE n > 0 /\ text[n] = Hash
    <3>1. last # <<>> /\ last[Len(last)] = Hash
      BY <2>4
    <3> QED BY <1>1, <2>2, <2>3, <3>1
  <2>5. ASSUME n > 0, text[n] = Hash PROVE last = <<Hash>>
    <3>1. last # <<>> /\ last[Len(last)] = Hash
      BY <1>1, <2>2, <2>3, <2>5 DEF Hash, Slash
    <3>2. Len(last) \in 1..Len(last)
      BY <1>1, <3>1 DEF Octets
    <3>3. Includes(last, Hash)
      BY <3>1, <3>2 DEF Includes
    <3>4. last # <<Plus>>
      BY <3>1 DEF Hash, Plus
    <3> QED BY <2>1, <3>3, <3>4 DEF FineLevel
  <2> QED BY <2>4, <2>5
<1>8. FineLevels(levels) <=> FineUpTo(text, n)
  BY DEF LevelsTell
<1>9. FineLevels(x) <=> FineUpTo(text, n + 1)
  BY <1>4, <1>5, <1>6, <1>7, <1>8
<1>10. Len(x) > 0 /\ x[Len(x)] = <<>> /\ n + 1 # 0
  BY <1>1, <1>3
<1>11. LevelsTell(x, text, n + 1)
  BY <1>3, <1>9, <1>10 DEF LevelsTell
<1> QED BY <1>11 DEF x

\* The last level goes on.
LEMMA SameLevel ==
  ASSUME NEW text \in Octets, NEW n \in 0..(Len(text) - 1), NEW levels,
         LevelsTell(levels, text, n), text[n + 1] # Slash
  PROVE  LevelsTell([levels EXCEPT ![Len(levels)] = Append(@, text[n + 1])], text, n + 1)
<1> DEFINE m == Len(levels)
           last == levels[m]
           c == text[n + 1]
           longer == Append(last, c)
           x == [levels EXCEPT ![m] = longer]
<1>1. /\ n \in Nat /\ m \in Nat /\ m > 0 /\ levels \in Seq(Octets) /\ last \in Octets
      /\ m \in 1..m /\ n + 1 \in 1..Len(text) /\ c \in 0..255
  <2>1. levels \in Seq(Octets) /\ m \in Nat /\ m > 0
    BY DEF LevelsTell
  <2>2. last \in Octets
    BY <2>1
  <2>3. n + 1 \in 1..Len(text)
    BY DEF Octets
  <2>4. c \in 0..255
    BY <2>3, OctetFacts
  <2> QED BY <2>1, <2>2, <2>3, <2>4
<1>2. /\ longer \in Octets /\ Len(longer) = Len(last) + 1 /\ longer[Len(last) + 1] = c
      /\ Len(last) \in Nat /\ (last = <<>> <=> Len(last) = 0)
      /\ last = <<>> => longer = <<c>>
      /\ longer # <<>>
  <2> HIDE DEF last, c
  <2>1. last \in Seq(0..255) /\ c \in 0..255
    BY <1>1 DEF Octets
  <2>2. /\ longer \in Seq(0..255) /\ Len(longer) = Len(last) + 1
        /\ longer[Len(last) + 1] = c /\ Len(last) \in Nat
    BY <2>1
  <2>3. last = <<>> <=> Len(last) = 0
    BY <2>1
  <2>4. last = <<>> => longer = <<c>>
    OBVIOUS
  <2>5. longer # <<>>
    BY <2>2
  <2> QED BY <2>2, <2>3, <2>4, <2>5 DEF Octets
<1>3. /\ x \in Seq(Octets) /\ Len(x) = m /\ x[m] = longer
      /\ \A k \in 1..m : k # m => x[k] = levels[k]
  <2> HIDE DEF longer, last, c
  <2>1. x \in Seq(Octets) /\ Len(x) = m
    BY <1>1, <1>2
  <2>2. x[m] = longer /\ \A k \in 1..m : k # m => x[k] = levels[k]
    BY <1>1
  <2> QED BY <2>1, <2>2
<1> HIDE DEF x, longer
<1> DEFINE Rest == \A k \in 1..m : k # m => FineLevel(levels[k], FALSE)
<1>4. FineLevels(x) <=> Rest /\ FineLevel(longer, TRUE)
  <2>1. \A k \in 1..m : k # m => (FineLevel(x[k], k = Len(x)) <=> FineLevel(levels[k], FALSE))
    BY <1>3 DEF FineLevel
  <2>2. FineLevel(x[m], m = Len(x)) <=> FineLevel(longer, TRUE)
    BY <1>3 DEF FineLevel
  <2> QED BY <1>1, <1>3, <2>1, <2>2 DEF FineLevels
<1>5. FineLevels(levels) <=> Rest /\ FineLevel(last, TRUE)
  <2>1. \A k \in 1..m : k # m => (FineLevel(levels[k], k = m) <=> FineLevel(levels[k], FALSE))
    BY DEF FineLevel
  <2>2. FineLevel(levels[m], m = m) <=> FineLevel(last, TRUE)
    BY DEF FineLevel
  <2> QED BY <1>1, <2>1, <2>2 DEF FineLevels
<1> HIDE DEF Rest
<1>6. FineLevels(levels) <=> FineUpTo(text, n)
  BY DEF LevelsTell
<1>7. (last = <<>>) <=> (n = 0 \/ text[n] = Slash)
  BY DEF LevelsTell
<1>8. last # <<>> => last[Len(last)] = text[n]
  BY DEF LevelsTell
<1>9. \A i \in 1..n : i \in 1..(n + 1) /\ i # n + 1 /\ (i = n \/ i + 1 \in 1..n)
  BY <1>1
<1>10. \A i \in 1..(n + 1) : i = n + 1 \/ i \in 1..n
  BY <1>1
<1>11. FineLevels(x) <=> FineUpTo(text, n + 1)
  <2>1. CASE last = <<>>
    <3>1. FineLevel(last, TRUE)
      BY <2>1, IncludesFacts DEF FineLevel
    <3>2. FineLevel(longer, TRUE)
      <4>1. longer = <<c>>
        BY <1>2, <2>1
      <4>2. ASSUME c # Hash, c # Plus PROVE ~Includes(longer, Hash) /\ ~Includes(longer, Plus)
        BY <1>2, <2>1, <4>2, IncludesFacts DEF Includes, longer
      <4> QED BY <4>1, <4>2 DEF FineLevel
    <3>3. FineUpTo(text, n) <=> FineUpTo(text, n + 1)
      <4>1. n > 0 => ~Wild(text[n]) /\ text[n] # Hash
        BY <1>1, <1>7, <2>1 DEF Wild, Slash, Hash, Plus
      <4>2. n + 1 = 1 \/ text[(n + 1) - 1] = Slash
        BY <1>1, <1>7, <2>1
      <4>3. ASSUME FineUpTo(text, n) PROVE FineUpTo(text, n + 1)
        <5>1. \A i \in 1..n : i = n => n > 0
          BY <1>1
        <5>2. \A i \in 1..n : /\ text[i] # Hash
                              /\ Wild(text[i]) => /\ (i = 1 \/ text[i - 1] = Slash)
                                                  /\ text[i + 1] = Slash
          BY <4>1, <4>3, <5>1 DEF FineUpTo
        <5> QED BY <1>10, <4>2, <5>2 DEF FineUpTo
      <4>4. ASSUME FineUpTo(text, n + 1) PROVE FineUpTo(text, n)
        BY <1>9, <4>4 DEF FineUpTo
      <4> QED BY <4>3, <4>4
    <3> QED BY <1>4, <1>5, <1>6, <3>1, <3>2, <3>3
  <2>2. CASE last # <<>>
    <3>1. n > 0 /\ n \in 1..n /\ text[n] # Slash /\ last[Len(last)] = text[n]
      BY <1>1, <1>7, <1>8, <2>2
    <3>2. FineLevel(longer, TRUE) <=> /\ ~Includes(last, Hash) /\ ~Includes(last, Plus)
                                      /\ ~Wild(c)
      <4>1. Len(longer) > 1
        BY <1>2, <2>2
      <4>2. longer # <<Hash>> /\ longer # <<Plus>>
        <5>1. Len(<<Hash>>) = 1 /\ Len(<<Plus>>) = 1
          OBVIOUS
        <5>2. Len(longer) # 1
          BY <4>1
        <5> QED BY <5>1, <5>2, Zenon
      <4>3. \A d : Includes(longer, d) <=> Includes(last, d) \/ c = d
        BY <1>1, IncludesFacts DEF longer
      <4> QED BY <4>2, <4>3 DEF FineLevel, Wild
    <3>3. ~Includes(last, Hash) /\ ~Includes(last, Plus) <=> FineLevel(last, TRUE) /\ ~Wild(text[n])
      <4>1. Len(last) \in 1..Len(last)
        BY <1>2, <2>2
      <4>2. \A d : last = <<d>> => text[n] = d
        BY <3>1
      <4>3. ASSUME Wild(text[n]) PROVE Includes(last, Hash) \/ Includes(last, Plus)
        BY <3>1, <4>1, <4>3 DEF Includes, Wild
      <4> QED BY <4>2, <4>3 DEF FineLevel, Wild
    <3>4. FineUpTo(text, n + 1) <=> FineUpTo(text, n) /\ ~Wild(text[n]) /\ ~Wild(c)
      <4>1. n + 1 \in 1..(n + 1) /\ n + 1 # 1 /\ (n + 1) - 1 = n /\ n # n + 1
        BY <1>1, <3>1
      <4>2. ASSUME FineUpTo(text, n + 1) PROVE FineUpTo(text, n) /\ ~Wild(text[n]) /\ ~Wild(c)
        <5>1. ~Wild(c)
          BY <3>1, <4>1, <4>2 DEF FineUpTo
        <5>2. ~Wild(text[n])
          BY <1>9, <3>1, <4>1, <4>2 DEF FineUpTo
        <5>3. FineUpTo(text, n)
          BY <1>9, <4>2 DEF FineUpTo
        <5> QED BY <5>1, <5>2, <5>3
      <4>3. ASSUME FineUpTo(text, n), ~Wild(text[n]), ~Wild(c) PROVE FineUpTo(text, n + 1)
        <5>1. \A i \in 1..n : /\ text[i] # Hash
                              /\ Wild(text[i]) => /\ (i = 1 \/ text[i - 1] = Slash)
                                                  /\ text[i + 1] = Slash
          BY <4>3 DEF FineUpTo, Wild
        <5>2. ~Wild(text[n + 1]) /\ text[n + 1] # Hash
          BY <4>3 DEF Wild
        <5> QED BY <1>10, <5>1, <5>2 DEF FineUpTo
      <4> QED BY <4>2, <4>3
    <3> QED BY <1>4, <1>5, <1>6, <3>2, <3>3, <3>4
  <2> QED BY <2>1, <2>2
<1>12. x[m] # <<>> /\ x[m][Len(x[m])] = text[n + 1]
  BY <1>2, <1>3
<1>13. n + 1 # 0 /\ text[n + 1] # Slash
  BY <1>1
<1>14. LevelsTell(x, text, n + 1)
  BY <1>1, <1>3, <1>11, <1>12, <1>13 DEF LevelsTell
<1> QED BY <1>14 DEF x, longer

\* AsTopicFilter accepts what is well formed.
LEMMA FilterFacts ==
  ASSUME NEW text \in Octets
  PROVE  AsTopicFilter(text) <=> WellFormed(text)
<1>1. Len(text) \in Nat /\ (text = <<>> <=> Len(text) = 0)
  BY DEF Octets
<1>2. PICK f : /\ Levels(text) = f[Len(text)]
               /\ f[0] = <<<<>>>>
               /\ \A i \in 1..Len(text) : f[i] = LevelsBehind(f[i - 1], text[i])
  BY <1>1, LevelsSteps
<1> DEFINE S == {n \in Nat : n <= Len(text) => LevelsTell(f[n], text, n)}
<1>3. 0 \in S
  <2> DEFINE x == <<<<>>>>
  <2>1. <<>> \in Octets
    BY DEF Octets
  <2>2. x \in Seq(Octets) /\ Len(x) = 1 /\ x[1] = <<>>
    BY <2>1
  <2> HIDE DEF x
  <2>3. FineLevels(x)
    <3>1. FineLevel(<<>>, TRUE)
      BY IncludesFacts DEF FineLevel
    <3>2. \A k \in 1..Len(x) : k = 1
      BY <2>2
    <3> QED BY <2>2, <3>1, <3>2 DEF FineLevels, FineLevel
  <2>4. FineUpTo(text, 0)
    BY DEF FineUpTo
  <2>5. LevelsTell(x, text, 0)
    BY <2>2, <2>3, <2>4 DEF LevelsTell
  <2> QED BY <1>2, <2>5 DEF x
<1>4. ASSUME NEW n \in Nat, n \in S PROVE n + 1 \in S
  <2> SUFFICES ASSUME n + 1 <= Len(text) PROVE LevelsTell(f[n + 1], text, n + 1)
    OBVIOUS
  <2> DEFINE L == f[n]
  <2>1. /\ n \in 0..(Len(text) - 1) /\ n + 1 \in 1..Len(text) /\ (n + 1) - 1 = n
        /\ LevelsTell(L, text, n)
    BY <1>1, <1>4
  <2>2. f[n + 1] = LevelsBehind(L, text[n + 1])
    BY <1>2, <2>1
  <2> HIDE DEF L, S
  <2>3. CASE text[n + 1] = Slash
    <3>1. LevelsBehind(L, text[n + 1]) = Append(L, <<>>)
      BY <2>3 DEF LevelsBehind
    <3>2. LevelsTell(Append(L, <<>>), text, n + 1)
      BY <2>1, <2>3, NextLevel
    <3> QED BY <2>2, <3>1, <3>2
  <2>4. CASE text[n + 1] # Slash
    <3>1. LevelsBehind(L, text[n + 1]) = [L EXCEPT ![Len(L)] = Append(@, text[n + 1])]
      BY <2>4 DEF LevelsBehind
    <3>2. LevelsTell([L EXCEPT ![Len(L)] = Append(@, text[n + 1])], text, n + 1)
      BY <2>1, <2>4, SameLevel
    <3> QED BY <2>2, <3>1, <3>2
  <2> QED BY <2>3, <2>4
<1>5. LevelsTell(Levels(text), text, Len(text))
  <2> HIDE DEF S
  <2>1. Len(text) \in S
    BY <1>1, <1>3, <1>4, NatSteps
  <2> QED BY <1>1, <1>2, <2>1 DEF S
<1>6. FineLevels(Levels(text)) <=> FineUpTo(text, Len(text))
  BY <1>5 DEF LevelsTell
<1>7. AsTopicFilter(text) <=> text # <<>> /\ text[1] # Slash /\ FineLevels(Levels(text))
  BY DEF AsTopicFilter, FineLevels, FineLevel
<1>8. WellFormed(text) <=> Len(text) > 0 /\ text[1] # Slash /\ FineUpTo(text, Len(text))
  <2>1. \A i : text[i] \in {Hash, Plus} <=> Wild(text[i])
    BY DEF Wild
  <2> QED BY <2>1 DEF WellFormed, FineUpTo
<1> QED BY <1>1, <1>6, <1>7, <1>8

\* No more than 127 is one byte.
LEMMA SmallVarint ==
  ASSUME NEW s \in Octets, Len(s) > 0, s[1] = 0
  PROVE  ReadVariableByteInteger(s) = Got(0, SubSeq(s, 2, Len(s)))
<1>1. LengthBytes = 4 /\ Base = 128 /\ Len(s) \in Nat
  BY PacketsWidths DEF Octets
<1>2. ~More(s[1]) /\ Digit(s[1]) = 0
  BY <1>1 DEF More, Digit
<1>3. IntegerAt(s, 0, 1)
  BY <1>1, <1>2 DEF IntegerAt
<1>4. IntegerLength(s, 0) = 1
  BY <1>3, OneIntegerLength
<1>5. IntegerValue(s, 0, 1) = 0
  <2> DEFINE d(i) == IF i <= 1 THEN Digit(s[0 + i]) ELSE 0
  <2>1. d(1) = 0 /\ d(2) = 0 /\ d(3) = 0 /\ d(4) = 0
    BY <1>2
  <2>2. IntegerValue(s, 0, 1) = d(1) + Base * (d(2) + Base * (d(3) + Base * d(4)))
    BY DEF IntegerValue
  <2> HIDE DEF d
  <2> QED BY <1>1, <2>1, <2>2
<1>6. \E k \in 1..LengthBytes : IntegerAt(s, 0, k)
  BY <1>1, <1>3
<1>7. ReadVariableByteInteger(s)
        = Got(IntegerValue(s, 0, IntegerLength(s, 0)), SubSeq(s, IntegerLength(s, 0) + 1, Len(s)))
  BY <1>6 DEF ReadVariableByteInteger
<1> QED BY <1>4, <1>5, <1>7

\* An integer of two bytes that are there.
LEMMA TwoBytes ==
  ASSUME NEW s \in Octets, Len(s) >= 2
  PROVE  ReadUint(s, 2) = Got(256 * s[1] + s[2], SubSeq(s, 3, Len(s)))
<1> DEFINE o == ReadBytes(s, 2)
           t == SubSeq(s, 1, 2)
<1>1. Len(s) \in Nat /\ 2 \in 0..Len(s) /\ 2 \in Nat
  BY DEF Octets
<1>2. o = Got(t, SubSeq(s, 2 + 1, Len(s))) /\ t \in Octets /\ Len(t) = 2
  BY <1>1, BytesRead
<1>3. \A i \in 1..2 : t[i] = s[i]
  BY <1>1, FirstFacts
<1>4. ToUint(t) = 256 * s[1] + s[2]
  <2>1. t[1] = s[1] /\ t[2] = s[2]
    BY <1>3
  <2> HIDE DEF t
  <2>2. ToUint(t) = 256 * t[1] + t[2]
    BY <1>2, UintRange
  <2> QED BY <2>1, <2>2
<1>5. ReadUint(s, 2) = IF o.ok THEN Got(ToUint(o.v), o.rest) ELSE Refused
  BY UintUnfolds
<1> HIDE DEF o, t
<1>6. o.ok /\ o.v = t /\ o.rest = SubSeq(s, 3, Len(s))
  <2>1. 2 + 1 = 3
    OBVIOUS
  <2>2. o = Got(t, SubSeq(s, 3, Len(s)))
    BY <1>2, <2>1
  <2> QED BY <2>2, OutcomeFacts
<1> QED BY <1>4, <1>5, <1>6

\* The two values such a packet begins with are read one after the other.
LEMMA HeadSteps ==
  ASSUME NEW s
  PROVE  \E f : /\ ReadAll(HeadKinds, s) = f[2]
                /\ f[0] = Got(<<>>, s)
                /\ f[1] = NextRead(f[0], "two")
                /\ f[2] = NextRead(f[1], "properties")
<1> DEFINE n == Len(HeadKinds)
<1>1. n = 2 /\ n \in Nat /\ HeadKinds[1] = "two" /\ HeadKinds[2] = "properties"
  BY DEF HeadKinds
<1> HIDE DEF n
<1>2. PICK f : /\ ReadAll(HeadKinds, s) = f[n]
               /\ f[0] = Got(<<>>, s)
               /\ \A i \in 1..n : f[i] = NextRead(f[i - 1], HeadKinds[i])
  <2>1. Len(HeadKinds) \in Nat
    BY <1>1 DEF n
  <2> QED BY <2>1, AllSteps DEF n
<1>3. f[1] = NextRead(f[0], "two") /\ f[2] = NextRead(f[1], "properties")
  BY <1>1, <1>2
<1> QED BY <1>1, <1>2, <1>3

\* What lies in front of the filter is read, and the rest begins with its length.
LEMMA FilterHead ==
  ASSUME NEW s \in Octets, Len(s) > 5, s[3] = 0
  PROVE  ReadAll(HeadKinds, s).ok /\ ReadAll(HeadKinds, s).rest = SubSeq(s, 4, Len(s))
<1>1. Len(s) \in Nat
  BY DEF Octets
<1> DEFINE a == SubSeq(s, 3, Len(s))
           b == SubSeq(s, 4, Len(s))
           id == 256 * s[1] + s[2]
<1>2. a \in Octets /\ Len(a) = Len(s) - 2 /\ \A i \in 1..(Len(s) - 2) : a[i] = s[2 + i]
  <2>1. 2 \in 0..Len(s) /\ 2 + 1 = 3
    BY <1>1
  <2> QED BY <2>1, RestFacts
<1>3. Len(a) > 0 /\ a[1] = 0 /\ Len(a) = Len(s) - 2
  BY <1>1, <1>2
<1>4. SubSeq(a, 2, Len(a)) = b
  <2>1. 1 \in 0..Len(a) /\ 1 + 1 = 2 /\ 3 \in 0..Len(s) /\ 3 + 1 = 4
    BY <1>1, <1>3
  <2> DEFINE c == SubSeq(a, 2, Len(a))
  <2> HIDE DEF a
  <2>2. c \in Octets /\ Len(c) = Len(a) - 1 /\ \A i \in 1..(Len(a) - 1) : c[i] = a[1 + i]
    BY <1>2, <2>1, RestFacts
  <2>3. b \in Octets /\ Len(b) = Len(s) - 3 /\ \A i \in 1..(Len(s) - 3) : b[i] = s[3 + i]
    BY <2>1, RestFacts
  <2> HIDE DEF b, c
  <2>4. Len(c) = Len(b) /\ Len(c) = Len(s) - 3
    BY <1>1, <1>2, <2>2, <2>3
  <2>5. \A i \in 1..Len(c) : c[i] = b[i]
    <3> SUFFICES ASSUME NEW i \in 1..Len(c) PROVE c[i] = b[i]
      OBVIOUS
    <3>1. i \in 1..(Len(a) - 1) /\ i \in 1..(Len(s) - 3) /\ 1 + i \in 1..(Len(s) - 2)
          /\ 2 + (1 + i) = 3 + i
      BY <1>1, <1>2, <2>4
    <3>2. c[i] = a[1 + i] /\ b[i] = s[3 + i]
      BY <2>2, <2>3, <3>1
    <3>3. a[1 + i] = s[2 + (1 + i)]
      BY <1>2, <3>1
    <3> QED BY <3>1, <3>2, <3>3
  <2>6. c = b
    BY <2>2, <2>3, <2>4, <2>5, SameSeq
  <2> QED BY <2>6 DEF c
<1>5. ReadUint(s, 2) = Got(id, a)
  BY <1>1, TwoBytes
<1> HIDE DEF a, b, id
<1>6. ReadVariableByteInteger(a) = Got(0, b)
  BY <1>2, <1>3, <1>4, SmallVarint
<1>7. ReadProperties(a) = Got(<<>>, b)
  <2>1. a # <<>>
    BY <1>2, <1>3 DEF Octets
  <2>2. /\ ReadVariableByteInteger(a).ok /\ ReadVariableByteInteger(a).v = 0
        /\ ReadVariableByteInteger(a).rest = b
    BY <1>6, OutcomeFacts
  <2> QED BY <2>1, <2>2 DEF ReadProperties, Then
<1>8. PICK f : /\ ReadAll(HeadKinds, s) = f[2]
               /\ f[0] = Got(<<>>, s)
               /\ f[1] = NextRead(f[0], "two")
               /\ f[2] = NextRead(f[1], "properties")
  BY HeadSteps
<1>11. /\ Read("two", s) = ReadUint(s, 2)
       /\ Read("properties", a) = ReadProperties(a)
  BY ReadIs, OtherUnfolds DEF Kinds
<1>12. f[0].ok /\ f[0].rest = s
  BY <1>8, OutcomeFacts
<1>13. Read("two", f[0].rest).ok /\ Read("two", f[0].rest).rest = a
  BY <1>5, <1>11, <1>12, OutcomeFacts
<1>14. f[1].ok /\ f[1].rest = a
  <2>1. f[1] = Got(Append(f[0].v, Read("two", f[0].rest).v), Read("two", f[0].rest).rest)
    BY <1>8, <1>12, <1>13, NextUnfolds
  <2> QED BY <1>13, <2>1, OutcomeFacts
<1>15. Read("properties", f[1].rest).ok /\ Read("properties", f[1].rest).rest = b
  BY <1>7, <1>11, <1>14, OutcomeFacts
<1>16. f[2].ok /\ f[2].rest = b
  <2>1. f[2] = Got(Append(f[1].v, Read("properties", f[1].rest).v),
                   Read("properties", f[1].rest).rest)
    BY <1>8, <1>14, <1>15, NextUnfolds
  <2> QED BY <1>15, <2>1, OutcomeFacts
<1> QED BY <1>8, <1>16 DEF b

\* A filter and its options.
FilterKinds == <<"filter", "byte">>

\* The two values of an entry are read one after the other.
LEMMA FilterSteps ==
  ASSUME NEW s
  PROVE  \E f : /\ ReadAll(FilterKinds, s) = f[2]
                /\ f[0] = Got(<<>>, s)
                /\ f[1] = NextRead(f[0], "filter")
                /\ f[2] = NextRead(f[1], "byte")
<1> DEFINE n == Len(FilterKinds)
<1>1. n = 2 /\ n \in Nat /\ FilterKinds[1] = "filter" /\ FilterKinds[2] = "byte"
  BY DEF FilterKinds
<1> HIDE DEF n
<1>2. PICK f : /\ ReadAll(FilterKinds, s) = f[n]
               /\ f[0] = Got(<<>>, s)
               /\ \A i \in 1..n : f[i] = NextRead(f[i - 1], FilterKinds[i])
  <2>1. Len(FilterKinds) \in Nat
    BY <1>1 DEF n
  <2> QED BY <2>1, AllSteps DEF n
<1>3. f[1] = NextRead(f[0], "filter") /\ f[2] = NextRead(f[1], "byte")
  BY <1>1, <1>2
<1> QED BY <1>1, <1>2, <1>3

\* A filter and its options are read, and nothing is left, when the filter is accepted.
LEMMA FilterEntry ==
  ASSUME NEW s \in Octets, NEW n \in Nat, Len(s) = n + 3, 256 * s[1] + s[2] = n
  PROVE  LET o == ReadAll(FilterKinds, s)
             text == DecodedText(SubSeq(s, 3, n + 2))
         IN  /\ o.ok <=> AsTopicFilter(text)
             /\ o.ok => o.rest = <<>>
<1> DEFINE a == SubSeq(s, 3, Len(s))
           d == SubSeq(a, 1, n)
           e == SubSeq(a, n + 1, Len(a))
           text == DecodedText(d)
<1>1. a \in Octets /\ Len(a) = n + 1 /\ \A i \in 1..(n + 1) : a[i] = s[2 + i]
  <2>1. 2 \in 0..Len(s) /\ 2 + 1 = 3 /\ Len(s) - 2 = n + 1
    OBVIOUS
  <2> QED BY <2>1, RestFacts
<1>2. ReadUint(s, 2) = Got(n, a)
  BY TwoBytes
<1> HIDE DEF a
<1>3. ReadBytes(a, n) = Got(d, e) /\ e \in Octets /\ Len(e) = 1 /\ d \in Octets /\ Len(d) = n
  <2>1. ~(n > Len(a)) /\ Len(a) - n = 1
    BY <1>1
  <2> QED BY <1>1, <2>1, BytesRead
<1>4. d = SubSeq(s, 3, n + 2)
  <2> DEFINE b == SubSeq(s, 3, n + 2)
  <2>2. b \in Octets /\ Len(b) = n /\ \A i \in 1..n : b[i] = s[2 + i]
    <3> DEFINE m == n + 2
    <3>1. m \in 2..Len(s) /\ m - 2 = n /\ 2 \in Nat /\ 2 + 1 = 3
      BY DEF Octets
    <3> HIDE DEF m
    <3>2. /\ SubSeq(s, 2 + 1, m) \in Octets /\ Len(SubSeq(s, 2 + 1, m)) = m - 2
          /\ \A i \in 1..(m - 2) : SubSeq(s, 2 + 1, m)[i] = s[2 + i]
      BY <3>1, PartOctets
    <3>3. /\ SubSeq(s, 3, m) \in Octets /\ Len(SubSeq(s, 3, m)) = n
          /\ \A i \in 1..n : SubSeq(s, 3, m)[i] = s[2 + i]
      BY <3>1, <3>2
    <3> QED BY <3>3 DEF m
  <2>3. \A i \in 1..n : d[i] = a[i]
    <3>1. n \in 0..Len(a)
      BY <1>1
    <3> QED BY <1>1, <3>1, FirstFacts
  <2> HIDE DEF b, d
  <2>4. \A i \in 1..n : i \in 1..(n + 1)
    OBVIOUS
  <2>5. \A i \in 1..Len(d) : d[i] = b[i]
    BY <1>1, <1>3, <2>2, <2>3, <2>4
  <2>6. d = b
    BY <1>3, <2>2, <2>5, SameSeq
  <2> QED BY <2>6 DEF b
<1> HIDE DEF d, e
<1>5. ReadBinaryData(s) = Got(d, e)
  BY <1>2, <1>3, BinaryUnfolds, OutcomeFacts
<1>6. ReadUTF8String(s) = Got(text, e)
  BY <1>5, TextUnfolds, OutcomeFacts
<1> HIDE DEF text
<1>7. ReadValue("filter", s) = IF AsTopicFilter(text) THEN Got(text, e) ELSE Refused
  BY <1>6, TopicUnfolds, OutcomeFacts
<1>8. PICK f : /\ ReadAll(FilterKinds, s) = f[2]
               /\ f[0] = Got(<<>>, s)
               /\ f[1] = NextRead(f[0], "filter")
               /\ f[2] = NextRead(f[1], "byte")
  BY FilterSteps
<1>11. /\ Read("filter", s) = ReadValue("filter", s)
       /\ Read("byte", e) = ReadUint(e, 1)
  BY ReadIs, OtherUnfolds DEF Kinds
<1>12. f[0].ok /\ f[0].rest = s
  BY <1>8, OutcomeFacts
<1>13. CASE AsTopicFilter(text)
  <2>1. Read("filter", f[0].rest).ok /\ Read("filter", f[0].rest).rest = e
    BY <1>7, <1>11, <1>12, <1>13, OutcomeFacts
  <2>2. f[1].ok /\ f[1].rest = e
    <3>1. f[1] = Got(Append(f[0].v, Read("filter", f[0].rest).v), Read("filter", f[0].rest).rest)
      BY <1>8, <1>12, <2>1, NextUnfolds
    <3> QED BY <2>1, <3>1, OutcomeFacts
  <2>3. ReadUint(e, 1).ok /\ ReadUint(e, 1).rest = <<>>
    <3> DEFINE g == SubSeq(e, 1 + 1, Len(e))
    <3>1. ReadBytes(e, 1) = Got(SubSeq(e, 1, 1), g) /\ g \in Octets /\ Len(g) = Len(e) - 1
      <4>1. ~(1 > Len(e))
        BY <1>3
      <4> QED BY <1>3, <4>1, BytesRead
    <3> HIDE DEF g
    <3>2. g = <<>>
      BY <1>3, <3>1 DEF Octets
    <3> QED BY <3>1, <3>2, UintUnfolds, OutcomeFacts
  <2>4. Read("byte", f[1].rest).ok /\ Read("byte", f[1].rest).rest = <<>>
    BY <1>11, <2>2, <2>3
  <2>5. f[2].ok /\ f[2].rest = <<>>
    <3>1. f[2] = Got(Append(f[1].v, Read("byte", f[1].rest).v), Read("byte", f[1].rest).rest)
      BY <1>8, <2>2, <2>4, NextUnfolds
    <3> QED BY <2>4, <3>1, OutcomeFacts
  <2> QED BY <1>4, <1>8, <1>13, <2>5 DEF text
<1>14. CASE ~AsTopicFilter(text)
  <2>1. ~Read("filter", f[0].rest).ok
    BY <1>7, <1>11, <1>12, <1>14, OutcomeFacts
  <2>2. f[1] = Refused
    BY <1>8, <2>1, NextUnfolds
  <2>3. f[2] = Refused
    BY <1>8, <2>2, NextUnfolds, OutcomeFacts
  <2> QED BY <1>4, <1>8, <1>14, <2>3, OutcomeFacts DEF text
<1> QED BY <1>13, <1>14

\* A list of one entry with nothing behind it.
LEMMA OneEntry ==
  ASSUME NEW kinds, NEW s \in Octets, s # <<>>,
         ReadAll(kinds, s).ok => ReadAll(kinds, s).rest = <<>>
  PROVE  ReadMany(kinds, s).ok <=> ReadAll(kinds, s).ok
<1>1. Len(s) \in Nat /\ Len(s) # 0 /\ Len(s) > 0
  BY DEF Octets
<1>2. PICK f : /\ ReadMany(kinds, s) = f[Len(s)]
               /\ f[0] = Got(<<>>, s)
               /\ \A i \in 1..Len(s) : f[i] = NextEntry(f[i - 1], kinds)
  BY <1>1, ManySteps
<1> DEFINE o == ReadAll(kinds, s)
<1>3. f[0].ok /\ f[0].rest = s /\ f[1] = NextEntry(f[0], kinds)
  <2>1. 1 \in 1..Len(s) /\ 1 - 1 = 0
    BY <1>1
  <2> QED BY <1>2, <2>1, OutcomeFacts
<1>4. f[1].ok <=> o.ok
  BY <1>3, EntryUnfolds, OutcomeFacts
<1>5. f[1].ok => f[1].rest = <<>>
  BY <1>3, EntryUnfolds, OutcomeFacts
<1> DEFINE S == {i \in Nat : i + 1 <= Len(s) => (f[i + 1].ok <=> o.ok)
                                                /\ (f[i + 1].ok => f[i + 1].rest = <<>>)}
<1> HIDE DEF o
<1>6. 0 \in S
  BY <1>4, <1>5
<1>7. ASSUME NEW i \in Nat, i \in S PROVE i + 1 \in S
  <2> DEFINE x == f[i + 1]
             y == f[i + 2]
  <2> SUFFICES ASSUME i + 2 <= Len(s) PROVE (y.ok <=> o.ok) /\ (y.ok => y.rest = <<>>)
    <3>1. (i + 1) + 1 = i + 2 /\ i + 1 \in Nat
      OBVIOUS
    <3> QED BY <3>1
  <2>1. i + 2 \in 1..Len(s) /\ (i + 2) - 1 = i + 1 /\ i + 1 <= Len(s)
    BY <1>1
  <2>2. y = NextEntry(x, kinds) /\ (x.ok <=> o.ok) /\ (x.ok => x.rest = <<>>)
    BY <1>2, <1>7, <2>1
  <2> HIDE DEF x, y
  <2> QED BY <2>2, EntryUnfolds, OutcomeFacts
<1>8. Len(s) - 1 \in Nat /\ Len(s) - 1 \in S
  <2> HIDE DEF S
  <2> QED BY <1>1, <1>6, <1>7, NatSteps
<1>9. (Len(s) - 1) + 1 = Len(s)
  BY <1>1
<1>10. f[Len(s)].ok <=> o.ok
  BY <1>1, <1>8, <1>9
<1> QED BY <1>2, <1>10 DEF o

\* A part of the rest, in the whole.
LEMMA MiddlePart ==
  ASSUME NEW s \in Octets, Len(s) > 5
  PROVE  /\ SubSeq(SubSeq(s, 4, Len(s)), 3, (Len(s) - 6) + 2) = SubSeq(s, 6, Len(s) - 1)
         /\ SubSeq(s, 6, Len(s) - 1) \in Octets
<1> DEFINE a == SubSeq(s, 4, Len(s))
           k == Len(s) - 6
           m == k + 2
           e == k + 5
           x == SubSeq(a, 3, m)
           y == SubSeq(s, 6, e)
<1>1. /\ Len(s) \in Nat /\ k \in Nat /\ Len(s) - 3 = k + 3 /\ Len(s) - 1 = e
      /\ s \in Seq(0..255)
  BY DEF Octets
<1>2. a \in Octets /\ Len(a) = k + 3 /\ \A i \in 1..(k + 3) : a[i] = s[3 + i]
  <2>1. 3 \in 0..Len(s) /\ 3 + 1 = 4
    BY <1>1
  <2> QED BY <1>1, <2>1, RestFacts
<1> HIDE DEF a
<1>3. m \in 2..Len(a) /\ m - 2 = k /\ a \in Seq(0..255) /\ 2 \in Nat /\ 2 + 1 = 3
  BY <1>1, <1>2 DEF Octets
<1>4. e \in 5..Len(s) /\ e - 5 = k /\ 5 \in Nat /\ 5 + 1 = 6
  BY <1>1
<1> HIDE DEF m, e, k, Octets
<1>5. x \in Octets /\ Len(x) = k /\ \A i \in 1..k : x[i] = a[2 + i]
  <2>1. /\ SubSeq(a, 2 + 1, m) \in Octets /\ Len(SubSeq(a, 2 + 1, m)) = m - 2
        /\ \A i \in 1..(m - 2) : SubSeq(a, 2 + 1, m)[i] = a[2 + i]
    BY <1>2, <1>3, PartOctets
  <2> QED BY <1>3, <2>1
<1>6. y \in Octets /\ Len(y) = k /\ \A i \in 1..k : y[i] = s[5 + i]
  <2>1. /\ SubSeq(s, 5 + 1, e) \in Octets /\ Len(SubSeq(s, 5 + 1, e)) = e - 5
        /\ \A i \in 1..(e - 5) : SubSeq(s, 5 + 1, e)[i] = s[5 + i]
    BY <1>4, PartOctets
  <2> QED BY <1>4, <2>1
<1> HIDE DEF x, y
<1>7. \A i \in 1..k : 2 + i \in 1..(k + 3) /\ 3 + (2 + i) = 5 + i
  BY <1>1
<1>8. \A i \in 1..Len(x) : x[i] = y[i]
  BY <1>2, <1>5, <1>6, <1>7
<1>9. x = y
  BY <1>5, <1>6, <1>8, SameSeq
<1> QED BY <1>1, <1>6, <1>9 DEF x, y, a, m, k

\* Who reads a SUBSCRIBE.
LEMMA ListReader ==
  ASSUME NEW w, w.type = 8, NEW choice
  PROVE  DeserializePacket(w, choice) = ReadList(w)
<1>1. w.type \in 0..15 /\ w.type \in 8..11
  OBVIOUS
<1> QED BY <1>1, ReaderOf

\* The reader of a SUBSCRIBE of one filter judges it as WellFormed does.
LEMMA OneFilterRead ==
  ASSUME NEW w \in WireFormat, OneFilter(w), NEW choice
  PROVE  DeserializePacket(w, choice).ok
           <=> WellFormed(DecodedText(SubSeq(w.body, 6, Len(w.body) - 1)))
<1> DEFINE s == w.body
           n == Len(s) - 6
           a == SubSeq(s, 4, Len(s))
           d == SubSeq(s, 6, Len(s) - 1)
           o == ReadAll(HeadKinds, s)
           l == ReadMany(FilterKinds, o.rest)
<1>1. s \in Octets /\ w.type = 8 /\ w.type \in 0..15 /\ w.flags = 2
  BY TypeFacts DEF WireFormat, OneFilter
<1>2. /\ Len(s) \in Nat /\ Len(s) > 5 /\ n \in Nat
      /\ s[3] = 0 /\ 256 * s[4] + s[5] = n
  <2>1. Len(s) \in Nat
    BY <1>1 DEF Octets
  <2>2. Len(s) > 5 /\ s[3] = 0 /\ 256 * s[4] + s[5] = Len(s) - 6
    BY DEF OneFilter
  <2> QED BY <2>1, <2>2
<1>3. ListOf(w.type)[2] = FilterKinds
  BY <1>1, TypeFacts DEF ListOf, FilterKinds
<1>4. DeserializePacket(w, choice) = ReadList(w)
  BY <1>1, ListReader
<1>5. ReadList(w).ok <=> o.ok /\ l.ok
  <2>1. ~(w.type = Type.Subscribe /\ w.flags # 2)
    BY <1>1
  <2>2. ReadAll(<<"two", "properties">>, w.body) = o
    BY DEF HeadKinds
  <2>3. ReadMany(ListOf(w.type)[2], o.rest) = l
    BY <1>3
  <2> HIDE DEF o, l
  <2> QED BY <2>1, <2>2, <2>3 DEF ReadList, Then, Packet, Got, Refused
<1> HIDE DEF s
<1>6. o.ok /\ o.rest = a
  BY <1>1, <1>2, FilterHead
<1>7. a \in Octets /\ Len(a) = n + 3 /\ \A i \in 1..(n + 3) : a[i] = s[3 + i]
  <2>1. 3 \in 0..Len(s) /\ 3 + 1 = 4 /\ Len(s) - 3 = n + 3
    BY <1>2
  <2> QED BY <1>1, <2>1, RestFacts
<1> HIDE DEF a, n
<1>8. 256 * a[1] + a[2] = n
  <2>1. a[1] = s[3 + 1] /\ a[2] = s[3 + 2]
    BY <1>2, <1>7
  <2>2. 3 + 1 = 4 /\ 3 + 2 = 5
    OBVIOUS
  <2> QED BY <1>2, <2>1, <2>2
<1>9. LET q == ReadAll(FilterKinds, a)
      IN  /\ q.ok <=> AsTopicFilter(DecodedText(SubSeq(a, 3, n + 2)))
          /\ q.ok => q.rest = <<>>
  BY <1>2, <1>7, <1>8, FilterEntry
<1>10. ReadMany(FilterKinds, a).ok <=> ReadAll(FilterKinds, a).ok
  <2>1. a # <<>>
    BY <1>2, <1>7 DEF Octets
  <2> QED BY <1>7, <1>9, <2>1, OneEntry
<1>11. SubSeq(a, 3, n + 2) = d /\ d \in Octets
  BY <1>1, <1>2, <1>7, MiddlePart DEF a, n
<1>12. AsTopicFilter(DecodedText(d)) <=> WellFormed(DecodedText(d))
  <2> HIDE DEF d
  <2>1. DecodedText(d) \in Octets
    BY <1>11, DecodedOctets
  <2> QED BY <2>1, FilterFacts
<1>13. DeserializePacket(w, choice).ok <=> WellFormed(DecodedText(d))
  <2> HIDE DEF d
  <2> QED BY <1>4, <1>5, <1>6, <1>9, <1>10, <1>11, <1>12
<1> QED BY <1>13 DEF s

\* The state tells how the wire at hand was read, once it was.
FilterInv ==
  /\ TypeOK
  /\ ~own => /\ wire \in WireFormat
             /\ state = "held" => DeserializePacket(wire, options).ok
             /\ state = "refused" => ~DeserializePacket(wire, options).ok

\* The reader of a SUBSCRIBE refuses exactly the filters that are not well formed
\* (FiltersJudged).
THEOREM FiltersAreJudged == Spec => []FiltersJudged
<1>1. Init => FilterInv
  BY PacketsAssumption, WiresAssumption DEF Init, FilterInv, TypeOK
<1>2. FilterInv /\ TypeOK' /\ [Next]_vars => FilterInv'
  <2> SUFFICES ASSUME FilterInv, TypeOK', [Next]_vars, ~own' PROVE
                 /\ wire' \in WireFormat
                 /\ state' = "held" => DeserializePacket(wire', options').ok
                 /\ state' = "refused" => ~DeserializePacket(wire', options').ok
    BY DEF FilterInv
  <2>1. CASE Send
    <3>1. ~own /\ wire \in WireFormat /\ IsPacket(packet)
      BY <2>1 DEF Send, FilterInv, TypeOK
    <3>2. Serialize(packet) \in WireFormat
      BY <3>1, WireOfPacket
    <3> QED BY <2>1, <3>1, <3>2 DEF Send
  <2>2. CASE Receive
    BY <2>2 DEF Receive, FilterInv
  <2>3. CASE UNCHANGED vars
    BY <2>3 DEF FilterInv, vars
  <2> QED BY <2>1, <2>2, <2>3 DEF Next
<1>3. FilterInv => FiltersJudged
  <2> SUFFICES ASSUME FilterInv, ~own, state \in {"held", "refused"}, OneFilter(wire)
               PROVE  state = "held"
                        <=> WellFormed(DecodedText(SubSeq(wire.body, 6, Len(wire.body) - 1)))
    BY DEF FiltersJudged
  <2>1. wire \in WireFormat
    BY DEF FilterInv
  <2>2. DeserializePacket(wire, options).ok
          <=> WellFormed(DecodedText(SubSeq(wire.body, 6, Len(wire.body) - 1)))
    BY <2>1, OneFilterRead
  <2>3. state = "held" <=> DeserializePacket(wire, options).ok
    BY DEF FilterInv
  <2> QED BY <2>2, <2>3
<1> QED BY <1>1, <1>2, <1>3, PacketsWellTyped, PTL DEF Spec
=============================================================================
