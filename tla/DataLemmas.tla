----------------------------- MODULE DataLemmas -----------------------------
(***************************************************************************)
(* Lemmas about data that the proofs about the variable byte integer, the  *)
(* writer and the MessagePack codec and stream rest on: induction and      *)
(* recursion, in a form whose parameters are sets and functions (an        *)
(* element of least rank stands for an induction, and a function that      *)
(* follows its equation for a recursive definition), parts of sequences,   *)
(* division with a remainder, and powers.                                  *)
(***************************************************************************)
EXTENDS Powers, Sequences, SequenceTheorems, WellFoundedInduction, TLAPS

\* Among the elements of a set that have a rank one has the least: what fails
\* somewhere fails somewhere first.
LEMMA LeastRank ==
  ASSUME NEW D, NEW rank \in [D -> Nat], NEW T \in SUBSET D, T # {}
  PROVE  \E d \in T : \A e \in T : rank[d] <= rank[e]
<1> DEFINE Below == OpToRel(<, Nat)
           Ranks == {rank[d] : d \in T}
<1>1. IsWellFoundedOn(Below, Nat)
  BY NatLessThanWellFounded
<1>2. \A x, y \in Nat : <<y, x>> \in Below <=> y < x
  BY DEF OpToRel
<1>3. Ranks \subseteq Nat /\ Ranks # {}
  OBVIOUS
<1> HIDE DEF Below, Ranks
<1>4. PICK m \in Ranks : \A k \in Ranks : ~(<<k, m>> \in Below)
  BY <1>1, <1>3, WFMin
<1>5. \A k \in Ranks : m <= k
  <2> SUFFICES ASSUME NEW k \in Ranks PROVE m <= k
    OBVIOUS
  <2>1. m \in Nat /\ k \in Nat
    BY <1>3
  <2>2. ~(k < m)
    BY <1>2, <1>4, <2>1, Zenon
  <2> QED
    BY <2>1, <2>2
<1>6. PICK d \in T : m = rank[d]
  BY DEF Ranks
<1>7. \A e \in T : rank[e] \in Ranks
  BY DEF Ranks
<1> QED
  BY <1>5, <1>6, <1>7

\* A set of naturals that is not empty has a least element.
LEMMA LeastNat ==
  ASSUME NEW T \in SUBSET Nat, T # {}
  PROVE  \E n \in T : \A m \in T : n <= m
<1> DEFINE rank == [n \in Nat |-> n]
<1>1. rank \in [Nat -> Nat]
  OBVIOUS
<1>2. \A n \in T : n \in Nat /\ rank[n] = n
  OBVIOUS
<1> HIDE DEF rank
<1>3. PICK n \in T : \A m \in T : rank[n] <= rank[m]
  BY <1>1, LeastRank
<1> QED BY <1>2, <1>3

\* A predicate on the naturals, as a set, that holds of 0 and passes to the next
\* number holds of all.
LEMMA NatSteps ==
  ASSUME NEW S, 0 \in S, \A n \in Nat : n \in S => n + 1 \in S
  PROVE  \A n \in Nat : n \in S
<1> DEFINE T == {n \in Nat : n \notin S}
<1> SUFFICES ASSUME T # {} PROVE FALSE
  OBVIOUS
<1>1. PICK n \in T : \A m \in T : n <= m
  <2> HIDE DEF T
  <2>1. T \in SUBSET Nat
    BY DEF T
  <2> QED BY <2>1, LeastNat
<1>2. n \in Nat \ {0} /\ n \notin S
  OBVIOUS
<1>3. n - 1 \in Nat /\ n - 1 \notin T
  BY <1>1, <1>2
<1>4. n - 1 \in S
  BY <1>3
<1> QED
  BY <1>2, <1>3, <1>4

-----------------------------------------------------------------------------
\* The equation of a recursive function at d: the elements of base are given
\* their value by init, the others by step from the value at prev.
Follows(g, base, init, prev, step, d) ==
  g[d] = IF d \in base THEN init[d] ELSE step[<<d, g[prev[d]]>>]

\* A recursion whose ranks fall ends: there is a function that follows its
\* equation everywhere.
LEMMA Recursion ==
  ASSUME NEW D, NEW V, NEW v0 \in V, NEW rank \in [D -> Nat], NEW base,
         NEW init \in [D -> V], NEW prev \in [D -> D], NEW step \in [D \X V -> V],
         \A d \in D : d \notin base => rank[prev[d]] < rank[d]
  PROVE  \E g \in [D -> V] : \A d \in D : Follows(g, base, init, prev, step, d)
<1> DEFINE UpTo(g, n) == \A d \in D : rank[d] < n => Follows(g, base, init, prev, step, d)
           S == {n \in Nat : \E g \in [D -> V] : UpTo(g, n)}
<1>1. 0 \in S
  <2>1. [d \in D |-> v0] \in [D -> V]
    OBVIOUS
  <2>2. \A g : UpTo(g, 0)
    OBVIOUS
  <2> QED BY <2>1, <2>2
<1>2. ASSUME NEW n \in Nat, n \in S PROVE n + 1 \in S
  <2>1. PICK g \in [D -> V] : UpTo(g, n)
    BY <1>2
  <2> DEFINE h == [d \in D |-> IF d \in base THEN init[d] ELSE step[<<d, g[prev[d]]>>]]
  <2>2. h \in [D -> V]
    OBVIOUS
  <2>3. ASSUME NEW d \in D, rank[d] < n + 1, d \notin base
        PROVE  g[prev[d]] = h[prev[d]]
    <3>1. prev[d] \in D /\ rank[prev[d]] < n
      BY <2>3
    <3>2. Follows(g, base, init, prev, step, prev[d])
      BY <2>1, <3>1
    <3> QED
      BY <3>1, <3>2 DEF Follows
  <2>4. UpTo(h, n + 1)
    <3> SUFFICES ASSUME NEW d \in D, rank[d] < n + 1
                 PROVE  Follows(h, base, init, prev, step, d)
      OBVIOUS
    <3>1. CASE d \in base
      BY <3>1 DEF Follows
    <3>2. CASE d \notin base
      BY <2>3, <3>2 DEF Follows
    <3> QED BY <3>1, <3>2
  <2> HIDE DEF h, UpTo
  <2> QED
    BY <2>2, <2>4
<1>3. \A n \in Nat : n \in S
  <2> HIDE DEF S
  <2> QED BY <1>1, <1>2, NatSteps
<1> DEFINE G(n) == CHOOSE g \in [D -> V] : UpTo(g, n)
<1>4. \A n \in Nat : G(n) \in [D -> V] /\ UpTo(G(n), n)
  BY <1>3
<1>5. ASSUME NEW g \in [D -> V], NEW h \in [D -> V], NEW n \in Nat, UpTo(g, n), UpTo(h, n),
             NEW e \in D, rank[e] < n
      PROVE  g[e] = h[e]
  <2> DEFINE T == {d \in D : rank[d] < n /\ g[d] # h[d]}
  <2> SUFFICES ASSUME T # {} PROVE FALSE
    BY <1>5
  <2>1. PICK d \in T : \A x \in T : rank[d] <= rank[x]
    <3>1. T \in SUBSET D
      OBVIOUS
    <3> HIDE DEF T
    <3> QED BY <3>1, LeastRank
  <2>2. Follows(g, base, init, prev, step, d) /\ Follows(h, base, init, prev, step, d)
    BY <1>5
  <2>3. CASE d \in base
    BY <2>2, <2>3 DEF Follows
  <2>4. CASE d \notin base
    <3>1. prev[d] \in D /\ rank[prev[d]] \in Nat /\ rank[d] \in Nat /\ rank[prev[d]] < rank[d]
      BY <2>4
    <3>2. prev[d] \notin T
      BY <2>1, <3>1
    <3>3. g[prev[d]] = h[prev[d]]
      BY <3>1, <3>2
    <3> QED BY <2>2, <2>4, <3>3 DEF Follows
  <2> QED BY <2>3, <2>4
<1> DEFINE f == [d \in D |-> G(rank[d] + 1)[d]]
<1> HIDE DEF G
<1>6. f \in [D -> V]
  BY <1>4
<1>7. ASSUME NEW d \in D PROVE Follows(f, base, init, prev, step, d)
  <2>1. /\ rank[d] + 1 \in Nat
        /\ G(rank[d] + 1) \in [D -> V]
        /\ UpTo(G(rank[d] + 1), rank[d] + 1)
    BY <1>4
  <2>2. Follows(G(rank[d] + 1), base, init, prev, step, d)
    BY <2>1
  <2>3. CASE d \in base
    BY <2>2, <2>3 DEF Follows
  <2>4. CASE d \notin base
    <3> DEFINE m == rank[prev[d]] + 1
    <3>1. prev[d] \in D /\ m \in Nat /\ m <= rank[d] /\ rank[prev[d]] < m
      BY <2>4
    <3>2. G(m) \in [D -> V] /\ UpTo(G(m), m)
      BY <1>4, <3>1
    <3>3. UpTo(G(rank[d] + 1), m)
      BY <2>1, <3>1
    <3>4. G(m)[prev[d]] = G(rank[d] + 1)[prev[d]]
      BY <1>5, <2>1, <3>1, <3>2, <3>3
    <3>5. f[prev[d]] = G(m)[prev[d]]
      BY <3>1
    <3> QED
      BY <2>2, <2>4, <3>4, <3>5 DEF Follows
  <2> QED BY <2>3, <2>4
<1> QED
  BY <1>6, <1>7

-----------------------------------------------------------------------------
\* A sequence with an element put in front.
LEMMA InFront ==
  ASSUME NEW S, NEW d \in S, NEW t \in Seq(S)
  PROVE  /\ <<d>> \o t \in Seq(S)
         /\ Len(<<d>> \o t) = Len(t) + 1
         /\ (<<d>> \o t)[1] = d
         /\ \A i \in 1..Len(t) : (<<d>> \o t)[i + 1] = t[i]
OBVIOUS

\* A function of the numbers up to n is a sequence.
LEMMA IsSequence ==
  ASSUME NEW S, NEW n \in Nat, NEW f \in [1..n -> S]
  PROVE  f \in Seq(S) /\ Len(f) = n
<1>1. f \in Seq(S)
  BY SeqDef, Zenon
<1>2. Len(f) \in Nat /\ DOMAIN f = 1..Len(f) /\ DOMAIN f = 1..n
  BY <1>1, LenProperties
<1>3. Len(f) = n
  BY <1>2
<1> QED BY <1>1, <1>3

\* Two sequences joined.
LEMMA JoinFacts ==
  ASSUME NEW S, NEW s \in Seq(S), NEW t \in Seq(S)
  PROVE  /\ s \o t \in Seq(S)
         /\ Len(s \o t) = Len(s) + Len(t)
         /\ \A i \in 1..Len(s) : (s \o t)[i] = s[i]
         /\ \A j \in 1..Len(t) : (s \o t)[Len(s) + j] = t[j]
<1>1. \A i \in 1..Len(s) : (s \o t)[i] = s[i]
  OBVIOUS
<1>2. ASSUME NEW j \in 1..Len(t) PROVE (s \o t)[Len(s) + j] = t[j]
  OBVIOUS
<1> QED BY <1>1, <1>2

\* The elements a + 1 to b of a sequence.
LEMMA PartFacts ==
  ASSUME NEW S, NEW s \in Seq(S), NEW a \in Nat, NEW b \in a..Len(s)
  PROVE  /\ SubSeq(s, a + 1, b) \in Seq(S)
         /\ Len(SubSeq(s, a + 1, b)) = b - a
         /\ \A i \in 1..(b - a) : SubSeq(s, a + 1, b)[i] = s[a + i]
<1>1. \A i \in (a + 1)..b : s[i] \in S
  OBVIOUS
<1>2. /\ SubSeq(s, a + 1, b) \in Seq(S)
      /\ Len(SubSeq(s, a + 1, b)) = IF a + 1 <= b THEN b - (a + 1) + 1 ELSE 0
      /\ \A i \in 1..(b - (a + 1) + 1) : SubSeq(s, a + 1, b)[i] = s[(a + 1) + i - 1]
  BY <1>1, SubSeqProperties
<1>3. \A i \in 1..(b - a) : i \in 1..(b - (a + 1) + 1) /\ (a + 1) + i - 1 = a + i
  OBVIOUS
<1>4. Len(SubSeq(s, a + 1, b)) = b - a
  BY <1>2
<1> QED BY <1>2, <1>3, <1>4

\* A part of a sequence is told by its elements.
LEMMA PartIs ==
  ASSUME NEW S, NEW s \in Seq(S), NEW a \in Nat, NEW w \in Seq(S), a + Len(w) <= Len(s)
  PROVE  SubSeq(s, a + 1, a + Len(w)) = w <=> \A i \in 1..Len(w) : s[a + i] = w[i]
<1> DEFINE u == SubSeq(s, a + 1, a + Len(w))
<1>1. a + Len(w) \in a..Len(s) /\ (a + Len(w)) - a = Len(w)
  OBVIOUS
<1>2. u \in Seq(S) /\ Len(u) = Len(w) /\ \A i \in 1..Len(w) : u[i] = s[a + i]
  BY <1>1, PartFacts
<1> HIDE DEF u
<1>3. (\A i \in 1..Len(w) : u[i] = w[i]) => u = w
  BY <1>2, SeqEqual
<1>4. u = w <=> \A i \in 1..Len(w) : u[i] = w[i]
  BY <1>3
<1> QED BY <1>2, <1>4 DEF u

\* A part of a part.
LEMMA PartOfPart ==
  ASSUME NEW S, NEW s \in Seq(S), NEW a \in Nat, NEW b \in a..Len(s), NEW p \in 0..(b - a)
  PROVE  SubSeq(SubSeq(s, a + 1, b), p + 1, b - a) = SubSeq(s, a + p + 1, b)
<1> DEFINE t == SubSeq(s, a + 1, b)
           u == SubSeq(t, p + 1, b - a)
           v == SubSeq(s, (a + p) + 1, b)
<1>1. t \in Seq(S) /\ Len(t) = b - a /\ \A i \in 1..(b - a) : t[i] = s[a + i]
  BY PartFacts
<1> HIDE DEF t
<1>2. /\ u \in Seq(S) /\ Len(u) = (b - a) - p
      /\ \A i \in 1..((b - a) - p) : u[i] = t[p + i]
  <2>1. p \in Nat /\ b - a \in p..Len(t)
    BY <1>1
  <2> QED BY <1>1, <2>1, PartFacts
<1>3. /\ v \in Seq(S) /\ Len(v) = b - (a + p)
      /\ \A i \in 1..(b - (a + p)) : v[i] = s[(a + p) + i]
  <2>1. a + p \in Nat /\ b \in (a + p)..Len(s)
    OBVIOUS
  <2> HIDE DEF v
  <2> QED BY <2>1, PartFacts DEF v
<1> HIDE DEF u, v
<1>4. ASSUME NEW i \in 1..Len(u) PROVE u[i] = v[i]
  <2>1. /\ i \in 1..((b - a) - p) /\ p + i \in 1..(b - a)
        /\ i \in 1..(b - (a + p)) /\ a + (p + i) = (a + p) + i
    BY <1>2, <1>4
  <2>2. u[i] = t[p + i] /\ t[p + i] = s[a + (p + i)]
    BY <1>1, <1>2, <2>1
  <2> QED BY <1>3, <2>1, <2>2
<1>5. Len(u) = Len(v)
  BY <1>2, <1>3
<1>6. u = v
  BY <1>2, <1>3, <1>4, <1>5, SeqEqual
<1> QED BY <1>6 DEF t, u, v

-----------------------------------------------------------------------------
(* Arithmetic the provers need in small pieces.                            *)

\* Products are monotonic.
LEMMA ProductMonotonic ==
  ASSUME NEW a \in Nat, NEW x \in Int, NEW y \in Int, x <= y
  PROVE  a * x <= a * y
OBVIOUS

\* Division by a positive number, with its remainder.
LEMMA DivMod ==
  ASSUME NEW n \in Nat, NEW b \in Nat \ {0}
  PROVE  /\ n \div b \in Nat /\ n % b \in 0..(b - 1)
         /\ n = b * (n \div b) + (n % b)
<1> DEFINE q == n \div b
           r == n % b
<1>1. q \in Int /\ r \in 0..(b - 1)
  OBVIOUS
<1>2. n = b * q + r
  BY SMTT(30)
<1> HIDE DEF q, r
<1>3. q >= 0
  <2> SUFFICES ASSUME q <= -1 PROVE FALSE
    BY <1>1
  <2>1. b * q <= b * (-1)
    BY <1>1, ProductMonotonic
  <2>2. b * (-1) = -b
    OBVIOUS
  <2>3. b * q \in Int
    BY <1>1
  <2> QED BY <1>1, <1>2, <2>1, <2>2, <2>3
<1>4. q \in Nat
  BY <1>1, <1>3
<1> QED
  BY <1>1, <1>2, <1>4 DEF q, r

\* Quotient and remainder are the only numbers with these properties.
LEMMA DivModUnique ==
  ASSUME NEW n \in Nat, NEW b \in Nat \ {0}, NEW q \in Nat, NEW r \in 0..(b - 1),
         n = b * q + r
  PROVE  n \div b = q /\ n % b = r
BY SMTT(30)

\* A number is below a multiple of b exactly when its quotient is below the factor.
LEMMA QuotientBelow ==
  ASSUME NEW n \in Nat, NEW b \in Nat \ {0}, NEW m \in Nat
  PROVE  n < b * m <=> n \div b < m
<1> DEFINE q == n \div b
           r == n % b
<1>1. q \in Nat /\ r \in 0..(b - 1) /\ n = b * q + r
  BY DivMod
<1> HIDE DEF q, r
<1>2. ASSUME q < m PROVE n < b * m
  <2>1. b * (q + 1) <= b * m
    BY <1>1, <1>2, ProductMonotonic
  <2>2. b * (q + 1) = b * q + b
    BY <1>1
  <2>3. b * q \in Int /\ b * m \in Int
    BY <1>1
  <2> HIDE DEF q
  <2> QED BY <1>1, <2>1, <2>2, <2>3
<1>3. ASSUME m <= q PROVE b * m <= n
  <2>1. b * m <= b * q
    BY <1>1, <1>3, ProductMonotonic
  <2>2. b * q \in Int /\ b * m \in Int
    BY <1>1
  <2> QED BY <1>1, <2>1, <2>2
<1>4. b * m \in Int
  OBVIOUS
<1>5. n < b * m <=> q < m
  BY <1>1, <1>2, <1>3, <1>4
<1> QED BY <1>5 DEF q

\* Division of any integer, with its remainder.
LEMMA IntDivMod ==
  ASSUME NEW n \in Int, NEW b \in Nat \ {0}
  PROVE  /\ n \div b \in Int /\ n % b \in 0..(b - 1)
         /\ n = b * (n \div b) + (n % b)
<1>1. n \div b \in Int /\ n % b \in 0..(b - 1)
  OBVIOUS
<1>2. n = b * (n \div b) + (n % b)
  BY SMTT(30)
<1> QED BY <1>1, <1>2

\* Quotient and remainder are the only ones with these properties.
LEMMA IntDivModUnique ==
  ASSUME NEW n \in Int, NEW b \in Nat \ {0}, NEW q \in Int, NEW r \in 0..(b - 1),
         n = b * q + r
  PROVE  n \div b = q /\ n % b = r
BY SMTT(30)

\* An integer is within multiples of b exactly when its quotient is within the factors.
LEMMA QuotientWithin ==
  ASSUME NEW n \in Int, NEW b \in Nat \ {0}, NEW l \in Int, NEW m \in Int
  PROVE  /\ n < b * m <=> n \div b < m
         /\ b * l <= n <=> l <= n \div b
<1> DEFINE q == n \div b
           r == n % b
<1>1. q \in Int /\ r \in 0..(b - 1) /\ n = b * q + r
  BY IntDivMod
<1> HIDE DEF q, r
<1>2. ASSUME NEW x \in Int, q < x PROVE n < b * x
  <2>1. b * (q + 1) <= b * x
    BY <1>1, <1>2, ProductMonotonic
  <2>2. b * (q + 1) = b * q + b
    BY <1>1
  <2>3. b * q \in Int /\ b * x \in Int
    BY <1>1
  <2> HIDE DEF q
  <2> QED BY <1>1, <2>1, <2>2, <2>3
<1>3. ASSUME NEW x \in Int, x <= q PROVE b * x <= n
  <2>1. b * x <= b * q
    BY <1>1, <1>3, ProductMonotonic
  <2>2. b * q \in Int /\ b * x \in Int
    BY <1>1
  <2> QED BY <1>1, <2>1, <2>2
<1>4. b * m \in Int /\ b * l \in Int
  OBVIOUS
<1>5. n < b * m <=> q < m
  BY <1>1, <1>2, <1>3, <1>4
<1>6. b * l <= n <=> l <= q
  BY <1>1, <1>2, <1>3, <1>4
<1> QED BY <1>5, <1>6 DEF q

\* Division in two steps.
LEMMA DivDiv ==
  ASSUME NEW n \in Int, NEW a \in Nat \ {0}, NEW c \in Nat \ {0}
  PROVE  /\ a * c \in Nat \ {0}
         /\ n \div (a * c) = (n \div a) \div c
         /\ n % (a * c) = a * ((n \div a) % c) + (n % a)
<1> DEFINE q == n \div a
           r == n % a
           u == q \div c
           w == q % c
<1>1. q \in Int /\ r \in 0..(a - 1) /\ n = a * q + r
  BY IntDivMod
<1>2. u \in Int /\ w \in 0..(c - 1) /\ q = c * u + w
  <2> HIDE DEF q
  <2> QED BY <1>1, IntDivMod
<1> DEFINE b == a * c
           x == a * w + r
<1> HIDE DEF q, r, u, w
<1>3. b \in Nat \ {0}
  <2>1. a * 1 <= a * c
    BY ProductMonotonic
  <2> QED BY <2>1
<1>4. x \in 0..(b - 1)
  <2>1. a * w \in Int /\ a * (w + 1) \in Int
    BY <1>2
  <2>2. a * (w + 1) <= a * c
    BY <1>2, ProductMonotonic
  <2>3. a * 0 <= a * w
    BY <1>2, ProductMonotonic
  <2>4. a * (w + 1) = a * w + a
    BY <1>2
  <2> QED BY <1>1, <1>3, <2>1, <2>2, <2>3, <2>4
<1>5. n = b * u + x
  <2>1. n = a * (c * u + w) + r
    BY <1>1, <1>2
  <2>2. a * (c * u + w) = (a * c) * u + a * w
    BY <1>2
  <2>3. (a * c) * u \in Int /\ a * w \in Int /\ a * (c * u + w) \in Int
    BY <1>2
  <2> QED BY <1>1, <2>1, <2>2, <2>3
<1> HIDE DEF b, x
<1>6. n \div b = u /\ n % b = x
  BY <1>2, <1>3, <1>4, <1>5, IntDivModUnique
<1> QED BY <1>3, <1>6 DEF b, x, u, w, q, r

-----------------------------------------------------------------------------
(* Powers.                                                                 *)

\* Power(b)[k] is b multiplied k times.
LEMMA PowerDef ==
  ASSUME NEW b \in Nat
  PROVE  /\ Power(b)[0] = 1
         /\ \A k \in Nat : Power(b)[k] \in Nat /\ Power(b)[k + 1] = b * Power(b)[k]
<1> DEFINE init == [k \in Nat |-> 1]
           prev == [k \in Nat |-> IF k = 0 THEN 0 ELSE k - 1]
           step == [d \in Nat \X Nat |-> b * d[2]]
           rank == [k \in Nat |-> k]
           Eqn(g) == g = [k \in Nat |-> IF k = 0 THEN 1 ELSE b * g[k - 1]]
<1>1. PICK g \in [Nat -> Nat] : \A k \in Nat : Follows(g, {0}, init, prev, step, k)
  <2>1. /\ rank \in [Nat -> Nat] /\ init \in [Nat -> Nat] /\ prev \in [Nat -> Nat]
        /\ step \in [Nat \X Nat -> Nat]
        /\ \A k \in Nat : k \notin {0} => rank[prev[k]] < rank[k]
    OBVIOUS
  <2> HIDE DEF init, prev, step, rank
  <2> QED BY <2>1, Recursion, ZenonT(30)
<1>2. \A k \in Nat : g[k] = IF k = 0 THEN 1 ELSE b * g[k - 1]
  <2> SUFFICES ASSUME NEW k \in Nat PROVE g[k] = IF k = 0 THEN 1 ELSE b * g[k - 1]
    OBVIOUS
  <2>1. Follows(g, {0}, init, prev, step, k)
    BY <1>1
  <2> QED BY <2>1 DEF Follows
<1>3. Eqn(g)
  BY <1>2
<1>4. Eqn(Power(b))
  <2>1. Power(b) = CHOOSE h : Eqn(h)
    BY Zenon DEF Power
  <2> HIDE DEF Eqn
  <2> QED BY <1>3, <2>1, Zenon
<1> DEFINE p == Power(b)
<1>5. p = [k \in Nat |-> IF k = 0 THEN 1 ELSE b * p[k - 1]]
  BY <1>4
<1> HIDE DEF p
<1>6. p[0] = 1 /\ \A k \in Nat : p[k + 1] = b * p[k]
  BY <1>5
<1>7. \A k \in Nat : p[k] \in Nat
  <2> DEFINE S == {k \in Nat : p[k] \in Nat}
  <2>1. 0 \in S /\ \A k \in Nat : k \in S => k + 1 \in S
    BY <1>6
  <2> HIDE DEF S
  <2>2. \A k \in Nat : k \in S
    BY <2>1, NatSteps
  <2> QED BY <2>2 DEF S
<1> QED BY <1>6, <1>7 DEF p

\* b^(i + j) = b^i * b^j
LEMMA PowerOfSum ==
  ASSUME NEW b \in Nat, NEW i \in Nat
  PROVE  \A j \in Nat : Power(b)[i + j] = Power(b)[i] * Power(b)[j]
<1> DEFINE p == Power(b)
           S == {j \in Nat : p[i + j] = p[i] * p[j]}
<1>1. p[0] = 1 /\ \A k \in Nat : p[k] \in Nat /\ p[k + 1] = b * p[k]
  BY PowerDef
<1> HIDE DEF p
<1>2. 0 \in S
  BY <1>1
<1>3. ASSUME NEW j \in Nat, j \in S PROVE j + 1 \in S
  <2>1. p[i + (j + 1)] = b * p[i + j]
    <3>1. i + (j + 1) = (i + j) + 1 /\ i + j \in Nat
      OBVIOUS
    <3> QED BY <1>1, <3>1
  <2>2. p[i + j] = p[i] * p[j] /\ p[j + 1] = b * p[j]
    BY <1>1, <1>3
  <2>3. p[i] \in Nat /\ p[j] \in Nat
    BY <1>1
  <2>4. b * (p[i] * p[j]) = p[i] * (b * p[j])
    BY <2>3
  <2> QED BY <2>1, <2>2, <2>4
<1>4. \A j \in Nat : j \in S
  <2> HIDE DEF S
  <2> QED BY <1>2, <1>3, NatSteps
<1> QED BY <1>4 DEF p

\* (b^d)^k = b^(d * k)
LEMMA PowerOfProduct ==
  ASSUME NEW b \in Nat, NEW d \in Nat
  PROVE  \A k \in Nat : Power(Power(b)[d])[k] = Power(b)[d * k]
<1> DEFINE p == Power(b)
           q == Power(p[d])
           S == {k \in Nat : q[k] = p[d * k]}
<1>1. p[0] = 1 /\ \A k \in Nat : p[k] \in Nat
  BY PowerDef
<1>2. q[0] = 1 /\ \A k \in Nat : q[k] \in Nat /\ q[k + 1] = p[d] * q[k]
  BY <1>1, PowerDef
<1>3. \A i, j \in Nat : p[i + j] = p[i] * p[j]
  BY PowerOfSum
<1> HIDE DEF p, q
<1>4. 0 \in S
  BY <1>1, <1>2
<1>5. ASSUME NEW k \in Nat, k \in S PROVE k + 1 \in S
  <2>1. d * k \in Nat /\ d * (k + 1) = d + d * k
    OBVIOUS
  <2>2. p[d * (k + 1)] = p[d] * p[d * k]
    BY <1>3, <2>1
  <2> QED BY <1>2, <1>5, <2>2
<1>6. \A k \in Nat : k \in S
  <2> HIDE DEF S
  <2> QED BY <1>4, <1>5, NatSteps
<1> QED BY <1>6 DEF p, q

\* b^i <= b^j for i <= j.
LEMMA PowerMonotonic ==
  ASSUME NEW b \in Nat \ {0}, NEW i \in Nat, NEW j \in Nat, i <= j
  PROVE  Power(b)[i] \in Nat \ {0} /\ Power(b)[i] <= Power(b)[j]
<1> DEFINE p == Power(b)
           S == {k \in Nat : p[k] >= 1}
<1>1. p[0] = 1 /\ \A k \in Nat : p[k] \in Nat /\ p[k + 1] = b * p[k]
  BY PowerDef
<1>2. p[i + (j - i)] = p[i] * p[j - i]
  BY PowerOfSum
<1> HIDE DEF p
<1>3. ASSUME NEW k \in Nat, k \in S PROVE k + 1 \in S
  <2>1. p[k] * 1 <= p[k] * b
    BY <1>1, <1>3, ProductMonotonic
  <2>2. p[k] \in Nat /\ p[k] >= 1 /\ p[k + 1] = p[k] * b
    BY <1>1, <1>3
  <2>3. p[k + 1] >= 1
    BY <2>1, <2>2
  <2> QED BY <2>3
<1>4. \A k \in Nat : k \in S
  <2>1. 0 \in S
    BY <1>1
  <2> HIDE DEF S
  <2> QED BY <1>3, <2>1, NatSteps
<1>5. p[i] \in Nat /\ p[i] >= 1 /\ p[j - i] \in Nat /\ p[j - i] >= 1
  BY <1>1, <1>4
<1>6. p[i] * 1 <= p[i] * p[j - i]
  BY <1>5, ProductMonotonic
<1>7. p[j] = p[i] * p[j - i] /\ p[i] * 1 = p[i]
  BY <1>2, <1>5
<1> QED BY <1>5, <1>6, <1>7 DEF p
=============================================================================
