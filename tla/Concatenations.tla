---------------------------- MODULE Concatenations ----------------------------
(***************************************************************************)
(* What FlattenSeq of the community modules returns, for sequences of any  *)
(* length: what the ledger (LockFile) and the run store (SegmentedStore)   *)
(* are read with, and what an adoption picks its files with.  It is        *)
(* defined by recursion; what it does is shown by the least index at which *)
(* it would not.                                                           *)
(***************************************************************************)
EXTENDS SequencesExt, SequenceTheorems, NaturalsInduction, WellFoundedInduction, TLAPS

LEMMA SmallestNat ==
  ASSUME NEW S, S \subseteq Nat, S # {}
  PROVE  \E m \in S : \A n \in S : m <= n
<1>1. PICK m \in S : \A n \in S : ~ (<<n, m>> \in OpToRel(<, Nat))
  BY NatLessThanWellFounded, WFMin
<1>2. ASSUME NEW n \in S PROVE m <= n
  <2>1. ~ (n < m)
    BY <1>1 DEF OpToRel
  <2> QED  BY <2>1
<1> QED  BY <1>1, <1>2

(* Concatenation and sequences under names, to be kept folded.             *)
Cat(u, v) == u \o v
Lists(T) == Seq(T)
Parts(T, n) == [1 .. n -> Lists(T)]

(* g is the concatenation of the first elements of s, step by step.       *)
Joins(g, s, n) == \A i \in 1 .. n : g[i] = IF i = 1 THEN s[i] ELSE Cat(g[i-1], s[i])

(* What to know of concatenations.                                         *)
LEMMA CatFacts ==
    ASSUME NEW T
    PROVE  /\ <<>> \in Lists(T)
           /\ \A u \in Lists(T) : Cat(u, <<>>) = u /\ Cat(<<>>, u) = u
           /\ \A u, v \in Lists(T) : Cat(u, v) \in Lists(T)
           /\ \A u, v, w \in Lists(T) : Cat(Cat(u, v), w) = Cat(u, Cat(v, w))
<1>1. \A u, v, w \in Seq(T) : (u \o v) \o w = u \o (v \o w)
  BY ConcatAssociative
<1>2. <<>> \in Seq(T) /\ \A u \in Seq(T) : u \o <<>> = u /\ <<>> \o u = u
  BY ConcatEmptySeq, EmptySeq
<1>3. \A u, v \in Seq(T) : u \o v \in Seq(T)
  BY ConcatProperties
<1> QED  BY <1>1, <1>2, <1>3 DEF Cat, Lists

LEMMA JoinExists ==
  ASSUME NEW T, NEW n \in Nat \ {0}, NEW s \in [1 .. n -> Seq(T)]
  PROVE  \E g \in [1 .. n -> Seq(T)] : Joins(g, s, n)
<1> DEFINE Bad == {k \in 1 .. n : ~ \E g \in [1 .. k -> Seq(T)] : Joins(g, s, k)}
<1>1. SUFFICES ASSUME Bad # {} PROVE FALSE
  <2>1. n \notin Bad
    BY <1>1
  <2> QED  BY <2>1
<1>2. PICK m \in Bad : \A k \in Bad : m <= k
  <2>. Bad \subseteq Nat OBVIOUS
  <2> HIDE DEF Bad
  <2> QED  BY <1>1, SmallestNat
<1>3. m \in 1 .. n
  OBVIOUS
<1>4. CASE m = 1
  <2>1. [i \in 1 .. 1 |-> s[1]] \in [1 .. 1 -> Seq(T)]
    OBVIOUS
  <2>2. Joins([i \in 1 .. 1 |-> s[1]], s, 1)
    BY DEF Joins
  <2> QED  BY <1>4, <2>1, <2>2
<1>5. CASE m # 1
  <2> DEFINE l == m - 1
  <2>0. l \in 1 .. n /\ l < m
    BY <1>3, <1>5
  <2>00. l \notin Bad
    <3> HIDE DEF Bad, l
    <3> QED  BY <1>2, <2>0, <1>3
  <2>1. m - 1 \in 1 .. n /\ m - 1 \notin Bad
    BY <2>0, <2>00
  <2>2. PICK g \in [1 .. m - 1 -> Seq(T)] : Joins(g, s, m - 1)
    BY <2>1
  <2> DEFINE h == [i \in 1 .. m |-> IF i = m THEN Cat(g[m - 1], s[m]) ELSE g[i]]
  <2>3. h \in [1 .. m -> Seq(T)]
    <3>1. g[m-1] \in Seq(T) /\ s[m] \in Seq(T)
      BY <1>3, <1>5
    <3>2. Cat(g[m-1], s[m]) \in Seq(T)
      BY <3>1, CatFacts DEF Lists
    <3> QED  BY <3>2, <1>3
  <2>4. Joins(h, s, m)
    <3> SUFFICES ASSUME NEW i \in 1 .. m PROVE h[i] = IF i = 1 THEN s[i] ELSE Cat(h[i-1], s[i])
      BY DEF Joins
    <3>1. CASE i = m
      <4>1. m \in 1 .. m /\ m - 1 \in 1 .. m /\ m - 1 # m
        BY <1>3, <1>5
      <4>2. h[m] = Cat(g[m-1], s[m]) /\ h[m-1] = g[m-1]
        BY <4>1
      <4> QED  BY <3>1, <4>2, <1>5
    <3>2. CASE i # m
      <4>1. i \in 1 .. m - 1
        BY <3>2, <1>3
      <4>2. g[i] = IF i = 1 THEN s[i] ELSE Cat(g[i-1], s[i])
        BY <4>1, <2>2 DEF Joins
      <4>3. h[i] = g[i] /\ (i # 1 => h[i-1] = g[i-1])
        BY <4>1, <1>3, <1>5
      <4> QED  BY <4>2, <4>3
    <3> QED  BY <3>1, <3>2
  <2> QED  BY <2>3, <2>4, <1>2
<1> QED  BY <1>4, <1>5

Joined(T, n, g, s) ==
    n \in Nat \ {0} /\ s \in Parts(T, n) /\ g \in Parts(T, n) /\ Joins(g, s, n)
Agree(s, t, a, b) == \A i \in a .. b : s[i] = t[i]

LEMMA FlattenJoins ==
  ASSUME NEW T, NEW n \in Nat \ {0}, NEW s \in Parts(T, n)
  PROVE  \E g : Joined(T, n, g, s) /\ FlattenSeq(s) = g[n]
<1>0. s \in [1 .. n -> Seq(T)]
  BY DEF Parts, Lists
<1>1. PICK g \in [1 .. n -> Seq(T)] : Joins(g, s, n)
  BY <1>0, JoinExists
<1>2. Len(s) = n
  BY <1>0
<1> DEFINE Is(f) == f = [i \in 1 .. n |-> IF i = 1 THEN s[i] ELSE Cat(f[i-1], s[i])]
<1>3. Is(g)
  BY <1>1 DEF Joins
<1> DEFINE c == CHOOSE f : Is(f)
<1>4. Is(c) 
  <2> HIDE DEF Is
  <2> QED  BY <1>3
<1>5. FlattenSeq(s) = c[n]
  BY <1>2 DEF FlattenSeq, Cat
<1>6. Joins(c, s, n)
  <2> HIDE DEF c
  <2> QED  BY <1>4 DEF Joins
<1>7. c \in [1 .. n -> Seq(T)]
  <2> HIDE DEF c
  <2> DEFINE Bad == {k \in 1 .. n : c[k] \notin Seq(T)}
  <2>1. SUFFICES ASSUME Bad # {} PROVE FALSE
    BY <1>4
  <2>2. PICK m \in Bad : \A k \in Bad : m <= k
    <3>. Bad \subseteq Nat OBVIOUS
    <3> HIDE DEF Bad
    <3> QED  BY <2>1, SmallestNat
  <2>3. m # 1 => m - 1 \in 1 .. n /\ m - 1 \notin Bad
    BY <2>2
  <2>4. c[m] \in Seq(T)
    <3>1. CASE m = 1
      BY <1>0, <3>1, <1>6 DEF Joins
    <3>2. CASE m # 1
      <4>1. c[m] = Cat(c[m-1], s[m])
        BY <3>2, <1>6 DEF Joins
      <4>2. c[m-1] \in Seq(T) /\ s[m] \in Seq(T)
        BY <1>0, <3>2, <2>3
      <4>3. \A u, v \in Seq(T) : Cat(u, v) \in Seq(T)
        BY CatFacts DEF Lists
      <4> QED  BY <4>1, <4>2, <4>3
    <3> QED  BY <3>1, <3>2
  <2> QED  BY <2>4
<1> QED  BY <1>5, <1>6, <1>7 DEF Joined, Parts, Lists

LEMMA JoinedAt ==
    ASSUME NEW T, NEW n, NEW g, NEW s, Joined(T, n, g, s), NEW k \in 1 .. n
    PROVE  /\ g[k] \in Lists(T) /\ s[k] \in Lists(T)
           /\ k = 1 => g[k] = s[k]
           /\ k # 1 => g[k] = Cat(g[k - 1], s[k]) /\ k - 1 \in 1 .. n
  BY DEF Joined, Joins, Parts

(* Where two sequences agree, so do their concatenations, but for what     *)
(* comes before.                                                           *)
LEMMA JoinsAgree ==
    ASSUME NEW T, NEW n, NEW s, NEW t, NEW g, NEW h, Joined(T, n, g, s), Joined(T, n, h, t),
           NEW pre \in Lists(T), NEW k \in 1 .. n, NEW m \in k .. n, g[k] = Cat(pre, h[k]),
           Agree(s, t, k + 1, m)
    PROVE  g[m] = Cat(pre, h[m])
<1> DEFINE Bad == {i \in k .. m : g[i] # Cat(pre, h[i])}
<1>1. SUFFICES ASSUME Bad # {} PROVE FALSE
  <2>1. m \in k .. m
    BY DEF Joined
  <2> QED  BY <2>1
<1>0. n \in Nat
  BY DEF Joined
<1>2. PICK b \in Bad : \A i \in Bad : b <= i
  <2>1. Bad \subseteq Nat
    BY <1>0
  <2> HIDE DEF Bad
  <2> QED  BY <1>1, <2>1, SmallestNat
<1>3. b \in k .. m /\ b # k /\ g[b] # Cat(pre, h[b])
  BY <1>2
<1>4. b - 1 \in k .. m /\ b - 1 < b /\ b \in k + 1 .. m /\ b \in 1 .. n /\ b - 1 \in 1 .. n /\ b # 1
  BY <1>0, <1>3
<1>5. g[b - 1] = Cat(pre, h[b - 1])
  <2>1. b - 1 \notin Bad
    <3>1. \A i \in Bad : i \in Nat /\ b <= i
      BY <1>0, <1>2
    <3> HIDE DEF Bad
    <3> QED  BY <3>1, <1>4, <1>0
  <2> QED  BY <1>4, <2>1
<1>6. g[b] = Cat(g[b - 1], s[b]) /\ h[b] = Cat(h[b - 1], t[b])
  BY <1>4, JoinedAt
<1>7. s[b] = t[b]
  BY <1>4 DEF Agree
<1>8. h[b - 1] \in Lists(T) /\ t[b] \in Lists(T)
  BY <1>4, JoinedAt
<1>9. Cat(Cat(pre, h[b - 1]), t[b]) = Cat(pre, Cat(h[b - 1], t[b]))
  <2>1. \A u, v, w \in Lists(T) : Cat(Cat(u, v), w) = Cat(u, Cat(v, w))
    BY CatFacts
  <2> QED  BY <1>8, <2>1
<1> QED  BY <1>3, <1>5, <1>6, <1>7, <1>9

LEMMA JoinsSame ==
    ASSUME NEW T, NEW n, NEW s, NEW t, NEW g, NEW h, Joined(T, n, g, s), Joined(T, n, h, t),
           NEW k \in 1 .. n, NEW m \in k .. n, g[k] = h[k], Agree(s, t, k + 1, m)
    PROVE  g[m] = h[m]
<1>1. m \in 1 .. n
  BY DEF Joined
<1>2. h[k] \in Lists(T) /\ h[m] \in Lists(T)
  BY <1>1, JoinedAt
<1>3. g[k] = Cat(<<>>, h[k]) /\ <<>> \in Lists(T)
  BY <1>2, CatFacts
<1>4. g[m] = Cat(<<>>, h[m])
  BY <1>3, JoinsAgree
<1> QED  BY <1>2, <1>4, CatFacts

(* The first is emptied.                                                   *)
LEMMA FlattenWithoutFirst ==
    ASSUME NEW T, NEW n \in Nat \ {0}, NEW s \in Parts(T, n), NEW t \in Parts(T, n),
           t[1] = <<>>, Agree(s, t, 2, n)
    PROVE  FlattenSeq(s) = Cat(s[1], FlattenSeq(t))
<1>1. PICK g : Joined(T, n, g, s) /\ FlattenSeq(s) = g[n]
  BY FlattenJoins
<1>2. PICK h : Joined(T, n, h, t) /\ FlattenSeq(t) = h[n]
  BY FlattenJoins
<1>3. 1 \in 1 .. n /\ n \in 1 .. n /\ 1 + 1 = 2
  OBVIOUS
<1>4. g[1] = s[1] /\ h[1] = <<>> /\ s[1] \in Lists(T)
  BY <1>1, <1>2, <1>3, JoinedAt
<1>5. g[1] = Cat(s[1], h[1])
  BY <1>4, CatFacts
<1>6. g[n] = Cat(s[1], h[n])
  BY <1>1, <1>2, <1>3, <1>4, <1>5, JoinsAgree
<1> QED  BY <1>1, <1>2, <1>6

(* One moves up into its empty neighbour.                                  *)
LEMMA FlattenMoved ==
    ASSUME NEW T, NEW n \in Nat \ {0}, NEW s \in Parts(T, n), NEW t \in Parts(T, n),
           NEW k \in 1 .. n, k + 1 \in 1 .. n, s[k] = <<>>, t[k] = s[k + 1], t[k + 1] = <<>>,
           Agree(s, t, 1, k - 1), Agree(s, t, k + 2, n)
    PROVE  FlattenSeq(s) = FlattenSeq(t)
<1>1. PICK g : Joined(T, n, g, s) /\ FlattenSeq(s) = g[n]
  BY FlattenJoins
<1>2. PICK h : Joined(T, n, h, t) /\ FlattenSeq(t) = h[n]
  BY FlattenJoins
<1>3. k + 1 # 1 /\ (k + 1) - 1 = k /\ (k + 1) + 1 = k + 2 /\ n \in k + 1 .. n
  OBVIOUS
<1>4. g[k + 1] = Cat(g[k], s[k + 1]) /\ h[k + 1] = Cat(h[k], <<>>)
  BY <1>1, <1>2, <1>3, JoinedAt
<1>5. s[k + 1] \in Lists(T) /\ g[k] \in Lists(T) /\ h[k] \in Lists(T)
  BY <1>1, <1>2, JoinedAt
<1>6. h[k + 1] = h[k]
  BY <1>4, <1>5, CatFacts
<1>7. CASE k = 1
  <2>1. g[k] = <<>> /\ h[k] = s[k + 1]
    BY <1>1, <1>2, <1>7, JoinedAt
  <2> QED  BY <1>1, <1>2, <1>3, <1>4, <1>5, <1>6, <2>1, CatFacts, JoinsSame
<1>8. CASE k # 1
  <2>1. k - 1 \in 1 .. n /\ 1 \in 1 .. n /\ k - 1 \in 1 .. n /\ 1 + 1 = 2
    BY <1>8
  <2>2. g[k] = Cat(g[k - 1], <<>>) /\ h[k] = Cat(h[k - 1], s[k + 1])
    BY <1>1, <1>2, <1>8, JoinedAt
  <2>3. g[1] = h[1]
    <3>1. g[1] = s[1] /\ h[1] = t[1]
      BY <1>1, <1>2, <2>1, JoinedAt
    <3>2. 1 \in 1 .. k - 1
      BY <2>1
    <3> QED  BY <3>1, <3>2 DEF Agree
  <2>4. Agree(s, t, 2, k - 1)
    BY DEF Agree
  <2>5. g[k - 1] = h[k - 1] /\ g[k - 1] \in Lists(T)
    BY <1>1, <1>2, <2>1, <2>3, <2>4, JoinsSame, JoinedAt
  <2>6. g[k + 1] = h[k + 1]
    BY <1>4, <1>6, <2>2, <2>5, CatFacts
  <2> QED  BY <1>1, <1>2, <1>3, <2>6, JoinsSame
<1> QED  BY <1>7, <1>8

(* The last grows.                                                         *)
LEMMA FlattenGrown ==
    ASSUME NEW T, NEW n \in Nat \ {0}, NEW s \in Parts(T, n), NEW t \in Parts(T, n),
           NEW new \in Lists(T), t[n] = Cat(s[n], new), Agree(s, t, 1, n - 1)
    PROVE  FlattenSeq(t) = Cat(FlattenSeq(s), new)
<1>1. PICK g : Joined(T, n, g, s) /\ FlattenSeq(s) = g[n]
  BY FlattenJoins
<1>2. PICK h : Joined(T, n, h, t) /\ FlattenSeq(t) = h[n]
  BY FlattenJoins
<1>3. n \in 1 .. n /\ 1 \in 1 .. n /\ 1 + 1 = 2
  OBVIOUS
<1>4. CASE n = 1
  <2>1. g[n] = s[n] /\ h[n] = t[n]
    BY <1>1, <1>2, <1>3, <1>4, JoinedAt
  <2> QED  BY <1>1, <1>2, <2>1
<1>5. CASE n # 1
  <2>1. n - 1 \in 1 .. n
    BY <1>5
  <2>2. g[n] = Cat(g[n - 1], s[n]) /\ h[n] = Cat(h[n - 1], Cat(s[n], new))
    BY <1>1, <1>2, <1>3, <1>5, JoinedAt
  <2>3. g[1] = h[1]
    <3>1. g[1] = s[1] /\ h[1] = t[1]
      BY <1>1, <1>2, <1>3, JoinedAt
    <3>2. 1 \in 1 .. n - 1
      BY <2>1
    <3> QED  BY <3>1, <3>2 DEF Agree
  <2>4. Agree(s, t, 2, n - 1)
    BY DEF Agree
  <2>5. g[n - 1] = h[n - 1] /\ g[n - 1] \in Lists(T) /\ s[n] \in Lists(T)
    BY <1>1, <1>2, <1>3, <2>1, <2>3, <2>4, JoinsSame, JoinedAt
  <2>6. Cat(g[n - 1], Cat(s[n], new)) = Cat(Cat(g[n - 1], s[n]), new)
    <3>1. \A u, v, w \in Lists(T) : Cat(Cat(u, v), w) = Cat(u, Cat(v, w))
      BY CatFacts
    <3> QED  BY <2>5, <3>1
  <2> QED  BY <1>1, <1>2, <2>2, <2>5, <2>6
<1> QED  BY <1>4, <1>5


LEMMA FlattenTyped ==
    ASSUME NEW T, NEW n \in Nat \ {0}, NEW s \in Parts(T, n)
    PROVE  FlattenSeq(s) \in Lists(T)
<1>1. PICK g : Joined(T, n, g, s) /\ FlattenSeq(s) = g[n]
  BY FlattenJoins
<1>2. n \in 1 .. n
  OBVIOUS
<1> QED  BY <1>1, <1>2, JoinedAt

LEMMA PrefixOfItself ==
    ASSUME NEW T, NEW u \in Lists(T), NEW v \in Lists(T)
    PROVE  IsPrefix(u, u) /\ IsPrefix(u, Cat(u, v))
<1>1. u \in Seq(T) /\ v \in Seq(T)
  BY DEF Lists
<1>2. /\ u \o v \in Seq(T) /\ Len(u \o v) = Len(u) + Len(v)
      /\ \A i \in 1 .. Len(u) : (u \o v)[i] = u[i]
  BY <1>1, ConcatProperties
<1>3. SubSeq(u, 1, Len(u)) = SubSeq(u \o v, 1, Len(u))
  BY <1>1, <1>2
<1> QED  BY <1>1, <1>2, <1>3 DEF IsPrefix, Cat

(* One more at the end, also of none.                                      *)
LEMMA FlattenAppended ==
    ASSUME NEW T, NEW s \in Seq(Seq(T)), NEW u \in Seq(T)
    PROVE  FlattenSeq(s) \in Lists(T) /\ FlattenSeq(Append(s, u)) = Cat(FlattenSeq(s), u)
<1> DEFINE n == Len(s)
           t == Append(s, u)
<1>1. n \in Nat /\ u \in Lists(T) /\ s \in Seq(Lists(T)) /\ t \in Seq(Lists(T))
  BY AppendProperties, LenProperties DEF Lists
<1>2. Len(t) = n + 1 /\ t[n + 1] = u /\ \A i \in 1 .. n : t[i] = s[i]
  BY <1>1, AppendProperties
<1>3. t \in Parts(T, n + 1) /\ n + 1 \in Nat \ {0} /\ n + 1 \in 1 .. n + 1
  <2> HIDE DEF n, t
  <2>1. t \in [1 .. Len(t) -> Lists(T)]
    BY <1>1, LenProperties
  <2>2. n + 1 \in Nat \ {0} /\ n + 1 \in 1 .. n + 1
    BY <1>1
  <2> QED  BY <1>2, <2>1, <2>2 DEF Parts
<1>4. PICK h : Joined(T, n + 1, h, t) /\ FlattenSeq(t) = h[n + 1]
  <2> HIDE DEF n, t
  <2> QED  BY <1>3, FlattenJoins
<1>5. CASE n = 0
  <2>1. FlattenSeq(s) = <<>>
    <3>1. s = <<>>
      BY <1>5, <1>1, EmptySeq
    <3> QED  BY <3>1, <1>5 DEF FlattenSeq
  <2>2. h[n + 1] = u
    <3>1. h[n + 1] = t[n + 1]
      BY <1>3, <1>4, <1>5, JoinedAt
    <3> QED  BY <3>1, <1>2
  <2> QED  BY <1>1, <1>4, <2>1, <2>2, CatFacts
<1>6. CASE n # 0
  <2>1. s \in Parts(T, n) /\ n \in Nat \ {0} /\ 1 \in 1 .. n /\ n \in 1 .. n /\ 1 + 1 = 2
    BY <1>1, <1>6, LenProperties DEF Parts
  <2>2. PICK g : Joined(T, n, g, s) /\ FlattenSeq(s) = g[n]
    <3> HIDE DEF n
    <3> QED  BY <2>1, FlattenJoins
  <2>3. g[n] \in Lists(T)
    <3> HIDE DEF n
    <3> QED  BY <2>1, <2>2, JoinedAt
  <2>4. h[n + 1] = Cat(h[n], u)
    <3> HIDE DEF n, t
    <3>1. n + 1 # 1 /\ (n + 1) - 1 = n
      BY <1>1, <1>6
    <3> QED  BY <1>2, <1>3, <1>4, <3>1, JoinedAt
  <2>5. g[n] = h[n]
    <3> DEFINE k == [i \in 1 .. n |-> h[i]]
               r == [i \in 1 .. n |-> t[i]]
    <3>1. Joined(T, n, k, r)
      <4>1. \A i \in 1 .. n : /\ i \in 1 .. n + 1 /\ h[i] \in Lists(T) /\ t[i] \in Lists(T)
                             /\ h[i] = IF i = 1 THEN t[i] ELSE Cat(h[i - 1], t[i])
        <5> HIDE DEF n, t
        <5> QED  BY <1>1, <1>4 DEF Joined, Joins, Parts
      <4>2. k \in Parts(T, n) /\ r \in Parts(T, n)
        <5> HIDE DEF n, t
        <5> QED  BY <4>1 DEF Parts
      <4>3. \A i \in 1 .. n : i # 1 => i - 1 \in 1 .. n
        BY <1>1
      <4>4. Joins(k, r, n)
        <5> HIDE DEF n, t
        <5> QED  BY <4>1, <4>3 DEF Joins
      <4> HIDE DEF n, t, k, r
      <4> QED  BY <2>1, <4>2, <4>4 DEF Joined
    <3>2. g[1] = k[1]
      <4>1. g[1] = s[1] /\ k[1] = r[1] /\ r[1] = s[1]
        BY <2>1, <2>2, <3>1, <1>2 DEF Joined, Joins
      <4> QED  BY <4>1
    <3>3. Agree(s, r, 2, n)
      BY <1>2 DEF Agree
    <3>4. g[n] = k[n]
      <4> HIDE DEF n, k, r
      <4> QED  BY <2>1, <2>2, <3>1, <3>2, <3>3, JoinsSame
    <3> QED  BY <2>1, <3>4
  <2> QED  BY <1>4, <2>2, <2>3, <2>4, <2>5
<1> QED  BY <1>5, <1>6

(* Pieces that follow one another give what they were cut from.            *)
CutAt(T, w, n, cut, s) ==
    /\ w \in Seq(T) /\ n \in Nat \ {0} /\ cut \in [0 .. n -> 0 .. Len(w)]
    /\ cut[0] = 0 /\ cut[n] = Len(w) /\ \A i \in 1 .. n : cut[i - 1] <= cut[i]
    /\ s \in Parts(T, n) /\ \A i \in 1 .. n : s[i] = SubSeq(w, cut[i - 1] + 1, cut[i])

LEMMA FlattenCut ==
    ASSUME NEW T, NEW w, NEW n, NEW cut, NEW s, CutAt(T, w, n, cut, s)
    PROVE  FlattenSeq(s) = w
<1>0. /\ w \in Seq(T) /\ n \in Nat \ {0} /\ cut \in [0 .. n -> 0 .. Len(w)]
      /\ cut[0] = 0 /\ cut[n] = Len(w) /\ \A i \in 1 .. n : cut[i - 1] <= cut[i]
      /\ s \in Parts(T, n) /\ \A i \in 1 .. n : s[i] = SubSeq(w, cut[i - 1] + 1, cut[i])
  BY DEF CutAt
<1>1. PICK g : Joined(T, n, g, s) /\ FlattenSeq(s) = g[n]
  BY <1>0, FlattenJoins
<1> DEFINE Bad == {i \in 1 .. n : g[i] # SubSeq(w, 1, cut[i])}
<1>2. SUFFICES ASSUME Bad # {} PROVE FALSE
  <2>0. n \notin Bad
    BY <1>2
  <2>00. n \in 1 .. n
    BY <1>0
  <2>1. g[n] = SubSeq(w, 1, Len(w))
    BY <1>0, <2>0, <2>00
  <2>2. SubSeq(w, 1, Len(w)) = w
    BY <1>0, SubSeqFull
  <2> QED  BY <1>1, <2>1, <2>2
<1>3. PICK b \in Bad : \A i \in Bad : b <= i
  <2>1. Bad \subseteq Nat
    BY <1>0
  <2> HIDE DEF Bad
  <2> QED  BY <1>2, <2>1, SmallestNat
<1>4. b \in 1 .. n /\ g[b] # SubSeq(w, 1, cut[b])
  BY <1>3
<1>5. CASE b = 1
  <2>1. g[b] = s[b]
    BY <1>0, <1>1, <1>4, <1>5, JoinedAt
  <2>2. b - 1 = 0 /\ cut[0] = 0
    BY <1>0, <1>5
  <2>3. s[b] = SubSeq(w, cut[b - 1] + 1, cut[b])
    BY <1>0, <1>4
  <2>4. g[b] = SubSeq(w, 0 + 1, cut[b])
    BY <2>1, <2>2, <2>3
  <2> QED  BY <1>4, <2>4
<1>6. CASE b # 1
  <2>1. b - 1 \in 1 .. n /\ b - 1 \notin Bad
    <3>0. Bad \subseteq Nat
      BY <1>0
    <3>1. \A i \in Bad : i \in Nat /\ b <= i
      <4> HIDE DEF Bad
      <4> QED  BY <1>3, <3>0
    <3>2. b - 1 \in 1 .. n /\ b - 1 < b
      BY <1>0, <1>4, <1>6
    <3> HIDE DEF Bad
    <3> QED  BY <3>1, <3>2
  <2>2. g[b - 1] = SubSeq(w, 1, cut[b - 1])
    BY <2>1
  <2>3. g[b] = Cat(g[b - 1], s[b])
    BY <1>0, <1>1, <1>4, <1>6, JoinedAt
  <2>4. SubSeq(w, 1, cut[b - 1]) \o SubSeq(w, cut[b - 1] + 1, cut[b]) = SubSeq(w, 1, cut[b])
    <3>1. b - 1 \in 0 .. n /\ b \in 0 .. n /\ Len(w) \in Nat /\ cut[b - 1] <= cut[b]
      BY <1>0, <1>4, <2>1, LenProperties
    <3> HIDE DEF Bad
    <3>2. cut[b - 1] \in 0 .. Len(w) /\ cut[b] \in 0 .. Len(w)
      BY <1>0, <3>1
    <3>3. 1 \in 1 .. Len(w) + 1 /\ cut[b - 1] \in 1 - 1 .. Len(w) /\ cut[b] \in cut[b - 1] .. Len(w)
      BY <3>1, <3>2
    <3> QED  BY <1>0, <3>3, ConcatAdjacentSubSeq
  <2>5. s[b] = SubSeq(w, cut[b - 1] + 1, cut[b])
    BY <1>0, <1>4
  <2> QED  BY <1>4, <2>2, <2>3, <2>4, <2>5 DEF Cat
<1> QED  BY <1>5, <1>6

(* What is in a sequence, and that it has nothing twice.                   *)
Members(z) == {z[i] : i \in 1 .. Len(z)}
Apart(z) == \A i, j \in 1 .. Len(z) : z[i] = z[j] => i = j

LEMMA ConcatMembers ==
    ASSUME NEW T, NEW u \in Seq(T), NEW v \in Seq(T)
    PROVE  /\ Members(u \o v) = Members(u) \cup Members(v)
           /\ Apart(u \o v) <=> Apart(u) /\ Apart(v) /\ Members(u) \cap Members(v) = {}
<1>. DEFINE w == u \o v
            m == Len(u)
            n == Len(v)
<1>1. /\ m \in Nat /\ n \in Nat /\ Len(w) = m + n
      /\ \A i \in 1 .. m : w[i] = u[i]
  BY ConcatProperties, LenProperties
<1>2. \A i \in 1 .. n : w[m + i] = v[i]
  BY <1>1, ConcatProperties
<1>. HIDE DEF w
<1>3. \A k \in 1 .. m + n : k \in 1 .. m \/ (k - m \in 1 .. n /\ m + (k - m) = k)
  BY <1>1
<1>4. \A k \in 1 .. m : k \in 1 .. m + n
  BY <1>1
<1>5. \A k \in 1 .. n : m + k \in 1 .. m + n
  BY <1>1
<1>6. Members(w) = Members(u) \cup Members(v)
  <2>1. ASSUME NEW e \in Members(w) PROVE e \in Members(u) \cup Members(v)
    <3>1. PICK k \in 1 .. m + n : e = w[k]
      BY <1>1, <2>1 DEF Members
    <3>2. CASE k \in 1 .. m
      BY <1>1, <3>1, <3>2 DEF Members
    <3>3. CASE k - m \in 1 .. n /\ m + (k - m) = k
      <4>1. e = v[k - m]
        BY <1>2, <3>1, <3>3
      <4>. QED  BY <3>3, <4>1 DEF Members
    <3>. QED  BY <1>3, <3>2, <3>3
  <2>2. ASSUME NEW e \in Members(u) PROVE e \in Members(w)
    BY <1>1, <1>4, <2>2 DEF Members
  <2>3. ASSUME NEW e \in Members(v) PROVE e \in Members(w)
    <3>1. PICK k \in 1 .. n : e = v[k]
      BY <2>3 DEF Members
    <3>2. e = w[m + k] /\ m + k \in 1 .. Len(w)
      BY <1>1, <1>2, <1>5, <3>1
    <3>. QED  BY <3>2 DEF Members
  <2>. QED  BY <2>1, <2>2, <2>3
<1>7. ASSUME Apart(w) PROVE Apart(u) /\ Apart(v) /\ Members(u) \cap Members(v) = {}
  <2>1. Apart(u)
    BY <1>1, <1>4, <1>7 DEF Apart
  <2>2. Apart(v)
    <3>. SUFFICES ASSUME NEW i \in 1 .. n, NEW j \in 1 .. n, v[i] = v[j] PROVE i = j
      BY DEF Apart
    <3>1. w[m + i] = w[m + j] /\ m + i \in 1 .. Len(w) /\ m + j \in 1 .. Len(w)
      BY <1>1, <1>2, <1>5
    <3>2. m + i = m + j
      BY <1>7, <3>1 DEF Apart
    <3>. QED  BY <1>1, <3>2
  <2>3. ASSUME NEW i \in 1 .. m, NEW j \in 1 .. n, u[i] = v[j] PROVE FALSE
    <3>1. w[i] = w[m + j] /\ i \in 1 .. Len(w) /\ m + j \in 1 .. Len(w)
      BY <1>1, <1>2, <1>4, <1>5, <2>3
    <3>2. i = m + j
      BY <1>7, <3>1 DEF Apart
    <3>. QED  BY <1>1, <3>2
  <2>. QED  BY <2>1, <2>2, <2>3 DEF Members
<1>8. ASSUME Apart(u), Apart(v), Members(u) \cap Members(v) = {} PROVE Apart(w)
  <2>. SUFFICES ASSUME NEW i \in 1 .. m + n, NEW j \in 1 .. m + n, w[i] = w[j] PROVE i = j
    BY <1>1 DEF Apart
  <2>1. \A k \in 1 .. m + n : k \in 1 .. m => w[k] = u[k] /\ w[k] \in Members(u)
    BY <1>1 DEF Members
  <2>2. \A k \in 1 .. m + n : k - m \in 1 .. n => w[k] = v[k - m] /\ w[k] \in Members(v)
    <3>. TAKE k \in 1 .. m + n
    <3>. HAVE k - m \in 1 .. n
    <3>1. m + (k - m) = k
      BY <1>1
    <3>2. w[k] = v[k - m]
      BY <1>2, <3>1
    <3>. QED  BY <3>2 DEF Members
  <2>3. CASE i \in 1 .. m /\ j \in 1 .. m
    BY <1>8, <2>1, <2>3 DEF Apart
  <2>4. CASE i - m \in 1 .. n /\ j - m \in 1 .. n
    <3>1. i - m = j - m
      BY <1>8, <2>2, <2>4 DEF Apart
    <3>. QED  BY <1>1, <3>1
  <2>5. CASE \/ i \in 1 .. m /\ j - m \in 1 .. n
             \/ i - m \in 1 .. n /\ j \in 1 .. m
    BY <1>8, <2>1, <2>2, <2>5
  <2>. QED  BY <1>3, <2>3, <2>4, <2>5
<1>. QED  BY <1>6, <1>7, <1>8 DEF w

(* What is picked of the first k elements of z.                            *)
Picks(z, Q, k, w) == Members(w) = {z[i] : i \in 1 .. k} \cap Q /\ (Apart(z) => Apart(w))

LEMMA AppendMembers ==
    ASSUME NEW T, NEW z \in Seq(T), NEW e \in T
    PROVE  /\ Members(Append(z, e)) = Members(z) \cup {e}
           /\ Apart(z) /\ e \notin Members(z) => Apart(Append(z, e))
<1>1. /\ Len(z) \in Nat /\ Len(Append(z, e)) = Len(z) + 1
      /\ \A i \in 1 .. Len(z) : Append(z, e)[i] = z[i]
      /\ Append(z, e)[Len(z) + 1] = e
  BY AppendProperties, LenProperties
<1>2. 1 .. Len(z) + 1 = (1 .. Len(z)) \cup {Len(z) + 1}
  BY <1>1
<1>3. Members(Append(z, e)) = Members(z) \cup {e}
  BY <1>1, <1>2 DEF Members
<1>4. ASSUME Apart(z), e \notin Members(z) PROVE Apart(Append(z, e))
  BY <1>1, <1>2, <1>4 DEF Apart, Members
<1>. QED  BY <1>3, <1>4

LEMMA PickOne ==
    ASSUME NEW T, NEW z \in Seq(T), NEW Q, NEW k \in 1 .. Len(z), NEW w \in Lists(T), Picks(z, Q, k - 1, w)
    PROVE  LET e == IF z[k] \in Q THEN <<z[k]>> ELSE <<>>
           IN Cat(w, e) \in Lists(T) /\ Picks(z, Q, k, Cat(w, e))
<1>1. Len(z) \in Nat /\ z[k] \in T /\ w \in Seq(T) /\ 1 .. k = (1 .. k - 1) \cup {k}
  BY ElementOfSeq, LenProperties DEF Lists
<1>2. {z[i] : i \in 1 .. k} = {z[i] : i \in 1 .. k - 1} \cup {z[k]}
  BY <1>1
<1>3. CASE z[k] \in Q
  <2>1. Cat(w, <<z[k]>>) = Append(w, z[k]) /\ Append(w, z[k]) \in Lists(T)
    BY <1>1, AppendIsConcat, AppendProperties DEF Cat, Lists
  <2>2. Members(Append(w, z[k])) = {z[i] : i \in 1 .. k} \cap Q
    <3>1. Members(Append(w, z[k])) = Members(w) \cup {z[k]}
      BY <1>1, AppendMembers
    <3>. QED  BY <1>2, <1>3, <3>1 DEF Picks
  <2>3. ASSUME Apart(z) PROVE Apart(Append(w, z[k]))
    <3>1. z[k] \notin {z[i] : i \in 1 .. k - 1}
      BY <1>1, <2>3 DEF Apart
    <3>2. Apart(w) /\ z[k] \notin Members(w)
      BY <2>3, <3>1 DEF Picks
    <3>. QED  BY <1>1, <3>2, AppendMembers
  <2>. QED  BY <1>3, <2>1, <2>2, <2>3 DEF Picks
<1>4. CASE z[k] \notin Q
  <2>1. Cat(w, <<>>) = w
    BY CatFacts
  <2>2. Members(w) = {z[i] : i \in 1 .. k} \cap Q
    BY <1>2, <1>4 DEF Picks
  <2>. QED  BY <1>4, <2>1, <2>2 DEF Picks
<1>. QED  BY <1>3, <1>4

(* Those elements of a sequence that are in Q, as FlattenSeq picks them.   *)
Picked(z, Q) == FlattenSeq([i \in 1 .. Len(z) |-> IF z[i] \in Q THEN <<z[i]>> ELSE <<>>])

LEMMA PickedFacts ==
    ASSUME NEW T, NEW z \in Seq(T), NEW Q
    PROVE  /\ Picked(z, Q) \in Seq(T) /\ Members(Picked(z, Q)) = Members(z) \cap Q
           /\ Apart(z) => Apart(Picked(z, Q))
<1>. DEFINE n == Len(z)
            pieces == [i \in 1 .. n |-> IF z[i] \in Q THEN <<z[i]>> ELSE <<>>]
<1>. SUFFICES /\ FlattenSeq(pieces) \in Seq(T) /\ Members(FlattenSeq(pieces)) = Members(z) \cap Q
              /\ Apart(z) => Apart(FlattenSeq(pieces))
  BY DEF Picked
<1>1. n \in Nat
  BY LenProperties
<1>2. \A i \in 1 .. n : pieces[i] = IF z[i] \in Q THEN <<z[i]>> ELSE <<>>
  OBVIOUS
<1>3. Picks(z, Q, 0, <<>>)
  BY DEF Picks, Members, Apart
<1>4. CASE n = 0
  <2>1. Len(pieces) = 0
    BY <1>4
  <2>2. pieces = <<>>
    BY <1>4
  <2>3. FlattenSeq(pieces) = <<>>
    BY <2>1, <2>2 DEF FlattenSeq
  <2>4. Picks(z, Q, n, <<>>)
    BY <1>3, <1>4
  <2>. QED  BY <2>3, <2>4, EmptySeq DEF Picks, Members
<1>5. CASE n # 0
  <2>1. n \in Nat \ {0} /\ pieces \in Parts(T, n)
    <3>1. \A i \in 1 .. n : pieces[i] \in Lists(T)
      <4>. TAKE i \in 1 .. n
      <4>1. z[i] \in T
        BY ElementOfSeq
      <4>2. <<z[i]>> \in Lists(T) /\ <<>> \in Lists(T)
        BY <4>1 DEF Lists
      <4>. QED  BY <1>2, <4>2
    <3>2. pieces \in [1 .. n -> Lists(T)]
      <4>. DEFINE piece(i) == IF z[i] \in Q THEN <<z[i]>> ELSE <<>>
      <4>1. \A i \in 1 .. n : piece(i) \in Lists(T)
        BY <1>2, <3>1
      <4>2. pieces = [i \in 1 .. n |-> piece(i)]
        OBVIOUS
      <4>. HIDE DEF piece, pieces
      <4>. QED  BY <4>1, <4>2
    <3>. QED  BY <1>1, <1>5, <3>2 DEF Parts
  <2>. HIDE DEF pieces
  <2>2. PICK g : Joined(T, n, g, pieces) /\ FlattenSeq(pieces) = g[n]
    <3>. HIDE DEF n
    <3>. QED  BY <2>1, FlattenJoins
  <2>. DEFINE Bad == {k \in 1 .. n : ~ (g[k] \in Lists(T) /\ Picks(z, Q, k, g[k]))}
  <2>3. Bad = {}
    <3>1. SUFFICES ASSUME Bad # {} PROVE FALSE
      OBVIOUS
    <3>2. PICK k \in Bad : \A m \in Bad : k <= m
      <4>. Bad \subseteq Nat OBVIOUS
      <4>. HIDE DEF Bad
      <4>. QED  BY <3>1, SmallestNat
    <3>3. k \in 1 .. n /\ pieces[k] = IF z[k] \in Q THEN <<z[k]>> ELSE <<>>
      BY <1>2
    <3>4. CASE k = 1
      <4>1. g[k] = pieces[k] /\ pieces[k] \in Lists(T)
        <5>. HIDE DEF n, Bad
        <5>. QED  BY <2>2, <3>3, <3>4, JoinedAt
      <4>2. g[k] = Cat(<<>>, pieces[k]) /\ <<>> \in Lists(T)
        BY <4>1, CatFacts
      <4>3. Picks(z, Q, k - 1, <<>>)
        BY <1>3, <3>4
      <4>4. g[k] \in Lists(T) /\ Picks(z, Q, k, g[k])
        <5>. HIDE DEF Bad
        <5>. QED  BY <3>3, <4>2, <4>3, PickOne
      <4>. QED  BY <4>4
    <3>5. CASE k # 1
      <4>1. g[k] = Cat(g[k - 1], pieces[k]) /\ k - 1 \in 1 .. n
        <5>. HIDE DEF n, Bad
        <5>. QED  BY <2>2, <3>3, <3>5, JoinedAt
      <4>2. k - 1 \notin Bad
        BY <3>2, <3>3
      <4>3. g[k - 1] \in Lists(T) /\ Picks(z, Q, k - 1, g[k - 1])
        BY <4>1, <4>2
      <4>4. g[k] \in Lists(T) /\ Picks(z, Q, k, g[k])
        <5>. HIDE DEF Bad
        <5>. QED  BY <3>3, <4>1, <4>3, PickOne
      <4>. QED  BY <4>4
    <3>. QED  BY <3>4, <3>5
  <2>4. g[n] \in Lists(T) /\ Picks(z, Q, n, g[n])
    <3>1. n \in 1 .. n
      BY <1>1, <1>5
    <3>. QED  BY <2>3, <3>1
  <2>. QED  BY <2>2, <2>4 DEF Picks, Members, Lists
<1>. QED  BY <1>4, <1>5
==============================================================================
