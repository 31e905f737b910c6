--------------------------- MODULE SequenceLemmas ---------------------------
(***************************************************************************)
(* Facts about numbers, sets and sequences that the proofs about several   *)
(* modules rest on.                                                        *)
(***************************************************************************)
EXTENDS Integers, Sequences, FiniteSets, SequencesExt, FiniteSetsExt, FiniteSetTheorems, FunctionTheorems, SequenceTheorems, TLAPS

(* Induction over the naturals, for a set: the numbers up to n that are not *)
(* in S could be mapped into fewer by subtracting 1.                        *)
LEMMA SetInduction ==
  ASSUME NEW S, 0 \in S, \A n \in Nat : n \in S => n + 1 \in S
  PROVE  Nat \subseteq S
<1> SUFFICES ASSUME NEW n \in Nat, n \notin S PROVE FALSE
  OBVIOUS
<1> DEFINE X == {k \in 0..n : k \notin S}
           Y == X \ {n}
           pred == [k \in X |-> k - 1]
<1>1. IsFiniteSet(X) /\ n \in X
  <2>1. IsFiniteSet(0..n)
    BY FS_Interval
  <2> QED BY <2>1, FS_Subset
<1>2. IsFiniteSet(Y) /\ Cardinality(Y) < Cardinality(X)
  <2>1. Cardinality(Y) = Cardinality(X) - 1 /\ IsFiniteSet(Y)
    BY <1>1, FS_RemoveElement
  <2>2. Cardinality(X) \in Nat
    BY <1>1, FS_CardinalityType
  <2> QED BY <2>1, <2>2
<1>3. pred \in [X -> Y]
  <2> SUFFICES ASSUME NEW k \in X PROVE k - 1 \in Y
    OBVIOUS
  <2>1. k # 0 /\ k \in 0..n
    OBVIOUS
  <2>2. k - 1 \in Nat /\ k - 1 \in 0..n /\ k - 1 # n
    BY <2>1
  <2>3. k - 1 \notin S
    <3>1. k - 1 \in S => (k - 1) + 1 \in S
      BY <2>2
    <3>2. (k - 1) + 1 = k
      BY <2>1
    <3> QED BY <3>1, <3>2
  <2> QED BY <2>2, <2>3
<1>4. \E x, y \in X : x # y /\ pred[x] = pred[y]
  <2> HIDE DEF X, Y, pred
  <2> QED BY <1>1, <1>2, <1>3, FS_PigeonHole
<1> QED BY <1>4

(* The orders of a finite set.                                              *)
LEMMA OrdersProperties ==
  ASSUME NEW T, IsFiniteSet(T), NEW s \in SetToSeqs(T)
  PROVE  s \in Seq(T) /\ ToSet(s) = T /\ IsInjective(s)
<1> DEFINE D == 1..Cardinality(T)
<1>1. Cardinality(T) \in Nat
  BY FS_CardinalityType
<1>2. IsFiniteSet(D) /\ Cardinality(D) = Cardinality(T)
  BY <1>1, FS_Interval
<1>3. s \in [D -> T] /\ \A i, j \in D : i # j => s[i] # s[j]
  BY DEF SetToSeqs
<1>4. s \in Injection(D, T)
  BY <1>3 DEF Injection, IsInjective
<1>5. s \in Surjection(D, T)
  <2> HIDE DEF D
  <2> QED BY <1>2, <1>4, FS_Injection
<1>6. s \in Seq(T)
  BY <1>1, <1>3
<1>7. IsInjective(s)
  BY <1>3 DEF IsInjective
<1> QED BY <1>3, <1>5, <1>6, <1>7 DEF Surjection, ToSet

(* The concatenation of the first k sequences, which FlattenSeq computes by *)
(* recursion, exists.                                                       *)
Flattens(ss, k, f) == f = [i \in 1..k |-> IF i = 1 THEN ss[i] ELSE f[i - 1] \o ss[i]]

LEMMA FlattensExists ==
  ASSUME NEW ss, NEW n \in Nat
  PROVE  \E f : Flattens(ss, n, f)
<1> DEFINE S == {k \in Nat : \E f : Flattens(ss, k, f)}
<1>1. 0 \in S
  <2>1. Flattens(ss, 0, [i \in {} |-> 0])
    BY DEF Flattens
  <2> QED BY <2>1
<1>2. \A k \in Nat : k \in S => k + 1 \in S
  <2> SUFFICES ASSUME NEW k \in Nat, NEW f, Flattens(ss, k, f) PROVE k + 1 \in S
    OBVIOUS
  <2> DEFINE g == [i \in 1..k + 1 |-> IF i \in 1..k THEN f[i] ELSE IF i = 1 THEN ss[i] ELSE f[i - 1] \o ss[i]]
  <2>1. \A i \in 1..k + 1 : g[i] = IF i = 1 THEN ss[i] ELSE g[i - 1] \o ss[i]
    <3> TAKE i \in 1..k + 1
    <3>1. CASE i = 1
      BY <3>1 DEF Flattens
    <3>2. CASE i # 1
      <4>1. i - 1 \in 1..k /\ g[i - 1] = f[i - 1]
        BY <3>2
      <4>2. g[i] = f[i - 1] \o ss[i]
        BY <3>2 DEF Flattens
      <4> QED BY <3>2, <4>1, <4>2
    <3> QED BY <3>1, <3>2
  <2>2. Flattens(ss, k + 1, g)
    BY <2>1 DEF Flattens
  <2> QED BY <2>2
<1>3. n \in S
  <2> HIDE DEF S
  <2> QED BY <1>1, <1>2, SetInduction
<1> QED BY <1>3

Elements(ss, k) == UNION {Range(ss[i]) : i \in 1..k}

(* Every prefix of a concatenation is a sequence with the elements of its   *)
(* parts and no other.                                                      *)
LEMMA FlattensProperties ==
  ASSUME NEW S, NEW ss \in Seq(Seq(S)), NEW f, Flattens(ss, Len(ss), f), NEW n \in 1..Len(ss)
  PROVE  f[n] \in Seq(S) /\ Range(f[n]) = Elements(ss, n)
<1> DEFINE Good(m) == f[m] \in Seq(S) /\ Range(f[m]) = Elements(ss, m)
           T == {m \in Nat : m + 1 \in 1..Len(ss) => Good(m + 1)}
<1>1. \A i \in 1..Len(ss) : f[i] = IF i = 1 THEN ss[i] ELSE f[i - 1] \o ss[i]
  BY DEF Flattens
<1>2. \A i \in 1..Len(ss) : ss[i] \in Seq(S)
  OBVIOUS
<1>3. 0 \in T
  <2>1. Elements(ss, 1) = Range(ss[1])
    <3>1. 1..1 = {1}
      OBVIOUS
    <3> QED BY <3>1 DEF Elements
  <2> QED BY <2>1, <1>1, <1>2
<1>4. \A m \in Nat : m \in T => m + 1 \in T
  <2> SUFFICES ASSUME NEW m \in Nat, m + 2 \in 1..Len(ss), Good(m + 1) PROVE Good(m + 2)
    <3>1. \A m \in Nat : (m + 1) + 1 = m + 2
      OBVIOUS
    <3>2. ASSUME NEW m \in Nat PROVE (m + 1) + 1 \in 1..Len(ss) => m + 1 \in 1..Len(ss)
      OBVIOUS
    <3> HIDE DEF Good
    <3> QED BY <3>1, <3>2
  <2>1. f[m + 2] = f[m + 1] \o ss[m + 2]
    <3>1. (m + 2) - 1 = m + 1 /\ m + 2 # 1
      OBVIOUS
    <3> QED BY <3>1, <1>1
  <2>2. ss[m + 2] \in Seq(S) /\ f[m + 1] \in Seq(S)
    BY <1>2
  <2>3. f[m + 2] \in Seq(S) /\ Range(f[m + 2]) = Range(f[m + 1]) \cup Range(ss[m + 2])
    BY <2>1, <2>2, ConcatProperties, RangeConcatenation
  <2>4. Elements(ss, m + 2) = Elements(ss, m + 1) \cup Range(ss[m + 2])
    <3>1. 1..m + 2 = 1..m + 1 \cup {m + 2}
      OBVIOUS
    <3> QED BY <3>1 DEF Elements
  <2> QED BY <2>3, <2>4
<1>5. n - 1 \in T
  <2>1. n - 1 \in Nat
    OBVIOUS
  <2> HIDE DEF T
  <2> QED BY <2>1, <1>3, <1>4, SetInduction
<1>6. (n - 1) + 1 = n
  OBVIOUS
<1> QED BY <1>5, <1>6

(* FlattenSeq concatenates.                                                 *)
LEMMA FlattenSeqProperties ==
  ASSUME NEW S, NEW ss \in Seq(Seq(S))
  PROVE  /\ FlattenSeq(ss) \in Seq(S)
         /\ Range(FlattenSeq(ss)) = UNION {Range(ss[i]) : i \in 1..Len(ss)}
<1>1. CASE Len(ss) = 0
  <2>1. ss = <<>>
    BY <1>1
  <2> QED BY <2>1 DEF FlattenSeq, Range
<1>2. CASE Len(ss) # 0
  <2>1. Len(ss) \in Nat /\ Len(ss) \in 1..Len(ss)
    BY <1>2
  <2>2. \E f : Flattens(ss, Len(ss), f)
    BY <2>1, FlattensExists
  <2>3. PICK f : Flattens(ss, Len(ss), f) /\ FlattenSeq(ss) = f[Len(ss)]
    <3> DEFINE f == CHOOSE g : Flattens(ss, Len(ss), g)
    <3>1. FlattenSeq(ss) = f[Len(ss)]
      BY <1>2 DEF FlattenSeq, Flattens
    <3> QED BY <2>2, <3>1
  <2>4. f[Len(ss)] \in Seq(S) /\ Range(f[Len(ss)]) = Elements(ss, Len(ss))
    BY <2>1, <2>3, FlattensProperties
  <2> QED BY <2>3, <2>4 DEF Elements
<1> QED BY <1>1, <1>2

(* Where the parts are in a concatenation: part i begins behind o[i].       *)
PartsAt(ss, k, c, o) ==
  /\ o \in [1..k -> Nat]
  /\ \A i \in 1..k : \A j \in 1..Len(ss[i]) :
       o[i] + j \in 1..Len(c) /\ c[o[i] + j] = ss[i][j]
  /\ \A l \in 1..Len(c) : \E i \in 1..k : l - o[i] \in 1..Len(ss[i])

LEMMA FlattenSeqPositions ==
  ASSUME NEW S, NEW ss \in Seq(Seq(S))
  PROVE  \E o : PartsAt(ss, Len(ss), FlattenSeq(ss), o)
<1>1. CASE Len(ss) = 0
  <2>1. ss = <<>>
    BY <1>1
  <2>2. FlattenSeq(ss) = <<>>
    BY <2>1 DEF FlattenSeq
  <2>3. PartsAt(ss, 0, <<>>, [i \in {} |-> 0])
    BY DEF PartsAt
  <2> QED BY <1>1, <2>2, <2>3
<1>2. CASE Len(ss) # 0
  <2>1. Len(ss) \in Nat /\ Len(ss) \in 1..Len(ss)
    BY <1>2
  <2>2. \E f : Flattens(ss, Len(ss), f)
    BY <2>1, FlattensExists
  <2>3. PICK f : Flattens(ss, Len(ss), f) /\ FlattenSeq(ss) = f[Len(ss)]
    <3> DEFINE f == CHOOSE g : Flattens(ss, Len(ss), g)
    <3>1. FlattenSeq(ss) = f[Len(ss)]
      BY <1>2 DEF FlattenSeq, Flattens
    <3> QED BY <2>2, <3>1
  <2> DEFINE Good(k) == \E o : PartsAt(ss, k, f[k], o)
             T == {k \in Nat : k + 1 \in 1..Len(ss) => Good(k + 1)}
  <2>4. /\ \A i \in 1..Len(ss) : f[i] = IF i = 1 THEN ss[i] ELSE f[i - 1] \o ss[i]
        /\ \A i \in 1..Len(ss) : ss[i] \in Seq(S)
    <3>1. \A i \in 1..Len(ss) : f[i] = IF i = 1 THEN ss[i] ELSE f[i - 1] \o ss[i]
      BY <2>3 DEF Flattens
    <3>2. \A i \in 1..Len(ss) : ss[i] \in Seq(S)
      OBVIOUS
    <3> QED BY <3>1, <3>2
  <2>5. 0 \in T
    <3>1. PartsAt(ss, 1, ss[1], [i \in 1..1 |-> 0])
      <4>1. /\ ss[1] \in Seq(S) /\ Len(ss[1]) \in Nat /\ 1..1 = {1}
            /\ \A l \in 1..Len(ss[1]) : l - 0 = l /\ 0 + l = l
        BY <2>1, <2>4
      <4> QED BY <4>1 DEF PartsAt
    <3>2. f[1] = ss[1]
      BY <2>1, <2>4
    <3> QED BY <3>1, <3>2
  <2>6. ASSUME NEW k \in Nat, k \in T PROVE k + 1 \in T
    <3> SUFFICES ASSUME (k + 1) + 1 \in 1..Len(ss) PROVE Good((k + 1) + 1)
      <4> HIDE DEF Good
      <4> QED OBVIOUS
    <3>1. k + 1 \in 1..Len(ss) /\ (k + 1) + 1 = k + 2 /\ (k + 2) - 1 = k + 1 /\ k + 2 # 1
      BY <2>1
    <3>2. PICK o : PartsAt(ss, k + 1, f[k + 1], o)
      <4> HIDE DEF PartsAt
      <4> QED BY <2>6, <3>1
    <3>3. f[k + 2] = f[k + 1] \o ss[k + 2]
      BY <3>1, <2>4
    <3> DEFINE c == f[k + 1]
               d == ss[k + 2]
               new == [i \in 1..k + 2 |-> IF i = k + 2 THEN Len(c) ELSE o[i]]
    <3>4. c \in Seq(S) /\ d \in Seq(S) /\ Len(c) \in Nat /\ Len(d) \in Nat
      BY <3>1, <2>1, <2>3, <2>4, FlattensProperties
    <3>5. /\ Len(c \o d) = Len(c) + Len(d)
          /\ \A l \in 1..Len(c) + Len(d) :
               (c \o d)[l] = IF l <= Len(c) THEN c[l] ELSE d[l - Len(c)]
      BY <3>4, ConcatProperties
    <3>6. 1..k + 2 = 1..k + 1 \cup {k + 2} /\ k + 2 \notin 1..k + 1
      OBVIOUS
    <3> HIDE DEF c, d
    <3>7. PartsAt(ss, k + 1, c, o)
      BY <3>2 DEF c
    <3>8. /\ new \in [1..k + 2 -> Nat]
          /\ new[k + 2] = Len(c)
          /\ \A i \in 1..k + 1 : new[i] = o[i] /\ o[i] \in Nat
      BY <3>4, <3>6, <3>7 DEF PartsAt
    <3> HIDE DEF new
    <3>9. ASSUME NEW i \in 1..k + 2, NEW j \in 1..Len(ss[i])
          PROVE  new[i] + j \in 1..Len(c) + Len(d) /\ (c \o d)[new[i] + j] = ss[i][j]
      <4>1. CASE i = k + 2
        <5>1. j \in 1..Len(d) /\ new[i] = Len(c)
          BY <4>1, <3>8 DEF d
        <5>2. Len(c) + j \in 1..Len(c) + Len(d) /\ ~(Len(c) + j <= Len(c)) /\ (Len(c) + j) - Len(c) = j
          BY <5>1, <3>4
        <5> QED BY <4>1, <5>1, <5>2, <3>5 DEF d
      <4>2. CASE i \in 1..k + 1
        <5>1. new[i] + j \in 1..Len(c) /\ c[new[i] + j] = ss[i][j]
          BY <4>2, <3>7, <3>8 DEF PartsAt
        <5>2. new[i] + j \in 1..Len(c) + Len(d) /\ new[i] + j <= Len(c)
          BY <5>1, <3>4
        <5> QED BY <5>1, <5>2, <3>5
      <4> QED BY <4>1, <4>2, <3>6
    <3>10. ASSUME NEW l \in 1..Len(c) + Len(d)
           PROVE  \E i \in 1..k + 2 : l - new[i] \in 1..Len(ss[i])
      <4>1. CASE l <= Len(c)
        <5>1. l \in 1..Len(c)
          BY <4>1, <3>4
        <5> QED BY <5>1, <3>6, <3>7, <3>8 DEF PartsAt
      <4>2. CASE ~(l <= Len(c))
        <5>1. l - Len(c) \in 1..Len(d)
          BY <4>2, <3>4
        <5> QED BY <5>1, <3>6, <3>8 DEF d
      <4> QED BY <4>1, <4>2
    <3>11. PartsAt(ss, k + 2, c \o d, new)
      BY <3>5, <3>8, <3>9, <3>10 DEF PartsAt
    <3> HIDE DEF PartsAt
    <3> QED BY <3>1, <3>3, <3>11 DEF c, d
  <2>7. Len(ss) - 1 \in T
    <3>1. Len(ss) - 1 \in Nat
      BY <2>1
    <3> HIDE DEF T
    <3> QED BY <3>1, <2>5, <2>6, SetInduction
  <2>8. (Len(ss) - 1) + 1 = Len(ss)
    BY <2>1
  <2> HIDE DEF PartsAt
  <2> QED BY <2>1, <2>3, <2>7, <2>8
<1> QED BY <1>1, <1>2

(* A concatenation without repetition.                                      *)
LEMMA InjectiveConcat ==
  ASSUME NEW S, NEW s \in Seq(S), NEW t \in Seq(S), IsInjective(s), IsInjective(t),
         Range(s) \cap Range(t) = {}
  PROVE  IsInjective(s \o t)
<1> DEFINE c == s \o t
<1>1. /\ DOMAIN s = 1..Len(s) /\ DOMAIN t = 1..Len(t) /\ DOMAIN c = 1..Len(s) + Len(t)
      /\ Len(s) \in Nat /\ Len(t) \in Nat
      /\ \A i \in 1..Len(s) + Len(t) : c[i] = IF i <= Len(s) THEN s[i] ELSE t[i - Len(s)]
  OBVIOUS
<1> SUFFICES ASSUME NEW i \in 1..Len(s) + Len(t), NEW j \in 1..Len(s) + Len(t), c[i] = c[j]
             PROVE  i = j
  BY <1>1 DEF IsInjective
<1> HIDE DEF c
<1>2. \A k \in 1..Len(s) + Len(t) : k <= Len(s) \/ k - Len(s) \in 1..Len(t)
  BY <1>1
<1>3. CASE i <= Len(s) /\ j <= Len(s)
  BY <1>1, <1>3 DEF IsInjective
<1>4. CASE ~(i <= Len(s)) /\ ~(j <= Len(s))
  <2>1. i - Len(s) = j - Len(s)
    BY <1>1, <1>2, <1>4 DEF IsInjective
  <2> QED BY <2>1, <1>1
<1>5. ASSUME NEW m \in 1..Len(s) + Len(t), NEW n \in 1..Len(s) + Len(t),
             m <= Len(s), ~(n <= Len(s))
      PROVE  c[m] # c[n]
  <2>1. c[m] \in Range(s) /\ c[n] \in Range(t)
    <3>1. c[m] = s[m] /\ m \in DOMAIN s /\ c[n] = t[n - Len(s)] /\ n - Len(s) \in DOMAIN t
      BY <1>1, <1>2, <1>5
    <3> QED BY <3>1 DEF Range
  <2> QED BY <2>1
<1> QED BY <1>3, <1>4, <1>5

(* When no element occurs in two parts or twice in one, it occurs once.     *)
LEMMA FlattenSeqInjective ==
  ASSUME NEW S, NEW ss \in Seq(Seq(S)),
         \A i \in 1..Len(ss) : IsInjective(ss[i]),
         \A i, j \in 1..Len(ss) : i # j => Range(ss[i]) \cap Range(ss[j]) = {}
  PROVE  IsInjective(FlattenSeq(ss))
<1>1. CASE Len(ss) = 0
  <2>1. ss = <<>>
    BY <1>1
  <2> QED BY <2>1 DEF FlattenSeq, IsInjective
<1>2. CASE Len(ss) # 0
  <2>1. Len(ss) \in Nat /\ Len(ss) \in 1..Len(ss)
    BY <1>2
  <2>2. \E f : Flattens(ss, Len(ss), f)
    BY <2>1, FlattensExists
  <2>3. PICK f : Flattens(ss, Len(ss), f) /\ FlattenSeq(ss) = f[Len(ss)]
    <3> DEFINE f == CHOOSE g : Flattens(ss, Len(ss), g)
    <3>1. FlattenSeq(ss) = f[Len(ss)]
      BY <1>2 DEF FlattenSeq, Flattens
    <3> QED BY <2>2, <3>1
  <2> DEFINE T == {m \in Nat : m + 1 \in 1..Len(ss) => IsInjective(f[m + 1])}
  <2>4. 0 \in T
    <3>1. f[1] = ss[1]
      BY <2>1, <2>3 DEF Flattens
    <3> QED BY <3>1, <2>1
  <2>5. \A m \in Nat : m \in T => m + 1 \in T
    <3> SUFFICES ASSUME NEW m \in Nat, m \in T, (m + 1) + 1 \in 1..Len(ss)
                 PROVE  IsInjective(f[(m + 1) + 1])
      OBVIOUS
    <3> DEFINE n == m + 1
               k == n + 1
    <3>1. n \in 1..Len(ss) /\ k \in 1..Len(ss) /\ k # 1 /\ k - 1 = n
      BY <2>1
    <3>2. f[k] = f[n] \o ss[k]
      BY <3>1, <2>3 DEF Flattens
    <3>3. IsInjective(f[n])
      BY <3>1
    <3>4. f[n] \in Seq(S) /\ ss[k] \in Seq(S) /\ Range(f[n]) = Elements(ss, n)
      BY <3>1, <2>3, FlattensProperties
    <3>5. IsInjective(ss[k]) /\ \A i \in 1..n : Range(ss[i]) \cap Range(ss[k]) = {}
      <4>1. \A i \in 1..n : i \in 1..Len(ss) /\ i # k
        BY <3>1
      <4> HIDE DEF n, k
      <4> QED BY <4>1, <3>1
    <3>6. Range(f[n]) \cap Range(ss[k]) = {}
      BY <3>4, <3>5 DEF Elements
    <3> HIDE DEF n, k
    <3>7. IsInjective(f[n] \o ss[k])
      BY <3>3, <3>4, <3>5, <3>6, InjectiveConcat
    <3> QED BY <3>2, <3>7 DEF n, k
  <2>6. Len(ss) - 1 \in T
    <3>1. Len(ss) - 1 \in Nat
      BY <2>1, <1>2
    <3> HIDE DEF T
    <3> QED BY <3>1, <2>4, <2>5, SetInduction
  <2>7. (Len(ss) - 1) + 1 = Len(ss)
    BY <2>1
  <2> QED BY <2>1, <2>3, <2>6, <2>7
<1> QED BY <1>1, <1>2

(* A sequence is the function of its elements.                              *)
LEMMA SequenceIsFunction ==
  ASSUME NEW S, NEW s \in Seq(S)
  PROVE  s = [i \in 1..Len(s) |-> s[i]]
OBVIOUS

LEMMA TailIsFunction ==
  ASSUME NEW S, NEW s \in Seq(S), s # <<>>
  PROVE  Tail(s) = [i \in 1..Len(s) - 1 |-> s[i + 1]]
<1> DEFINE t == Tail(s)
<1>1. t \in Seq(S) /\ Len(t) = Len(s) - 1 /\ \A i \in 1..Len(t) : t[i] = s[i + 1]
  BY HeadTailProperties
<1> HIDE DEF t
<1>2. t = [i \in 1..Len(t) |-> t[i]]
  BY <1>1, SequenceIsFunction
<1>3. t = [i \in 1..Len(s) - 1 |-> s[i + 1]]
  BY <1>1, <1>2
<1> QED BY <1>3 DEF t

LEMMA PrefixElements ==
  ASSUME NEW S, NEW s \in Seq(S), NEW t \in Seq(S), Len(s) <= Len(t),
         \A i \in 1..Len(s) : t[i] = s[i]
  PROVE  IsPrefix(s, t)
<1>1. Len(s) \in 0..Len(s) /\ Len(s) \in 0..Len(t)
  OBVIOUS
<1>2. SubSeq(s, 1, Len(s)) = Restrict(s, 1..Len(s)) /\ SubSeq(t, 1, Len(s)) = Restrict(t, 1..Len(s))
  BY <1>1, SubSeqRestrict
<1> QED BY <1>2 DEF IsPrefix, Restrict

(* What Append and Tail do to the elements of a sequence.                   *)
LEMMA AppendRange ==
  ASSUME NEW S, NEW s \in Seq(S), NEW e \in S
  PROVE  Range(Append(s, e)) = Range(s) \cup {e}
<1>1. Range(<<e>>) = {e}
  BY DEF Range
<1>2. Append(s, e) = s \o <<e>> /\ <<e>> \in Seq(S)
  BY AppendIsConcat
<1>3. Range(s \o <<e>>) = Range(s) \cup Range(<<e>>)
  BY <1>2, RangeConcatenation
<1> QED BY <1>1, <1>2, <1>3

LEMMA HeadTailRange ==
  ASSUME NEW S, NEW s \in Seq(S), s # <<>>
  PROVE  Range(s) = {Head(s)} \cup Range(Tail(s)) /\ Head(s) \in S /\ Tail(s) \in Seq(S)
<1>1. Head(s) \in S /\ Tail(s) \in Seq(S) /\ s = <<Head(s)>> \o Tail(s) /\ <<Head(s)>> \in Seq(S)
  OBVIOUS
<1>2. Range(<<Head(s)>>) = {Head(s)}
  BY DEF Range
<1>3. Range(s) = Range(<<Head(s)>>) \cup Range(Tail(s))
  BY <1>1, RangeConcatenation
<1> QED BY <1>1, <1>2, <1>3

-----------------------------------------------------------------------------
(* How many elements of s are in V, and how Append and Tail change that.    *)
Count(s, V) == Cardinality({i \in DOMAIN s : s[i] \in V})

LEMMA CountType ==
  ASSUME NEW S, NEW s \in Seq(S), NEW V
  PROVE  /\ IsFiniteSet({i \in DOMAIN s : s[i] \in V})
         /\ Count(s, V) \in Nat
         /\ Count(<<>>, V) = 0
         /\ Count(s, V) = 0 => \A i \in DOMAIN s : s[i] \notin V
<1>1. IsFiniteSet(1..Len(s)) /\ DOMAIN s = 1..Len(s)
  BY FS_Interval
<1>2. IsFiniteSet({i \in DOMAIN s : s[i] \in V})
  BY <1>1, FS_Subset
<1>3. {i \in DOMAIN <<>> : <<>>[i] \in V} = {}
  OBVIOUS
<1> QED BY <1>2, <1>3, FS_CardinalityType, FS_EmptySet DEF Count

LEMMA CountAppend ==
  ASSUME NEW S, NEW s \in Seq(S), NEW e \in S, NEW V
  PROVE  Count(Append(s, e), V) = Count(s, V) + (IF e \in V THEN 1 ELSE 0)
<1> DEFINE X == {i \in DOMAIN s : s[i] \in V}
           Y == {i \in DOMAIN Append(s, e) : Append(s, e)[i] \in V}
<1>1. IsFiniteSet(X) /\ Cardinality(X) \in Nat
  BY CountType, FS_CardinalityType
<1>2. /\ Len(s) \in Nat /\ DOMAIN s = 1..Len(s) /\ DOMAIN Append(s, e) = 1..Len(s) + 1
      /\ \A i \in 1..Len(s) : Append(s, e)[i] = s[i]
      /\ Append(s, e)[Len(s) + 1] = e
  OBVIOUS
<1>3. 1..Len(s) + 1 = 1..Len(s) \cup {Len(s) + 1} /\ Len(s) + 1 \notin 1..Len(s)
  BY <1>2
<1>4. CASE e \in V
  <2>1. Y = X \cup {Len(s) + 1} /\ Len(s) + 1 \notin X
    BY <1>2, <1>3, <1>4
  <2>2. Cardinality(Y) = Cardinality(X) + 1
    <3> HIDE DEF X, Y
    <3> QED BY <2>1, <1>1, FS_AddElement
  <2> QED BY <2>2, <1>4 DEF Count
<1>5. CASE e \notin V
  <2>1. Y = X
    BY <1>2, <1>3, <1>5
  <2>2. Count(Append(s, e), V) = Count(s, V) /\ Count(s, V) \in Nat
    BY <2>1, CountType DEF Count
  <2> QED BY <2>2, <1>5
<1> QED BY <1>4, <1>5

LEMMA CountTail ==
  ASSUME NEW S, NEW s \in Seq(S), s # <<>>, NEW V
  PROVE  Count(s, V) = Count(Tail(s), V) + (IF Head(s) \in V THEN 1 ELSE 0)
<1> DEFINE X == {i \in DOMAIN s : s[i] \in V}
           Y == {i \in DOMAIN Tail(s) : Tail(s)[i] \in V}
           next == [i \in Y |-> i + 1]
<1>1. /\ IsFiniteSet(X) /\ Cardinality(X) \in Nat /\ IsFiniteSet(Y) /\ Cardinality(Y) \in Nat
      /\ Tail(s) \in Seq(S)
  <2>1. Tail(s) \in Seq(S)
    OBVIOUS
  <2>2. IsFiniteSet(X) /\ IsFiniteSet(Y)
    BY <2>1, CountType
  <2> QED BY <2>1, <2>2, FS_CardinalityType
<1>2. /\ Len(s) \in Nat \ {0} /\ DOMAIN s = 1..Len(s) /\ DOMAIN Tail(s) = 1..Len(s) - 1
      /\ \A i \in 1..Len(s) - 1 : Tail(s)[i] = s[i + 1]
      /\ Head(s) = s[1]
  OBVIOUS
<1>3. next \in Bijection(Y, X \ {1})
  <2>1. \A i \in Y : i \in Nat /\ i + 1 \in X \ {1}
    BY <1>2
  <2>2. \A j \in X \ {1} : j - 1 \in Y /\ (j - 1) + 1 = j
    <3> TAKE j \in X \ {1}
    <3>1. j - 1 \in 1..Len(s) - 1 /\ (j - 1) + 1 = j
      BY <1>2
    <3> QED BY <3>1, <1>2
  <2> HIDE DEF X, Y
  <2>3. next \in [Y -> X \ {1}] /\ \A i, j \in Y : next[i] = next[j] => i = j
    BY <2>1
  <2>4. \A j \in X \ {1} : \E i \in Y : next[i] = j
    BY <2>2
  <2> HIDE DEF next
  <2> QED BY <2>3, <2>4, Fun_IsBij
<1>4. Cardinality(X \ {1}) = Cardinality(Y)
  <2> HIDE DEF X, Y, next
  <2> QED BY <1>1, <1>3, FS_Bijection DEF ExistsBijection
<1>5. Cardinality(X \ {1}) = IF 1 \in X THEN Cardinality(X) - 1 ELSE Cardinality(X)
  <2> HIDE DEF X
  <2> QED BY <1>1, FS_RemoveElement
<1>6. 1 \in X <=> Head(s) \in V
  BY <1>2
<1>7. Count(s, V) = Cardinality(X) /\ Count(Tail(s), V) = Cardinality(Y)
  BY DEF Count
<1> HIDE DEF X, Y
<1> QED BY <1>1, <1>4, <1>5, <1>6, <1>7

(* What is left of a sequence that is cut off before its n-th element.      *)
LEMMA CutProperties ==
  ASSUME NEW S, NEW s \in Seq(S), NEW n \in 1..Len(s)
  PROVE  /\ SubSeq(s, 1, n - 1) \in Seq(S)
         /\ Len(SubSeq(s, 1, n - 1)) = n - 1
         /\ \A i \in 1..n - 1 : SubSeq(s, 1, n - 1)[i] = s[i]
<1>1. /\ 1 \in Int /\ n - 1 \in Int /\ \A i \in 1..n - 1 : s[i] \in S
      /\ (IF 1 <= n - 1 THEN n - 1 - 1 + 1 ELSE 0) = n - 1
      /\ n - 1 - 1 + 1 = n - 1
  OBVIOUS
<1> DEFINE t == SubSeq(s, 1, n - 1)
<1>2. /\ t \in Seq(S) /\ Len(t) = IF 1 <= n - 1 THEN n - 1 - 1 + 1 ELSE 0
      /\ \A i \in 1..n - 1 - 1 + 1 : t[i] = s[1 + i - 1]
  <2>1. n - 1 \in Int /\ 1 \in Int /\ \A i \in 1..n - 1 : s[i] \in S
    BY <1>1
  <2> QED BY <2>1, SubSeqProperties
<1> HIDE DEF t
<1>3. Len(t) = n - 1 /\ \A i \in 1..n - 1 : t[i] = s[i]
  BY <1>1, <1>2
<1> QED BY <1>2, <1>3 DEF t

(* A finite set of numbers has a greatest one.                              *)
LEMMA MaxProperties ==
  ASSUME NEW n \in Nat, NEW U \in SUBSET (1..n), U # {}
  PROVE  Max(U) \in U /\ \A i \in U : i <= Max(U)
<1> DEFINE S == {k \in Nat : \A V \in SUBSET (1..k) : V # {} => \E m \in V : \A i \in V : i <= m}
<1>1. 0 \in S
  <2>1. 1..0 = {}
    OBVIOUS
  <2> QED BY <2>1
<1>2. \A k \in Nat : k \in S => k + 1 \in S
  <2> SUFFICES ASSUME NEW k \in Nat, k \in S, NEW V \in SUBSET (1..k + 1), V # {}
               PROVE  \E m \in V : \A i \in V : i <= m
    OBVIOUS
  <2>1. CASE k + 1 \in V
    BY <2>1
  <2>2. CASE k + 1 \notin V
    <3>1. V \in SUBSET (1..k)
      BY <2>2
    <3> QED BY <3>1
  <2> QED BY <2>1, <2>2
<1>3. n \in S
  <2> HIDE DEF S
  <2> QED BY <1>1, <1>2, SetInduction
<1>4. \E m \in U : \A i \in U : m >= i
  <2>1. \E m \in U : \A i \in U : i <= m
    BY <1>3
  <2> QED BY <2>1
<1> QED BY <1>4 DEF Max

(* And a least one.                                                         *)
LEMMA MinProperties ==
  ASSUME NEW n \in Nat, NEW U \in SUBSET (0..n), U # {}
  PROVE  Min(U) \in U /\ \A i \in U : Min(U) <= i
<1> DEFINE S == {k \in Nat : (\A i \in 0..n : i < k => i \notin U) \/ \E m \in U : \A i \in U : m <= i}
<1>1. 0 \in S
  OBVIOUS
<1>2. \A k \in Nat : k \in S => k + 1 \in S
  <2> SUFFICES ASSUME NEW k \in Nat, k \in S PROVE k + 1 \in S
    OBVIOUS
  <2>1. CASE \A i \in 0..n : i < k => i \notin U
    <3>1. CASE k \in U
      <4>1. \A i \in U : k <= i
        BY <2>1, <3>1
      <4> QED BY <3>1, <4>1
    <3>2. CASE k \notin U
      <4>1. \A i \in 0..n : i < k + 1 => i < k \/ i = k
        OBVIOUS
      <4>2. \A i \in 0..n : i < k + 1 => i \notin U
        BY <2>1, <3>2, <4>1
      <4> QED BY <4>2
    <3> QED BY <3>1, <3>2
  <2>2. CASE \E m \in U : \A i \in U : m <= i
    BY <2>2
  <2> QED BY <2>1, <2>2
<1>3. n + 1 \in S
  <2> HIDE DEF S
  <2> QED BY <1>1, <1>2, SetInduction
<1>4. \E m \in U : \A i \in U : m <= i
  <2>1. ~(\A i \in 0..n : i < n + 1 => i \notin U)
    <3>1. PICK i \in U : TRUE
      OBVIOUS
    <3>2. i \in 0..n /\ i < n + 1
      OBVIOUS
    <3> QED BY <3>1, <3>2
  <2> QED BY <1>3, <2>1
<1> QED BY <1>4 DEF Min

-----------------------------------------------------------------------------
(* A set without one of its elements.                                       *)
Minus(U, x) == U \ {x}

(* Induction over the subsets of a finite set.                              *)
LEMMA SubsetInduction ==
  ASSUME NEW S, IsFiniteSet(S), NEW Q,
         \A U \in SUBSET S : (\A x \in U : Minus(U, x) \in Q) => U \in Q
  PROVE  \A U \in SUBSET S : U \in Q
<1> DEFINE N == {n \in Nat : \A U \in SUBSET S : Cardinality(U) = n => U \in Q}
<1>1. \A U \in SUBSET S : IsFiniteSet(U) /\ Cardinality(U) \in Nat
  BY FS_Subset, FS_CardinalityType
<1>2. 0 \in N
  <2> SUFFICES ASSUME NEW U \in SUBSET S, Cardinality(U) = 0 PROVE U \in Q
    OBVIOUS
  <2>1. U = {}
    BY <1>1, FS_EmptySet
  <2> QED BY <2>1
<1>3. \A n \in Nat : n \in N => n + 1 \in N
  <2> SUFFICES ASSUME NEW n \in Nat, n \in N, NEW U \in SUBSET S, Cardinality(U) = n + 1
               PROVE  U \in Q
    OBVIOUS
  <2>1. ASSUME NEW x \in U PROVE Minus(U, x) \in Q
    <3>1. Cardinality(U \ {x}) = n
      BY <1>1, FS_RemoveElement
    <3> QED BY <3>1 DEF Minus
  <2> QED BY <2>1
<1>4. Nat \subseteq N
  <2> HIDE DEF N
  <2> QED BY <1>2, <1>3, SetInduction
<1> QED BY <1>1, <1>4

(* The image of a finite set is finite.                                     *)
LEMMA FiniteImage ==
  ASSUME NEW S, IsFiniteSet(S), NEW f
  PROVE  IsFiniteSet({f[x] : x \in S})
<1> DEFINE g == [x \in S |-> f[x]]
<1>1. g \in Surjection(S, {f[x] : x \in S})
  BY DEF Surjection
<1> QED BY <1>1, FS_Surjection

(* A finite set of naturals has a greatest element.                         *)
LEMMA GreatestProperties ==
  ASSUME NEW U \in SUBSET Nat, IsFiniteSet(U), U # {}
  PROVE  Max(U) \in U /\ \A i \in U : i <= Max(U)
<1> DEFINE Greatest(V, m) == m \in V /\ \A i \in V : i <= m
           Q == {V \in SUBSET U : V = {} \/ \E m \in V : Greatest(V, m)}
<1>1. ASSUME NEW V \in SUBSET U, \A x \in V : Minus(V, x) \in Q PROVE V \in Q
  <2> SUFFICES ASSUME NEW x \in V PROVE \E m \in V : Greatest(V, m)
    OBVIOUS
  <2>1. CASE Minus(V, x) = {}
    <3>1. V = {x}
      BY <2>1 DEF Minus
    <3> QED BY <3>1
  <2>2. ASSUME NEW m \in Minus(V, x), Greatest(Minus(V, x), m)
        PROVE  \E n \in V : Greatest(V, n)
    <3>1. m \in Nat /\ x \in Nat /\ m \in V /\ \A i \in V : i \in Nat /\ (i = x \/ i <= m)
      BY <2>2 DEF Minus
    <3>2. CASE m <= x
      BY <3>1, <3>2
    <3>3. CASE x <= m
      BY <3>1, <3>3
    <3> QED BY <3>1, <3>2, <3>3
  <2> QED BY <1>1, <2>1, <2>2
<1>2. U \in Q
  <2> HIDE DEF Q
  <2> QED BY <1>1, SubsetInduction
<1>3. PICK m \in U : \A i \in U : m >= i
  BY <1>2
<1>4. \A n \in U : (\A i \in U : n >= i) => \A i \in U : i <= n
  OBVIOUS
<1>5. Max(U) \in U /\ \A i \in U : Max(U) >= i
  BY <1>3 DEF Max
<1> QED BY <1>4, <1>5

(* The greater of two numbers.                                              *)
LEMMA MaxOfTwo ==
  ASSUME NEW a \in Int, NEW b \in Int
  PROVE  Max({a, b}) \in {a, b} /\ Max({a, b}) >= a /\ Max({a, b}) >= b
<1>1. \E m \in {a, b} : \A i \in {a, b} : m >= i
  <2>1. CASE a >= b
    BY <2>1
  <2>2. CASE b >= a
    BY <2>2
  <2> QED BY <2>1, <2>2
<1> QED BY <1>1 DEF Max

-----------------------------------------------------------------------------
(* The sum that FoldSeq computes takes the elements in an unspecified       *)
(* order: g[U] is the sum of f over a subset U of S.                        *)
Some(U) == CHOOSE x \in U : TRUE
Sums(f, S, g) ==
  g = [U \in SUBSET S |-> IF U = {} THEN 0 ELSE f[Some(U)] + g[U \ {Some(U)}]]

(* The sums over the subsets with at most n elements.                       *)
SumsUpto(f, S, n, g) ==
  g = [U \in {V \in SUBSET S : Cardinality(V) <= n} |->
         IF U = {} THEN 0 ELSE f[Some(U)] + g[U \ {Some(U)}]]

(* It exists.                                                               *)
LEMMA SumsExist ==
  ASSUME NEW f, NEW S, IsFiniteSet(S)
  PROVE  \E g : Sums(f, S, g)
<1> DEFINE Upto(n) == {U \in SUBSET S : Cardinality(U) <= n}
           Sum(U, g) == IF U = {} THEN 0 ELSE f[Some(U)] + g[U \ {Some(U)}]
           N == {n \in Nat : \E g : SumsUpto(f, S, n, g)}
<1>1. \A U \in SUBSET S : IsFiniteSet(U) /\ Cardinality(U) \in Nat /\ Cardinality(U) <= Cardinality(S)
  BY FS_Subset, FS_CardinalityType
<1>2. \A U \in SUBSET S : U # {} => /\ U \ {Some(U)} \in SUBSET S
                                    /\ Cardinality(U \ {Some(U)}) = Cardinality(U) - 1
  BY <1>1, FS_RemoveElement DEF Some
<1>3. \A U \in SUBSET S : Cardinality(U) <= 0 => U = {}
  BY <1>1, FS_EmptySet
<1>4. 0 \in N
  <2> DEFINE g == [U \in Upto(0) |-> 0]
  <2>1. SumsUpto(f, S, 0, g)
    BY <1>3 DEF SumsUpto
  <2> QED BY <2>1
<1>5. \A n \in Nat : n \in N => n + 1 \in N
  <2> SUFFICES ASSUME NEW n \in Nat, NEW g, SumsUpto(f, S, n, g) PROVE n + 1 \in N
    OBVIOUS
  <2> DEFINE k == [U \in Upto(n + 1) |-> IF U \in Upto(n) THEN g[U] ELSE Sum(U, g)]
  <2>1. ASSUME NEW U \in Upto(n + 1) PROVE k[U] = Sum(U, k)
    <3>1. CASE U = {}
      BY <3>1 DEF SumsUpto
    <3>2. CASE U # {}
      <4>1. U \ {Some(U)} \in Upto(n) /\ U \ {Some(U)} \in Upto(n + 1)
        BY <3>2, <1>1, <1>2
      <4>2. k[U \ {Some(U)}] = g[U \ {Some(U)}]
        BY <4>1
      <4>3. k[U] = Sum(U, g)
        BY DEF SumsUpto
      <4> QED BY <4>2, <4>3, <3>2
    <3> QED BY <3>1, <3>2
  <2>2. SumsUpto(f, S, n + 1, k)
    BY <2>1 DEF SumsUpto
  <2> HIDE DEF k
  <2> QED BY <2>2
<1>6. Cardinality(S) \in N
  <2>1. Cardinality(S) \in Nat
    BY FS_CardinalityType
  <2> HIDE DEF N
  <2> QED BY <2>1, <1>4, <1>5, SetInduction
<1>7. Upto(Cardinality(S)) = SUBSET S
  BY <1>1
<1> QED BY <1>6, <1>7 DEF Sums, SumsUpto

(* It does not depend on the order.                                         *)
LEMMA SumsSplit ==
  ASSUME NEW S, IsFiniteSet(S), NEW f, \A x \in S : f[x] \in Nat, NEW g, Sums(f, S, g)
  PROVE  \A U \in SUBSET S : g[U] \in Nat /\ \A x \in U : g[U] = f[x] + g[Minus(U, x)]
<1> DEFINE Q == {U \in SUBSET S :
                   /\ g[U] \in Nat
                   /\ \A x \in U : g[U] = f[x] + g[Minus(U, x)] /\ g[Minus(U, x)] \in Nat}
<1>1. \A U \in SUBSET S : g[U] = IF U = {} THEN 0 ELSE f[Some(U)] + g[Minus(U, Some(U))]
  BY DEF Sums, Minus
<1>2. ASSUME NEW U \in SUBSET S, \A x \in U : Minus(U, x) \in Q PROVE U \in Q
  <2>1. CASE U = {}
    BY <2>1, <1>1
  <2>2. CASE U # {}
    <3> DEFINE c == Some(U)
    <3>1. c \in U
      BY <2>2 DEF Some
    <3> HIDE DEF c
    <3>2. g[U] = f[c] + g[Minus(U, c)] /\ g[Minus(U, c)] \in Nat /\ f[c] \in Nat
      BY <1>1, <1>2, <2>2, <3>1 DEF c
    <3>3. ASSUME NEW x \in U, x # c PROVE g[U] = f[x] + g[Minus(U, x)] /\ g[Minus(U, x)] \in Nat
      <4>1. x \in Minus(U, c) /\ c \in Minus(U, x)
        BY <3>1, <3>3 DEF Minus
      <4>2. g[Minus(U, c)] = f[x] + g[Minus(Minus(U, c), x)]
        BY <4>1, <1>2, <3>1
      <4>3. g[Minus(U, x)] = f[c] + g[Minus(Minus(U, x), c)]
        BY <4>1, <1>2
      <4>4. Minus(Minus(U, x), c) = Minus(Minus(U, c), x)
        BY DEF Minus
      <4>5. g[Minus(Minus(U, x), c)] \in Nat
        BY <4>1, <1>2
      <4>6. f[x] \in Nat
        OBVIOUS
      <4> QED BY <4>2, <4>3, <4>4, <4>5, <4>6, <3>2
    <3> QED BY <3>2, <3>3
  <2> QED BY <2>1, <2>2
<1>3. \A U \in SUBSET S : U \in Q
  <2> HIDE DEF Q
  <2> QED BY <1>2, SubsetInduction
<1> QED BY <1>3

(* Nor on the names of what is summed.                                      *)
LEMMA SumsRename ==
  ASSUME NEW S, IsFiniteSet(S), NEW f, \A x \in S : f[x] \in Nat, NEW g, Sums(f, S, g),
         NEW T, IsFiniteSet(T), NEW e, \A y \in T : e[y] \in Nat, NEW k, Sums(e, T, k),
         NEW h \in [S -> T], \A x, y \in S : h[x] = h[y] => x = y, \A x \in S : f[x] = e[h[x]]
  PROVE  g[S] = k[{h[x] : x \in S}]
<1> DEFINE Im(U) == {h[x] : x \in U}
           Q == {U \in SUBSET S : g[U] = k[Im(U)]}
<1>1. ASSUME NEW U \in SUBSET S, \A x \in U : Minus(U, x) \in Q PROVE U \in Q
  <2>1. CASE U = {}
    <3>1. Im(U) = {}
      BY <2>1
    <3> HIDE DEF Im
    <3> QED BY <2>1, <3>1 DEF Sums
  <2>2. CASE U # {}
    <3>1. PICK x \in U : TRUE
      BY <2>2
    <3>2. g[U] = f[x] + g[Minus(U, x)]
      BY SumsSplit
    <3>3. Im(U) \in SUBSET T /\ h[x] \in Im(U)
      OBVIOUS
    <3>4. k[Im(U)] = e[h[x]] + k[Minus(Im(U), h[x])]
      <4> HIDE DEF Im
      <4> QED BY <3>3, SumsSplit
    <3>5. Minus(Im(U), h[x]) = Im(Minus(U, x))
      BY DEF Minus
    <3>6. g[Minus(U, x)] = k[Im(Minus(U, x))]
      BY <1>1
    <3>7. g[U] = k[Im(U)]
      <4> HIDE DEF Im
      <4> QED BY <3>2, <3>4, <3>5, <3>6
    <3> QED BY <3>7
  <2> QED BY <2>1, <2>2
<1>2. S \in Q
  <2> HIDE DEF Q
  <2> QED BY <1>1, SubsetInduction
<1> QED BY <1>2

(* The sum over the image of h of what is summed over S, and one element of *)
(* T more.                                                                  *)
SameSum(S, f, T, e, h) ==
  /\ IsFiniteSet(S) /\ IsFiniteSet(T) /\ h \in [S -> T]
  /\ (\A x \in S : f[x] \in Nat) /\ (\A y \in T : e[y] \in Nat)
  /\ (\A x, y \in S : h[x] = h[y] => x = y)
  /\ (\A x \in S : f[x] = e[h[x]])

LEMMA SumsOneMore ==
  ASSUME NEW S, NEW f, NEW g, Sums(f, S, g), NEW T, NEW e, NEW k, Sums(e, T, k),
         NEW h, SameSum(S, f, T, e, h), NEW z \in T, {h[x] : x \in S} = Minus(T, z)
  PROVE  k[T] = e[z] + g[S]
<1>1. g[S] = k[{h[x] : x \in S}]
  BY SumsRename DEF SameSum
<1>2. \A U \in SUBSET T : k[U] \in Nat /\ \A x \in U : k[U] = e[x] + k[Minus(U, x)]
  BY SumsSplit DEF SameSum
<1> QED BY <1>1, <1>2
=============================================================================
