---------------------------- MODULE RibltProofs ----------------------------
(***************************************************************************)
(* The decoder of riblt reconciles: its answers, its count of pending      *)
(* coded symbols and how far it peels, for any number of symbols, any      *)
(* mappings and any number of coded symbols.                               *)
(***************************************************************************)
EXTENDS Riblt, SequenceLemmas

(* The symbols that are still to be found, and those of a set that a coded  *)
(* symbol holds.                                                            *)
Missing == (offered \ held) \ Remote
Surplus == (held \ offered) \ Local
InCell(S, i) == {s \in S : i \in mapping[s]}

(* A window of the symbols S that has passed n coded symbols.               *)
WindowOver(S, n) == [next |-> [s \in S |-> NextIndex(s, n - 1)], nextIdx |-> n]

Cell == [sum : SUBSET Symbols, count : Int, dirty : BOOLEAN]

(* The part of dirty that TryDecode has still to look at.                   *)
Waiting == (IF didx = 0 THEN 1 ELSE didx)..Len(dirty)

InputInv ==
  /\ mapping \in Mappings
  /\ sketched \in BOOLEAN
  /\ offered \subseteq Symbols /\ held \subseteq Symbols
  /\ Remote \subseteq offered \ held /\ Local \subseteq held \ offered

StateInv ==
  /\ cs \in Seq(Cell) /\ Len(cs) <= MaxCells
  /\ dirty \in Seq(1..Len(cs))
  /\ pending \in Int
  /\ didx \in 0..Len(dirty) + 1
  /\ cs = <<>> => Remote = {} /\ Local = {} /\ didx = 0

(* Every window has passed as many coded symbols as were received.          *)
WindowsInv ==
  /\ encoder = IF sketched THEN NewWindow ELSE WindowOver(offered, Len(cs))
  /\ window = WindowOver(IF sketched THEN {} ELSE held, Len(cs))
  /\ remote = WindowOver(Remote, Len(cs))
  /\ local = WindowOver(Local, Len(cs))

(* A coded symbol holds the symbols that are still to be found; its count   *)
(* tells on which side they are.                                            *)
CellInv(i) ==
  /\ cs[i].sum = InCell(Missing \cup Surplus, i - 1)
  /\ cs[i].count = Cardinality(InCell(Missing, i - 1)) - Cardinality(InCell(Surplus, i - 1))

CellsInv == \A i \in 1..Len(cs) : CellInv(i)

(* What is marked as dirty waits in dirty, once; what is not is not pure.   *)
DirtyInv ==
  /\ \A k, l \in Waiting : dirty[k] = dirty[l] => k = l
  /\ \A i \in 1..Len(cs) : cs[i].dirty <=> \E k \in Waiting : dirty[k] = i
  /\ \A i \in 1..Len(cs) : ~cs[i].dirty => Cardinality(cs[i].sum) # 1
  /\ Idle => \A i \in 1..Len(cs) : cs[i].dirty => cs[i].sum # {}

(* While TryDecode runs, pending counts what it has not yet seen to be      *)
(* empty as well.                                                           *)
PendingInv == pending = Cardinality({i \in 1..Len(cs) : cs[i].dirty \/ cs[i].sum # {}})

(* Nothing of a stopping set is ever peeled.                                *)
PeeledInv == \A U \in SUBSET Difference : Stopping(U) => U \subseteq Missing \cup Surplus

RibltInv ==
  InputInv /\ StateInv /\ WindowsInv /\ CellsInv /\ DirtyInv /\ PendingInv /\ PeeledInv

-----------------------------------------------------------------------------
(* Coding windows.                                                          *)
LEMMA Constants == MaxCells \in Nat /\ MaxCells > 0 /\ IsFiniteSet(Symbols)
  BY RibltAssumption

LEMMA MappingType ==
  ASSUME mapping \in Mappings, NEW s \in Symbols
  PROVE  mapping[s] \in SUBSET (0..MaxCells - 1) /\ 0 \in mapping[s]
BY RibltAssumption

LEMMA NextIndexProperties ==
  ASSUME mapping \in Mappings, NEW s \in Symbols, NEW n \in 0..MaxCells
  PROVE  /\ NextIndex(s, n - 1) \in Nat /\ NextIndex(s, n - 1) >= n
         /\ n < MaxCells => (NextIndex(s, n - 1) = n <=> n \in mapping[s])
         /\ n < MaxCells /\ n \notin mapping[s] => NextIndex(s, n - 1) = NextIndex(s, n)
<1> DEFINE U == {j \in mapping[s] : j > n - 1} \cup {MaxCells}
<1>0. mapping[s] \in SUBSET (0..MaxCells - 1) /\ MaxCells \in Nat
  BY MappingType, Constants
<1>1. U \in SUBSET (0..MaxCells) /\ U # {}
  BY <1>0
<1>2. NextIndex(s, n - 1) = Min(U)
  BY DEF NextIndex
<1>3. Min(U) \in U /\ \A i \in U : Min(U) <= i
  <2> HIDE DEF U
  <2> QED BY <1>0, <1>1, MinProperties
<1>4. \A j \in U : j \in Nat /\ j >= n /\ (j = n /\ n < MaxCells => n \in mapping[s])
  BY <1>0
<1>5. n \in mapping[s] => n \in U
  OBVIOUS
<1>6. ASSUME n \notin mapping[s] PROVE NextIndex(s, n - 1) = NextIndex(s, n)
  <2>1. U = {j \in mapping[s] : j > n} \cup {MaxCells}
    BY <1>0, <1>6
  <2> QED BY <2>1, <1>2 DEF NextIndex
<1> HIDE DEF U
<1>7. n \in mapping[s] => Min(U) = n
  BY <1>3, <1>4, <1>5
<1> QED BY <1>2, <1>3, <1>4, <1>6, <1>7

LEMMA NextIndexFirst ==
  ASSUME mapping \in Mappings, NEW s \in Symbols
  PROVE  NextIndex(s, 0 - 1) = 0
<1>1. 0 \in 0..MaxCells /\ 0 < MaxCells
  BY Constants
<1> QED BY <1>1, NextIndexProperties, MappingType

LEMMA NewWindowIsOver == NewWindow = WindowOver({}, 0)
  BY DEF NewWindow, WindowOver

LEMMA DueIsInCell ==
  ASSUME mapping \in Mappings, NEW S \in SUBSET Symbols, NEW n \in 0..MaxCells, n < MaxCells
  PROVE  Due(WindowOver(S, n)) = InCell(S, n)
<1> DEFINE w == WindowOver(S, n)
<1>1. DOMAIN w.next = S /\ w.nextIdx = n /\ \A s \in S : w.next[s] = NextIndex(s, n - 1)
  BY DEF WindowOver
<1> HIDE DEF w
<1>2. \A s \in S : ~(w.next[s] < w.nextIdx) /\ (w.next[s] = w.nextIdx <=> n \in mapping[s])
  <2> TAKE s \in S
  <2>1. s \in Symbols
    OBVIOUS
  <2>2. w.next[s] \in Nat /\ w.next[s] >= n /\ (w.next[s] = n <=> n \in mapping[s])
    BY <1>1, <2>1, NextIndexProperties
  <2> QED BY <1>1, <2>2
<1>3. Due(w) = {s \in S : w.next[s] = w.nextIdx}
  BY <1>1, <1>2 DEF Due
<1>4. Due(w) = InCell(S, n)
  BY <1>2, <1>3 DEF InCell
<1> QED BY <1>4 DEF w

LEMMA AdvanceIsOver ==
  ASSUME mapping \in Mappings, NEW S \in SUBSET Symbols, NEW n \in 0..MaxCells, n < MaxCells
  PROVE  Advance(WindowOver(S, n)) = WindowOver(S, n + 1)
<1> DEFINE w == WindowOver(S, n)
<1>1. DOMAIN w.next = S /\ w.nextIdx = n /\ \A s \in S : w.next[s] = NextIndex(s, n - 1)
  BY DEF WindowOver
<1>2. Due(w) = InCell(S, n)
  BY DueIsInCell
<1> HIDE DEF w
<1>3. ASSUME NEW s \in S
      PROVE  (IF s \in Due(w) THEN NextIndex(s, w.nextIdx) ELSE w.next[s]) = NextIndex(s, n)
  BY <1>1, <1>2, NextIndexProperties DEF InCell
<1>4. (n + 1) - 1 = n
  OBVIOUS
<1>5. Advance(w) = [next |-> [s \in S |-> NextIndex(s, n)], nextIdx |-> n + 1]
  BY <1>1, <1>3 DEF Advance
<1> QED BY <1>4, <1>5 DEF WindowOver, w

LEMMA AddIsOver ==
  ASSUME NEW S, NEW s, NEW n
  PROVE  AddWithMapping(WindowOver(S, n), s, NextIndex(s, n - 1)) = WindowOver(S \cup {s}, n)
<1> DEFINE w == WindowOver(S, n)
<1>1. /\ DOMAIN w.next = S /\ w.nextIdx = n /\ w = [next |-> w.next, nextIdx |-> n]
      /\ \A x \in S : w.next[x] = NextIndex(x, n - 1)
  BY DEF WindowOver
<1> HIDE DEF w
<1>2. AddWithMapping(w, s, NextIndex(s, n - 1)) =
        [w EXCEPT !.next = [x \in S \cup {s} |-> IF x = s THEN NextIndex(s, n - 1) ELSE w.next[x]]]
  BY <1>1 DEF AddWithMapping
<1>3. [x \in S \cup {s} |-> IF x = s THEN NextIndex(s, n - 1) ELSE w.next[x]] =
        [x \in S \cup {s} |-> NextIndex(x, n - 1)]
  BY <1>1
<1>4. AddWithMapping(w, s, NextIndex(s, n - 1)) =
        [next |-> [x \in S \cup {s} |-> NextIndex(x, n - 1)], nextIdx |-> n]
  BY <1>1, <1>2, <1>3
<1> QED BY <1>4 DEF WindowOver, w

LEMMA WindowDomain == \A S, n : DOMAIN WindowOver(S, n).next = S
  BY DEF WindowOver

-----------------------------------------------------------------------------
(* Appending the indices of a set in order.                                 *)
AppendsTo(queue, S, n, f) ==
  f = [i \in 0..n |-> IF i = 0 THEN queue
                      ELSE IF i \in S THEN Append(f[i - 1], i) ELSE f[i - 1]]

LEMMA AppendsExists ==
  ASSUME NEW queue, NEW S, NEW n \in Nat
  PROVE  \E f : AppendsTo(queue, S, n, f)
<1> DEFINE X == {k \in Nat : \E f : AppendsTo(queue, S, k, f)}
<1>1. 0 \in X
  <2>1. AppendsTo(queue, S, 0, [i \in 0..0 |-> queue])
    BY DEF AppendsTo
  <2> QED BY <2>1
<1>2. ASSUME NEW k \in Nat, k \in X PROVE k + 1 \in X
  <2>1. PICK f : AppendsTo(queue, S, k, f)
    BY <1>2
  <2> DEFINE g == [i \in 0..k + 1 |-> IF i \in 0..k THEN f[i]
                                      ELSE IF i \in S THEN Append(f[i - 1], i) ELSE f[i - 1]]
  <2>2. \A i \in 0..k : g[i] = f[i]
    OBVIOUS
  <2>3. ASSUME NEW i \in 0..k + 1
        PROVE  g[i] = IF i = 0 THEN queue
                      ELSE IF i \in S THEN Append(g[i - 1], i) ELSE g[i - 1]
    <3>1. CASE i = 0
      BY <3>1, <2>1 DEF AppendsTo
    <3>2. CASE i # 0
      <4>1. i - 1 \in 0..k /\ g[i - 1] = f[i - 1]
        BY <3>2, <2>2
      <4>2. g[i] = IF i \in S THEN Append(f[i - 1], i) ELSE f[i - 1]
        BY <3>2, <2>1 DEF AppendsTo
      <4> QED BY <3>2, <4>1, <4>2
    <3> QED BY <3>1, <3>2
  <2>4. g = [i \in 0..k + 1 |-> g[i]]
    OBVIOUS
  <2> HIDE DEF g
  <2>5. AppendsTo(queue, S, k + 1, g)
    BY <2>3, <2>4 DEF AppendsTo
  <2> QED BY <2>5
<1>3. n \in X
  <2> HIDE DEF X
  <2> QED BY <1>1, <1>2, SetInduction
<1> QED BY <1>3

(* q is queue followed by the indices of S up to m, each once.              *)
Appended(q, queue, S, m) ==
  /\ q \in Seq(Nat) /\ Len(queue) <= Len(q)
  /\ \A k \in 1..Len(queue) : q[k] = queue[k]
  /\ \A k \in Len(queue) + 1..Len(q) : q[k] \in S /\ q[k] \in 1..m
  /\ \A i \in 1..m : i \in S => \E k \in Len(queue) + 1..Len(q) : q[k] = i
  /\ \A k, l \in Len(queue) + 1..Len(q) : q[k] = q[l] => k = l

LEMMA AppendedMore ==
  ASSUME NEW queue \in Seq(Nat), NEW S, NEW m \in Nat, NEW q, Appended(q, queue, S, m), m + 1 \in S
  PROVE  Appended(Append(q, m + 1), queue, S, m + 1)
<1> DEFINE r == Append(q, m + 1)
           n == Len(q)
           o == Len(queue)
<1>1. /\ q \in Seq(Nat) /\ n \in Nat /\ o \in Nat /\ o <= n
      /\ \A k \in 1..o : q[k] = queue[k]
      /\ \A k \in o + 1..n : q[k] \in S /\ q[k] \in 1..m
      /\ \A i \in 1..m : i \in S => \E k \in o + 1..n : q[k] = i
      /\ \A k, l \in o + 1..n : q[k] = q[l] => k = l
  BY DEF Appended
<1>2. r \in Seq(Nat) /\ Len(r) = n + 1 /\ r[n + 1] = m + 1 /\ \A k \in 1..n : r[k] = q[k]
  BY <1>1
<1> HIDE DEF r, n, o
<1>3. \A k \in o + 1..n + 1 : k = n + 1 \/ k \in o + 1..n
  BY <1>1
<1>4. \A k \in o + 1..n : k \in 1..n /\ r[k] = q[k] /\ k \in o + 1..n + 1
  BY <1>1, <1>2
<1>5. n + 1 \in o + 1..n + 1
  BY <1>1
<1>6. \A k \in 1..o : r[k] = queue[k]
  BY <1>1, <1>2
<1>7. \A k \in o + 1..n + 1 : r[k] \in S /\ r[k] \in 1..m + 1
  <2> TAKE k \in o + 1..n + 1
  <2>1. CASE k = n + 1
    BY <2>1, <1>2
  <2>2. CASE k \in o + 1..n
    <3>1. r[k] = q[k] /\ q[k] \in S /\ q[k] \in 1..m
      BY <2>2, <1>1, <1>4
    <3> QED BY <3>1
  <2> QED BY <2>1, <2>2, <1>3
<1>8. \A i \in 1..m + 1 : i \in S => \E k \in o + 1..n + 1 : r[k] = i
  <2> TAKE i \in 1..m + 1
  <2>1. CASE i = m + 1
    BY <2>1, <1>2, <1>5
  <2>2. CASE i \in 1..m
    BY <2>2, <1>1, <1>4
  <2> QED BY <2>1, <2>2
<1>9. \A k, l \in o + 1..n + 1 : r[k] = r[l] => k = l
  <2> SUFFICES ASSUME NEW k \in o + 1..n + 1, NEW l \in o + 1..n + 1, r[k] = r[l] PROVE k = l
    OBVIOUS
  <2>1. \A j \in o + 1..n : r[j] # m + 1
    BY <1>1, <1>4
  <2>2. CASE k = n + 1 \/ l = n + 1
    BY <2>1, <2>2, <1>2, <1>3
  <2>3. CASE k \in o + 1..n /\ l \in o + 1..n
    BY <2>3, <1>1, <1>4
  <2> QED BY <2>2, <2>3, <1>3
<1>10. o <= n + 1
  BY <1>1
<1> QED BY <1>2, <1>6, <1>7, <1>8, <1>9, <1>10 DEF Appended, r, o

LEMMA AppendedSame ==
  ASSUME NEW queue \in Seq(Nat), NEW S, NEW m \in Nat, NEW q, Appended(q, queue, S, m), m + 1 \notin S
  PROVE  Appended(q, queue, S, m + 1)
<1>1. \A i \in 1..m + 1 : i \in S => i \in 1..m
  OBVIOUS
<1>2. 1..m \subseteq 1..m + 1
  OBVIOUS
<1> QED BY <1>1, <1>2 DEF Appended

LEMMA AppendIndicesProperties ==
  ASSUME NEW queue \in Seq(Nat), NEW S, NEW n \in Nat
  PROVE  Appended(AppendIndices(queue, S, n), queue, S, n)
<1> DEFINE f == CHOOSE g : AppendsTo(queue, S, n, g)
           X == {m \in Nat : m <= n => Appended(f[m], queue, S, m)}
<1>1. AppendIndices(queue, S, n) = f[n]
  BY DEF AppendIndices, AppendsTo
<1>2. AppendsTo(queue, S, n, f)
  BY AppendsExists
<1> HIDE DEF f
<1>3. f[0] = queue /\ \A i \in 1..n : f[i] = IF i \in S THEN Append(f[i - 1], i) ELSE f[i - 1]
  <2>1. \A i \in 0..n : f[i] = IF i = 0 THEN queue
                               ELSE IF i \in S THEN Append(f[i - 1], i) ELSE f[i - 1]
    BY <1>2 DEF AppendsTo
  <2> QED BY <2>1
<1>4. 0 \in X
  BY <1>3 DEF Appended
<1>5. ASSUME NEW m \in Nat, m \in X PROVE m + 1 \in X
  <2> SUFFICES ASSUME m + 1 <= n PROVE Appended(f[m + 1], queue, S, m + 1)
    OBVIOUS
  <2>1. Appended(f[m], queue, S, m)
    BY <1>5
  <2>2. m + 1 \in 1..n /\ (m + 1) - 1 = m
    OBVIOUS
  <2>3. f[m + 1] = IF m + 1 \in S THEN Append(f[m], m + 1) ELSE f[m]
    BY <1>3, <2>2
  <2> QED BY <2>1, <2>3, AppendedMore, AppendedSame
<1>6. n \in X
  <2> HIDE DEF X
  <2> QED BY <1>4, <1>5, SetInduction
<1> QED BY <1>1, <1>6

-----------------------------------------------------------------------------
(* Counting.                                                                *)
LEMMA SymbolsFinite ==
  ASSUME NEW S \in SUBSET Symbols
  PROVE  IsFiniteSet(S) /\ Cardinality(S) \in Nat
BY Constants, FS_Subset, FS_CardinalityType

LEMMA DisjointCount ==
  ASSUME NEW A, NEW B, IsFiniteSet(A), IsFiniteSet(B), A \cap B = {}
  PROVE  Cardinality(A \cup B) = Cardinality(A) + Cardinality(B)
<1>1. Cardinality(A \cup B) = Cardinality(A) + Cardinality(B) - Cardinality(A \cap B)
  BY FS_Union
<1>2. Cardinality(A) \in Nat /\ Cardinality(B) \in Nat /\ Cardinality(A \cap B) = 0
  BY FS_CardinalityType, FS_EmptySet
<1> QED BY <1>1, <1>2

(* What is left of two sets when their common part and more is taken out.   *)
Balanced(A, B, R, L) ==
  ((Cardinality(A) - Cardinality(B)) - Cardinality(R)) + Cardinality(L) =
    Cardinality((A \ B) \ R) - Cardinality((B \ A) \ L)

LEMMA LeftCount ==
  ASSUME NEW A, NEW B, NEW R, NEW L, A \in SUBSET Symbols, B \in SUBSET Symbols,
         R \in SUBSET (A \ B), L \in SUBSET (B \ A)
  PROVE  Balanced(A, B, R, L)
<1> DEFINE C == A \cap B
           M == (A \ B) \ R
           S == (B \ A) \ L
<1>1. A = (C \cup R) \cup M /\ C \cap R = {} /\ (C \cup R) \cap M = {}
  OBVIOUS
<1>2. B = (C \cup L) \cup S /\ C \cap L = {} /\ (C \cup L) \cap S = {}
  OBVIOUS
<1>3. /\ IsFiniteSet(C) /\ IsFiniteSet(R) /\ IsFiniteSet(M) /\ IsFiniteSet(L) /\ IsFiniteSet(S)
      /\ IsFiniteSet(C \cup R) /\ IsFiniteSet(C \cup L)
      /\ Cardinality(C) \in Nat /\ Cardinality(R) \in Nat /\ Cardinality(M) \in Nat
      /\ Cardinality(L) \in Nat /\ Cardinality(S) \in Nat
  <2>1. /\ C \in SUBSET Symbols /\ R \in SUBSET Symbols /\ M \in SUBSET Symbols
        /\ L \in SUBSET Symbols /\ S \in SUBSET Symbols
        /\ C \cup R \in SUBSET Symbols /\ C \cup L \in SUBSET Symbols
    OBVIOUS
  <2> HIDE DEF C, M, S
  <2> QED BY <2>1, SymbolsFinite
<1> HIDE DEF C, M, S
<1>4. Cardinality(A) = Cardinality(C) + Cardinality(R) + Cardinality(M)
  <2>1. Cardinality(C \cup R) = Cardinality(C) + Cardinality(R)
    BY <1>1, <1>3, DisjointCount
  <2>2. Cardinality((C \cup R) \cup M) = Cardinality(C \cup R) + Cardinality(M)
    BY <1>1, <1>3, DisjointCount
  <2> QED BY <1>1, <2>1, <2>2
<1>5. Cardinality(B) = Cardinality(C) + Cardinality(L) + Cardinality(S)
  <2>1. Cardinality(C \cup L) = Cardinality(C) + Cardinality(L)
    BY <1>2, <1>3, DisjointCount
  <2>2. Cardinality((C \cup L) \cup S) = Cardinality(C \cup L) + Cardinality(S)
    BY <1>2, <1>3, DisjointCount
  <2> QED BY <1>2, <2>1, <2>2
<1>6. ((Cardinality(A) - Cardinality(B)) - Cardinality(R)) + Cardinality(L) = Cardinality(M) - Cardinality(S)
  BY <1>3, <1>4, <1>5
<1> QED BY <1>6 DEF M, S, Balanced

(* A coded symbol that holds M, which only the encoder has, and S, which    *)
(* only the decoder has.                                                    *)
Coded == [sum : SUBSET Symbols, count : Int]

Holds(c, M, S) == c.sum = M \cup S /\ c.count = Cardinality(M) - Cardinality(S)

LEMMA HoldsProperties ==
  ASSUME NEW M \in SUBSET Symbols, NEW S \in SUBSET Symbols, M \cap S = {}, NEW c, Holds(c, M, S)
  PROVE  /\ IsEmpty(c) <=> c.sum = {}
         /\ Cardinality(c.sum) = 1 => InRange(c)
         /\ \A s : c.sum = {s} => (s \in M /\ c.count = 1) \/ (s \in S /\ c.count = -1)
         /\ c.count \in Int /\ IsFiniteSet(c.sum)
<1>1. /\ IsFiniteSet(M) /\ IsFiniteSet(S) /\ IsFiniteSet(M \cup S)
      /\ Cardinality(M) \in Nat /\ Cardinality(S) \in Nat
  <2>1. M \cup S \in SUBSET Symbols
    OBVIOUS
  <2> QED BY <2>1, SymbolsFinite
<1>2. c.sum = {} => c.count = 0
  BY FS_EmptySet DEF Holds
<1>3. ASSUME NEW s, c.sum = {s} PROVE (s \in M /\ c.count = 1) \/ (s \in S /\ c.count = -1)
  <2>1. CASE s \in M
    <3>1. M = {s} /\ S = {}
      BY <1>3, <2>1 DEF Holds
    <3>2. Cardinality(M) = 1 /\ Cardinality(S) = 0
      BY <3>1, FS_Singleton, FS_EmptySet
    <3> QED BY <2>1, <3>2 DEF Holds
  <2>2. CASE s \in S
    <3>1. S = {s} /\ M = {}
      BY <1>3, <2>2 DEF Holds
    <3>2. Cardinality(S) = 1 /\ Cardinality(M) = 0
      BY <3>1, FS_Singleton, FS_EmptySet
    <3> QED BY <2>2, <3>2 DEF Holds
  <2>3. s \in M \/ s \in S
    BY <1>3 DEF Holds
  <2> QED BY <2>1, <2>2, <2>3
<1>4. Cardinality(c.sum) = 1 => \E s : c.sum = {s}
  BY <1>1, FS_Singleton DEF Holds
<1> QED BY <1>1, <1>2, <1>3, <1>4 DEF IsEmpty, InRange, Holds

LEMMA ApplyProperties ==
  ASSUME NEW c \in Coded, NEW S \in SUBSET Symbols, NEW direction \in {1, -1}
  PROVE  /\ Apply(c, S, direction) \in Coded
         /\ Apply(c, S, direction).sum = SymDiff(c.sum, S)
         /\ Apply(c, S, direction).count = IF direction = 1 THEN c.count + Cardinality(S)
                                           ELSE c.count - Cardinality(S)
<1>1. Cardinality(S) \in Nat
  BY SymbolsFinite
<1>2. direction * Cardinality(S) = IF direction = 1 THEN Cardinality(S) ELSE 0 - Cardinality(S)
  BY <1>1
<1>3. SymDiff(c.sum, S) \in SUBSET Symbols /\ c.count \in Int
  BY DEF Coded, SymDiff
<1>4. c.count + direction * Cardinality(S) =
        IF direction = 1 THEN c.count + Cardinality(S) ELSE c.count - Cardinality(S)
  BY <1>1, <1>2, <1>3
<1>5. c.count + direction * Cardinality(S) \in Int
  BY <1>1, <1>3, <1>4
<1> DEFINE x == SymDiff(c.sum, S)
           k == direction * Cardinality(S)
<1>6. Apply(c, S, direction) = [c EXCEPT !.sum = x, !.count = c.count + k]
  BY DEF Apply, Coded
<1> HIDE DEF x, k
<1>7. /\ Apply(c, S, direction) \in Coded
      /\ Apply(c, S, direction).sum = x /\ Apply(c, S, direction).count = c.count + k
  BY <1>3, <1>5, <1>6 DEF Coded, x, k
<1> QED BY <1>4, <1>7 DEF x, k

LEMMA EmptyIsCoded == Empty \in Coded /\ Empty.sum = {} /\ Empty.count = 0
  BY DEF Empty, Coded

-----------------------------------------------------------------------------
(* Receiving a coded symbol.  What is left of it when the symbols that the  *)
(* decoder has, or has found, are taken out, is what is still to be found.  *)
LEMMA InCellProperties ==
  ASSUME InputInv, NEW n
  PROVE  /\ InCell(offered, n) \in SUBSET Symbols /\ InCell(held, n) \in SUBSET Symbols
         /\ InCell(Remote, n) \in SUBSET (InCell(offered, n) \ InCell(held, n))
         /\ InCell(Local, n) \in SUBSET (InCell(held, n) \ InCell(offered, n))
         /\ InCell(Missing, n) = (InCell(offered, n) \ InCell(held, n)) \ InCell(Remote, n)
         /\ InCell(Surplus, n) = (InCell(held, n) \ InCell(offered, n)) \ InCell(Local, n)
         /\ InCell(Missing \cup Surplus, n) = InCell(Missing, n) \cup InCell(Surplus, n)
         /\ InCell(Missing, n) \in SUBSET Symbols /\ InCell(Surplus, n) \in SUBSET Symbols
         /\ InCell(Missing, n) \cap InCell(Surplus, n) = {}
         /\ InCell({}, n) = {}
BY DEF InputInv, InCell, Missing, Surplus

LEMMA WindowsDue ==
  ASSUME InputInv, WindowsInv, NEW n \in 0..MaxCells, n < MaxCells, n = Len(cs)
  PROVE  /\ ~sketched => Due(encoder) = InCell(offered, n)
         /\ Due(window) = IF sketched THEN {} ELSE InCell(held, n)
         /\ Due(remote) = InCell(Remote, n)
         /\ Due(local) = InCell(Local, n)
<1>1. /\ mapping \in Mappings /\ offered \in SUBSET Symbols /\ held \in SUBSET Symbols
      /\ Remote \in SUBSET Symbols /\ Local \in SUBSET Symbols /\ {} \in SUBSET Symbols
  BY DEF InputInv
<1>2. \A S \in SUBSET Symbols : Due(WindowOver(S, n)) = InCell(S, n)
  BY <1>1, DueIsInCell
<1>3. (~sketched => encoder = WindowOver(offered, n)) /\ remote = WindowOver(Remote, n) /\ local = WindowOver(Local, n)
      /\ window = WindowOver(IF sketched THEN {} ELSE held, n)
  BY DEF WindowsInv
<1>4. InCell({}, n) = {}
  BY DEF InCell
<1> QED BY <1>1, <1>2, <1>3, <1>4

(* The coded symbol without those that the decoder has.                     *)
Subtracted(c, n) ==
  /\ c \in Coded
  /\ c.sum = SymDiff(InCell(offered, n), InCell(held, n))
  /\ c.count = Cardinality(InCell(offered, n)) - Cardinality(InCell(held, n))

LEMMA SubtractedStream ==
  ASSUME InputInv, WindowsInv, NEW n \in 0..MaxCells, n < MaxCells, n = Len(cs), ~sketched
  PROVE  Subtracted(ApplyWindow(window, ApplyWindow(encoder, Empty, add), remove), n)
<1> DEFINE A == InCell(offered, n)
           B == InCell(held, n)
           c == Apply(Empty, A, 1)
           d == Apply(c, B, -1)
<1>1. A \in SUBSET Symbols /\ B \in SUBSET Symbols
  BY InCellProperties
<1>2. Cardinality(A) \in Nat /\ Cardinality(B) \in Nat
  BY <1>1, SymbolsFinite
<1>3. ApplyWindow(window, ApplyWindow(encoder, Empty, add), remove) = d
  BY WindowsDue DEF ApplyWindow, add, remove
<1> HIDE DEF A, B
<1>4. c \in Coded /\ c.sum = SymDiff({}, A) /\ c.count = 0 + Cardinality(A)
  BY <1>1, EmptyIsCoded, ApplyProperties
<1> HIDE DEF c
<1>5. d \in Coded /\ d.sum = SymDiff(c.sum, B) /\ d.count = c.count - Cardinality(B)
  BY <1>1, <1>4, ApplyProperties
<1>6. SymDiff({}, A) = A
  BY DEF SymDiff
<1> HIDE DEF d
<1>7. d \in Coded /\ d.sum = SymDiff(A, B) /\ d.count = Cardinality(A) - Cardinality(B)
  BY <1>2, <1>4, <1>5, <1>6
<1> QED BY <1>3, <1>7 DEF Subtracted, A, B

LEMMA SubtractedSketch ==
  ASSUME InputInv, WindowsInv, NEW n \in 0..MaxCells, n < MaxCells, n = Len(cs), sketched
  PROVE  Subtracted(ApplyWindow(window, SubtractedCell(n), remove), n)
<1> DEFINE A == InCell(offered, n)
           B == InCell(held, n)
           a == Apply(Empty, A, 1)
           b == Apply(Empty, B, 1)
           c == SubtractedCell(n)
           d == Apply(c, {}, -1)
<1>1. A \in SUBSET Symbols /\ B \in SUBSET Symbols /\ {} \in SUBSET Symbols
  BY InCellProperties
<1>2. Cardinality(A) \in Nat /\ Cardinality(B) \in Nat /\ Cardinality({}) = 0
  BY <1>1, SymbolsFinite, FS_EmptySet
<1>3. ApplyWindow(window, c, remove) = d
  BY WindowsDue DEF ApplyWindow, remove
<1>4. c.sum = SymDiff(a.sum, b.sum) /\ c.count = a.count - b.count
      /\ c = [sum |-> SymDiff(a.sum, b.sum), count |-> a.count - b.count]
  BY DEF SubtractedCell, SketchCell, InCell, add
<1> HIDE DEF A, B, c
<1>5. a.sum = SymDiff({}, A) /\ a.count = 0 + Cardinality(A)
  BY <1>1, EmptyIsCoded, ApplyProperties
<1>6. b.sum = SymDiff({}, B) /\ b.count = 0 + Cardinality(B)
  BY <1>1, EmptyIsCoded, ApplyProperties
<1> HIDE DEF a, b
<1>7. SymDiff({}, A) = A /\ SymDiff({}, B) = B /\ SymDiff(A, B) \in SUBSET Symbols
  BY <1>1 DEF SymDiff
<1>8. c.sum = SymDiff(A, B) /\ c.count = Cardinality(A) - Cardinality(B)
  BY <1>2, <1>4, <1>5, <1>6, <1>7
<1>9. c \in Coded
  BY <1>2, <1>4, <1>7, <1>8 DEF Coded
<1>10. d \in Coded /\ d.sum = SymDiff(c.sum, {}) /\ d.count = c.count - 0
  BY <1>1, <1>2, <1>9, ApplyProperties
<1>11. SymDiff(c.sum, {}) = c.sum
  BY DEF SymDiff
<1> HIDE DEF d
<1>12. d \in Coded /\ d.sum = SymDiff(A, B) /\ d.count = Cardinality(A) - Cardinality(B)
  BY <1>2, <1>8, <1>10, <1>11
<1> QED BY <1>3, <1>12 DEF Subtracted, A, B, c

LEMMA ReceivedHolds ==
  ASSUME InputInv, WindowsInv, NEW n \in 0..MaxCells, n < MaxCells, n = Len(cs), NEW c, Subtracted(c, n)
  PROVE  LET d == ApplyWindow(local, ApplyWindow(remote, c, remove), add) IN
           d \in Coded /\ Holds(d, InCell(Missing, n), InCell(Surplus, n))
<1> DEFINE A == InCell(offered, n)
           B == InCell(held, n)
           R == InCell(Remote, n)
           L == InCell(Local, n)
           e == Apply(c, R, -1)
           d == Apply(e, L, 1)
<1>1. /\ A \in SUBSET Symbols /\ B \in SUBSET Symbols /\ R \in SUBSET (A \ B) /\ L \in SUBSET (B \ A)
      /\ InCell(Missing, n) = (A \ B) \ R /\ InCell(Surplus, n) = (B \ A) \ L
  BY InCellProperties
<1>2. ApplyWindow(local, ApplyWindow(remote, c, remove), add) = d
  BY WindowsDue DEF ApplyWindow, add, remove
<1>3. c \in Coded /\ c.sum = SymDiff(A, B) /\ c.count = Cardinality(A) - Cardinality(B)
  BY DEF Subtracted
<1> HIDE DEF A, B, R, L
<1>4. R \in SUBSET Symbols /\ L \in SUBSET Symbols
  BY <1>1
<1>5. e \in Coded /\ e.sum = SymDiff(c.sum, R) /\ e.count = c.count - Cardinality(R)
  BY <1>3, <1>4, ApplyProperties
<1> HIDE DEF e
<1>6. d \in Coded /\ d.sum = SymDiff(e.sum, L) /\ d.count = e.count + Cardinality(L)
  BY <1>4, <1>5, ApplyProperties
<1> HIDE DEF d
<1>7. d.sum = ((A \ B) \ R) \cup ((B \ A) \ L)
  BY <1>1, <1>3, <1>5, <1>6 DEF SymDiff
<1>8. d.count = Cardinality((A \ B) \ R) - Cardinality((B \ A) \ L)
  <2>1. Balanced(A, B, R, L)
    BY <1>1, LeftCount
  <2> QED BY <2>1, <1>3, <1>5, <1>6 DEF Balanced
<1>9. Holds(d, InCell(Missing, n), InCell(Surplus, n))
  BY <1>1, <1>7, <1>8 DEF Holds
<1> QED BY <1>2, <1>6, <1>9

(* Windows that are what they must be after a step are so in the next state.*)
LEMMA WindowsNext ==
  ASSUME UNCHANGED <<mapping, sketched>>, NEW R, NEW L,
         encoder' = IF sketched THEN NewWindow ELSE WindowOver(offered', Len(cs')),
         window' = WindowOver(IF sketched THEN {} ELSE held', Len(cs')),
         remote' = WindowOver(R, Len(cs')), local' = WindowOver(L, Len(cs'))
  PROVE  WindowsInv' /\ Remote' = R /\ Local' = L
<1>1. Remote' = R /\ Local' = L
  BY WindowDomain DEF Remote, Local
<1>2. /\ WindowOver(offered, Len(cs))' = WindowOver(offered', Len(cs'))
      /\ WindowOver(IF sketched THEN {} ELSE held, Len(cs))' = WindowOver(IF sketched THEN {} ELSE held', Len(cs'))
      /\ WindowOver(Remote, Len(cs))' = WindowOver(R, Len(cs'))
      /\ WindowOver(Local, Len(cs))' = WindowOver(L, Len(cs'))
  BY <1>1 DEF WindowOver, NextIndex
<1> QED BY <1>1, <1>2 DEF WindowsInv

(* All windows go on by one coded symbol.                                   *)
LEMMA WindowsAdvance ==
  ASSUME InputInv, WindowsInv, NEW n \in 0..MaxCells, n < MaxCells, n = Len(cs), UNCHANGED input,
         Len(cs') = n + 1,
         window' = Advance(window), remote' = Advance(remote), local' = Advance(local),
         encoder' = IF sketched THEN encoder ELSE Advance(encoder)
  PROVE  WindowsInv' /\ Remote' = Remote /\ Local' = Local
<1>1. /\ mapping \in Mappings /\ offered \in SUBSET Symbols /\ held \in SUBSET Symbols
      /\ Remote \in SUBSET Symbols /\ Local \in SUBSET Symbols /\ {} \in SUBSET Symbols
  BY DEF InputInv
<1>2. \A S \in SUBSET Symbols : Advance(WindowOver(S, n)) = WindowOver(S, n + 1)
  BY <1>1, AdvanceIsOver
<1>3. /\ encoder = IF sketched THEN NewWindow ELSE WindowOver(offered, n)
      /\ window = WindowOver(IF sketched THEN {} ELSE held, n)
      /\ remote = WindowOver(Remote, n) /\ local = WindowOver(Local, n)
  BY DEF WindowsInv
<1>4. offered' = offered /\ held' = held /\ UNCHANGED <<mapping, sketched>>
  BY DEF input
<1>5. (IF sketched THEN {} ELSE held) \in SUBSET Symbols
  BY <1>1
<1>6. remote' = WindowOver(Remote, Len(cs')) /\ local' = WindowOver(Local, Len(cs'))
  BY <1>1, <1>2, <1>3
<1>7. window' = WindowOver(IF sketched THEN {} ELSE held', Len(cs'))
  BY <1>2, <1>3, <1>4, <1>5
<1>8. encoder' = IF sketched THEN NewWindow ELSE WindowOver(offered', Len(cs'))
  BY <1>1, <1>2, <1>3, <1>4
<1> QED BY <1>4, <1>6, <1>7, <1>8, WindowsNext

(* What AddCodedSymbol does with the coded symbol d that is left.           *)
Received(d) ==
  /\ didx = 0 /\ didx' = 0 /\ UNCHANGED input
  /\ Len(cs) < MaxCells
  /\ d \in Coded /\ Holds(d, InCell(Missing, Len(cs)), InCell(Surplus, Len(cs)))
  /\ Insert(d)
  /\ encoder' = IF sketched THEN encoder ELSE Advance(encoder)

LEMMA StepReceives ==
  ASSUME RibltInv, ProduceNextCodedSymbol \/ AddCell
  PROVE  \E d : Received(d)
<1> DEFINE n == Len(cs)
<1>1. Len(cs) \in Nat /\ Len(cs) < MaxCells /\ didx = 0 /\ UNCHANGED input
  BY DEF RibltInv, StateInv, ProduceNextCodedSymbol, AddCell, Idle
<1>2. n \in 0..MaxCells /\ n < MaxCells /\ InputInv /\ WindowsInv
  BY <1>1, Constants DEF RibltInv
<1>3. PICK c : /\ Subtracted(ApplyWindow(window, c, remove), n)
               /\ AddCodedSymbol(c)
               /\ encoder' = IF sketched THEN encoder ELSE Advance(encoder)
  <2>1. CASE ProduceNextCodedSymbol
    <3>1. /\ ~sketched /\ AddCodedSymbol(ApplyWindow(encoder, Empty, add)) /\ encoder' = Advance(encoder)
      BY <2>1 DEF ProduceNextCodedSymbol
    <3>2. Subtracted(ApplyWindow(window, ApplyWindow(encoder, Empty, add), remove), n)
      BY <1>2, <3>1, SubtractedStream
    <3> QED BY <3>1, <3>2
  <2>2. CASE AddCell
    <3>1. /\ sketched /\ AddCodedSymbol(SubtractedCell(n)) /\ encoder' = encoder
      BY <2>2 DEF AddCell
    <3>2. Subtracted(ApplyWindow(window, SubtractedCell(n), remove), n)
      BY <1>2, <3>1, SubtractedSketch
    <3> QED BY <3>1, <3>2
  <2> QED BY <2>1, <2>2
<1> DEFINE d == ApplyWindow(local, ApplyWindow(remote, ApplyWindow(window, c, remove), remove), add)
<1>4. d \in Coded /\ Holds(d, InCell(Missing, n), InCell(Surplus, n))
  BY <1>2, <1>3, ReceivedHolds
<1>5. Insert(d)
  BY <1>3 DEF AddCodedSymbol
<1>6. didx' = 0
  BY <1>1, <1>5 DEF Insert
<1> HIDE DEF d
<1>7. Received(d)
  BY <1>1, <1>3, <1>4, <1>5, <1>6 DEF Received
<1> QED BY <1>7

LEMMA ReceiveStep ==
  ASSUME RibltInv, NEW d, Received(d)
  PROVE  RibltInv'
<1> DEFINE n == Len(cs)
           isDirty == ~IsEmpty(d) /\ InRange(d)
           e == [sum |-> d.sum, count |-> d.count, dirty |-> isDirty]
<1>1. /\ cs \in Seq(Cell) /\ n \in Nat /\ n < MaxCells /\ MaxCells \in Nat /\ n \in 0..MaxCells
      /\ dirty \in Seq(1..n) /\ pending \in Int /\ didx = 0 /\ didx' = 0 /\ UNCHANGED input
  BY Constants DEF RibltInv, StateInv, Received
<1>2. /\ cs' = Append(cs, e)
      /\ dirty' = IF isDirty THEN Append(dirty, n + 1) ELSE dirty
      /\ pending' = IF IsEmpty(d) THEN pending ELSE pending + 1
      /\ window' = Advance(window) /\ remote' = Advance(remote) /\ local' = Advance(local)
      /\ encoder' = IF sketched THEN encoder ELSE Advance(encoder)
  BY DEF Received, Insert
<1>3. d.sum \in SUBSET Symbols /\ d.count \in Int /\ isDirty \in BOOLEAN
  BY DEF Received, Coded
<1>4. e \in Cell /\ e.sum = d.sum /\ e.count = d.count /\ e.dirty = isDirty
  <2> HIDE DEF isDirty
  <2> QED BY <1>3 DEF Cell
<1>5. /\ InCell(Missing, n) \in SUBSET Symbols /\ InCell(Surplus, n) \in SUBSET Symbols
      /\ InCell(Missing, n) \cap InCell(Surplus, n) = {}
      /\ InCell(Missing \cup Surplus, n) = InCell(Missing, n) \cup InCell(Surplus, n)
  BY InCellProperties DEF RibltInv
<1>6. Holds(d, InCell(Missing, n), InCell(Surplus, n))
  BY DEF Received
<1>7. (IsEmpty(d) <=> d.sum = {}) /\ (Cardinality(d.sum) = 1 => InRange(d))
  BY <1>5, <1>6, HoldsProperties
<1>8. isDirty => d.sum # {}
  BY <1>7
<1>9. ~isDirty => Cardinality(d.sum) # 1
  BY <1>7, FS_EmptySet
<1> HIDE DEF e, isDirty
<1>10. /\ cs' \in Seq(Cell) /\ Len(cs') = n + 1 /\ cs'[n + 1] = e
       /\ \A i \in 1..n : cs'[i] = cs[i]
  BY <1>1, <1>2, <1>4
<1>11. WindowsInv' /\ Remote' = Remote /\ Local' = Local
  BY <1>1, <1>2, <1>10, WindowsAdvance DEF RibltInv
<1>12. /\ Missing' = Missing /\ Surplus' = Surplus /\ Difference' = Difference
       /\ \A S, i : InCell(S, i)' = InCell(S', i')
       /\ UNCHANGED <<mapping, offered, held>>
  BY <1>1, <1>11 DEF Missing, Surplus, Difference, InCell, input
<1>13. InputInv'
  BY <1>1, <1>11 DEF InputInv, input, RibltInv
<1>14. StateInv'
  <2>1. dirty' \in Seq(1..n + 1) /\ Len(dirty') \in Nat
    <3>1. dirty \in Seq(1..n + 1)
      BY <1>1
    <3>2. n + 1 \in 1..n + 1
      BY <1>1
    <3>3. CASE isDirty
      <4>1. dirty' = Append(dirty, n + 1)
        BY <1>2, <3>3
      <4> QED BY <4>1, <3>1, <3>2
    <3>4. CASE ~isDirty
      BY <1>2, <3>1, <3>4
    <3> QED BY <3>3, <3>4
  <2>2. pending' \in Int
    BY <1>1, <1>2
  <2>3. cs' # <<>> /\ n + 1 <= MaxCells
    BY <1>1, <1>10
  <2> QED BY <2>1, <2>2, <2>3, <1>1, <1>10 DEF StateInv
<1>15. CellsInv'
  <2> SUFFICES ASSUME NEW i \in 1..n + 1 PROVE CellInv(i)'
    BY <1>10 DEF CellsInv
  <2>1. CASE i \in 1..n
    <3>1. CellInv(i)
      BY <2>1 DEF RibltInv, CellsInv
    <3> QED BY <2>1, <3>1, <1>10, <1>12 DEF CellInv
  <2>2. CASE i = n + 1
    <3>1. cs'[i].sum = d.sum /\ cs'[i].count = d.count /\ i - 1 = n
      BY <2>2, <1>1, <1>4, <1>10
    <3>2. d.sum = InCell(Missing \cup Surplus, n)
          /\ d.count = Cardinality(InCell(Missing, n)) - Cardinality(InCell(Surplus, n))
      BY <1>5, <1>6 DEF Holds
    <3>3. /\ InCell(Missing \cup Surplus, i - 1)' = InCell(Missing \cup Surplus, i - 1)
          /\ InCell(Missing, i - 1)' = InCell(Missing, i - 1)
          /\ InCell(Surplus, i - 1)' = InCell(Surplus, i - 1)
      BY <1>12 DEF InCell
    <3>4. /\ cs'[i].sum = InCell(Missing \cup Surplus, i - 1)'
          /\ cs'[i].count = Cardinality(InCell(Missing, i - 1))' - Cardinality(InCell(Surplus, i - 1))'
      BY <3>1, <3>2, <3>3
    <3> QED BY <3>4 DEF CellInv
  <2> QED BY <2>1, <2>2
<1>16. DirtyInv'
  <2> DEFINE m == Len(dirty)
  <2>1. /\ \A k, l \in 1..m : dirty[k] = dirty[l] => k = l
        /\ \A i \in 1..n : cs[i].dirty <=> \E k \in 1..m : dirty[k] = i
        /\ \A i \in 1..n : ~cs[i].dirty => Cardinality(cs[i].sum) # 1
        /\ \A i \in 1..n : cs[i].dirty => cs[i].sum # {}
        /\ m \in Nat /\ \A k \in 1..m : dirty[k] \in 1..n
    <3>1. Waiting = 1..m /\ Idle
      BY <1>1 DEF Waiting, Idle
    <3>2. DirtyInv
      BY DEF RibltInv
    <3>3. m \in Nat /\ \A k \in 1..m : dirty[k] \in 1..n
      BY <1>1
    <3> HIDE DEF m
    <3> QED BY <3>1, <3>2, <3>3 DEF DirtyInv
  <2>2. Waiting' = 1..Len(dirty')
    BY <1>1 DEF Waiting
  <2>3. \A i \in 1..n + 1 : ~cs'[i].dirty => Cardinality(cs'[i].sum) # 1
    BY <2>1, <1>4, <1>9, <1>10
  <2>4. \A i \in 1..n + 1 : cs'[i].dirty => cs'[i].sum # {}
    BY <2>1, <1>4, <1>8, <1>10
  <2>5. /\ \A k, l \in 1..Len(dirty') : dirty'[k] = dirty'[l] => k = l
        /\ \A i \in 1..n + 1 : cs'[i].dirty <=> \E k \in 1..Len(dirty') : dirty'[k] = i
    <3>1. CASE isDirty
      <4>1. Len(dirty') = m + 1 /\ dirty'[m + 1] = n + 1 /\ \A k \in 1..m : dirty'[k] = dirty[k]
        BY <3>1, <1>1, <1>2
      <4>2. cs'[n + 1].dirty
        BY <3>1, <1>4, <1>10
      <4>3. \A k \in 1..m + 1 : k = m + 1 \/ k \in 1..m
        BY <2>1
      <4>4. 1..m \subseteq 1..m + 1 /\ m + 1 \in 1..m + 1 /\ n + 1 \notin 1..n
        BY <2>1, <1>1
      <4>5. \A k, l \in 1..m + 1 : dirty'[k] = dirty'[l] => k = l
        BY <2>1, <4>1, <4>3, <4>4
      <4>6. ASSUME NEW i \in 1..n + 1
            PROVE  cs'[i].dirty <=> \E k \in 1..m + 1 : dirty'[k] = i
        <5>1. CASE i = n + 1
          BY <5>1, <4>1, <4>2, <4>4
        <5>2. CASE i \in 1..n
          <6>1. i # n + 1 /\ cs'[i] = cs[i]
            BY <5>2, <1>10, <4>4
          <6>2. (\E k \in 1..m + 1 : dirty'[k] = i) <=> \E k \in 1..m : dirty[k] = i
            BY <6>1, <4>1, <4>3, <4>4
          <6> QED BY <5>2, <6>1, <6>2, <2>1
        <5> QED BY <5>1, <5>2
      <4> QED BY <4>1, <4>5, <4>6
    <3>2. CASE ~isDirty
      <4>1. dirty' = dirty /\ ~cs'[n + 1].dirty
        BY <3>2, <1>2, <1>4, <1>10
      <4>2. n + 1 \notin 1..n
        BY <1>1
      <4> QED BY <2>1, <4>1, <4>2, <1>10
    <3> QED BY <3>1, <3>2
  <2> QED BY <2>2, <2>3, <2>4, <2>5, <1>10 DEF DirtyInv
<1>17. PendingInv'
  <2> DEFINE P == {i \in 1..n : cs[i].dirty \/ cs[i].sum # {}}
             Q == {i \in 1..n + 1 : cs'[i].dirty \/ cs'[i].sum # {}}
  <2>1. pending = Cardinality(P)
    BY DEF RibltInv, PendingInv
  <2>2. IsFiniteSet(P) /\ n + 1 \notin P
    <3>1. IsFiniteSet(1..n) /\ n + 1 \notin 1..n
      BY <1>1, FS_Interval
    <3> QED BY <3>1, FS_Subset
  <2>3. Q = IF IsEmpty(d) THEN P ELSE P \cup {n + 1}
    <3>1. cs'[n + 1].dirty \/ cs'[n + 1].sum # {} <=> ~IsEmpty(d)
      BY <1>4, <1>7, <1>8, <1>10
    <3>2. \A i \in 1..n + 1 : i = n + 1 \/ i \in 1..n
      OBVIOUS
    <3>3. 1..n \subseteq 1..n + 1 /\ n + 1 \in 1..n + 1
      BY <1>1
    <3> QED BY <3>1, <3>2, <3>3, <1>10
  <2> HIDE DEF P, Q
  <2>4. pending' = Cardinality(Q)
    BY <2>1, <2>2, <2>3, <1>2, FS_AddElement
  <2> QED BY <2>4, <1>10 DEF PendingInv, Q
<1>18. PeeledInv'
  <2> SUFFICES ASSUME NEW U \in SUBSET Difference', Stopping(U)' PROVE U \subseteq (Missing \cup Surplus)'
    BY DEF PeeledInv
  <2>1. Stopping(U)
    <3>1. 0..n - 1 \subseteq 0..(n + 1) - 1
      BY <1>1
    <3> QED BY <3>1, <1>10, <1>12 DEF Stopping
  <2> QED BY <2>1, <1>12 DEF RibltInv, PeeledInv
<1> QED BY <1>11, <1>13, <1>14, <1>15, <1>16, <1>17, <1>18 DEF RibltInv

-----------------------------------------------------------------------------
(* Peeling.  The symbol s is found in the coded symbol that TryDecode is    *)
(* looking at; M and S are what is still to be found after that.            *)
Hit(s) == {i \in 1..Len(cs) : i - 1 \in mapping[s]}

PeeledCell(s, direction, i) == IF i \in Hit(s) THEN Apply(cs[i], {s}, direction) ELSE cs[i]

NewDirty(s, direction) == {i \in Hit(s) : ~cs[i].dirty /\ InRange(PeeledCell(s, direction, i))}

Found(s, M, S, direction) ==
  /\ didx \in 1..Len(dirty)
  /\ s \in Symbols /\ Current.sum = {s}
  /\ \/ direction = -1 /\ s \in Missing /\ M = Missing \ {s} /\ S = Surplus
     \/ direction = 1 /\ s \in Surplus /\ M = Missing /\ S = Surplus \ {s}

Peels(s, M, S, direction) ==
  /\ Found(s, M, S, direction)
  /\ cs' = [i \in 1..Len(cs) |->
              [PeeledCell(s, direction, i) EXCEPT
                 !.dirty = i # dirty[didx] /\ (@ \/ i \in NewDirty(s, direction))]]
  /\ dirty' = AppendIndices(dirty, NewDirty(s, direction), Len(cs))

(* What the invariant says of the coded symbol that is looked at.           *)
LEMMA CurrentProperties ==
  ASSUME RibltInv, didx \in 1..Len(dirty)
  PROVE  /\ dirty[didx] \in 1..Len(cs) /\ cs[dirty[didx]].dirty
         /\ \A i \in 1..Len(cs) : Holds(cs[i], InCell(Missing, i - 1), InCell(Surplus, i - 1))
         /\ Len(cs) \in Nat /\ Len(dirty) \in Nat /\ cs # <<>>
<1>1. /\ dirty \in Seq(1..Len(cs)) /\ cs \in Seq(Cell) /\ Len(cs) \in Nat /\ Len(dirty) \in Nat
  BY DEF RibltInv, StateInv
<1>2. dirty[didx] \in 1..Len(cs)
  BY <1>1
<1>3. cs[dirty[didx]].dirty
  <2>1. didx \in Waiting
    BY <1>1 DEF Waiting
  <2> QED BY <2>1, <1>2 DEF RibltInv, DirtyInv
<1>4. \A i \in 1..Len(cs) : Holds(cs[i], InCell(Missing, i - 1), InCell(Surplus, i - 1))
  BY InCellProperties DEF RibltInv, CellsInv, CellInv, Holds
<1> QED BY <1>1, <1>2, <1>3, <1>4

LEMMA StepPeels ==
  ASSUME RibltInv, DecodeStep, DecodeSymbol
  PROVE  \E s, M, S, direction :
           /\ Peels(s, M, S, direction)
           /\ IF direction = -1
              THEN remote' = AddWithMapping(remote, s, NextIndex(s, Len(cs) - 1)) /\ local' = local
              ELSE local' = AddWithMapping(local, s, NextIndex(s, Len(cs) - 1)) /\ remote' = remote
<1> DEFINE s == CHOOSE x \in Symbols : Current.sum = {x}
           i == dirty[didx]
<1>1. didx \in 1..Len(dirty)
  BY DEF DecodeStep
<1>2. i \in 1..Len(cs) /\ Holds(Current, InCell(Missing, i - 1), InCell(Surplus, i - 1))
  BY <1>1, CurrentProperties DEF Current
<1>3. /\ InCell(Missing, i - 1) \in SUBSET Symbols /\ InCell(Surplus, i - 1) \in SUBSET Symbols
      /\ InCell(Missing, i - 1) \cap InCell(Surplus, i - 1) = {}
  BY InCellProperties DEF RibltInv
<1>4. /\ IsFiniteSet(Current.sum)
      /\ \A x : Current.sum = {x} =>
           (x \in InCell(Missing, i - 1) /\ Current.count = 1) \/ (x \in InCell(Surplus, i - 1) /\ Current.count = -1)
  <2> DEFINE A == InCell(Missing, i - 1)
             B == InCell(Surplus, i - 1)
  <2>1. A \in SUBSET Symbols /\ B \in SUBSET Symbols /\ A \cap B = {} /\ Holds(Current, A, B)
    BY <1>2, <1>3
  <2> HIDE DEF A, B
  <2>2. /\ IsFiniteSet(Current.sum)
        /\ \A x : Current.sum = {x} => (x \in A /\ Current.count = 1) \/ (x \in B /\ Current.count = -1)
    BY <2>1, HoldsProperties
  <2> QED BY <2>2 DEF A, B
<1>5. s \in Symbols /\ Current.sum = {s}
  <2>1. Cardinality(Current.sum) = 1
    BY DEF DecodeSymbol, IsPure
  <2>2. PICK x : Current.sum = {x}
    BY <2>1, <1>4, FS_Singleton
  <2>3. x \in Symbols
    BY <2>2, <1>3, <1>4
  <2> QED BY <2>2, <2>3
<1> HIDE DEF s
<1>6. /\ Current.count \in {1, -1}
      /\ Current.count = 1 => s \in Missing
      /\ Current.count = -1 => s \in Surplus
  BY <1>4, <1>5 DEF DecodeSymbol, InCell
<1>7. CASE Current.count = 1
  <2>1. /\ ApplyNewSymbol(s, remove) /\ remote' = AddWithMapping(remote, s, NextIndex(s, Len(cs) - 1))
        /\ local' = local
    BY <1>7 DEF DecodeSymbol, s
  <2>2. Peels(s, Missing \ {s}, Surplus, -1)
    BY <2>1, <1>1, <1>5, <1>6, <1>7
       DEF ApplyNewSymbol, Peel, Peels, Found, Hit, PeeledCell, NewDirty, remove
  <2> QED BY <2>1, <2>2
<1>8. CASE Current.count = -1
  <2>1. /\ ApplyNewSymbol(s, add) /\ local' = AddWithMapping(local, s, NextIndex(s, Len(cs) - 1))
        /\ remote' = remote
    BY <1>8 DEF DecodeSymbol, s
  <2>2. Peels(s, Missing, Surplus \ {s}, 1)
    BY <2>1, <1>1, <1>5, <1>6, <1>8
       DEF ApplyNewSymbol, Peel, Peels, Found, Hit, PeeledCell, NewDirty, add
  <2> QED BY <2>1, <2>2
<1> QED BY <1>6, <1>7, <1>8

LEMMA ApplyCell ==
  ASSUME NEW c \in Cell, NEW s \in Symbols, NEW direction \in {1, -1}
  PROVE  /\ Apply(c, {s}, direction) \in Cell
         /\ Apply(c, {s}, direction).sum = SymDiff(c.sum, {s})
         /\ Apply(c, {s}, direction).count = IF direction = 1 THEN c.count + 1 ELSE c.count - 1
         /\ Apply(c, {s}, direction).dirty = c.dirty
<1> DEFINE x == SymDiff(c.sum, {s})
           k == direction * Cardinality({s})
<1>1. Cardinality({s}) = 1
  BY FS_Singleton
<1>2. k \in Int /\ c.count + k = IF direction = 1 THEN c.count + 1 ELSE c.count - 1
  BY <1>1 DEF Cell
<1>3. x \in SUBSET Symbols
  BY DEF Cell, SymDiff
<1>4. Apply(c, {s}, direction) = [c EXCEPT !.sum = x, !.count = c.count + k]
  BY DEF Apply, Cell
<1> HIDE DEF x, k
<1>5. c.count + k \in Int
  BY <1>2 DEF Cell
<1>6. /\ Apply(c, {s}, direction) \in Cell
      /\ Apply(c, {s}, direction).sum = x /\ Apply(c, {s}, direction).count = c.count + k
      /\ Apply(c, {s}, direction).dirty = c.dirty
  BY <1>3, <1>4, <1>5 DEF Cell
<1> QED BY <1>2, <1>6 DEF x

(* Peeling s from a coded symbol that holds it.                             *)
Without(c, s, direction) == Apply(c, {s}, direction)

IsWithout(p, c, s) == p \in Cell /\ p.dirty = c.dirty /\ p.sum = c.sum \ {s}

Taken(s, A, B, A1, B1, direction) ==
  \/ direction = -1 /\ s \in A /\ A1 = A \ {s} /\ B1 = B
  \/ direction = 1 /\ s \in B /\ A1 = A /\ B1 = B \ {s}

LEMMA PeelOne ==
  ASSUME NEW A \in SUBSET Symbols, NEW B \in SUBSET Symbols, A \cap B = {}, NEW c \in Cell,
         Holds(c, A, B), NEW s, NEW A1, NEW B1, NEW direction, Taken(s, A, B, A1, B1, direction)
  PROVE  Holds(Without(c, s, direction), A1, B1) /\ IsWithout(Without(c, s, direction), c, s)
<1> DEFINE p == Without(c, s, direction)
<1>1. s \in Symbols /\ direction \in {1, -1} /\ s \in A \cup B
  BY DEF Taken
<1>2. /\ p \in Cell /\ p.sum = SymDiff(c.sum, {s}) /\ p.dirty = c.dirty
      /\ p.count = IF direction = 1 THEN c.count + 1 ELSE c.count - 1
  BY <1>1, ApplyCell DEF Without
<1> HIDE DEF p
<1>3. c.sum = A \cup B /\ c.count = Cardinality(A) - Cardinality(B)
  BY DEF Holds
<1>4. p.sum = c.sum \ {s}
  BY <1>1, <1>2, <1>3 DEF SymDiff
<1>5. IsFiniteSet(A) /\ IsFiniteSet(B) /\ Cardinality(A) \in Nat /\ Cardinality(B) \in Nat
  BY SymbolsFinite
<1>6. CASE direction = -1 /\ s \in A /\ A1 = A \ {s} /\ B1 = B
  <2>1. Cardinality(A1) = Cardinality(A) - 1
    BY <1>5, <1>6, FS_RemoveElement
  <2>2. p.sum = A1 \cup B1
    BY <1>3, <1>4, <1>6
  <2>3. p.count = Cardinality(A1) - Cardinality(B1)
    BY <1>2, <1>3, <1>5, <1>6, <2>1
  <2> QED BY <1>2, <1>4, <2>2, <2>3 DEF Holds, IsWithout, p
<1>7. CASE direction = 1 /\ s \in B /\ A1 = A /\ B1 = B \ {s}
  <2>1. Cardinality(B1) = Cardinality(B) - 1
    BY <1>5, <1>7, FS_RemoveElement
  <2>2. p.sum = A1 \cup B1
    BY <1>3, <1>4, <1>7
  <2>3. p.count = Cardinality(A1) - Cardinality(B1)
    BY <1>2, <1>3, <1>5, <1>7, <2>1
  <2> QED BY <1>2, <1>4, <2>2, <2>3 DEF Holds, IsWithout, p
<1> QED BY <1>6, <1>7 DEF Taken

LEMMA PeeledCellHolds ==
  ASSUME RibltInv, NEW s, NEW M, NEW S, NEW direction, Found(s, M, S, direction), NEW i \in 1..Len(cs)
  PROVE  LET p == PeeledCell(s, direction, i) IN
         /\ p \in Cell /\ p.dirty = cs[i].dirty /\ p.sum = cs[i].sum \ {s}
         /\ Holds(p, InCell(M, i - 1), InCell(S, i - 1))
         /\ i \in Hit(s) <=> s \in cs[i].sum
<1> DEFINE p == PeeledCell(s, direction, i)
           A == InCell(Missing, i - 1)
           B == InCell(Surplus, i - 1)
           A1 == InCell(M, i - 1)
           B1 == InCell(S, i - 1)
<1>1. cs[i] \in Cell /\ Holds(cs[i], A, B)
  <2>1. didx \in 1..Len(dirty)
    BY DEF Found
  <2> QED BY <2>1, CurrentProperties DEF RibltInv, StateInv
<1>2. A \in SUBSET Symbols /\ B \in SUBSET Symbols /\ A \cap B = {}
  BY InCellProperties DEF RibltInv
<1>3. i \in Hit(s) <=> s \in A \cup B
  BY DEF Found, Hit, InCell
<1>4. cs[i].sum = A \cup B
  BY <1>1 DEF Holds
<1>5. CASE i \in Hit(s)
  <2>1. Taken(s, A, B, A1, B1, direction)
    BY <1>5 DEF Found, Hit, Taken, InCell
  <2> DEFINE c == cs[i]
  <2>2. p = Without(c, s, direction)
    BY <1>5 DEF PeeledCell, Without
  <2>3. c \in Cell /\ Holds(c, A, B)
    BY <1>1
  <2> HIDE DEF p, A, B, A1, B1, c
  <2>4. Holds(Without(c, s, direction), A1, B1) /\ IsWithout(Without(c, s, direction), c, s)
    BY <2>1, <2>3, <1>2, PeelOne
  <2> QED BY <2>2, <2>4, <1>3, <1>4 DEF IsWithout, p, A1, B1, c
<1>6. CASE i \notin Hit(s)
  <2>1. A1 = A /\ B1 = B
    BY <1>6 DEF Found, Hit, InCell
  <2>2. p = cs[i]
    BY <1>6 DEF PeeledCell
  <2>3. p.sum = cs[i].sum \ {s}
    BY <1>3, <1>4, <1>6, <2>2
  <2> HIDE DEF p, A, B, A1, B1
  <2> QED BY <1>1, <1>3, <1>4, <2>1, <2>2, <2>3 DEF p, A1, B1
<1> QED BY <1>5, <1>6

(* The coded symbols after s was peeled from them.                          *)
LEMMA PeeledCells ==
  ASSUME RibltInv, NEW s, NEW M, NEW S, NEW direction, Peels(s, M, S, direction)
  PROVE  /\ cs' \in Seq(Cell) /\ Len(cs') = Len(cs)
         /\ \A i \in 1..Len(cs) :
              /\ Holds(cs'[i], InCell(M, i - 1), InCell(S, i - 1))
              /\ cs'[i].sum = cs[i].sum \ {s}
              /\ cs'[i].dirty <=> i # dirty[didx] /\ (cs[i].dirty \/ i \in NewDirty(s, direction))
              /\ i \in Hit(s) <=> s \in cs[i].sum
<1> DEFINE p(i) == PeeledCell(s, direction, i)
           b(i) == i # dirty[didx] /\ (cs[i].dirty \/ i \in NewDirty(s, direction))
           e(i) == [p(i) EXCEPT !.dirty = i # dirty[didx] /\ (@ \/ i \in NewDirty(s, direction))]
<1>1. Found(s, M, S, direction) /\ cs' = [i \in 1..Len(cs) |-> e(i)] /\ Len(cs) \in Nat
  BY DEF Peels, RibltInv, StateInv
<1>2. ASSUME NEW i \in 1..Len(cs)
      PROVE  /\ e(i) \in Cell /\ Holds(e(i), InCell(M, i - 1), InCell(S, i - 1))
             /\ e(i).sum = cs[i].sum \ {s} /\ e(i).dirty = b(i)
             /\ i \in Hit(s) <=> s \in cs[i].sum
  <2>1. /\ p(i) \in Cell /\ p(i).dirty = cs[i].dirty /\ p(i).sum = cs[i].sum \ {s}
        /\ Holds(p(i), InCell(M, i - 1), InCell(S, i - 1))
        /\ i \in Hit(s) <=> s \in cs[i].sum
    BY <1>1, PeeledCellHolds
  <2>2. e(i) = [p(i) EXCEPT !.dirty = b(i)]
    BY <2>1 DEF Cell
  <2>3. b(i) \in BOOLEAN
    OBVIOUS
  <2> HIDE DEF p, e, b
  <2>4. e(i) \in Cell /\ e(i).sum = p(i).sum /\ e(i).count = p(i).count /\ e(i).dirty = b(i)
    BY <2>1, <2>2, <2>3 DEF Cell
  <2> QED BY <2>1, <2>4 DEF Holds
<1> HIDE DEF e
<1>3. cs' \in Seq(Cell) /\ Len(cs') = Len(cs) /\ \A i \in 1..Len(cs) : cs'[i] = e(i)
  BY <1>1, <1>2
<1> QED BY <1>2, <1>3

(* A step of the loop of TryDecode that finds s.                            *)
Decodes(s, M, S, direction) ==
  /\ Peels(s, M, S, direction)
  /\ IF direction = -1
     THEN remote' = AddWithMapping(remote, s, NextIndex(s, Len(cs) - 1)) /\ local' = local
     ELSE local' = AddWithMapping(local, s, NextIndex(s, Len(cs) - 1)) /\ remote' = remote
  /\ pending' = pending - 1
  /\ didx' = didx + 1
  /\ UNCHANGED <<input, encoder, window>>

LEMMA FoundProperties ==
  ASSUME RibltInv, NEW s, NEW M, NEW S, NEW direction, Found(s, M, S, direction)
  PROVE  /\ s \in Symbols /\ s \in Missing \cup Surplus /\ cs[dirty[didx]].sum = {s}
         /\ M \cup S = (Missing \cup Surplus) \ {s}
<1>1. Missing \cap Surplus = {}
  BY DEF Missing, Surplus
<1> QED BY <1>1 DEF Found, Current

LEMMA DecodeWindows ==
  ASSUME RibltInv, NEW s, NEW M, NEW S, NEW direction, Decodes(s, M, S, direction)
  PROVE  InputInv' /\ WindowsInv' /\ Missing' = M /\ Surplus' = S
<1> DEFINE n == Len(cs)
           R == IF direction = -1 THEN Remote \cup {s} ELSE Remote
           L == IF direction = -1 THEN Local ELSE Local \cup {s}
<1>1. /\ Found(s, M, S, direction) /\ Len(cs') = n
      /\ UNCHANGED <<mapping, sketched, offered, held, encoder, window>>
  BY PeeledCells DEF Decodes, Peels, input
<1>2. /\ encoder = IF sketched THEN NewWindow ELSE WindowOver(offered, n)
      /\ window = WindowOver(IF sketched THEN {} ELSE held, n)
      /\ remote = WindowOver(Remote, n) /\ local = WindowOver(Local, n)
  BY DEF RibltInv, WindowsInv
<1>3. \A T : AddWithMapping(WindowOver(T, n), s, NextIndex(s, n - 1)) = WindowOver(T \cup {s}, n)
  BY AddIsOver
<1>4. remote' = WindowOver(R, Len(cs')) /\ local' = WindowOver(L, Len(cs'))
  <2> HIDE DEF n
  <2> QED BY <1>1, <1>2, <1>3 DEF Decodes, n
<1>5. /\ encoder' = IF sketched THEN NewWindow ELSE WindowOver(offered', Len(cs'))
      /\ window' = WindowOver(IF sketched THEN {} ELSE held', Len(cs'))
  BY <1>1, <1>2
<1>6. WindowsInv' /\ Remote' = R /\ Local' = L
  <2> HIDE DEF R, L
  <2> QED BY <1>1, <1>4, <1>5, WindowsNext
<1>7. Missing' = M /\ Surplus' = S
  BY <1>1, <1>6 DEF Found, Missing, Surplus
<1>8. InputInv'
  BY <1>1, <1>6 DEF InputInv, RibltInv, Found, Missing, Surplus
<1> QED BY <1>6, <1>7, <1>8

LEMMA DecodeCells ==
  ASSUME RibltInv, NEW s, NEW M, NEW S, NEW direction, Decodes(s, M, S, direction)
  PROVE  CellsInv' /\ PeeledInv'
<1>1. /\ Missing' = M /\ Surplus' = S /\ Len(cs') = Len(cs) /\ UNCHANGED <<mapping, offered, held>>
      /\ Found(s, M, S, direction)
  BY DecodeWindows, PeeledCells DEF Decodes, Peels, input
<1>2. CellsInv'
  <2> SUFFICES ASSUME NEW i \in 1..Len(cs) PROVE CellInv(i)'
    BY <1>1 DEF CellsInv
  <2>1. Holds(cs'[i], InCell(M, i - 1), InCell(S, i - 1))
    BY PeeledCells DEF Decodes
  <2>2. InCell(Missing, i - 1)' = InCell(M, i - 1) /\ InCell(Surplus, i - 1)' = InCell(S, i - 1)
    BY <1>1 DEF InCell
  <2>3. InCell(Missing \cup Surplus, i - 1)' = InCell(M, i - 1) \cup InCell(S, i - 1)
    BY <1>1 DEF InCell
  <2> QED BY <2>1, <2>2, <2>3 DEF CellInv, Holds
<1>3. PeeledInv'
  <2> SUFFICES ASSUME NEW U \in SUBSET Difference', Stopping(U)' PROVE U \subseteq (Missing \cup Surplus)'
    BY DEF PeeledInv
  <2>1. Stopping(U) /\ U \in SUBSET Difference
    BY <1>1 DEF Stopping, Difference
  <2>2. U \subseteq Missing \cup Surplus
    BY <2>1 DEF RibltInv, PeeledInv
  <2>3. s \notin U
    <3> SUFFICES ASSUME s \in U PROVE FALSE
      OBVIOUS
    <3> DEFINE i == dirty[didx]
    <3>1. i \in 1..Len(cs) /\ i - 1 \in 0..Len(cs) - 1 /\ Len(cs) \in Nat
      BY <1>1, CurrentProperties DEF Found
    <3>2. InCell(Missing \cup Surplus, i - 1) = {s}
      BY <1>1, <3>1, FoundProperties DEF RibltInv, CellsInv, CellInv
    <3>3. {x \in U : i - 1 \in mapping[x]} = {s}
      BY <2>2, <3>2 DEF InCell
    <3>4. Cardinality({s}) = 1
      BY FS_Singleton
    <3> QED BY <2>1, <3>1, <3>3, <3>4 DEF Stopping
  <2> QED BY <1>1, <2>2, <2>3, FoundProperties
<1> QED BY <1>2, <1>3

(* What peeling leaves of the marks.                                        *)
LEMMA DecodeMarks ==
  ASSUME RibltInv, NEW s, NEW M, NEW S, NEW direction, Decodes(s, M, S, direction),
         NEW i \in 1..Len(cs)
  PROVE  /\ i = dirty[didx] => cs'[i].sum = {} /\ ~cs'[i].dirty /\ cs[i].dirty
         /\ ~cs'[i].dirty => Cardinality(cs'[i].sum) # 1
         /\ i # dirty[didx] => (cs'[i].dirty \/ cs'[i].sum # {} <=> cs[i].dirty \/ cs[i].sum # {})
<1>1. Found(s, M, S, direction) /\ Peels(s, M, S, direction) /\ didx \in 1..Len(dirty)
  BY DEF Decodes, Peels, Found
<1>2. /\ Holds(cs'[i], InCell(M, i - 1), InCell(S, i - 1))
      /\ cs'[i].sum = cs[i].sum \ {s}
      /\ cs'[i].dirty <=> i # dirty[didx] /\ (cs[i].dirty \/ i \in NewDirty(s, direction))
      /\ i \in Hit(s) <=> s \in cs[i].sum
  BY <1>1, PeeledCells
<1>3. cs[dirty[didx]].sum = {s} /\ cs[dirty[didx]].dirty
  BY <1>1, FoundProperties, CurrentProperties
<1>4. ~cs[i].dirty => Cardinality(cs[i].sum) # 1
  BY DEF RibltInv, DirtyInv
<1>5. CASE i = dirty[didx]
  <2>1. cs'[i].sum = {}
    BY <1>2, <1>3, <1>5
  <2>2. ~cs'[i].dirty
    BY <1>2, <1>5
  <2>3. cs[i].dirty
    BY <1>3, <1>5
  <2>4. Cardinality(cs'[i].sum) # 1
    <3>1. Cardinality({}) = 0
      BY FS_EmptySet
    <3> QED BY <2>1, <3>1
  <2> QED BY <1>5, <2>1, <2>2, <2>3, <2>4, Zenon
<1>6. CASE i # dirty[didx]
  <2>1. cs'[i].dirty <=> cs[i].dirty \/ i \in NewDirty(s, direction)
    BY <1>2, <1>6
  <2>2. ASSUME ~cs'[i].dirty PROVE Cardinality(cs'[i].sum) # 1
    <3>1. ~cs[i].dirty /\ i \notin NewDirty(s, direction)
      BY <2>1, <2>2
    <3>2. CASE i \notin Hit(s)
      BY <3>1, <3>2, <1>2, <1>4
    <3>3. CASE i \in Hit(s)
      <4>1. ~InRange(PeeledCell(s, direction, i))
        BY <3>1, <3>3 DEF NewDirty
      <4> DEFINE p == PeeledCell(s, direction, i)
                 A == InCell(M, i - 1)
                 B == InCell(S, i - 1)
      <4>2. Holds(p, A, B) /\ p.sum = cs'[i].sum
        BY <1>1, <1>2, PeeledCellHolds
      <4>3. A \in SUBSET Symbols /\ B \in SUBSET Symbols /\ A \cap B = {}
        BY <1>1 DEF Found, InCell, Missing, Surplus, RibltInv, InputInv
      <4> HIDE DEF p, A, B
      <4>4. Cardinality(p.sum) = 1 => InRange(p)
        BY <4>2, <4>3, HoldsProperties
      <4> QED BY <4>1, <4>2, <4>4 DEF p
    <3> QED BY <3>2, <3>3
  <2>3. cs'[i].dirty \/ cs'[i].sum # {} <=> cs[i].dirty \/ cs[i].sum # {}
    <3>1. Cardinality({s}) = 1
      BY FS_Singleton
    <3>2. i \in NewDirty(s, direction) => cs[i].sum # {}
      BY <1>2 DEF NewDirty
    <3>3. cs'[i].sum = {} => cs[i].sum = {} \/ cs[i].sum = {s}
      BY <1>2
    <3>4. ~cs[i].dirty => cs[i].sum # {s}
      BY <3>1, <1>4
    <3> QED BY <2>1, <3>2, <3>3, <3>4, <1>2
  <2> QED BY <1>6, <2>2, <2>3
<1> QED BY <1>5, <1>6

LEMMA DecodeDirty ==
  ASSUME RibltInv, NEW s, NEW M, NEW S, NEW direction, Decodes(s, M, S, direction)
  PROVE  DirtyInv' /\ dirty' \in Seq(1..Len(cs)) /\ didx' \in 0..Len(dirty') + 1 /\ didx' # 0
<1> DEFINE n == Len(cs)
           m == Len(dirty)
           q == dirty'
           D == NewDirty(s, direction)
           at == dirty[didx]
<1>1. /\ Peels(s, M, S, direction) /\ didx' = didx + 1 /\ didx \in 1..m
      /\ n \in Nat /\ m \in Nat /\ dirty \in Seq(1..n) /\ at \in 1..n /\ cs[at].dirty
      /\ Len(cs') = n
  BY CurrentProperties, PeeledCells DEF RibltInv, StateInv, Decodes, Peels, Found
<1>2. Appended(q, dirty, D, n)
  <2>1. dirty \in Seq(Nat)
    BY <1>1
  <2>2. q = AppendIndices(dirty, D, n)
    BY <1>1 DEF Peels
  <2> HIDE DEF q, D, n
  <2> QED BY <2>1, <2>2, <1>1, AppendIndicesProperties
<1>3. /\ q \in Seq(Nat) /\ Len(q) \in Nat /\ m <= Len(q)
      /\ \A k \in 1..m : q[k] = dirty[k]
      /\ \A k \in m + 1..Len(q) : q[k] \in D /\ q[k] \in 1..n
      /\ \A i \in 1..n : i \in D => \E k \in m + 1..Len(q) : q[k] = i
      /\ \A k, l \in m + 1..Len(q) : q[k] = q[l] => k = l
  <2> HIDE DEF q, D, n
  <2> QED BY <1>2 DEF Appended
<1>4. /\ \A k, l \in didx..m : dirty[k] = dirty[l] => k = l
      /\ \A i \in 1..n : cs[i].dirty <=> \E k \in didx..m : dirty[k] = i
      /\ \A k \in didx..m : dirty[k] \in 1..n
  <2>1. Waiting = didx..m /\ didx..m \subseteq 1..m
    BY <1>1 DEF Waiting
  <2>2. DirtyInv
    BY DEF RibltInv
  <2> HIDE DEF m
  <2>3. \A k \in didx..m : dirty[k] \in 1..n
    BY <2>1, <1>1 DEF m
  <2> QED BY <2>1, <2>2, <2>3 DEF DirtyInv
<1>5. \A i \in D : ~cs[i].dirty
  BY DEF NewDirty
<1>6. \A i \in 1..n : /\ cs'[i].dirty <=> i # at /\ (cs[i].dirty \/ i \in D)
                      /\ ~cs'[i].dirty => Cardinality(cs'[i].sum) # 1
  BY <1>1, PeeledCells, DecodeMarks
<1>7. Waiting' = didx + 1..Len(q) /\ ~Idle' /\ didx' \in 0..Len(q) + 1
  BY <1>1, <1>3 DEF Waiting, Idle
<1> HIDE DEF n, m, q, D, at
<1>8. \A k \in didx + 1..Len(q) : k \in didx + 1..m \/ k \in m + 1..Len(q)
  BY <1>1, <1>3
<1>9. /\ \A k \in didx + 1..m : k \in didx..m /\ k # didx /\ q[k] = dirty[k] /\ k \in didx + 1..Len(q)
      /\ \A k \in m + 1..Len(q) : k \in didx + 1..Len(q)
      /\ didx \in didx..m
  BY <1>1, <1>3
<1>10. \A k \in didx + 1..m : q[k] \in 1..n /\ cs[q[k]].dirty /\ q[k] # at
  BY <1>4, <1>9 DEF at
<1>11. \A k, l \in didx + 1..Len(q) : q[k] = q[l] => k = l
  <2> SUFFICES ASSUME NEW k \in didx + 1..Len(q), NEW l \in didx + 1..Len(q), q[k] = q[l] PROVE k = l
    OBVIOUS
  <2>1. CASE k \in didx + 1..m /\ l \in didx + 1..m
    BY <2>1, <1>4, <1>9
  <2>2. CASE k \in m + 1..Len(q) /\ l \in m + 1..Len(q)
    BY <2>2, <1>3
  <2>3. CASE k \in didx + 1..m /\ l \in m + 1..Len(q)
    BY <2>3, <1>3, <1>5, <1>10
  <2>4. CASE k \in m + 1..Len(q) /\ l \in didx + 1..m
    BY <2>4, <1>3, <1>5, <1>10
  <2> QED BY <2>1, <2>2, <2>3, <2>4, <1>8
<1>12. ASSUME NEW i \in 1..n
       PROVE  cs'[i].dirty <=> \E k \in didx + 1..Len(q) : q[k] = i
  <2>1. ASSUME cs[i].dirty, i # at PROVE \E k \in didx + 1..Len(q) : q[k] = i
    <3>1. PICK k \in didx..m : dirty[k] = i
      BY <2>1, <1>4
    <3>2. k \in didx + 1..m
      BY <2>1, <3>1, <1>1 DEF at
    <3> QED BY <3>1, <3>2, <1>9
  <2>2. ASSUME i \in D PROVE \E k \in didx + 1..Len(q) : q[k] = i
    BY <2>2, <1>3, <1>9
  <2>3. ASSUME NEW k \in didx + 1..Len(q), q[k] = i PROVE i # at /\ (cs[i].dirty \/ i \in D)
    <3>1. CASE k \in didx + 1..m
      BY <2>3, <3>1, <1>10
    <3>2. CASE k \in m + 1..Len(q)
      <4>1. i \in D
        BY <2>3, <3>2, <1>3
      <4> QED BY <4>1, <1>1, <1>5
    <3> QED BY <3>1, <3>2, <1>8
  <2> QED BY <2>1, <2>2, <2>3, <1>6
<1>13. DirtyInv'
  BY <1>1, <1>6, <1>7, <1>11, <1>12 DEF DirtyInv, n, q
<1>14. q \in Seq(1..n)
  <2>1. \A k \in 1..Len(q) : q[k] \in 1..n
    <3> TAKE k \in 1..Len(q)
    <3>1. CASE k \in 1..m
      <4>1. dirty[k] \in 1..n
        BY <3>1, <1>1 DEF m, n
      <4> QED BY <4>1, <3>1, <1>3
    <3>2. CASE k \in m + 1..Len(q)
      BY <3>2, <1>3
    <3> QED BY <3>1, <3>2, <1>1, <1>3
  <2>2. \A t \in Seq(Nat) : \A T : (\A k \in 1..Len(t) : t[k] \in T) => t \in Seq(T)
    OBVIOUS
  <2> QED BY <2>1, <2>2, <1>3
<1> QED BY <1>1, <1>7, <1>13, <1>14 DEF n, q

LEMMA DecodeStepKeeps ==
  ASSUME RibltInv, NEW s, NEW M, NEW S, NEW direction, Decodes(s, M, S, direction)
  PROVE  RibltInv'
<1> DEFINE n == Len(cs)
           at == dirty[didx]
           P == {i \in 1..n : cs[i].dirty \/ cs[i].sum # {}}
           Q == {i \in 1..n : cs'[i].dirty \/ cs'[i].sum # {}}
<1>1. /\ Peels(s, M, S, direction) /\ pending' = pending - 1 /\ didx \in 1..Len(dirty)
      /\ at \in 1..n /\ n \in Nat /\ cs' \in Seq(Cell) /\ Len(cs') = n /\ cs # <<>>
  BY CurrentProperties, PeeledCells DEF Decodes, Peels, Found
<1>2. PendingInv'
  <2>1. \A i \in 1..n : /\ i = at => i \notin Q /\ i \in P
                        /\ i # at => (i \in Q <=> i \in P)
    BY DecodeMarks
  <2>2. P \in SUBSET (1..n) /\ Q \in SUBSET (1..n)
    OBVIOUS
  <2>3. pending = Cardinality(P)
    BY DEF RibltInv, PendingInv
  <2>4. IsFiniteSet(P)
    <3>1. IsFiniteSet(1..n)
      BY <1>1, FS_Interval
    <3> HIDE DEF P, n
    <3> QED BY <3>1, <2>2, FS_Subset
  <2> HIDE DEF P, Q, n, at
  <2>5. at \in P /\ Q = P \ {at}
    BY <2>1, <2>2, <1>1
  <2>6. pending' = Cardinality(Q)
    BY <2>3, <2>4, <2>5, <1>1, FS_RemoveElement
  <2> QED BY <2>6, <1>1 DEF PendingInv, Q, n
<1>3. StateInv'
  <2>1. n <= MaxCells /\ pending \in Int
    BY DEF RibltInv, StateInv
  <2>2. cs' # <<>>
    BY <1>1
  <2> QED BY <1>1, <2>1, <2>2, DecodeDirty DEF StateInv
<1> QED BY <1>2, <1>3, DecodeWindows, DecodeCells, DecodeDirty DEF RibltInv

-----------------------------------------------------------------------------
(* The other steps.                                                         *)
LEMMA SameContents ==
  ASSUME RibltInv, UNCHANGED <<input, encoder, window, remote, local>>, Len(cs') = Len(cs),
         \A i \in 1..Len(cs) : cs'[i].sum = cs[i].sum /\ cs'[i].count = cs[i].count
  PROVE  /\ InputInv' /\ WindowsInv' /\ CellsInv' /\ PeeledInv'
         /\ Missing' = Missing /\ Surplus' = Surplus /\ Remote' = Remote /\ Local' = Local
<1>1. /\ UNCHANGED <<mapping, sketched, offered, held>> /\ Remote' = Remote /\ Local' = Local
      /\ Missing' = Missing /\ Surplus' = Surplus /\ Difference' = Difference
  BY DEF input, Remote, Local, Missing, Surplus, Difference
<1>2. InputInv'
  BY <1>1 DEF InputInv, RibltInv
<1>3. WindowsInv'
  <2>1. /\ encoder = IF sketched THEN NewWindow ELSE WindowOver(offered, Len(cs))
        /\ window = WindowOver(IF sketched THEN {} ELSE held, Len(cs))
        /\ remote = WindowOver(Remote, Len(cs)) /\ local = WindowOver(Local, Len(cs))
    BY DEF RibltInv, WindowsInv
  <2>2. /\ encoder' = IF sketched THEN NewWindow ELSE WindowOver(offered', Len(cs'))
        /\ window' = WindowOver(IF sketched THEN {} ELSE held', Len(cs'))
        /\ remote' = WindowOver(Remote, Len(cs')) /\ local' = WindowOver(Local, Len(cs'))
    BY <1>1, <2>1
  <2> QED BY <1>1, <2>2, WindowsNext
<1>4. CellsInv'
  <2> SUFFICES ASSUME NEW i \in 1..Len(cs) PROVE CellInv(i)'
    BY DEF CellsInv
  <2>1. CellInv(i)
    BY DEF RibltInv, CellsInv
  <2>2. /\ InCell(Missing, i - 1)' = InCell(Missing, i - 1)
        /\ InCell(Surplus, i - 1)' = InCell(Surplus, i - 1)
        /\ InCell(Missing \cup Surplus, i - 1)' = InCell(Missing \cup Surplus, i - 1)
    BY <1>1 DEF InCell
  <2> QED BY <2>1, <2>2 DEF CellInv
<1>5. PeeledInv'
  <2> SUFFICES ASSUME NEW U \in SUBSET Difference', Stopping(U)' PROVE U \subseteq (Missing \cup Surplus)'
    BY DEF PeeledInv
  <2>1. Stopping(U)
    BY <1>1 DEF Stopping
  <2> QED BY <2>1, <1>1 DEF RibltInv, PeeledInv
<1> QED BY <1>1, <1>2, <1>3, <1>4, <1>5

LEMMA SkipStep ==
  ASSUME RibltInv, DecodeStep, DropEmpty \/ DropImpure
  PROVE  RibltInv'
<1> DEFINE n == Len(cs)
           m == Len(dirty)
           at == dirty[didx]
           P == {i \in 1..n : cs[i].dirty \/ cs[i].sum # {}}
           Q == {i \in 1..n : cs'[i].dirty \/ cs'[i].sum # {}}
<1>1. /\ cs' = [cs EXCEPT ![at].dirty = FALSE] /\ UNCHANGED <<dirty, remote, local>>
      /\ didx' = didx + 1 /\ didx \in 1..m /\ UNCHANGED <<input, encoder, window>>
  BY DEF DropEmpty, DropImpure, Skip, DecodeStep
<1>2. /\ cs \in Seq(Cell) /\ dirty \in Seq(1..n) /\ n \in Nat /\ m \in Nat
      /\ at \in 1..n /\ cs[at].dirty /\ cs # <<>> /\ pending \in Int
      /\ Holds(Current, InCell(Missing, at - 1), InCell(Surplus, at - 1))
  BY <1>1, CurrentProperties DEF RibltInv, StateInv, Current
<1>3. /\ cs' \in Seq(Cell) /\ Len(cs') = n
      /\ \A i \in 1..n : /\ cs'[i].sum = cs[i].sum /\ cs'[i].count = cs[i].count
                         /\ cs'[i].dirty <=> i # at /\ cs[i].dirty
  <2> DEFINE c == [cs[at] EXCEPT !.dirty = FALSE]
  <2>1. cs[at] \in Cell
    BY <1>2
  <2>2. c \in Cell /\ c.sum = cs[at].sum /\ c.count = cs[at].count /\ c.dirty = FALSE
    BY <2>1 DEF Cell
  <2>3. cs' = [cs EXCEPT ![at] = c]
    BY <1>1, <1>2
  <2> HIDE DEF c, at
  <2> QED BY <1>2, <2>2, <2>3
<1>4. /\ IsEmpty(Current) <=> Current.sum = {}
      /\ Cardinality(Current.sum) = 1 => Current.count \in {1, -1}
  <2> DEFINE A == InCell(Missing, at - 1)
             B == InCell(Surplus, at - 1)
  <2>1. A \in SUBSET Symbols /\ B \in SUBSET Symbols /\ A \cap B = {} /\ Holds(Current, A, B)
    BY <1>2, InCellProperties DEF RibltInv
  <2> HIDE DEF A, B
  <2>2. /\ IsEmpty(Current) <=> Current.sum = {}
        /\ \A x : Current.sum = {x} => (x \in A /\ Current.count = 1) \/ (x \in B /\ Current.count = -1)
        /\ IsFiniteSet(Current.sum)
    BY <2>1, HoldsProperties
  <2>3. Cardinality(Current.sum) = 1 => \E x : Current.sum = {x}
    BY <2>2, FS_Singleton
  <2> QED BY <2>2, <2>3
<1>5. Cardinality(cs[at].sum) # 1
  <2>1. CASE DropEmpty
    <3>1. cs[at].sum = {}
      BY <2>1, <1>4 DEF DropEmpty, Current
    <3>2. Cardinality({}) = 0
      BY FS_EmptySet
    <3> QED BY <3>1, <3>2
  <2>2. CASE DropImpure
    BY <2>2, <1>4 DEF DropImpure, IsPure, Current
  <2> QED BY <2>1, <2>2
<1>6. /\ InputInv' /\ WindowsInv' /\ CellsInv' /\ PeeledInv'
      /\ Missing' = Missing /\ Surplus' = Surplus /\ Remote' = Remote /\ Local' = Local
  BY <1>1, <1>3, SameContents
<1>7. StateInv'
  <2>1. n <= MaxCells /\ pending' \in Int /\ didx' \in 0..m + 1 /\ cs' # <<>>
    BY <1>1, <1>2, <1>3 DEF RibltInv, StateInv, DropEmpty, DropImpure
  <2> QED BY <1>1, <1>2, <1>3, <2>1 DEF StateInv
<1>8. PendingInv'
  <2>1. /\ \A i \in 1..n : i # at => (i \in Q <=> i \in P)
        /\ at \in P /\ (at \in Q <=> ~IsEmpty(Current))
    BY <1>2, <1>3, <1>4 DEF Current
  <2>2. P \in SUBSET (1..n) /\ Q \in SUBSET (1..n)
    OBVIOUS
  <2>3. pending = Cardinality(P)
    BY DEF RibltInv, PendingInv
  <2>4. pending' = IF IsEmpty(Current) THEN pending - 1 ELSE pending
    BY DEF DropEmpty, DropImpure
  <2>5. IsFiniteSet(P)
    <3>1. IsFiniteSet(1..n)
      BY <1>2, FS_Interval
    <3> HIDE DEF P, n
    <3> QED BY <3>1, <2>2, FS_Subset
  <2> HIDE DEF P, Q, n, at
  <2>6. Q = IF IsEmpty(Current) THEN P \ {at} ELSE P
    <3>1. CASE IsEmpty(Current)
      <4>1. Q = P \ {at}
        BY <2>1, <2>2, <3>1
      <4> QED BY <3>1, <4>1
    <3>2. CASE ~IsEmpty(Current)
      <4>1. \A i \in 1..n : i \in Q <=> i \in P
        BY <2>1, <3>2
      <4>2. Q = P
        BY <2>2, <4>1
      <4> QED BY <3>2, <4>2
    <3> QED BY <3>1, <3>2
  <2>7. pending' = Cardinality(Q)
    BY <2>1, <2>3, <2>4, <2>5, <2>6, FS_RemoveElement
  <2> QED BY <2>7, <1>3 DEF PendingInv, Q, n
<1>9. DirtyInv'
  <2>1. /\ \A k, l \in didx..m : dirty[k] = dirty[l] => k = l
        /\ \A i \in 1..n : cs[i].dirty <=> \E k \in didx..m : dirty[k] = i
        /\ \A i \in 1..n : ~cs[i].dirty => Cardinality(cs[i].sum) # 1
    <3>1. Waiting = didx..m
      BY <1>1 DEF Waiting
    <3>2. DirtyInv
      BY DEF RibltInv
    <3> QED BY <3>1, <3>2 DEF DirtyInv
  <2>2. Waiting' = didx + 1..m /\ ~Idle'
    BY <1>1 DEF Waiting, Idle
  <2>3. \A k \in didx..m : k = didx \/ k \in didx + 1..m
    BY <1>1
  <2>4. didx + 1..m \subseteq didx..m /\ didx \in didx..m /\ didx \notin didx + 1..m
    BY <1>1, <1>2
  <2>5. \A i \in 1..n : ~cs'[i].dirty => Cardinality(cs'[i].sum) # 1
    BY <2>1, <1>3, <1>5
  <2> HIDE DEF n, m
  <2>6. \A i \in 1..n : cs'[i].dirty <=> \E k \in didx + 1..m : dirty[k] = i
    BY <2>1, <2>3, <2>4, <1>3
  <2>7. \A k, l \in didx + 1..m : dirty[k] = dirty[l] => k = l
    BY <2>1, <2>4
  <2> QED BY <2>2, <2>5, <2>6, <2>7, <1>1, <1>3 DEF DirtyInv, n
<1> QED BY <1>6, <1>7, <1>8, <1>9 DEF RibltInv

(* Before the first coded symbol.                                           *)
BeforeFirst ==
  /\ InputInv /\ WindowsInv /\ Remote = {} /\ Local = {}
  /\ cs = <<>> /\ dirty = <<>> /\ pending = 0 /\ didx = 0

LEMMA BeforeFirstInv == BeforeFirst => RibltInv
<1> SUFFICES ASSUME BeforeFirst PROVE RibltInv
  OBVIOUS
<1>1. Len(cs) = 0 /\ Len(dirty) = 0 /\ 1..Len(cs) = {} /\ 1..Len(dirty) = {} /\ MaxCells \in Nat
  BY Constants DEF BeforeFirst
<1>2. StateInv
  BY <1>1 DEF BeforeFirst, StateInv
<1>3. CellsInv
  BY <1>1 DEF CellsInv
<1>4. DirtyInv
  BY <1>1 DEF DirtyInv, Waiting, BeforeFirst
<1>5. PendingInv
  <2>1. {i \in 1..Len(cs) : cs[i].dirty \/ cs[i].sum # {}} = {}
    BY <1>1
  <2> QED BY <2>1, FS_EmptySet DEF PendingInv, BeforeFirst
<1>6. PeeledInv
  <2>1. Difference = Missing \cup Surplus
    BY DEF BeforeFirst, Difference, SymDiff, Missing, Surplus
  <2> QED BY <2>1 DEF PeeledInv
<1> QED BY <1>2, <1>3, <1>4, <1>5, <1>6 DEF RibltInv, BeforeFirst

LEMMA BeforeFirstNext == BeforeFirst' => RibltInv'
<1>1. BeforeFirst => RibltInv
  BY BeforeFirstInv
<1> QED BY <1>1, PTL

LEMMA StaysBeforeFirst ==
  ASSUME RibltInv, cs = <<>>
  PROVE  BeforeFirst
<1>1. Len(cs) = 0 /\ InputInv /\ WindowsInv /\ Remote = {} /\ Local = {} /\ didx = 0
  BY DEF RibltInv, StateInv
<1>2. dirty = <<>>
  BY <1>1 DEF RibltInv, StateInv
<1>3. {i \in 1..Len(cs) : cs[i].dirty \/ cs[i].sum # {}} = {}
  BY <1>1
<1>4. pending = 0
  BY <1>3, FS_EmptySet DEF RibltInv, PendingInv
<1> QED BY <1>1, <1>2, <1>4 DEF BeforeFirst

LEMMA FillStep ==
  ASSUME RibltInv, NEW s \in Symbols, Offer(s) \/ Hold(s)
  PROVE  RibltInv'
<1>1. cs = <<>> /\ cs' = <<>> /\ dirty' = dirty /\ pending' = pending /\ didx' = didx
      /\ UNCHANGED <<mapping, sketched, remote, local>>
  BY DEF Offer, Hold, decoder
<1>2. BeforeFirst
  BY <1>1, StaysBeforeFirst
<1>3. Len(cs) = 0 /\ Len(cs') = 0 /\ mapping \in Mappings
  BY <1>1, <1>2 DEF BeforeFirst, InputInv
<1>4. /\ encoder = IF sketched THEN NewWindow ELSE WindowOver(offered, 0)
      /\ window = WindowOver(IF sketched THEN {} ELSE held, 0)
      /\ remote = WindowOver({}, 0) /\ local = WindowOver({}, 0)
  BY <1>2, <1>3 DEF BeforeFirst, WindowsInv
<1>5. \A S : AddHashedSymbol(WindowOver(S, 0), s) = WindowOver(S \cup {s}, 0)
  BY <1>3, NextIndexFirst, AddIsOver DEF AddHashedSymbol
<1>6. /\ encoder' = IF sketched THEN NewWindow ELSE WindowOver(offered', 0)
      /\ window' = WindowOver(IF sketched THEN {} ELSE held', 0)
      /\ offered' \subseteq Symbols /\ held' \subseteq Symbols
  <2>1. offered \subseteq Symbols /\ held \subseteq Symbols
    BY <1>2 DEF BeforeFirst, InputInv
  <2>2. CASE Offer(s)
    BY <1>4, <1>5, <2>1, <2>2 DEF Offer, decoder
  <2>3. CASE Hold(s)
    BY <1>4, <1>5, <2>1, <2>3 DEF Hold
  <2> QED BY <2>2, <2>3
<1>7. WindowsInv' /\ Remote' = {} /\ Local' = {}
  BY <1>1, <1>3, <1>4, <1>6, WindowsNext
<1>8. InputInv'
  BY <1>1, <1>2, <1>6, <1>7 DEF InputInv, BeforeFirst
<1>9. BeforeFirst'
  BY <1>1, <1>2, <1>7, <1>8 DEF BeforeFirst
<1> QED BY <1>9, BeforeFirstNext

LEMMA ResetStep ==
  ASSUME RibltInv, Reset
  PROVE  RibltInv'
<1>1. /\ cs' = <<>> /\ dirty' = <<>> /\ pending' = 0 /\ didx' = 0 /\ offered' = {} /\ held' = {}
      /\ UNCHANGED <<mapping, sketched>> /\ encoder' = NewWindow /\ window' = NewWindow
      /\ remote' = NewWindow /\ local' = NewWindow /\ Len(cs') = 0
  BY DEF Reset, ResetWindows, Idle
<1>2. WindowsInv' /\ Remote' = {} /\ Local' = {}
  <2>1. /\ encoder' = IF sketched THEN NewWindow ELSE WindowOver(offered', Len(cs'))
        /\ window' = WindowOver(IF sketched THEN {} ELSE held', Len(cs'))
        /\ remote' = WindowOver({}, Len(cs')) /\ local' = WindowOver({}, Len(cs'))
    BY <1>1, NewWindowIsOver
  <2> QED BY <1>1, <2>1, WindowsNext
<1>3. InputInv'
  BY <1>1, <1>2 DEF InputInv, RibltInv
<1>4. BeforeFirst'
  BY <1>1, <1>2, <1>3 DEF BeforeFirst
<1> QED BY <1>4, BeforeFirstNext

LEMMA InitInv == Init => RibltInv
<1> SUFFICES ASSUME Init PROVE RibltInv
  OBVIOUS
<1>1. Len(cs) = 0 /\ Remote = {} /\ Local = {}
  BY NewWindowIsOver, WindowDomain DEF Init, Remote, Local
<1>2. InputInv /\ WindowsInv
  BY <1>1, NewWindowIsOver DEF Init, InputInv, WindowsInv
<1> QED BY <1>1, <1>2, BeforeFirstInv DEF Init, BeforeFirst

LEMMA TryDecodeStep ==
  ASSUME RibltInv, TryDecode
  PROVE  RibltInv'
<1>1. /\ didx = 0 /\ didx' = 1 /\ dirty # <<>>
      /\ UNCHANGED <<input, encoder, window, remote, local, cs, dirty, pending>>
  BY DEF TryDecode, Idle
<1>2. /\ InputInv' /\ WindowsInv' /\ CellsInv' /\ PeeledInv'
      /\ Remote' = Remote /\ Local' = Local
  BY <1>1, SameContents
<1>3. StateInv'
  <2>1. /\ cs \in Seq(Cell) /\ Len(cs) <= MaxCells /\ dirty \in Seq(1..Len(cs)) /\ pending \in Int
    BY DEF RibltInv, StateInv
  <2>2. Len(dirty) >= 1 /\ Len(dirty) \in Nat
    BY <1>1, <2>1
  <2>3. cs # <<>>
    <3>1. dirty[1] \in 1..Len(cs)
      BY <2>1, <2>2
    <3> QED BY <3>1
  <2> QED BY <1>1, <2>1, <2>2, <2>3 DEF StateInv
<1>4. DirtyInv'
  <2>1. Waiting' = Waiting /\ ~Idle'
    BY <1>1 DEF Waiting, Idle
  <2> QED BY <1>1, <2>1 DEF DirtyInv, RibltInv
<1>5. PendingInv'
  BY <1>1 DEF PendingInv, RibltInv
<1> QED BY <1>2, <1>3, <1>4, <1>5 DEF RibltInv

LEMMA ReturnStep ==
  ASSUME RibltInv, Return
  PROVE  RibltInv'
<1>1. /\ didx > Len(dirty) /\ didx' = 0 /\ dirty' = <<>>
      /\ UNCHANGED <<input, encoder, window, remote, local, cs, pending>>
  BY DEF Return
<1>2. /\ InputInv' /\ WindowsInv' /\ CellsInv' /\ PeeledInv'
      /\ Remote' = Remote /\ Local' = Local
  BY <1>1, SameContents
<1>3. /\ cs \in Seq(Cell) /\ Len(cs) <= MaxCells /\ dirty \in Seq(1..Len(cs)) /\ pending \in Int
      /\ didx \in 0..Len(dirty) + 1 /\ Len(dirty) \in Nat
      /\ cs = <<>> => Remote = {} /\ Local = {} /\ didx = 0
  BY DEF RibltInv, StateInv
<1>4. StateInv'
  BY <1>1, <1>2, <1>3 DEF StateInv
<1>5. DirtyInv'
  <2>1. Waiting = {}
    BY <1>1, <1>3 DEF Waiting
  <2>2. Waiting' = {}
    BY <1>1 DEF Waiting
  <2> QED BY <1>1, <2>1, <2>2 DEF DirtyInv, RibltInv
<1>6. PendingInv'
  BY <1>1 DEF PendingInv, RibltInv
<1> QED BY <1>2, <1>4, <1>5, <1>6 DEF RibltInv

LEMMA StutterStep ==
  ASSUME RibltInv, UNCHANGED vars
  PROVE  RibltInv'
<1>1. UNCHANGED <<input, encoder, window, remote, local, cs, dirty, pending, didx>>
  BY DEF vars, decoder
<1>2. /\ InputInv' /\ WindowsInv' /\ CellsInv' /\ PeeledInv'
      /\ Remote' = Remote /\ Local' = Local
  BY <1>1, SameContents
<1>3. StateInv' /\ DirtyInv' /\ PendingInv'
  BY <1>1, <1>2 DEF StateInv, DirtyInv, PendingInv, Waiting, Idle, RibltInv
<1> QED BY <1>2, <1>3 DEF RibltInv

LEMMA DecodeStepInv ==
  ASSUME RibltInv, DecodeStep
  PROVE  RibltInv'
<1>1. CASE DecodeSymbol
  <2>1. PICK s, M, S, direction :
           /\ Peels(s, M, S, direction)
           /\ IF direction = -1
              THEN remote' = AddWithMapping(remote, s, NextIndex(s, Len(cs) - 1)) /\ local' = local
              ELSE local' = AddWithMapping(local, s, NextIndex(s, Len(cs) - 1)) /\ remote' = remote
    BY <1>1, StepPeels
  <2>2. Decodes(s, M, S, direction)
    BY <1>1, <2>1 DEF Decodes, DecodeStep, DecodeSymbol
  <2> QED BY <2>2, DecodeStepKeeps
<1>2. CASE DropEmpty \/ DropImpure
  BY <1>2, SkipStep
<1> QED BY <1>1, <1>2 DEF DecodeStep

LEMMA NextInv == RibltInv /\ [Next]_vars => RibltInv'
<1> SUFFICES ASSUME RibltInv, [Next]_vars PROVE RibltInv'
  OBVIOUS
<1>1. CASE \E s \in Symbols : Offer(s) \/ Hold(s)
  BY <1>1, FillStep
<1>2. CASE ProduceNextCodedSymbol \/ AddCell
  BY <1>2, StepReceives, ReceiveStep
<1>3. CASE TryDecode
  BY <1>3, TryDecodeStep
<1>4. CASE DecodeStep
  BY <1>4, DecodeStepInv
<1>5. CASE Return
  BY <1>5, ReturnStep
<1>6. CASE Reset
  BY <1>6, ResetStep
<1>7. CASE UNCHANGED vars
  BY <1>7, StutterStep
<1> QED BY <1>1, <1>2, <1>3, <1>4, <1>5, <1>6, <1>7 DEF Next

LEMMA InvariantHolds == Spec => []RibltInv
BY InitInv, NextInv, PTL DEF Spec

-----------------------------------------------------------------------------
(* The results.                                                             *)
LEMMA CellsHold ==
  ASSUME RibltInv, NEW i \in 1..Len(cs)
  PROVE  /\ IsEmpty(cs[i]) <=> cs[i].sum = {}
         /\ cs[i].sum = InCell(Missing \cup Surplus, i - 1)
<1> DEFINE A == InCell(Missing, i - 1)
           B == InCell(Surplus, i - 1)
           c == cs[i]
<1>1. /\ A \in SUBSET Symbols /\ B \in SUBSET Symbols /\ A \cap B = {}
      /\ InCell(Missing \cup Surplus, i - 1) = A \cup B
  BY InCellProperties DEF RibltInv
<1>2. CellInv(i)
  BY DEF RibltInv, CellsInv
<1>3. Holds(c, A, B)
  BY <1>1, <1>2 DEF CellInv, Holds
<1>4. IsEmpty(c) <=> c.sum = {}
  <2> HIDE DEF A, B, c
  <2> QED BY <1>1, <1>3, HoldsProperties
<1> QED BY <1>2, <1>4 DEF CellInv

LEMMA RemainingIsUndecoded ==
  ASSUME RibltInv
  PROVE  Undecoded = Missing \cup Surplus /\ Undecoded \subseteq Difference
<1>1. Remote \subseteq offered \ held /\ Local \subseteq held \ offered
  BY DEF RibltInv, InputInv
<1> QED BY <1>1 DEF Undecoded, Difference, SymDiff, Missing, Surplus

(* Whenever a caller can ask, pending is the number of coded symbols that   *)
(* are not empty: the five paths on which AddCodedSymbol and TryDecode      *)
(* update it never count one twice or forget one.                           *)
THEOREM PendingCounts == Spec => []PendingExact
<1>1. RibltInv => PendingExact
  <2> SUFFICES ASSUME RibltInv, Idle PROVE pending = Cardinality({i \in 1..Len(cs) : ~IsEmpty(cs[i])})
    BY DEF PendingExact
  <2>1. \A i \in 1..Len(cs) : (cs[i].dirty => cs[i].sum # {}) /\ (IsEmpty(cs[i]) <=> cs[i].sum = {})
    BY CellsHold DEF RibltInv, DirtyInv
  <2>2. {i \in 1..Len(cs) : cs[i].dirty \/ cs[i].sum # {}} = {i \in 1..Len(cs) : ~IsEmpty(cs[i])}
    BY <2>1
  <2> QED BY <2>2 DEF RibltInv, PendingInv
<1> QED BY <1>1, InvariantHolds, PTL

(* When TryDecode returns, what it has not found is the largest set from    *)
(* which nothing can be peeled, whatever the order in which coded symbols   *)
(* came and were looked at: decoding after every coded symbol and decoding  *)
(* a whole sketch at once end alike.                                        *)
THEOREM PeelsToTheLargestStoppingSet == Spec => []PeelsAll
<1>1. RibltInv => PeelsAll
  <2> SUFFICES ASSUME RibltInv, Idle, dirty = <<>>
               PROVE  Undecoded = UNION {U \in SUBSET Difference : Stopping(U)}
    BY DEF PeelsAll
  <2>1. Undecoded = Missing \cup Surplus /\ Undecoded \in SUBSET Difference
    BY RemainingIsUndecoded
  <2>2. Len(cs) \in Nat
    BY DEF RibltInv, StateInv
  <2>3. \A i \in 1..Len(cs) : Cardinality(cs[i].sum) # 1
    <3>1. Waiting = {}
      BY DEF Waiting, Idle
    <3> QED BY <3>1 DEF RibltInv, DirtyInv
  <2>4. Stopping(Undecoded)
    <3> SUFFICES ASSUME NEW j \in 0..Len(cs) - 1
                 PROVE  Cardinality({s \in Undecoded : j \in mapping[s]}) # 1
      BY DEF Stopping
    <3>1. j + 1 \in 1..Len(cs) /\ (j + 1) - 1 = j
      BY <2>2
    <3>2. cs[j + 1].sum = {s \in Undecoded : j \in mapping[s]}
      BY <2>1, <3>1, CellsHold DEF InCell
    <3> QED BY <2>3, <3>1, <3>2
  <2>5. \A U \in SUBSET Difference : Stopping(U) => U \subseteq Undecoded
    BY <2>1 DEF RibltInv, PeeledInv
  <2> QED BY <2>1, <2>4, <2>5
<1> QED BY <1>1, InvariantHolds, PTL

-----------------------------------------------------------------------------
(* Riblt implements Reconcile.                                              *)
Done == Idle /\ cs # <<>> /\ Decoded

(* The first coded symbol holds every symbol, so that nothing is left when  *)
(* it is empty.                                                             *)
LEMMA DoneFindsAll == RibltInv /\ Done => Missing = {} /\ Surplus = {} /\ dirty = <<>>
<1> SUFFICES ASSUME RibltInv, Done PROVE Missing = {} /\ Surplus = {} /\ dirty = <<>>
  OBVIOUS
<1>1. Len(cs) \in Nat /\ 1 \in 1..Len(cs) /\ didx = 0 /\ pending = 0
  BY DEF RibltInv, StateInv, Done, Idle, Decoded
<1>2. \A i \in 1..Len(cs) : ~cs[i].dirty /\ cs[i].sum = {}
  <2> DEFINE P == {i \in 1..Len(cs) : cs[i].dirty \/ cs[i].sum # {}}
  <2>1. IsFiniteSet(P) /\ Cardinality(P) = 0
    <3>1. IsFiniteSet(1..Len(cs)) /\ P \in SUBSET (1..Len(cs))
      BY <1>1, FS_Interval
    <3>2. Cardinality(P) = 0
      BY <1>1 DEF RibltInv, PendingInv
    <3> HIDE DEF P
    <3> QED BY <3>1, <3>2, FS_Subset
  <2>2. P = {}
    <3> HIDE DEF P
    <3> QED BY <2>1, FS_EmptySet
  <2> QED BY <2>2
<1>3. InCell(Missing \cup Surplus, 0) = {}
  <2>1. \A i \in 1..Len(cs) : cs[i].sum = InCell(Missing \cup Surplus, i - 1)
    BY CellsHold
  <2>2. ASSUME NEW i \in 1..Len(cs), i = 1 PROVE InCell(Missing \cup Surplus, 0) = {}
    <3>1. i - 1 = 0
      BY <2>2
    <3> QED BY <2>1, <3>1, <1>2
  <2> QED BY <2>2, <1>1
<1>4. Missing \cup Surplus \subseteq Symbols /\ mapping \in Mappings
  BY DEF RibltInv, InputInv, Missing, Surplus
<1>5. \A s \in Missing \cup Surplus : 0 \in mapping[s]
  BY <1>4, MappingType
<1>6. dirty = <<>>
  <2>1. dirty \in Seq(1..Len(cs)) /\ Waiting = 1..Len(dirty)
    BY <1>1 DEF RibltInv, StateInv, Waiting
  <2>2. \A k \in 1..Len(dirty) : dirty[k] \in 1..Len(cs) /\ cs[dirty[k]].dirty
    BY <2>1 DEF RibltInv, DirtyInv
  <2>3. 1 \notin 1..Len(dirty)
    BY <2>2, <1>2
  <2> QED BY <2>1, <2>3
<1> QED BY <1>3, <1>5, <1>6 DEF InCell

NothingLeft == Missing = {} /\ Surplus = {}

LEMMA DoneFindsAllNext == RibltInv' /\ Done' => NothingLeft'
<1>1. RibltInv /\ Done => NothingLeft
  BY DoneFindsAll DEF NothingLeft
<1> QED BY <1>1, PTL

LEMMA ReconcileInit == Init => Reconciliation!Init
<1> SUFFICES ASSUME Init PROVE Reconciliation!Init
  OBVIOUS
<1>1. Remote = {} /\ Local = {}
  BY NewWindowIsOver, WindowDomain DEF Init, Remote, Local
<1> QED BY <1>1 DEF Init, Reconciliation!Init

(* A step that finds nothing and does not turn a yes into a no.             *)
LEMMA QuietStep ==
  ASSUME RibltInv, RibltInv', UNCHANGED <<offered, held>>, Remote' = Remote, Local' = Local,
         Done => Done'
  PROVE  [Reconciliation!Next]_(Reconciliation!vars)
<1>1. CASE Done'
  <2>1. Missing' = {} /\ Surplus' = {}
    BY <1>1, DoneFindsAllNext DEF NothingLeft
  <2>2. Missing = {} /\ Surplus = {}
    BY <2>1 DEF Missing, Surplus
  <2>3. Reconciliation!Finish
    BY <1>1, <2>2 DEF Reconciliation!Finish, Reconciliation!Missing, Reconciliation!Surplus,
                      Missing, Surplus, Done
  <2> QED BY <2>3 DEF Reconciliation!Next
<1>2. CASE ~Done'
  <2>1. Done' = Done
    BY <1>2 DEF Done
  <2> QED BY <2>1 DEF Reconciliation!vars, Done
<1> QED BY <1>1, <1>2

LEMMA FillRefines ==
  ASSUME RibltInv, NEW s \in Symbols, Offer(s) \/ Hold(s)
  PROVE  Reconciliation!Next
<1>1. cs = <<>> /\ cs' = <<>> /\ UNCHANGED <<remote, local>> /\ Remote = {} /\ Local = {}
  BY DEF Offer, Hold, decoder, RibltInv, StateInv
<1>2. Remote' = {} /\ Local' = {}
  BY <1>1 DEF Remote, Local
<1>3. Reconciliation!Fill(s)
  BY <1>1, <1>2 DEF Offer, Hold, Reconciliation!Fill
<1> QED BY <1>3 DEF Reconciliation!Next

LEMMA ReceiveRefines ==
  ASSUME RibltInv, RibltInv', NEW d, Received(d)
  PROVE  [Reconciliation!Next]_(Reconciliation!vars)
<1> DEFINE n == Len(cs)
<1>1. /\ n \in Nat /\ n < MaxCells /\ MaxCells \in Nat /\ n \in 0..MaxCells /\ didx' = 0
      /\ UNCHANGED <<offered, held>> /\ cs \in Seq(Cell)
  BY Constants DEF RibltInv, StateInv, Received, input
<1>2. Remote' = Remote /\ Local' = Local
  <2>1. remote' = Advance(remote) /\ local' = Advance(local)
    BY DEF Received, Insert
  <2> QED BY <2>1 DEF Advance, Remote, Local
<1>3. ASSUME Done PROVE Done'
  <2>1. Missing = {} /\ Surplus = {}
    BY <1>3, DoneFindsAll
  <2>2. d.sum = {} /\ d.count = 0
    <3>1. InCell(Missing, n) = {} /\ InCell(Surplus, n) = {}
      BY <2>1 DEF InCell
    <3>2. Holds(d, {}, {})
      BY <3>1 DEF Received
    <3>3. Cardinality({}) = 0
      BY FS_EmptySet
    <3> QED BY <3>2, <3>3 DEF Holds
  <2>3. pending' = pending
    BY <2>2 DEF Received, Insert, IsEmpty
  <2>4. cs' # <<>>
    <3> DEFINE e == [sum |-> d.sum, count |-> d.count, dirty |-> ~IsEmpty(d) /\ InRange(d)]
    <3>1. cs' = Append(cs, e)
      BY DEF Received, Insert
    <3> HIDE DEF e
    <3> QED BY <3>1, <1>1
  <2> QED BY <1>1, <1>3, <2>3, <2>4 DEF Done, Idle, Decoded
<1> QED BY <1>1, <1>2, <1>3, QuietStep

LEMMA DecodeRefines ==
  ASSUME RibltInv, RibltInv', DecodeStep
  PROVE  [Reconciliation!Next]_(Reconciliation!vars)
<1>1. didx \in 1..Len(dirty) /\ didx' = didx + 1 /\ UNCHANGED <<offered, held>> /\ ~Done /\ ~Done'
  BY DEF DecodeStep, input, Done, Idle
<1>2. CASE DecodeSymbol
  <2>1. PICK s, M, S, direction :
           /\ Peels(s, M, S, direction)
           /\ IF direction = -1
              THEN remote' = AddWithMapping(remote, s, NextIndex(s, Len(cs) - 1)) /\ local' = local
              ELSE local' = AddWithMapping(local, s, NextIndex(s, Len(cs) - 1)) /\ remote' = remote
    BY <1>2, StepPeels
  <2>2. Found(s, M, S, direction)
    BY <2>1 DEF Peels
  <2>3. \A w, x, i : DOMAIN AddWithMapping(w, x, i).next = DOMAIN w.next \cup {x}
                     \/ "next" \notin DOMAIN w
    BY DEF AddWithMapping
  <2>4. /\ remote = WindowOver(Remote, Len(cs)) /\ local = WindowOver(Local, Len(cs))
    BY DEF RibltInv, WindowsInv
  <2>5. "next" \in DOMAIN remote /\ "next" \in DOMAIN local
    BY <2>4 DEF WindowOver
  <2>6. CASE direction = -1
    <3>1. Remote' = Remote \cup {s} /\ Local' = Local
      BY <2>1, <2>3, <2>5, <2>6 DEF Remote, Local
    <3>2. Reconciliation!Find(s)
      BY <1>1, <2>2, <2>6, <3>1 DEF Found, Reconciliation!Find, Reconciliation!Missing, Missing, Done
    <3> QED BY <2>2, <3>2 DEF Reconciliation!Next, Found
  <2>7. CASE direction = 1
    <3>1. Local' = Local \cup {s} /\ Remote' = Remote
      BY <2>1, <2>3, <2>5, <2>7 DEF Remote, Local
    <3>2. Reconciliation!Find(s)
      BY <1>1, <2>2, <2>7, <3>1 DEF Found, Reconciliation!Find, Reconciliation!Surplus, Surplus, Done
    <3> QED BY <2>2, <3>2 DEF Reconciliation!Next, Found
  <2> QED BY <2>2, <2>6, <2>7 DEF Found
<1>3. CASE DropEmpty \/ DropImpure
  <2>1. Remote' = Remote /\ Local' = Local
    BY <1>3 DEF DropEmpty, DropImpure, Skip, Remote, Local
  <2> QED BY <1>1, <2>1, QuietStep
<1> QED BY <1>2, <1>3 DEF DecodeStep

LEMMA ReconcileNext ==
  ASSUME RibltInv, RibltInv', [Next]_vars
  PROVE  [Reconciliation!Next]_(Reconciliation!vars)
<1>1. CASE \E s \in Symbols : Offer(s) \/ Hold(s)
  BY <1>1, FillRefines
<1>2. CASE ProduceNextCodedSymbol \/ AddCell
  BY <1>2, StepReceives, ReceiveRefines
<1>3. CASE TryDecode
  <2>1. ~Done
    BY <1>3, DoneFindsAll DEF TryDecode
  <2>2. UNCHANGED <<offered, held>> /\ Remote' = Remote /\ Local' = Local
    BY <1>3 DEF TryDecode, input, Remote, Local
  <2> QED BY <2>1, <2>2, QuietStep
<1>4. CASE DecodeStep
  BY <1>4, DecodeRefines
<1>5. CASE Return
  <2>1. ~Done
    <3>1. Len(dirty) \in Nat /\ didx > Len(dirty) /\ didx \in Int
      BY <1>5 DEF RibltInv, StateInv, Return
    <3> QED BY <3>1 DEF Done, Idle
  <2>2. UNCHANGED <<offered, held>> /\ Remote' = Remote /\ Local' = Local
    BY <1>5 DEF Return, input, Remote, Local
  <2> QED BY <2>1, <2>2, QuietStep
<1>6. CASE Reset
  <2>1. Remote' = {} /\ Local' = {}
    BY <1>6, NewWindowIsOver, WindowDomain DEF Reset, ResetWindows, Remote, Local
  <2>2. Reconciliation!Restart
    BY <1>6, <2>1 DEF Reset, Reconciliation!Restart
  <2> QED BY <2>2 DEF Reconciliation!Next
<1>7. CASE UNCHANGED vars
  <2>1. UNCHANGED <<offered, held>> /\ Remote' = Remote /\ Local' = Local /\ Done' = Done
    BY <1>7 DEF vars, input, decoder, Remote, Local, Done, Idle, Decoded
  <2> QED BY <2>1, QuietStep
<1> QED BY <1>1, <1>2, <1>3, <1>4, <1>5, <1>6, <1>7 DEF Next

(* The decoder keeps the promise of reconciliation: Remote and Local hold   *)
(* only what differs, Decoded says yes only when they hold all of it, and   *)
(* no further coded symbol turns the yes into a no.                         *)
THEOREM ReconcileImplemented == Spec => ImplementsReconcile
<1>1. Init => Reconciliation!Init
  BY ReconcileInit
<1>2. RibltInv /\ RibltInv' /\ [Next]_vars => [Reconciliation!Next]_(Reconciliation!vars)
  BY ReconcileNext
<1> QED BY <1>1, <1>2, InvariantHolds, PTL DEF Spec, ImplementsReconcile, Reconciliation!Spec
=============================================================================
