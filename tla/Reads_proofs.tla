---------------------------- MODULE Reads_proofs ----------------------------
(***************************************************************************)
(* Proofs about Reads, for any number of clients, any finite set of keys,  *)
(* any page and chunk sizes, any blob, any range and any rate limit.       *)
(*                                                                         *)
(*   ClientInv   a listing holds everything up to its token that was there *)
(*               all the time, and nothing else that was not; a stream     *)
(*               stands where its chunks end                               *)
(*   LimiterInv  for every number of intervals back: what was admitted     *)
(*               since and what the bucket holds come to no more than its  *)
(*               capacity and a token for each of the intervals            *)
(***************************************************************************)
EXTENDS Reads, FiniteSetTheorems, SequenceTheorems, WellFoundedInduction, TLAPS

(* The least number of a set, from the well-founded order of Nat. *)
LEMMA Smallest ==
  ASSUME NEW T \in SUBSET Nat, T # {}
  PROVE  \E n \in T : \A m \in T : n <= m
<1>1. IsWellFoundedOn(OpToRel(<, Nat), Nat)
  BY NatLessThanWellFounded, Zenon
<1>2. PICK n \in T : \A m \in T : ~(<<m, n>> \in OpToRel(<, Nat))
  BY <1>1, WFMin, Zenon
<1>3. ASSUME NEW m \in T PROVE n <= m
  <2>1. <<m, n>> \in Nat \X Nat => ~(m < n)
    BY <1>2 DEF OpToRel
  <2> QED BY <2>1
<1> QED BY <1>3

(* Induction, with the property as the set of the numbers that have it. *)
LEMMA SetInduction ==
  ASSUME NEW T \in SUBSET Nat, 0 \in T, \A n \in T : n + 1 \in T
  PROVE  T = Nat
<1>1. SUFFICES ASSUME Nat \ T # {} PROVE FALSE
  OBVIOUS
<1>2. PICK n \in Nat \ T : \A m \in Nat \ T : n <= m
  BY <1>1, Smallest
<1>3. n - 1 \in T
  BY <1>2
<1> QED BY <1>2, <1>3

-----------------------------------------------------------------------------
(* Rows in their order *)

Ascending(s, n) == \A i, j \in 1..n : i < j => s[i] < s[j]
Sortable(S) == \E s \in [1..Cardinality(S) -> S] : Ascending(s, Cardinality(S))

(* The least element comes first. *)
LEMMA SortableStep ==
  ASSUME NEW S \in SUBSET Nat, IsFiniteSet(S), NEW n \in Nat, Cardinality(S) = n + 1,
         \A R \in SUBSET Nat : IsFiniteSet(R) /\ Cardinality(R) = n => Sortable(R)
  PROVE  Sortable(S)
<1>1. S # {}
  BY FS_EmptySet
<1>2. PICK m \in S : \A k \in S : m <= k
  BY <1>1, Smallest
<1> DEFINE R == S \ {m}
<1>3. IsFiniteSet(R) /\ Cardinality(R) = n
  <2>1. IsFiniteSet(R) /\ Cardinality(R) = Cardinality(S) - 1
    BY FS_RemoveElement
  <2> QED BY <2>1
<1>4. PICK s \in [1..n -> R] : Ascending(s, n)
  BY <1>3 DEF Sortable
<1> DEFINE t == [i \in 1..(n + 1) |-> IF i = 1 THEN m ELSE s[i - 1]]
<1>5. \A i \in 1..(n + 1) : i # 1 => i - 1 \in 1..n
  OBVIOUS
<1>6. t[1] = m /\ \A i \in 1..(n + 1) : i # 1 => t[i] = s[i - 1] /\ t[i] \in R
  BY <1>5
<1>7. t \in [1..(n + 1) -> S]
  BY <1>5
<1> HIDE DEF t
<1>8. ASSUME NEW i \in 1..(n + 1), NEW j \in 1..(n + 1), i < j PROVE t[i] < t[j]
  <2>1. j # 1 /\ t[j] = s[j - 1] /\ t[j] \in R /\ j - 1 \in 1..n
    BY <1>5, <1>6, <1>8
  <2>2. CASE i = 1
    <3>1. t[j] \in Nat /\ m \in Nat /\ m <= t[j] /\ m # t[j]
      BY <1>2, <2>1
    <3> QED BY <1>6, <2>2, <3>1
  <2>3. CASE i # 1
    <3>1. t[i] = s[i - 1] /\ i - 1 \in 1..n /\ i - 1 < j - 1
      BY <1>5, <1>6, <1>8, <2>3
    <3> QED BY <1>4, <2>1, <3>1 DEF Ascending
  <2> QED BY <2>2, <2>3
<1> QED BY <1>7, <1>8 DEF Sortable, Ascending

LEMMA EverySetIsSortable ==
  ASSUME NEW S \in SUBSET Nat, IsFiniteSet(S)
  PROVE  Sortable(S)
<1> DEFINE N == {n \in Nat : \A R \in SUBSET Nat :
                               IsFiniteSet(R) /\ Cardinality(R) = n => Sortable(R)}
<1>1. 0 \in N
  <2> SUFFICES ASSUME NEW R \in SUBSET Nat, IsFiniteSet(R), Cardinality(R) = 0
               PROVE  Sortable(R)
    OBVIOUS
  <2>1. R = {}
    BY FS_EmptySet
  <2>2. [i \in 1..0 |-> 0] \in [1..0 -> R]
    OBVIOUS
  <2>3. Ascending([i \in 1..0 |-> 0], 0)
    BY DEF Ascending
  <2> QED BY <2>2, <2>3 DEF Sortable
<1>2. ASSUME NEW n \in N PROVE n + 1 \in N
  <2>1. \A R \in SUBSET Nat : IsFiniteSet(R) /\ Cardinality(R) = n + 1 => Sortable(R)
    BY SortableStep
  <2> QED BY <2>1
<1>3. N = Nat
  <2> N \in SUBSET Nat
    OBVIOUS
  <2> HIDE DEF N
  <2> QED BY <1>1, <1>2, SetInduction
<1>4. Cardinality(S) \in N
  BY <1>3, FS_CardinalityType
<1> QED BY <1>4

(* What ORDER BY gives: every row once, in growing order. *)
LEMMA InOrderFacts ==
  ASSUME NEW S \in SUBSET Nat, IsFiniteSet(S)
  PROVE  /\ Cardinality(S) \in Nat
         /\ InOrder(S) \in [1..Cardinality(S) -> S]
         /\ Ascending(InOrder(S), Cardinality(S))
         /\ \A k \in S : \E i \in 1..Cardinality(S) : InOrder(S)[i] = k
<1> DEFINE n == Cardinality(S)
<1> DEFINE s == InOrder(S)
<1>1. n \in Nat
  BY FS_CardinalityType
<1>2. \E t \in [1..n -> S] : \A i, j \in 1..n : i < j => t[i] < t[j]
  BY EverySetIsSortable DEF Sortable, Ascending
<1>3. s \in [1..n -> S] /\ \A i, j \in 1..n : i < j => s[i] < s[j]
  BY <1>2 DEF InOrder
<1> HIDE DEF s
<1>4. s \in Injection(1..n, S)
  <2>1. ASSUME NEW i \in 1..n, NEW j \in 1..n, s[i] = s[j] PROVE i = j
    <3>1. s[i] \in Nat /\ s[j] \in Nat
      BY <1>3
    <3> QED BY <1>3, <2>1, <3>1
  <2> QED BY <1>3, <2>1 DEF Injection, IsInjective
<1>5. IsFiniteSet(1..n) /\ Cardinality(1..n) = n
  <2> HIDE DEF n
  <2>1. 1 \in Int /\ n \in Int
    BY <1>1
  <2>2. IsFiniteSet(1..n) /\ Cardinality(1..n) = IF 1 > n THEN 0 ELSE n - 1 + 1
    BY <2>1, FS_Interval
  <2> QED BY <1>1, <2>2
<1>6. s \in Surjection(1..n, S)
  BY <1>4, <1>5, FS_Injection
<1> QED BY <1>1, <1>3, <1>6 DEF Surjection, Ascending, s

(* A function on 1..n is a sequence of length n. *)
LEMMA FunctionIsSequence ==
  ASSUME NEW S, NEW n \in Nat, NEW s \in [1..n -> S]
  PROVE  s \in Seq(S) /\ Len(s) = n
  OBVIOUS

-----------------------------------------------------------------------------
(* A page *)

(* What the statement finds, and a page of it. *)
Found(q) == {k \in keys \cap Matching(q) : k > q.token}
Below(F, k) == {j \in F : j < k}
Page(F, m) == {k \in F : Cardinality(Below(F, k)) < m}

(* A page is a beginning of what was found, and when it is not full it is *)
(* all of it.                                                             *)
LEMMA PageFacts ==
  ASSUME NEW F \in SUBSET Nat, IsFiniteSet(F), NEW m \in Nat \ {0}
  PROVE  /\ Page(F, m) \in SUBSET F /\ IsFiniteSet(Page(F, m))
         /\ \A k \in Page(F, m), j \in F : j < k => j \in Page(F, m)
         /\ Cardinality(Page(F, m)) = m \/ Page(F, m) = F
<1> DEFINE R == Page(F, m)
<1>1. R \in SUBSET F /\ \A k \in F : k \in R <=> Cardinality(Below(F, k)) < m
  BY DEF Page
<1> HIDE DEF R
<1>2. IsFiniteSet(R)
  BY <1>1, FS_Subset
<1>3. \A k \in F : IsFiniteSet(Below(F, k)) /\ Cardinality(Below(F, k)) \in Nat
  <2> TAKE k \in F
  <2>1. Below(F, k) \in SUBSET F
    BY DEF Below
  <2> QED BY <2>1, FS_Subset, FS_CardinalityType
<1>4. ASSUME NEW k \in R, NEW j \in F, j < k PROVE j \in R
  <2>1. Below(F, j) \in SUBSET Below(F, k)
    <3> SUFFICES ASSUME NEW i \in F, i < j PROVE i < k
      BY DEF Below
    <3>1. i \in Nat /\ j \in Nat /\ k \in Nat
      BY <1>1
    <3> QED BY <1>4, <3>1
  <2>2. Cardinality(Below(F, j)) <= Cardinality(Below(F, k))
    BY <1>1, <1>3, <2>1, FS_Subset
  <2> QED BY <1>1, <1>3, <2>2
<1>5. ASSUME R # F PROVE Cardinality(R) = m
  <2> DEFINE n == Cardinality(R)
  <2>1. PICK k \in F \ R : \A j \in F \ R : k <= j
    BY <1>1, <1>5, Smallest
  <2>2. n >= m
    <3>1. Below(F, k) \in SUBSET R
      <4> SUFFICES ASSUME NEW i \in F, i < k PROVE i \in R
        BY DEF Below
      <4>1. i \in Nat /\ k \in Nat
        BY <2>1
      <4> QED BY <2>1, <4>1
    <3>2. Cardinality(Below(F, k)) <= n
      BY <1>2, <3>1, FS_Subset
    <3>3. ~(Cardinality(Below(F, k)) < m)
      BY <1>1, <2>1
    <3>4. Cardinality(Below(F, k)) \in Nat /\ n \in Nat
      BY <1>2, <1>3, <2>1, FS_CardinalityType
    <3> HIDE DEF n
    <3> QED BY <3>2, <3>3, <3>4
  <2>3. n <= m
    <3> DEFINE s == InOrder(R)
    <3>1. /\ n \in Nat /\ s \in [1..n -> R] /\ Ascending(s, n)
          /\ \A x \in R : \E i \in 1..n : s[i] = x
      BY <1>1, <1>2, InOrderFacts
    <3> HIDE DEF s, n
    <3>2. n \in 1..n
      BY <2>2, <3>1
    <3> DEFINE last == s[n]
    <3>3. last \in R /\ last \in F
      BY <1>1, <3>1, <3>2
    <3>4. R \ {last} \in SUBSET Below(F, last)
      <4> SUFFICES ASSUME NEW x \in R, x # last PROVE x < last
        BY <1>1 DEF Below
      <4>1. PICK i \in 1..n : s[i] = x
        BY <3>1
      <4>2. i < n
        BY <3>1, <4>1
      <4> QED BY <3>1, <3>2, <4>1, <4>2 DEF Ascending
    <3> HIDE DEF last
    <3>5. Cardinality(R \ {last}) = n - 1
      BY <1>2, <3>3, FS_RemoveElement DEF n
    <3>6. Cardinality(R \ {last}) <= Cardinality(Below(F, last))
      BY <1>3, <3>3, <3>4, FS_Subset
    <3>7. Cardinality(Below(F, last)) < m /\ Cardinality(Below(F, last)) \in Nat
      BY <1>1, <1>3, <3>3
    <3> QED BY <3>1, <3>5, <3>6, <3>7
  <2>4. n \in Nat
    BY <1>2, FS_CardinalityType
  <2> HIDE DEF n
  <2>5. n = m
    BY <2>2, <2>3, <2>4
  <2> QED BY <2>5 DEF n
<1> QED BY <1>1, <1>2, <1>4, <1>5 DEF R

-----------------------------------------------------------------------------
(* The rate limiter: counting what was admitted *)

Counted(f, k) == UNION {{i} \X (1..f[i]) : i \in 0..k}

(* Ranges of integers are finite. *)
LEMMA IntervalFinite ==
  ASSUME NEW a \in Int, NEW b \in Int
  PROVE  IsFiniteSet(a..b)
  BY FS_Interval

(* Finitely many intervals have finitely many admissions. *)
LEMMA CountedFinite ==
  ASSUME NEW f, NEW k \in Nat, \A i \in 0..k : f[i] \in Nat
  PROVE  IsFiniteSet(Counted(f, k)) /\ Cardinality(Counted(f, k)) \in Nat
<1> DEFINE P == {{i} \X (1..f[i]) : i \in 0..k}
<1> DEFINE g == [i \in 0..k |-> {i} \X (1..f[i])]
<1>1. g \in Surjection(0..k, P)
  BY DEF Surjection
<1>2. IsFiniteSet(P)
  <2>1. IsFiniteSet(0..k)
    BY IntervalFinite
  <2> HIDE DEF g, P
  <2> QED BY <1>1, <2>1, FS_Surjection
<1>3. ASSUME NEW i \in 0..k PROVE IsFiniteSet({i} \X (1..f[i]))
  <2>1. IsFiniteSet({i})
    BY FS_Singleton
  <2>2. f[i] \in Int
    OBVIOUS
  <2>3. IsFiniteSet(1..f[i])
    BY <2>2, IntervalFinite
  <2> QED BY <2>1, <2>3, FS_Product
<1>4. \A T \in P : IsFiniteSet(T)
  BY <1>3
<1>5. IsFiniteSet(UNION P)
  <2> HIDE DEF P
  <2> QED BY <1>2, <1>4, FS_UNION
<1> QED BY <1>5, FS_CardinalityType DEF Counted

(* One more admission in the current interval. *)
LEMMA CountedOneMore ==
  ASSUME NEW w \in Nat, NEW f \in [0..w -> Nat], NEW k \in 0..w
  PROVE  Cardinality(Counted([f EXCEPT ![0] = @ + 1], k)) = Cardinality(Counted(f, k)) + 1
<1> DEFINE g == [f EXCEPT ![0] = @ + 1]
<1> DEFINE u == <<0, f[0] + 1>>
<1>1. /\ 0 \in 0..k /\ f[0] \in Nat /\ g[0] = f[0] + 1
      /\ \A i \in 0..k : i # 0 => g[i] = f[i]
  OBVIOUS
<1>2. 1..g[0] = (1..f[0]) \cup {f[0] + 1} /\ f[0] + 1 \notin 1..f[0]
  BY <1>1
<1>3. u \notin Counted(f, k)
  <2> SUFFICES ASSUME NEW i \in 0..k, u \in {i} \X (1..f[i]) PROVE FALSE
    BY DEF Counted
  <2> QED BY <1>2
<1>4. Counted(g, k) = Counted(f, k) \cup {u}
  <2>1. ASSUME NEW i \in 0..k, NEW z \in {i} \X (1..g[i])
        PROVE  z \in Counted(f, k) \cup {u}
    <3>1. CASE i = 0
      <4>1. z[2] \in (1..f[0]) \cup {f[0] + 1} /\ z = <<0, z[2]>>
        BY <1>2, <2>1, <3>1
      <4>2. z[2] \in 1..f[0] => z \in {0} \X (1..f[0])
        BY <4>1
      <4> QED BY <1>1, <4>1, <4>2 DEF Counted
    <3>2. CASE i # 0
      <4>1. z \in {i} \X (1..f[i])
        BY <1>1, <2>1, <3>2
      <4> QED BY <4>1 DEF Counted
    <3> QED BY <3>1, <3>2
  <2>2. ASSUME NEW i \in 0..k, NEW z \in {i} \X (1..f[i])
        PROVE  z \in Counted(g, k)
    <3>1. z \in {i} \X (1..g[i])
      <4>1. CASE i = 0
        BY <1>2, <4>1
      <4>2. CASE i # 0
        BY <1>1, <4>2
      <4> QED BY <4>1, <4>2
    <3> QED BY <3>1 DEF Counted
  <2>3. u \in Counted(g, k)
    <3>1. u \in {0} \X (1..g[0])
      BY <1>2
    <3> QED BY <1>1, <3>1 DEF Counted
  <2>4. Counted(g, k) \subseteq Counted(f, k) \cup {u}
    <3> HIDE DEF g, u
    <3> SUFFICES ASSUME NEW z \in Counted(g, k) PROVE z \in Counted(f, k) \cup {u}
      OBVIOUS
    <3>1. PICK i \in 0..k : z \in {i} \X (1..g[i])
      BY Zenon DEF Counted
    <3> QED BY <2>1, <3>1
  <2>5. Counted(f, k) \subseteq Counted(g, k)
    <3> HIDE DEF g, u
    <3> SUFFICES ASSUME NEW z \in Counted(f, k) PROVE z \in Counted(g, k)
      OBVIOUS
    <3>1. PICK i \in 0..k : z \in {i} \X (1..f[i])
      BY Zenon DEF Counted
    <3> QED BY <2>2, <3>1
  <2> HIDE DEF g, u
  <2> QED BY <2>3, <2>4, <2>5
<1>5. IsFiniteSet(Counted(f, k))
  BY CountedFinite
<1> HIDE DEF u, g
<1>6. Cardinality(Counted(g, k)) = Cardinality(Counted(f, k)) + 1
  BY <1>3, <1>4, <1>5, FS_AddElement
<1> QED BY <1>6 DEF g

(* When the ticker ticks, every interval is one older. *)
Older(f, w) == [i \in 0..w |-> IF i = 0 THEN 0 ELSE f[i - 1]]

LEMMA CountedOlder ==
  ASSUME NEW w \in Nat, NEW f \in [0..w -> Nat], NEW k \in 0..w
  PROVE  /\ k = 0 => Cardinality(Counted(Older(f, w), k)) = 0
         /\ k # 0 => /\ k - 1 \in 0..w
                     /\ Cardinality(Counted(Older(f, w), k)) = Cardinality(Counted(f, k - 1))
<1> DEFINE g == Older(f, w)
<1>1. ASSUME NEW i \in 0..w, i # 0 PROVE i - 1 \in 0..w /\ g[i] = f[i - 1]
  BY <1>1 DEF Older
<1>2. g[0] = 0
  BY DEF Older
<1> HIDE DEF g
<1>3. ASSUME k = 0 PROVE Cardinality(Counted(g, k)) = 0
  <2>1. Counted(g, k) = {}
    <3> SUFFICES ASSUME NEW z \in Counted(g, k) PROVE FALSE
      OBVIOUS
    <3>1. PICK i \in 0..k : z \in {i} \X (1..g[i])
      BY Zenon DEF Counted
    <3>2. i = 0
      BY <1>3
    <3> QED BY <1>2, <3>1, <3>2
  <2> QED BY <2>1, FS_EmptySet
<1>4. ASSUME k # 0 PROVE k - 1 \in 0..w
  BY <1>4
<1>5. ASSUME k # 0 PROVE Cardinality(Counted(g, k)) = Cardinality(Counted(f, k - 1))
  <2> DEFINE A == Counted(f, k - 1)
  <2> DEFINE B == Counted(g, k)
  <2> DEFINE h == [z \in A |-> <<z[1] + 1, z[2]>>]
  <2>1. ASSUME NEW z
        PROVE  z \in A <=> \E i \in 0..(k - 1) : z \in {i} \X (1..f[i])
    BY Zenon DEF Counted
  <2>2. ASSUME NEW z
        PROVE  z \in B <=> \E i \in 0..k : z \in {i} \X (1..g[i])
    BY Zenon DEF Counted
  <2> HIDE DEF A, B
  <2>3. ASSUME NEW z \in A
        PROVE  <<z[1] + 1, z[2]>> \in B /\ z[1] \in Int /\ z = <<z[1], z[2]>>
    <3>1. PICK i \in 0..(k - 1) : z \in {i} \X (1..f[i])
      BY <2>1
    <3>2. z[1] = i /\ z[2] \in 1..f[i] /\ z = <<z[1], z[2]>>
      BY <3>1
    <3>3. i + 1 \in 0..k /\ i + 1 \in 0..w /\ i + 1 # 0 /\ (i + 1) - 1 = i
      BY <1>5
    <3>4. g[i + 1] = f[i]
      BY <1>1, <3>3
    <3>5. <<i + 1, z[2]>> \in {i + 1} \X (1..g[i + 1])
      BY <3>2, <3>4
    <3> QED BY <2>2, <3>2, <3>3, <3>5
  <2>4. ASSUME NEW z \in B
        PROVE  \E y \in A : h[y] = z
    <3>1. PICK i \in 0..k : z \in {i} \X (1..g[i])
      BY <2>2
    <3>2. z[1] = i /\ z[2] \in 1..g[i] /\ z = <<z[1], z[2]>>
      BY <3>1
    <3>3. i # 0
      BY <1>2, <3>2
    <3>4. i - 1 \in 0..(k - 1) /\ g[i] = f[i - 1] /\ (i - 1) + 1 = i
      BY <1>1, <3>3
    <3>5. <<i - 1, z[2]>> \in {i - 1} \X (1..f[i - 1])
      BY <3>2, <3>4
    <3>6. <<i - 1, z[2]>> \in A
      BY <2>1, <3>4, <3>5
    <3>7. h[<<i - 1, z[2]>>] = z
      BY <3>2, <3>4, <3>6
    <3> QED BY <3>6, <3>7
  <2>5. h \in Bijection(A, B)
    <3>1. h \in [A -> B]
      BY <2>3
    <3>2. ASSUME NEW y \in A, NEW z \in A, h[y] = h[z] PROVE y = z
      <4>1. <<y[1] + 1, y[2]>> = <<z[1] + 1, z[2]>>
        BY <3>2
      <4>2. y[1] + 1 = z[1] + 1 /\ y[2] = z[2]
        BY <4>1
      <4>3. y[1] = z[1]
        <5>1. y[1] \in Int /\ z[1] \in Int
          BY <2>3
        <5> QED BY <4>2, <5>1
      <4>4. y = <<y[1], y[2]>> /\ z = <<z[1], z[2]>>
        BY <2>3
      <4> QED BY <4>2, <4>3, <4>4
    <3> HIDE DEF h
    <3> QED BY <2>4, <3>1, <3>2
        DEF Bijection, Injection, IsInjective, Surjection
  <2>6. IsFiniteSet(A)
    <3>1. k - 1 \in Nat /\ \A i \in 0..(k - 1) : f[i] \in Nat
      BY <1>5
    <3> QED BY <3>1, CountedFinite DEF A
  <2> HIDE DEF h
  <2>7. Cardinality(B) = Cardinality(A)
    BY <2>5, <2>6, FS_Bijection DEF ExistsBijection
  <2> QED BY <2>7 DEF A, B
<1> QED BY <1>3, <1>4, <1>5 DEF g

-----------------------------------------------------------------------------
(* The inductive invariant *)

(* What a client may be waiting for. *)
ListReq  == [op : {"list"}, prefix : {"none", "like"}, max : Nat \ {0}, token : Nat,
             got : Seq(Key)]
RangeReq == [op : {"range"}, offset : RangeArg, length : RangeArg, pos : Nat, left : Nat,
             got : Seq(Nat)]

TypeOK ==
  /\ keys \in SUBSET Key
  /\ tokens \in 0..Limit
  /\ recent \in [0..Window -> Nat]
  /\ pc \in [Client -> {"idle", "send", "handler", "listed", "read", "retrieved"}]
  /\ req \in [Client -> {Idle} \cup ListReq \cup RangeReq]
  /\ seen \in [Client -> SUBSET Key]
  /\ ever \in [Client -> SUBSET Key]

(* A client's request is the one of its RPC. *)
PhaseOK(label, q) ==
  /\ label = "idle" => q = Idle
  /\ label \in {"send", "handler", "listed"} => q \in ListReq
  /\ label \in {"read", "retrieved"} => q \in RangeReq

(* Until the last page, what was sent lies up to the token, and everything *)
(* there that stayed lies among it.                                        *)
ListOK(label, q, s, e, ks) ==
  q.op = "list" =>
    /\ s \subseteq ks /\ ks \subseteq e
    /\ Grows(q)
    /\ Sent(q) \subseteq e \cap Matching(q)
    /\ label # "listed" => \A k \in Sent(q) : k <= q.token
    /\ label # "listed" => s \cap Matching(q) \cap {k \in Key : k <= q.token} \subseteq Sent(q)
    /\ label = "listed" => s \cap Matching(q) \subseteq Sent(q)

(* The stream stands where the chunks sent so far end. *)
RangeOK(label, q) ==
  q.op = "range" =>
    LET r == RetrieveBlobRange(NormalizeRange(q.offset, q.length)) IN
    /\ q.pos = r.pos + Len(q.got)
    /\ q.left = r.left - Len(q.got)
    /\ \A i \in 1..Len(q.got) : q.got[i] = r.pos + i - 1
    /\ label = "retrieved" => q.left = 0

ClientOK(label, q, s, e, ks) ==
  PhaseOK(label, q) /\ ListOK(label, q, s, e, ks) /\ RangeOK(label, q)

ClientInv == \A c \in Client : ClientOK(pc[c], req[c], seen[c], ever[c], keys)

(* What was admitted since an interval began came out of the bucket: its  *)
(* capacity and a token for each interval since, less what it holds.      *)
LimiterInv == \A k \in 0..Window : tokens + Admitted(k) <= Limit + k

Inv == TypeOK /\ ClientInv /\ LimiterInv

-----------------------------------------------------------------------------
(* What a client has after one more page or chunk *)

Elements(g) == {g[i] : i \in DOMAIN g}
Growing(g) == \A i, j \in DOMAIN g : i < j => g[i] < g[j]

(* Growing sequences, all of the second above all of the first, grow on. *)
LEMMA Appended ==
  ASSUME NEW S \in SUBSET Nat, NEW g \in Seq(S), NEW s \in Seq(S)
  PROVE  /\ g \o s \in Seq(S)
         /\ Len(g \o s) = Len(g) + Len(s)
         /\ Elements(g \o s) = Elements(g) \cup Elements(s)
         /\ Growing(g) /\ Growing(s) /\ (\A a \in Elements(g), b \in Elements(s) : a < b)
              => Growing(g \o s)
<1> DEFINE t == g \o s
<1>1. /\ Len(g) \in Nat /\ DOMAIN g = 1..Len(g) /\ Len(s) \in Nat /\ DOMAIN s = 1..Len(s)
      /\ g \in [1..Len(g) -> S] /\ s \in [1..Len(s) -> S]
  BY LenProperties
<1>2. /\ t \in Seq(S)
      /\ Len(t) = Len(g) + Len(s)
      /\ \A i \in 1..(Len(g) + Len(s)) : t[i] = IF i <= Len(g) THEN g[i] ELSE s[i - Len(g)]
  BY ConcatProperties
<1>3. DOMAIN t = 1..(Len(g) + Len(s))
  BY <1>2, LenProperties
<1> HIDE DEF t
<1> DEFINE m == Len(g)
<1> DEFINE n == Len(s)
<1>4. m \in Nat /\ n \in Nat
  BY <1>1
<1>5. \A i \in 1..m : i \in DOMAIN t /\ t[i] = g[i]
  <2> TAKE i \in 1..m
  <2>1. i \in 1..(m + n) /\ i <= m
    BY <1>4
  <2> QED BY <1>2, <1>3, <2>1
<1>6. \A j \in 1..n : m + j \in DOMAIN t /\ t[m + j] = s[j]
  <2> TAKE j \in 1..n
  <2>1. m + j \in 1..(m + n) /\ ~(m + j <= m) /\ (m + j) - m = j
    BY <1>4
  <2> QED BY <1>2, <1>3, <2>1
<1>7. \A i \in DOMAIN t : i \in 1..m \/ \E j \in 1..n : i = m + j
  <2> SUFFICES ASSUME NEW i \in 1..(m + n), i \notin 1..m PROVE \E j \in 1..n : i = m + j
    BY <1>3
  <2>1. i - m \in 1..n /\ i = m + (i - m)
    BY <1>4
  <2> QED BY <2>1
<1> HIDE DEF m, n
<1>8. DOMAIN g = 1..m /\ DOMAIN s = 1..n
  BY <1>1 DEF m, n
<1>9. Elements(t) = Elements(g) \cup Elements(s)
  <2>1. ASSUME NEW i \in DOMAIN t PROVE t[i] \in Elements(g) \cup Elements(s)
    BY <1>5, <1>6, <1>7, <1>8 DEF Elements
  <2>2. ASSUME NEW i \in 1..m PROVE g[i] \in Elements(t)
    BY <1>5 DEF Elements
  <2>3. ASSUME NEW j \in 1..n PROVE s[j] \in Elements(t)
    BY <1>6 DEF Elements
  <2> QED BY <1>8, <2>1, <2>2, <2>3 DEF Elements
<1>10. ASSUME Growing(g), Growing(s), \A a \in Elements(g), b \in Elements(s) : a < b
       PROVE  Growing(t)
  <2> SUFFICES ASSUME NEW i \in DOMAIN t, NEW j \in DOMAIN t, i < j PROVE t[i] < t[j]
    BY DEF Growing
  <2>1. CASE i \in 1..m /\ j \in 1..m
    BY <1>5, <1>8, <1>10, <2>1 DEF Growing
  <2>2. CASE i \in 1..m /\ j \notin 1..m
    <3>1. PICK b \in 1..n : j = m + b
      BY <1>7, <2>2
    <3>2. t[i] \in Elements(g) /\ t[j] \in Elements(s)
      BY <1>5, <1>6, <1>8, <2>2, <3>1 DEF Elements
    <3> QED BY <1>10, <3>2
  <2>3. CASE i \notin 1..m
    <3>1. PICK a \in 1..n : i = m + a
      BY <1>7, <2>3
    <3>2. j \notin 1..m
      BY <1>4, <3>1 DEF t
    <3>3. PICK b \in 1..n : j = m + b
      BY <1>7, <3>2
    <3>4. a < b
      BY <1>4, <3>1, <3>3
    <3>5. s[a] < s[b]
      BY <1>8, <1>10, <3>4 DEF Growing
    <3> QED BY <1>6, <3>1, <3>3, <3>5
  <2> QED BY <2>1, <2>2, <2>3
<1> QED BY <1>2, <1>9, <1>10 DEF t

(* A page as a sequence: its keys, in order, the last one the largest. *)
LEMMA PageSequence ==
  ASSUME NEW R \in SUBSET Key, IsFiniteSet(R)
  PROVE  /\ InOrder(R) \in Seq(Key)
         /\ Len(InOrder(R)) = Cardinality(R)
         /\ Elements(InOrder(R)) = R
         /\ Growing(InOrder(R))
         /\ Len(InOrder(R)) # 0 => /\ InOrder(R)[Len(InOrder(R))] \in R
                                   /\ \A k \in R : k <= InOrder(R)[Len(InOrder(R))]
<1> DEFINE s == InOrder(R)
<1> DEFINE n == Cardinality(R)
<1>1. R \in SUBSET Nat
  BY KeyAssumption
<1>2. /\ n \in Nat /\ s \in [1..n -> R] /\ Ascending(s, n)
      /\ \A k \in R : \E i \in 1..n : s[i] = k
  BY <1>1, InOrderFacts
<1> HIDE DEF s, n
<1>3. s \in [1..n -> Key]
  BY <1>2
<1>4. s \in Seq(Key) /\ Len(s) = n
  BY <1>2, <1>3, FunctionIsSequence
<1>5. Elements(s) = R /\ Growing(s)
  BY <1>2 DEF Elements, Growing, Ascending
<1>6. ASSUME n # 0 PROVE s[n] \in R /\ \A k \in R : k <= s[n]
  <2>1. n \in 1..n
    BY <1>2, <1>6
  <2>2. s[n] \in R
    BY <1>2, <2>1
  <2>3. ASSUME NEW k \in R PROVE k <= s[n]
    <3>1. PICK i \in 1..n : s[i] = k
      BY <1>2
    <3>2. i < n => s[i] < s[n]
      BY <1>2, <2>1 DEF Ascending
    <3>3. s[n] \in Nat /\ k \in Nat
      BY <1>1, <2>2
    <3> QED BY <1>2, <3>1, <3>2, <3>3
  <2> QED BY <2>2, <2>3
<1> QED BY <1>4, <1>5, <1>6 DEF s, n

-----------------------------------------------------------------------------
(* The steps of a client *)

(* A step of one client leaves the others as they were. *)
LEMMA OneClient ==
  ASSUME NEW c \in Client, ClientInv, keys' = keys,
         \A d \in Client : d # c => /\ pc'[d] = pc[d] /\ req'[d] = req[d]
                                    /\ seen'[d] = seen[d] /\ ever'[d] = ever[d],
         ClientOK(pc[c], req[c], seen[c], ever[c], keys)'
  PROVE  ClientInv'
<1> SUFFICES ASSUME NEW d \in Client
             PROVE  ClientOK(pc[d], req[d], seen[d], ever[d], keys)'
  BY DEF ClientInv
<1>1. CASE d = c
  BY <1>1
<1>2. CASE d # c
  <2>1. ClientOK(pc[d], req[d], seen[d], ever[d], keys)
    BY DEF ClientInv
  <2>2. /\ pc'[d] = pc[d] /\ req'[d] = req[d]
        /\ seen'[d] = seen[d] /\ ever'[d] = ever[d]
    BY <1>2
  <2>3. ClientOK(pc[d], req[d], seen[d], ever[d], keys)' <=>
        ClientOK(pc'[d], req'[d], seen'[d], ever'[d], keys')
    BY DEF ClientOK, PhaseOK, ListOK, RangeOK, Matching, Sent, Grows, RetrieveBlobRange,
           NormalizeRange
  <2> QED BY <2>1, <2>2, <2>3
<1> QED BY <1>1, <1>2

(* The fields of a request, by its kind. *)
LEMMA RequestKinds ==
  /\ Idle.op = "none"
  /\ \A q \in ListReq : q.op = "list" /\ q.got \in Seq(Key) /\ q.token \in Nat
                        /\ q.max \in Nat \ {0} /\ q.prefix \in {"none", "like"}
  /\ \A q \in RangeReq : q.op = "range" /\ q.got \in Seq(Nat) /\ q.pos \in Nat
                         /\ q.left \in Nat /\ q.offset \in RangeArg /\ q.length \in RangeArg
  BY DEF Idle, ListReq, RangeReq

(* A client without an RPC is as it should be. *)
LEMMA IdleOK ==
  ASSUME NEW s, NEW e, NEW ks
  PROVE  ClientOK("idle", Idle, s, e, ks)
<1>1. Idle.op # "list" /\ Idle.op # "range"
  BY DEF Idle
<1> QED BY <1>1 DEF ClientOK, PhaseOK, ListOK, RangeOK

(* The limiter and a failed statement move an RPC and not what it was sent. *)
LEMMA AllowKeeps ==
  ASSUME TypeOK, ClientInv, NEW c \in Client, Allow(c)
  PROVE  ClientInv'
<1>1. /\ pc[c] = "send" /\ pc'[c] = "handler" /\ req' = req /\ seen' = seen /\ ever' = ever
      /\ keys' = keys /\ \A d \in Client : d # c => pc'[d] = pc[d]
  BY DEF Allow, Goto, TypeOK
<1>2. ClientOK("send", req[c], seen[c], ever[c], keys)
  BY <1>1 DEF ClientInv
<1>3. ClientOK("handler", req[c], seen[c], ever[c], keys)
  BY <1>2 DEF ClientOK, PhaseOK, ListOK, RangeOK
<1>4. ClientOK(pc[c], req[c], seen[c], ever[c], keys)'
  BY <1>1, <1>3
<1> QED BY <1>1, <1>4, OneClient

LEMMA ListFailKeeps ==
  ASSUME TypeOK, ClientInv, NEW c \in Client, ListFail(c)
  PROVE  ClientInv'
<1>1. /\ pc[c] = "handler" /\ pc'[c] = "send" /\ req' = req /\ seen' = seen /\ ever' = ever
      /\ keys' = keys /\ \A d \in Client : d # c => pc'[d] = pc[d]
  BY DEF ListFail, Goto, TypeOK
<1>2. ClientOK("handler", req[c], seen[c], ever[c], keys)
  BY <1>1 DEF ClientInv
<1>3. ClientOK("send", req[c], seen[c], ever[c], keys)
  BY <1>2 DEF ClientOK, PhaseOK, ListOK, RangeOK
<1>4. ClientOK(pc[c], req[c], seen[c], ever[c], keys)'
  BY <1>1, <1>3
<1> QED BY <1>1, <1>4, OneClient

(* A refusal and an answer end the RPC. *)
LEMMA EndKeeps ==
  ASSUME TypeOK, ClientInv, NEW c \in Client, Refuse(c) \/ Done(c)
  PROVE  ClientInv'
<1>1. /\ pc'[c] = "idle" /\ req'[c] = Idle /\ keys' = keys
      /\ \A d \in Client : d # c => /\ pc'[d] = pc[d] /\ req'[d] = req[d]
                                    /\ seen'[d] = seen[d] /\ ever'[d] = ever[d]
  BY DEF Refuse, Done, Goto, TypeOK
<1>2. ClientOK(pc[c], req[c], seen[c], ever[c], keys)'
  BY <1>1, IdleOK
<1> QED BY <1>1, <1>2, OneClient

(* A listing begins with nothing sent and everything ahead of its token. *)
LEMMA ListStartKeeps ==
  ASSUME TypeOK, ClientInv, NEW c \in Client, ListStart(c)
  PROVE  ClientInv'
<1>1. PICK n \in MaxKeysArg, p \in {"none", "like"} :
        req' = [req EXCEPT ![c] = [op |-> "list", prefix |-> p, max |-> MaxKeys(n),
                                   token |-> 0, got |-> <<>>]]
  BY DEF ListStart
<1> DEFINE q == [op |-> "list", prefix |-> p, max |-> MaxKeys(n), token |-> 0, got |-> <<>>]
<1>2. MaxKeys(n) \in Nat \ {0}
  BY MaxKeysAssumption DEF MaxKeys
<1>3. q \in ListReq /\ q.op = "list" /\ q.token = 0 /\ q.got = <<>>
  BY <1>2 DEF ListReq
<1>4. /\ pc'[c] = "send" /\ req'[c] = q /\ seen'[c] = keys /\ ever'[c] = keys /\ keys' = keys
      /\ \A d \in Client : d # c => /\ pc'[d] = pc[d] /\ req'[d] = req[d]
                                    /\ seen'[d] = seen[d] /\ ever'[d] = ever[d]
  BY <1>1 DEF ListStart, Goto, TypeOK
<1> HIDE DEF q
<1>5. Sent(q) = {} /\ Grows(q)
  BY <1>3 DEF Sent, Grows
<1>6. {k \in Key : k <= q.token} = {}
  <2>1. \A k \in Key : k \in Nat /\ k # 0
    BY KeyAssumption
  <2>2. \A k \in Key : ~(k <= q.token)
    BY <1>3, <2>1
  <2> QED BY <2>2
<1>7. ClientOK("send", q, keys, keys, keys)
  BY <1>3, <1>5, <1>6 DEF ClientOK, PhaseOK, ListOK, RangeOK
<1>8. ClientOK(pc[c], req[c], seen[c], ever[c], keys)'
  BY <1>4, <1>7
<1> QED BY <1>4, <1>8, OneClient

(* The page moves the token to its last key, or it is the last page. *)
LEMMA ListKeeps ==
  ASSUME TypeOK, ClientInv, NEW c \in Client, List(c)
  PROVE  ClientInv' /\ req'[c] \in ListReq
<1> DEFINE q == req[c]
<1> DEFINE F == Found(q)
<1> DEFINE R == Rows(q)
<1> DEFINE s == InOrder(R)
<1>1. pc[c] = "handler" /\ q \in ListReq /\ ListOK("handler", q, seen[c], ever[c], keys)
  BY DEF List, ClientInv, ClientOK, PhaseOK
<1>2. /\ q.op = "list" /\ q.got \in Seq(Key) /\ q.token \in Nat /\ q.max \in Nat \ {0}
      /\ Matching(q) \in SUBSET Key
  BY <1>1, KeyAssumption, RequestKinds DEF Matching
<1>3. F \in SUBSET Key /\ F \in SUBSET Nat /\ IsFiniteSet(F)
  <2>1. F \in SUBSET Key
    BY <1>2 DEF Found
  <2> HIDE DEF F
  <2> QED BY <2>1, KeyAssumption, FS_Subset
<1>4. R = Page(F, q.max)
  BY DEF Rows, Found, Page, Below
<1> HIDE DEF R, F, q
<1>5. /\ R \in SUBSET F /\ IsFiniteSet(R)
      /\ \A k \in R, j \in F : j < k => j \in R
      /\ Cardinality(R) = q.max \/ R = F
  BY <1>2, <1>3, <1>4, PageFacts
<1>6. /\ s \in Seq(Key) /\ Len(s) = Cardinality(R) /\ Elements(s) = R /\ Growing(s)
      /\ Len(s) # 0 => s[Len(s)] \in R /\ \A k \in R : k <= s[Len(s)]
  BY <1>3, <1>5, PageSequence
<1> HIDE DEF s
<1>7. /\ Grows(q) /\ Sent(q) \subseteq ever[c] \cap Matching(q)
      /\ \A k \in Sent(q) : k <= q.token
      /\ seen[c] \cap Matching(q) \cap {k \in Key : k <= q.token} \subseteq Sent(q)
      /\ seen[c] \subseteq keys /\ keys \subseteq ever[c]
  BY <1>1, <1>2 DEF ListOK
<1>8. \A k \in F : k > q.token /\ k \in keys /\ k \in Matching(q)
  BY DEF F, Found
<1>9. Elements(q.got) = Sent(q) /\ Growing(q.got)
  BY <1>7 DEF Elements, Growing, Sent, Grows
<1>10. Key \in SUBSET Nat
  BY KeyAssumption
<1>11. \A a \in Elements(q.got), b \in Elements(s) : a < b
  <2> TAKE a \in Elements(q.got), b \in Elements(s)
  <2>1. a \in Nat /\ b \in Nat /\ a <= q.token /\ b > q.token
    BY <1>2, <1>3, <1>5, <1>6, <1>7, <1>8, <1>9, <1>10
  <2> QED BY <1>2, <2>1
<1>12. /\ q.got \o s \in Seq(Key) /\ Elements(q.got \o s) = Sent(q) \cup R
       /\ Growing(q.got \o s)
  BY <1>2, <1>6, <1>9, <1>10, <1>11, Appended
<1>13. /\ \A d \in Client : d # c => pc'[d] = pc[d] /\ req'[d] = req[d]
       /\ keys' = keys /\ seen' = seen /\ ever' = ever
  BY DEF List, Goto, TypeOK
<1>14. ASSUME NEW p, p.op = "list", p.prefix = q.prefix, p.got = q.got \o s, p \in ListReq,
              p.token \in Nat, NEW label \in {"send", "listed"},
              label = "send" => /\ \A k \in Sent(q) \cup R : k <= p.token
                                /\ \A k \in F : k <= p.token => k \in R,
              label = "listed" => R = F
       PROVE  ClientOK(label, p, seen[c], ever[c], keys)
  <2>1. Matching(p) = Matching(q)
    BY <1>14 DEF Matching
  <2>2. Grows(p) /\ Sent(p) = Sent(q) \cup R
    BY <1>12, <1>14 DEF Elements, Growing, Sent, Grows
  <2>3. Sent(p) \subseteq ever[c] \cap Matching(p)
    BY <1>5, <1>7, <1>8, <2>1, <2>2
  <2>4. ASSUME NEW k \in seen[c] \cap Matching(q) PROVE k \in Sent(q) \cup F /\ k \in Nat
    <3>1. k \in Key /\ k \in Nat /\ k \in keys
      BY <1>2, <1>7, <1>10
    <3>2. CASE k <= q.token
      BY <1>7, <3>1, <3>2
    <3>3. CASE k > q.token
      BY <3>1, <3>3 DEF F, Found
    <3> QED BY <1>2, <3>1, <3>2, <3>3
  <2>5. CASE label = "send"
    <3>1. \A k \in Sent(p) : k <= p.token
      BY <1>14, <2>2, <2>5
    <3>2. seen[c] \cap Matching(p) \cap {k \in Key : k <= p.token} \subseteq Sent(p)
      BY <1>14, <2>1, <2>2, <2>4, <2>5
    <3> QED BY <1>7, <1>14, <2>2, <2>3, <2>5, <3>1, <3>2
            DEF ClientOK, PhaseOK, ListOK, RangeOK
  <2>6. CASE label = "listed"
    <3>1. seen[c] \cap Matching(p) \subseteq Sent(p)
      BY <1>14, <2>1, <2>2, <2>4, <2>6
    <3> QED BY <1>7, <1>14, <2>2, <2>3, <2>6, <3>1
            DEF ClientOK, PhaseOK, ListOK, RangeOK
  <2> QED BY <1>14, <2>5, <2>6
<1>15. CASE Len(s) = q.max
  <2> DEFINE p == [q EXCEPT !.got = @ \o s, !.token = s[Len(s)]]
  <2>1. req'[c] = p /\ pc'[c] = "send"
    BY <1>15 DEF List, Goto, TypeOK, s, R, q
  <2>2. Len(s) # 0 /\ s[Len(s)] \in R /\ s[Len(s)] \in Nat /\ \A k \in R : k <= s[Len(s)]
    BY <1>2, <1>3, <1>5, <1>6, <1>15
  <2>3. /\ p \in ListReq /\ p.op = "list" /\ p.prefix = q.prefix /\ p.got = q.got \o s
        /\ p.token = s[Len(s)]
    BY <1>1, <1>12, <2>2 DEF ListReq
  <2> HIDE DEF p
  <2>4. ASSUME NEW k \in Sent(q) \cup R PROVE k <= p.token
    <3>1. CASE k \in R
      BY <2>2, <2>3, <3>1
    <3>2. CASE k \in Sent(q)
      <4>1. k < s[Len(s)]
        BY <1>6, <1>9, <1>11, <2>2, <3>2
      <4>2. k \in Nat
        BY <1>2, <1>7, <1>10, <3>2
      <4> QED BY <2>2, <2>3, <4>1, <4>2
    <3> QED BY <3>1, <3>2
  <2>5. ASSUME NEW k \in F, k <= p.token PROVE k \in R
    <3>1. k \in Nat
      BY <1>3
    <3>2. k < s[Len(s)] \/ k = s[Len(s)]
      BY <2>2, <2>3, <2>5, <3>1
    <3> QED BY <1>5, <2>2, <3>2
  <2>6. ClientOK("send", p, seen[c], ever[c], keys)
    BY <1>14, <2>2, <2>3, <2>4, <2>5
  <2>7. ClientOK(pc[c], req[c], seen[c], ever[c], keys)'
    BY <1>13, <2>1, <2>6
  <2> QED BY <1>13, <2>1, <2>3, <2>7, OneClient
<1>16. CASE Len(s) # q.max
  <2> DEFINE p == [q EXCEPT !.got = @ \o s]
  <2>1. req'[c] = p /\ pc'[c] = "listed"
    BY <1>16 DEF List, Goto, TypeOK, s, R, q
  <2>2. R = F
    BY <1>5, <1>6, <1>16
  <2>3. /\ p \in ListReq /\ p.op = "list" /\ p.prefix = q.prefix /\ p.got = q.got \o s
        /\ p.token \in Nat
    BY <1>1, <1>12 DEF ListReq
  <2> HIDE DEF p
  <2>4. ClientOK("listed", p, seen[c], ever[c], keys)
    BY <1>14, <2>2, <2>3
  <2>5. ClientOK(pc[c], req[c], seen[c], ever[c], keys)'
    BY <1>13, <2>1, <2>4
  <2> QED BY <1>13, <2>1, <2>3, <2>5, OneClient
<1> QED BY <1>15, <1>16

-----------------------------------------------------------------------------
(* Streams of a range *)

(* The bytes a request asks for are the ones the reader is limited to. *)
LEMMA RangeFacts ==
  ASSUME NEW q, q.offset \in RangeArg, q.length \in RangeArg, NEW r,
         r = RetrieveBlobRange(NormalizeRange(q.offset, q.length))
  PROVE  /\ r.pos \in Nat /\ r.left \in Nat
         /\ Wanted(q) = r.pos..(r.pos + r.left - 1)
<1> DEFINE o == q.offset
<1> DEFINE l == q.length
<1> DEFINE start == IF o < 0 THEN 0 ELSE o
<1> DEFINE length == IF l <= 0 THEN MaxInt ELSE l
<1> DEFINE pos == IF start > Size THEN Size ELSE start
<1> DEFINE left == IF length > Size - pos THEN Size - pos ELSE length
<1>1. o \in Int /\ l \in Int /\ Size \in Nat /\ MaxInt \in Nat /\ Size <= MaxInt
  <2>1. Size \in Nat /\ MaxInt \in Nat /\ Size <= MaxInt
    BY RangeAssumption
  <2>2. \A a \in RangeArg : a \in -MaxInt..MaxInt
    BY RangeAssumption
  <2>3. \A a \in -MaxInt..MaxInt : a \in Int
    BY <2>1
  <2> QED BY <2>1, <2>2, <2>3
<1>2. r = [pos |-> pos, left |-> left]
  BY DEF RetrieveBlobRange, NormalizeRange
<1>3. r.pos = pos /\ r.left = left
  BY <1>2
<1>4. start \in Nat /\ (start = IF o > 0 THEN o ELSE 0) /\ length \in Nat
  BY <1>1
<1>5. Wanted(q) = {i \in 0..(Size - 1) : i >= start /\ (l > 0 => i - start < l)}
  BY <1>4 DEF Wanted
<1>6. l > 0 => length = l
  BY <1>1
<1>7. ~(l > 0) => length = MaxInt
  BY <1>1
<1> HIDE DEF start, length, o, l
<1>8. pos \in Nat /\ left \in Nat /\ (start <= Size => pos = start) /\ (start > Size => left = 0)
  BY <1>1, <1>4
<1>9. ASSUME NEW i \in Int
      PROVE  i \in Wanted(q) <=> i >= pos /\ i <= pos + left - 1
  <2>1. CASE start > Size
    <3>1. ~(i \in 0..(Size - 1) /\ i >= start)
      BY <1>1, <1>4, <2>1
    <3>2. ~(i >= pos /\ i <= pos + left - 1)
      BY <1>8, <2>1
    <3> QED BY <1>5, <3>1, <3>2
  <2>2. CASE start <= Size
    <3>1. pos = start
      BY <1>8, <2>2
    <3>2. CASE l > 0
      <4>1. left = IF l > Size - start THEN Size - start ELSE l
        BY <1>6, <3>1, <3>2
      <4>2. i \in Wanted(q) <=> i \in 0..(Size - 1) /\ i >= start /\ i - start < l
        BY <1>5, <3>2
      <4> HIDE DEF left, pos
      <4> QED BY <1>1, <1>4, <2>2, <3>1, <4>1, <4>2
    <3>3. CASE ~(l > 0)
      <4>1. left = Size - start
        BY <1>1, <1>4, <1>7, <2>2, <3>1, <3>3
      <4>2. i \in Wanted(q) <=> i \in 0..(Size - 1) /\ i >= start
        BY <1>5, <3>3
      <4> HIDE DEF left, pos
      <4> QED BY <1>1, <1>4, <2>2, <3>1, <4>1, <4>2
    <3> QED BY <3>2, <3>3
  <2> QED BY <1>1, <1>4, <2>1, <2>2
<1>10. Wanted(q) \in SUBSET Int
  BY DEF Wanted
<1> HIDE DEF pos, left
<1>11. Wanted(q) = pos..(pos + left - 1)
  <2> DEFINE end == pos + left - 1
  <2>1. pos \in Int /\ end \in Int
    BY <1>8
  <2> HIDE DEF end
  <2>2. \A i \in Int : i \in pos..end <=> i >= pos /\ i <= end
    BY <2>1
  <2>3. \A i \in Int : i \in Wanted(q) <=> i \in pos..end
    BY <1>9, <2>2 DEF end
  <2>4. pos..end \in SUBSET Int
    BY <2>1
  <2>5. Wanted(q) = pos..end
    BY <1>10, <2>3, <2>4, Zenon
  <2> QED BY <2>5 DEF end
<1> QED BY <1>3, <1>8, <1>11

(* A stream begins with nothing sent. *)
LEMMA RetrieveStartKeeps ==
  ASSUME TypeOK, ClientInv, NEW c \in Client, RetrieveStart(c)
  PROVE  ClientInv' /\ req'[c] \in RangeReq
<1>1. PICK o \in RangeArg, l \in RangeArg :
        LET r == RetrieveBlobRange(NormalizeRange(o, l)) IN
        req' = [req EXCEPT ![c] = [op |-> "range", offset |-> o, length |-> l,
                                   pos |-> r.pos, left |-> r.left, got |-> <<>>]]
  BY DEF RetrieveStart
<1> DEFINE r == RetrieveBlobRange(NormalizeRange(o, l))
<1> HIDE DEF r
<1> DEFINE q == [op |-> "range", offset |-> o, length |-> l, pos |-> r.pos, left |-> r.left,
                 got |-> <<>>]
<1>2. req'[c] = q /\ q.offset = o /\ q.length = l /\ q.op = "range" /\ q.got = <<>>
      /\ q.pos = r.pos /\ q.left = r.left
  BY <1>1 DEF TypeOK, r
<1>3. r.pos \in Nat /\ r.left \in Nat
  BY <1>2, RangeFacts DEF r
<1>4. q \in RangeReq
  BY <1>3 DEF RangeReq
<1>5. /\ pc'[c] = "read" /\ keys' = keys /\ seen' = seen /\ ever' = ever
      /\ \A d \in Client : d # c => pc'[d] = pc[d] /\ req'[d] = req[d]
  BY <1>1 DEF RetrieveStart, Goto, TypeOK
<1> HIDE DEF q
<1>6. RangeOK("read", q)
  <2>1. RetrieveBlobRange(NormalizeRange(q.offset, q.length)) = r
    BY <1>2 DEF r
  <2>2. Len(q.got) = 0 /\ 1..Len(q.got) = {}
    BY <1>2
  <2>3. q.pos = r.pos + Len(q.got) /\ q.left = r.left - Len(q.got)
    BY <1>2, <1>3, <2>2
  <2> QED BY <2>1, <2>2, <2>3 DEF RangeOK
<1>7. ClientOK("read", q, seen[c], ever[c], keys)
  BY <1>2, <1>4, <1>6 DEF ClientOK, PhaseOK, ListOK
<1>8. ClientOK(pc[c], req[c], seen[c], ever[c], keys)'
  BY <1>2, <1>5, <1>7
<1> QED BY <1>2, <1>4, <1>5, <1>8, OneClient

(* A chunk moves the stream by its length. *)
NextBytes(q, n) == [i \in 1..n |-> q.pos + i - 1]
AfterChunk(q, n) ==
  [q EXCEPT !.got = q.got \o NextBytes(q, n), !.pos = q.pos + n, !.left = q.left - n]

(* Bytes that go on where others end. *)
LEMMA Continued ==
  ASSUME NEW start \in Nat, NEW g \in Seq(Nat), NEW t \in Seq(Nat),
         \A i \in 1..Len(g) : g[i] = start + i - 1,
         \A i \in 1..Len(t) : t[i] = start + Len(g) + i - 1
  PROVE  /\ Len(g \o t) = Len(g) + Len(t)
         /\ \A i \in 1..Len(g \o t) : (g \o t)[i] = start + i - 1
<1>1. /\ Len(g \o t) = Len(g) + Len(t)
      /\ \A i \in 1..(Len(g) + Len(t)) :
           (g \o t)[i] = IF i <= Len(g) THEN g[i] ELSE t[i - Len(g)]
  BY ConcatProperties
<1>2. Len(g) \in Nat /\ Len(t) \in Nat
  BY LenProperties
<1>3. ASSUME NEW i \in 1..(Len(g) + Len(t)) PROVE (g \o t)[i] = start + i - 1
  <2>1. CASE i <= Len(g)
    BY <1>1, <1>2, <2>1
  <2>2. CASE ~(i <= Len(g))
    <3>1. i - Len(g) \in 1..Len(t)
      BY <1>2, <2>2
    <3>2. (g \o t)[i] = t[i - Len(g)]
      BY <1>1, <2>2
    <3> QED BY <1>2, <3>1, <3>2
  <2> QED BY <2>1, <2>2
<1> QED BY <1>1, <1>3

LEMMA ChunkFacts ==
  ASSUME NEW q \in RangeReq, RangeOK("read", q), NEW n \in 1..ChunkSize, n <= q.left
  PROVE  AfterChunk(q, n) \in RangeReq /\ RangeOK("read", AfterChunk(q, n))
<1> DEFINE p == AfterChunk(q, n)
<1> DEFINE chunk == NextBytes(q, n)
<1>1. /\ q.op = "range" /\ q.got \in Seq(Nat) /\ q.pos \in Nat /\ q.left \in Nat
      /\ q.offset \in RangeArg /\ q.length \in RangeArg
  BY RequestKinds
<1>2. n \in Nat /\ n > 0
  BY RangeAssumption
<1>3. chunk \in [1..n -> Nat] /\ \A i \in 1..n : chunk[i] = q.pos + i - 1
  <2>1. \A i \in 1..n : q.pos + i - 1 \in Nat
    BY <1>1, <1>2
  <2> QED BY <2>1, Zenon DEF NextBytes
<1> HIDE DEF chunk
<1>4. chunk \in Seq(Nat) /\ Len(chunk) = n
  BY <1>2, <1>3, FunctionIsSequence
<1>5. q.got \o chunk \in Seq(Nat)
  BY <1>1, <1>4, ConcatProperties
<1>6. q.pos + n \in Nat /\ q.left - n \in Nat
  BY <1>1, <1>2
<1>7. /\ p \in RangeReq /\ p.op = "range" /\ p.offset = q.offset /\ p.length = q.length
       /\ p.got = q.got \o chunk /\ p.pos = q.pos + n /\ p.left = q.left - n
  <2> DEFINE g == q.got \o chunk
  <2> DEFINE a == q.pos + n
  <2> DEFINE b == q.left - n
  <2>1. p = [q EXCEPT !.got = g, !.pos = a, !.left = b]
    BY DEF AfterChunk, chunk
  <2>2. g \in Seq(Nat) /\ a \in Nat /\ b \in Nat
    BY <1>5, <1>6
  <2> HIDE DEF g, a, b, p
  <2>3. /\ p \in RangeReq /\ p.op = "range" /\ p.offset = q.offset /\ p.length = q.length
        /\ p.got = g /\ p.pos = a /\ p.left = b
    BY <2>1, <2>2 DEF RangeReq
  <2> QED BY <2>3 DEF g, a, b
<1> HIDE DEF p
<1> DEFINE r == RetrieveBlobRange(NormalizeRange(q.offset, q.length))
<1>8. r.pos \in Nat /\ r.left \in Nat
  BY <1>1, RangeFacts
<1>9. RetrieveBlobRange(NormalizeRange(p.offset, p.length)) = r
  BY <1>7
<1>10. /\ q.pos = r.pos + Len(q.got) /\ q.left = r.left - Len(q.got)
       /\ \A i \in 1..Len(q.got) : q.got[i] = r.pos + i - 1
  BY <1>1 DEF RangeOK
<1> HIDE DEF r
<1>11. Len(q.got) \in Nat
  BY <1>1, LenProperties
<1>12. \A i \in 1..Len(chunk) : chunk[i] = r.pos + Len(q.got) + i - 1
  BY <1>3, <1>4, <1>10
<1>13. /\ Len(p.got) = Len(q.got) + n
       /\ \A i \in 1..Len(p.got) : p.got[i] = r.pos + i - 1
  <2> DEFINE g == q.got
  <2>1. g \in Seq(Nat) /\ \A i \in 1..Len(g) : g[i] = r.pos + i - 1
    BY <1>1, <1>10
  <2>2. \A i \in 1..Len(chunk) : chunk[i] = r.pos + Len(g) + i - 1
    BY <1>12
  <2> HIDE DEF g
  <2>3. /\ Len(g \o chunk) = Len(g) + Len(chunk)
        /\ \A i \in 1..Len(g \o chunk) : (g \o chunk)[i] = r.pos + i - 1
    BY <1>4, <1>8, <2>1, <2>2, Continued
  <2> QED BY <1>4, <1>7, <2>3 DEF g
<1>14. p.pos = r.pos + Len(p.got) /\ p.left = r.left - Len(p.got)
  BY <1>2, <1>7, <1>8, <1>10, <1>11, <1>13
<1> QED BY <1>7, <1>9, <1>13, <1>14 DEF RangeOK, p, r

(* SendChunk does this for a chunk of some length. *)
LEMMA SendChunkSends ==
  ASSUME TypeOK, ClientInv, NEW c \in Client, SendChunk(c)
  PROVE  \E n \in 1..ChunkSize : /\ n <= req[c].left
                                 /\ req'[c] = AfterChunk(req[c], n)
                                 /\ \A d \in Client : d # c => req'[d] = req[d]
<1>1. ASSUME NEW n \in 1..ChunkSize,
             req' = [req EXCEPT ![c].got = @ \o [i \in 1..n |-> req[c].pos + i - 1],
                                ![c].pos = @ + n, ![c].left = @ - n]
      PROVE  req'[c] = AfterChunk(req[c], n) /\ \A d \in Client : d # c => req'[d] = req[d]
  BY <1>1, Zenon DEF TypeOK, AfterChunk, NextBytes
<1> QED BY <1>1, Zenon DEF SendChunk

(* So the client's stream stays in step with its range. *)
LEMMA SendChunkKeeps ==
  ASSUME TypeOK, ClientInv, NEW c \in Client, SendChunk(c)
  PROVE  ClientInv' /\ req'[c] \in RangeReq
<1>1. PICK n \in 1..ChunkSize : /\ n <= req[c].left
                                /\ req'[c] = AfterChunk(req[c], n)
                                /\ \A d \in Client : d # c => req'[d] = req[d]
  BY SendChunkSends
<1>2. pc[c] = "read" /\ req[c] \in RangeReq /\ RangeOK("read", req[c])
  BY DEF SendChunk, ClientInv, ClientOK, PhaseOK
<1>3. req'[c] \in RangeReq /\ RangeOK("read", req'[c])
  BY <1>1, <1>2, ChunkFacts
<1>4. keys' = keys /\ pc' = pc /\ seen' = seen /\ ever' = ever
  BY DEF SendChunk
<1>5. ClientOK(pc[c], req[c], seen[c], ever[c], keys)'
  <2>1. req'[c].op # "list"
    BY <1>3, RequestKinds
  <2> QED BY <1>2, <1>3, <1>4, <2>1 DEF ClientOK, PhaseOK, ListOK
<1>6. ClientInv'
  BY <1>1, <1>4, <1>5, OneClient, Zenon
<1> QED BY <1>3, <1>6

(* The stream ends with nothing left. *)
LEMMA RetrieveEndKeeps ==
  ASSUME TypeOK, ClientInv, NEW c \in Client, RetrieveEnd(c)
  PROVE  ClientInv'
<1>1. /\ pc[c] = "read" /\ pc'[c] = "retrieved" /\ req[c].left = 0 /\ req' = req
      /\ seen' = seen /\ ever' = ever /\ keys' = keys
      /\ \A d \in Client : d # c => pc'[d] = pc[d]
  BY DEF RetrieveEnd, Goto, TypeOK
<1>2. ClientOK("read", req[c], seen[c], ever[c], keys)
  BY <1>1 DEF ClientInv
<1>3. req[c].op = "range"
  BY <1>2, RequestKinds DEF ClientOK, PhaseOK
<1>4. ClientOK("retrieved", req[c], seen[c], ever[c], keys)
  BY <1>1, <1>2, <1>3 DEF ClientOK, PhaseOK, ListOK, RangeOK
<1>5. ClientOK(pc[c], req[c], seen[c], ever[c], keys)'
  BY <1>1, <1>4
<1> QED BY <1>1, <1>5, OneClient

-----------------------------------------------------------------------------
(* The steps of the others *)

(* A listing keeps track of what happens to the keys meanwhile. *)
LEMMA ChangeKeeps ==
  ASSUME TypeOK, ClientInv, NEW k \in Key, Change(k)
  PROVE  ClientInv' /\ keys' \in SUBSET Key
         /\ seen' \in [Client -> SUBSET Key] /\ ever' \in [Client -> SUBSET Key]
<1> DEFINE next == IF k \in keys THEN keys \ {k} ELSE keys \cup {k}
<1>1. /\ keys' = next /\ next \in SUBSET Key /\ pc' = pc /\ req' = req
      /\ \A d \in Client : req[d].op = "list" => /\ seen'[d] = seen[d] \cap next
                                                 /\ ever'[d] = ever[d] \cup next
  BY DEF Change, TypeOK
<1>2. seen' \in [Client -> SUBSET Key] /\ ever' \in [Client -> SUBSET Key]
  <2>1. \A d \in Client : seen[d] \in SUBSET Key /\ ever[d] \in SUBSET Key
    BY DEF TypeOK
  <2>2. /\ seen' = [d \in Client |-> IF d \in {c \in Client : req[c].op = "list"}
                                       THEN seen[d] \cap next ELSE seen[d]]
        /\ ever' = [d \in Client |-> IF d \in {c \in Client : req[c].op = "list"}
                                       THEN ever[d] \cup next ELSE ever[d]]
    BY DEF Change
  <2> HIDE DEF next
  <2> QED BY <1>1, <2>1, <2>2
<1> HIDE DEF next
<1>3. ASSUME NEW d \in Client
      PROVE  ClientOK(pc[d], req[d], seen[d], ever[d], keys)'
  <2>1. ClientOK(pc[d], req[d], seen[d], ever[d], keys)
    BY DEF ClientInv
  <2> DEFINE q == req[d]
  <2>2. CASE q.op = "list"
    <3>1. /\ seen'[d] \subseteq keys' /\ keys' \subseteq ever'[d]
          /\ seen'[d] \subseteq seen[d] /\ ever[d] \subseteq ever'[d]
      BY <1>1, <2>2
    <3>2. ListOK(pc[d], q, seen[d], ever[d], keys)
      BY <2>1 DEF ClientOK
    <3> HIDE DEF q
    <3>3. ListOK(pc[d], q, seen'[d], ever'[d], keys')
      BY <2>2, <3>1, <3>2 DEF ListOK
    <3>4. ClientOK(pc[d], q, seen'[d], ever'[d], keys')
      BY <2>1, <3>3 DEF ClientOK, q
    <3> QED BY <1>1, <3>4 DEF q
  <2>3. CASE q.op # "list"
    <3> HIDE DEF q
    <3>1. ClientOK(pc[d], q, seen'[d], ever'[d], keys')
      BY <2>1, <2>3 DEF ClientOK, ListOK, q
    <3> QED BY <1>1, <3>1 DEF q
  <2> QED BY <2>2, <2>3
<1> QED BY <1>1, <1>2, <1>3 DEF ClientInv

(* The limiter's period has a whole number of intervals. *)
LEMMA WindowType == Window \in Nat
<1>1. Interval \in Nat /\ Interval > 0
  <2>1. Limit \in Nat /\ Limit > 0 /\ Period \in Nat /\ Limit <= Period
    BY LimiterAssumption
  <2> QED BY <2>1, SMT DEF Interval
<1> QED BY <1>1, LimiterAssumption, SMT DEF Window

(* Admissions are counted, and finitely many. *)
LEMMA AdmittedType ==
  ASSUME TypeOK, NEW k \in 0..Window
  PROVE  Admitted(k) = Cardinality(Counted(recent, k)) /\ Admitted(k) \in Nat
<1>1. k \in Nat /\ \A i \in 0..k : recent[i] \in Nat
  BY WindowType DEF TypeOK
<1> QED BY <1>1, CountedFinite DEF Admitted, Counted

(* An admission takes a token. *)
LEMMA AllowBalances ==
  ASSUME TypeOK, LimiterInv, NEW c \in Client, Allow(c)
  PROVE  LimiterInv' /\ tokens' \in 0..Limit /\ recent' \in [0..Window -> Nat]
<1>1. /\ tokens > 0 /\ tokens' = tokens - 1 /\ recent' = [recent EXCEPT ![0] = @ + 1]
      /\ tokens \in 0..Limit /\ recent \in [0..Window -> Nat]
  BY DEF Allow, TypeOK
<1>2. tokens' \in 0..Limit
  BY <1>1, LimiterAssumption
<1>3. recent' \in [0..Window -> Nat]
  <2>1. 0 \in 0..Window
    BY WindowType
  <2>2. recent[0] + 1 \in Nat
    BY <1>1, <2>1
  <2> QED BY <1>1, <2>2
<1>4. ASSUME NEW k \in 0..Window PROVE tokens' + Admitted(k)' <= Limit + k
  <2>1. Admitted(k) = Cardinality(Counted(recent, k)) /\ Admitted(k) \in Nat
    BY AdmittedType
  <2>2. Cardinality(Counted([recent EXCEPT ![0] = @ + 1], k))
          = Cardinality(Counted(recent, k)) + 1
    BY <1>1, WindowType, CountedOneMore
  <2>3. Admitted(k)' = Admitted(k) + 1
    BY <1>1, <2>1, <2>2 DEF Admitted, Counted
  <2>4. tokens + Admitted(k) <= Limit + k
    BY DEF LimiterInv
  <2>5. tokens \in Nat /\ Limit \in Nat /\ k \in Nat
    BY <1>1, LimiterAssumption, WindowType
  <2> QED BY <1>1, <2>1, <2>3, <2>4, <2>5
<1> QED BY <1>2, <1>3, <1>4 DEF LimiterInv

(* A tick adds at most one, and makes the intervals one older. *)
LEMMA TickBalances ==
  ASSUME TypeOK, LimiterInv, Tick
  PROVE  LimiterInv' /\ tokens' \in 0..Limit /\ recent' \in [0..Window -> Nat]
<1>1. /\ tokens \in Nat /\ tokens <= Limit /\ Limit \in Nat /\ recent \in [0..Window -> Nat]
      /\ recent' = [i \in 0..Window |-> IF i = 0 THEN 0 ELSE recent[i - 1]]
  BY LimiterAssumption DEF Tick, TypeOK
<1>2. tokens' \in Nat /\ tokens' <= Limit /\ tokens' <= tokens + 1
  BY <1>1 DEF Tick
<1>3. tokens' \in 0..Limit
  BY <1>1, <1>2
<1>4. recent' \in [0..Window -> Nat]
  <2>1. \A i \in 0..Window : i # 0 => i - 1 \in 0..Window
    BY WindowType
  <2> QED BY <1>1, <2>1
<1>5. ASSUME NEW k \in 0..Window PROVE tokens' + Admitted(k)' <= Limit + k
  <2>1. k \in Nat
    BY WindowType
  <2>2. Admitted(k)' = Cardinality(Counted(recent', k))
    BY DEF Admitted, Counted
  <2>3. /\ k = 0 => Cardinality(Counted(recent', k)) = 0
        /\ k # 0 => /\ k - 1 \in 0..Window
                    /\ Cardinality(Counted(recent', k)) = Cardinality(Counted(recent, k - 1))
    <3>1. recent' = Older(recent, Window)
      BY <1>1 DEF Older
    <3>2. recent \in [0..Window -> Nat]
      BY <1>1
    <3> QED BY <3>1, <3>2, WindowType, CountedOlder
  <2>4. CASE k = 0
    BY <1>1, <1>2, <2>2, <2>3, <2>4
  <2>5. CASE k # 0
    <3>1. k - 1 \in 0..Window
      BY <2>3, <2>5
    <3>2. Admitted(k)' = Admitted(k - 1) /\ Admitted(k - 1) \in Nat
      BY <2>2, <2>3, <2>5, <3>1, AdmittedType
    <3>3. tokens + Admitted(k - 1) <= Limit + (k - 1)
      BY <3>1 DEF LimiterInv
    <3> QED BY <1>1, <1>2, <2>1, <3>2, <3>3
  <2> QED BY <2>4, <2>5
<1> QED BY <1>3, <1>4, <1>5 DEF LimiterInv

-----------------------------------------------------------------------------
(* Invariance *)

(* Nothing is sent or admitted at first. *)
LEMMA InitInv == Init => Inv
<1> SUFFICES ASSUME Init PROVE Inv
  OBVIOUS
<1>1. TypeOK
  BY LimiterAssumption DEF Init, TypeOK
<1>2. ClientInv
  <2> SUFFICES ASSUME NEW c \in Client PROVE ClientOK(pc[c], req[c], seen[c], ever[c], keys)
    BY DEF ClientInv
  <2>1. pc[c] = "idle" /\ req[c] = Idle
    BY DEF Init
  <2> QED BY <2>1, IdleOK
<1>3. LimiterInv
  <2> SUFFICES ASSUME NEW k \in 0..Window PROVE tokens + Admitted(k) <= Limit + k
    BY DEF LimiterInv
  <2>1. k \in Nat /\ \A i \in 0..k : recent[i] = 0
    BY WindowType DEF Init
  <2>2. Counted(recent, k) = {}
    <3> SUFFICES ASSUME NEW z \in Counted(recent, k) PROVE FALSE
      OBVIOUS
    <3>1. PICK i \in 0..k : z \in {i} \X (1..recent[i])
      BY Zenon DEF Counted
    <3> QED BY <2>1, <3>1
  <2>3. Admitted(k) = 0
    BY <2>2, FS_EmptySet DEF Admitted, Counted
  <2>4. tokens = Limit /\ Limit \in Nat
    BY LimiterAssumption DEF Init
  <2> QED BY <2>1, <2>3, <2>4
<1> QED BY <1>1, <1>2, <1>3 DEF Inv

(* The limiter's part when nothing is admitted and no tick comes. *)
LEMMA LimiterFrame ==
  ASSUME LimiterInv, UNCHANGED <<tokens, recent>>
  PROVE  LimiterInv'
  BY DEF LimiterInv, Admitted

(* One step per action. *)
LEMMA NextInv == Inv /\ [Next]_vars => Inv'
<1> SUFFICES ASSUME Inv, [Next]_vars PROVE Inv'
  OBVIOUS
<1>1. TypeOK /\ ClientInv /\ LimiterInv
  BY DEF Inv
<1>2. ASSUME NEW c \in Client, Allow(c) PROVE Inv'
  <2>1. ClientInv' /\ LimiterInv' /\ tokens' \in 0..Limit /\ recent' \in [0..Window -> Nat]
    BY <1>1, <1>2, AllowKeeps, AllowBalances
  <2>2. TypeOK'
    BY <1>1, <1>2, <2>1 DEF TypeOK, Allow, Goto
  <2> QED BY <2>1, <2>2 DEF Inv
<1>3. ASSUME NEW c \in Client, Refuse(c) PROVE Inv'
  <2>1. ClientInv' /\ LimiterInv'
    BY <1>1, <1>3, EndKeeps, LimiterFrame DEF Refuse
  <2>2. TypeOK'
    BY <1>1, <1>3 DEF TypeOK, Refuse, Goto
  <2> QED BY <2>1, <2>2 DEF Inv
<1>4. ASSUME NEW c \in Client, ListStart(c) PROVE Inv'
  <2>1. ClientInv' /\ LimiterInv'
    BY <1>1, <1>4, ListStartKeeps, LimiterFrame DEF ListStart
  <2>2. PICK n \in MaxKeysArg, p \in {"none", "like"} :
          req' = [req EXCEPT ![c] = [op |-> "list", prefix |-> p, max |-> MaxKeys(n),
                                     token |-> 0, got |-> <<>>]]
    BY <1>4 DEF ListStart
  <2>3. [op |-> "list", prefix |-> p, max |-> MaxKeys(n), token |-> 0, got |-> <<>>] \in ListReq
    <3>1. MaxKeys(n) \in Nat \ {0}
      BY MaxKeysAssumption DEF MaxKeys
    <3> QED BY <3>1 DEF ListReq
  <2>4. req' \in [Client -> {Idle} \cup ListReq \cup RangeReq]
    BY <1>1, <2>2, <2>3 DEF TypeOK
  <2>5. TypeOK'
    BY <1>1, <1>4, <2>4 DEF TypeOK, ListStart, Goto
  <2> QED BY <2>1, <2>5 DEF Inv
<1>5. ASSUME NEW c \in Client, List(c) PROVE Inv'
  <2>1. ClientInv' /\ LimiterInv' /\ req'[c] \in ListReq
    BY <1>1, <1>5, ListKeeps, LimiterFrame DEF List
  <2>2. pc' \in [Client -> {"idle", "send", "handler", "listed", "read", "retrieved"}]
    BY <1>1, <1>5 DEF TypeOK, List, Goto
  <2>3. /\ \A d \in Client : d # c => req'[d] = req[d]
        /\ req' = [d \in Client |-> req'[d]]
    BY <1>1, <1>5 DEF TypeOK, List
  <2>4. req' \in [Client -> {Idle} \cup ListReq \cup RangeReq]
    BY <1>1, <2>1, <2>3 DEF TypeOK
  <2>5. TypeOK'
    BY <1>1, <1>5, <2>2, <2>4 DEF TypeOK, List
  <2> QED BY <2>1, <2>5 DEF Inv
<1>6. ASSUME NEW c \in Client, ListFail(c) PROVE Inv'
  <2>1. ClientInv' /\ LimiterInv'
    BY <1>1, <1>6, ListFailKeeps, LimiterFrame DEF ListFail
  <2>2. TypeOK'
    BY <1>1, <1>6 DEF TypeOK, ListFail, Goto
  <2> QED BY <2>1, <2>2 DEF Inv
<1>7. ASSUME NEW c \in Client, RetrieveStart(c) PROVE Inv'
  <2>1. ClientInv' /\ LimiterInv' /\ req'[c] \in RangeReq
    BY <1>1, <1>7, RetrieveStartKeeps, LimiterFrame DEF RetrieveStart
  <2>2. /\ \A d \in Client : d # c => req'[d] = req[d]
        /\ req' = [d \in Client |-> req'[d]]
    BY <1>1, <1>7 DEF TypeOK, RetrieveStart
  <2>3. req' \in [Client -> {Idle} \cup ListReq \cup RangeReq]
    BY <1>1, <2>1, <2>2 DEF TypeOK
  <2>4. /\ keys' = keys /\ tokens' = tokens /\ recent' = recent /\ seen' = seen
        /\ ever' = ever /\ pc' = [pc EXCEPT ![c] = "read"]
    BY <1>7 DEF RetrieveStart, Goto
  <2>5. pc' \in [Client -> {"idle", "send", "handler", "listed", "read", "retrieved"}]
    BY <1>1, <2>4 DEF TypeOK
  <2>6. TypeOK'
    <3>1. /\ keys' \in SUBSET Key /\ tokens' \in 0..Limit /\ recent' \in [0..Window -> Nat]
          /\ seen' \in [Client -> SUBSET Key] /\ ever' \in [Client -> SUBSET Key]
      BY <1>1, <2>4, Zenon DEF TypeOK
    <3> QED BY <2>3, <2>5, <3>1, Zenon DEF TypeOK
  <2> QED BY <2>1, <2>6 DEF Inv
<1>8. ASSUME NEW c \in Client, SendChunk(c) PROVE Inv'
  <2>1. ClientInv' /\ LimiterInv' /\ req'[c] \in RangeReq
    BY <1>1, <1>8, SendChunkKeeps, LimiterFrame, Zenon DEF SendChunk
  <2>2. /\ \A d \in Client : d # c => req'[d] = req[d]
        /\ req' = [d \in Client |-> req'[d]]
    BY <1>1, <1>8, Zenon DEF TypeOK, SendChunk
  <2>3. req' \in [Client -> {Idle} \cup ListReq \cup RangeReq]
    BY <1>1, <2>1, <2>2 DEF TypeOK
  <2>4. UNCHANGED <<keys, tokens, recent, pc, seen, ever>>
    BY <1>8 DEF SendChunk
  <2>5. TypeOK'
    BY <1>1, <2>3, <2>4 DEF TypeOK
  <2> QED BY <2>1, <2>5 DEF Inv
<1>9. ASSUME NEW c \in Client, RetrieveEnd(c) PROVE Inv'
  <2>1. ClientInv' /\ LimiterInv'
    BY <1>1, <1>9, RetrieveEndKeeps, LimiterFrame DEF RetrieveEnd
  <2>2. TypeOK'
    BY <1>1, <1>9 DEF TypeOK, RetrieveEnd, Goto
  <2> QED BY <2>1, <2>2 DEF Inv
<1>10. ASSUME NEW c \in Client, Done(c) PROVE Inv'
  <2>1. ClientInv' /\ LimiterInv'
    BY <1>1, <1>10, EndKeeps, LimiterFrame DEF Done
  <2>2. TypeOK'
    BY <1>1, <1>10 DEF TypeOK, Done, Goto
  <2> QED BY <2>1, <2>2 DEF Inv
<1>11. ASSUME NEW k \in Key, Change(k) PROVE Inv'
  <2>1. ClientInv' /\ LimiterInv' /\ keys' \in SUBSET Key
        /\ seen' \in [Client -> SUBSET Key] /\ ever' \in [Client -> SUBSET Key]
    BY <1>1, <1>11, ChangeKeeps, LimiterFrame DEF Change
  <2>2. UNCHANGED <<tokens, recent, pc, req>>
    BY <1>11 DEF Change
  <2>3. TypeOK'
    BY <1>1, <2>1, <2>2 DEF TypeOK
  <2> QED BY <2>1, <2>3 DEF Inv
<1>12. ASSUME Tick PROVE Inv'
  <2>1. LimiterInv' /\ tokens' \in 0..Limit /\ recent' \in [0..Window -> Nat]
    BY <1>1, <1>12, TickBalances
  <2>2. UNCHANGED <<keys, pc, req, seen, ever>>
    BY <1>12 DEF Tick
  <2>3. TypeOK'
    BY <1>1, <2>1, <2>2 DEF TypeOK
  <2>4. ClientInv'
    BY <1>1, <2>2 DEF ClientInv
  <2> QED BY <2>1, <2>3, <2>4 DEF Inv
<1>13. ASSUME UNCHANGED vars PROVE Inv'
  <2>1. UNCHANGED <<keys, tokens, recent, pc, req, seen, ever>>
    BY <1>13 DEF vars
  <2>2. TypeOK'
    BY <1>1, <2>1 DEF TypeOK
  <2>3. ClientInv'
    BY <1>1, <2>1 DEF ClientInv
  <2>4. LimiterInv'
    BY <1>1, <2>1, LimiterFrame
  <2> QED BY <2>2, <2>3, <2>4 DEF Inv
<1> QED BY <1>2, <1>3, <1>4, <1>5, <1>6, <1>7, <1>8, <1>9, <1>10, <1>11, <1>12, <1>13
        DEF Next, ClientNext

(* The inductive invariant: what RPCs are sent, and what the bucket holds. *)
THEOREM Invariance == Spec => []Inv
  BY InitInv, NextInv, PTL DEF Spec

(* Every variable keeps its type: whatever is listed, retrieved, refused   *)
(* or admitted, the bucket holds between none and Limit tokens.            *)
THEOREM TypeCorrect == Spec => []TypeOK
<1>1. Inv => TypeOK
  BY DEF Inv
<1> QED BY Invariance, <1>1, PTL

(* The pages of ListObjects (pages of any size, any number of keys coming  *)
(* and going between them, refusals and failed statements in between):     *)
(* growing keys, none twice, none that was never there, and none missing   *)
(* that was there all the time.                                            *)
THEOREM ListingsAreExact == Spec => []ListingExact
<1>1. Inv => ListingExact
  <2> SUFFICES ASSUME Inv, NEW c \in Client, req[c].op = "list"
               PROVE  LET q == req[c]
                          upTo == IF pc[c] = "listed" THEN Key ELSE {k \in Key : k <= q.token}
                      IN /\ Grows(q)
                         /\ Sent(q) \subseteq ever[c] \cap Matching(q)
                         /\ seen[c] \cap Matching(q) \cap upTo \subseteq Sent(q)
    BY DEF ListingExact
  <2> DEFINE q == req[c]
  <2>1. ListOK(pc[c], q, seen[c], ever[c], keys)
    BY DEF Inv, ClientInv, ClientOK
  <2> QED BY <2>1 DEF ListOK
<1> QED BY Invariance, <1>1, PTL

(* The chunks of RetrieveObject, for a blob of any size, chunks of any     *)
(* size and every offset and length: the bytes of the range in their       *)
(* order, and all of them when the stream ends.                            *)
THEOREM RangesAreExact == Spec => []RangeExact
<1>1. Inv => RangeExact
  <2> SUFFICES ASSUME Inv, NEW c \in Client, req[c].op = "range"
               PROVE  LET q == req[c]
                          upTo == IF pc[c] = "retrieved" THEN Wanted(q)
                                  ELSE {b \in Wanted(q) : \E a \in Sent(q) : b <= a}
                      IN /\ Grows(q)
                         /\ Sent(q) \subseteq Wanted(q)
                         /\ upTo \subseteq Sent(q)
    BY DEF RangeExact
  <2> DEFINE q == req[c]
  <2> DEFINE r == RetrieveBlobRange(NormalizeRange(q.offset, q.length))
  <2> DEFINE m == Len(q.got)
  <2>1. q \in RangeReq /\ RangeOK(pc[c], q)
    <3>1. q \in {Idle} \cup ListReq \cup RangeReq
      BY DEF Inv, TypeOK
    <3>2. q \in RangeReq
      BY <3>1, RequestKinds
    <3> QED BY <3>2 DEF Inv, ClientInv, ClientOK
  <2> HIDE DEF q
  <2>2. q.op = "range" /\ q.offset \in RangeArg /\ q.length \in RangeArg /\ q.got \in Seq(Nat)
        /\ q.left \in Nat
    BY <2>1, RequestKinds
  <2>3. r.pos \in Nat /\ r.left \in Nat /\ Wanted(q) = r.pos..(r.pos + r.left - 1)
    BY <2>2, RangeFacts
  <2>4. /\ q.left = r.left - m
        /\ \A i \in 1..m : q.got[i] = r.pos + i - 1
        /\ pc[c] = "retrieved" => q.left = 0
    BY <2>1, <2>2 DEF RangeOK
  <2> HIDE DEF r
  <2>5. m \in Nat /\ DOMAIN q.got = 1..m
    BY <2>2, LenProperties
  <2> HIDE DEF m
  <2>6. Sent(q) = r.pos..(r.pos + m - 1)
    <3>1. ASSUME NEW i \in 1..m PROVE q.got[i] \in r.pos..(r.pos + m - 1)
      BY <2>3, <2>4, <2>5
    <3>2. ASSUME NEW b \in r.pos..(r.pos + m - 1) PROVE \E i \in 1..m : q.got[i] = b
      <4>1. b - r.pos + 1 \in 1..m /\ r.pos + (b - r.pos + 1) - 1 = b
        BY <2>3, <2>5
      <4>2. q.got[b - r.pos + 1] = b
        BY <2>4, <4>1
      <4> QED BY <4>1, <4>2
    <3> QED BY <2>5, <3>1, <3>2 DEF Sent
  <2>7. Grows(q)
    <3> SUFFICES ASSUME NEW i \in 1..m, NEW j \in 1..m, i < j PROVE q.got[i] < q.got[j]
      BY <2>5 DEF Grows
    <3>1. q.got[i] = r.pos + i - 1 /\ q.got[j] = r.pos + j - 1
      BY <2>4
    <3> QED BY <2>3, <2>5, <3>1
  <2>8. m <= r.left
    BY <2>2, <2>3, <2>4, <2>5
  <2>9. Sent(q) \subseteq Wanted(q)
    <3>1. \A i \in r.pos..(r.pos + m - 1) : i \in r.pos..(r.pos + r.left - 1)
      BY <2>3, <2>5, <2>8
    <3> QED BY <2>3, <2>6, <3>1
  <2>10. CASE pc[c] = "retrieved"
    <3>1. m = r.left
      BY <2>2, <2>3, <2>4, <2>5, <2>10
    <3>2. Wanted(q) = Sent(q)
      BY <2>3, <2>6, <3>1
    <3> QED BY <2>7, <2>10, <3>2 DEF q
  <2>11. CASE pc[c] # "retrieved"
    <3>1. ASSUME NEW b \in Wanted(q), NEW a \in Sent(q), b <= a PROVE b \in Sent(q)
      <4>1. b \in r.pos..(r.pos + r.left - 1) /\ a \in r.pos..(r.pos + m - 1)
        BY <2>3, <2>6
      <4>2. b \in r.pos..(r.pos + m - 1)
        BY <2>3, <2>5, <3>1, <4>1
      <4> QED BY <2>6, <4>2
    <3> QED BY <2>7, <2>9, <2>11, <3>1 DEF q
  <2> QED BY <2>10, <2>11
<1> QED BY Invariance, <1>1, PTL

(* TokenBucketLimiter, for any limit and period: during a period it admits *)
(* at most a full bucket and the tokens of the period's ticks.             *)
THEOREM AdmissionsAreBounded == Spec => []AdmissionsBounded
<1>1. Inv => AdmissionsBounded
  <2> SUFFICES ASSUME Inv PROVE Admitted(Window) <= Limit + Window
    BY DEF AdmissionsBounded
  <2>1. Window \in 0..Window /\ Window \in Nat /\ Limit \in Nat
    BY WindowType, LimiterAssumption
  <2>2. tokens \in Nat /\ Admitted(Window) \in Nat
    BY <2>1, AdmittedType DEF Inv, TypeOK
  <2>3. tokens + Admitted(Window) <= Limit + Window
    BY <2>1 DEF Inv, LimiterInv
  <2> QED BY <2>1, <2>2, <2>3
<1> QED BY Invariance, <1>1, PTL
=============================================================================
