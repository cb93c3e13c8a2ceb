----------------------------- MODULE Induction -----------------------------
(***************************************************************************)
(* Facts about data that the proofs of several components need: induction  *)
(* over the naturals, for a set of them instead of a predicate, the least  *)
(* and the greatest of a set; what FoldLeft and MapThenSumSet compute, and *)
(* that a finite set has an order.                                         *)
(***************************************************************************)
EXTENDS Integers, FiniteSetsExt, FiniteSetTheorems, SequenceTheorems, TLAPS

LEMMA LeastNatural ==
  ASSUME NEW S \in SUBSET Nat, S # {}
  PROVE  \E x \in S : \A y \in S : x <= y
<1>1. PICK x \in S : \A y \in S : ~ (<<y, x>> \in OpToRel(<, Nat))
  BY NatLessThanWellFounded, WFMin, Zenon
<1>2. \A y \in S : ~ (y < x)
  BY <1>1 DEF OpToRel
<1>. QED
  BY <1>2

LEMMA NaturalsByInduction ==
  ASSUME NEW S, 0 \in S, \A n \in Nat : n \in S => n + 1 \in S
  PROVE  Nat \subseteq S
<1>. SUFFICES ASSUME Nat \ S # {}
              PROVE  FALSE
  OBVIOUS
<1>1. PICK x \in Nat \ S : \A y \in Nat \ S : x <= y
  BY LeastNatural
<1>2. x - 1 \in Nat
  BY <1>1
<1>3. x - 1 \in S
  BY <1>1, <1>2
<1>. QED
  BY <1>1, <1>2, <1>3

(* Max is defined by a choice: of a set that has a greatest element.       *)
LEMMA GreatestInteger ==
  ASSUME NEW S \in SUBSET Int, S # {}, NEW bound \in Int, \A x \in S : x <= bound
  PROVE  Max(S) \in S /\ \A x \in S : x <= Max(S)
<1>. DEFINE below == {bound - x : x \in S}
<1>1. below \in SUBSET Nat /\ below # {}
  <2>1. ASSUME NEW x \in S
        PROVE  bound - x \in Nat
    <3>1. x \in Int /\ x <= bound
      OBVIOUS
    <3>. QED
      BY <3>1
  <2>. QED
    BY <2>1
<1>2. PICK d \in below : \A e \in below : d <= e
  BY <1>1, LeastNatural
<1>3. PICK y \in S : d = bound - y
  BY <1>2
<1>4. ASSUME NEW x \in S
      PROVE  x <= y
  <2>1. x \in Int /\ y \in Int /\ bound - y <= bound - x
    BY <1>2, <1>3
  <2>. QED
    BY <2>1
<1>5. \A x \in S : y >= x
  BY <1>4
<1>6. Max(S) \in S /\ \A x \in S : Max(S) >= x
  BY <1>5 DEF Max
<1>. QED
  BY <1>6
-----------------------------------------------------------------------------
(* FoldLeft, the way SequencesExt defines it: the fold over a set of       *)
(* places is the step from the fold over the others to the last of them.   *)

LEMMA LastPlace ==
  ASSUME NEW n \in Nat, NEW S \in SUBSET (1 .. n), S # {}
  PROVE  Max(S) \in S /\ Max(S) \in 1 .. n /\ \A x \in S : x <= Max(S)
<1>1. S \in SUBSET Int /\ n \in Int /\ \A x \in S : x <= n
  OBVIOUS
<1>2. Max(S) \in S /\ \A x \in S : x <= Max(S)
  BY <1>1, GreatestInteger
<1>. QED
  BY <1>2

LEMMA LastOfAll ==
  ASSUME NEW k \in Nat \ {0}
  PROVE  Max(1 .. k) = k /\ (1 .. k) \ {k} = 1 .. k - 1
<1>1. 1 .. k \in SUBSET (1 .. k) /\ k \in 1 .. k
  OBVIOUS
<1>2. Max(1 .. k) \in 1 .. k /\ k <= Max(1 .. k)
  BY <1>1, LastPlace
<1>3. Max(1 .. k) = k
  BY <1>2
<1>4. (1 .. k) \ {k} = 1 .. k - 1
  OBVIOUS
<1>. QED
  BY <1>3, <1>4

Folds(f, base, step, n) ==
  \A S \in SUBSET (1 .. n) :
    f[S] = IF S = {} THEN base ELSE step[f[S \ {Max(S)}], Max(S)]

(* There is a function that does so, whatever a step does.                 *)
LEMMA FoldExists ==
  ASSUME NEW V, NEW base \in V, NEW n \in Nat, NEW step \in [V \X (1 .. n) -> V]
  PROVE  \E f \in [SUBSET (1 .. n) -> V] : Folds(f, base, step, n)
<1>. DEFINE Fold(f, k) == \A S \in SUBSET (1 .. k) :
                            f[S] = IF S = {} THEN base ELSE step[f[S \ {Max(S)}], Max(S)]
            FoldsTo(k) == \E f \in [SUBSET (1 .. k) -> V] : Fold(f, k)
            Lengths == {k \in Nat : k <= n => FoldsTo(k)}
<1>1. 0 \in Lengths
  <2>1. \A S \in SUBSET (1 .. 0) : S = {}
    OBVIOUS
  <2>2. Fold([S \in SUBSET (1 .. 0) |-> base], 0)
    BY <2>1
  <2>3. [S \in SUBSET (1 .. 0) |-> base] \in [SUBSET (1 .. 0) -> V]
    OBVIOUS
  <2>. HIDE DEF Fold
  <2>. QED
    BY <2>2, <2>3
<1>2. ASSUME NEW k \in Nat, k \in Lengths
      PROVE  k + 1 \in Lengths
  <2>. HIDE DEF FoldsTo
  <2>. SUFFICES ASSUME k + 1 <= n
                PROVE  FoldsTo(k + 1)
    OBVIOUS
  <2>0. FoldsTo(k)
    BY <1>2
  <2>1. PICK f \in [SUBSET (1 .. k) -> V] : Fold(f, k)
    BY <2>0 DEF FoldsTo
  <2>. DEFINE g == [S \in SUBSET (1 .. k + 1) |->
                      IF k + 1 \in S THEN step[f[S \ {k + 1}], k + 1] ELSE f[S]]
  <2>2. \A S \in SUBSET (1 .. k + 1) : S \ {k + 1} \in SUBSET (1 .. k)
    OBVIOUS
  <2>3. \A S \in SUBSET (1 .. k + 1) : k + 1 \notin S => S \in SUBSET (1 .. k)
    OBVIOUS
  <2>4. g \in [SUBSET (1 .. k + 1) -> V]
    <3>. SUFFICES ASSUME NEW S \in SUBSET (1 .. k + 1)
                  PROVE  g[S] \in V
      OBVIOUS
    <3>1. CASE k + 1 \in S
      <4>1. f[S \ {k + 1}] \in V /\ k + 1 \in 1 .. n
        BY <2>2
      <4>2. <<f[S \ {k + 1}], k + 1>> \in V \X (1 .. n)
        BY <4>1
      <4>. QED
        BY <3>1, <4>2
    <3>2. CASE k + 1 \notin S
      BY <2>3, <3>2
    <3>. QED
      BY <3>1, <3>2
  <2>5. ASSUME NEW S \in SUBSET (1 .. k + 1), S # {}
        PROVE  g[S] = step[g[S \ {Max(S)}], Max(S)]
    <3>1. Max(S) \in S /\ Max(S) \in 1 .. k + 1 /\ \A x \in S : x <= Max(S)
      BY <2>5, LastPlace
    <3>2. CASE k + 1 \in S
      <4>1. Max(S) = k + 1
        BY <3>1, <3>2
      <4>2. g[S \ {k + 1}] = f[S \ {k + 1}]
        BY <2>2
      <4>. QED
        BY <3>2, <4>1, <4>2
    <3>3. CASE k + 1 \notin S
      <4>1. S \in SUBSET (1 .. k) /\ S \ {Max(S)} \in SUBSET (1 .. k + 1)
            /\ k + 1 \notin S \ {Max(S)}
        BY <2>3, <3>3
      <4>2. g[S] = f[S] /\ g[S \ {Max(S)}] = f[S \ {Max(S)}]
        BY <3>3, <4>1
      <4>. QED
        BY <2>1, <2>5, <4>1, <4>2
    <3>. QED
      BY <3>2, <3>3
  <2>6. g[{}] = base
    <3>1. {} \in SUBSET (1 .. k + 1) /\ {} \in SUBSET (1 .. k)
      OBVIOUS
    <3>. QED
      BY <2>1, <3>1
  <2>. HIDE DEF g
  <2>7. Fold(g, k + 1)
    BY <2>5, <2>6
  <2>. QED
    BY <2>4, <2>7 DEF FoldsTo
<1>. HIDE DEF Lengths
<1>3. n \in Lengths
  BY <1>1, <1>2, NaturalsByInduction
<1>4. FoldsTo(n)
  <2>. HIDE DEF FoldsTo
  <2>. QED
    BY <1>3 DEF Lengths
<1>. QED
  BY <1>4 DEF Folds

LEMMA EmptyFunction == DOMAIN <<>> = {}
<1>1. DOMAIN <<>> = 1 .. 0
  BY EmptySeq, LenProperties, <<>> \in Seq({})
<1>. QED
  BY <1>1

(* A sequence is made by appending, one element at a time.                 *)
LEMMA NextPrefix ==
  ASSUME NEW E, NEW s \in Seq(E), NEW k \in Nat, k < Len(s)
  PROVE  /\ SubSeq(s, 1, k) \in Seq(E) /\ Len(SubSeq(s, 1, k)) = k /\ s[k + 1] \in E
         /\ SubSeq(s, 1, k + 1) = Append(SubSeq(s, 1, k), s[k + 1])
<1>1. Len(s) \in Nat /\ \A i \in 1 .. Len(s) : s[i] \in E
  BY LenProperties, ElementOfSeq
<1>2. SubSeq(s, 1, k) \in Seq(E) /\ Len(SubSeq(s, 1, k)) = k
      /\ \A i \in 1 .. k : SubSeq(s, 1, k)[i] = s[i]
  BY <1>1, SubSeqProperties
<1>3. SubSeq(s, 1, k + 1) \in Seq(E) /\ Len(SubSeq(s, 1, k + 1)) = k + 1
      /\ \A i \in 1 .. k + 1 : SubSeq(s, 1, k + 1)[i] = s[i]
  BY <1>1, SubSeqProperties
<1>4. s[k + 1] \in E
  BY <1>1
<1>5. SubSeq(s, 1, k + 1) = Append(SubSeq(s, 1, k), s[k + 1])
  BY <1>2, <1>3, <1>4, AppendProperties, SeqEqual
<1>. QED
  BY <1>2, <1>4, <1>5
-----------------------------------------------------------------------------
(* A sum over a finite set, the way MapThenSumSet defines it: one element, *)
(* whichever is chosen, and the sum over the others.                       *)
Some(T) == CHOOSE x \in T : TRUE

Sums(f, value, S) ==
  \A T \in SUBSET S : f[T] = IF T = {} THEN 0 ELSE value[Some(T)] + f[T \ {Some(T)}]

LEMMA OneLess ==
  ASSUME NEW S, IsFiniteSet(S), NEW T \in SUBSET S, T # {}
  PROVE  /\ Some(T) \in T /\ Some(T) \in S /\ T \ {Some(T)} \in SUBSET S
         /\ Cardinality(T) \in Nat \ {0}
         /\ Cardinality(T \ {Some(T)}) = Cardinality(T) - 1
<1>1. Some(T) \in T
  BY DEF Some
<1>2. IsFiniteSet(T)
  BY FS_Subset
<1>3. Cardinality(T) \in Nat /\ Cardinality(T) # 0
  BY <1>2, FS_CardinalityType, FS_EmptySet
<1>4. Cardinality(T \ {Some(T)}) =
        IF Some(T) \in T THEN Cardinality(T) - 1 ELSE Cardinality(T)
  BY <1>2, FS_RemoveElement, Zenon
<1>. QED
  BY <1>1, <1>3, <1>4

LEMMA SumExists ==
  ASSUME NEW S, IsFiniteSet(S), NEW value \in [S -> Nat]
  PROVE  \E f \in [SUBSET S -> Nat] : Sums(f, value, S)
<1>. DEFINE Sum(f, T) == IF T = {} THEN 0 ELSE value[Some(T)] + f[T \ {Some(T)}]
            UpTo(n) == \E f \in [SUBSET S -> Nat] :
                         \A T \in SUBSET S : Cardinality(T) <= n => f[T] = Sum(f, T)
            Sizes == {n \in Nat : UpTo(n)}
<1>1. 0 \in Sizes
  <2>. DEFINE none == [T \in SUBSET S |-> 0]
  <2>1. ASSUME NEW T \in SUBSET S, Cardinality(T) <= 0
        PROVE  T = {}
    <3>1. T # {} => Cardinality(T) \in Nat \ {0}
      BY OneLess
    <3>. QED
      BY <2>1, <3>1
  <2>2. none \in [SUBSET S -> Nat] /\ \A T \in SUBSET S : Cardinality(T) <= 0 => none[T] = Sum(none, T)
    BY <2>1
  <2>. HIDE DEF none, Sum
  <2>3. UpTo(0)
    BY <2>2
  <2>. QED
    BY <2>3
<1>2. ASSUME NEW n \in Nat, n \in Sizes
      PROVE  n + 1 \in Sizes
  <2>1. PICK f \in [SUBSET S -> Nat] :
          \A T \in SUBSET S : Cardinality(T) <= n => f[T] = Sum(f, T)
    BY <1>2
  <2>. DEFINE g == [T \in SUBSET S |-> IF Cardinality(T) <= n THEN f[T] ELSE Sum(f, T)]
  <2>2. g \in [SUBSET S -> Nat]
    <3>. SUFFICES ASSUME NEW T \in SUBSET S
                  PROVE  g[T] \in Nat
      BY Zenon
    <3>1. CASE T = {}
      BY <3>1
    <3>2. CASE T # {}
      <4>0. Some(T) \in S /\ T \ {Some(T)} \in SUBSET S
        BY <3>2, OneLess
      <4>1. value[Some(T)] \in Nat /\ f[T \ {Some(T)}] \in Nat
        BY <4>0
      <4>2. value[Some(T)] + f[T \ {Some(T)}] \in Nat
        BY <4>1
      <4>. QED
        BY <3>2, <4>2
    <3>. QED
      BY <3>1, <3>2
  <2>3. ASSUME NEW T \in SUBSET S, Cardinality(T) <= n + 1
        PROVE  g[T] = Sum(g, T)
    <3>1. CASE T = {}
      <4>1. Cardinality(T) <= n
        BY <3>1, FS_EmptySet
      <4>. QED
        BY <2>1, <3>1, <4>1
    <3>2. CASE T # {}
      <4>1. /\ T \ {Some(T)} \in SUBSET S /\ Cardinality(T) \in Nat
            /\ Cardinality(T \ {Some(T)}) = Cardinality(T) - 1
        BY <3>2, OneLess
      <4>2. Cardinality(T \ {Some(T)}) <= n
        BY <2>3, <4>1
      <4>3. g[T \ {Some(T)}] = f[T \ {Some(T)}]
        BY <4>1, <4>2
      <4>4. g[T] = Sum(f, T)
        BY <2>1
      <4>. QED
        BY <3>2, <4>3, <4>4
    <3>. QED
      BY <3>1, <3>2
  <2>. HIDE DEF g, Sum
  <2>4. UpTo(n + 1)
    BY <2>2, <2>3
  <2>. QED
    BY <2>4
<1>3. Cardinality(S) \in Nat
  BY FS_CardinalityType
<1>4. UpTo(Cardinality(S))
  <2>. HIDE DEF UpTo
  <2>1. Nat \subseteq Sizes
    <3>. HIDE DEF Sizes
    <3>. QED
      BY <1>1, <1>2, NaturalsByInduction
  <2>. QED
    BY <1>3, <2>1
<1>5. PICK f \in [SUBSET S -> Nat] :
        \A T \in SUBSET S : Cardinality(T) <= Cardinality(S) => f[T] = Sum(f, T)
  BY <1>4
<1>6. \A T \in SUBSET S : Cardinality(T) <= Cardinality(S)
  BY FS_Subset
<1>7. Sums(f, value, S)
  BY <1>5, <1>6 DEF Sums
<1>. QED
  BY <1>7

(* A sum of naturals is one, and zero when all of them are.                *)
LEMMA SumOfNaturals ==
  ASSUME NEW S, IsFiniteSet(S), NEW value \in [S -> Nat], NEW f, Sums(f, value, S)
  PROVE  f[S] \in Nat /\ (f[S] = 0 <=> \A x \in S : value[x] = 0)
<1>. DEFINE Right(T) == f[T] \in Nat /\ (f[T] = 0 <=> \A x \in T : value[x] = 0)
            Sizes == {n \in Nat : \A T \in SUBSET S : Cardinality(T) = n => Right(T)}
<1>1. 0 \in Sizes
  <2>. SUFFICES ASSUME NEW T \in SUBSET S, Cardinality(T) = 0
                PROVE  Right(T)
    OBVIOUS
  <2>1. T = {}
    <3>1. T # {} => Cardinality(T) \in Nat \ {0}
      BY OneLess
    <3>. QED
      BY <3>1
  <2>2. f[{}] = 0
    BY DEF Sums
  <2>. QED
    BY <2>1, <2>2
<1>2. ASSUME NEW n \in Nat, n \in Sizes
      PROVE  n + 1 \in Sizes
  <2>. SUFFICES ASSUME NEW T \in SUBSET S, Cardinality(T) = n + 1
                PROVE  Right(T)
    OBVIOUS
  <2>1. T # {}
    BY FS_EmptySet
  <2>. DEFINE x == Some(T)
              rest == T \ {Some(T)}
  <2>2. x \in T /\ x \in S /\ rest \in SUBSET S /\ Cardinality(rest) = n
    BY <2>1, OneLess
  <2>3. Right(rest)
    BY <1>2, <2>2
  <2>4. f[T] = value[x] + f[rest] /\ value[x] \in Nat
    BY <2>1, <2>2 DEF Sums
  <2>5. f[T] \in Nat /\ (f[T] = 0 <=> value[x] = 0 /\ f[rest] = 0)
    BY <2>3, <2>4
  <2>6. (\A y \in T : value[y] = 0) <=> (value[x] = 0 /\ \A y \in rest : value[y] = 0)
    BY <2>2
  <2>. QED
    BY <2>3, <2>5, <2>6
<1>3. Cardinality(S) \in Nat
  BY FS_CardinalityType
<1>4. Cardinality(S) \in Sizes
  <2>. HIDE DEF Sizes
  <2>. QED
    BY <1>1, <1>2, <1>3, NaturalsByInduction
<1>. QED
  BY <1>4
-----------------------------------------------------------------------------
(* A finite set of naturals in ascending order.                            *)
Ascending(s) == \A i, j \in DOMAIN s : i < j => s[i] < s[j]

(* There is such an order: the least comes first, then the others in       *)
(* theirs.                                                                 *)
LEMMA AscendingExists ==
  ASSUME NEW S \in SUBSET Nat, IsFiniteSet(S)
  PROVE  \E s \in [1 .. Cardinality(S) -> S] : Ascending(s)
<1>. DEFINE Ordered(T) == \E s \in [1 .. Cardinality(T) -> T] : Ascending(s)
            Sizes == {n \in Nat : \A T \in SUBSET Nat :
                        IsFiniteSet(T) /\ Cardinality(T) = n => Ordered(T)}
<1>1. 0 \in Sizes
  <2>. SUFFICES ASSUME NEW T \in SUBSET Nat, IsFiniteSet(T), Cardinality(T) = 0
                PROVE  Ordered(T)
    OBVIOUS
  <2>1. [i \in 1 .. 0 |-> i] \in [1 .. Cardinality(T) -> T] /\ Ascending([i \in 1 .. 0 |-> i])
    BY DEF Ascending
  <2>. QED
    BY <2>1
<1>2. ASSUME NEW n \in Nat, n \in Sizes
      PROVE  n + 1 \in Sizes
  <2>. SUFFICES ASSUME NEW T \in SUBSET Nat, IsFiniteSet(T), Cardinality(T) = n + 1
                PROVE  Ordered(T)
    OBVIOUS
  <2>1. T # {}
    BY FS_EmptySet
  <2>2. PICK x \in T : \A y \in T : x <= y
    BY <2>1, LeastNatural
  <2>. DEFINE U == T \ {x}
  <2>3. U \in SUBSET Nat /\ IsFiniteSet(U) /\ Cardinality(U) = n
    <3>1. /\ IsFiniteSet(U)
          /\ Cardinality(U) = IF x \in T THEN Cardinality(T) - 1 ELSE Cardinality(T)
      BY FS_RemoveElement, Zenon
    <3>2. Cardinality(U) = n
      BY <3>1
    <3>. QED
      BY <3>1, <3>2
  <2>4. PICK s \in [1 .. n -> U] : Ascending(s)
    BY <1>2, <2>3
  <2>. DEFINE t == [i \in 1 .. n + 1 |-> IF i = 1 THEN x ELSE s[i - 1]]
  <2>5. \A i \in 1 .. n : s[i] \in Nat /\ s[i] \in T /\ x < s[i]
    <3>. SUFFICES ASSUME NEW i \in 1 .. n
                  PROVE  s[i] \in Nat /\ s[i] \in T /\ x < s[i]
      OBVIOUS
    <3>1. s[i] \in U
      OBVIOUS
    <3>2. s[i] \in Nat /\ x \in Nat /\ x <= s[i] /\ x # s[i]
      BY <2>2, <3>1
    <3>. QED
      BY <3>1, <3>2
  <2>6. t \in [1 .. n + 1 -> T]
    BY <2>5
  <2>7. ASSUME NEW i \in 1 .. n + 1, NEW j \in 1 .. n + 1, i < j
        PROVE  t[i] < t[j]
    <3>1. j # 1 /\ j - 1 \in 1 .. n /\ t[j] = s[j - 1]
      BY <2>7
    <3>2. CASE i = 1
      BY <2>5, <3>1, <3>2
    <3>3. CASE i # 1
      <4>1. i - 1 \in 1 .. n /\ t[i] = s[i - 1] /\ i - 1 < j - 1
        BY <2>7, <3>3
      <4>. QED
        BY <2>4, <3>1, <4>1 DEF Ascending
    <3>. QED
      BY <3>2, <3>3
  <2>8. Ascending(t)
    BY <2>7 DEF Ascending
  <2>. HIDE DEF t
  <2>. QED
    BY <2>6, <2>8
<1>3. Cardinality(S) \in Nat
  BY FS_CardinalityType
<1>. HIDE DEF Sizes
<1>4. Cardinality(S) \in Sizes
  BY <1>1, <1>2, <1>3, NaturalsByInduction
<1>. QED
  BY <1>4 DEF Sizes

(* As long as the set, it leaves nothing out.                              *)
LEMMA AscendingIsOnto ==
  ASSUME NEW S \in SUBSET Nat, IsFiniteSet(S),
         NEW s \in [1 .. Cardinality(S) -> S], Ascending(s)
  PROVE  {s[i] : i \in 1 .. Cardinality(S)} = S
<1>. DEFINE places == 1 .. Cardinality(S)
<1>1. Cardinality(S) \in Nat
  BY FS_CardinalityType
<1>2. IsFiniteSet(places) /\ Cardinality(places) = Cardinality(S)
  BY <1>1, FS_Interval
<1>3. ASSUME NEW i \in places, NEW j \in places, s[i] = s[j]
      PROVE  i = j
  <2>1. i \in Int /\ j \in Int
    BY <1>1
  <2>2. s[i] \in S /\ s[j] \in S
    OBVIOUS
  <2>3. s[i] \in Nat /\ s[j] \in Nat
    BY <2>2
  <2>4. ~ (i < j) /\ ~ (j < i)
    BY <1>3, <2>3 DEF Ascending
  <2>. QED
    BY <2>1, <2>4
<1>4. s \in Injection(places, S)
  BY <1>3 DEF Injection, IsInjective
<1>5. s \in Surjection(places, S)
  BY <1>2, <1>4, FS_Injection
<1>6. \A x \in S : \E i \in places : s[i] = x
  BY <1>5 DEF Surjection
<1>. QED
  BY <1>6
=============================================================================
