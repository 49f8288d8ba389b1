---------------------------- MODULE ListLemmas ------------------------------
(* Sequences and finite sets of numbers: what InOrder returns, and what the *)
(* folds, joins and flattenings of the libraries compute, for lists of      *)
(* any length; and paths in trees. The library's own theorems on induction  *)
(* take an operator; Induction states the same with a set.                  *)
EXTENDS Trees, FiniteSetTheorems, SequenceTheorems, TLAPS

\* Every set of numbers that is not empty has a least one.
LEMMA LeastNat ==
  ASSUME NEW S \in SUBSET Nat, S # {}
  PROVE  \E m \in S : \A n \in S : m <= n
<1>1. PICK N \in S : TRUE
  OBVIOUS
<1> DEFINE T == {1 .. m : m \in {x \in S : x <= N}}
<1>2. T \subseteq FiniteSubsetsOf(1 .. N) /\ 1 .. N \in T
  <2>1. \A m \in S : m <= N => 1 .. m \in SUBSET (1 .. N)
    OBVIOUS
  <2>2. FiniteSubsetsOf(1 .. N) = SUBSET (1 .. N)
    BY FS_FiniteSubsetsOfFinite, FS_Interval
  <2> QED BY <2>1, <2>2, <1>1
<1> HIDE DEF T
<1>3. PICK X \in T : \A Y \in T : <<Y, X>> \notin StrictSubsetOrdering(1 .. N)
  BY <1>2, WFMin, FS_StrictSubsetOrderingWellFounded
<1>4. PICK m \in S : m <= N /\ X = 1 .. m
  BY <1>3 DEF T
<1>5. \A n \in S : m <= n
  <2> SUFFICES ASSUME NEW n \in S, n < m PROVE FALSE
    OBVIOUS
  <2>1. 1 .. n \in T
    BY <1>4 DEF T
  <2>2. <<1 .. n, X>> \in StrictSubsetOrdering(1 .. N)
    <3>1. 1 .. n \subseteq X /\ X \subseteq 1 .. N
      BY <1>4
    <3>2. m \in X /\ m \notin 1 .. n
      BY <1>4
    <3> QED BY <3>1, <3>2 DEF StrictSubsetOrdering
  <2> QED BY <2>1, <2>2, <1>3
<1> QED BY <1>5

\* Induction on a set of numbers.
LEMMA Induction ==
  ASSUME NEW S, 0 \in S, \A n \in Nat : n \in S => n + 1 \in S
  PROVE  Nat \subseteq S
<1> DEFINE Out == Nat \ S
<1> SUFFICES ASSUME Out # {} PROVE FALSE
  OBVIOUS
<1>1. PICK m \in Out : \A n \in Out : m <= n
  BY LeastNat
<1>2. m # 0 /\ m - 1 \in Nat /\ m - 1 \in S
  BY <1>1
<1> QED BY <1>1, <1>2

-----------------------------------------------------------------------------
\* How many elements come before x.
Rank(S, x) == Cardinality({y \in S : y < x})

\* The rank of an element is below the number of elements, and rises with it.
LEMMA RankRises ==
  ASSUME NEW S \in SUBSET Nat, IsFiniteSet(S), NEW x \in S
  PROVE  /\ Rank(S, x) \in 0 .. Cardinality(S) - 1
         /\ \A z \in S : x < z => Rank(S, x) < Rank(S, z)
<1>1. ASSUME NEW z \in S
      PROVE IsFiniteSet({y \in S : y < z}) /\ Rank(S, z) \in Nat /\ Cardinality(S) \in Nat
  BY FS_Subset, FS_CardinalityType DEF Rank
<1>2. Rank(S, x) \in 0 .. Cardinality(S) - 1
  <2>1. {y \in S : y < x} \in SUBSET (S \ {x})
    OBVIOUS
  <2>2. IsFiniteSet(S \ {x}) /\ Cardinality(S \ {x}) = Cardinality(S) - 1
    BY FS_RemoveElement
  <2>3. Cardinality({y \in S : y < x}) <= Cardinality(S \ {x})
    BY <2>1, <2>2, FS_Subset
  <2> QED BY <1>1, <2>2, <2>3 DEF Rank
<1>3. ASSUME NEW z \in S, x < z PROVE Rank(S, x) < Rank(S, z)
  <2>1. {y \in S : y < x} \cup {x} \in SUBSET {y \in S : y < z}
    <3>1. x \in Nat /\ z \in Nat /\ \A y \in S : y \in Nat
      OBVIOUS
    <3>2. \A y \in S : y < x => y < z
      BY <1>3, <3>1
    <3> QED BY <1>3, <3>2
  <2>2. Cardinality({y \in S : y < x} \cup {x}) = Rank(S, x) + 1
    BY <1>1, FS_AddElement DEF Rank
  <2>3. Cardinality({y \in S : y < x} \cup {x}) <= Cardinality({y \in S : y < z})
    BY <1>1, <2>1, FS_Subset
  <2> QED BY <1>1, <2>2, <2>3 DEF Rank
<1> QED BY <1>2, <1>3

\* Every rank occurs.
LEMMA RankOnto ==
  ASSUME NEW S \in SUBSET Nat, IsFiniteSet(S), NEW k \in 1 .. Cardinality(S)
  PROVE  \E x \in S : Rank(S, x) = k - 1
<1> DEFINE r == [x \in S |-> Rank(S, x) + 1]
           n == Cardinality(S)
<1>1. n \in Nat
  BY FS_CardinalityType
<1>2. r \in [S -> 1 .. n]
  <2>1. \A x \in S : Rank(S, x) + 1 \in 1 .. n
    BY RankRises, <1>1
  <2> QED BY <2>1
<1>3. \A x, z \in S : r[x] = r[z] => x = z
  <2> SUFFICES ASSUME NEW x \in S, NEW z \in S, x # z PROVE Rank(S, x) + 1 # Rank(S, z) + 1
    OBVIOUS
  <2>1. x < z \/ z < x
    OBVIOUS
  <2>2. Rank(S, x) \in Nat /\ Rank(S, z) \in Nat
    BY RankRises, <1>1
  <2>3. x < z => Rank(S, x) < Rank(S, z)
    BY RankRises
  <2>4. z < x => Rank(S, z) < Rank(S, x)
    BY RankRises
  <2> QED BY <2>1, <2>2, <2>3, <2>4
<1> HIDE DEF r
<1>4. r \in Injection(S, 1 .. n)
  BY <1>2, <1>3 DEF Injection, IsInjective
<1>5. IsFiniteSet(1 .. n) /\ Cardinality(1 .. n) = n
  BY <1>1, FS_Interval
<1>6. r \in Surjection(S, 1 .. n)
  BY <1>4, <1>5, FS_Injection
<1>7. PICK x \in S : r[x] = k
  BY <1>6 DEF Surjection
<1>8. Rank(S, x) \in Nat
  BY <1>1, RankRises
<1> QED BY <1>1, <1>7, <1>8 DEF r

\* Every element of a finite set is listed, once, in ascending order.
LEMMA InOrderProperties ==
  ASSUME NEW S \in SUBSET Nat, IsFiniteSet(S)
  PROVE  /\ InOrder(S) \in [1 .. Cardinality(S) -> S]
         /\ Cardinality(S) \in Nat
         /\ ToSet(InOrder(S)) = S
         /\ \A i, j \in 1 .. Cardinality(S) : i < j => InOrder(S)[i] < InOrder(S)[j]
<1> DEFINE n == Cardinality(S)
           s == InOrder(S)
<1>1. n \in Nat
  BY FS_CardinalityType
<1>2. ASSUME NEW k \in 1 .. n
      PROVE  s[k] \in S /\ Rank(S, s[k]) = k - 1
  BY RankOnto DEF InOrder, Rank
<1>3. s \in [1 .. n -> S]
  BY <1>2 DEF InOrder
<1>4. ASSUME NEW i \in 1 .. n, NEW j \in 1 .. n, i < j
      PROVE  s[i] < s[j]
  <2>1. s[i] \in Nat /\ s[j] \in Nat
    BY <1>2
  <2>2. s[j] < s[i] => Rank(S, s[j]) < Rank(S, s[i])
    BY <1>2, RankRises
  <2>3. Rank(S, s[i]) = i - 1 /\ Rank(S, s[j]) = j - 1
    BY <1>2
  <2>4. s[i] # s[j] /\ ~(s[j] < s[i])
    BY <1>4, <2>2, <2>3
  <2> QED BY <2>1, <2>4
<1>5. \A x \in S : \E k \in 1 .. n : s[k] = x
  <2> SUFFICES ASSUME NEW x \in S PROVE \E k \in 1 .. n : s[k] = x
    OBVIOUS
  <2> DEFINE k == Rank(S, x) + 1
  <2>1. k \in 1 .. n /\ k - 1 = Rank(S, x)
    BY <1>1, RankRises
  <2>2. Rank(S, s[k]) = Rank(S, x) /\ s[k] \in S
    BY <1>2, <2>1
  <2>3. s[k] < x => Rank(S, s[k]) < Rank(S, x)
    BY <2>2, RankRises
  <2>4. x < s[k] => Rank(S, x) < Rank(S, s[k])
    BY <2>2, RankRises
  <2>5. Rank(S, x) \in Nat /\ x \in Nat /\ s[k] \in Nat
    <3>1. Rank(S, x) \in Nat
      BY <1>1, RankRises
    <3> QED BY <2>2, <3>1
  <2>6. s[k] = x
    BY <2>2, <2>3, <2>4, <2>5
  <2> QED BY <2>1, <2>6
<1> QED BY <1>1, <1>3, <1>4, <1>5 DEF ToSet

\* A list in ascending order is the one of its elements.
LEMMA OnlyInOrder ==
  ASSUME NEW s \in Seq(Nat), \A i, j \in DOMAIN s : i < j => s[i] < s[j]
  PROVE  InOrder(ToSet(s)) = s /\ IsFiniteSet(ToSet(s))
<1> DEFINE S == ToSet(s)
           n == Len(s)
<1>1. n \in Nat /\ DOMAIN s = 1 .. n /\ s \in [1 .. n -> S] /\ S \in SUBSET Nat
  BY DEF ToSet
<1>2. \A i, j \in 1 .. n : s[i] = s[j] => i = j
  BY <1>1
<1>3. ASSUME NEW i \in 1 .. n + 1
      PROVE  LET B == {s[j] : j \in 1 .. i - 1}
             IN  IsFiniteSet(B) /\ Cardinality(B) = i - 1
  <2> DEFINE B == {s[j] : j \in 1 .. i - 1}
             f == [j \in 1 .. i - 1 |-> s[j]]
  <2>1. f \in Bijection(1 .. i - 1, B)
    <3>1. f \in [1 .. i - 1 -> B] /\ \A b \in B : \E j \in 1 .. i - 1 : f[j] = b
      OBVIOUS
    <3>2. \A j, k \in 1 .. i - 1 : f[j] = f[k] => j = k
      BY <1>1, <1>2
    <3> QED BY <3>1, <3>2 DEF Bijection, Injection, Surjection, IsInjective
  <2>2. IsFiniteSet(1 .. i - 1) /\ Cardinality(1 .. i - 1) = i - 1
    <3>1. i - 1 \in Int /\ 1 \in Int /\ ~(1 > i - 1 /\ i - 1 # 0) /\ (i - 1) - 1 + 1 = i - 1
      BY <1>1
    <3>2. IsFiniteSet(1 .. i - 1) /\ Cardinality(1 .. i - 1) = IF 1 > i - 1 THEN 0 ELSE (i - 1) - 1 + 1
      BY <3>1, FS_Interval
    <3> QED BY <3>1, <3>2
  <2> HIDE DEF B, f
  <2>3. IsFiniteSet(B) /\ Cardinality(B) = i - 1
    BY <2>1, <2>2, FS_Bijection DEF ExistsBijection
  <2> QED BY <2>3 DEF B
<1>4. IsFiniteSet(S) /\ Cardinality(S) = n
  <2>1. S = {s[j] : j \in 1 .. (n + 1) - 1}
    BY <1>1 DEF ToSet
  <2>2. n + 1 \in 1 .. n + 1 /\ (n + 1) - 1 = n
    BY <1>1
  <2> HIDE DEF S, n
  <2> QED BY <1>3, <2>1, <2>2
<1>5. ASSUME NEW i \in 1 .. n PROVE Rank(S, s[i]) = i - 1
  <2>1. \A j \in 1 .. n : s[j] < s[i] <=> j \in 1 .. i - 1
    <3> TAKE j \in 1 .. n
    <3>1. s[j] \in Nat /\ s[i] \in Nat /\ i \in Nat /\ j \in Nat /\ i <= n
      BY <1>1
    <3>2. (j < i => s[j] < s[i]) /\ (i < j => s[i] < s[j]) /\ (i = j => s[i] = s[j])
      BY <1>1
    <3> QED BY <3>1, <3>2
  <2>2. {y \in S : y < s[i]} = {s[j] : j \in 1 .. i - 1}
    <3>1. \A y : y \in S <=> \E j \in 1 .. n : y = s[j]
      BY <1>1 DEF ToSet
    <3>2. \A j \in 1 .. i - 1 : j \in 1 .. n
      BY <1>1
    <3> HIDE DEF S
    <3> QED BY <2>1, <3>1, <3>2
  <2>3. i \in 1 .. n + 1
    BY <1>1
  <2> QED BY <1>3, <2>2, <2>3 DEF Rank
<1>6. ASSUME NEW k \in 1 .. n PROVE InOrder(S)[k] = s[k]
  <2> DEFINE x == InOrder(S)[k]
  <2>1. x \in S /\ Rank(S, x) = k - 1
    BY <1>1, <1>4, RankOnto DEF InOrder, Rank
  <2>2. PICK i \in 1 .. n : x = s[i]
    BY <1>1, <2>1 DEF ToSet
  <2> QED BY <1>1, <1>5, <2>1, <2>2
<1> QED BY <1>1, <1>4, <1>6 DEF InOrder

-----------------------------------------------------------------------------
\* A set of positions that is not empty has a last one.
LEMMA MaxOf ==
  ASSUME NEW n \in Nat, NEW T \in SUBSET (1 .. n), T # {}
  PROVE  Max(T) \in T /\ \A x \in T : x <= Max(T)
<1> DEFINE S == {n - x : x \in T}
<1>1. S \in SUBSET Nat /\ S # {}
  <2>1. \A x \in T : n - x \in Nat
    OBVIOUS
  <2> QED BY <2>1
<1>2. PICK m \in S : \A k \in S : m <= k
  BY <1>1, LeastNat
<1>3. PICK x \in T : m = n - x
  BY <1>2
<1>4. \A y \in T : x >= y
  <2> TAKE y \in T
  <2>1. m <= n - y
    BY <1>2
  <2> QED BY <1>3, <2>1
<1> QED BY <1>4 DEF Max

\* What a fold over the positions of a list makes of every set of them.
IsFold(g, n, A, base, step) ==
  /\ g \in [SUBSET (1 .. n) -> A]
  /\ \A T \in SUBSET (1 .. n) :
       g[T] = IF T = {} THEN base ELSE step[<<Max(T), g[T \ {Max(T)}]>>]

\* The iteration that a fold of the library chooses exists.
LEMMA FoldExists ==
  ASSUME NEW n \in Nat, NEW A, NEW base \in A, NEW step \in [(1 .. n) \X A -> A]
  PROVE  \E g : IsFold(g, n, A, base, step)
<1> DEFINE Folds(k, g) ==
             \A T \in SUBSET (1 .. k) :
               g[T] = IF T = {} THEN base ELSE step[<<Max(T), g[T \ {Max(T)}]>>]
           Good(k) == \E g \in [SUBSET (1 .. k) -> A] : Folds(k, g)
           S == {k \in Nat : k <= n => Good(k)}
<1>1. 0 \in S
  <2> DEFINE g == [T \in SUBSET (1 .. 0) |-> base]
  <2>1. \A T \in SUBSET (1 .. 0) : T = {}
    OBVIOUS
  <2>2. g \in [SUBSET (1 .. 0) -> A] /\ Folds(0, g)
    BY <2>1
  <2> QED BY <2>2
<1>2. ASSUME NEW k \in Nat, k \in S PROVE k + 1 \in S
  <2> HIDE DEF Good
  <2> SUFFICES ASSUME k + 1 <= n PROVE Good(k + 1)
    OBVIOUS
  <2>0. Good(k)
    BY <1>2
  <2> USE DEF Good
  <2>1. PICK g \in [SUBSET (1 .. k) -> A] : Folds(k, g)
    BY <2>0
  <2> DEFINE h == [T \in SUBSET (1 .. k + 1) |->
                     IF k + 1 \in T THEN step[<<k + 1, g[T \ {k + 1}]>>] ELSE g[T]]
  <2>2. \A T \in SUBSET (1 .. k + 1) :
          /\ T \ {k + 1} \in SUBSET (1 .. k)
          /\ k + 1 \notin T => T \in SUBSET (1 .. k)
    <3>1. \A x \in 1 .. k + 1 : x # k + 1 => x \in 1 .. k
      OBVIOUS
    <3> QED BY <3>1
  <2>3. k + 1 \in 1 .. n
    OBVIOUS
  <2>4. h \in [SUBSET (1 .. k + 1) -> A]
    BY <2>2, <2>3
  <2>5. ASSUME NEW T \in SUBSET (1 .. k + 1), T # {}
        PROVE  h[T] = step[<<Max(T), h[T \ {Max(T)}]>>]
    <3>1. Max(T) \in T /\ \A x \in T : x <= Max(T)
      <4>1. k + 1 \in Nat
        OBVIOUS
      <4> QED BY <2>5, <4>1, MaxOf
    <3>2. CASE k + 1 \in T
      <4>1. Max(T) = k + 1
        <5>1. Max(T) \in 1 .. k + 1 /\ k + 1 <= Max(T)
          BY <3>1, <3>2
        <5> QED BY <5>1
      <4>2. h[T \ {k + 1}] = g[T \ {k + 1}]
        BY <2>2
      <4>3. h[T] = step[<<k + 1, g[T \ {k + 1}]>>]
        BY <3>2
      <4> QED BY <4>1, <4>2, <4>3
    <3>3. CASE k + 1 \notin T
      <4>1. T \in SUBSET (1 .. k) /\ T \ {Max(T)} \in SUBSET (1 .. k + 1) /\ k + 1 \notin T \ {Max(T)}
        BY <2>2, <3>3
      <4>2. h[T] = g[T] /\ h[T \ {Max(T)}] = g[T \ {Max(T)}]
        BY <4>1, <3>3
      <4> QED BY <4>1, <4>2, <2>1, <2>5
    <3> QED BY <3>2, <3>3
  <2>6. \A T \in SUBSET (1 .. k + 1) : T = {} => h[T] = base
    BY <2>1
  <2> HIDE DEF h
  <2>7. Folds(k + 1, h)
    BY <2>5, <2>6
  <2> QED BY <2>4, <2>7
<1> HIDE DEF S
<1>3. Nat \subseteq S
  BY <1>1, <1>2, Induction
<1>4. n \in S
  BY <1>3
<1>5. Good(n)
  <2> HIDE DEF Good
  <2> QED BY <1>4 DEF S
<1>6. PICK g \in [SUBSET (1 .. n) -> A] : Folds(n, g)
  BY <1>5
<1> QED BY <1>6 DEF IsFold

\* The fold of the first k elements is one step from that of the k - 1 before.
LEMMA FirstPositions ==
  ASSUME NEW n \in Nat, NEW k \in 1 .. n
  PROVE  /\ 1 .. k \in SUBSET (1 .. n)
         /\ 1 .. k # {}
         /\ Max(1 .. k) = k
         /\ (1 .. k) \ {k} = 1 .. k - 1
<1>1. k \in Nat /\ k \in 1 .. k /\ 1 .. k \in SUBSET (1 .. k)
  OBVIOUS
<1>2. 1 .. k # {}
  BY <1>1
<1>3. Max(1 .. k) \in 1 .. k /\ \A x \in 1 .. k : x <= Max(1 .. k)
  BY <1>1, <1>2, MaxOf
<1>4. Max(1 .. k) = k
  BY <1>1, <1>3
<1>5. (1 .. k) \ {k} = 1 .. k - 1
  OBVIOUS
<1>6. 1 .. k \in SUBSET (1 .. n)
  OBVIOUS
<1> QED BY <1>2, <1>4, <1>5, <1>6

\* The same fold, position by position.
Folded(f, n, A, base, step) ==
  /\ f \in [0 .. n -> A]
  /\ f[0] = base
  /\ \A k \in 1 .. n : f[k] = step[<<k, f[k - 1]>>]

\* What is known of the library's fold before it is known where it leads.
Iterates(iter, n, A, base, step) ==
  /\ iter[{}] = base
  /\ \A T \in SUBSET (1 .. n) :
       T # {} /\ iter[T \ {Max(T)}] \in A => iter[T] = step[<<Max(T), iter[T \ {Max(T)}]>>]

\* Its values on the initial segments are those of a loop.
LEMMA FoldSteps ==
  ASSUME NEW n \in Nat, NEW A, NEW base \in A, NEW step \in [(1 .. n) \X A -> A],
         NEW iter, Iterates(iter, n, A, base, step)
  PROVE  Folded([k \in 0 .. n |-> iter[1 .. k]], n, A, base, step)
<1>1. ASSUME NEW k \in 1 .. n, iter[1 .. k - 1] \in A
      PROVE  iter[1 .. k] = step[<<k, iter[1 .. k - 1]>>] /\ iter[1 .. k] \in A
  <2>1. /\ 1 .. k \in SUBSET (1 .. n) /\ 1 .. k # {} /\ Max(1 .. k) = k
        /\ (1 .. k) \ {k} = 1 .. k - 1
    BY FirstPositions
  <2>2. iter[1 .. k] = step[<<k, iter[1 .. k - 1]>>]
    BY <1>1, <2>1 DEF Iterates
  <2> QED BY <1>1, <2>2
<1> DEFINE S == {k \in Nat : k <= n => iter[1 .. k] \in A}
<1>2. 0 \in S
  <2>1. 1 .. 0 = {}
    OBVIOUS
  <2> QED BY <2>1 DEF Iterates
<1>3. ASSUME NEW k \in Nat, k \in S PROVE k + 1 \in S
  <2> SUFFICES ASSUME k + 1 <= n PROVE iter[1 .. k + 1] \in A
    OBVIOUS
  <2>1. k + 1 \in 1 .. n /\ (k + 1) - 1 = k
    OBVIOUS
  <2>2. iter[1 .. k] \in A
    BY <1>3
  <2> QED BY <1>1, <2>1, <2>2
<1>4. \A k \in 0 .. n : iter[1 .. k] \in A
  <2>1. Nat \subseteq S
    <3> HIDE DEF S
    <3> QED BY <1>2, <1>3, Induction
  <2> TAKE k \in 0 .. n
  <2>2. k \in Nat /\ k <= n
    OBVIOUS
  <2>3. k \in S
    <3> HIDE DEF S
    <3> QED BY <2>1, <2>2
  <2> QED BY <2>2, <2>3
<1> DEFINE f == [k \in 0 .. n |-> iter[1 .. k]]
<1>5. f \in [0 .. n -> A]
  BY <1>4
<1>6. f[0] = base
  <2>1. 1 .. 0 = {} /\ 0 \in 0 .. n
    OBVIOUS
  <2> QED BY <2>1 DEF Iterates
<1>7. \A k \in 1 .. n : f[k] = step[<<k, f[k - 1]>>]
  <2> TAKE k \in 1 .. n
  <2>1. k \in 0 .. n /\ k - 1 \in 0 .. n
    OBVIOUS
  <2>2. iter[1 .. k] = step[<<k, iter[1 .. k - 1]>>]
    BY <1>1, <1>4, <2>1
  <2> QED BY <2>1, <2>2
<1> HIDE DEF f
<1>8. Folded(f, n, A, base, step)
  BY <1>5, <1>6, <1>7 DEF Folded
<1> QED BY <1>8 DEF f

-----------------------------------------------------------------------------
\* A concatenation has the elements of both lists.
LEMMA JoinElements ==
  ASSUME NEW B, NEW s \in Seq(B), NEW t \in Seq(B)
  PROVE  ToSet(s \o t) = ToSet(s) \cup ToSet(t)
<1> DEFINE m == Len(s)
           n == Len(t)
<1>1. /\ m \in Nat /\ n \in Nat /\ DOMAIN s = 1 .. m /\ DOMAIN t = 1 .. n
      /\ DOMAIN (s \o t) = 1 .. m + n
      /\ \A i \in 1 .. m : (s \o t)[i] = s[i]
      /\ \A i \in 1 .. n : (s \o t)[m + i] = t[i]
  OBVIOUS
<1>2. \A i \in 1 .. m + n : i \in 1 .. m \/ (i - m \in 1 .. n /\ i = m + (i - m))
  BY <1>1
<1>3. (\A i \in 1 .. m : i \in 1 .. m + n) /\ (\A i \in 1 .. n : m + i \in 1 .. m + n)
  BY <1>1
<1>4. /\ ToSet(s) = {s[i] : i \in 1 .. m} /\ ToSet(t) = {t[i] : i \in 1 .. n}
      /\ ToSet(s \o t) = {(s \o t)[i] : i \in 1 .. m + n}
  BY <1>1 DEF ToSet
<1> DEFINE u == s \o t
<1>5. \A i \in 1 .. m + n : u[i] \in ToSet(s) \cup ToSet(t)
  <2> TAKE i \in 1 .. m + n
  <2>1. CASE i \in 1 .. m
    BY <1>1, <1>4, <2>1
  <2>2. CASE i - m \in 1 .. n /\ i = m + (i - m)
    <3>1. u[m + (i - m)] = t[i - m]
      BY <1>1, <2>2
    <3> HIDE DEF u
    <3> QED BY <1>4, <2>2, <3>1
  <2> QED BY <1>2, <2>1, <2>2
<1>6. (\A i \in 1 .. m : s[i] \in ToSet(u)) /\ (\A i \in 1 .. n : t[i] \in ToSet(u))
  BY <1>1, <1>3, <1>4
<1> HIDE DEF m, n, u
<1>7. ToSet(u) \subseteq ToSet(s) \cup ToSet(t)
  BY <1>4, <1>5 DEF u
<1>8. ToSet(s) \cup ToSet(t) \subseteq ToSet(u)
  BY <1>4, <1>6
<1> QED BY <1>7, <1>8 DEF u

\* The concatenation of the first k lists is that of the k - 1 before, and one
\* more.
LEMMA FlattenSteps ==
  ASSUME NEW B, NEW seqs \in Seq(Seq(B))
  PROVE  \E f \in [0 .. Len(seqs) -> Seq(B)] :
           /\ f[0] = << >>
           /\ \A k \in 1 .. Len(seqs) : f[k] = f[k - 1] \o seqs[k]
           /\ FlattenSeq(seqs) = f[Len(seqs)]
<1> DEFINE n == Len(seqs)
<1>1. n \in Nat /\ DOMAIN seqs = 1 .. n /\ \A k \in 1 .. n : seqs[k] \in Seq(B)
  OBVIOUS
<1> DEFINE Joins(k, g) == \A i \in 1 .. k : g[i] = IF i = 1 THEN seqs[i] ELSE g[i - 1] \o seqs[i]
           Good(k) == \E g \in [1 .. k -> Seq(B)] : Joins(k, g)
           S == {k \in Nat : k <= n => Good(k)}
<1>2. 0 \in S
  <2> DEFINE g == [i \in 1 .. 0 |-> << >>]
  <2>1. g \in [1 .. 0 -> Seq(B)] /\ Joins(0, g)
    OBVIOUS
  <2> QED BY <2>1
<1>3. ASSUME NEW k \in Nat, k \in S PROVE k + 1 \in S
  <2> HIDE DEF Good
  <2> SUFFICES ASSUME k + 1 <= n PROVE Good(k + 1)
    OBVIOUS
  <2>0. Good(k)
    BY <1>3
  <2> USE DEF Good
  <2>1. PICK g \in [1 .. k -> Seq(B)] : Joins(k, g)
    BY <2>0
  <2> DEFINE h == [i \in 1 .. k + 1 |->
                     IF i = k + 1 THEN IF i = 1 THEN seqs[i] ELSE g[k] \o seqs[k + 1] ELSE g[i]]
  <2>2. h \in [1 .. k + 1 -> Seq(B)]
    <3>1. seqs[k + 1] \in Seq(B) /\ (k # 0 => g[k] \in Seq(B))
      BY <1>1
    <3>2. k # 0 => g[k] \o seqs[k + 1] \in Seq(B)
      BY <3>1
    <3>3. \A i \in 1 .. k + 1 : i # k + 1 => i \in 1 .. k
      OBVIOUS
    <3> QED BY <3>1, <3>2, <3>3
  <2>3. Joins(k + 1, h)
    <3> TAKE i \in 1 .. k + 1
    <3>1. CASE i = k + 1
      <4>1. i # 1 => i - 1 = k /\ h[i - 1] = g[k]
        BY <3>1
      <4> QED BY <3>1, <4>1
    <3>2. CASE i # k + 1
      <4>1. i \in 1 .. k /\ (i # 1 => i - 1 \in 1 .. k)
        BY <3>2
      <4>2. h[i] = g[i] /\ (i # 1 => h[i - 1] = g[i - 1])
        <5>1. i # 1 => i - 1 \in 1 .. k + 1 /\ i - 1 # k + 1
          BY <4>1
        <5> QED BY <3>2, <5>1
      <4> QED BY <4>1, <4>2, <2>1
    <3> QED BY <3>1, <3>2
  <2> HIDE DEF h
  <2> QED BY <2>2, <2>3
<1> HIDE DEF S
<1>4. Nat \subseteq S
  BY <1>2, <1>3, Induction
<1>5. PICK g \in [1 .. n -> Seq(B)] : Joins(n, g)
  <2>1. n \in S
    BY <1>1, <1>4
  <2>2. Good(n)
    <3> HIDE DEF Good
    <3> QED BY <2>1 DEF S
  <2> QED BY <2>2
<1> DEFINE flatten == CHOOSE fl : fl = [i \in 1 .. Len(seqs) |-> IF i = 1 THEN seqs[i] ELSE fl[i - 1] \o seqs[i]]
           f == [k \in 0 .. n |-> IF k = 0 THEN << >> ELSE flatten[k]]
<1>6. flatten = [i \in 1 .. n |-> IF i = 1 THEN seqs[i] ELSE flatten[i - 1] \o seqs[i]]
  <2>1. g = [i \in 1 .. Len(seqs) |-> IF i = 1 THEN seqs[i] ELSE g[i - 1] \o seqs[i]]
    BY <1>5
  <2> QED BY <2>1
<1>7. FlattenSeq(seqs) = IF n = 0 THEN seqs ELSE flatten[n]
  BY DEF FlattenSeq
<1> HIDE DEF flatten
<1> DEFINE T == {k \in Nat : k <= n => f[k] \in Seq(B)}
<1>8. 0 \in T
  BY <1>1
<1>9. ASSUME NEW k \in Nat, k \in T PROVE k + 1 \in T
  <2> SUFFICES ASSUME k + 1 <= n PROVE f[k + 1] \in Seq(B)
    OBVIOUS
  <2>1. seqs[k + 1] \in Seq(B) /\ f[k] \in Seq(B)
    BY <1>1, <1>9
  <2>2. f[k + 1] = flatten[k + 1] /\ (k # 0 => f[k] = flatten[k])
    OBVIOUS
  <2>3. flatten[k + 1] = IF k = 0 THEN seqs[k + 1] ELSE flatten[k] \o seqs[k + 1]
    <3>1. k + 1 \in 1 .. n /\ (k + 1) - 1 = k /\ (k + 1 = 1 <=> k = 0)
      BY <1>1
    <3> QED BY <1>6, <3>1
  <2>4. k = 0 => f[k + 1] \in Seq(B)
    BY <2>1, <2>2, <2>3
  <2> HIDE DEF f
  <2>5. f[k] \o seqs[k + 1] \in Seq(B)
    BY <2>1
  <2>6. k # 0 => f[k + 1] = f[k] \o seqs[k + 1]
    BY <2>2, <2>3
  <2> QED BY <2>4, <2>5, <2>6
<1>10. Nat \subseteq T
  <2> HIDE DEF T
  <2> QED BY <1>8, <1>9, Induction
<1>11. f \in [0 .. n -> Seq(B)]
  <2>1. \A k \in 0 .. n : k \in Nat /\ k <= n
    BY <1>1
  <2>2. \A k \in T : k <= n => f[k] \in Seq(B)
    OBVIOUS
  <2>3. \A k \in 0 .. n : f[k] \in Seq(B)
    <3> HIDE DEF T, f
    <3> QED BY <1>10, <2>1, <2>2
  <2> HIDE DEF T
  <2> QED BY <2>3
<1>12. ASSUME NEW k \in 1 .. n PROVE f[k] = f[k - 1] \o seqs[k]
  <2>0. k \in 0 .. n /\ k # 0
    BY <1>1
  <2>1. f[k] = flatten[k] /\ flatten[k] = IF k = 1 THEN seqs[k] ELSE flatten[k - 1] \o seqs[k]
    BY <1>6, <2>0
  <2>2. CASE k = 1
    <3>1. f[k - 1] = << >> /\ seqs[k] \in Seq(B)
      BY <1>1, <2>2
    <3>2. << >> \o seqs[k] = seqs[k]
      BY <3>1
    <3> QED BY <2>1, <2>2, <3>1, <3>2
  <2>3. CASE k # 1
    <3>1. f[k - 1] = flatten[k - 1]
      BY <1>1, <2>3
    <3> QED BY <2>1, <2>3, <3>1
  <2> QED BY <2>2, <2>3
<1>13. f[0] = << >> /\ FlattenSeq(seqs) = f[n]
  <2>1. n = 0 => seqs = << >>
    OBVIOUS
  <2> QED BY <1>1, <1>7, <2>1
<1> HIDE DEF f, T
<1> QED BY <1>11, <1>12, <1>13

\* A concatenation has the elements of all its lists, and no other.
LEMMA FlattenElements ==
  ASSUME NEW B, NEW seqs \in Seq(Seq(B))
  PROVE  /\ FlattenSeq(seqs) \in Seq(B)
         /\ ToSet(FlattenSeq(seqs)) = UNION {ToSet(seqs[i]) : i \in DOMAIN seqs}
<1> DEFINE n == Len(seqs)
<1>1. PICK f \in [0 .. Len(seqs) -> Seq(B)] :
        /\ f[0] = << >>
        /\ \A k \in 1 .. Len(seqs) : f[k] = f[k - 1] \o seqs[k]
        /\ FlattenSeq(seqs) = f[Len(seqs)]
  BY FlattenSteps
<1>2. n \in Nat /\ DOMAIN seqs = 1 .. n /\ \A k \in 1 .. n : seqs[k] \in Seq(B)
  OBVIOUS
<1> DEFINE S == {k \in Nat : k <= n => ToSet(f[k]) = UNION {ToSet(seqs[i]) : i \in 1 .. k}}
<1>3. 0 \in S
  <2>1. ToSet(<< >>) = {} /\ UNION {ToSet(seqs[i]) : i \in 1 .. 0} = {}
    BY DEF ToSet
  <2> QED BY <1>1, <2>1
<1>4. ASSUME NEW k \in Nat, k \in S PROVE k + 1 \in S
  <2> SUFFICES ASSUME k + 1 <= n
               PROVE  ToSet(f[k + 1]) = UNION {ToSet(seqs[i]) : i \in 1 .. k + 1}
    OBVIOUS
  <2>1. f[k + 1] = f[k] \o seqs[k + 1] /\ f[k] \in Seq(B) /\ seqs[k + 1] \in Seq(B)
    <3>1. k + 1 \in 1 .. n /\ (k + 1) - 1 = k
      BY <1>2
    <3>2. k \in 0 .. n
      BY <1>2
    <3>3. f[k + 1] = f[k] \o seqs[k + 1] /\ seqs[k + 1] \in Seq(B)
      BY <1>1, <1>2, <3>1
    <3> QED BY <1>1, <3>2, <3>3
  <2>2. ToSet(f[k] \o seqs[k + 1]) = ToSet(f[k]) \cup ToSet(seqs[k + 1])
    BY <2>1, JoinElements
  <2>3. ToSet(f[k]) = UNION {ToSet(seqs[i]) : i \in 1 .. k}
    BY <1>4
  <2>4. \A i \in 1 .. k + 1 : i \in 1 .. k \/ i = k + 1
    OBVIOUS
  <2>5. \A i \in 1 .. k : i \in 1 .. k + 1
    OBVIOUS
  <2>6. k + 1 \in 1 .. k + 1
    OBVIOUS
  <2> HIDE DEF n
  <2> QED BY <2>1, <2>2, <2>3, <2>4, <2>5, <2>6
<1>5. Nat \subseteq S
  <2> HIDE DEF S
  <2> QED BY <1>3, <1>4, Induction
<1>6. ToSet(f[n]) = UNION {ToSet(seqs[i]) : i \in 1 .. n}
  <2>1. \A k \in S : k <= n => ToSet(f[k]) = UNION {ToSet(seqs[i]) : i \in 1 .. k}
    OBVIOUS
  <2>2. n <= n
    BY <1>2
  <2> HIDE DEF S, n
  <2>3. n \in S
    BY <1>2, <1>5
  <2> QED BY <2>3, <2>1, <2>2
<1> QED BY <1>1, <1>2, <1>6

-----------------------------------------------------------------------------
\* The elements rise.
Ascending(list) == \A i, j \in DOMAIN list : i < j => list[i] < list[j]

\* The elements of a list are finitely many.
LEMMA ElementsFinite ==
  ASSUME NEW list \in Seq(Nat)
  PROVE  ToSet(list) \in SUBSET Nat /\ IsFiniteSet(ToSet(list))
<1> DEFINE n == Len(list)
           S == ToSet(list)
           f == [i \in 1 .. n |-> list[i]]
<1>1. n \in Nat /\ DOMAIN list = 1 .. n
  OBVIOUS
<1>2. f \in Surjection(1 .. n, S)
  BY <1>1 DEF Surjection, ToSet
<1>3. IsFiniteSet(1 .. n)
  BY <1>1, FS_Interval
<1> HIDE DEF f, S, n
<1>4. IsFiniteSet(S)
  BY <1>2, <1>3, FS_Surjection
<1> QED BY <1>4 DEF S, ToSet

-----------------------------------------------------------------------------
\* What is at the head of a list and behind it.
LEMMA HeadAndTail ==
  ASSUME NEW S, NEW s \in Seq(S), s # << >>
  PROVE  /\ Head(s) \in S /\ Tail(s) \in Seq(S)
         /\ ToSet(s) = {Head(s)} \cup ToSet(Tail(s))
<1> DEFINE c == Head(s)
           rest == Tail(s)
<1>1. /\ c \in S /\ rest \in Seq(S) /\ Len(rest) = Len(s) - 1 /\ Len(s) \in Nat
      /\ \A i \in 1 .. Len(rest) : rest[i] = s[i + 1]
  BY HeadTailProperties
<1>2. c = s[1] /\ DOMAIN s = 1 .. Len(s) /\ DOMAIN rest = 1 .. Len(rest) /\ Len(s) >= 1
  BY <1>1
<1> HIDE DEF c, rest
<1>3. \A i \in 1 .. Len(s) : i = 1 \/ (i - 1 \in 1 .. Len(rest) /\ s[i] = rest[i - 1])
  BY <1>1, <1>2
<1>4. \A i \in 1 .. Len(rest) : i + 1 \in 1 .. Len(s)
  BY <1>1
<1>5. \A x \in ToSet(s) : x = c \/ x \in ToSet(rest)
  BY <1>2, <1>3 DEF ToSet
<1>6. c \in ToSet(s)
  BY <1>1, <1>2 DEF ToSet
<1>7. \A x \in ToSet(rest) : x \in ToSet(s)
  BY <1>1, <1>2, <1>4 DEF ToSet
<1>8. ToSet(s) = {c} \cup ToSet(rest)
  BY <1>5, <1>6, <1>7
<1> QED BY <1>1, <1>8 DEF c, rest

\* A prefix, position by position.
LEMMA UnderPositions ==
  ASSUME NEW d \in Path, NEW p \in Path
  PROVE  Under(d, p) <=> Len(d) <= Len(p) /\ \A i \in 1 .. Len(d) : d[i] = p[i]
<1>1. SubSeq(d, 1, Len(d)) = d
  BY SubSeqFull DEF Path
<1>2. /\ Len(d) \in Nat /\ Len(p) \in Nat
      /\ \A i \in 1 .. Len(d) : d[i] \in Nat
      /\ \A i \in 1 .. Len(p) : p[i] \in Nat
  BY DEF Path
<1>3. ASSUME Len(d) <= Len(p)
      PROVE  d = SubSeq(p, 1, Len(d)) <=> \A i \in 1 .. Len(d) : d[i] = p[i]
  <2> DEFINE s == SubSeq(p, 1, Len(d))
  <2>1. s \in Seq(Nat) /\ Len(s) = Len(d) /\ \A i \in 1 .. Len(d) : s[i] = p[i]
    <3>1. \A i \in 1 .. Len(d) : p[i] \in Nat
      BY <1>2, <1>3
    <3> QED BY <1>2, <3>1, SubSeqProperties
  <2> HIDE DEF s
  <2>2. (\A i \in 1 .. Len(d) : d[i] = p[i]) => d = s
    BY <2>1, SeqEqual DEF Path
  <2> QED BY <2>1, <2>2 DEF s
<1> QED BY <1>1, <1>3 DEF Under, IsPrefix

\* Being under is an order in which what is above a path is a chain.
LEMMA UnderOrder ==
  ASSUME NEW d \in Path, NEW e \in Path, NEW p \in Path
  PROVE  /\ Under(p, p) /\ Under(Root, p)
         /\ Under(d, e) /\ Under(e, p) => Under(d, p)
         /\ Under(d, p) /\ Under(e, p) /\ Len(d) <= Len(e) => Under(d, e)
         /\ Under(d, p) /\ Len(d) = Len(p) => d = p
         /\ Under(d, p) => Len(d) <= Len(p)
<1>1. Root \in Path /\ Len(Root) = 0
  BY DEF Root, Path
<1>2. Len(d) \in Nat /\ Len(e) \in Nat /\ Len(p) \in Nat
  BY DEF Path
<1>3. Under(d, p) /\ Len(d) = Len(p) => d = p
  BY UnderPositions, SeqEqual DEF Path
<1>4. Under(p, p)
  BY <1>2, UnderPositions
<1>5. Under(Root, p)
  BY <1>1, <1>2, UnderPositions
<1> QED BY <1>2, <1>3, <1>4, <1>5, UnderPositions

\* The parent and the name of a path make it up.
LEMMA PathOfChild ==
  ASSUME NEW d \in Path, NEW n \in Nat
  PROVE  /\ Append(d, n) \in Path /\ Append(d, n) # Root /\ Len(Append(d, n)) = Len(d) + 1
         /\ Parent(Append(d, n)) = d /\ Name(Append(d, n)) = n
         /\ Under(d, Append(d, n))
<1> DEFINE p == Append(d, n)
<1>1. p \in Path /\ p # Root /\ Len(p) = Len(d) + 1 /\ Len(d) \in Nat
      /\ p[Len(d) + 1] = n /\ \A i \in 1 .. Len(d) : p[i] = d[i]
  BY AppendProperties DEF Path, Root
<1>2. Name(p) = n
  BY <1>1 DEF Name, Last
<1>3. SubSeq(p, 1, Len(p) - 1) = d
  <2> HIDE DEF p
  <2> DEFINE s == SubSeq(p, 1, Len(d))
  <2>1. \A i \in 1 .. Len(d) : p[i] \in Nat
    BY <1>1 DEF Path
  <2>2. s \in Seq(Nat) /\ Len(s) = Len(d) /\ \A i \in 1 .. Len(d) : s[i] = d[i]
    BY <1>1, <2>1, SubSeqProperties
  <2> HIDE DEF s
  <2>3. s = d
    BY <2>2, SeqEqual DEF Path
  <2>4. Len(p) - 1 = Len(d)
    BY <1>1
  <2> QED BY <2>3, <2>4 DEF s
<1>4. Under(d, p)
  <2> HIDE DEF p
  <2> QED BY <1>1, UnderPositions
<1> QED BY <1>1, <1>2, <1>3, <1>4 DEF Parent, Front

\* A path other than the root is made of its parent and its name.
LEMMA PathHasParent ==
  ASSUME NEW p \in Path, p # Root
  PROVE  /\ Parent(p) \in Path /\ Name(p) \in Nat /\ p = Append(Parent(p), Name(p))
         /\ Len(Parent(p)) = Len(p) - 1 /\ Len(p) \in Nat /\ Len(p) >= 1 /\ Under(Parent(p), p)
<1>1. PICK s \in Path, n \in Nat : p = Append(s, n)
  BY SequenceEmptyOrAppend DEF Path, Root
<1>2. Len(s) \in Nat
  BY DEF Path
<1>3. /\ Len(Append(s, n)) = Len(s) + 1 /\ Parent(Append(s, n)) = s
      /\ Name(Append(s, n)) = n /\ Under(s, Append(s, n))
  BY PathOfChild
<1>4. Parent(p) = s /\ Name(p) = n /\ Len(p) = Len(s) + 1 /\ Under(s, p)
  BY <1>1, <1>3
<1> QED BY <1>1, <1>2, <1>4

\* What a directory holds.
Children(t, d) == {q \in DOMAIN t : q # Root /\ Parent(q) = d}

\* Whatever lies below a path lies below one of its children.
LEMMA BelowChild ==
  ASSUME NEW t, FiniteTree(t), NEW p \in DOMAIN t, NEW d \in Path, Under(d, p), d # p
  PROVE  IsDir(t, d) /\ \E c \in Children(t, d) : Under(c, p)
<1> DEFINE Longer == {q \in DOMAIN t : Under(q, p) /\ Len(q) > Len(d)}
           Lengths == {Len(q) : q \in Longer}
<1>1. p \in Path /\ Len(d) \in Nat /\ DOMAIN t \subseteq Path
  BY DEF FiniteTree, Path
<1>2. Lengths \in SUBSET Nat /\ Len(p) \in Lengths
  <2>1. Len(p) > Len(d) /\ Under(p, p)
    <3>1. Len(d) <= Len(p) /\ Len(d) # Len(p) /\ Under(p, p)
      BY <1>1, UnderOrder
    <3>2. Len(p) \in Nat
      BY <1>1 DEF Path
    <3> QED BY <1>1, <3>1, <3>2
  <2>2. \A q \in Path : Len(q) \in Nat
    BY DEF Path
  <2> QED BY <1>1, <2>1, <2>2
<1>3. PICK c \in Longer : \A q \in Longer : Len(c) <= Len(q)
  <2>1. PICK m \in Lengths : \A n \in Lengths : m <= n
    BY <1>2, LeastNat
  <2> QED BY <2>1
<1>4. c \in Path /\ Len(c) \in Nat /\ Under(c, p) /\ Len(c) > Len(d) /\ c # Root
  <2>1. c \in Path /\ Len(c) \in Nat
    BY <1>1, <1>3 DEF Path
  <2>2. Len(Root) = 0
    BY DEF Root
  <2> QED BY <1>1, <1>3, <2>1, <2>2
<1>5. /\ Parent(c) \in Path /\ Len(Parent(c)) = Len(c) - 1 /\ Under(Parent(c), p)
  BY <1>1, <1>4, PathHasParent, UnderOrder
<1>6. IsDir(t, Parent(c)) /\ Parent(c) \in DOMAIN t
  BY <1>3, <1>4 DEF FiniteTree, IsTree, IsDir
<1>7. Len(Parent(c)) = Len(d)
  <2>1. CASE Len(Parent(c)) > Len(d)
    BY <1>3, <1>4, <1>5, <1>6, <2>1
  <2> QED BY <1>1, <1>4, <1>5, <2>1
<1>8. Parent(c) = d
  <2>1. Under(Parent(c), d)
    BY <1>1, <1>5, <1>7, UnderOrder
  <2> QED BY <1>1, <1>5, <1>7, <2>1, UnderOrder
<1> QED BY <1>3, <1>4, <1>6, <1>8 DEF Children

\* Paths that may be listed: those that are there.
LEMMA AboveIsThere ==
  ASSUME NEW t, FiniteTree(t), NEW p \in DOMAIN t, NEW d \in Path, Under(d, p)
  PROVE  d \in DOMAIN t
BY BelowChild DEF IsDir

\* sorted_dir_entries lists the children of a directory, each once.
LEMMA EntriesAreChildren ==
  ASSUME NEW t, FiniteTree(t), NEW d \in Path
  PROVE  /\ Entries(t, d) \in Seq(Path) /\ ToSet(Entries(t, d)) = Children(t, d)
         /\ \A i, j \in DOMAIN Entries(t, d) : i # j => Entries(t, d)[i] # Entries(t, d)[j]
         /\ Children(t, d) \subseteq Path
         /\ \A c \in Children(t, d) : c # d /\ Under(d, c) /\ Len(c) = Len(d) + 1
<1> DEFINE C == Children(t, d)
           N == {Name(p) : p \in C}
           names == InOrder(N)
<1>1. DOMAIN t \subseteq Path /\ C \subseteq DOMAIN t /\ C \subseteq Path /\ Len(d) \in Nat
  BY DEF FiniteTree, Children, Path
<1>2. \A c \in C : /\ Name(c) \in Nat /\ c = Append(d, Name(c)) /\ c # d
                   /\ Under(d, c) /\ Len(c) = Len(d) + 1
  <2> SUFFICES ASSUME NEW c \in C
               PROVE  /\ Name(c) \in Nat /\ c = Append(d, Name(c)) /\ c # d
                      /\ Under(d, c) /\ Len(c) = Len(d) + 1
    OBVIOUS
  <2>1. c \in Path /\ c # Root /\ Parent(c) = d
    BY <1>1 DEF Children
  <2>2. Len(d) = Len(c) - 1 /\ Len(c) \in Nat
    BY <2>1, PathHasParent
  <2> QED BY <1>1, <2>1, <2>2, PathHasParent
<1>3. IsFiniteSet(N) /\ N \in SUBSET Nat
  <2>1. IsFiniteSet(C)
    BY <1>1, FS_Subset DEF FiniteTree
  <2> DEFINE f == [c \in C |-> Name(c)]
  <2>2. f \in Surjection(C, N)
    BY DEF Surjection
  <2> HIDE DEF f, C
  <2>3. IsFiniteSet(N)
    BY <2>1, <2>2, FS_Surjection
  <2> QED BY <1>2, <2>3
<1>4. /\ names \in [1 .. Cardinality(N) -> N] /\ Cardinality(N) \in Nat
      /\ ToSet(names) = N
      /\ \A i, j \in 1 .. Cardinality(N) : i < j => names[i] < names[j]
  <2> HIDE DEF N
  <2> QED BY <1>3, InOrderProperties
<1>5. Entries(t, d) = [i \in DOMAIN names |-> Append(d, names[i])]
  BY DEF Entries, Children
<1> DEFINE n == Cardinality(N)
           es == [i \in DOMAIN names |-> Append(d, names[i])]
<1>6. DOMAIN names = 1 .. n /\ N \subseteq Nat /\ n \in Nat
  BY <1>3, <1>4
<1>7. \A i \in 1 .. n : es[i] \in Path /\ Name(es[i]) = names[i]
  <2> SUFFICES ASSUME NEW i \in 1 .. n PROVE es[i] \in Path /\ Name(es[i]) = names[i]
    OBVIOUS
  <2> HIDE DEF names, N
  <2>1. names[i] \in Nat
    BY <1>4, <1>6
  <2>2. es[i] = Append(d, names[i])
    BY <1>6
  <2> QED BY <2>1, <2>2, PathOfChild
<1>8. es \in Seq(Path) /\ DOMAIN es = 1 .. n
  <2>1. es \in [1 .. n -> Path]
    BY <1>6, <1>7
  <2>2. n \in Nat
    BY <1>6
  <2> HIDE DEF es, n
  <2> QED BY <2>1, <2>2, SeqDef
<1>9. ToSet(es) = C
  <2>1. \A i \in 1 .. n : es[i] \in C
    <3> SUFFICES ASSUME NEW i \in 1 .. n PROVE es[i] \in C
      OBVIOUS
    <3>1. names[i] \in N
      BY <1>4
    <3>2. PICK c \in C : names[i] = Name(c)
      BY <3>1
    <3> QED BY <1>2, <1>6, <3>2
  <2>2. \A c \in C : \E i \in 1 .. n : es[i] = c
    <3> SUFFICES ASSUME NEW c \in C PROVE \E i \in 1 .. n : es[i] = c
      OBVIOUS
    <3>1. Name(c) \in ToSet(names)
      BY <1>4
    <3>2. PICK i \in 1 .. n : names[i] = Name(c)
      BY <1>6, <3>1 DEF ToSet
    <3> QED BY <1>2, <1>6, <3>2
  <2> QED BY <1>8, <2>1, <2>2 DEF ToSet
<1>10. \A i, j \in 1 .. n : i # j => es[i] # es[j]
  <2>1. \A i, j \in 1 .. n : i # j => names[i] # names[j]
    <3> HIDE DEF names, N, n
    <3>1. \A i, j \in 1 .. n : i # j => i < j \/ j < i
      BY <1>6
    <3>2. \A i \in 1 .. n : names[i] \in Nat
      BY <1>4, <1>6 DEF n
    <3> QED BY <1>4, <3>1, <3>2 DEF n
  <2> QED BY <1>7, <2>1
<1> HIDE DEF es, names, N
<1> QED BY <1>1, <1>2, <1>5, <1>8, <1>9, <1>10 DEF es

\* The proper prefixes of a path are what it is under.
LEMMA AncestorsAbove ==
  ASSUME NEW p \in Path
  PROVE  \A d : d \in Ancestors(p) <=> d \in Path /\ Under(d, p) /\ d # p
<1>1. Len(p) \in Nat /\ \A i \in 1 .. Len(p) : p[i] \in Nat
  BY DEF Path
<1>2. \A n \in 0 .. Len(p) - 1 :
        /\ SubSeq(p, 1, n) \in Path /\ Len(SubSeq(p, 1, n)) = n
        /\ \A i \in 1 .. n : SubSeq(p, 1, n)[i] = p[i]
  <2> SUFFICES ASSUME NEW n \in 0 .. Len(p) - 1
               PROVE  /\ SubSeq(p, 1, n) \in Path /\ Len(SubSeq(p, 1, n)) = n
                      /\ \A i \in 1 .. n : SubSeq(p, 1, n)[i] = p[i]
    OBVIOUS
  <2>1. \A i \in 1 .. n : p[i] \in Nat
    BY <1>1
  <2> QED BY <1>1, <2>1, SubSeqProperties DEF Path
<1>3. ASSUME NEW d \in Ancestors(p)
      PROVE  d \in Path /\ Under(d, p) /\ d # p
  <2>1. PICK n \in 0 .. Len(p) - 1 : d = SubSeq(p, 1, n)
    BY DEF Ancestors
  <2>2. d \in Path /\ Len(d) = n /\ \A i \in 1 .. n : d[i] = p[i]
    BY <1>2, <2>1
  <2> QED BY <1>1, <2>2, UnderPositions
<1>4. ASSUME NEW d \in Path, Under(d, p), d # p
      PROVE  d \in Ancestors(p)
  <2>1. Len(d) \in 0 .. Len(p) - 1 /\ \A i \in 1 .. Len(d) : d[i] = p[i]
    <3>1. Len(d) \in Nat /\ Len(d) <= Len(p) /\ Len(d) # Len(p)
      BY <1>4, UnderOrder DEF Path
    <3> QED BY <1>1, <1>4, <3>1, UnderPositions
  <2>2. d = SubSeq(p, 1, Len(d))
    <3> DEFINE s == SubSeq(p, 1, Len(d))
    <3>1. s \in Path /\ Len(s) = Len(d) /\ \A i \in 1 .. Len(d) : s[i] = d[i]
      BY <1>2, <2>1
    <3> HIDE DEF s
    <3>2. d = s
      BY <3>1, SeqEqual DEF Path
    <3> QED BY <3>2 DEF s
  <2> QED BY <2>1, <2>2 DEF Ancestors
<1> QED BY <1>3, <1>4

\* A child has its directory above it, and what its directory has.
LEMMA AncestorsOfChild ==
  ASSUME NEW d \in Path, NEW c \in Path, Under(d, c), Len(c) = Len(d) + 1
  PROVE  Ancestors(c) = Ancestors(d) \cup {d}
<1>1. Len(d) \in Nat /\ \A e \in Path : Len(e) \in Nat
  BY DEF Path
<1>2. ASSUME NEW e \in Path, Under(e, c), e # c
      PROVE  Under(e, d)
  <2>1. Len(e) <= Len(c) /\ Len(e) # Len(c)
    BY <1>2, UnderOrder
  <2>2. Len(e) <= Len(d)
    BY <1>1, <2>1
  <2> QED BY <1>2, <2>2, UnderOrder
<1>3. ASSUME NEW e \in Path, Under(e, d)
      PROVE  Under(e, c) /\ e # c
  <2>1. Len(e) <= Len(d)
    BY <1>3, UnderOrder
  <2> QED BY <1>1, <1>3, <2>1, UnderOrder
<1>4. d \in Path /\ Under(d, d)
  BY UnderOrder
<1>5. \A e : e \in Ancestors(c) <=> e \in Ancestors(d) \/ e = d
  BY <1>2, <1>3, <1>4, AncestorsAbove
<1> QED BY <1>5

\* What a copy of a subtree has: what is at or under its path, as it is there.
LEMMA CopyOfSubtree ==
  ASSUME NEW t, FiniteTree(t), NEW d \in Path
  PROVE  /\ DOMAIN At(d, Subtree(t, d)) = {q \in DOMAIN t : Under(d, q)}
         /\ \A q \in DOMAIN t : Under(d, q) => At(d, Subtree(t, d))[q] = t[q]
<1> DEFINE U == {q \in DOMAIN t : Under(d, q)}
           Behind(q) == SubSeq(q, Len(d) + 1, Len(q))
           s == Subtree(t, d)
<1>1. DOMAIN t \subseteq Path /\ Len(d) \in Nat
  BY DEF FiniteTree, Path
<1>2. \A q \in U : d \o Behind(q) = q
  <2> SUFFICES ASSUME NEW q \in U PROVE d \o Behind(q) = q
    OBVIOUS
  <2>1. q \in Seq(Nat) /\ Len(q) \in Nat /\ Len(d) <= Len(q)
    BY <1>1, UnderOrder DEF Path
  <2>2. SubSeq(q, 1, Len(d)) = d
    <3>1. SubSeq(d, 1, Len(d)) = d
      BY SubSeqFull DEF Path
    <3> QED BY <3>1 DEF Under, IsPrefix
  <2>3. SubSeq(q, 1, Len(d)) \o SubSeq(q, Len(d) + 1, Len(q)) = SubSeq(q, 1, Len(q))
    <3>1. 1 \in 1 .. Len(q) + 1 /\ Len(d) \in 1 - 1 .. Len(q) /\ Len(q) \in Len(d) .. Len(q)
      BY <1>1, <2>1
    <3> QED BY <2>1, <3>1, ConcatAdjacentSubSeq
  <2>4. SubSeq(q, 1, Len(q)) = q
    BY <2>1, SubSeqFull
  <2> QED BY <2>2, <2>3, <2>4
<1> HIDE DEF U
<1>3. DOMAIN s = {Behind(q) : q \in U} /\ \A p \in DOMAIN s : s[p] = t[d \o p]
  BY DEF Subtree, U
<1> HIDE DEF s
<1>4. DOMAIN At(d, s) = {d \o p : p \in DOMAIN s} /\ \A q \in DOMAIN At(d, s) : At(d, s)[q] = s[Behind(q)]
  BY DEF At
<1> HIDE DEF Behind
<1>5. \A q : q \in DOMAIN At(d, s) <=> q \in U
  BY <1>2, <1>3, <1>4
<1>6. \A q \in U : At(d, s)[q] = t[q]
  BY <1>2, <1>3, <1>4, <1>5
<1> QED BY <1>5, <1>6 DEF U, s

\* Lists of paths none of which is at or under another.
Apart(s) == \A i, j \in DOMAIN s : i # j => ~Under(s[i], s[j])

\* What is behind the head is apart from it.
LEMMA ApartTail ==
  ASSUME NEW s \in Seq(Path), s # << >>, Apart(s)
  PROVE  /\ Apart(Tail(s))
         /\ \A x \in ToSet(Tail(s)) : ~Under(Head(s), x) /\ ~Under(x, Head(s))
<1> DEFINE c == Head(s)
           rest == Tail(s)
<1>1. /\ Len(rest) = Len(s) - 1 /\ Len(s) \in Nat /\ rest \in Seq(Path)
      /\ \A i \in 1 .. Len(rest) : rest[i] = s[i + 1]
  BY HeadTailProperties
<1>2. c = s[1] /\ DOMAIN s = 1 .. Len(s) /\ DOMAIN rest = 1 .. Len(rest) /\ Len(s) >= 1
  BY <1>1
<1> HIDE DEF c, rest
<1>3. \A i \in DOMAIN rest : i + 1 \in DOMAIN s /\ i + 1 # 1 /\ rest[i] = s[i + 1] /\ 1 \in DOMAIN s
  BY <1>1, <1>2
<1>4. Apart(rest)
  <2>1. \A i, j \in DOMAIN rest : i # j => i + 1 # j + 1
    BY <1>2
  <2> QED BY <1>3, <2>1 DEF Apart
<1>5. \A x \in ToSet(rest) : ~Under(c, x) /\ ~Under(x, c)
  BY <1>2, <1>3 DEF Apart, ToSet
<1> QED BY <1>4, <1>5 DEF c, rest

\* Lists that are apart, and from one another, joined.
LEMMA ApartJoin ==
  ASSUME NEW a \in Seq(Path), NEW b \in Seq(Path), Apart(a), Apart(b),
         \A x \in ToSet(a), y \in ToSet(b) : ~Under(x, y) /\ ~Under(y, x)
  PROVE  Apart(a \o b)
<1> DEFINE s == a \o b
           m == Len(a)
           n == Len(b)
<1>1. /\ m \in Nat /\ n \in Nat /\ DOMAIN a = 1 .. m /\ DOMAIN b = 1 .. n /\ DOMAIN s = 1 .. m + n
      /\ \A i \in 1 .. m + n : s[i] = IF i <= m THEN a[i] ELSE b[i - m]
  BY ConcatProperties, LenProperties
<1> HIDE DEF s, m, n
<1>2. \A i \in 1 .. m + n :
        \/ i \in DOMAIN a /\ s[i] = a[i] /\ s[i] \in ToSet(a)
        \/ i - m \in DOMAIN b /\ s[i] = b[i - m] /\ s[i] \in ToSet(b) /\ i > m
  BY <1>1 DEF ToSet
<1>3. ASSUME NEW i \in 1 .. m + n, NEW j \in 1 .. m + n, i # j
      PROVE  ~Under(s[i], s[j])
  <2>1. CASE i \in DOMAIN a /\ s[i] = a[i] /\ j \in DOMAIN a /\ s[j] = a[j]
    BY <1>3, <2>1 DEF Apart
  <2>2. CASE i - m \in DOMAIN b /\ s[i] = b[i - m] /\ j - m \in DOMAIN b /\ s[j] = b[j - m]
    <3>1. i - m # j - m
      BY <1>1, <1>3
    <3> QED BY <2>2, <3>1 DEF Apart
  <2>3. CASE \/ s[i] \in ToSet(a) /\ s[j] \in ToSet(b)
             \/ s[i] \in ToSet(b) /\ s[j] \in ToSet(a)
    BY <2>3
  <2> QED BY <1>2, <2>1, <2>2, <2>3
<1> QED BY <1>1, <1>3 DEF Apart, s

\* The entries of a directory are apart, and apart from what it is apart from.
LEMMA ApartEntries ==
  ASSUME NEW t, FiniteTree(t), NEW d \in Path, NEW rest \in Seq(Path), Apart(rest),
         \A x \in ToSet(rest) : ~Under(d, x) /\ ~Under(x, d)
  PROVE  Apart(Entries(t, d) \o rest)
<1> DEFINE es == Entries(t, d)
<1>1. /\ es \in Seq(Path) /\ ToSet(es) \subseteq Path /\ ToSet(es) = Children(t, d)
      /\ \A i, j \in DOMAIN es : i # j => es[i] # es[j]
      /\ \A c \in ToSet(es) : Under(d, c) /\ Len(c) = Len(d) + 1
  BY EntriesAreChildren
<1>2. \A i \in DOMAIN es : es[i] \in ToSet(es)
  BY <1>1 DEF ToSet
<1>3. ToSet(rest) \subseteq Path /\ Len(d) \in Nat
  BY DEF ToSet, Path
<1> HIDE DEF es
<1>4. Apart(es)
  <2> SUFFICES ASSUME NEW i \in DOMAIN es, NEW j \in DOMAIN es, i # j, Under(es[i], es[j])
               PROVE  FALSE
    BY DEF Apart
  <2>1. es[i] \in Path /\ es[j] \in Path /\ Len(es[i]) = Len(es[j]) /\ es[i] # es[j]
    BY <1>1, <1>2
  <2> QED BY <2>1, UnderOrder
<1>5. \A x \in ToSet(es), y \in ToSet(rest) : ~Under(x, y) /\ ~Under(y, x)
  <2> SUFFICES ASSUME NEW x \in ToSet(es), NEW y \in ToSet(rest)
               PROVE  ~Under(x, y) /\ ~Under(y, x)
    OBVIOUS
  <2>1. x \in Path /\ y \in Path /\ Under(d, x) /\ ~Under(d, y) /\ ~Under(y, d)
    BY <1>1, <1>3
  <2>2. ~Under(x, y)
    BY <2>1, UnderOrder
  <2>3. Len(y) <= Len(d) \/ Len(d) <= Len(y)
    BY <1>3, <2>1 DEF Path
  <2> QED BY <2>1, <2>2, <2>3, UnderOrder
<1> QED BY <1>1, <1>4, <1>5, ApartJoin DEF es
=============================================================================
