-------------------------- MODULE AlgorithmsProofs --------------------------
(***************************************************************************)
(* Proofs about the pure parts of the system.                              *)
(***************************************************************************)
EXTENDS Algorithms, SequenceTheorems, FiniteSetTheorems, WellFoundedInduction, TLAPS

-----------------------------------------------------------------------------
(***************************************************************************)
(* Induction, and functions defined by recursion.                          *)
(***************************************************************************)

\* A set of numbers that is not empty has a least one.
LEMMA Least ==
  ASSUME NEW T \in SUBSET Nat, T # {}
  PROVE  \E n \in T : \A m \in T : ~(m < n)
<1>1. IsWellFoundedOn(OpToRel(<, Nat), Nat)
  BY NatLessThanWellFounded
<1>2. \E n \in T : \A m \in T : ~(<<m, n>> \in OpToRel(<, Nat))
  BY <1>1, WFMin
<1>3. \A m, n \in T : m < n => <<m, n>> \in OpToRel(<, Nat)
  <2> SUFFICES ASSUME NEW m \in T, NEW n \in T, m < n
               PROVE <<m, n>> \in {ss \in Nat \X Nat : ss[1] < ss[2]}
     BY Zenon DEF OpToRel
  <2> QED OBVIOUS
<1> QED BY <1>2, <1>3, Zenon

\* Induction over the natural numbers, of membership in a set.
LEMMA Induction ==
  ASSUME NEW S, 0 \in S, \A n \in Nat : n \in S => n + 1 \in S
  PROVE  Nat \subseteq S
<1> SUFFICES ASSUME Nat \ S # {} PROVE FALSE
  OBVIOUS
<1>1. PICK n \in Nat \ S : \A m \in Nat \ S : ~(m < n)
  <2> Nat \ S \in SUBSET Nat OBVIOUS
  <2> QED BY Least
<1>4. n # 0 /\ n - 1 \in Nat /\ n - 1 < n /\ (n - 1) + 1 = n
  BY <1>1
<1>5. n - 1 \in S
  BY <1>1, <1>4
<1> QED BY <1>4, <1>5, <1>1

\* A function may be defined by recursion over the natural numbers.
Unfolds(f, D, base, step) ==
  f \in [Nat -> D] /\ f[0] = base /\ \A n \in Nat : f[n + 1] = step[<<n, f[n]>>]

LEMMA Recursion ==
  ASSUME NEW D, NEW base \in D, NEW step \in [Nat \X D -> D]
  PROVE  \E f : Unfolds(f, D, base, step)
<1> DEFINE Good(n) == {g \in [0 .. n -> D] : g[0] = base /\ \A i \in 0 .. n - 1 : g[i + 1] = step[<<i, g[i]>>]}
<1>1. \A n \in Nat : Good(n) # {}
  <2> DEFINE S == {n \in Nat : Good(n) # {}}
  <2>1. 0 \in S
    <3>1. [i \in 0 .. 0 |-> base] \in Good(0)
      OBVIOUS
    <3> QED BY <3>1
  <2>2. ASSUME NEW n \in Nat, n \in S PROVE n + 1 \in S
    <3>1. PICK g \in Good(n) : TRUE
      BY <2>2
    <3> DEFINE h == [i \in 0 .. n + 1 |-> IF i = n + 1 THEN step[<<n, g[n]>>] ELSE g[i]]
    <3>2. h \in Good(n + 1)
      <4>1. h \in [0 .. n + 1 -> D]
        OBVIOUS
      <4>2. h[0] = base
        OBVIOUS
      <4>3. ASSUME NEW i \in 0 .. (n + 1) - 1 PROVE h[i + 1] = step[<<i, h[i]>>]
        <5>1. i \in 0 .. n /\ h[i] = g[i]
          OBVIOUS
        <5>2. CASE i = n
          <6>1. h[n + 1] = step[<<n, g[n]>>]
            OBVIOUS
          <6> QED BY <5>1, <5>2, <6>1
        <5>3. CASE i # n
          <6>1. i \in 0 .. n - 1 /\ h[i + 1] = g[i + 1]
            BY <5>3
          <6> QED BY <5>1, <6>1
        <5> QED BY <5>2, <5>3
      <4> QED BY <4>1, <4>2, <4>3
    <3>3. Good(n + 1) # {} /\ n + 1 \in Nat
      <4> HIDE DEF h, Good
      <4> QED BY <3>2
    <3> QED BY <3>3
  <2> HIDE DEF S
  <2>3. Nat \subseteq S
    BY <2>1, <2>2, Induction
  <2> QED BY <2>3 DEF S
<1> DEFINE pick == [n \in Nat |-> CHOOSE g \in Good(n) : TRUE]
<1>2. \A n \in Nat : pick[n] \in Good(n)
  BY <1>1
<1>3. \A n \in Nat : \A m \in 0 .. n : pick[n][m] = pick[m][m]
  <2> DEFINE S == {m \in Nat : \A n \in Nat : m <= n => pick[n][m] = pick[m][m]}
  <2> HIDE DEF pick
  <2>1. 0 \in S
    <3>1. \A n \in Nat : pick[n][0] = base
      BY <1>2
    <3> QED BY <3>1
  <2>2. ASSUME NEW m \in Nat, m \in S PROVE m + 1 \in S
    <3> SUFFICES ASSUME NEW n \in Nat, m + 1 <= n PROVE pick[n][m + 1] = pick[m + 1][m + 1]
      OBVIOUS
    <3>1. pick[n][m + 1] = step[<<m, pick[n][m]>>]
      <4>1. m \in 0 .. n - 1 OBVIOUS
      <4> QED BY <1>2, <4>1
    <3>2. pick[m + 1][m + 1] = step[<<m, pick[m + 1][m]>>]
      <4>1. m \in 0 .. (m + 1) - 1 /\ m + 1 \in Nat OBVIOUS
      <4> QED BY <1>2, <4>1
    <3>3. pick[n][m] = pick[m][m] /\ pick[m + 1][m] = pick[m][m]
      BY <2>2
    <3> QED BY <3>1, <3>2, <3>3
  <2> HIDE DEF S
  <2>3. Nat \subseteq S
    BY <2>1, <2>2, Induction
  <2> QED BY <2>3 DEF S
<1> DEFINE f == [n \in Nat |-> pick[n][n]]
<1> HIDE DEF pick
<1>4. f \in [Nat -> D]
  <2> SUFFICES ASSUME NEW n \in Nat PROVE pick[n][n] \in D
    OBVIOUS
  <2>1. pick[n] \in [0 .. n -> D] /\ n \in 0 .. n
    BY <1>2
  <2> QED BY <2>1
<1>5. f[0] = base
  BY <1>2
<1>6. ASSUME NEW n \in Nat PROVE f[n + 1] = step[<<n, f[n]>>]
  <2>1. pick[n + 1][n + 1] = step[<<n, pick[n + 1][n]>>]
    <3>1. n \in 0 .. (n + 1) - 1 /\ n + 1 \in Nat OBVIOUS
    <3> QED BY <1>2, <3>1
  <2>2. pick[n + 1][n] = pick[n][n]
    BY <1>3
  <2> QED BY <2>1, <2>2
<1> QED BY <1>4, <1>5, <1>6 DEF Unfolds
\* The same of a function over 0 .. N.
UnfoldsTo(f, N, D, base, step) ==
  f \in [0 .. N -> D] /\ f[0] = base /\ \A n \in 1 .. N : f[n] = step[<<n, f[n - 1]>>]

LEMMA RecursionTo ==
  ASSUME NEW N \in Nat, NEW D, NEW base \in D, NEW step \in [(1 .. N) \X D -> D]
  PROVE  \E f : UnfoldsTo(f, N, D, base, step)
<1> DEFINE next == [p \in Nat \X D |-> IF p[1] + 1 <= N THEN step[<<p[1] + 1, p[2]>>] ELSE base]
<1>1. next \in [Nat \X D -> D]
  <2> SUFFICES ASSUME NEW p \in Nat \X D PROVE next[p] \in D
    OBVIOUS
  <2>1. CASE p[1] + 1 <= N
    <3>1. <<p[1] + 1, p[2]>> \in (1 .. N) \X D
      BY <2>1
    <3> QED BY <2>1, <3>1
  <2> QED BY <2>1
<1>2. \A n \in 1 .. N : \A d \in D : n - 1 \in Nat /\ (n - 1) + 1 = n /\ next[<<n - 1, d>>] = step[<<n, d>>]
  <2> SUFFICES ASSUME NEW n \in 1 .. N, NEW d \in D
               PROVE  n - 1 \in Nat /\ (n - 1) + 1 = n /\ next[<<n - 1, d>>] = step[<<n, d>>]
    OBVIOUS
  <2>1. n - 1 \in Nat /\ (n - 1) + 1 = n /\ n <= N
    OBVIOUS
  <2>2. next[<<n - 1, d>>] = step[<<(n - 1) + 1, d>>]
    BY <2>1
  <2> QED BY <2>1, <2>2
<1> HIDE DEF next
<1>3. \E f : Unfolds(f, D, base, next)
  BY <1>1, Recursion
<1>4. PICK f \in [Nat -> D] : f[0] = base /\ \A n \in Nat : f[n + 1] = next[<<n, f[n]>>]
  BY <1>3 DEF Unfolds
<1> DEFINE h == [n \in 0 .. N |-> f[n]]
<1>5. h \in [0 .. N -> D] /\ h[0] = base
  BY <1>4
<1>6. ASSUME NEW n \in 1 .. N PROVE h[n] = step[<<n, h[n - 1]>>]
  <2>1. n - 1 \in Nat /\ (n - 1) + 1 = n /\ n \in 0 .. N /\ n - 1 \in 0 .. N
    OBVIOUS
  <2>2. f[n] = next[<<n - 1, f[n - 1]>>]
    BY <1>4, <2>1
  <2>3. f[n - 1] \in D
    BY <2>1
  <2>4. next[<<n - 1, f[n - 1]>>] = step[<<n, f[n - 1]>>]
    BY <1>2, <2>3
  <2> QED BY <2>1, <2>2, <2>4
<1> QED BY <1>5, <1>6 DEF UnfoldsTo

\* A function over 0 .. N that goes on in this way has its values in D.
LEMMA RecursionIs ==
  ASSUME NEW N \in Nat, NEW D, NEW base \in D, NEW step \in [(1 .. N) \X D -> D],
         NEW h, h = [n \in 0 .. N |-> h[n]], h[0] = base,
         \A n \in 1 .. N : h[n - 1] \in D => h[n] = step[<<n, h[n - 1]>>]
  PROVE  UnfoldsTo(h, N, D, base, step)
<1> DEFINE S == {n \in Nat : n <= N => h[n] \in D}
<1>1. 0 \in S
  OBVIOUS
<1>2. ASSUME NEW n \in Nat, n \in S PROVE n + 1 \in S
  <2> SUFFICES ASSUME n + 1 <= N PROVE h[n + 1] \in D
    OBVIOUS
  <2>1. n + 1 \in 1 .. N /\ (n + 1) - 1 = n /\ h[n] \in D
    BY <1>2
  <2>2. h[n + 1] = step[<<n + 1, h[n]>>]
    BY <2>1
  <2>3. <<n + 1, h[n]>> \in (1 .. N) \X D
    BY <2>1
  <2> QED BY <2>2, <2>3
<1> HIDE DEF S
<1>3. Nat \subseteq S
  BY <1>1, <1>2, Induction
<1>4. \A n \in 0 .. N : h[n] \in D
  BY <1>3 DEF S
<1>5. \A n \in 1 .. N : h[n - 1] \in D
  BY <1>4
<1>6. h \in [0 .. N -> D]
  BY <1>4
<1> QED BY <1>5, <1>6 DEF UnfoldsTo


\* The sums of numbers go on from one to the next.
LEMMA SumsUnfold ==
  ASSUME NEW numbers \in Seq(Nat)
  PROVE  /\ Sums(numbers) \in [0 .. Len(numbers) -> Nat]
         /\ Sums(numbers)[0] = 0
         /\ \A n \in 1 .. Len(numbers) : Sums(numbers)[n] = Sums(numbers)[n - 1] + numbers[n]
<1> DEFINE N == Len(numbers)
           step == [p \in (1 .. N) \X Nat |-> p[2] + numbers[p[1]]]
           body(f) == [n \in 0 .. N |-> IF n = 0 THEN 0 ELSE f[n - 1] + numbers[n]]
           L == Sums(numbers)
<1>1. N \in Nat /\ \A n \in 1 .. N : numbers[n] \in Nat
  OBVIOUS
<1>2. step \in [(1 .. N) \X Nat -> Nat] /\ 0 \in Nat
  BY <1>1
<1>3. \A n \in 1 .. N : \A d \in Nat : step[<<n, d>>] = d + numbers[n]
  OBVIOUS
<1>4. PICK f : UnfoldsTo(f, N, Nat, 0, step)
  <2> HIDE DEF step, N
  <2> QED BY <1>1, <1>2, RecursionTo
<1>5. f = body(f)
  <2> HIDE DEF step, N
  <2>1. f \in [0 .. N -> Nat] /\ f[0] = 0 /\ \A n \in 1 .. N : f[n] = step[<<n, f[n - 1]>>]
    BY <1>4 DEF UnfoldsTo
  <2>2. \A n \in 1 .. N : f[n - 1] \in Nat
    BY <1>1, <2>1
  <2>3. \A n \in 1 .. N : f[n] = f[n - 1] + numbers[n]
    BY <1>3, <2>1, <2>2
  <2> QED BY <1>1, <2>1, <2>3
<1>6. L = body(L)
  <2>1. L = CHOOSE h : h = body(h)
    BY DEF Sums
  <2> HIDE DEF body, L
  <2> QED BY <1>5, <2>1
<1>7. L = [n \in 0 .. N |-> L[n]] /\ L[0] = 0
      /\ \A n \in 1 .. N : L[n] = L[n - 1] + numbers[n]
  <2> HIDE DEF L, N
  <2>1. 0 \in 0 .. N /\ \A n \in 1 .. N : n \in 0 .. N /\ n # 0
    BY <1>1
  <2>2. \A n \in 0 .. N : L[n] = IF n = 0 THEN 0 ELSE L[n - 1] + numbers[n]
    BY <1>6
  <2>3. L = [n \in 0 .. N |-> L[n]]
    BY <1>6
  <2> QED BY <2>1, <2>2, <2>3
<1>8. UnfoldsTo(L, N, Nat, 0, step)
  <2> HIDE DEF L, N, step
  <2>1. \A n \in 1 .. N : L[n - 1] \in Nat => L[n] = step[<<n, L[n - 1]>>]
    BY <1>3, <1>7
  <2> QED BY <1>1, <1>2, <1>7, <2>1, RecursionIs
<1> QED BY <1>7, <1>8 DEF UnfoldsTo

-----------------------------------------------------------------------------
(***************************************************************************)
(* The ranks of the numbers of a finite set.                               *)
(***************************************************************************)

RankIn(S, i) == Cardinality({j \in S : j <= i})

LEMMA NumbersFinite ==
  ASSUME NEW N \in Nat, NEW S \in SUBSET (1 .. N)
  PROVE  IsFiniteSet(S) /\ Cardinality(S) \in Nat /\ \A i \in S : i \in Nat
<1>1. IsFiniteSet(1 .. N)
  BY FS_Interval
<1>2. IsFiniteSet(S)
  BY <1>1, FS_Subset
<1>3. Cardinality(S) \in Nat
  BY <1>2, FS_CardinalityType
<1> QED BY <1>2, <1>3

LEMMA RankType ==
  ASSUME NEW N \in Nat, NEW S \in SUBSET (1 .. N), NEW i \in S
  PROVE  RankIn(S, i) \in 1 .. Cardinality(S) /\ IsFiniteSet(S) /\ Cardinality(S) \in Nat
<1>1. IsFiniteSet(S) /\ \A j \in S : j \in Nat
  BY NumbersFinite
<1>2. {j \in S : j <= i} \in SUBSET S /\ {i} \in SUBSET {j \in S : j <= i}
  BY <1>1
<1>3. IsFiniteSet({j \in S : j <= i}) /\ RankIn(S, i) <= Cardinality(S)
  BY <1>1, <1>2, FS_Subset DEF RankIn
<1>4. Cardinality({i}) <= RankIn(S, i)
  BY <1>2, <1>3, FS_Subset DEF RankIn
<1>5. RankIn(S, i) \in Nat /\ Cardinality(S) \in Nat /\ Cardinality({i}) = 1
  BY <1>1, <1>3, FS_CardinalityType, FS_Singleton DEF RankIn
<1> QED BY <1>1, <1>3, <1>4, <1>5

\* A greater number of the set has a greater rank.
LEMMA RankGrows ==
  ASSUME NEW N \in Nat, NEW S \in SUBSET (1 .. N), NEW i \in S, NEW k \in S, i < k
  PROVE  RankIn(S, i) < RankIn(S, k)
<1> DEFINE A == {j \in S : j <= i}
           B == {j \in S : j <= k}
<1> \A j \in S : j \in Nat
  BY NumbersFinite
<1>1. A \in SUBSET B /\ k \in B \ A
  <2>1. \A j \in S : j <= i => j <= k
    OBVIOUS
  <2>2. k <= k /\ ~(k <= i)
    OBVIOUS
  <2> QED BY <2>1, <2>2
<1>2. IsFiniteSet(B)
  <2>1. B \in SUBSET S
    OBVIOUS
  <2> HIDE DEF B
  <2> QED BY <2>1, NumbersFinite, FS_Subset
<1>3. IsFiniteSet(A) /\ Cardinality(A) <= Cardinality(B) /\ Cardinality(A) # Cardinality(B)
  <2> HIDE DEF A, B
  <2> QED BY <1>1, <1>2, FS_Subset
<1>4. Cardinality(A) \in Nat /\ Cardinality(B) \in Nat
  <2> HIDE DEF A, B
  <2> QED BY <1>2, <1>3, FS_CardinalityType
<1> QED BY <1>3, <1>4 DEF RankIn

\* Each number up to the size of the set is the rank of one of its numbers.
LEMMA RankOnto ==
  ASSUME NEW N \in Nat, NEW S \in SUBSET (1 .. N), NEW n \in 1 .. Cardinality(S)
  PROVE  \E i \in S : RankIn(S, i) = n
<1> SUFFICES ASSUME \A i \in S : RankIn(S, i) # n PROVE FALSE
  OBVIOUS
<1> DEFINE T == (1 .. Cardinality(S)) \ {n}
           rank == [i \in S |-> RankIn(S, i)]
<1>1. IsFiniteSet(S) /\ Cardinality(S) \in Nat /\ \A i \in S : i \in Nat
  BY NumbersFinite
<1>2. rank \in [S -> T]
  BY RankType
<1>3. IsFiniteSet(T) /\ Cardinality(T) = Cardinality(S) - 1
  <2>1. IsFiniteSet(1 .. Cardinality(S)) /\ Cardinality(1 .. Cardinality(S)) = Cardinality(S)
    BY <1>1, FS_Interval
  <2> QED BY <2>1, FS_RemoveElement
<1>4. PICK x, y \in S : x # y /\ rank[x] = rank[y]
  <2>1. Cardinality(T) < Cardinality(S)
    BY <1>1, <1>3
  <2> HIDE DEF T, rank
  <2> QED BY <1>1, <1>2, <1>3, <2>1, FS_PigeonHole
<1>5. RankIn(S, x) = RankIn(S, y) /\ RankIn(S, x) \in Int /\ x \in Int /\ y \in Int
  <2>1. RankIn(S, x) \in 1 .. Cardinality(S)
    BY RankType
  <2> QED BY <1>1, <1>4, <2>1
<1>6. CASE x < y
  <2>1. RankIn(S, x) < RankIn(S, y)
    BY <1>6, RankGrows
  <2> QED BY <1>5, <2>1
<1>7. CASE y < x
  <2>1. RankIn(S, y) < RankIn(S, x)
    BY <1>7, RankGrows
  <2> QED BY <1>5, <2>1
<1> QED BY <1>4, <1>5, <1>6, <1>7

LEMMA NthInSet ==
  ASSUME NEW N \in Nat, NEW S \in SUBSET (1 .. N), NEW n \in 1 .. Cardinality(S)
  PROVE  Nth(S, n) \in S /\ RankIn(S, Nth(S, n)) = n
<1>1. \E i \in S : Cardinality({j \in S : j <= i}) = n
  BY RankOnto DEF RankIn
<1> HIDE DEF RankIn
<1>2. Nth(S, n) \in S /\ Cardinality({j \in S : j <= Nth(S, n)}) = n
  BY <1>1, Zenon DEF Nth
<1> QED BY <1>2, Zenon DEF RankIn

LEMMA NthOfRank ==
  ASSUME NEW N \in Nat, NEW S \in SUBSET (1 .. N), NEW i \in S
  PROVE  Nth(S, RankIn(S, i)) = i
<1> DEFINE k == Nth(S, RankIn(S, i))
<1> HIDE DEF k
<1>1. RankIn(S, i) \in 1 .. Cardinality(S) /\ \A j \in S : j \in Nat
  BY RankType, NumbersFinite
<1>2. k \in S /\ RankIn(S, k) = RankIn(S, i) /\ RankIn(S, i) \in Int
  <2>1. Nth(S, RankIn(S, i)) \in S /\ RankIn(S, Nth(S, RankIn(S, i))) = RankIn(S, i)
    BY <1>1, NthInSet
  <2> QED BY <1>1, <2>1 DEF k
<1>3. ~(k < i)
  <2> SUFFICES ASSUME k < i PROVE FALSE
    OBVIOUS
  <2>1. RankIn(S, k) < RankIn(S, i)
    BY <1>2, RankGrows
  <2> QED BY <1>2, <2>1
<1>4. ~(i < k)
  <2> SUFFICES ASSUME i < k PROVE FALSE
    OBVIOUS
  <2>1. RankIn(S, i) < RankIn(S, k)
    BY <1>2, RankGrows
  <2> QED BY <1>2, <2>1
<1>5. k = i
  BY <1>1, <1>2, <1>3, <1>4
<1> QED BY <1>5 DEF k

LEMMA NthGrows ==
  ASSUME NEW N \in Nat, NEW S \in SUBSET (1 .. N), NEW m \in 1 .. Cardinality(S),
         NEW n \in 1 .. Cardinality(S), m < n
  PROVE  Nth(S, m) < Nth(S, n)
<1>1. Nth(S, m) \in S /\ Nth(S, n) \in S /\ RankIn(S, Nth(S, m)) = m /\ RankIn(S, Nth(S, n)) = n
  BY NthInSet
<1>2. Nth(S, m) \in Nat /\ Nth(S, n) \in Nat
  BY <1>1, NumbersFinite
<1>3. CASE Nth(S, n) < Nth(S, m)
  <2>1. RankIn(S, Nth(S, n)) < RankIn(S, Nth(S, m))
    BY <1>1, <1>3, RankGrows
  <2> QED BY <1>1, <2>1
<1> QED BY <1>1, <1>2, <1>3

-----------------------------------------------------------------------------
(***************************************************************************)
(* Sequences made of the elements of others.                               *)
(***************************************************************************)

\* An injection of a finite set into the numbers up to its size is onto.
LEMMA InjectionOnto ==
  ASSUME NEW S, IsFiniteSet(S), NEW f \in [S -> 1 .. Cardinality(S)],
         \A i, k \in S : f[i] = f[k] => i = k, NEW n \in 1 .. Cardinality(S)
  PROVE  \E i \in S : f[i] = n
<1> SUFFICES ASSUME \A i \in S : f[i] # n PROVE FALSE
  OBVIOUS
<1> DEFINE T == (1 .. Cardinality(S)) \ {n}
<1>1. Cardinality(S) \in Nat
  BY FS_CardinalityType
<1>2. f \in [S -> T]
  OBVIOUS
<1>3. IsFiniteSet(T) /\ Cardinality(T) = Cardinality(S) - 1
  <2>1. IsFiniteSet(1 .. Cardinality(S)) /\ Cardinality(1 .. Cardinality(S)) = Cardinality(S)
    BY <1>1, FS_Interval
  <2> QED BY <2>1, FS_RemoveElement
<1> HIDE DEF T
<1>4. \E i, k \in S : i # k /\ f[i] = f[k]
  <2>1. Cardinality(T) < Cardinality(S)
    BY <1>1, <1>3
  <2> QED BY <1>2, <1>3, <2>1, FS_PigeonHole
<1> QED BY <1>4

LEMMA ListedIs ==
  ASSUME NEW S, NEW n \in Nat, NEW f \in [1 .. n -> S]
  PROVE  Listed(f) = f /\ f \in Seq(S) /\ Len(f) = n
<1>1. f \in Seq(S) /\ Len(f) = n
  OBVIOUS
<1>2. SubSeq(f, 1, Len(f)) = f
  BY <1>1, SubSeqFull
<1> QED BY <1>1, <1>2 DEF Listed

\* The elements of out are elements of seq, each at most once.
Drawn(out, seq) ==
  \E g \in [DOMAIN out -> DOMAIN seq] :
    /\ \A i, k \in DOMAIN out : g[i] = g[k] => i = k
    /\ \A i \in DOMAIN out : out[i] = seq[g[i]]

LEMMA DrawnTransitive ==
  ASSUME NEW a, NEW b, NEW c, Drawn(a, b), Drawn(b, c)
  PROVE  Drawn(a, c)
<1>1. PICK f \in [DOMAIN a -> DOMAIN b] : /\ \A i, k \in DOMAIN a : f[i] = f[k] => i = k
                                          /\ \A i \in DOMAIN a : a[i] = b[f[i]]
  BY DEF Drawn
<1>2. PICK g \in [DOMAIN b -> DOMAIN c] : /\ \A i, k \in DOMAIN b : g[i] = g[k] => i = k
                                          /\ \A i \in DOMAIN b : b[i] = c[g[i]]
  BY DEF Drawn
<1> DEFINE h == [i \in DOMAIN a |-> g[f[i]]]
<1>3. h \in [DOMAIN a -> DOMAIN c]
  OBVIOUS
<1>4. \A i, k \in DOMAIN a : h[i] = h[k] => i = k
  BY <1>1, <1>2
<1>5. \A i \in DOMAIN a : a[i] = c[h[i]]
  BY <1>1, <1>2
<1> HIDE DEF h
<1> QED BY <1>3, <1>4, <1>5 DEF Drawn

LEMMA DrawnSeq ==
  ASSUME NEW S, NEW seq \in Seq(S), NEW T, NEW out \in Seq(T), Drawn(out, seq)
  PROVE  out \in Seq(S) /\ ToSet(out) \subseteq ToSet(seq)
<1>1. PICK g \in [DOMAIN out -> DOMAIN seq] : \A i \in DOMAIN out : out[i] = seq[g[i]]
  BY DEF Drawn
<1>2. \A i \in DOMAIN out : out[i] \in S
  BY <1>1
<1>3. out \in Seq(S)
  BY <1>2
<1>4. ToSet(out) \subseteq ToSet(seq)
  BY <1>1 DEF ToSet
<1> QED BY <1>3, <1>4

LEMMA PickIs ==
  ASSUME NEW S, NEW seq \in Seq(S), NEW at \in SUBSET DOMAIN seq
  PROVE  /\ Pick(seq, at) \in Seq(S)
         /\ Len(Pick(seq, at)) = Cardinality(at) /\ Cardinality(at) \in Nat
         /\ \A n \in 1 .. Cardinality(at) : Nth(at, n) \in at /\ Pick(seq, at)[n] = seq[Nth(at, n)]
<1> DEFINE c == Cardinality(at)
           f == [n \in 1 .. c |-> seq[Nth(at, n)]]
<1>1. at \in SUBSET (1 .. Len(seq)) /\ Len(seq) \in Nat
  OBVIOUS
<1>2. c \in Nat
  BY <1>1, NumbersFinite
<1>3. \A n \in 1 .. c : Nth(at, n) \in at
  BY <1>1, NthInSet
<1>4. \A n \in 1 .. c : seq[Nth(at, n)] \in S
  BY <1>3
<1>5. f \in [1 .. c -> S]
  BY <1>4
<1>6. Pick(seq, at) = f /\ f \in Seq(S) /\ Len(f) = c
  <2> HIDE DEF f, c
  <2>1. Listed(f) = f /\ f \in Seq(S) /\ Len(f) = c
    BY <1>2, <1>5, ListedIs
  <2>2. Pick(seq, at) = Listed(f)
    BY DEF Pick, f, c
  <2> QED BY <2>1, <2>2
<1> HIDE DEF c
<1>7. \A n \in 1 .. c : f[n] = seq[Nth(at, n)]
  OBVIOUS
<1> HIDE DEF f
<1> QED BY <1>2, <1>3, <1>6, <1>7 DEF c

LEMMA PickDrawn ==
  ASSUME NEW S, NEW seq \in Seq(S), NEW at \in SUBSET DOMAIN seq
  PROVE  Drawn(Pick(seq, at), seq)
<1> DEFINE c == Cardinality(at)
           out == Pick(seq, at)
           g == [n \in 1 .. c |-> Nth(at, n)]
<1>1. at \in SUBSET (1 .. Len(seq)) /\ Len(seq) \in Nat
  OBVIOUS
<1>2. out \in Seq(S) /\ Len(out) = c /\ \A n \in 1 .. c : Nth(at, n) \in at /\ out[n] = seq[Nth(at, n)]
  BY PickIs
<1>3. c \in Nat
  BY PickIs
<1>4. \A m, n \in 1 .. c : m < n => Nth(at, m) < Nth(at, n)
  BY <1>1, NthGrows
<1>5. \A n \in 1 .. c : Nth(at, n) \in Nat
  BY <1>1, <1>2
<1>6. DOMAIN out = 1 .. c
  <2> HIDE DEF out, c
  <2> QED BY <1>2
<1> HIDE DEF out, c
<1>7. g \in [DOMAIN out -> DOMAIN seq]
  BY <1>2, <1>6
<1>8. \A m, n \in DOMAIN out : g[m] = g[n] => m = n
  <2> SUFFICES ASSUME NEW m \in 1 .. c, NEW n \in 1 .. c, Nth(at, m) = Nth(at, n) PROVE m = n
    BY <1>6
  <2>1. ~(m < n) /\ ~(n < m)
    BY <1>4, <1>5
  <2> QED BY <1>3, <2>1
<1>9. \A n \in DOMAIN out : out[n] = seq[g[n]]
  BY <1>2, <1>6
<1> HIDE DEF g
<1>10. Drawn(out, seq)
  BY <1>7, <1>8, <1>9 DEF Drawn
<1> QED BY <1>10 DEF out

\* Every place that is picked has one in the result.
LEMMA PickHas ==
  ASSUME NEW S, NEW seq \in Seq(S), NEW at \in SUBSET DOMAIN seq, NEW i \in at
  PROVE  /\ RankIn(at, i) \in DOMAIN Pick(seq, at)
         /\ Nth(at, RankIn(at, i)) = i
         /\ Pick(seq, at)[RankIn(at, i)] = seq[i]
<1>1. at \in SUBSET (1 .. Len(seq)) /\ Len(seq) \in Nat
  OBVIOUS
<1>2. RankIn(at, i) \in 1 .. Cardinality(at) /\ Nth(at, RankIn(at, i)) = i
  BY <1>1, RankType, NthOfRank
<1>3. Pick(seq, at) \in Seq(S) /\ Len(Pick(seq, at)) = Cardinality(at)
      /\ Pick(seq, at)[RankIn(at, i)] = seq[Nth(at, RankIn(at, i))]
  BY <1>2, PickIs
<1>4. RankIn(at, i) \in DOMAIN Pick(seq, at)
  BY <1>2, <1>3
<1> QED BY <1>2, <1>3, <1>4

\* A strict linear order of the places.
Linear(ahead, D) ==
  /\ \A i \in D : <<i, i>> \notin ahead
  /\ \A i, j, k \in D : <<i, j>> \in ahead /\ <<j, k>> \in ahead => <<i, k>> \in ahead
  /\ \A i, k \in D : i = k \/ <<i, k>> \in ahead \/ <<k, i>> \in ahead

\* A sorted sequence has all elements, in the order.
SortedBy(out, seq, ahead, g) ==
  /\ g \in [DOMAIN seq -> DOMAIN seq]
  /\ \A n \in DOMAIN seq : out[n] = seq[g[n]]
  /\ \A m, n \in DOMAIN seq : m < n => <<g[m], g[n]>> \in ahead
  /\ \A i \in DOMAIN seq : \E n \in DOMAIN seq : g[n] = i

LEMMA SortedIs ==
  ASSUME NEW S, NEW seq \in Seq(S), NEW ahead, Linear(ahead, DOMAIN seq)
  PROVE  /\ Sorted(seq, ahead) \in Seq(S) /\ Len(Sorted(seq, ahead)) = Len(seq)
         /\ \E g : SortedBy(Sorted(seq, ahead), seq, ahead, g)
<1> DEFINE D == DOMAIN seq
           N == Len(seq)
           before(i) == {j \in D : <<j, i>> \in ahead}
           f == [i \in D |-> Cardinality(before(i)) + 1]
<1>1. D = 1 .. N /\ N \in Nat /\ IsFiniteSet(D) /\ Cardinality(D) = N
  <2>1. D = 1 .. N /\ N \in Nat
    OBVIOUS
  <2> HIDE DEF D, N
  <2>2. IsFiniteSet(1 .. N) /\ Cardinality(1 .. N) = N
    BY <2>1, FS_Interval
  <2> QED BY <2>1, <2>2
<1>2. ASSUME NEW i \in D PROVE IsFiniteSet(before(i)) /\ Cardinality(before(i)) \in 0 .. N - 1
  <2>1. before(i) \in SUBSET (D \ {i})
    BY DEF Linear
  <2>2. IsFiniteSet(D \ {i}) /\ Cardinality(D \ {i}) = N - 1
    BY <1>1, FS_RemoveElement
  <2> HIDE DEF before, D, N
  <2>3. IsFiniteSet(before(i)) /\ Cardinality(before(i)) <= N - 1
    BY <2>1, <2>2, FS_Subset
  <2>4. Cardinality(before(i)) \in Nat
    BY <2>3, FS_CardinalityType
  <2> QED BY <1>1, <2>3, <2>4
<1>3. ASSUME NEW i \in D, NEW k \in D, <<i, k>> \in ahead
      PROVE  Cardinality(before(i)) < Cardinality(before(k))
  <2>1. before(i) \in SUBSET before(k) /\ i \in before(k) /\ i \notin before(i)
    BY <1>3 DEF Linear
  <2>2. IsFiniteSet(before(k)) /\ Cardinality(before(i)) \in Nat /\ Cardinality(before(k)) \in Nat
    <3> HIDE DEF before, D, N
    <3> QED BY <1>2
  <2> HIDE DEF before
  <2>3. Cardinality(before(i)) <= Cardinality(before(k))
        /\ Cardinality(before(k)) # Cardinality(before(i))
    BY <2>1, <2>2, FS_Subset
  <2> QED BY <2>2, <2>3
<1>4. f \in [D -> 1 .. Cardinality(D)]
  <2> HIDE DEF before, D
  <2> QED BY <1>1, <1>2
<1>5. \A i, k \in D : f[i] = f[k] => i = k
  <2> SUFFICES ASSUME NEW i \in D, NEW k \in D, f[i] = f[k], i # k PROVE FALSE
    OBVIOUS
  <2>1. Cardinality(before(i)) = Cardinality(before(k)) /\ Cardinality(before(i)) \in Int
    <3> HIDE DEF before, D
    <3>1. Cardinality(before(i)) \in Int /\ Cardinality(before(k)) \in Int
      BY <1>2
    <3> QED BY <3>1
  <2>2. <<i, k>> \in ahead \/ <<k, i>> \in ahead
    BY DEF Linear
  <2> HIDE DEF before, D
  <2> QED BY <1>3, <2>1, <2>2
<1> DEFINE place(n) == CHOOSE i \in D : Cardinality(before(i)) = n - 1
           g == [n \in D |-> place(n)]
<1>6. ASSUME NEW n \in D PROVE place(n) \in D /\ Cardinality(before(place(n))) = n - 1
  <2>1. \E i \in D : f[i] = n
    <3> HIDE DEF f, D, N
    <3>1. n \in 1 .. Cardinality(D)
      BY <1>1, <1>6
    <3> QED BY <1>1, <1>4, <1>5, <3>1, InjectionOnto
  <2>2. \E i \in D : Cardinality(before(i)) = n - 1
    <3>1. PICK i \in D : f[i] = n
      BY <2>1
    <3>2. f[i] = Cardinality(before(i)) + 1
      <4> HIDE DEF before, D
      <4> QED OBVIOUS
    <3> HIDE DEF before, D, f, N
    <3>3. Cardinality(before(i)) \in Int
      BY <1>2
    <3>4. Cardinality(before(i)) = n - 1
      BY <3>1, <3>2, <3>3
    <3> QED BY <3>4
  <2> HIDE DEF before, D
  <2> QED BY <2>2
<1>7. g \in [D -> D]
  <2> HIDE DEF place, D
  <2> QED BY <1>6
<1>8. \A n \in D : seq[place(n)] \in S
  <2> HIDE DEF place, before
  <2> QED BY <1>6
<1> DEFINE h == [n \in D |-> seq[place(n)]]
<1>9. h \in [1 .. N -> S]
  <2> HIDE DEF place, D
  <2> QED BY <1>1, <1>8
<1>10. Sorted(seq, ahead) = h /\ h \in Seq(S) /\ Len(h) = N
  <2>1. Sorted(seq, ahead) = Listed(h)
    BY DEF Sorted
  <2> HIDE DEF h, N
  <2> QED BY <1>1, <1>9, <2>1, ListedIs
<1>11. \A n \in D : h[n] = seq[g[n]]
  <2> HIDE DEF place, D
  <2> QED OBVIOUS
<1>12. \A m, n \in D : m < n => <<g[m], g[n]>> \in ahead
  <2> SUFFICES ASSUME NEW m \in D, NEW n \in D, m < n PROVE <<place(m), place(n)>> \in ahead
    <3> HIDE DEF place, D
    <3> QED OBVIOUS
  <2>1. /\ place(m) \in D /\ Cardinality(before(place(m))) = m - 1
        /\ place(n) \in D /\ Cardinality(before(place(n))) = n - 1
    BY <1>6
  <2>2. m \in Nat /\ n \in Nat
    BY <1>1
  <2> HIDE DEF place, before
  <2>3. place(m) # place(n)
    BY <2>1, <2>2
  <2>4. ~(<<place(n), place(m)>> \in ahead)
    <3> SUFFICES ASSUME <<place(n), place(m)>> \in ahead PROVE FALSE
      OBVIOUS
    <3> HIDE DEF D
    <3>1. Cardinality(before(place(n))) < Cardinality(before(place(m)))
      BY <1>3, <2>1
    <3> QED BY <2>1, <2>2, <3>1
  <2> QED BY <2>1, <2>3, <2>4 DEF Linear
<1>13. \A i \in D : \E n \in D : g[n] = i
  <2> SUFFICES ASSUME NEW i \in D PROVE \E n \in D : g[n] = i
    OBVIOUS
  <2> DEFINE n == Cardinality(before(i)) + 1
  <2>1. n \in D /\ Cardinality(before(i)) = n - 1
    <3> HIDE DEF before, D
    <3> QED BY <1>1, <1>2
  <2>2. place(n) \in D /\ Cardinality(before(place(n))) = n - 1
    <3> HIDE DEF n, place, before, D
    <3> QED BY <1>6, <2>1
  <2>3. f[place(n)] = f[i]
    <3> HIDE DEF n, place, before, D
    <3> QED BY <2>1, <2>2
  <2>4. place(n) = i
    <3> HIDE DEF n, place, f, D
    <3> QED BY <1>5, <2>2, <2>3
  <2> HIDE DEF n, place, D
  <2> QED BY <2>1, <2>4
<1> HIDE DEF h, g, N
<1>14. \A n \in D : Sorted(seq, ahead)[n] = seq[g[n]]
  BY <1>10, <1>11
<1>15. SortedBy(Sorted(seq, ahead), seq, ahead, g)
  BY <1>7, <1>12, <1>13, <1>14 DEF SortedBy
<1> QED BY <1>10, <1>15 DEF N

LEMMA DrawnLen ==
  ASSUME NEW S, NEW seq \in Seq(S), NEW T, NEW out \in Seq(T), Drawn(out, seq)
  PROVE  Len(out) <= Len(seq)
<1>1. PICK g \in [DOMAIN out -> DOMAIN seq] : \A i, k \in DOMAIN out : g[i] = g[k] => i = k
  BY DEF Drawn
<1> DEFINE A == 1 .. Len(out)
           B == 1 .. Len(seq)
<1>2. Len(out) \in Nat /\ Len(seq) \in Nat /\ g \in [A -> B] /\ \A i, k \in A : g[i] = g[k] => i = k
  BY <1>1
<1>3. /\ IsFiniteSet(A) /\ Cardinality(A) = Len(out)
      /\ IsFiniteSet(B) /\ Cardinality(B) = Len(seq)
  <2>1. \A n \in Nat : IsFiniteSet(1 .. n) /\ Cardinality(1 .. n) = n
    BY FS_Interval
  <2> QED BY <1>2, <2>1
<1> SUFFICES ASSUME Len(seq) < Len(out) PROVE FALSE
  BY <1>2
<1> HIDE DEF A, B
<1>4. \E i, k \in A : i # k /\ g[i] = g[k]
  BY <1>2, <1>3, FS_PigeonHole
<1> QED BY <1>2, <1>4

LEMMA SubSeqDrawn ==
  ASSUME NEW S, NEW seq \in Seq(S), NEW n \in 0 .. Len(seq)
  PROVE  /\ SubSeq(seq, 1, n) \in Seq(S) /\ Len(SubSeq(seq, 1, n)) = n
         /\ \A i \in 1 .. n : SubSeq(seq, 1, n)[i] = seq[i]
         /\ Drawn(SubSeq(seq, 1, n), seq)
<1> DEFINE out == SubSeq(seq, 1, n)
           g == [i \in 1 .. n |-> i]
<1>1. out \in Seq(S) /\ Len(out) = n /\ \A i \in 1 .. n : out[i] = seq[i]
  OBVIOUS
<1>2. DOMAIN out = 1 .. n
  BY <1>1
<1>3. g \in [DOMAIN out -> DOMAIN seq]
  BY <1>2
<1>4. \A i, k \in DOMAIN out : g[i] = g[k] => i = k
  BY <1>2
<1>5. \A i \in DOMAIN out : out[i] = seq[g[i]]
  BY <1>1, <1>2
<1> HIDE DEF g
<1>6. Drawn(out, seq)
  BY <1>3, <1>4, <1>5 DEF Drawn
<1> QED BY <1>1, <1>6

LEMMA SortedDrawn ==
  ASSUME NEW S, NEW seq \in Seq(S), NEW ahead, Linear(ahead, DOMAIN seq)
  PROVE  Drawn(Sorted(seq, ahead), seq)
<1> DEFINE out == Sorted(seq, ahead)
           N == Len(seq)
<1>1. /\ out \in Seq(S) /\ Len(out) = N
      /\ \E g \in [DOMAIN seq -> DOMAIN seq] :
           /\ \A n \in DOMAIN seq : out[n] = seq[g[n]]
           /\ \A m, n \in DOMAIN seq : m < n => <<g[m], g[n]>> \in ahead
  BY SortedIs DEF SortedBy
<1>2. DOMAIN out = 1 .. N /\ DOMAIN seq = 1 .. N /\ N \in Nat
  <2> HIDE DEF out
  <2> QED BY <1>1
<1> HIDE DEF out, N
<1>3. PICK g \in [DOMAIN seq -> DOMAIN seq] :
           /\ \A n \in DOMAIN seq : out[n] = seq[g[n]]
           /\ \A m, n \in DOMAIN seq : m < n => <<g[m], g[n]>> \in ahead
  BY <1>1
<1>4. \A m, n \in DOMAIN seq : g[m] = g[n] => m = n
  <2> SUFFICES ASSUME NEW m \in 1 .. N, NEW n \in 1 .. N, g[m] = g[n], m < n PROVE FALSE
    BY <1>2
  <2>1. <<g[m], g[m]>> \in ahead /\ g[m] \in DOMAIN seq
    BY <1>2, <1>3
  <2> QED BY <2>1 DEF Linear
<1>5. Drawn(out, seq)
  BY <1>2, <1>3, <1>4 DEF Drawn
<1> QED BY <1>5 DEF out

-----------------------------------------------------------------------------
(***************************************************************************)
(* Sums.                                                                   *)
(***************************************************************************)

LEMMA TotalType ==
  ASSUME NEW numbers \in Seq(Nat)
  PROVE  Total(numbers) \in Nat /\ (numbers = <<>> => Total(numbers) = 0)
<1>1. Len(numbers) \in 0 .. Len(numbers) /\ (numbers = <<>> => Len(numbers) = 0)
  OBVIOUS
<1>2. Sums(numbers) \in [0 .. Len(numbers) -> Nat] /\ Sums(numbers)[0] = 0
  BY SumsUnfold
<1> QED BY <1>1, <1>2 DEF Total

LEMMA Adding ==
  ASSUME NEW x \in Nat, NEW y \in Nat, NEW p \in Nat, NEW q \in Nat, NEW d \in Nat,
         NEW e \in Nat, y <= x + d, q <= p + e
  PROVE  y + q <= x + p + (d + e)
OBVIOUS

\* Numbers of which at most one is greater, by at most d, have a total that is
\* greater by at most d.
LEMMA TotalOneMore ==
  ASSUME NEW a \in Seq(Nat), NEW b \in Seq(Nat), Len(a) = Len(b), NEW d \in Nat,
         \A i \in DOMAIN a : b[i] <= a[i] + d,
         \A i, k \in DOMAIN a : b[i] > a[i] /\ b[k] > a[k] => i = k
  PROVE  Total(b) <= Total(a) + d
<1> DEFINE N == Len(a)
           A == Sums(a)
           B == Sums(b)
           more(n) == \E i \in 1 .. n : b[i] > a[i]
           S == {n \in Nat : n <= N => B[n] <= A[n] + IF more(n) THEN d ELSE 0}
<1>1. /\ A \in [0 .. N -> Nat] /\ A[0] = 0 /\ \A n \in 1 .. N : A[n] = A[n - 1] + a[n]
      /\ B \in [0 .. N -> Nat] /\ B[0] = 0 /\ \A n \in 1 .. N : B[n] = B[n - 1] + b[n]
  BY SumsUnfold
<1>2. /\ N \in Nat /\ DOMAIN a = 1 .. N
      /\ \A i \in 1 .. N : a[i] \in Nat /\ b[i] \in Nat /\ b[i] <= a[i] + d
      /\ \A i, k \in 1 .. N : b[i] > a[i] /\ b[k] > a[k] => i = k
  <2>1. N \in Nat /\ DOMAIN a = 1 .. N
    OBVIOUS
  <2>2. \A i \in 1 .. N : a[i] \in Nat /\ b[i] \in Nat
    OBVIOUS
  <2> HIDE DEF N
  <2> QED BY <2>1, <2>2
<1> HIDE DEF A, B, N
<1>3. 0 \in S
  BY <1>1
<1>4. ASSUME NEW n \in Nat, n \in S PROVE n + 1 \in S
  <2> SUFFICES ASSUME n + 1 <= N
               PROVE  B[n + 1] <= A[n + 1] + IF more(n + 1) THEN d ELSE 0
    OBVIOUS
  <2>1. /\ n + 1 \in 1 .. N /\ n \in 0 .. N
        /\ A[n + 1] = A[n] + a[n + 1] /\ B[n + 1] = B[n] + b[n + 1]
        /\ A[n] \in Nat /\ B[n] \in Nat
    <3>1. n + 1 \in 1 .. N /\ n \in 0 .. N /\ (n + 1) - 1 = n
      BY <1>2
    <3> QED BY <1>1, <3>1
  <2>2. B[n] <= A[n] + IF more(n) THEN d ELSE 0
    BY <1>4, <2>1
  <2>3. a[n + 1] \in Nat /\ b[n + 1] \in Nat /\ b[n + 1] <= a[n + 1] + d
    BY <1>2, <2>1
  <2>4. (more(n) => more(n + 1)) /\ (b[n + 1] > a[n + 1] => more(n + 1))
    <3>1. n + 1 \in 1 .. n + 1 /\ \A i \in 1 .. n : i \in 1 .. n + 1
      OBVIOUS
    <3> QED BY <3>1
  <2>5. more(n) => ~(b[n + 1] > a[n + 1])
    <3> SUFFICES ASSUME NEW i \in 1 .. n, b[i] > a[i], b[n + 1] > a[n + 1] PROVE FALSE
      OBVIOUS
    <3>1. i \in 1 .. N /\ i # n + 1
      BY <1>2, <2>1
    <3> QED BY <1>2, <2>1, <3>1
  <2>6. CASE more(n)
    <3>1. B[n] <= A[n] + d /\ more(n + 1) /\ ~(b[n + 1] > a[n + 1])
      BY <2>2, <2>4, <2>5, <2>6
    <3> HIDE DEF more
    <3>2. b[n + 1] <= a[n + 1] + 0
      BY <2>3, <3>1
    <3>3. B[n] + b[n + 1] <= A[n] + a[n + 1] + (d + 0)
      BY <2>1, <2>3, <3>1, <3>2, Adding
    <3>4. B[n + 1] <= A[n + 1] + d
      BY <2>1, <3>3
    <3> QED BY <3>1, <3>4
  <2>7. CASE ~more(n) /\ b[n + 1] > a[n + 1]
    <3>1. B[n] <= A[n] /\ more(n + 1)
      BY <2>1, <2>2, <2>4, <2>7
    <3> HIDE DEF more
    <3>2. B[n] <= A[n] + 0
      BY <2>1, <3>1
    <3>3. B[n] + b[n + 1] <= A[n] + a[n + 1] + (0 + d)
      BY <2>1, <2>3, <3>2, Adding
    <3>4. B[n + 1] <= A[n + 1] + d
      BY <2>1, <3>3
    <3> QED BY <3>1, <3>4
  <2>8. CASE ~more(n) /\ ~(b[n + 1] > a[n + 1])
    <3>1. B[n] <= A[n]
      BY <2>1, <2>2, <2>8
    <3> HIDE DEF more
    <3>2. B[n] <= A[n] + 0 /\ b[n + 1] <= a[n + 1] + 0
      BY <2>1, <2>3, <2>8, <3>1
    <3>3. B[n] + b[n + 1] <= A[n] + a[n + 1] + (0 + 0)
      BY <2>1, <2>3, <3>2, Adding
    <3>4. A[n + 1] \in Nat /\ B[n + 1] \in Nat
      <4>1. n + 1 \in 0 .. N
        BY <2>1
      <4> QED BY <1>1, <4>1
    <3>5. B[n + 1] <= A[n + 1] + 0 /\ B[n + 1] <= A[n + 1] + d
      BY <2>1, <3>3, <3>4
    <3> QED BY <3>5
  <2> QED BY <2>6, <2>7, <2>8
<1> HIDE DEF S
<1>5. Nat \subseteq S
  BY <1>3, <1>4, Induction
<1>6. B[N] <= A[N] + IF more(N) THEN d ELSE 0
  <2>1. N \in S /\ N <= N
    BY <1>2, <1>5
  <2> HIDE DEF more
  <2> QED BY <2>1, Zenon DEF S
<1>7. A[N] \in Nat /\ B[N] \in Nat
  BY <1>1, <1>2
<1>8. Total(a) = A[N] /\ Total(b) = B[N]
  BY DEF Total, A, B, N
<1> HIDE DEF more
<1> QED BY <1>6, <1>7, <1>8

LEMMA TotalZero ==
  ASSUME NEW a \in Seq(Nat), \A i \in DOMAIN a : a[i] = 0
  PROVE  Total(a) = 0
<1> DEFINE N == Len(a)
           A == Sums(a)
           S == {n \in Nat : n <= N => A[n] = 0}
<1>1. A[0] = 0 /\ \A n \in 1 .. N : A[n] = A[n - 1] + a[n]
  BY SumsUnfold
<1>2. N \in Nat /\ \A n \in 1 .. N : a[n] = 0
  OBVIOUS
<1> HIDE DEF A, N
<1>3. 0 \in S
  BY <1>1
<1>4. ASSUME NEW n \in Nat, n \in S PROVE n + 1 \in S
  <2> SUFFICES ASSUME n + 1 <= N PROVE A[n + 1] = 0
    OBVIOUS
  <2>1. n + 1 \in 1 .. N /\ (n + 1) - 1 = n /\ A[n] = 0
    BY <1>4, <1>2
  <2> QED BY <1>1, <1>2, <2>1
<1> HIDE DEF S
<1>5. Nat \subseteq S
  BY <1>3, <1>4, Induction
<1> QED BY <1>2, <1>5 DEF S, Total, A, N

\* The sum of some of the numbers.
LEMMA DrawnTotal ==
  ASSUME NEW w \in Seq(Nat), NEW out \in Seq(Nat), Drawn(out, w)
  PROVE  Total(out) <= Total(w)
<1> DEFINE N == Len(w)
           M == Len(out)
           W == Sums(w)
<1>1. PICK g \in [1 .. M -> 1 .. N] : /\ \A i, k \in 1 .. M : g[i] = g[k] => i = k
                                      /\ \A i \in 1 .. M : out[i] = w[g[i]]
  <2>1. DOMAIN out = 1 .. M /\ DOMAIN w = 1 .. N
    OBVIOUS
  <2> HIDE DEF M, N
  <2> QED BY <2>1 DEF Drawn
<1>2. W \in [0 .. N -> Nat] /\ W[0] = 0 /\ \A n \in 1 .. N : W[n] = W[n - 1] + w[n]
  BY SumsUnfold
<1>3. /\ N \in Nat /\ M \in Nat /\ \A i \in 1 .. N : w[i] \in Nat
      /\ \A i \in 1 .. M : out[i] \in Nat /\ g[i] \in Nat
  <2>1. N \in Nat /\ M \in Nat /\ \A i \in 1 .. N : w[i] \in Nat
    OBVIOUS
  <2>2. \A i \in 1 .. M : out[i] \in Nat
    OBVIOUS
  <2> HIDE DEF M, N
  <2> QED BY <2>1, <2>2
<1>4. Total(w) = W[N]
  BY DEF Total
<1> HIDE DEF N, M, W
<1> DEFINE u(k) == [i \in 1 .. M |-> IF g[i] <= k THEN out[i] ELSE 0]
           S == {k \in Nat : k <= N => Total(u(k)) <= W[k]}
<1>5. ASSUME NEW k \in Nat PROVE u(k) \in Seq(Nat) /\ Len(u(k)) = M
  BY <1>3
<1>6. 0 \in S
  <2>1. \A i \in 1 .. M : u(0)[i] = 0
    BY <1>1, <1>3
  <2>2. DOMAIN u(0) = 1 .. M
    OBVIOUS
  <2>3. Total(u(0)) = 0
    <3> HIDE DEF u
    <3>1. 0 \in Nat
      OBVIOUS
    <3> QED BY <1>5, <2>1, <2>2, <3>1, TotalZero
  <2> HIDE DEF u
  <2> QED BY <1>2, <2>3
<1>7. ASSUME NEW k \in Nat, k \in S PROVE k + 1 \in S
  <2> SUFFICES ASSUME k + 1 <= N PROVE Total(u(k + 1)) <= W[k + 1]
    <3> HIDE DEF u
    <3> QED OBVIOUS
  <2>1. k + 1 \in 1 .. N /\ k \in 0 .. N /\ (k + 1) - 1 = k
    BY <1>3
  <2>2. Total(u(k)) <= W[k]
    BY <1>7, <2>1
  <2>3. w[k + 1] \in Nat /\ W[k + 1] = W[k] + w[k + 1] /\ W[k] \in Nat
    BY <1>2, <1>3, <2>1
  <2>4. ASSUME NEW i \in 1 .. M
        PROVE  /\ g[i] # k + 1 => u(k + 1)[i] = u(k)[i]
               /\ g[i] = k + 1 => u(k)[i] = 0 /\ u(k + 1)[i] = w[k + 1]
    <3>1. g[i] \in Nat /\ out[i] = w[g[i]] /\ ~(k + 1 <= k)
      BY <1>1, <1>3
    <3>2. g[i] # k + 1 => (g[i] <= k + 1 <=> g[i] <= k)
      BY <3>1
    <3> QED BY <3>1, <3>2
  <2>5. \A i \in 1 .. M : u(k)[i] \in Nat
    BY <1>3
  <2>6. DOMAIN u(k) = 1 .. M
    OBVIOUS
  <2> HIDE DEF u
  <2>7. \A i \in 1 .. M : u(k + 1)[i] <= u(k)[i] + w[k + 1]
    BY <2>3, <2>4, <2>5
  <2>8. \A i \in 1 .. M : u(k + 1)[i] > u(k)[i] => g[i] = k + 1
    BY <2>4, <2>5
  <2>9. \A i, j \in 1 .. M : u(k + 1)[i] > u(k)[i] /\ u(k + 1)[j] > u(k)[j] => i = j
    BY <1>1, <2>8
  <2>10. /\ u(k) \in Seq(Nat) /\ u(k + 1) \in Seq(Nat) /\ Len(u(k)) = Len(u(k + 1))
    <3>1. k + 1 \in Nat
      OBVIOUS
    <3> QED BY <1>5, <3>1
  <2>11. Total(u(k + 1)) <= Total(u(k)) + w[k + 1]
    BY <2>3, <2>6, <2>7, <2>9, <2>10, TotalOneMore
  <2>12. Total(u(k + 1)) \in Nat /\ Total(u(k)) \in Nat
    BY <2>10, TotalType
  <2> QED BY <2>2, <2>3, <2>11, <2>12
<1>8. u(N) = out
  <2>1. \A i \in 1 .. M : g[i] <= N
    BY <1>3
  <2>2. out = [i \in 1 .. M |-> out[i]]
    BY DEF M
  <2> QED BY <2>1, <2>2
<1> HIDE DEF S, u
<1>9. Nat \subseteq S
  BY <1>6, <1>7, Induction
<1>10. Total(u(N)) <= W[N]
  BY <1>3, <1>9 DEF S
<1> QED BY <1>4, <1>8, <1>10

LEMMA TotalAppend ==
  ASSUME NEW a \in Seq(Nat), NEW d \in Nat
  PROVE  Append(a, d) \in Seq(Nat) /\ Total(Append(a, d)) = Total(a) + d
<1> DEFINE N == Len(a)
           b == Append(a, d)
           A == Sums(a)
           B == Sums(b)
           S == {n \in Nat : n <= N => B[n] = A[n]}
<1>1. /\ N \in Nat /\ b \in Seq(Nat) /\ Len(b) = N + 1 /\ b[N + 1] = d
      /\ \A i \in 1 .. N : b[i] = a[i]
  OBVIOUS
<1>2. /\ A[0] = 0 /\ \A n \in 1 .. N : A[n] = A[n - 1] + a[n]
      /\ B[0] = 0 /\ \A n \in 1 .. N + 1 : B[n] = B[n - 1] + b[n]
  <2> HIDE DEF b
  <2> QED BY <1>1, SumsUnfold
<1>3. Total(a) = A[N] /\ Total(b) = B[N + 1]
  <2> HIDE DEF b
  <2> QED BY <1>1 DEF Total
<1> HIDE DEF A, B, N, b
<1>4. 0 \in S
  BY <1>2
<1>5. ASSUME NEW n \in Nat, n \in S PROVE n + 1 \in S
  <2> SUFFICES ASSUME n + 1 <= N PROVE B[n + 1] = A[n + 1]
    OBVIOUS
  <2>1. n + 1 \in 1 .. N /\ n + 1 \in 1 .. N + 1 /\ (n + 1) - 1 = n /\ B[n] = A[n]
    BY <1>5, <1>1
  <2> QED BY <1>1, <1>2, <2>1
<1> HIDE DEF S
<1>6. Nat \subseteq S
  BY <1>4, <1>5, Induction
<1>7. B[N] = A[N]
  BY <1>1, <1>6 DEF S
<1>8. N + 1 \in 1 .. N + 1 /\ (N + 1) - 1 = N
  BY <1>1
<1>9. B[N + 1] = A[N] + d
  BY <1>1, <1>2, <1>7, <1>8
<1> QED BY <1>1, <1>3, <1>9 DEF b

-----------------------------------------------------------------------------
(***************************************************************************)
(* The fronts of the daemon.                                               *)
(***************************************************************************)

\* The place of the only element of a sequence that is equal to w.
LEMMA OnlyPlace ==
  ASSUME NEW W, NEW seq \in Seq(W), NEW w,
         NEW i \in DOMAIN seq, seq[i] = w, \A j \in DOMAIN seq : seq[j] = w => j = i
  PROVE  {j \in 1 .. Len(seq) : seq[j] = w} = {i} /\ Min({j \in DOMAIN seq : seq[j] = w}) = i
<1>1. {j \in DOMAIN seq : seq[j] = w} = {i} /\ {j \in 1 .. Len(seq) : seq[j] = w} = {i}
  OBVIOUS
<1>2. i \in Int /\ Min({i}) = i
  BY DEF Min
<1> QED BY <1>1, <1>2

\* What the parser of options has for a flag that takes a value.
ParsedValue(words, flag) ==
  LET at == {i \in DOMAIN words : words[i] = flag}
  IN IF at = {} THEN NoWord ELSE words[Min(at) + 1]

\* In well-formed words readOption and the parser of options find the same value
\* of a flag, and find one if the flag is there.
LEMMA OptionIsParsed ==
  ASSUME NEW c \in Command, NEW words \in Seq(Flag \cup Name), WellFormed(c, words),
         NEW flag \in {"--source-id", "--config"}
  PROVE  /\ OptionValue(words, flag) = ParsedValue(words, flag)
         /\ OptionValue(words, flag) = NoWord => \A i \in DOMAIN words : words[i] # flag
<1>1. CASE \A i \in DOMAIN words : words[i] # flag
  <2>1. {i \in 1 .. Len(words) : words[i] = flag} = {} /\ {i \in DOMAIN words : words[i] = flag} = {}
    BY <1>1
  <2> QED BY <1>1, <2>1 DEF OptionValue, ParsedValue, SelectInSeq
<1>2. CASE \E i \in DOMAIN words : words[i] = flag
  <2>1. PICK i \in DOMAIN words : words[i] = flag
    BY <1>2
  <2>2. flag \in Flag /\ Takes(flag)
    BY DEF Flag, Takes
  <2>3. \A j \in DOMAIN words : words[j] = flag => j = i
    BY <2>1, <2>2 DEF WellFormed
  <2>4. i < Len(words) /\ words[i + 1] \in Name
    BY <2>1, <2>2 DEF WellFormed
  <2>5. /\ {j \in 1 .. Len(words) : words[j] = flag} = {i} /\ Min({i}) = i
        /\ Min({j \in DOMAIN words : words[j] = flag}) = i
    <3>1. {j \in 1 .. Len(words) : words[j] = flag} = {i}
      BY <2>1, <2>3
    <3> QED BY <2>1, <2>3, <3>1, OnlyPlace DEF Min
  <2>6. i \in 1 .. Len(words) - 1 /\ words[i + 1] # NoWord
    BY <2>4, NameAssumption
  <2>7. OptionValue(words, flag) = words[i + 1]
    BY <2>5, <2>6 DEF OptionValue, SelectInSeq
  <2>8. ParsedValue(words, flag) = words[i + 1]
    BY <2>1, <2>5 DEF ParsedValue
  <2> QED BY <2>6, <2>7, <2>8
<1> QED BY <1>1, <1>2

\* A word that is no flag stands behind the flag it is the value of.
LEMMA PositionalIsNone ==
  ASSUME NEW c \in Command, NEW words \in Seq(Flag \cup Name), WellFormed(c, words),
         \A i \in DOMAIN words : words[i] # WordFlag(c)
  PROVE  FirstPositional(words) = NoWord
<1>1. ASSUME NEW i \in DOMAIN words, words[i] \notin Flag PROVE FALSE
  <2>1. words[i] \in Name
    BY <1>1
  <2>2. i > 1 /\ Takes(words[i - 1]) /\ i - 1 \in DOMAIN words
    BY <2>1 DEF WellFormed
  <2>3. words[i - 1] \in {WordFlag(c), SwitchFlag(c)}
    <3>1. words[i - 1] \in Flag
      BY <2>2 DEF Takes, Flag
    <3>2. words[i - 1] \in ToSet(words)
      BY <2>2 DEF ToSet
    <3> QED BY <3>1, <3>2 DEF WellFormed
  <2>4. words[i - 1] = WordFlag(c)
    BY <2>2, <2>3 DEF Takes, SwitchFlag
  <2> QED BY <2>2, <2>4
<1>2. {i \in 1 .. Len(words) : words[i] \notin Flag} = {}
  BY <1>1
<1>3. SelectInSeq(words, LAMBDA v : v \notin Flag) = 0
  BY <1>2 DEF SelectInSeq
<1> QED BY <1>3 DEF FirstPositional

LEMMA FrontsMeet ==
  ASSUME NEW c \in Command, NEW words \in Seq(Flag \cup Name), WellFormed(c, words)
  PROVE  Chat(c, words) = Cli(c, words) /\ Cli(c, words) = PluginCli(c, ParsedOptions(words))
<1>1. WordFlag(c) \in {"--source-id", "--config"}
  BY DEF WordFlag
<1>2. Chat(c, words) = Cli(c, words)
  <2>1. CASE OptionValue(words, WordFlag(c)) = NoWord
    <3>1. \A i \in DOMAIN words : words[i] # WordFlag(c)
      BY <1>1, <2>1, OptionIsParsed
    <3>2. FirstPositional(words) = NoWord
      BY <3>1, PositionalIsNone
    <3> QED BY <2>1, <3>2 DEF Chat, Cli
  <2>2. CASE OptionValue(words, WordFlag(c)) # NoWord
    BY <2>2 DEF Chat, Cli
  <2> QED BY <2>1, <2>2
<1>3. ParsedOptions(words) =
        [sourceId |-> ParsedValue(words, "--source-id"), config |-> ParsedValue(words, "--config"),
         force |-> "--force" \in ToSet(words),
         enabledOnly |-> "--enabled-only" \in ToSet(words)]
  BY DEF ParsedOptions, ParsedValue
<1>4. Cli(c, words) = PluginCli(c, ParsedOptions(words))
  <2>1. OptionValue(words, WordFlag(c))
          = IF c = "add" THEN ParsedOptions(words).config ELSE ParsedOptions(words).sourceId
    BY <1>1, <1>3, OptionIsParsed DEF WordFlag
  <2>2. HasFlag(words, SwitchFlag(c))
          = IF c = "list" THEN ParsedOptions(words).enabledOnly ELSE ParsedOptions(words).force
    BY <1>3 DEF HasFlag, SwitchFlag
  <2> QED BY <2>1, <2>2 DEF Cli, PluginCli
<1> QED BY <1>2, <1>4

\* The words of a command are flags and names.
WordsOK == args \in Seq(Flag \cup Name)

\* Whatever well-formed words a command has, the chat command, the daemon's own CLI
\* and the CLI of the host make the same call of the daemon or refuse alike.
THEOREM FrontsCorrect == AlgorithmsSpec => []FrontsAgree
<1>1. AlgorithmsInit => WordsOK
  BY DEF AlgorithmsInit, WordsOK
<1>2. WordsOK /\ [AlgorithmsNext]_vars => WordsOK'
  <2> SUFFICES ASSUME WordsOK, [AlgorithmsNext]_vars PROVE WordsOK'
    OBVIOUS
  <2>1. CASE AppendWord
    BY <2>1 DEF AppendWord, WordsOK
  <2>2. CASE UNCHANGED args
    BY <2>2 DEF WordsOK
  <2> QED BY <2>1, <2>2 DEF AlgorithmsNext, vars, ReturnHit, AppendLine, LaunchNext, ServerNext, ReaderNext
<1>3. WordsOK => FrontsAgree
  BY FrontsMeet DEF WordsOK, FrontsAgree
<1> QED BY <1>1, <1>2, <1>3, PTL DEF AlgorithmsSpec

-----------------------------------------------------------------------------
(***************************************************************************)
(* The names of the chunks.                                                *)
(***************************************************************************)

\* The prepared chunk of this text.
PreparedOf(chunk, number, path, source) ==
  LET class == ClassifyChunk(chunk, path, source)
  IN [artifact |-> ArtifactId(chunk, path, source), fingerprint |-> <<source.id, chunk>>,
      classification |-> class, memoryType |-> MapMemoryType[class],
      content |-> chunk, source |-> source.id, sourcePath |-> <<path.name, number>>]

LEMMA PreparedIsOf ==
  ASSUME NEW content, NEW path, NEW source, NEW a \in ToSet(PrepareSourceChunks(content, path, source))
  PROVE  \E chunk, number : a = PreparedOf(chunk, number, path, source)
<1> DEFINE chunks == SplitContentIntoChunks(content)
           prepared == [i \in DOMAIN chunks |-> PreparedOf(chunks[i], i, path, source)]
<1>1. PrepareSourceChunks(content, path, source) = prepared
  BY DEF PrepareSourceChunks, PreparedOf
<1>2. PICK i \in DOMAIN prepared : a = prepared[i]
  BY <1>1 DEF ToSet
<1>3. a = PreparedOf(chunks[i], i, path, source)
  BY <1>2
<1> QED BY <1>3

\* A name of an artifact stands for one text of one file with one classification.
LEMMA NamesAreUnique ==
  ASSUME NEW content, NEW source, NEW a, NEW b,
         a \in UNION {ToSet(PrepareSourceChunks(content, p, source)) : p \in PathInput},
         b \in UNION {ToSet(PrepareSourceChunks(content, p, source)) : p \in PathInput},
         a.artifact = b.artifact
  PROVE  [a EXCEPT !.sourcePath = 0] = [b EXCEPT !.sourcePath = 0]
         /\ a.sourcePath[1] = b.sourcePath[1]
<1>1. PICK p \in PathInput : a \in ToSet(PrepareSourceChunks(content, p, source))
  OBVIOUS
<1>2. PICK q \in PathInput : b \in ToSet(PrepareSourceChunks(content, q, source))
  OBVIOUS
<1>3. PICK chunk, number : a = PreparedOf(chunk, number, p, source)
  BY <1>1, PreparedIsOf
<1>4. PICK other, place : b = PreparedOf(other, place, q, source)
  BY <1>2, PreparedIsOf
<1>5. a.artifact = <<source.id, p.name, chunk>> /\ b.artifact = <<source.id, q.name, other>>
  BY <1>3, <1>4 DEF PreparedOf, ArtifactId
<1>6. p = q /\ chunk = other
  <2>1. <<source.id, p.name, chunk>> = <<source.id, q.name, other>>
    BY <1>5
  <2>2. p.name = q.name /\ chunk = other
    BY <2>1
  <2> QED BY <2>2, PathAssumption
<1>7. [a EXCEPT !.sourcePath = 0] = [b EXCEPT !.sourcePath = 0]
  BY <1>3, <1>4, <1>6 DEF PreparedOf
<1>8. a.sourcePath[1] = p.name /\ b.sourcePath[1] = q.name
  BY <1>3, <1>4 DEF PreparedOf
<1> QED BY <1>6, <1>7, <1>8

\* Two chunks of a source with one name are of one file and alike in all that is
\* promoted of them but their number: hashes stand for what they are made of.
THEOREM NamesCorrect == AlgorithmsSpec => []NameDeterminesArtifact
<1>1. NameDeterminesArtifact
  <2> SUFFICES ASSUME NEW s \in SourceInput,
                      NEW a \in UNION {ToSet(PrepareSourceChunks(lines, p, s)) : p \in PathInput},
                      NEW b \in UNION {ToSet(PrepareSourceChunks(lines, p, s)) : p \in PathInput},
                      a.artifact = b.artifact
               PROVE  [a EXCEPT !.sourcePath = 0] = [b EXCEPT !.sourcePath = 0]
                      /\ a.sourcePath[1] = b.sourcePath[1]
    BY Zenon DEF NameDeterminesArtifact
  <2> QED BY NamesAreUnique
<1> QED BY <1>1, PTL

-----------------------------------------------------------------------------
(***************************************************************************)
(* The chunks of a file.                                                   *)
(***************************************************************************)

LEMMA LengthsUnfold ==
  ASSUME NEW content \in Seq(LineInput)
  PROVE  /\ Lengths(content) \in [0 .. Len(content) -> Nat]
         /\ Lengths(content)[0] = 0
         /\ \A n \in 1 .. Len(content) :
              Lengths(content)[n] = Lengths(content)[n - 1] + content[n].len + 1
<1> DEFINE N == Len(content)
           numbers == [n \in DOMAIN content |-> content[n].len + 1]
           L == Lengths(content)
<1>1. N \in Nat /\ DOMAIN content = 1 .. N /\ \A n \in 1 .. N : content[n].len \in Nat
  BY LineAssumption
<1>2. numbers \in Seq(Nat) /\ Len(numbers) = N /\ \A n \in 1 .. N : numbers[n] = content[n].len + 1
  BY <1>1
<1>3. L = Sums(numbers)
  BY DEF Lengths
<1> HIDE DEF numbers, L, N
<1>4. /\ L \in [0 .. N -> Nat] /\ L[0] = 0
      /\ \A n \in 1 .. N : L[n] = L[n - 1] + content[n].len + 1
  <2>1. L \in [0 .. N -> Nat] /\ L[0] = 0 /\ \A n \in 1 .. N : L[n] = L[n - 1] + numbers[n]
    BY <1>2, <1>3, SumsUnfold
  <2>2. \A n \in 1 .. N : L[n - 1] \in Nat
    BY <1>1, <2>1
  <2>3. ASSUME NEW n \in 1 .. N PROVE L[n] = L[n - 1] + content[n].len + 1
    <3> DEFINE a == L[n - 1]
               b == content[n].len
    <3>1. L[n] = a + numbers[n] /\ numbers[n] = b + 1 /\ a \in Nat /\ b \in Nat
      BY <1>1, <1>2, <2>1, <2>2
    <3> HIDE DEF a, b
    <3>2. L[n] = a + b + 1
      BY <3>1
    <3> QED BY <3>2 DEF a, b
  <2> QED BY <2>1, <2>3
<1> QED BY <1>4 DEF L, N

\* The length does not shrink.
LEMMA LengthsGrow ==
  ASSUME NEW content \in Seq(LineInput), NEW n \in 0 .. Len(content), NEW m \in 0 .. n
  PROVE  Lengths(content)[m] <= Lengths(content)[n]
<1> DEFINE N == Len(content)
           L == Lengths(content)
           S == {i \in Nat : i <= N => \A j \in 0 .. i : L[j] <= L[i]}
<1> N \in Nat
  OBVIOUS
<1>1. L \in [0 .. N -> Nat] /\ \A i \in 1 .. N : L[i] = L[i - 1] + content[i].len + 1
  BY LengthsUnfold
<1>2. \A i \in 1 .. N : content[i].len \in Nat
  BY LineAssumption
<1> HIDE DEF L, N
<1>3. 0 \in S
  BY <1>1
<1>4. ASSUME NEW i \in Nat, i \in S PROVE i + 1 \in S
  <2> SUFFICES ASSUME i + 1 <= N, NEW j \in 0 .. i + 1 PROVE L[j] <= L[i + 1]
    OBVIOUS
  <2>1. i + 1 \in 1 .. N /\ (i + 1) - 1 = i /\ i \in 0 .. N /\ i <= N
    OBVIOUS
  <2>2. L[i + 1] = L[i] + content[i + 1].len + 1 /\ L[i] \in Nat /\ content[i + 1].len \in Nat
    BY <1>1, <1>2, <2>1
  <2>3. CASE j = i + 1
    BY <2>2, <2>3
  <2>4. CASE j \in 0 .. i
    <3>1. L[j] <= L[i] /\ L[j] \in Nat
      BY <1>1, <1>4, <2>1, <2>4
    <3> QED BY <2>2, <3>1
  <2> QED BY <2>3, <2>4
<1> HIDE DEF S
<1>5. Nat \subseteq S
  BY <1>3, <1>4, Induction
<1>6. n \in S /\ n <= N
  BY <1>5 DEF N
<1> QED BY <1>6 DEF S, L

\* A part of the file, and its length.
LEMMA PartOfFile ==
  ASSUME NEW content \in Seq(LineInput), NEW lo \in 1 .. Len(content), NEW hi \in lo - 1 .. Len(content)
  PROVE  /\ SubSeq(content, lo, hi) \in Seq(LineInput)
         /\ Len(SubSeq(content, lo, hi)) = hi - lo + 1
         /\ \A i \in 1 .. hi - lo + 1 : SubSeq(content, lo, hi)[i] = content[lo - 1 + i]
<1>1. \A i \in lo .. hi : content[i] \in LineInput
  OBVIOUS
<1>2. /\ SubSeq(content, lo, hi) \in Seq(LineInput)
      /\ Len(SubSeq(content, lo, hi)) = IF lo <= hi THEN hi - lo + 1 ELSE 0
      /\ \A i \in 1 .. hi - lo + 1 : SubSeq(content, lo, hi)[i] = content[lo + i - 1]
  <2> lo \in Int /\ hi \in Int
    OBVIOUS
  <2> QED BY <1>1, SubSeqProperties
<1>3. (IF lo <= hi THEN hi - lo + 1 ELSE 0) = hi - lo + 1
  OBVIOUS
<1>4. \A i \in 1 .. hi - lo + 1 : lo - 1 + i = lo + i - 1
  OBVIOUS
<1> QED BY <1>2, <1>3, <1>4

LEMMA LengthsOfPart ==
  ASSUME NEW content \in Seq(LineInput), NEW lo \in 1 .. Len(content), NEW hi \in lo - 1 .. Len(content),
         NEW k \in 0 .. hi - lo + 1
  PROVE  Lengths(SubSeq(content, lo, hi))[k] = Lengths(content)[lo - 1 + k] - Lengths(content)[lo - 1]
<1> DEFINE part == SubSeq(content, lo, hi)
           N == Len(content)
           L == Lengths(content)
           P == Lengths(part)
           M == hi - lo + 1
           S == {i \in Nat : i <= M => P[i] = L[lo - 1 + i] - L[lo - 1]}
<1>1. part \in Seq(LineInput) /\ Len(part) = M /\ \A i \in 1 .. M : part[i] = content[lo - 1 + i]
  BY PartOfFile
<1>2. L \in [0 .. N -> Nat] /\ \A i \in 1 .. N : L[i] = L[i - 1] + content[i].len + 1
  BY LengthsUnfold
<1>3. P \in [0 .. M -> Nat] /\ P[0] = 0 /\ \A i \in 1 .. M : P[i] = P[i - 1] + part[i].len + 1
  <2> HIDE DEF part, M
  <2> QED BY <1>1, LengthsUnfold
<1>4. M \in Nat /\ N \in Nat /\ lo - 1 \in 0 .. N /\ \A i \in 0 .. M : lo - 1 + i \in 0 .. N
  OBVIOUS
<1>5. \A i \in 1 .. N : content[i].len \in Nat
  BY LineAssumption
<1>6. \A i \in 1 .. M : lo - 1 + i \in 1 .. N /\ (lo - 1 + i) - 1 = lo - 1 + (i - 1)
  OBVIOUS
<1> HIDE DEF part, L, P, N, M
<1>7. 0 \in S
  <2>1. lo - 1 + 0 = lo - 1 /\ L[lo - 1] \in Nat
    BY <1>2, <1>4
  <2>2. L[lo - 1] - L[lo - 1] = 0
    BY <2>1
  <2> QED BY <1>3, <2>1, <2>2
<1>8. ASSUME NEW i \in Nat, i \in S PROVE i + 1 \in S
  <2> SUFFICES ASSUME i + 1 <= M PROVE P[i + 1] = L[lo - 1 + (i + 1)] - L[lo - 1]
    OBVIOUS
  <2>1. i + 1 \in 1 .. M /\ (i + 1) - 1 = i /\ i \in 0 .. M /\ i <= M
    BY <1>4
  <2> DEFINE j == lo - 1 + (i + 1)
  <2>2. P[i] = L[lo - 1 + i] - L[lo - 1]
    BY <1>8, <2>1
  <2>3. P[i + 1] = P[i] + part[i + 1].len + 1 /\ part[i + 1] = content[j]
    BY <1>1, <1>3, <2>1
  <2>4. j \in 1 .. N /\ j - 1 = lo - 1 + i
    BY <1>6, <2>1
  <2>5. L[j] = L[lo - 1 + i] + content[j].len + 1
    BY <1>2, <2>4
  <2>6. L[lo - 1 + i] \in Nat /\ L[lo - 1] \in Nat /\ content[j].len \in Nat
    BY <1>2, <1>4, <1>5, <2>1, <2>4
  <2> HIDE DEF j
  <2>7. P[i + 1] = L[j] - L[lo - 1]
    <3> DEFINE a == L[lo - 1 + i]
               b == L[lo - 1]
               c == content[j].len
    <3>1. P[i] = a - b /\ P[i + 1] = P[i] + c + 1 /\ L[j] = a + c + 1
      BY <2>2, <2>3, <2>5
    <3>2. a \in Nat /\ b \in Nat /\ c \in Nat
      BY <2>6
    <3> HIDE DEF a, b, c
    <3>3. P[i + 1] = L[j] - b
      BY <3>1, <3>2
    <3> QED BY <3>3 DEF b
  <2> QED BY <2>7 DEF j
<1> HIDE DEF S
<1>9. Nat \subseteq S
  BY <1>7, <1>8, Induction
<1>10. k \in S /\ k <= M
  BY <1>9 DEF M
<1> QED BY <1>10 DEF S, P, L, part

LEMMA StartsUnfold ==
  ASSUME NEW content \in Seq(LineInput)
  PROVE  /\ Starts(content) \in [0 .. Len(content) -> Nat]
         /\ Starts(content)[0] = 1
         /\ \A n \in 1 .. Len(content) :
              Starts(content)[n] =
                IF \/ n - Starts(content)[n - 1] >= MaxChunkLines
                   \/ Lengths(content)[n] - Lengths(content)[Starts(content)[n - 1] - 1] > MaxChunkChars
                THEN n ELSE Starts(content)[n - 1]
<1> DEFINE N == Len(content)
           L == Lengths(content)
           follows(n, d) ==
             IF n - d >= MaxChunkLines \/ L[n] - L[d - 1] > MaxChunkChars THEN n ELSE d
           step == [p \in (1 .. N) \X Nat |-> follows(p[1], p[2])]
           body(f) == [n \in 0 .. N |-> IF n = 0 THEN 1 ELSE follows(n, f[n - 1])]
           st == Starts(content)
<1>1. N \in Nat
  OBVIOUS
<1>2. step \in [(1 .. N) \X Nat -> Nat] /\ 1 \in Nat
  <2>1. ASSUME NEW p \in (1 .. N) \X Nat PROVE follows(p[1], p[2]) \in Nat
    OBVIOUS
  <2> HIDE DEF follows
  <2> QED BY <2>1
<1>3. \A n \in 1 .. N : \A d \in Nat : step[<<n, d>>] = follows(n, d)
  <2> HIDE DEF follows
  <2> QED OBVIOUS
<1>4. st = CHOOSE h : h = body(h)
  BY DEF Starts
<1>5. PICK f : UnfoldsTo(f, N, Nat, 1, step)
  <2> HIDE DEF step, N
  <2> QED BY <1>1, <1>2, RecursionTo
<1>6. f = body(f)
  <2> HIDE DEF step, N, follows
  <2>1. f \in [0 .. N -> Nat] /\ f[0] = 1 /\ \A n \in 1 .. N : f[n] = step[<<n, f[n - 1]>>]
    BY <1>5 DEF UnfoldsTo
  <2>2. \A n \in 1 .. N : f[n - 1] \in Nat
    BY <1>1, <2>1
  <2>3. \A n \in 1 .. N : f[n] = follows(n, f[n - 1])
    BY <1>3, <2>1, <2>2
  <2> QED BY <1>1, <2>1, <2>3
<1>7. st = body(st)
  <2> HIDE DEF body, st
  <2> QED BY <1>4, <1>6
<1>8. st = [n \in 0 .. N |-> st[n]] /\ st[0] = 1 /\ \A n \in 1 .. N : st[n] = follows(n, st[n - 1])
  <2> HIDE DEF st, N, follows
  <2> QED BY <1>1, <1>7
<1>9. UnfoldsTo(st, N, Nat, 1, step)
  <2> HIDE DEF st, N, step, follows
  <2>1. \A n \in 1 .. N : st[n - 1] \in Nat => st[n] = step[<<n, st[n - 1]>>]
    BY <1>3, <1>8
  <2> QED BY <1>1, <1>2, <1>8, <2>1, RecursionIs
<1>10. st \in [0 .. N -> Nat]
  BY <1>9 DEF UnfoldsTo
<1> QED BY <1>8, <1>10

\* A chunk does not begin behind the line, and those of later lines not before it.
LEMMA StartsGrow ==
  ASSUME NEW content \in Seq(LineInput), NEW n \in 1 .. Len(content), NEW m \in 1 .. n
  PROVE  Starts(content)[n] \in 1 .. n /\ Starts(content)[m] <= Starts(content)[n]
<1> DEFINE N == Len(content)
           L == Lengths(content)
           st == Starts(content)
           S == {i \in Nat : i \in 1 .. N => st[i] \in 1 .. i /\ \A j \in 1 .. i : st[j] <= st[i]}
<1>1. N \in Nat /\ st[0] = 1 /\ \A i \in 1 .. N : st[i] = i \/ st[i] = st[i - 1]
  BY StartsUnfold
<1>2. \A i \in 1 .. N : st[i] \in Nat
  BY StartsUnfold
<1> HIDE DEF st, L, N
<1>3. 0 \in S
  OBVIOUS
<1>4. ASSUME NEW i \in Nat, i \in S PROVE i + 1 \in S
  <2> SUFFICES ASSUME i + 1 \in 1 .. N
               PROVE  st[i + 1] \in 1 .. i + 1 /\ \A j \in 1 .. i + 1 : st[j] <= st[i + 1]
    OBVIOUS
  <2>1. (i + 1) - 1 = i /\ (st[i + 1] = i + 1 \/ st[i + 1] = st[i])
    BY <1>1
  <2>2. CASE i = 0
    <3>1. st[1] = 1
      BY <1>1, <2>1, <2>2
    <3> QED BY <2>2, <3>1
  <2>3. CASE i # 0
    <3>1. i \in 1 .. N
      BY <1>1, <2>3
    <3>2. st[i] \in 1 .. i /\ \A j \in 1 .. i : st[j] <= st[i]
      BY <1>4, <3>1
    <3>3. st[i + 1] \in 1 .. i + 1 /\ st[i] <= st[i + 1]
      BY <2>1, <3>2
    <3>4. ASSUME NEW j \in 1 .. i + 1 PROVE st[j] <= st[i + 1]
      <4>1. CASE j = i + 1
        BY <3>3, <4>1
      <4>2. CASE j # i + 1
        <5>1. j \in 1 .. i /\ j \in 1 .. N
          BY <1>1, <3>1, <4>2
        <5>2. st[j] <= st[i] /\ st[j] \in Nat
          BY <1>2, <3>2, <5>1
        <5> QED BY <3>2, <3>3, <5>2
      <4> QED BY <4>1, <4>2
    <3> QED BY <3>3, <3>4
  <2> QED BY <2>2, <2>3
<1> HIDE DEF S
<1>5. Nat \subseteq S
  BY <1>3, <1>4, Induction
<1>6. n \in S /\ n \in 1 .. N
  BY <1>5 DEF N
<1>7. st[n] \in 1 .. n /\ \A j \in 1 .. n : st[j] <= st[n]
  BY <1>6 DEF S
<1> QED BY <1>7 DEF st

\* From the first line of its chunk to a line there are not too many lines, and not
\* too much text but that of a single line.
LEMMA StartsBound ==
  ASSUME NEW content \in Seq(LineInput), NEW n \in 1 .. Len(content)
  PROVE  /\ n - Starts(content)[n] < MaxChunkLines
         /\ \/ Starts(content)[n] = n
            \/ Lengths(content)[n] - Lengths(content)[Starts(content)[n] - 1] <= MaxChunkChars
<1> DEFINE N == Len(content)
           L == Lengths(content)
           st == Starts(content)
           d == st[n - 1]
           over == n - d >= MaxChunkLines \/ L[n] - L[d - 1] > MaxChunkChars
<1>1. n - 1 \in 0 .. N /\ n \in 0 .. N
  OBVIOUS
<1>2. st[n] = (IF over THEN n ELSE d) /\ d \in Nat
  BY <1>1, StartsUnfold
<1>3. st[n] \in 1 .. n
  BY StartsGrow
<1>4. MaxChunkLines \in Nat \ {0} /\ MaxChunkChars \in Nat
  BY ChunkAssumption
<1>5. CASE over
  <2>1. st[n] = n
    BY <1>2, <1>5
  <2> HIDE DEF st, over, d
  <2>2. n - n = 0
    OBVIOUS
  <2> QED BY <1>4, <2>1, <2>2 DEF st
<1>6. CASE ~over
  <2>1. st[n] = d /\ ~(n - d >= MaxChunkLines) /\ ~(L[n] - L[d - 1] > MaxChunkChars)
    BY <1>2, <1>6
  <2>2. L[n] \in Nat /\ L[d - 1] \in Nat
    <3>1. d - 1 \in 0 .. N
      BY <1>3, <2>1
    <3>2. L \in [0 .. N -> Nat]
      BY LengthsUnfold
    <3> HIDE DEF L, d, N
    <3> QED BY <1>1, <3>1, <3>2
  <2> HIDE DEF st, over, d, L
  <2>3. n - d < MaxChunkLines /\ L[n] - L[d - 1] <= MaxChunkChars
    BY <1>2, <1>4, <2>1, <2>2
  <2>4. n - st[n] < MaxChunkLines /\ L[n] - L[st[n] - 1] <= MaxChunkChars
    BY <2>1, <2>3
  <2> QED BY <2>4 DEF st, L
<1> QED BY <1>5, <1>6

\* The least and the greatest of some numbers.
LEMMA MinMaxUpTo ==
  ASSUME NEW N \in Nat, NEW S \in SUBSET (0 .. N), S # {}
  PROVE  /\ Min(S) \in S /\ \A i \in S : Min(S) <= i
         /\ Max(S) \in S /\ \A i \in S : i <= Max(S)
<1>1. \A i \in S : i \in Nat /\ N - i \in Nat
  OBVIOUS
<1>2. \E x \in S : \A y \in S : x =< y
  <2>1. S \in SUBSET Nat
    BY <1>1
  <2>2. PICK x \in S : \A y \in S : ~(y < x)
    BY <2>1, Least
  <2>3. \A y \in S : x =< y
    BY <1>1, <2>2
  <2> QED BY <2>3
<1>3. \E x \in S : \A y \in S : x >= y
  <2> DEFINE T == {N - i : i \in S}
  <2>1. T \in SUBSET Nat /\ T # {}
    BY <1>1
  <2> HIDE DEF T
  <2>2. PICK n \in T : \A m \in T : ~(m < n)
    BY <2>1, Least
  <2> USE DEF T
  <2>3. PICK x \in S : n = N - x
    OBVIOUS
  <2>4. ASSUME NEW y \in S PROVE x >= y
    <3>1. ~(N - y < N - x)
      BY <2>2, <2>3
    <3> QED BY <1>1, <3>1
  <2> QED BY <2>4
<1>4. Min(S) \in S /\ \A y \in S : Min(S) =< y
  BY <1>2 DEF Min
<1>5. Max(S) \in S /\ \A y \in S : Max(S) >= y
  BY <1>3 DEF Max
<1> QED BY <1>1, <1>4, <1>5

LEMMA MinMaxOf ==
  ASSUME NEW N \in Nat, NEW S \in SUBSET (1 .. N), S # {}
  PROVE  /\ Min(S) \in S /\ \A i \in S : Min(S) <= i
         /\ Max(S) \in S /\ \A i \in S : i <= Max(S)
<1>1. S \in SUBSET (0 .. N)
  OBVIOUS
<1> QED BY <1>1, MinMaxUpTo

\* The first and the last line of the text of a chunk.
TextMin(content, first) == Min(TextAt(content, Starts(content), first))
TextMax(content, first) == Max(TextAt(content, Starts(content), first))

Begins(content) == ChunkStarts(content, Starts(content))

LEMMA ChunkAtIs ==
  ASSUME NEW content \in Seq(LineInput), NEW first \in Begins(content)
  PROVE  /\ TextMin(content, first) \in first .. TextMax(content, first)
         /\ first \in 1 .. Len(content) /\ TextMax(content, first) \in 1 .. Len(content)
         /\ Starts(content)[TextMin(content, first)] = first
         /\ Starts(content)[TextMax(content, first)] = first
         /\ ChunkAt(content, Starts(content), first)
              = SubSeq(content, TextMin(content, first), TextMax(content, first))
         /\ \A i \in TextAt(content, Starts(content), first) :
              i \in TextMin(content, first) .. TextMax(content, first)
<1> DEFINE N == Len(content)
           T == TextAt(content, Starts(content), first)
           st == Starts(content)
           lo == TextMin(content, first)
           hi == TextMax(content, first)
<1>1. T # {} /\ first \in 1 .. N /\ T \in SUBSET (1 .. N) /\ N \in Nat
  BY DEF Begins, ChunkStarts, TextAt
<1>2. lo \in T /\ hi \in T /\ \A i \in T : lo <= i /\ i <= hi
  <2> HIDE DEF T
  <2>1. Min(T) \in T /\ Max(T) \in T /\ \A i \in T : Min(T) <= i /\ i <= Max(T)
    BY <1>1, MinMaxOf
  <2> QED BY <2>1 DEF TextMin, TextMax, T
<1>3. \A i \in T : st[i] = first /\ i \in 1 .. N
  BY <1>1 DEF TextAt
<1>4. st[lo] \in 1 .. lo
  <2>1. lo \in 1 .. N
    BY <1>2, <1>3
  <2> HIDE DEF lo
  <2> QED BY <2>1, StartsGrow
<1>5. ChunkAt(content, st, first) = SubSeq(content, lo, hi)
  BY DEF ChunkAt, TextMin, TextMax
<1> HIDE DEF T, N, st, lo, hi
<1>6. lo \in 1 .. N /\ hi \in 1 .. N /\ st[lo] = first /\ st[hi] = first /\ lo <= hi
  BY <1>2, <1>3
<1>7. lo \in first .. hi
  BY <1>1, <1>4, <1>6
<1>8. \A i \in T : i \in lo .. hi
  BY <1>2, <1>3, <1>6
<1> QED BY <1>1, <1>5, <1>6, <1>7, <1>8 DEF T, N, st, lo, hi

LEMMA ChunkBounds ==
  ASSUME NEW content \in Seq(LineInput), NEW first \in Begins(content)
  PROVE  WithinBounds(ChunkAt(content, Starts(content), first))
<1> DEFINE N == Len(content)
           st == Starts(content)
           L == Lengths(content)
           lo == TextMin(content, first)
           hi == TextMax(content, first)
           chunk == ChunkAt(content, st, first)
<1>1. /\ lo \in first .. hi /\ first \in 1 .. N /\ hi \in 1 .. N /\ st[hi] = first
      /\ chunk = SubSeq(content, lo, hi)
  BY ChunkAtIs
<1>2. hi - first < MaxChunkLines /\ (first = hi \/ L[hi] - L[first - 1] <= MaxChunkChars)
  <2> HIDE DEF hi, st, N, lo
  <2>1. /\ hi - st[hi] < MaxChunkLines
        /\ st[hi] = hi \/ L[hi] - L[st[hi] - 1] <= MaxChunkChars
    BY <1>1, StartsBound DEF N, st
  <2> QED BY <1>1, <2>1
<1>3. lo \in 1 .. N /\ hi \in lo - 1 .. N /\ hi - lo + 1 \in 0 .. hi - lo + 1
      /\ lo - 1 + (hi - lo + 1) = hi
  BY <1>1
<1>4. Len(chunk) = hi - lo + 1 /\ LengthOf(chunk) = L[hi] - L[lo - 1]
  <2> HIDE DEF hi, lo
  <2>1. Len(chunk) = hi - lo + 1
    BY <1>1, <1>3, PartOfFile
  <2>2. Lengths(SubSeq(content, lo, hi))[hi - lo + 1]
          = Lengths(content)[lo - 1 + (hi - lo + 1)] - Lengths(content)[lo - 1]
    BY <1>3, LengthsOfPart
  <2>3. LengthOf(chunk) = Lengths(SubSeq(content, lo, hi))[hi - lo + 1]
    <3> HIDE DEF chunk
    <3> QED BY <1>1, <2>1 DEF LengthOf
  <2> QED BY <1>3, <2>1, <2>2, <2>3
<1>5. L[first - 1] <= L[lo - 1] /\ L[first - 1] \in Nat /\ L[lo - 1] \in Nat /\ L[hi] \in Nat
  <2>1. lo - 1 \in 0 .. N /\ first - 1 \in 0 .. lo - 1 /\ hi \in 0 .. N /\ first - 1 \in 0 .. N
    BY <1>1
  <2>2. L \in [0 .. N -> Nat]
    BY LengthsUnfold
  <2> HIDE DEF lo, hi
  <2>3. L[first - 1] <= L[lo - 1]
    BY <2>1, LengthsGrow
  <2> HIDE DEF L, N
  <2> QED BY <2>1, <2>2, <2>3
<1> HIDE DEF lo, hi, L, chunk, N
<1>6. Len(chunk) \in 1 .. MaxChunkLines
  BY <1>1, <1>2, <1>4, ChunkAssumption
<1>7. Len(chunk) = 1 \/ LengthOf(chunk) <= MaxChunkChars
  BY <1>1, <1>2, <1>4, <1>5, ChunkAssumption
<1> QED BY <1>6, <1>7 DEF WithinBounds, chunk, st

\* The chunks by their first lines.
LEMMA SplitIs ==
  ASSUME NEW content \in Seq(LineInput)
  PROVE  /\ Begins(content) \in SUBSET (1 .. Len(content))
         /\ Cardinality(Begins(content)) \in Nat
         /\ DOMAIN SplitContentIntoChunks(content) = 1 .. Cardinality(Begins(content))
         /\ Len(SplitContentIntoChunks(content)) = Cardinality(Begins(content))
         /\ \A k \in 1 .. Cardinality(Begins(content)) :
              /\ Nth(Begins(content), k) \in Begins(content)
              /\ SplitContentIntoChunks(content)[k]
                   = ChunkAt(content, Starts(content), Nth(Begins(content), k))
<1> DEFINE B == Begins(content)
           c == Cardinality(B)
<1>1. B \in SUBSET (1 .. Len(content)) /\ Len(content) \in Nat
  BY DEF Begins, ChunkStarts
<1>2. c \in Nat
  BY <1>1, NumbersFinite
<1>3. \A k \in 1 .. c : Nth(B, k) \in B
  BY <1>1, NthInSet
<1>4. SplitContentIntoChunks(content)
        = [n \in 1 .. c |-> ChunkAt(content, Starts(content), Nth(B, n))]
  BY DEF SplitContentIntoChunks, Begins
<1> HIDE DEF c, B
<1>5. DOMAIN SplitContentIntoChunks(content) = 1 .. c
      /\ \A k \in 1 .. c : SplitContentIntoChunks(content)[k]
                              = ChunkAt(content, Starts(content), Nth(B, k))
  BY <1>4
<1>6. Len(SplitContentIntoChunks(content)) = c
  BY <1>2, <1>5
<1> QED BY <1>1, <1>2, <1>3, <1>5, <1>6 DEF c, B

\* The chunks are stretches of the file, one behind the other, and all that is
\* outside of them is blank.
LEMMA ChunksHoldText ==
  ASSUME NEW content \in Seq(LineInput)
  PROVE  \E first \in [DOMAIN SplitContentIntoChunks(content) -> DOMAIN content] :
           HoldText(SplitContentIntoChunks(content), content, first)
<1> DEFINE N == Len(content)
           st == Starts(content)
           chunks == SplitContentIntoChunks(content)
           B == Begins(content)
           c == Cardinality(B)
           lo(k) == TextMin(content, Nth(B, k))
           hi(k) == TextMax(content, Nth(B, k))
           first == [k \in 1 .. c |-> lo(k)]
<1>1. /\ B \in SUBSET (1 .. N) /\ c \in Nat /\ DOMAIN chunks = 1 .. c
      /\ \A k \in 1 .. c : Nth(B, k) \in B /\ chunks[k] = ChunkAt(content, st, Nth(B, k))
  BY SplitIs
<1>2. ASSUME NEW k \in 1 .. c
      PROVE  /\ lo(k) \in Nth(B, k) .. hi(k) /\ Nth(B, k) \in 1 .. N /\ hi(k) \in 1 .. N
             /\ st[lo(k)] = Nth(B, k) /\ st[hi(k)] = Nth(B, k)
             /\ chunks[k] = SubSeq(content, lo(k), hi(k))
             /\ \A i \in TextAt(content, st, Nth(B, k)) : i \in lo(k) .. hi(k)
  <2> DEFINE f == Nth(B, k)
  <2>1. f \in B /\ chunks[k] = ChunkAt(content, st, f)
    BY <1>1
  <2> HIDE DEF f, chunks
  <2> QED BY <2>1, ChunkAtIs DEF f
<1>3. ASSUME NEW k \in 1 .. c
      PROVE  Len(chunks[k]) = hi(k) - lo(k) + 1 /\ lo(k) \in 1 .. N
  <2>1. lo(k) \in 1 .. N /\ hi(k) \in lo(k) - 1 .. N /\ chunks[k] = SubSeq(content, lo(k), hi(k))
    BY <1>2
  <2> HIDE DEF lo, hi, chunks
  <2> QED BY <2>1, PartOfFile
<1>4. first \in [DOMAIN chunks -> DOMAIN content] /\ \A k \in 1 .. c : first[k] = lo(k)
  <2>1. DOMAIN content = 1 .. N
    OBVIOUS
  <2> HIDE DEF lo, chunks, c, N
  <2> QED BY <1>1, <1>3, <2>1
<1>5. ASSUME NEW k \in 1 .. c, NEW m \in 1 .. k - 1 PROVE lo(m) + Len(chunks[m]) <= lo(k)
  <2>1. m \in 1 .. c /\ m < k
    BY <1>1
  <2>2. Nth(B, m) < Nth(B, k)
    <3> HIDE DEF B
    <3> N \in Nat
      OBVIOUS
    <3> QED BY <1>1, <2>1, NthGrows
  <2>3. Len(chunks[m]) = hi(m) - lo(m) + 1 /\ lo(m) \in 1 .. N
    BY <1>3, <2>1
  <2>4. /\ hi(m) \in 1 .. N /\ st[hi(m)] = Nth(B, m) /\ lo(k) \in 1 .. N /\ st[lo(k)] = Nth(B, k)
        /\ Nth(B, m) \in 1 .. N /\ Nth(B, k) \in 1 .. N
    BY <1>2, <1>3, <2>1
  <2>5. ~(lo(k) <= hi(m))
    <3> SUFFICES ASSUME lo(k) <= hi(m) PROVE FALSE
      OBVIOUS
    <3>1. hi(m) \in 1 .. Len(content) /\ lo(k) \in 1 .. hi(m)
      BY <2>4
    <3> HIDE DEF lo, hi, st, N, B
    <3>2. st[lo(k)] <= st[hi(m)]
      BY <3>1, StartsGrow DEF st
    <3> QED BY <2>2, <2>4, <3>2
  <2> HIDE DEF lo, hi, chunks, N
  <2> QED BY <2>3, <2>4, <2>5
<1>6. ASSUME NEW i \in 1 .. N, ~Blank(content[i])
      PROVE  \E k \in 1 .. c : i \in lo(k) .. hi(k)
  <2> DEFINE f == st[i]
  <2>1. f \in 1 .. i
    <3>1. i \in 1 .. Len(content) /\ i \in 1 .. i
      OBVIOUS
    <3> QED BY <3>1, StartsGrow
  <2>2. i \in TextAt(content, st, f) /\ f \in B
    <3>1. f \in DOMAIN content /\ i \in DOMAIN content
      BY <2>1
    <3> QED BY <1>6, <3>1 DEF TextAt, Begins, ChunkStarts
  <2> DEFINE k == RankIn(B, f)
  <2>3. k \in 1 .. c /\ Nth(B, k) = f
    <3> HIDE DEF f, B
    <3> N \in Nat
      OBVIOUS
    <3> QED BY <1>1, <2>2, RankType, NthOfRank
  <2>4. i \in lo(k) .. hi(k)
    <3> HIDE DEF lo, hi, k, f, B, st
    <3> QED BY <1>2, <2>2, <2>3
  <2> QED BY <2>3, <2>4
<1>7. HoldText(chunks, content, first)
  <2>1. ASSUME NEW k \in DOMAIN chunks
        PROVE  /\ first[k] .. first[k] + Len(chunks[k]) - 1 \subseteq DOMAIN content
               /\ chunks[k] = SubSeq(content, first[k], first[k] + Len(chunks[k]) - 1)
               /\ \A m \in 1 .. k - 1 : first[m] + Len(chunks[m]) <= first[k]
    <3>1. k \in 1 .. c /\ first[k] = lo(k) /\ \A m \in 1 .. k - 1 : first[m] = lo(m)
      BY <1>1
    <3>2. first[k] + Len(chunks[k]) - 1 = hi(k) /\ lo(k) \in 1 .. N /\ hi(k) \in 1 .. N
      <4>1. lo(k) \in 1 .. N /\ hi(k) \in 1 .. N /\ Len(chunks[k]) = hi(k) - lo(k) + 1
        BY <1>2, <1>3, <3>1
      <4> HIDE DEF lo, hi, chunks, first, N
      <4> QED BY <3>1, <4>1
    <3>3. chunks[k] = SubSeq(content, lo(k), hi(k))
      BY <1>2, <3>1
    <3>4. \A m \in 1 .. k - 1 : first[m] + Len(chunks[m]) <= first[k]
      <4> HIDE DEF lo, hi, chunks, first
      <4> QED BY <1>5, <3>1
    <3>5. lo(k) .. hi(k) \subseteq DOMAIN content
      <4>1. DOMAIN content = 1 .. N
        OBVIOUS
      <4> HIDE DEF lo, hi, N
      <4>2. N \in Nat
        BY DEF N
      <4>3. \A a, b \in 1 .. N : \A i \in a .. b : i \in 1 .. N
        BY <4>2
      <4>4. \A i \in lo(k) .. hi(k) : i \in 1 .. N
        BY <3>2, <4>3
      <4> QED BY <4>1, <4>4
    <3> HIDE DEF lo, hi, chunks, first
    <3> QED BY <3>1, <3>2, <3>3, <3>4, <3>5
  <2>2. ASSUME NEW i \in DOMAIN content, ~Blank(content[i])
        PROVE  \E k \in DOMAIN chunks : i \in first[k] .. first[k] + Len(chunks[k]) - 1
    <3>1. i \in 1 .. N
      OBVIOUS
    <3>2. PICK k \in 1 .. c : i \in lo(k) .. hi(k)
      BY <1>6, <2>2, <3>1
    <3>3. first[k] + Len(chunks[k]) - 1 = hi(k) /\ first[k] = lo(k) /\ k \in DOMAIN chunks
      <4>1. lo(k) \in 1 .. N /\ hi(k) \in 1 .. N /\ Len(chunks[k]) = hi(k) - lo(k) + 1 /\ first[k] = lo(k)
        BY <1>2, <1>3
      <4> HIDE DEF lo, hi, chunks, first, N
      <4> QED BY <1>1, <4>1
    <3> HIDE DEF lo, hi, chunks, first
    <3> QED BY <3>2, <3>3
  <2> HIDE DEF chunks, first
  <2> QED BY <2>1, <2>2 DEF HoldText
<1> HIDE DEF first, chunks
<1>8. \E g \in [DOMAIN chunks -> DOMAIN content] : HoldText(chunks, content, g)
  BY <1>4, <1>7
<1> QED BY <1>8 DEF chunks


\* The file without its last line has the same lengths and first lines.
LEMMA FrontOfFile ==
  ASSUME NEW content \in Seq(LineInput), content # <<>>
  PROVE  /\ Front(content) \in Seq(LineInput) /\ Len(content) \in Nat \ {0}
         /\ Len(Front(content)) = Len(content) - 1
         /\ \A i \in 1 .. Len(content) - 1 : Front(content)[i] = content[i]
         /\ \A i \in 0 .. Len(content) - 1 : Starts(Front(content))[i] = Starts(content)[i]
<1> DEFINE N == Len(content)
           F == Front(content)
           L == Lengths(content)
           K == Lengths(F)
           st == Starts(content)
           ts == Starts(F)
<1>1. N \in Nat \ {0} /\ 1 \in 1 .. N /\ N - 1 \in 1 - 1 .. N /\ (N - 1) - 1 + 1 = N - 1
  OBVIOUS
<1>2. F = SubSeq(content, 1, N - 1)
  BY DEF Front
<1>3. F \in Seq(LineInput) /\ Len(F) = N - 1 /\ \A i \in 1 .. N - 1 : F[i] = content[i]
  <2>1. /\ SubSeq(content, 1, N - 1) \in Seq(LineInput)
        /\ Len(SubSeq(content, 1, N - 1)) = (N - 1) - 1 + 1
        /\ \A i \in 1 .. (N - 1) - 1 + 1 : SubSeq(content, 1, N - 1)[i] = content[1 - 1 + i]
    BY <1>1, PartOfFile
  <2>2. \A i \in 1 .. N - 1 : 1 - 1 + i = i
    OBVIOUS
  <2> HIDE DEF F, N
  <2> QED BY <1>1, <1>2, <2>1, <2>2
<1>4. \A i \in 0 .. N - 1 : K[i] = L[i]
  <2> SUFFICES ASSUME NEW i \in 0 .. N - 1 PROVE K[i] = L[i]
    OBVIOUS
  <2>1. i \in 0 .. (N - 1) - 1 + 1 /\ 1 - 1 + i = i /\ 1 - 1 = 0
    BY <1>1
  <2>2. Lengths(SubSeq(content, 1, N - 1))[i] = L[1 - 1 + i] - L[1 - 1]
    BY <1>1, <2>1, LengthsOfPart
  <2>3. L[0] = 0 /\ L[i] \in Nat
    <3>1. L \in [0 .. N -> Nat] /\ L[0] = 0 /\ i \in 0 .. N
      BY <1>1, LengthsUnfold
    <3> HIDE DEF L, N
    <3> QED BY <3>1
  <2> HIDE DEF F, L, N
  <2> QED BY <1>2, <2>1, <2>2, <2>3
<1>5. /\ st[0] = 1
      /\ \A i \in 1 .. N : st[i] = IF \/ i - st[i - 1] >= MaxChunkLines
                                     \/ L[i] - L[st[i - 1] - 1] > MaxChunkChars
                                  THEN i ELSE st[i - 1]
  BY StartsUnfold
<1>6. /\ ts[0] = 1
      /\ \A i \in 1 .. N - 1 : ts[i] = IF \/ i - ts[i - 1] >= MaxChunkLines
                                         \/ K[i] - K[ts[i - 1] - 1] > MaxChunkChars
                                      THEN i ELSE ts[i - 1]
  <2> HIDE DEF F, N
  <2> QED BY <1>3, StartsUnfold
<1>7. \A i \in 1 .. N : st[i] \in 1 .. i
  BY StartsGrow
<1>8. \A i \in 0 .. N - 1 : ts[i] = st[i]
  <2> DEFINE S == {i \in Nat : i <= N - 1 => ts[i] = st[i]}
  <2> HIDE DEF st, ts, L, K, N
  <2>1. 0 \in S
    BY <1>5, <1>6
  <2>2. ASSUME NEW i \in Nat, i \in S PROVE i + 1 \in S
    <3> SUFFICES ASSUME i + 1 <= N - 1 PROVE ts[i + 1] = st[i + 1]
      OBVIOUS
    <3>1. i + 1 \in 1 .. N /\ i + 1 \in 1 .. N - 1 /\ (i + 1) - 1 = i /\ i <= N - 1
      BY <1>1
    <3>2. ts[i] = st[i]
      BY <2>2, <3>1
    <3>3. st[i] - 1 \in 0 .. N - 1 /\ i + 1 \in 0 .. N - 1
      <4>1. CASE i = 0
        BY <1>1, <1>5, <3>1, <4>1
      <4>2. CASE i # 0
        <5>1. i \in 1 .. N
          BY <1>1, <3>1, <4>2
        <5> QED BY <1>1, <1>7, <3>1, <5>1
      <4> QED BY <4>1, <4>2
    <3>4. K[i + 1] = L[i + 1] /\ K[st[i] - 1] = L[st[i] - 1]
      BY <1>4, <3>3
    <3> QED BY <1>5, <1>6, <3>1, <3>2, <3>4
  <2> HIDE DEF S
  <2>3. Nat \subseteq S
    BY <2>1, <2>2, Induction
  <2>4. \A i \in 0 .. N - 1 : i \in Nat /\ i <= N - 1
    BY <1>1
  <2> QED BY <2>3, <2>4 DEF S
<1> QED BY <1>1, <1>3, <1>8

\* A file that grew at its end kept its chunks but the last.
LEMMA ChunksStay ==
  ASSUME NEW content \in Seq(LineInput), content # <<>>,
         NEW k \in 1 .. Len(SplitContentIntoChunks(Front(content))) - 1
  PROVE  /\ k \in DOMAIN SplitContentIntoChunks(content)
         /\ SplitContentIntoChunks(content)[k] = SplitContentIntoChunks(Front(content))[k]
<1> DEFINE N == Len(content)
           F == Front(content)
           st == Starts(content)
           ts == Starts(F)
           B == Begins(content)
           A == Begins(F)
           c == Cardinality(A)
           first == Nth(A, k)
           last == Nth(A, c)
           T == TextAt(content, st, first)
<1>1. /\ F \in Seq(LineInput) /\ N \in Nat \ {0} /\ Len(F) = N - 1
      /\ \A i \in 1 .. N - 1 : F[i] = content[i]
      /\ \A i \in 0 .. N - 1 : ts[i] = st[i]
  BY FrontOfFile
<1>2. /\ A \in SUBSET (1 .. N - 1) /\ c \in Nat /\ Len(SplitContentIntoChunks(F)) = c
      /\ \A n \in 1 .. c : /\ Nth(A, n) \in A
                           /\ SplitContentIntoChunks(F)[n] = ChunkAt(F, ts, Nth(A, n))
  <2> HIDE DEF F
  <2> QED BY <1>1, SplitIs
<1>3. /\ B \in SUBSET (1 .. N) /\ Cardinality(B) \in Nat
      /\ DOMAIN SplitContentIntoChunks(content) = 1 .. Cardinality(B)
      /\ \A n \in 1 .. Cardinality(B) :
           SplitContentIntoChunks(content)[n] = ChunkAt(content, st, Nth(B, n))
  BY SplitIs
<1>4. k \in 1 .. c /\ c \in 1 .. c /\ k < c
  BY <1>2
<1>5. /\ first \in A /\ last \in A /\ first < last
      /\ RankIn(A, first) = k /\ first \in 1 .. N - 1 /\ last \in 1 .. N - 1
  <2>1. N - 1 \in Nat
    BY <1>1
  <2> HIDE DEF A, c, N, F
  <2>2. first \in A /\ RankIn(A, first) = k
    BY <1>2, <1>4, <2>1, NthInSet DEF c
  <2>3. first < last
    BY <1>2, <1>4, <2>1, NthGrows DEF c
  <2> QED BY <1>2, <1>4, <2>2, <2>3
<1>6. \A f \in 1 .. N - 1 : TextAt(F, ts, f) = TextAt(content, st, f) \ {N}
  <2> SUFFICES ASSUME NEW f \in 1 .. N - 1
               PROVE  TextAt(F, ts, f) = TextAt(content, st, f) \ {N}
    OBVIOUS
  <2>1. DOMAIN F = 1 .. N - 1 /\ DOMAIN content = 1 .. N
    <3>1. DOMAIN F = 1 .. Len(F)
      BY <1>1
    <3> HIDE DEF F
    <3> QED BY <1>1, <3>1
  <2> HIDE DEF F, N, ts, st
  <2>2. 1 .. N - 1 = (1 .. N) \ {N} /\ \A i \in 1 .. N - 1 : i \in 0 .. N - 1
    BY <1>1
  <2>3. \A i \in 1 .. N - 1 : F[i] = content[i] /\ ts[i] = st[i]
    BY <1>1, <2>2
  <2> QED BY <2>1, <2>2, <2>3 DEF TextAt
<1>7. A \subseteq B
  <2> SUFFICES ASSUME NEW f \in A PROVE f \in B
    OBVIOUS
  <2>1. f \in 1 .. N - 1 /\ TextAt(F, ts, f) # {}
    BY <1>2 DEF Begins, ChunkStarts
  <2>2. TextAt(content, st, f) # {}
    BY <1>6, <2>1
  <2>3. f \in DOMAIN content
    BY <1>1, <2>1
  <2> QED BY <2>2, <2>3 DEF Begins, ChunkStarts
<1>8. st[N] \in Nat /\ last <= st[N]
  <2>1. PICK i \in 1 .. N - 1 : st[i] = last
    <3>1. TextAt(F, ts, last) # {}
      BY <1>5 DEF Begins, ChunkStarts
    <3>2. PICK i \in TextAt(content, st, last) : i # N
      BY <1>5, <1>6, <3>1
    <3>3. i \in 1 .. N /\ st[i] = last
      BY <3>2 DEF TextAt
    <3>4. i \in 1 .. N - 1
      BY <1>1, <3>2, <3>3
    <3> QED BY <3>3, <3>4
  <2>2. N \in 1 .. Len(content) /\ i \in 1 .. N
    BY <1>1
  <2>3. st[N] \in 1 .. N /\ st[i] <= st[N]
    BY <2>2, StartsGrow
  <2> HIDE DEF st, N, last
  <2> QED BY <2>1, <2>3
<1>9. \A f \in B : f \in A \/ f = st[N]
  <2> SUFFICES ASSUME NEW f \in B, f \notin A PROVE f = st[N]
    OBVIOUS
  <2>1. f \in 1 .. N /\ TextAt(content, st, f) # {}
    BY DEF Begins, ChunkStarts
  <2>2. PICK i \in TextAt(content, st, f) : TRUE
    BY <2>1
  <2>3. i \in 1 .. N /\ st[i] = f /\ f \in 1 .. i
    <3>1. i \in 1 .. N /\ st[i] = f
      BY <2>2 DEF TextAt
    <3>2. st[i] \in 1 .. i
      BY <3>1, StartsGrow
    <3> HIDE DEF st, N
    <3> QED BY <3>1, <3>2
  <2>4. i = N
    <3> SUFFICES ASSUME i # N PROVE FALSE
      OBVIOUS
    <3>1. f \in 1 .. N - 1
      BY <1>1, <2>3
    <3>2. i \in TextAt(F, ts, f)
      BY <1>6, <2>2, <3>1
    <3>3. f \in DOMAIN F
      <4>1. DOMAIN F = 1 .. Len(F)
        BY <1>1
      <4> HIDE DEF F, N
      <4> QED BY <1>1, <3>1, <4>1
    <3> QED BY <2>2, <3>2, <3>3, <2>1 DEF Begins, ChunkStarts
  <2> HIDE DEF st, N
  <2> QED BY <2>3, <2>4
<1>10. RankIn(B, first) = k
  <2>1. \A f \in B : f <= first => f \in A
    <3> HIDE DEF A, B, st, N, first, last
    <3> QED BY <1>5, <1>8, <1>9
  <2>2. {j \in B : j <= first} = {j \in A : j <= first}
    <3> HIDE DEF A, B, first
    <3> QED BY <1>7, <2>1
  <2> HIDE DEF A, B, first
  <2> QED BY <1>5, <2>2 DEF RankIn
<1>11. k \in 1 .. Cardinality(B) /\ Nth(B, k) = first
  <2> HIDE DEF A, B, first, N
  <2>1. first \in B /\ N \in Nat
    BY <1>1, <1>5, <1>7
  <2> QED BY <1>3, <1>10, <2>1, RankType, NthOfRank
<1>12. T = TextAt(F, ts, first)
  <2>1. N \notin T
    <3> SUFFICES ASSUME N \in T PROVE FALSE
      OBVIOUS
    <3>1. st[N] = first
      BY DEF TextAt
    <3> HIDE DEF st, N, first, last
    <3> QED BY <1>5, <1>8, <3>1
  <2> HIDE DEF T, first
  <2> QED BY <1>5, <1>6, <2>1 DEF T
<1>13. ChunkAt(content, st, first) = ChunkAt(F, ts, first)
  <2> DEFINE lo == TextMin(F, first)
             hi == TextMax(F, first)
  <2>1. /\ lo \in first .. hi /\ hi \in 1 .. N - 1
        /\ ChunkAt(F, ts, first) = SubSeq(F, lo, hi)
    <3> HIDE DEF F, first, N
    <3> QED BY <1>1, <1>5, ChunkAtIs
  <2>2. ChunkAt(content, st, first) = SubSeq(content, lo, hi)
    <3> HIDE DEF F, st, first
    <3> QED BY <1>12 DEF ChunkAt, TextMin, TextMax
  <2>3. lo \in 1 .. N - 1
    BY <1>5, <2>1
  <2> HIDE DEF lo, hi, first
  <2>4. /\ SubSeq(content, lo, hi) \in Seq(LineInput) /\ Len(SubSeq(content, lo, hi)) = hi - lo + 1
        /\ \A i \in 1 .. hi - lo + 1 : SubSeq(content, lo, hi)[i] = content[lo - 1 + i]
    <3>1. lo \in 1 .. Len(content) /\ hi \in lo - 1 .. Len(content)
      BY <1>1, <2>1, <2>3
    <3> QED BY <3>1, PartOfFile
  <2>5. /\ SubSeq(F, lo, hi) \in Seq(LineInput) /\ Len(SubSeq(F, lo, hi)) = hi - lo + 1
        /\ \A i \in 1 .. hi - lo + 1 : SubSeq(F, lo, hi)[i] = F[lo - 1 + i]
    <3> HIDE DEF F
    <3>1. lo \in 1 .. Len(F) /\ hi \in lo - 1 .. Len(F)
      BY <1>1, <2>1, <2>3
    <3> QED BY <1>1, <3>1, PartOfFile
  <2>6. \A i \in 1 .. hi - lo + 1 : F[lo - 1 + i] = content[lo - 1 + i]
    <3>1. \A i \in 1 .. hi - lo + 1 : lo - 1 + i \in 1 .. N - 1
      BY <1>1, <2>1, <2>3
    <3> QED BY <1>1, <3>1
  <2>7. SubSeq(content, lo, hi) = SubSeq(F, lo, hi)
    <3> DEFINE s == SubSeq(content, lo, hi)
               t == SubSeq(F, lo, hi)
    <3>1. s \in Seq(LineInput) /\ t \in Seq(LineInput) /\ Len(s) = Len(t)
          /\ \A i \in 1 .. Len(s) : s[i] = t[i]
      BY <2>4, <2>5, <2>6
    <3> HIDE DEF s, t
    <3>2. s = t
      BY <3>1, SeqEqual
    <3> QED BY <3>2 DEF s, t
  <2> QED BY <2>1, <2>2, <2>7
<1>14. SplitContentIntoChunks(content)[k] = ChunkAt(content, st, first)
  BY <1>3, <1>11
<1>15. SplitContentIntoChunks(F)[k] = ChunkAt(F, ts, first)
  BY <1>2, <1>4
<1>16. k \in DOMAIN SplitContentIntoChunks(content)
  BY <1>3, <1>11
<1> QED BY <1>13, <1>14, <1>15, <1>16, Zenon


LinesOK == lines \in Seq(LineInput)

LEMMA ChunksAreSound ==
  ASSUME LinesOK
  PROVE  ChunksSound
<1> DEFINE chunks == SplitContentIntoChunks(lines)
           before == SplitContentIntoChunks(Front(lines))
<1>1. \E first \in [DOMAIN chunks -> DOMAIN lines] : HoldText(chunks, lines, first)
  BY ChunksHoldText DEF LinesOK
<1>2. ASSUME NEW k \in DOMAIN chunks PROVE WithinBounds(chunks[k])
  <2> DEFINE first == Nth(Begins(lines), k)
  <2>1. k \in 1 .. Cardinality(Begins(lines))
    BY SplitIs DEF LinesOK
  <2>2. first \in Begins(lines) /\ chunks[k] = ChunkAt(lines, Starts(lines), first)
    BY <2>1, SplitIs DEF LinesOK
  <2> HIDE DEF first, chunks
  <2>3. WithinBounds(ChunkAt(lines, Starts(lines), first))
    BY <2>2, ChunkBounds DEF LinesOK
  <2> QED BY <2>2, <2>3
<1>3. ASSUME lines # <<>>, NEW k \in 1 .. Len(before) - 1
      PROVE  k \in DOMAIN chunks /\ chunks[k] = before[k]
  BY <1>3, ChunksStay DEF LinesOK
<1> HIDE DEF chunks, before
<1>4. (\E first \in [DOMAIN chunks -> DOMAIN lines] : HoldText(chunks, lines, first))
      /\ (\A k \in DOMAIN chunks : WithinBounds(chunks[k]))
      /\ (lines # <<>> => \A k \in 1 .. Len(before) - 1 : k \in DOMAIN chunks /\ chunks[k] = before[k])
  BY <1>1, <1>2, <1>3
<1> QED BY <1>4, Zenon DEF ChunksSound, chunks, before

\* Of every file the chunks hold the whole text in order, each is within the bounds
\* or a single line, and a file that grows at its end keeps all of its chunks but
\* the last.
THEOREM ChunksCorrect == AlgorithmsSpec => []ChunksSound
<1>1. AlgorithmsInit => LinesOK
  BY DEF AlgorithmsInit, LinesOK
<1>2. LinesOK /\ [AlgorithmsNext]_vars => LinesOK'
  <2> SUFFICES ASSUME LinesOK, [AlgorithmsNext]_vars PROVE LinesOK'
    OBVIOUS
  <2>1. CASE AppendLine
    BY <2>1 DEF AppendLine, LinesOK
  <2>2. CASE UNCHANGED lines
    BY <2>2 DEF LinesOK
  <2> QED BY <2>1, <2>2 DEF AlgorithmsNext, vars, ReturnHit, AppendWord, LaunchNext, ServerNext, ReaderNext
<1>3. LinesOK => ChunksSound
  BY ChunksAreSound
<1> QED BY <1>1, <1>2, <1>3, PTL DEF AlgorithmsSpec

-----------------------------------------------------------------------------
(***************************************************************************)
(* Recall: the results of the runtime.                                     *)
(***************************************************************************)

\* A finite set with a strict linear order has an element in front of all others.
LEMMA Foremost ==
  ASSUME NEW D, IsFiniteSet(D), D # {}, NEW ahead, Linear(ahead, D)
  PROVE  \E i \in D : \A j \in D : i = j \/ <<i, j>> \in ahead
<1> DEFINE before(i) == {j \in D : <<j, i>> \in ahead}
           T == {Cardinality(before(i)) : i \in D}
<1>1. ASSUME NEW i \in D PROVE IsFiniteSet(before(i)) /\ Cardinality(before(i)) \in Nat
  <2>1. before(i) \in SUBSET D
    OBVIOUS
  <2> HIDE DEF before
  <2> QED BY <2>1, FS_Subset, FS_CardinalityType
<1>2. T \in SUBSET Nat /\ T # {}
  <2> HIDE DEF before
  <2> QED BY <1>1
<1>3. PICK n \in T : \A m \in T : ~(m < n)
  <2> HIDE DEF T
  <2> QED BY <1>2, Least
<1>4. PICK i \in D : n = Cardinality(before(i))
  <2> HIDE DEF before
  <2> QED OBVIOUS
<1>5. ASSUME NEW j \in D, <<j, i>> \in ahead PROVE FALSE
  <2>1. before(j) \in SUBSET before(i) /\ j \in before(i) /\ j \notin before(j)
    BY <1>5 DEF Linear
  <2>2. /\ IsFiniteSet(before(i)) /\ Cardinality(before(i)) \in Nat
        /\ Cardinality(before(j)) \in Nat /\ ~(Cardinality(before(j)) < Cardinality(before(i)))
    <3> HIDE DEF before
    <3> QED BY <1>1, <1>3, <1>4
  <2> HIDE DEF before
  <2>3. Cardinality(before(j)) <= Cardinality(before(i))
        /\ Cardinality(before(j)) # Cardinality(before(i))
    BY <2>1, <2>2, FS_Subset
  <2> QED BY <2>2, <2>3
<1> QED BY <1>5 DEF Linear

\* The places of the hits in the order of their scores.
ScoreOrder(seq) ==
  {p \in (DOMAIN seq) \X (DOMAIN seq) :
     \/ seq[p[1]].score > seq[p[2]].score
     \/ seq[p[1]].score = seq[p[2]].score /\ p[1] < p[2]}

LEMMA ScoreLinear ==
  ASSUME NEW S, \A e \in S : e.score \in Int, NEW seq \in Seq(S), NEW at \in SUBSET DOMAIN seq
  PROVE  Linear(ScoreOrder(seq), at)
<1>1. \A i \in at : i \in Int /\ seq[i].score \in Int
  <2>1. \A i \in at : i \in Int /\ seq[i] \in S
    OBVIOUS
  <2> QED BY <2>1
<1>2. \A i, j \in at : <<i, j>> \in ScoreOrder(seq) <=>
                         \/ seq[i].score > seq[j].score
                         \/ seq[i].score = seq[j].score /\ i < j
  BY DEF ScoreOrder
<1>3. \A i \in at : <<i, i>> \notin ScoreOrder(seq)
  BY <1>1, <1>2
<1>4. ASSUME NEW i \in at, NEW j \in at, NEW k \in at,
             <<i, j>> \in ScoreOrder(seq), <<j, k>> \in ScoreOrder(seq)
      PROVE  <<i, k>> \in ScoreOrder(seq)
  BY <1>1, <1>2, <1>4
<1>5. ASSUME NEW i \in at, NEW k \in at, i # k
      PROVE  <<i, k>> \in ScoreOrder(seq) \/ <<k, i>> \in ScoreOrder(seq)
  <2>1. /\ i \in Int /\ k \in Int /\ seq[i].score \in Int /\ seq[k].score \in Int
    BY <1>1
  <2>2. CASE seq[i].score = seq[k].score
    <3>1. i < k \/ k < i
      BY <1>5, <2>1
    <3> QED BY <1>2, <2>2, <3>1
  <2>3. CASE seq[i].score > seq[k].score \/ seq[k].score > seq[i].score
    BY <1>2, <2>3
  <2> QED BY <2>1, <2>2, <2>3
<1> QED BY <1>3, <1>4, <1>5 DEF Linear

\* Of several hits one with the best score is kept.
LEMMA KeptIs ==
  ASSUME NEW S, \A e \in S : e.score \in Int, NEW seq \in Seq(S),
         NEW at \in SUBSET DOMAIN seq, at # {}
  PROVE  /\ Kept(seq, at) \in at
         /\ \A j \in at : seq[j].score <= seq[Kept(seq, at)].score
<1>1. IsFiniteSet(at) /\ \A i \in at : i \in Int /\ seq[i].score \in Int
  <2>1. at \in SUBSET (1 .. Len(seq)) /\ Len(seq) \in Nat /\ \A i \in at : i \in Int /\ seq[i] \in S
    OBVIOUS
  <2> QED BY <2>1, NumbersFinite
<1>2. PICK i \in at : \A j \in at : i = j \/ <<i, j>> \in ScoreOrder(seq)
  BY <1>1, ScoreLinear, Foremost
<1>3. \A j \in at : <<i, j>> \in ScoreOrder(seq) <=>
                      \/ seq[i].score > seq[j].score
                      \/ seq[i].score = seq[j].score /\ i < j
  BY DEF ScoreOrder
<1>4. ASSUME NEW j \in at PROVE seq[j].score < seq[i].score \/ (seq[j].score = seq[i].score /\ i <= j)
  <2>1. /\ i \in Int /\ j \in Int /\ seq[i].score \in Int /\ seq[j].score \in Int
    BY <1>1
  <2>2. CASE i = j
    BY <2>1, <2>2
  <2>3. CASE i # j
    <3>1. \/ seq[i].score > seq[j].score
          \/ seq[i].score = seq[j].score /\ i < j
      BY <1>2, <1>3, <2>3
    <3> QED BY <2>1, <3>1
  <2> QED BY <2>2, <2>3
<1> DEFINE k == Kept(seq, at)
<1>5. k \in at /\ \A j \in at : seq[j].score < seq[k].score \/ (seq[j].score = seq[k].score /\ k <= j)
  BY <1>4 DEF Kept
<1> HIDE DEF k
<1>6. k \in at /\ \A j \in at : seq[j].score <= seq[k].score
  BY <1>1, <1>5
<1> QED BY <1>6 DEF k

\* What collapsing hits with one key keeps: the places g of the results.
Collapses(seq, key, out, g) ==
  /\ g \in [DOMAIN out -> DOMAIN seq]
  /\ \A n \in DOMAIN out : out[n] = seq[g[n]]
  /\ \A m, n \in DOMAIN out : key[g[m]] = key[g[n]] => m = n
  /\ \A i \in DOMAIN seq : \E n \in DOMAIN out :
       key[g[n]] = key[i] /\ seq[i].score <= seq[g[n]].score

LEMMA CollapsedIs ==
  ASSUME NEW S, \A e \in S : e.score \in Int, NEW seq \in Seq(S), NEW key
  PROVE  /\ Collapsed(seq, key) \in Seq(S)
         /\ \E g : Collapses(seq, key, Collapsed(seq, key), g)
<1> DEFINE N == Len(seq)
           D == DOMAIN seq
           with(k) == {i \in D : key[i] = k}
           firsts == {i \in D : i = Min(with(key[i]))}
           c == Cardinality(firsts)
           g == [n \in 1 .. c |-> Kept(seq, with(key[Nth(firsts, n)]))]
           f == [n \in 1 .. c |-> seq[Kept(seq, with(key[Nth(firsts, n)]))]]
           out == Collapsed(seq, key)
<1>1. D = 1 .. N /\ N \in Nat
  OBVIOUS
<1>2. firsts \in SUBSET D /\ c \in Nat
  <2>1. firsts \in SUBSET D
    OBVIOUS
  <2> HIDE DEF firsts, D, N
  <2> QED BY <1>1, <2>1, NumbersFinite
<1>3. \A n \in 1 .. c : Nth(firsts, n) \in firsts
  <2> HIDE DEF firsts, D, N
  <2> QED BY <1>1, <1>2, NthInSet
<1>4. ASSUME NEW i \in D
      PROVE  /\ Kept(seq, with(key[i])) \in D /\ key[Kept(seq, with(key[i]))] = key[i]
             /\ \A j \in D : key[j] = key[i] => seq[j].score <= seq[Kept(seq, with(key[i]))].score
  <2>1. with(key[i]) \in SUBSET D /\ i \in with(key[i])
    OBVIOUS
  <2>2. /\ Kept(seq, with(key[i])) \in with(key[i])
        /\ \A j \in with(key[i]) : seq[j].score <= seq[Kept(seq, with(key[i]))].score
    <3> HIDE DEF with
    <3> QED BY <2>1, KeptIs
  <2> QED BY <2>2
<1>5. ASSUME NEW i \in D PROVE Min(with(key[i])) \in firsts /\ key[Min(with(key[i]))] = key[i]
  <2>1. with(key[i]) \in SUBSET (1 .. N) /\ i \in with(key[i])
    BY <1>1
  <2>2. Min(with(key[i])) \in with(key[i])
    <3> HIDE DEF with, N, D
    <3> QED BY <1>1, <2>1, MinMaxOf
  <2> DEFINE m == Min(with(key[i]))
  <2>3. m \in D /\ key[m] = key[i]
    BY <2>2
  <2>4. m = Min(with(key[m]))
    <3> HIDE DEF with
    <3> QED BY <2>3
  <2> HIDE DEF m
  <2>5. m \in firsts
    <3> HIDE DEF with
    <3> QED BY <2>3, <2>4
  <2> QED BY <2>3, <2>5 DEF m
<1>6. \A n \in 1 .. c : Nth(firsts, n) \in D /\ Nth(firsts, n) = Min(with(key[Nth(firsts, n)]))
  <2>1. \A i \in firsts : i \in D /\ i = Min(with(key[i]))
    <3> HIDE DEF with
    <3> QED OBVIOUS
  <2> HIDE DEF firsts, with
  <2> QED BY <1>3, <2>1
<1> HIDE DEF firsts
<1>7. ASSUME NEW n \in 1 .. c
      PROVE  /\ g[n] \in D /\ key[g[n]] = key[Nth(firsts, n)] /\ f[n] = seq[g[n]] /\ f[n] \in S
             /\ \A j \in D : key[j] = key[g[n]] => seq[j].score <= seq[g[n]].score
  <2> DEFINE k == Kept(seq, with(key[Nth(firsts, n)]))
  <2>1. Nth(firsts, n) \in D
    <3> HIDE DEF D
    <3> QED BY <1>6
  <2>2. k \in D /\ key[k] = key[Nth(firsts, n)]
        /\ \A j \in D : key[j] = key[Nth(firsts, n)] => seq[j].score <= seq[k].score
    <3> HIDE DEF with, D
    <3> QED BY <1>4, <2>1
  <2>3. g[n] = k /\ f[n] = seq[k]
    OBVIOUS
  <2> HIDE DEF k, g, f
  <2>4. seq[k] \in S
    BY <2>2
  <2> QED BY <2>2, <2>3, <2>4
<1>8. f \in [1 .. c -> S]
  <2>1. f = [n \in 1 .. c |-> f[n]]
    OBVIOUS
  <2> HIDE DEF f, c
  <2> QED BY <1>7, <2>1
<1>9. out = f /\ f \in Seq(S) /\ Len(f) = c
  <2>1. out = Listed(f)
    BY DEF Collapsed, firsts
  <2> HIDE DEF f, c, out
  <2> QED BY <1>2, <1>8, <2>1, ListedIs
<1>10. DOMAIN out = 1 .. c
  <2> HIDE DEF f, out, c
  <2> QED BY <1>9
<1>11. g \in [DOMAIN out -> D]
  <2>1. g = [n \in 1 .. c |-> g[n]]
    OBVIOUS
  <2> HIDE DEF g, out, c, f, D
  <2> QED BY <1>7, <1>10, <2>1
<1>12. ASSUME NEW m \in 1 .. c, NEW n \in 1 .. c, key[g[m]] = key[g[n]] PROVE m = n
  <2>1. key[Nth(firsts, m)] = key[Nth(firsts, n)]
    <3> HIDE DEF g, f, c
    <3> QED BY <1>7, <1>12
  <2>2. Nth(firsts, m) = Nth(firsts, n)
    <3> HIDE DEF with, D
    <3>1. Nth(firsts, m) = Min(with(key[Nth(firsts, m)])) /\ Nth(firsts, n) = Min(with(key[Nth(firsts, n)]))
      BY <1>6
    <3> QED BY <2>1, <3>1
  <2>3. RankIn(firsts, Nth(firsts, m)) = m /\ RankIn(firsts, Nth(firsts, n)) = n
    <3> HIDE DEF D, N
    <3> QED BY <1>1, <1>2, NthInSet
  <2> QED BY <2>2, <2>3
<1>13. ASSUME NEW i \in D
       PROVE  \E n \in 1 .. c : key[g[n]] = key[i] /\ seq[i].score <= seq[g[n]].score
  <2> DEFINE m == Min(with(key[i]))
             n == RankIn(firsts, m)
  <2>1. m \in firsts /\ key[m] = key[i]
    BY <1>5
  <2>2. n \in 1 .. c /\ Nth(firsts, n) = m
    <3> HIDE DEF D, N, m
    <3> QED BY <1>1, <1>2, <2>1, RankType, NthOfRank
  <2> HIDE DEF m, n
  <2>3. key[g[n]] = key[i] /\ \A j \in D : key[j] = key[g[n]] => seq[j].score <= seq[g[n]].score
    <3> HIDE DEF g, f, D, c
    <3> QED BY <1>7, <2>1, <2>2
  <2>4. seq[i].score <= seq[g[n]].score
    <3> HIDE DEF g, D, c
    <3> QED BY <2>3
  <2> QED BY <2>2, <2>3, <2>4
<1>14. \A n \in DOMAIN out : out[n] = seq[g[n]]
  <2> HIDE DEF g, f, out, c
  <2> QED BY <1>7, <1>9, <1>10
<1>15. Collapses(seq, key, out, g)
  <2> HIDE DEF g, f, out, c
  <2> QED BY <1>10, <1>11, <1>12, <1>13, <1>14 DEF Collapses
<1> QED BY <1>9, <1>15

LEMMA DrawnSelf ==
  ASSUME NEW S, NEW seq \in Seq(S)
  PROVE  Drawn(seq, seq)
<1> DEFINE g == [i \in DOMAIN seq |-> i]
<1>1. g \in [DOMAIN seq -> DOMAIN seq]
  OBVIOUS
<1>2. \A i, k \in DOMAIN seq : g[i] = g[k] => i = k
  OBVIOUS
<1>3. \A i \in DOMAIN seq : seq[i] = seq[g[i]]
  OBVIOUS
<1> HIDE DEF g
<1> QED BY <1>1, <1>2, <1>3 DEF Drawn

LEMMA DistinctDrawn ==
  ASSUME NEW seq, NEW out, Drawn(out, seq), Distinct(seq)
  PROVE  Distinct(out)
BY DEF Drawn, Distinct

\* The sort by score has all hits, none before a better one.
LEMMA ByScoreIs ==
  ASSUME NEW S, \A e \in S : e.score \in Int, NEW seq \in Seq(S)
  PROVE  /\ ByScore(seq) \in Seq(S) /\ Len(ByScore(seq)) = Len(seq) /\ Drawn(ByScore(seq), seq)
         /\ \A m, n \in DOMAIN ByScore(seq) : m < n => ByScore(seq)[m].score >= ByScore(seq)[n].score
         /\ \A i \in DOMAIN seq : \E n \in DOMAIN ByScore(seq) : ByScore(seq)[n] = seq[i]
<1> DEFINE D == DOMAIN seq
           out == ByScore(seq)
<1>1. D \in SUBSET DOMAIN seq /\ \A i \in D : seq[i] \in S
  OBVIOUS
<1>2. Linear(ScoreOrder(seq), DOMAIN seq)
  BY <1>1, ScoreLinear
<1>3. out = Sorted(seq, ScoreOrder(seq))
  BY Zenon DEF ByScore, ScoreOrder
<1> HIDE DEF out
<1>4. Drawn(out, seq)
  BY <1>2, <1>3, SortedDrawn
<1>5. /\ out \in Seq(S) /\ Len(out) = Len(seq)
      /\ \E g \in [DOMAIN seq -> DOMAIN seq] :
           /\ \A n \in DOMAIN seq : out[n] = seq[g[n]]
           /\ \A m, n \in DOMAIN seq : m < n => <<g[m], g[n]>> \in ScoreOrder(seq)
           /\ \A i \in DOMAIN seq : \E n \in DOMAIN seq : g[n] = i
  <2> DEFINE order == ScoreOrder(seq)
  <2> HIDE DEF order
  <2>1. out = Sorted(seq, order) /\ Linear(order, DOMAIN seq)
    BY <1>2, <1>3 DEF order
  <2>2. /\ Sorted(seq, order) \in Seq(S) /\ Len(Sorted(seq, order)) = Len(seq)
        /\ \E g : SortedBy(Sorted(seq, order), seq, order, g)
    BY <2>1, SortedIs
  <2> QED BY <2>1, <2>2 DEF order, SortedBy
<1>6. PICK g \in [DOMAIN seq -> DOMAIN seq] :
           /\ \A n \in DOMAIN seq : out[n] = seq[g[n]]
           /\ \A m, n \in DOMAIN seq : m < n => <<g[m], g[n]>> \in ScoreOrder(seq)
           /\ \A i \in DOMAIN seq : \E n \in DOMAIN seq : g[n] = i
  BY <1>5
<1>7. DOMAIN out = D
  BY <1>5
<1>8. \A i \in D : seq[i].score \in Int
  BY <1>1
<1>9. \A i, j \in D : <<i, j>> \in ScoreOrder(seq) => seq[i].score >= seq[j].score
  <2>1. \A i, j \in D : <<i, j>> \in ScoreOrder(seq) => \/ seq[i].score > seq[j].score
                                                        \/ seq[i].score = seq[j].score
    BY DEF ScoreOrder
  <2> HIDE DEF D
  <2> QED BY <1>8, <2>1
<1> HIDE DEF D
<1>10. \A m, n \in D : m < n => out[m].score >= out[n].score
  <2> SUFFICES ASSUME NEW m \in D, NEW n \in D, m < n PROVE out[m].score >= out[n].score
    OBVIOUS
  <2>1. g[m] \in D /\ g[n] \in D /\ <<g[m], g[n]>> \in ScoreOrder(seq)
    BY <1>6 DEF D
  <2>2. out[m] = seq[g[m]] /\ out[n] = seq[g[n]]
    BY <1>6 DEF D
  <2>3. seq[g[m]].score >= seq[g[n]].score
    BY <1>9, <2>1
  <2> QED BY <2>2, <2>3
<1>11. \A i \in DOMAIN seq : \E n \in D : out[n] = seq[i]
  <2> SUFFICES ASSUME NEW i \in DOMAIN seq PROVE \E n \in D : out[n] = seq[i]
    OBVIOUS
  <2>1. PICK n \in D : g[n] = i
    BY <1>6 DEF D
  <2>2. out[n] = seq[i]
    BY <1>6, <2>1 DEF D
  <2> QED BY <2>2
<1> QED BY <1>4, <1>5, <1>7, <1>10, <1>11 DEF out

LEMMA TokenCountType ==
  ASSUME NEW S, \A e \in S : e.chars \in Nat, NEW seq \in Seq(S)
  PROVE  /\ [i \in DOMAIN seq |-> (seq[i].chars + 3) \div 4] \in Seq(Nat)
         /\ TokenCount(seq) \in Nat /\ (seq = <<>> => TokenCount(seq) = 0)
<1> DEFINE t == [i \in DOMAIN seq |-> (seq[i].chars + 3) \div 4]
<1>1. \A i \in DOMAIN seq : seq[i].chars \in Nat
  <2>1. \A i \in DOMAIN seq : seq[i] \in S
    OBVIOUS
  <2> QED BY <2>1
<1>2. DOMAIN seq = 1 .. Len(seq) /\ Len(seq) \in Nat /\ (seq = <<>> => Len(seq) = 0)
  OBVIOUS
<1>3. \A i \in DOMAIN seq : (seq[i].chars + 3) \div 4 \in Nat
  BY <1>1
<1>4. t \in Seq(Nat) /\ (seq = <<>> => t = <<>>)
  BY <1>2, <1>3
<1> HIDE DEF t
<1>5. TokenCount(seq) = Total(t)
  BY DEF TokenCount, t
<1>6. Total(t) \in Nat /\ (t = <<>> => Total(t) = 0)
  BY <1>4, TotalType
<1> QED BY <1>4, <1>5, <1>6 DEF t

\* The tokens of some of the hits.
LEMMA TokenCountDrawn ==
  ASSUME NEW S, \A e \in S : e.chars \in Nat, NEW seq \in Seq(S), NEW out \in Seq(S),
         Drawn(out, seq)
  PROVE  TokenCount(out) <= TokenCount(seq)
<1> DEFINE t == [i \in DOMAIN seq |-> (seq[i].chars + 3) \div 4]
           u == [i \in DOMAIN out |-> (out[i].chars + 3) \div 4]
<1>1. PICK g \in [DOMAIN out -> DOMAIN seq] : /\ \A i, k \in DOMAIN out : g[i] = g[k] => i = k
                                              /\ \A i \in DOMAIN out : out[i] = seq[g[i]]
  BY DEF Drawn
<1>2. t \in Seq(Nat) /\ u \in Seq(Nat)
  BY TokenCountType
<1>3. DOMAIN t = DOMAIN seq /\ DOMAIN u = DOMAIN out
  OBVIOUS
<1>4. \A i \in DOMAIN out : u[i] = t[g[i]]
  BY <1>1
<1> HIDE DEF t, u
<1>5. Drawn(u, t)
  BY <1>1, <1>3, <1>4 DEF Drawn
<1>6. Total(u) <= Total(t)
  BY <1>2, <1>5, DrawnTotal
<1> QED BY <1>6 DEF TokenCount, t, u

\* As many of the first hits are taken as the limit and the budget allow.
LEMMA TakeFittingIs ==
  ASSUME NEW S, \A e \in S : e.chars \in Nat, NEW seq \in Seq(S),
         NEW query, query.limit \in Nat, query.budget \in Nat
  PROVE  \E n \in 0 .. Len(seq) : /\ TakeFitting(query, seq) = SubSeq(seq, 1, n)
                                  /\ n <= query.limit
                                  /\ TokenCount(SubSeq(seq, 1, n)) <= query.budget
<1> DEFINE N == Len(seq)
           fits == {n \in 0 .. N : n <= query.limit /\ TokenCount(SubSeq(seq, 1, n)) <= query.budget}
<1>1. N \in Nat /\ 0 \in 0 .. N /\ SubSeq(seq, 1, 0) = <<>>
  OBVIOUS
<1>2. TokenCount(<<>>) = 0
  <2>1. <<>> \in Seq(S)
    OBVIOUS
  <2> QED BY <2>1, TokenCountType
<1>3. 0 \in fits /\ fits \in SUBSET (0 .. N)
  <2>1. TokenCount(SubSeq(seq, 1, 0)) = 0
    BY <1>1, <1>2, Zenon
  <2>2. 0 <= query.limit /\ TokenCount(SubSeq(seq, 1, 0)) <= query.budget
    BY <2>1
  <2> HIDE DEF N
  <2> QED BY <1>1, <2>2
<1>4. TakeFitting(query, seq) = SubSeq(seq, 1, Max(fits))
  BY DEF TakeFitting
<1>5. Max(fits) \in fits
  <2> HIDE DEF fits, N
  <2> QED BY <1>1, <1>3, MinMaxUpTo
<1> QED BY <1>4, <1>5

-----------------------------------------------------------------------------
\* A hit with its score.
RankedHit(query, hit, pinned) ==
  [artifact |-> hit.artifact, payload |-> hit.payload, chars |-> hit.chars,
   words |-> hit.words, score |-> RankedScore(query, hit, pinned)]

RankedHits(query, pinned) == {RankedHit(query, h, pinned) : h \in Hit}

\* What selections do arithmetic with.
Graded(e) ==
  /\ e.score \in Int /\ e.age \in Int /\ e.tokens \in Nat
  /\ e.classification \in DOMAIN ClassificationPriority

LEMMA ScoreType ==
  ASSUME NEW query, IsFiniteSet(query.words), NEW h \in Hit, NEW pinned
  PROVE  RankedScore(query, h, pinned) \in Int
<1>1. /\ h.score \in Int /\ h.age \in Int
      /\ h.classification \in {"decision", "problem", "milestone", "artifact", "conversation"}
      /\ h.pin \in {"none", "other", "own", "global"}
  BY HitAssumption DEF ClassificationPriority
<1>2. RecencyBoost(h.age) \in Int
  BY DEF RecencyBoost
<1>3. SourceConfidenceBoost(h.sourceType) \in Int
  BY DEF SourceConfidenceBoost
<1>4. StructuralBoost(h) \in Int
  <2> DEFINE A == {"wing", "hall", "room", "sourceId"}
             B == {"classifications", "memoryTypes"}
  <2>1. IsFiniteSet({"wing"} \cup {"hall"} \cup {"room"} \cup {"sourceId"})
    BY FS_Singleton, FS_Union
  <2>2. IsFiniteSet({"classifications"} \cup {"memoryTypes"})
    BY FS_Singleton, FS_Union
  <2>3. A = {"wing"} \cup {"hall"} \cup {"room"} \cup {"sourceId"}
        /\ B = {"classifications"} \cup {"memoryTypes"}
    OBVIOUS
  <2>4. IsFiniteSet(h.matched \cap A) /\ IsFiniteSet(h.matched \cap B)
    <3>1. h.matched \cap A \in SUBSET A /\ h.matched \cap B \in SUBSET B
      OBVIOUS
    <3> HIDE DEF A, B
    <3> QED BY <2>1, <2>2, <2>3, <3>1, FS_Subset
  <2>5. Cardinality(h.matched \cap A) \in Nat /\ Cardinality(h.matched \cap B) \in Nat
    BY <2>4, FS_CardinalityType
  <2> QED BY <2>5 DEF StructuralBoost
<1>5. ClassificationBoost[h.classification] \in Int
  BY <1>1 DEF ClassificationBoost
<1>6. KeywordBoost(query, h) \in Int
  <2>1. CASE query.words = {}
    BY <2>1 DEF KeywordBoost
  <2>2. CASE query.words # {}
    <3> DEFINE found == (h.words \cup h.reason) \cap query.words
    <3>1. IsFiniteSet(found)
      <4>1. found \in SUBSET query.words
        OBVIOUS
      <4> QED BY <4>1, FS_Subset
    <3>2. Cardinality(found) \in Nat /\ Cardinality(query.words) \in Nat
      BY <3>1, FS_CardinalityType
    <3>3. Cardinality(query.words) # 0
      BY <2>2, FS_EmptySet
    <3>4. (20 * Cardinality(found)) \div Cardinality(query.words) \in Int
      BY <3>2, <3>3
    <3> QED BY <2>2, <3>4 DEF KeywordBoost
  <2> QED BY <2>1, <2>2
<1>7. PinnedMemoryBoost(h, pinned) \in Int
  BY <1>1 DEF PinnedMemoryBoost
<1> HIDE DEF RankedScore
<1> QED BY <1>1, <1>2, <1>3, <1>4, <1>5, <1>6, <1>7 DEF RankedScore

LEMMA RankedIs ==
  ASSUME NEW query, IsFiniteSet(query.words), NEW pinned, NEW pool \in Seq(Hit)
  PROVE  /\ Ranked(query, pool, pinned) \in Seq(RankedHits(query, pinned))
         /\ Len(Ranked(query, pool, pinned)) = Len(pool)
         /\ \A i \in DOMAIN pool : Ranked(query, pool, pinned)[i] = RankedHit(query, pool[i], pinned)
         /\ \A e \in RankedHits(query, pinned) : e.chars \in Nat /\ e.score \in Int
<1> DEFINE f == [i \in DOMAIN pool |-> RankedHit(query, pool[i], pinned)]
<1>1. DOMAIN pool = 1 .. Len(pool) /\ Len(pool) \in Nat /\ \A i \in DOMAIN pool : pool[i] \in Hit
  OBVIOUS
<1>2. f \in [1 .. Len(pool) -> RankedHits(query, pinned)]
  BY <1>1 DEF RankedHits
<1>3. Ranked(query, pool, pinned) = Listed(f)
  BY DEF Ranked, RankedHit
<1>4. \A i \in DOMAIN pool : f[i] = RankedHit(query, pool[i], pinned)
  OBVIOUS
<1> HIDE DEF f
<1>5. Listed(f) = f /\ f \in Seq(RankedHits(query, pinned)) /\ Len(f) = Len(pool)
  BY <1>1, <1>2, ListedIs
<1>6. ASSUME NEW h \in Hit
      PROVE  LET e == RankedHit(query, h, pinned) IN e.chars \in Nat /\ e.score \in Int
  <2>1. RankedScore(query, h, pinned) \in Int
    BY ScoreType
  <2>2. h.chars \in Nat
    BY HitAssumption
  <2> HIDE DEF RankedScore
  <2> QED BY <2>1, <2>2 DEF RankedHit
<1>7. \A e \in RankedHits(query, pinned) : e.chars \in Nat /\ e.score \in Int
  BY <1>6 DEF RankedHits
<1> QED BY <1>3, <1>4, <1>5, <1>7

RecallQuery(query) ==
  IsFiniteSet(query.words) /\ query.limit \in Nat /\ query.budget \in Nat

LEMMA CollapsesDrawn ==
  ASSUME NEW seq, NEW key, NEW out, NEW g, Collapses(seq, key, out, g)
  PROVE  Drawn(out, seq)
<1>1. g \in [DOMAIN out -> DOMAIN seq]
  BY DEF Collapses
<1>2. \A i, k \in DOMAIN out : g[i] = g[k] => i = k
  BY DEF Collapses
<1>3. \A i \in DOMAIN out : out[i] = seq[g[i]]
  BY DEF Collapses
<1> QED BY <1>1, <1>2, <1>3 DEF Drawn

\* The hits after both collapses: no artifact and no text twice, and each hit is
\* represented by one that is no worse.
LEMMA CollapsedTwice ==
  ASSUME NEW S, \A e \in S : e.score \in Int, NEW seq \in Seq(S)
  PROVE  LET out == BySnippetFingerprint(ByArtifactId(seq))
         IN /\ out \in Seq(S) /\ Drawn(out, seq) /\ Distinct(out)
            /\ \A h \in ToSet(seq) : \E g \in ToSet(seq), n \in DOMAIN out :
                 g.artifact = h.artifact /\ g.payload = out[n].payload /\ out[n].score >= h.score
<1> DEFINE ids == [i \in DOMAIN seq |-> seq[i].artifact]
           a == ByArtifactId(seq)
           prints == [i \in DOMAIN a |-> a[i].payload]
           f == BySnippetFingerprint(a)
<1>1. a = Collapsed(seq, ids)
  BY DEF ByArtifactId
<1>2. f = Collapsed(a, prints)
  BY DEF BySnippetFingerprint
<1>3. \A i \in DOMAIN seq : ids[i] = seq[i].artifact /\ seq[i] \in S
  OBVIOUS
<1>4. \A i \in DOMAIN a : prints[i] = a[i].payload
  OBVIOUS
<1> HIDE DEF ids, prints, a, f
<1>5. a \in Seq(S) /\ \E g : Collapses(seq, ids, a, g)
  BY <1>1, CollapsedIs
<1>6. f \in Seq(S) /\ \E g : Collapses(a, prints, f, g)
  BY <1>2, <1>5, CollapsedIs
<1>7. PICK u : Collapses(seq, ids, a, u)
  BY <1>5
<1>8. PICK v : Collapses(a, prints, f, v)
  BY <1>6
<1>9. Drawn(f, seq)
  BY <1>7, <1>8, CollapsesDrawn, DrawnTransitive
<1>10. /\ u \in [DOMAIN a -> DOMAIN seq]
       /\ \A n \in DOMAIN a : a[n] = seq[u[n]] /\ a[n].artifact = ids[u[n]] /\ a[n] \in S
       /\ \A m, n \in DOMAIN a : ids[u[m]] = ids[u[n]] => m = n
       /\ \A i \in DOMAIN seq : \E n \in DOMAIN a :
            ids[u[n]] = ids[i] /\ seq[i].score <= seq[u[n]].score
  <2>1. u \in [DOMAIN a -> DOMAIN seq]
    BY <1>7 DEF Collapses
  <2>2. \A n \in DOMAIN a : a[n] = seq[u[n]]
    BY <1>7 DEF Collapses
  <2>3. \A m, n \in DOMAIN a : ids[u[m]] = ids[u[n]] => m = n
    BY <1>7 DEF Collapses
  <2>4. \A i \in DOMAIN seq : \E n \in DOMAIN a :
          ids[u[n]] = ids[i] /\ seq[i].score <= seq[u[n]].score
    BY <1>7 DEF Collapses
  <2>5. \A n \in DOMAIN a : a[n].artifact = ids[u[n]] /\ a[n] \in S
    BY <1>3, <2>1, <2>2
  <2> QED BY <2>1, <2>2, <2>3, <2>4, <2>5
<1>11. /\ v \in [DOMAIN f -> DOMAIN a]
       /\ \A n \in DOMAIN f : f[n] = a[v[n]] /\ f[n].payload = prints[v[n]] /\ f[n] \in S
       /\ \A m, n \in DOMAIN f : prints[v[m]] = prints[v[n]] => m = n
       /\ \A i \in DOMAIN a : \E n \in DOMAIN f :
            prints[v[n]] = prints[i] /\ a[i].score <= a[v[n]].score
  <2>1. v \in [DOMAIN f -> DOMAIN a]
    BY <1>8 DEF Collapses
  <2>2. \A n \in DOMAIN f : f[n] = a[v[n]]
    BY <1>8 DEF Collapses
  <2>3. \A m, n \in DOMAIN f : prints[v[m]] = prints[v[n]] => m = n
    BY <1>8 DEF Collapses
  <2>4. \A i \in DOMAIN a : \E n \in DOMAIN f :
          prints[v[n]] = prints[i] /\ a[i].score <= a[v[n]].score
    BY <1>8 DEF Collapses
  <2>5. \A n \in DOMAIN f : f[n].payload = prints[v[n]] /\ f[n] \in S
    BY <1>4, <1>10, <2>1, <2>2
  <2> QED BY <2>1, <2>2, <2>3, <2>4, <2>5
<1>12. Distinct(f)
  <2> SUFFICES ASSUME NEW m \in DOMAIN f, NEW n \in DOMAIN f,
                      f[m].artifact = f[n].artifact \/ f[m].payload = f[n].payload
               PROVE  m = n
    BY DEF Distinct
  <2>1. CASE f[m].payload = f[n].payload
    BY <1>11, <2>1
  <2>2. CASE f[m].artifact = f[n].artifact
    <3>1. v[m] \in DOMAIN a /\ v[n] \in DOMAIN a /\ f[m] = a[v[m]] /\ f[n] = a[v[n]]
      BY <1>11
    <3>2. ids[u[v[m]]] = ids[u[v[n]]]
      BY <1>10, <2>2, <3>1
    <3>3. v[m] = v[n]
      BY <1>10, <3>1, <3>2
    <3> QED BY <1>11, <3>3
  <2> QED BY <2>1, <2>2
<1>13. ASSUME NEW h \in ToSet(seq)
       PROVE  \E g \in ToSet(seq), n \in DOMAIN f :
                g.artifact = h.artifact /\ g.payload = f[n].payload /\ f[n].score >= h.score
  <2>1. PICK i \in DOMAIN seq : h = seq[i]
    BY DEF ToSet
  <2>2. PICK k \in DOMAIN a : ids[u[k]] = ids[i] /\ seq[i].score <= seq[u[k]].score
    BY <1>10
  <2>3. PICK n \in DOMAIN f : prints[v[n]] = prints[k] /\ a[k].score <= a[v[n]].score
    BY <1>11
  <2>4. a[k] = seq[u[k]] /\ u[k] \in DOMAIN seq /\ a[k] \in ToSet(seq)
    BY <1>10 DEF ToSet
  <2>5. a[k].artifact = h.artifact
    BY <1>3, <1>10, <2>1, <2>2
  <2>6. a[k].payload = f[n].payload
    BY <1>4, <1>11, <2>3
  <2>7. f[n].score >= h.score
    <3>1. h.score \in Int /\ a[k].score \in Int /\ f[n].score \in Int
      BY <1>3, <1>10, <1>11, <2>1
    <3>2. h.score <= a[k].score /\ a[k].score <= f[n].score
      BY <1>11, <2>1, <2>2, <2>3, <2>4
    <3> QED BY <3>1, <3>2
  <2> QED BY <2>4, <2>5, <2>6, <2>7
<1>14. f \in Seq(S) /\ Drawn(f, seq) /\ Distinct(f)
       /\ \A h \in ToSet(seq) : \E g \in ToSet(seq), n \in DOMAIN f :
            g.artifact = h.artifact /\ g.payload = f[n].payload /\ f[n].score >= h.score
  BY <1>6, <1>9, <1>12, <1>13
<1> QED BY <1>14 DEF f, a

LEMMA ComposedIs ==
  ASSUME NEW query, RecallQuery(query), NEW pinned, NEW pool \in Seq(Hit)
  PROVE  LET found == Ranked(query, pool, pinned)
             out == BeforeFallback(query, pool, pinned)
         IN /\ out \in Seq(RankedHits(query, pinned)) /\ Drawn(out, found)
            /\ Len(out) <= query.limit /\ TokenCount(out) <= query.budget /\ Distinct(out)
            /\ \A r \in ToSet(out), h \in ToSet(found) :
                 r.score < h.score =>
                   \E g \in ToSet(found), q \in ToSet(out) :
                     g.artifact = h.artifact /\ g.payload = q.payload /\ q.score >= h.score
<1> DEFINE S == RankedHits(query, pinned)
           found == Ranked(query, pool, pinned)
           kept == BySnippetFingerprint(ByArtifactId(found))
           all == ByScore(kept)
           out == BeforeFallback(query, pool, pinned)
<1>1. out = TakeFitting(query, all)
  BY DEF BeforeFallback
<1>2. found \in Seq(S) /\ \A e \in S : e.score \in Int /\ e.chars \in Nat
  BY RankedIs DEF RecallQuery
<1> HIDE DEF S, found, out
<1>3. /\ kept \in Seq(S) /\ Drawn(kept, found) /\ Distinct(kept)
      /\ \A h \in ToSet(found) : \E g \in ToSet(found), n \in DOMAIN kept :
           g.artifact = h.artifact /\ g.payload = kept[n].payload /\ kept[n].score >= h.score
  BY <1>2, CollapsedTwice
<1> HIDE DEF kept
<1>4. /\ all \in Seq(S) /\ Len(all) = Len(kept) /\ Drawn(all, kept)
      /\ \A m, n \in DOMAIN all : m < n => all[m].score >= all[n].score
      /\ \A i \in DOMAIN kept : \E n \in DOMAIN all : all[n] = kept[i]
  BY <1>2, <1>3, ByScoreIs
<1> HIDE DEF all
<1>5. PICK n \in 0 .. Len(all) : /\ out = SubSeq(all, 1, n) /\ n <= query.limit
                                 /\ TokenCount(SubSeq(all, 1, n)) <= query.budget
  BY <1>1, <1>2, <1>4, TakeFittingIs DEF RecallQuery
<1>6. /\ out \in Seq(S) /\ Len(out) = n /\ \A i \in 1 .. n : out[i] = all[i]
      /\ Drawn(out, all)
  BY <1>4, <1>5, SubSeqDrawn
<1>7. Drawn(out, kept) /\ Drawn(out, found)
  BY <1>3, <1>4, <1>6, DrawnTransitive
<1>8. Distinct(out)
  BY <1>3, <1>7, DistinctDrawn
<1>9. ASSUME NEW r \in ToSet(out), NEW h \in ToSet(found), r.score < h.score
      PROVE  \E g \in ToSet(found), q \in ToSet(out) :
               g.artifact = h.artifact /\ g.payload = q.payload /\ q.score >= h.score
  <2>1. PICK m \in 1 .. n : r = all[m]
    BY <1>6 DEF ToSet
  <2>2. PICK g \in ToSet(found), i \in DOMAIN kept :
          g.artifact = h.artifact /\ g.payload = kept[i].payload /\ kept[i].score >= h.score
    BY <1>3
  <2>3. PICK k \in DOMAIN all : all[k] = kept[i]
    BY <1>4
  <2>4. k \in Nat /\ m \in Nat /\ n \in Nat /\ m \in DOMAIN all /\ k >= 1
    BY <1>4, <1>5
  <2>5. k <= n
    <3> SUFFICES ASSUME n < k PROVE FALSE
      BY <2>4
    <3>1. m < k
      BY <2>1, <2>4
    <3>2. all[m].score >= all[k].score
      BY <1>4, <2>4, <3>1
    <3>3. all[m].score \in Int /\ all[k].score \in Int /\ h.score \in Int
      <4>1. all[m] \in S /\ all[k] \in S
        BY <1>4, <2>4
      <4>2. h \in S
        BY <1>2 DEF ToSet
      <4> QED BY <1>2, <4>1, <4>2
    <3> QED BY <1>9, <2>1, <2>2, <2>3, <3>2, <3>3
  <2>6. all[k] \in ToSet(out)
    <3>1. k \in DOMAIN out /\ out[k] = all[k]
      BY <1>6, <2>4, <2>5
    <3> QED BY <3>1 DEF ToSet
  <2> QED BY <2>2, <2>3, <2>6
<1>10. Len(out) <= query.limit /\ TokenCount(out) <= query.budget
  BY <1>5, <1>6
<1> QED BY <1>6, <1>7, <1>8, <1>9, <1>10 DEF S, found, out

RecallOK ==
  hits \in Seq(Hit) /\ diary \in DiaryInput \cup {<<>>} /\ options \in Options

LEMMA RecallHolds == AlgorithmsSpec => []RecallOK
<1>1. AlgorithmsInit => RecallOK
  <2> SUFFICES ASSUME AlgorithmsInit PROVE RecallOK
    OBVIOUS
  <2>1. (CHOOSE o \in Options : TRUE) \in Options
    BY OptionAssumption
  <2>2. options \in Options
    <3>1. CASE case = "recall"
      BY <3>1 DEF AlgorithmsInit
    <3>2. CASE case # "recall"
      BY <2>1, <3>2 DEF AlgorithmsInit
    <3> QED BY <3>1, <3>2
  <2>3. diary \in DiaryInput \cup {<<>>}
    BY DEF AlgorithmsInit
  <2>4. hits \in Seq(Hit)
    BY DEF AlgorithmsInit
  <2> QED BY <2>2, <2>3, <2>4 DEF RecallOK
<1>2. RecallOK /\ [AlgorithmsNext]_vars => RecallOK'
  <2> SUFFICES ASSUME RecallOK, [AlgorithmsNext]_vars PROVE RecallOK'
    OBVIOUS
  <2>1. CASE ReturnHit
    BY <2>1 DEF ReturnHit, RecallOK
  <2>2. CASE UNCHANGED recallVars
    BY <2>2 DEF recallVars, RecallOK
  <2> QED BY <2>1, <2>2 DEF AlgorithmsNext, vars, AppendLine, AppendWord, LaunchNext, ServerNext, ReaderNext
<1> QED BY <1>1, <1>2, PTL DEF AlgorithmsSpec

LEMMA QueryOK ==
  ASSUME RecallOK
  PROVE  RecallQuery(options.query) /\ hits \in Seq(Hit)
BY OptionAssumption DEF RecallOK, RecallQuery

\* When a result is worse than a hit of the backend, a hit with that artifact gave
\* its text to a result that is as good.
THEOREM RankingCorrect == AlgorithmsSpec => []NothingBetterLeftOut
<1>1. RecallOK => NothingBetterLeftOut
  <2> SUFFICES ASSUME RecallOK, NEW r \in ToSet(Composed), NEW h \in ToSet(Pool), r.score < h.score
               PROVE  Represented(h, Composed)
    BY DEF NothingBetterLeftOut
  <2>1. \E g \in ToSet(Pool), q \in ToSet(Composed) :
          g.artifact = h.artifact /\ g.payload = q.payload /\ q.score >= h.score
    BY QueryOK, ComposedIs DEF Pool, Composed
  <2> HIDE DEF Pool, Composed
  <2> QED BY <2>1 DEF Represented
<1> QED BY <1>1, RecallHolds, PTL

\* The results of a search are among those that fit.
LEMMA SearchIs ==
  ASSUME NEW query, RecallQuery(query), NEW pinned, NEW pool \in Seq(Hit), NEW minScore
  PROVE  LET out == Search(query, pool, pinned, minScore)
             fitting == BeforeFallback(query, pool, pinned)
         IN /\ out \in Seq(RankedHits(query, pinned)) /\ Drawn(out, fitting)
            /\ fitting \in Seq(RankedHits(query, pinned))
<1> DEFINE S == RankedHits(query, pinned)
           fitting == BeforeFallback(query, pool, pinned)
           composed == KeywordFallback(query, fitting)
           match == {i \in DOMAIN fitting : fitting[i].words \cap query.words # {}}
           good == {i \in DOMAIN composed : composed[i].score >= minScore}
<1>1. fitting \in Seq(S)
  BY ComposedIs
<1>2. \A e \in S : e.score \in Int
  BY RankedIs DEF RecallQuery
<1> HIDE DEF S, fitting
<1>3. composed \in Seq(S) /\ Drawn(composed, fitting)
  <2>1. CASE FallbackApplies(query, fitting)
    <3>1. composed = ByScore(Matching(query, fitting))
      BY <2>1 DEF KeywordFallback
    <3>2. Matching(query, fitting) = Pick(fitting, match)
      BY DEF Matching
    <3>3. match \in SUBSET DOMAIN fitting
      OBVIOUS
    <3> HIDE DEF match
    <3>4. Pick(fitting, match) \in Seq(S) /\ Drawn(Pick(fitting, match), fitting)
      BY <1>1, <3>3, PickIs, PickDrawn
    <3>5. /\ ByScore(Pick(fitting, match)) \in Seq(S)
          /\ Drawn(ByScore(Pick(fitting, match)), Pick(fitting, match))
      BY <1>2, <3>4, ByScoreIs
    <3> QED BY <3>1, <3>2, <3>4, <3>5, DrawnTransitive
  <2>2. CASE ~FallbackApplies(query, fitting)
    <3>1. composed = fitting
      BY <2>2 DEF KeywordFallback
    <3> QED BY <1>1, <3>1, DrawnSelf
  <2> QED BY <2>1, <2>2
<1>4. Search(query, pool, pinned, minScore) = Pick(composed, good)
  BY DEF Search, ComposeMemorySearchResults, fitting
<1>5. good \in SUBSET DOMAIN composed
  OBVIOUS
<1> HIDE DEF good, composed
<1>6. Pick(composed, good) \in Seq(S) /\ Drawn(Pick(composed, good), composed)
  BY <1>3, <1>5, PickIs, PickDrawn
<1>7. Drawn(Pick(composed, good), fitting)
  BY <1>3, <1>6, DrawnTransitive
<1> QED BY <1>1, <1>4, <1>6, <1>7 DEF S, fitting

\* Results that are in the catalogue as entries of the context, and the diary's.
Known == PublicArtifactCatalog(options.listed, options.mirrored)

KnownHits == {h \in RankedHits(options.query, options.pinned) : h.artifact \in DOMAIN Known}

EntrySet ==
  {EnrichedEntry(h, Known[h.artifact]) : h \in KnownHits}
  \cup {DiaryEntry(e) : e \in ToSet(diary)}

LEMMA EntriesAre ==
  ASSUME RecallOK
  PROVE  Entries \in Seq(EntrySet) /\ \A e \in EntrySet : Graded(e)
<1> DEFINE R == RankedHits(options.query, options.pinned)
           at == {i \in DOMAIN Results : Results[i].artifact \in DOMAIN Known}
           known == Pick(Results, at)
           enriched == [i \in DOMAIN known |-> EnrichedEntry(known[i], Known[known[i].artifact])]
           noted == [i \in DOMAIN diary |-> DiaryEntry(diary[i])]
<1>1. RecallQuery(options.query) /\ hits \in Seq(Hit)
  BY QueryOK
<1>2. Results \in Seq(R) /\ \A e \in R : e.score \in Int
  <2>1. Results \in Seq(R)
    BY <1>1, SearchIs DEF Results
  <2>2. \A e \in R : e.score \in Int
    BY <1>1, RankedIs DEF RecallQuery
  <2> QED BY <2>1, <2>2
<1>3. known \in Seq(R) /\ \A n \in DOMAIN known : known[n].artifact \in DOMAIN Known
  <2>1. at \in SUBSET DOMAIN Results
    OBVIOUS
  <2>2. \A i \in at : Results[i].artifact \in DOMAIN Known
    OBVIOUS
  <2> HIDE DEF R, at, Results
  <2>3. /\ known \in Seq(R) /\ Len(known) = Cardinality(at)
        /\ \A n \in 1 .. Cardinality(at) : Nth(at, n) \in at /\ known[n] = Results[Nth(at, n)]
    BY <1>2, <2>1, PickIs
  <2> HIDE DEF known
  <2>4. DOMAIN known = 1 .. Cardinality(at)
    BY <2>3
  <2> QED BY <2>2, <2>3, <2>4
<1>4. Enriched(Results, Known) = enriched
  BY DEF Enriched
<1> HIDE DEF known
<1>5. enriched \in Seq(EntrySet)
  <2>1. \A i \in DOMAIN known : EnrichedEntry(known[i], Known[known[i].artifact]) \in EntrySet
    <3>1. \A i \in DOMAIN known : known[i] \in KnownHits
      BY <1>3 DEF KnownHits
    <3> QED BY <3>1 DEF EntrySet
  <2>2. DOMAIN known = 1 .. Len(known) /\ Len(known) \in Nat
    BY <1>3
  <2> HIDE DEF EntrySet
  <2>3. enriched \in [1 .. Len(known) -> EntrySet]
    BY <2>1, <2>2
  <2> QED BY <2>2, <2>3
<1>6. diary \in Seq(ToSet(diary)) /\ \A e \in ToSet(diary) : e.age \in Int /\ e.tokens \in Nat
  <2>1. CASE diary \in DiaryInput
    BY <2>1, DiaryAssumption
  <2>2. CASE diary = <<>>
    BY <2>2 DEF ToSet
  <2> QED BY <2>1, <2>2 DEF RecallOK
<1>7. noted \in Seq(EntrySet)
  <2>1. \A i \in DOMAIN diary : DiaryEntry(diary[i]) \in EntrySet
    BY DEF EntrySet, ToSet
  <2>2. DOMAIN diary = 1 .. Len(diary) /\ Len(diary) \in Nat
    BY <1>6
  <2> HIDE DEF EntrySet
  <2>3. noted \in [1 .. Len(diary) -> EntrySet]
    BY <2>1, <2>2
  <2> QED BY <2>2, <2>3
<1>8. Entries \in Seq(EntrySet)
  <2>1. <<>> \in Seq(EntrySet)
    OBVIOUS
  <2>2. \/ Entries = enriched \o noted \/ Entries = enriched \o <<>>
    BY <1>4 DEF Entries, Known
  <2> HIDE DEF enriched, noted, Entries, EntrySet
  <2>3. \A s, t \in Seq(EntrySet) : s \o t \in Seq(EntrySet)
    OBVIOUS
  <2>4. enriched \o noted \in Seq(EntrySet) /\ enriched \o <<>> \in Seq(EntrySet)
    BY <1>5, <1>7, <2>1, <2>3, Zenon
  <2> QED BY <2>2, <2>4, Zenon
<1>9. ASSUME NEW h \in KnownHits PROVE Graded(EnrichedEntry(h, Known[h.artifact]))
  <2>1. Known \in {options.listed, options.mirrored} /\ options \in Options
    BY DEF Known, PublicArtifactCatalog, RecallOK
  <2>2. Catalogue(Known)
    BY <2>1, OptionAssumption
  <2>3. h.artifact \in DOMAIN Known /\ h.score \in Int
    BY <1>2 DEF KnownHits
  <2> HIDE DEF R
  <2> QED BY <2>2, <2>3 DEF Graded, EnrichedEntry, Catalogue
<1>10. ASSUME NEW e \in ToSet(diary) PROVE Graded(DiaryEntry(e))
  BY <1>6 DEF Graded, DiaryEntry, ClassificationPriority
<1>11. \A e \in EntrySet : Graded(e)
  <2> HIDE DEF R
  <2> QED BY <1>9, <1>10 DEF EntrySet
<1> QED BY <1>8, <1>11

-----------------------------------------------------------------------------
(***************************************************************************)
(* Recall: the selection of the engine.                                    *)
(***************************************************************************)

\* A set that is built from one number to the next, each added or passed over.
AddsOrNot(step, N) ==
  \A n \in 1 .. N : \A d \in SUBSET (1 .. N) : step[<<n, d>>] = d \/ step[<<n, d>>] = d \cup {n}

LEMMA GrowingSet ==
  ASSUME NEW N \in Nat, NEW step, NEW L, UnfoldsTo(L, N, SUBSET (1 .. N), {}, step),
         AddsOrNot(step, N)
  PROVE  \A n \in 0 .. N : L[n] \in SUBSET (1 .. n) /\ L[n] = L[N] \cap (1 .. n)
<1>1. /\ L \in [0 .. N -> SUBSET (1 .. N)] /\ L[0] = {}
      /\ \A n \in 1 .. N : L[n] = step[<<n, L[n - 1]>>]
  BY DEF UnfoldsTo
<1>2. ASSUME NEW n \in Nat, n + 1 <= N PROVE L[n + 1] = L[n] \/ L[n + 1] = L[n] \cup {n + 1}
  <2>1. n + 1 \in 1 .. N /\ (n + 1) - 1 = n /\ n \in 0 .. N
    BY <1>2
  <2>2. L[n] \in SUBSET (1 .. N) /\ L[n + 1] = step[<<n + 1, L[n]>>]
    BY <1>1, <2>1
  <2> QED BY <2>1, <2>2 DEF AddsOrNot
<1>3. \A n \in 0 .. N : L[n] \in SUBSET (1 .. n)
  <2> DEFINE S == {n \in Nat : n <= N => L[n] \in SUBSET (1 .. n)}
  <2>1. 0 \in S
    BY <1>1
  <2>2. ASSUME NEW n \in Nat, n \in S PROVE n + 1 \in S
    <3> SUFFICES ASSUME n + 1 <= N PROVE L[n + 1] \in SUBSET (1 .. n + 1)
      OBVIOUS
    <3>1. L[n] \in SUBSET (1 .. n)
      BY <2>2
    <3> QED BY <1>2, <3>1
  <2> HIDE DEF S
  <2>3. Nat \subseteq S
    BY <2>1, <2>2, Induction
  <2> QED BY <2>3 DEF S
<1>4. \A m \in Nat : \A n \in 0 .. N : n <= m /\ m <= N => L[m] \cap (1 .. n) = L[n]
  <2> DEFINE S == {m \in Nat : \A n \in 0 .. N : n <= m /\ m <= N => L[m] \cap (1 .. n) = L[n]}
  <2>1. 0 \in S
    <3> SUFFICES ASSUME NEW n \in 0 .. N, n <= 0 PROVE L[0] \cap (1 .. n) = L[n]
      OBVIOUS
    <3>1. n = 0
      OBVIOUS
    <3> QED BY <1>1, <3>1
  <2>2. ASSUME NEW m \in Nat, m \in S PROVE m + 1 \in S
    <3> SUFFICES ASSUME NEW n \in 0 .. N, n <= m + 1, m + 1 <= N
                 PROVE  L[m + 1] \cap (1 .. n) = L[n]
      OBVIOUS
    <3>1. CASE n = m + 1
      <4>1. L[n] \in SUBSET (1 .. n)
        BY <1>3
      <4> QED BY <3>1, <4>1
    <3>2. CASE n <= m
      <4>1. L[m] \cap (1 .. n) = L[n] /\ m + 1 \notin 1 .. n
        BY <2>2, <3>2
      <4> QED BY <1>2, <4>1
    <3> QED BY <3>1, <3>2
  <2> HIDE DEF S
  <2>3. Nat \subseteq S
    BY <2>1, <2>2, Induction
  <2> QED BY <2>3 DEF S
<1>5. \A n \in 0 .. N : L[n] = L[N] \cap (1 .. n)
  BY <1>4
<1> QED BY <1>3, <1>5

\* What stays of the entries is at some places, and distinct.
LEMMA RedundantIs ==
  ASSUME NEW S, NEW seq \in Seq(S)
  PROVE  /\ RemoveRedundantEntries(seq) \in Seq(S)
         /\ Drawn(RemoveRedundantEntries(seq), seq)
         /\ Distinct(RemoveRedundantEntries(seq))
<1> DEFINE N == Len(seq)
           again(n, d) == \E i \in d : Repeats(seq[n], seq[i])
           step == [p \in (1 .. N) \X SUBSET (1 .. N) |->
                      IF again(p[1], p[2]) THEN p[2] ELSE p[2] \cup {p[1]}]
           body(f) == [n \in 0 .. N |-> IF n = 0 THEN {}
                                        ELSE IF again(n, f[n - 1]) THEN f[n - 1]
                                        ELSE f[n - 1] \cup {n}]
           L == CHOOSE h : h = body(h)
           at == L[N]
           out == RemoveRedundantEntries(seq)
<1>1. N \in Nat /\ DOMAIN seq = 1 .. N
  OBVIOUS
<1>2. out = Pick(seq, at)
  BY DEF RemoveRedundantEntries
<1> HIDE DEF out, N
<1>3. /\ step \in [(1 .. N) \X SUBSET (1 .. N) -> SUBSET (1 .. N)]
      /\ \A n \in 1 .. N : \A d \in SUBSET (1 .. N) :
           step[<<n, d>>] = IF again(n, d) THEN d ELSE d \cup {n}
  <2>1. ASSUME NEW p \in (1 .. N) \X SUBSET (1 .. N)
        PROVE  (IF again(p[1], p[2]) THEN p[2] ELSE p[2] \cup {p[1]}) \in SUBSET (1 .. N)
    <3> HIDE DEF again
    <3> QED OBVIOUS
  <2> HIDE DEF again
  <2> QED BY <2>1
<1>4. \E f : UnfoldsTo(f, N, SUBSET (1 .. N), {}, step)
  <2> HIDE DEF step
  <2>1. {} \in SUBSET (1 .. N)
    OBVIOUS
  <2> QED BY <1>1, <1>3, <2>1, RecursionTo
<1>5. PICK f : UnfoldsTo(f, N, SUBSET (1 .. N), {}, step)
  BY <1>4
<1>6. f = body(f)
  <2> HIDE DEF step, again
  <2>1. /\ f \in [0 .. N -> SUBSET (1 .. N)] /\ f[0] = {}
        /\ \A n \in 1 .. N : f[n] = step[<<n, f[n - 1]>>]
    BY <1>5 DEF UnfoldsTo
  <2>2. \A n \in 1 .. N : f[n - 1] \in SUBSET (1 .. N)
    BY <1>1, <2>1
  <2>3. \A n \in 1 .. N : f[n] = IF again(n, f[n - 1]) THEN f[n - 1] ELSE f[n - 1] \cup {n}
    BY <1>3, <2>1, <2>2
  <2>4. \A n \in 0 .. N : n = 0 \/ n \in 1 .. N
    BY <1>1
  <2> QED BY <2>1, <2>3, <2>4
<1>7. L = body(L)
  <2> HIDE DEF body
  <2> QED BY <1>6
<1> HIDE DEF L
<1>8. UnfoldsTo(L, N, SUBSET (1 .. N), {}, step)
  <2>1. L = [n \in 0 .. N |-> L[n]] /\ L[0] = {}
        /\ \A n \in 1 .. N : L[n] = IF again(n, L[n - 1]) THEN L[n - 1] ELSE L[n - 1] \cup {n}
    <3> HIDE DEF again
    <3>1. 0 \in 0 .. N /\ \A n \in 1 .. N : n \in 0 .. N /\ n # 0
      BY <1>1
    <3>2. \A n \in 0 .. N : L[n] = IF n = 0 THEN {} ELSE IF again(n, L[n - 1]) THEN L[n - 1]
                                                        ELSE L[n - 1] \cup {n}
      BY <1>7
    <3>3. L = [n \in 0 .. N |-> L[n]]
      BY <1>7
    <3> QED BY <3>1, <3>2, <3>3
  <2> HIDE DEF step, again
  <2>2. \A n \in 1 .. N : L[n - 1] \in SUBSET (1 .. N) => L[n] = step[<<n, L[n - 1]>>]
    BY <1>3, <2>1
  <2>3. {} \in SUBSET (1 .. N)
    OBVIOUS
  <2> QED BY <1>1, <1>3, <2>1, <2>2, <2>3, RecursionIs
<1>9. \A n \in 0 .. N : L[n] \in SUBSET (1 .. n) /\ L[n] = at \cap (1 .. n)
  <2>1. AddsOrNot(step, N)
    <3> HIDE DEF step, again
    <3> QED BY <1>3 DEF AddsOrNot
  <2> HIDE DEF step
  <2> QED BY <1>1, <1>8, <2>1, GrowingSet
<1>10. at \in SUBSET (1 .. N)
  BY <1>1, <1>9
<1>11. ASSUME NEW n \in at, NEW i \in at, i < n PROVE ~Repeats(seq[n], seq[i])
  <2>1. n \in 1 .. N /\ n - 1 \in 0 .. N /\ i \in 1 .. n - 1
    BY <1>1, <1>10, <1>11
  <2>2. L[n - 1] = at \cap (1 .. n - 1) /\ L[n] = at \cap (1 .. n) /\ n \in 0 .. N
    BY <1>9, <2>1
  <2>3. i \in L[n - 1] /\ n \in L[n] /\ n \notin L[n - 1] /\ L[n - 1] \in SUBSET (1 .. N)
    <3> HIDE DEF at
    <3> QED BY <1>10, <2>1, <2>2
  <2>4. L[n] = IF again(n, L[n - 1]) THEN L[n - 1] ELSE L[n - 1] \cup {n}
    <3>1. L[n] = step[<<n, L[n - 1]>>]
      BY <1>8, <2>1 DEF UnfoldsTo
    <3> HIDE DEF step, again
    <3> QED BY <1>3, <2>1, <2>3, <3>1
  <2>5. ~again(n, L[n - 1])
    <3> HIDE DEF again
    <3> QED BY <2>3, <2>4
  <2> QED BY <2>3, <2>5
<1> HIDE DEF at
<1>12. Pick(seq, at) \in Seq(S) /\ Drawn(Pick(seq, at), seq)
  BY <1>1, <1>10, PickIs, PickDrawn
<1>13. Distinct(Pick(seq, at))
  <2> DEFINE p == Pick(seq, at)
             c == Cardinality(at)
  <2>1. /\ Len(p) = c /\ c \in Nat /\ p \in Seq(S)
        /\ \A n \in 1 .. c : Nth(at, n) \in at /\ p[n] = seq[Nth(at, n)]
    <3>1. at \in SUBSET DOMAIN seq
      BY <1>1, <1>10
    <3> QED BY <3>1, PickIs
  <2>2. \A m, n \in 1 .. c : m < n => Nth(at, m) < Nth(at, n)
    BY <1>1, <1>10, NthGrows
  <2> HIDE DEF p, c
  <2>3. DOMAIN p = 1 .. c
    BY <2>1
  <2>4. ASSUME NEW m \in 1 .. c, NEW n \in 1 .. c, m < n PROVE ~Repeats(p[n], p[m])
    BY <1>11, <2>1, <2>2, <2>4
  <2>5. \A m, n \in 1 .. c : p[m].artifact = p[n].artifact \/ p[m].payload = p[n].payload => m = n
    <3> SUFFICES ASSUME NEW m \in 1 .. c, NEW n \in 1 .. c, m < n,
                        p[m].artifact = p[n].artifact \/ p[m].payload = p[n].payload
                 PROVE  FALSE
      <4>1. \A m, n \in 1 .. c : m = n \/ m < n \/ n < m
        BY <2>1
      <4> QED BY <4>1
    <3> QED BY <2>4 DEF Repeats
  <2> QED BY <2>3, <2>5 DEF Distinct, p
<1> QED BY <1>2, <1>12, <1>13 DEF out

\* A place behind all others that are picked.
LEMMA PickAppend ==
  ASSUME NEW S, NEW seq \in Seq(S), NEW at \in SUBSET DOMAIN seq, NEW n \in DOMAIN seq,
         \A i \in at : i < n
  PROVE  Pick(seq, at \cup {n}) = Append(Pick(seq, at), seq[n])
<1> DEFINE N == Len(seq)
           all == at \cup {n}
           c == Cardinality(at)
           p == Pick(seq, at)
           q == Pick(seq, all)
<1>1. N \in Nat /\ DOMAIN seq = 1 .. N /\ n \in Nat /\ seq[n] \in S
  OBVIOUS
<1>2. all \in SUBSET (1 .. N) /\ n \in all /\ n \notin at /\ n \in 1 .. N /\ at \in SUBSET (1 .. N)
  <2> HIDE DEF N
  <2> QED BY <1>1
<1>3. IsFiniteSet(at) /\ c \in Nat /\ \A i \in at : i \in Nat
  <2> HIDE DEF N
  <2> QED BY <1>1, <1>2, NumbersFinite
<1>4. Cardinality(all) = c + 1
  BY <1>2, <1>3, FS_AddElement
<1>5. p \in Seq(S) /\ Len(p) = c /\ \A k \in 1 .. c : Nth(at, k) \in at /\ p[k] = seq[Nth(at, k)]
  BY PickIs
<1>6. q \in Seq(S) /\ Len(q) = c + 1 /\ \A k \in 1 .. c + 1 : q[k] = seq[Nth(all, k)]
  <2>1. all \in SUBSET DOMAIN seq
    BY <1>1, <1>2
  <2> HIDE DEF all, c
  <2> QED BY <1>4, <2>1, PickIs
<1>7. \A k \in 1 .. c : RankIn(at, Nth(at, k)) = k
  <2> HIDE DEF N
  <2> QED BY <1>1, <1>2, NthInSet
<1>8. ASSUME NEW k \in 1 .. c PROVE Nth(all, k) = Nth(at, k)
  <2> DEFINE i == Nth(at, k)
  <2>1. i \in at /\ RankIn(at, i) = k
    BY <1>5, <1>7
  <2> HIDE DEF i
  <2>2. {j \in all : j <= i} = {j \in at : j <= i}
    BY <1>1, <1>3, <2>1
  <2>3. RankIn(all, i) = k
    BY <2>1, <2>2 DEF RankIn
  <2>4. i \in all
    BY <2>1
  <2> HIDE DEF all, N
  <2>5. Nth(all, RankIn(all, i)) = i
    BY <1>1, <1>2, <2>4, NthOfRank
  <2> QED BY <2>3, <2>5 DEF i
<1>9. Nth(all, c + 1) = n
  <2>1. {j \in all : j <= n} = all
    BY <1>1, <1>3
  <2>2. RankIn(all, n) = c + 1
    BY <1>4, <2>1 DEF RankIn
  <2> HIDE DEF all, N, c
  <2>3. Nth(all, RankIn(all, n)) = n
    BY <1>1, <1>2, NthOfRank
  <2> QED BY <2>2, <2>3
<1> HIDE DEF p, q, all, c
<1>10. Append(p, seq[n]) \in Seq(S) /\ Len(Append(p, seq[n])) = c + 1
       /\ Append(p, seq[n])[c + 1] = seq[n] /\ \A k \in 1 .. c : Append(p, seq[n])[k] = p[k]
  BY <1>1, <1>3, <1>5
<1>11. ASSUME NEW k \in 1 .. c + 1 PROVE q[k] = Append(p, seq[n])[k]
  <2>1. CASE k = c + 1
    BY <1>6, <1>9, <1>10, <2>1
  <2>2. CASE k # c + 1
    <3>1. k \in 1 .. c
      BY <1>3, <2>2
    <3>2. q[k] = seq[Nth(at, k)] /\ p[k] = seq[Nth(at, k)]
      BY <1>5, <1>6, <1>8, <3>1
    <3> QED BY <1>10, <3>1, <3>2
  <2> QED BY <2>1, <2>2
<1>12. q = Append(p, seq[n])
  BY <1>6, <1>10, <1>11, SeqEqual
<1> QED BY <1>12 DEF p, q, all

LEMMA TokensType ==
  ASSUME NEW S, \A e \in S : e.tokens \in Nat, NEW seq \in Seq(S)
  PROVE  /\ [i \in DOMAIN seq |-> seq[i].tokens] \in Seq(Nat)
         /\ Tokens(seq) \in Nat /\ (seq = <<>> => Tokens(seq) = 0)
<1> DEFINE t == [i \in DOMAIN seq |-> seq[i].tokens]
<1>1. \A i \in DOMAIN seq : seq[i].tokens \in Nat
  <2>1. \A i \in DOMAIN seq : seq[i] \in S
    OBVIOUS
  <2> QED BY <2>1
<1>2. DOMAIN seq = 1 .. Len(seq) /\ Len(seq) \in Nat /\ (seq = <<>> => Len(seq) = 0)
  OBVIOUS
<1>3. t \in Seq(Nat) /\ (seq = <<>> => t = <<>>)
  BY <1>1, <1>2
<1> HIDE DEF t
<1>4. Tokens(seq) = Total(t)
  BY DEF Tokens, t
<1>5. Total(t) \in Nat /\ (t = <<>> => Total(t) = 0)
  BY <1>3, TotalType
<1> QED BY <1>3, <1>4, <1>5 DEF t

LEMMA TokensDrawn ==
  ASSUME NEW S, \A e \in S : e.tokens \in Nat, NEW seq \in Seq(S), NEW out \in Seq(S),
         Drawn(out, seq)
  PROVE  Tokens(out) <= Tokens(seq)
<1> DEFINE t == [i \in DOMAIN seq |-> seq[i].tokens]
           u == [i \in DOMAIN out |-> out[i].tokens]
<1>1. PICK g \in [DOMAIN out -> DOMAIN seq] : /\ \A i, k \in DOMAIN out : g[i] = g[k] => i = k
                                              /\ \A i \in DOMAIN out : out[i] = seq[g[i]]
  BY DEF Drawn
<1>2. t \in Seq(Nat) /\ u \in Seq(Nat)
  BY TokensType
<1>3. DOMAIN t = DOMAIN seq /\ DOMAIN u = DOMAIN out
  OBVIOUS
<1>4. \A i \in DOMAIN out : u[i] = t[g[i]]
  BY <1>1
<1> HIDE DEF t, u
<1>5. Drawn(u, t)
  BY <1>1, <1>3, <1>4 DEF Drawn
<1>6. Total(u) <= Total(t)
  BY <1>2, <1>5, DrawnTotal
<1> QED BY <1>6 DEF Tokens, t, u

LEMMA TokensAppend ==
  ASSUME NEW S, \A e \in S : e.tokens \in Nat, NEW seq \in Seq(S), NEW e \in S
  PROVE  Tokens(Append(seq, e)) = Tokens(seq) + e.tokens
<1> DEFINE t == [i \in DOMAIN seq |-> seq[i].tokens]
           more == Append(seq, e)
           u == [i \in DOMAIN more |-> more[i].tokens]
<1>1. t \in Seq(Nat) /\ e.tokens \in Nat
  BY TokensType
<1>2. /\ DOMAIN seq = 1 .. Len(seq) /\ Len(seq) \in Nat /\ DOMAIN more = 1 .. Len(seq) + 1
      /\ more[Len(seq) + 1] = e /\ \A i \in 1 .. Len(seq) : more[i] = seq[i]
  OBVIOUS
<1>3. /\ Len(t) = Len(seq) /\ \A i \in 1 .. Len(seq) : t[i] = seq[i].tokens
  <2>1. DOMAIN t = 1 .. Len(seq)
    BY <1>2
  <2>2. \A i \in 1 .. Len(seq) : t[i] = seq[i].tokens
    BY <1>2
  <2> HIDE DEF t
  <2> QED BY <1>1, <1>2, <2>1, <2>2
<1>4. u \in Seq(Nat) /\ DOMAIN u = 1 .. Len(seq) + 1
  <2>1. more \in Seq(S)
    OBVIOUS
  <2> HIDE DEF more
  <2>2. u \in Seq(Nat)
    BY <2>1, TokensType
  <2> QED BY <1>2, <2>2
<1>5. u[Len(seq) + 1] = e.tokens /\ \A i \in 1 .. Len(seq) : u[i] = seq[i].tokens
  <2> HIDE DEF more
  <2>1. \A i \in 1 .. Len(seq) + 1 : u[i] = more[i].tokens
    BY <1>2
  <2>2. Len(seq) + 1 \in 1 .. Len(seq) + 1 /\ \A i \in 1 .. Len(seq) : i \in 1 .. Len(seq) + 1
    BY <1>2
  <2> HIDE DEF u
  <2> QED BY <1>2, <2>1, <2>2
<1> HIDE DEF t, u, more
<1>6. /\ Append(t, e.tokens) \in Seq(Nat) /\ Len(Append(t, e.tokens)) = Len(seq) + 1
      /\ Append(t, e.tokens)[Len(seq) + 1] = e.tokens
      /\ \A i \in 1 .. Len(seq) : Append(t, e.tokens)[i] = t[i]
  BY <1>1, <1>3
<1>7. u = Append(t, e.tokens)
  <2>1. Len(u) = Len(seq) + 1
    BY <1>2, <1>4
  <2>2. ASSUME NEW i \in 1 .. Len(seq) + 1 PROVE u[i] = Append(t, e.tokens)[i]
    <3>1. i = Len(seq) + 1 \/ i \in 1 .. Len(seq)
      BY <1>2
    <3> QED BY <1>3, <1>5, <1>6, <3>1
  <2> QED BY <1>4, <1>6, <2>1, <2>2, SeqEqual
<1>8. Total(u) = Total(t) + e.tokens
  BY <1>1, <1>7, TotalAppend
<1> QED BY <1>8 DEF Tokens, t, u, more

\* What fits: the places that are taken, and why the others are not.
Fills(seq, budget, at) ==
  /\ at \in SUBSET DOMAIN seq
  /\ Budgeted(seq, budget) = Pick(seq, at)
  /\ Tokens(Pick(seq, at)) <= budget
  /\ \A n \in DOMAIN seq \ at : Tokens(Pick(seq, at \cap (1 .. n - 1))) + seq[n].tokens > budget

LEMMA BudgetedIs ==
  ASSUME NEW S, \A e \in S : e.tokens \in Nat, NEW seq \in Seq(S), NEW budget \in Nat
  PROVE  \E at : Fills(seq, budget, at)
<1> DEFINE N == Len(seq)
           over(n, d) == Tokens(Pick(seq, d)) + seq[n].tokens > budget
           step == [p \in (1 .. N) \X SUBSET (1 .. N) |->
                      IF over(p[1], p[2]) THEN p[2] ELSE p[2] \cup {p[1]}]
           body(f) == [n \in 0 .. N |-> IF n = 0 THEN {}
                                        ELSE IF over(n, f[n - 1]) THEN f[n - 1]
                                        ELSE f[n - 1] \cup {n}]
           L == CHOOSE h : h = body(h)
           at == L[N]
<1>1. N \in Nat /\ DOMAIN seq = 1 .. N
  OBVIOUS
<1>2. Budgeted(seq, budget) = Pick(seq, at)
  BY DEF Budgeted
<1> HIDE DEF N
<1>3. /\ step \in [(1 .. N) \X SUBSET (1 .. N) -> SUBSET (1 .. N)]
      /\ \A n \in 1 .. N : \A d \in SUBSET (1 .. N) :
           step[<<n, d>>] = IF over(n, d) THEN d ELSE d \cup {n}
  <2>1. ASSUME NEW p \in (1 .. N) \X SUBSET (1 .. N)
        PROVE  (IF over(p[1], p[2]) THEN p[2] ELSE p[2] \cup {p[1]}) \in SUBSET (1 .. N)
    <3> HIDE DEF over
    <3> QED OBVIOUS
  <2> HIDE DEF over
  <2> QED BY <2>1
<1>4. \E f : UnfoldsTo(f, N, SUBSET (1 .. N), {}, step)
  <2> HIDE DEF step
  <2>1. {} \in SUBSET (1 .. N)
    OBVIOUS
  <2> QED BY <1>1, <1>3, <2>1, RecursionTo
<1>5. PICK f : UnfoldsTo(f, N, SUBSET (1 .. N), {}, step)
  BY <1>4
<1>6. f = body(f)
  <2> HIDE DEF step, over
  <2>1. /\ f \in [0 .. N -> SUBSET (1 .. N)] /\ f[0] = {}
        /\ \A n \in 1 .. N : f[n] = step[<<n, f[n - 1]>>]
    BY <1>5 DEF UnfoldsTo
  <2>2. \A n \in 1 .. N : f[n - 1] \in SUBSET (1 .. N)
    <3>1. \A n \in 1 .. N : n - 1 \in 0 .. N
      BY <1>1
    <3> QED BY <2>1, <3>1
  <2>3. \A n \in 1 .. N : f[n] = IF over(n, f[n - 1]) THEN f[n - 1] ELSE f[n - 1] \cup {n}
    BY <1>3, <2>1, <2>2
  <2>4. \A n \in 0 .. N : n = 0 \/ n \in 1 .. N
    BY <1>1
  <2> QED BY <2>1, <2>3, <2>4
<1>7. L = body(L)
  <2> HIDE DEF body
  <2> QED BY <1>6
<1> HIDE DEF L
<1>8. UnfoldsTo(L, N, SUBSET (1 .. N), {}, step)
  <2>1. L = [n \in 0 .. N |-> L[n]] /\ L[0] = {}
        /\ \A n \in 1 .. N : L[n] = IF over(n, L[n - 1]) THEN L[n - 1] ELSE L[n - 1] \cup {n}
    <3> HIDE DEF over
    <3>1. 0 \in 0 .. N /\ \A n \in 1 .. N : n \in 0 .. N /\ n # 0
      BY <1>1
    <3>2. \A n \in 0 .. N : L[n] = IF n = 0 THEN {} ELSE IF over(n, L[n - 1]) THEN L[n - 1]
                                                        ELSE L[n - 1] \cup {n}
      BY <1>7
    <3>3. L = [n \in 0 .. N |-> L[n]]
      BY <1>7
    <3> QED BY <3>1, <3>2, <3>3
  <2> HIDE DEF step, over
  <2>2. \A n \in 1 .. N : L[n - 1] \in SUBSET (1 .. N) => L[n] = step[<<n, L[n - 1]>>]
    BY <1>3, <2>1
  <2>3. {} \in SUBSET (1 .. N)
    OBVIOUS
  <2> QED BY <1>1, <1>3, <2>1, <2>2, <2>3, RecursionIs
<1>9. \A n \in 0 .. N : L[n] \in SUBSET (1 .. n) /\ L[n] = at \cap (1 .. n)
  <2>1. AddsOrNot(step, N)
    <3> HIDE DEF step, over
    <3> QED BY <1>3 DEF AddsOrNot
  <2> HIDE DEF step
  <2> QED BY <1>1, <1>8, <2>1, GrowingSet
<1>10. at \in SUBSET (1 .. N) /\ L[0] = {}
  <2>1. L[0] = {}
    BY <1>8 DEF UnfoldsTo
  <2> QED BY <1>1, <1>9, <2>1
<1>11. ASSUME NEW n \in 1 .. N
       PROVE  L[n] = IF over(n, L[n - 1]) THEN L[n - 1] ELSE L[n - 1] \cup {n}
  <2>1. L[n] = step[<<n, L[n - 1]>>]
    BY <1>8 DEF UnfoldsTo
  <2>2. L[n - 1] \in SUBSET (1 .. N)
    <3>1. n - 1 \in 0 .. N
      BY <1>1
    <3> QED BY <1>8, <3>1 DEF UnfoldsTo
  <2> HIDE DEF step, over
  <2> QED BY <1>3, <2>1, <2>2
<1>12. \A n \in 0 .. N : Tokens(Pick(seq, L[n])) <= budget
  <2> DEFINE M == {n \in Nat : n <= N => Tokens(Pick(seq, L[n])) <= budget}
  <2>1. 0 \in M
    <3>1. {} \in SUBSET DOMAIN seq /\ Cardinality({}) = 0
      BY FS_EmptySet
    <3>2. Pick(seq, {}) \in Seq(S) /\ Len(Pick(seq, {})) = 0
      BY <3>1, PickIs
    <3>3. Pick(seq, {}) = <<>>
      BY <3>2
    <3>4. Tokens(Pick(seq, {})) = 0
      BY <3>2, <3>3, TokensType
    <3>5. Tokens(Pick(seq, L[0])) = 0
      BY <1>10, <3>4, Zenon
    <3> QED BY <3>5
  <2>2. ASSUME NEW n \in Nat, n \in M PROVE n + 1 \in M
    <3> SUFFICES ASSUME n + 1 <= N PROVE Tokens(Pick(seq, L[n + 1])) <= budget
      OBVIOUS
    <3>1. n + 1 \in 1 .. N /\ (n + 1) - 1 = n /\ n \in 0 .. N /\ Tokens(Pick(seq, L[n])) <= budget
      BY <1>1, <2>2
    <3>2. L[n + 1] = IF over(n + 1, L[n]) THEN L[n] ELSE L[n] \cup {n + 1}
      <4> HIDE DEF over
      <4> QED BY <1>11, <3>1
    <3>3. CASE over(n + 1, L[n])
      <4>1. L[n + 1] = L[n]
        <5> HIDE DEF over
        <5> QED BY <3>2, <3>3
      <4> QED BY <3>1, <4>1
    <3>4. CASE ~over(n + 1, L[n])
      <4>1. L[n + 1] = L[n] \cup {n + 1}
        <5> HIDE DEF over
        <5> QED BY <3>2, <3>4
      <4>2. L[n] \in SUBSET DOMAIN seq /\ n + 1 \in DOMAIN seq /\ \A i \in L[n] : i < n + 1
        BY <1>1, <1>9, <3>1
      <4>3. Pick(seq, L[n + 1]) = Append(Pick(seq, L[n]), seq[n + 1])
        BY <4>1, <4>2, PickAppend
      <4>4. Pick(seq, L[n]) \in Seq(S) /\ seq[n + 1] \in S
        BY <4>2, PickIs
      <4>5. /\ Tokens(Append(Pick(seq, L[n]), seq[n + 1])) = Tokens(Pick(seq, L[n])) + seq[n + 1].tokens
            /\ Tokens(Pick(seq, L[n])) \in Nat /\ seq[n + 1].tokens \in Nat
        BY <4>4, TokensAppend, TokensType
      <4> QED BY <3>4, <4>3, <4>5
    <3> QED BY <3>3, <3>4
  <2> HIDE DEF M
  <2>3. Nat \subseteq M
    BY <2>1, <2>2, Induction
  <2> QED BY <2>3 DEF M
<1>13. Tokens(Pick(seq, at)) <= budget
  BY <1>1, <1>12
<1>14. ASSUME NEW n \in (1 .. N) \ at PROVE Tokens(Pick(seq, at \cap (1 .. n - 1))) + seq[n].tokens > budget
  <2>1. n \in 1 .. N /\ n \in 0 .. N /\ n - 1 \in 0 .. N
    BY <1>1
  <2>2. L[n] = at \cap (1 .. n) /\ L[n - 1] = at \cap (1 .. n - 1)
    BY <1>9, <2>1
  <2>3. n \notin L[n]
    <3> HIDE DEF at
    <3> QED BY <2>2
  <2>4. over(n, L[n - 1])
    <3> HIDE DEF over
    <3> QED BY <1>11, <2>1, <2>3
  <2> HIDE DEF at
  <2> QED BY <2>2, <2>4
<1>15. Fills(seq, budget, at)
  <2> HIDE DEF at
  <2> QED BY <1>1, <1>2, <1>10, <1>13, <1>14 DEF Fills
<1> HIDE DEF at
<1> QED BY <1>15

\* The places of the entries in the order of compareEntries.
EntryOrder(seq) ==
  {p \in (DOMAIN seq) \X (DOMAIN seq) :
     \/ Precedes(seq[p[1]], seq[p[2]])
     \/ ~Precedes(seq[p[2]], seq[p[1]]) /\ p[1] < p[2]}

\* compareEntries in numbers.
LEMMA PrecedesIs ==
  ASSUME NEW e, Graded(e), NEW f, Graded(f)
  PROVE  LET p == ClassificationPriority[e.classification]
             q == ClassificationPriority[f.classification]
         IN /\ p \in Int /\ q \in Int
            /\ Precedes(e, f) <=> \/ e.score > f.score
                                  \/ e.score = f.score /\ p < q
                                  \/ e.score = f.score /\ p = q /\ e.age < f.age
<1>1. \A c \in {"decision", "problem", "milestone", "artifact", "conversation"} :
        ClassificationPriority[c] \in Int
  BY DEF ClassificationPriority
<1>2. \A c, d \in {"decision", "problem", "milestone", "artifact", "conversation"} :
        ClassificationPriority[c] = ClassificationPriority[d] => c = d
  BY DEF ClassificationPriority
<1>3. DOMAIN ClassificationPriority = {"decision", "problem", "milestone", "artifact", "conversation"}
  BY DEF ClassificationPriority
<1>4. e.classification \in DOMAIN ClassificationPriority /\ f.classification \in DOMAIN ClassificationPriority
  BY DEF Graded
<1> DEFINE p == ClassificationPriority[e.classification]
           q == ClassificationPriority[f.classification]
<1>5. p \in Int /\ q \in Int /\ (p = q <=> e.classification = f.classification)
  BY <1>1, <1>2, <1>3, <1>4
<1>6. Precedes(e, f) <=> \/ e.score > f.score
                         \/ /\ e.score = f.score
                            /\ \/ p < q
                               \/ e.classification = f.classification /\ e.age < f.age
  BY DEF Precedes
<1> HIDE DEF p, q
<1> QED BY <1>5, <1>6 DEF p, q

LEMMA EntryLinear ==
  ASSUME NEW S, \A e \in S : Graded(e), NEW seq \in Seq(S)
  PROVE  Linear(EntryOrder(seq), DOMAIN seq)
<1> DEFINE D == DOMAIN seq
           s(i) == seq[i].score
           p(i) == ClassificationPriority[seq[i].classification]
           a(i) == seq[i].age
           less(i, j) == \/ s(i) > s(j)
                         \/ s(i) = s(j) /\ p(i) < p(j)
                         \/ s(i) = s(j) /\ p(i) = p(j) /\ a(i) < a(j)
<1>1. \A i \in D : i \in Int /\ Graded(seq[i])
  OBVIOUS
<1>2. \A i \in D : s(i) \in Int /\ a(i) \in Int /\ p(i) \in Int
  BY <1>1, PrecedesIs DEF Graded
<1>3. \A i, j \in D : Precedes(seq[i], seq[j]) <=> less(i, j)
  BY <1>1, PrecedesIs
<1>4. \A i, j \in D : <<i, j>> \in EntryOrder(seq) <=> less(i, j) \/ (~less(j, i) /\ i < j)
  <2>1. \A i, j \in D : <<i, j>> \in EntryOrder(seq) <=>
          \/ Precedes(seq[i], seq[j])
          \/ ~Precedes(seq[j], seq[i]) /\ i < j
    BY DEF EntryOrder
  <2> HIDE DEF less, D
  <2> QED BY <1>3, <2>1
<1> HIDE DEF D, s, p, a
<1>5. \A i \in D : <<i, i>> \notin EntryOrder(seq)
  BY <1>1, <1>2, <1>4
<1>6. ASSUME NEW i \in D, NEW j \in D, NEW k \in D,
             <<i, j>> \in EntryOrder(seq), <<j, k>> \in EntryOrder(seq)
      PROVE  <<i, k>> \in EntryOrder(seq)
  <2>1. /\ s(i) \in Int /\ a(i) \in Int /\ p(i) \in Int /\ i \in Int
        /\ s(j) \in Int /\ a(j) \in Int /\ p(j) \in Int /\ j \in Int
        /\ s(k) \in Int /\ a(k) \in Int /\ p(k) \in Int /\ k \in Int
    BY <1>1, <1>2
  <2>2. less(i, j) \/ (~less(j, i) /\ i < j)
    <3> HIDE DEF less
    <3> QED BY <1>4, <1>6
  <2>3. less(j, k) \/ (~less(k, j) /\ j < k)
    <3> HIDE DEF less
    <3> QED BY <1>4, <1>6
  <2>4. less(i, k) \/ (~less(k, i) /\ i < k)
    BY <2>1, <2>2, <2>3
  <2> HIDE DEF less
  <2> QED BY <1>4, <2>4
<1>7. ASSUME NEW i \in D, NEW k \in D, i # k
      PROVE  <<i, k>> \in EntryOrder(seq) \/ <<k, i>> \in EntryOrder(seq)
  <2>1. i < k \/ k < i
    BY <1>1, <1>7
  <2>2. less(i, k) \/ less(k, i) \/ (~less(i, k) /\ ~less(k, i))
    <3> HIDE DEF less
    <3> QED OBVIOUS
  <2> HIDE DEF less
  <2> QED BY <1>4, <2>1, <2>2
<1> QED BY <1>5, <1>6, <1>7 DEF Linear, D

LEMMA InOrderIs ==
  ASSUME NEW S, \A e \in S : Graded(e), NEW seq \in Seq(S)
  PROVE  /\ InOrder(seq) \in Seq(S) /\ Drawn(InOrder(seq), seq)
         /\ \A i \in DOMAIN seq : \E n \in DOMAIN InOrder(seq) : InOrder(seq)[n] = seq[i]
<1> DEFINE order == EntryOrder(seq)
           out == InOrder(seq)
<1>1. Linear(order, DOMAIN seq)
  BY EntryLinear
<1>2. out = Sorted(seq, order)
  BY Zenon DEF InOrder, EntryOrder
<1> HIDE DEF order, out
<1>3. Drawn(out, seq)
  BY <1>1, <1>2, SortedDrawn
<1>4. out \in Seq(S) /\ Len(out) = Len(seq) /\ \E g : SortedBy(out, seq, order, g)
  BY <1>1, <1>2, SortedIs
<1>5. PICK g : SortedBy(out, seq, order, g)
  BY <1>4
<1>6. DOMAIN out = DOMAIN seq
  BY <1>4
<1>7. \A i \in DOMAIN seq : \E n \in DOMAIN out : out[n] = seq[i]
  BY <1>5, <1>6 DEF SortedBy
<1> QED BY <1>3, <1>4, <1>7 DEF out

\* The two parts of a sequence that consists of two others.
LEMMA JoinedIs ==
  ASSUME NEW S, NEW a \in Seq(S), NEW b \in Seq(S)
  PROVE  /\ a \o b \in Seq(S) /\ Len(a) \in Nat /\ Len(b) \in Nat
         /\ DOMAIN (a \o b) = 1 .. Len(a) + Len(b)
         /\ \A n \in 1 .. Len(a) : (a \o b)[n] = a[n]
         /\ \A n \in 1 .. Len(b) : (a \o b)[Len(a) + n] = b[n]
OBVIOUS

\* All entries stay, the conversations behind the others.
LEMMA PrioritizeIs ==
  ASSUME NEW S, NEW seq \in Seq(S)
  PROVE  LET out == PrioritizeNonConversation(seq)
         IN /\ out \in Seq(S) /\ Drawn(out, seq)
            /\ \A i \in DOMAIN seq : \E n \in DOMAIN out : out[n] = seq[i]
            /\ \A m, n \in DOMAIN out : m < n /\ Conversation(out[m]) => Conversation(out[n])
<1> DEFINE D == DOMAIN seq
           C == {i \in D : Conversation(seq[i])}
           K == D \ C
           k == Cardinality(K)
           c == Cardinality(C)
           a == Pick(seq, K)
           b == Pick(seq, C)
           out == a \o b
           g == [n \in 1 .. k + c |-> IF n <= k THEN Nth(K, n) ELSE Nth(C, n - k)]
<1>1. PrioritizeNonConversation(seq) = out
  BY DEF PrioritizeNonConversation
<1>2. /\ K \in SUBSET D /\ C \in SUBSET D /\ K \in SUBSET (1 .. Len(seq)) /\ C \in SUBSET (1 .. Len(seq))
      /\ \A i \in D : i \in K \/ i \in C
      /\ \A i \in K : ~Conversation(seq[i])
      /\ \A i \in C : Conversation(seq[i]) /\ i \notin K
  <2>1. D = 1 .. Len(seq)
    OBVIOUS
  <2> HIDE DEF D
  <2> QED BY <2>1
<1>3. /\ a \in Seq(S) /\ Len(a) = k /\ k \in Nat
      /\ \A n \in 1 .. k : Nth(K, n) \in K /\ a[n] = seq[Nth(K, n)]
  <2> HIDE DEF K
  <2> QED BY <1>2, PickIs
<1>4. /\ b \in Seq(S) /\ Len(b) = c /\ c \in Nat
      /\ \A n \in 1 .. c : Nth(C, n) \in C /\ b[n] = seq[Nth(C, n)]
  <2> HIDE DEF C
  <2> QED BY <1>2, PickIs
<1>5. /\ \A m, n \in 1 .. k : m < n => Nth(K, m) < Nth(K, n)
      /\ \A m, n \in 1 .. c : m < n => Nth(C, m) < Nth(C, n)
  <2>1. Len(seq) \in Nat
    OBVIOUS
  <2> HIDE DEF K, C
  <2> QED BY <1>2, <2>1, NthGrows
<1>6. \A i \in K : RankIn(K, i) \in DOMAIN a /\ a[RankIn(K, i)] = seq[i]
  <2> HIDE DEF K
  <2> QED BY <1>2, PickHas
<1>7. \A i \in C : RankIn(C, i) \in DOMAIN b /\ b[RankIn(C, i)] = seq[i]
  <2> HIDE DEF C
  <2> QED BY <1>2, PickHas
<1> HIDE DEF D, K, C, k, c, a, b
<1>8. /\ out \in Seq(S) /\ DOMAIN out = 1 .. k + c
      /\ \A n \in 1 .. k : out[n] = a[n]
      /\ \A n \in 1 .. c : out[k + n] = b[n]
  <2>1. /\ out \in Seq(S) /\ DOMAIN out = 1 .. Len(a) + Len(b)
        /\ \A n \in 1 .. Len(a) : out[n] = a[n]
        /\ \A n \in 1 .. Len(b) : out[Len(a) + n] = b[n]
    <3>1. a \in Seq(S) /\ b \in Seq(S)
      BY <1>3, <1>4
    <3> QED BY <3>1, JoinedIs
  <2> HIDE DEF out
  <2> QED BY <1>3, <1>4, <2>1
<1> HIDE DEF out
<1>9. ASSUME NEW n \in 1 .. k + c
      PROVE  \/ /\ n \in 1 .. k /\ g[n] = Nth(K, n) /\ g[n] \in K
                /\ out[n] = seq[g[n]]
             \/ /\ ~(n <= k) /\ n - k \in 1 .. c /\ g[n] = Nth(C, n - k) /\ g[n] \in C
                /\ out[n] = seq[g[n]]
  <2>1. CASE n <= k
    <3>1. n \in 1 .. k
      BY <2>1
    <3> QED BY <1>3, <1>8, <2>1, <3>1
  <2>2. CASE ~(n <= k)
    <3>1. n - k \in 1 .. c /\ k + (n - k) = n
      BY <1>3, <1>4, <2>2
    <3>2. g[n] = Nth(C, n - k)
      BY <2>2
    <3>3. out[n] = b[n - k]
      BY <1>8, <3>1
    <3> QED BY <1>4, <2>2, <3>1, <3>2, <3>3
  <2> QED BY <2>1, <2>2
<1>10. g \in [1 .. k + c -> D]
  <2>1. g = [n \in 1 .. k + c |-> g[n]]
    OBVIOUS
  <2> HIDE DEF g
  <2> QED BY <1>2, <1>9, <2>1
<1>11. ASSUME NEW m \in 1 .. k + c, NEW n \in 1 .. k + c, g[m] = g[n] PROVE m = n
  <2> HIDE DEF g
  <2>1. m \in Int /\ n \in Int /\ k \in Int
    BY <1>3, <1>4
  <2>2. CASE m <= k /\ n <= k
    <3>1. m \in 1 .. k /\ n \in 1 .. k /\ Nth(K, m) = Nth(K, n) /\ Nth(K, m) \in Int
      <4>1. \A i \in K : i \in Int
        BY <1>2
      <4> QED BY <1>9, <1>11, <2>2, <4>1
    <3>2. ~(m < n) /\ ~(n < m)
      BY <1>5, <3>1
    <3> QED BY <2>1, <3>2
  <2>3. CASE ~(m <= k) /\ ~(n <= k)
    <3>1. m - k \in 1 .. c /\ n - k \in 1 .. c /\ Nth(C, m - k) = Nth(C, n - k) /\ Nth(C, m - k) \in Int
      <4>1. \A i \in C : i \in Int
        BY <1>2
      <4> QED BY <1>9, <1>11, <2>3, <4>1
    <3>2. ~(m - k < n - k) /\ ~(n - k < m - k)
      BY <1>5, <3>1
    <3> QED BY <2>1, <3>2
  <2>4. CASE m <= k /\ ~(n <= k)
    <3>1. g[m] \in K /\ g[n] \in C
      BY <1>9, <2>4
    <3> QED BY <1>2, <1>11, <3>1
  <2>5. CASE ~(m <= k) /\ n <= k
    <3>1. g[n] \in K /\ g[m] \in C
      BY <1>9, <2>5
    <3> QED BY <1>2, <1>11, <3>1
  <2> QED BY <2>2, <2>3, <2>4, <2>5
<1>12. Drawn(out, seq)
  <2>1. \A n \in DOMAIN out : out[n] = seq[g[n]]
    BY <1>8, <1>9
  <2>2. g \in [DOMAIN out -> DOMAIN seq]
    BY <1>8, <1>10 DEF D
  <2>3. \A m, n \in DOMAIN out : g[m] = g[n] => m = n
    BY <1>8, <1>11
  <2> HIDE DEF g
  <2> QED BY <2>1, <2>2, <2>3 DEF Drawn
<1>13. ASSUME NEW i \in DOMAIN seq PROVE \E n \in DOMAIN out : out[n] = seq[i]
  <2>1. CASE i \in K
    <3>1. RankIn(K, i) \in 1 .. k /\ a[RankIn(K, i)] = seq[i]
      BY <1>3, <1>6, <2>1
    <3>2. RankIn(K, i) \in DOMAIN out /\ out[RankIn(K, i)] = seq[i]
      BY <1>3, <1>4, <1>8, <3>1
    <3> QED BY <3>2
  <2>2. CASE i \in C
    <3>1. RankIn(C, i) \in 1 .. c /\ b[RankIn(C, i)] = seq[i]
      BY <1>4, <1>7, <2>2
    <3>2. k + RankIn(C, i) \in DOMAIN out /\ out[k + RankIn(C, i)] = seq[i]
      BY <1>3, <1>4, <1>8, <3>1
    <3> QED BY <3>2
  <2> QED BY <1>2, <2>1, <2>2 DEF D
<1>14. ASSUME NEW m \in DOMAIN out, NEW n \in DOMAIN out, m < n, Conversation(out[m])
       PROVE  Conversation(out[n])
  <2> HIDE DEF g
  <2>1. m \in 1 .. k + c /\ n \in 1 .. k + c
    BY <1>8
  <2>2. ~(m <= k)
    BY <1>2, <1>9, <1>14, <2>1
  <2>3. ~(n <= k)
    BY <1>3, <1>4, <1>14, <2>1, <2>2
  <2> QED BY <1>2, <1>9, <2>1, <2>3
<1>15. /\ out \in Seq(S) /\ Drawn(out, seq)
       /\ \A i \in DOMAIN seq : \E n \in DOMAIN out : out[n] = seq[i]
       /\ \A m, n \in DOMAIN out : m < n /\ Conversation(out[m]) => Conversation(out[n])
  BY <1>8, <1>12, <1>13, <1>14
<1> QED BY <1>1, <1>15

LEMMA MinOfTwo ==
  ASSUME NEW m \in Nat, NEW n \in Nat
  PROVE  Min({m, n}) \in {m, n} /\ Min({m, n}) <= m /\ Min({m, n}) <= n
<1>1. \E x \in {m, n} : \A y \in {m, n} : x =< y
  OBVIOUS
<1>2. Min({m, n}) \in {m, n} /\ \A y \in {m, n} : Min({m, n}) =< y
  BY <1>1 DEF Min
<1> QED BY <1>2

\* The entries of which two for each source, and not too many, go on.
Limited(entries) ==
  LimitPerSource(PrioritizeNonConversation(InOrder(RemoveRedundantEntries(entries))), 2)

LEMMA LimitIs ==
  ASSUME NEW S, NEW seq \in Seq(S), NEW max
  PROVE  LimitPerSource(seq, max) \in Seq(S) /\ Drawn(LimitPerSource(seq, max), seq)
<1> DEFINE at == {i \in DOMAIN seq :
                    Cardinality({j \in 1 .. i - 1 : seq[j].source = seq[i].source}) < max}
<1>1. LimitPerSource(seq, max) = Pick(seq, at)
  BY DEF LimitPerSource
<1>2. at \in SUBSET DOMAIN seq
  OBVIOUS
<1> HIDE DEF at
<1> QED BY <1>1, <1>2, PickIs, PickDrawn

LEMMA OrderedIs ==
  ASSUME NEW S, \A e \in S : Graded(e), NEW entries \in Seq(S), NEW config, config.maxEntries \in Nat
  PROVE  /\ Ordered(entries, config) \in Seq(S) /\ Distinct(Ordered(entries, config))
         /\ \E n \in 0 .. Len(Limited(entries)) :
              Ordered(entries, config) = SubSeq(Limited(entries), 1, n) /\ n <= config.maxEntries
         /\ Limited(entries) \in Seq(S)
<1> DEFINE r == RemoveRedundantEntries(entries)
           o == InOrder(r)
           p == PrioritizeNonConversation(o)
           l == LimitPerSource(p, 2)
           out == Ordered(entries, config)
<1>1. out = SubSeq(l, 1, Min({Len(l), config.maxEntries}))
  BY DEF Ordered
<1> HIDE DEF r, out
<1>2. r \in Seq(S) /\ Distinct(r)
  BY RedundantIs DEF r
<1>3. o \in Seq(S) /\ Drawn(o, r)
  BY <1>2, InOrderIs
<1> HIDE DEF o
<1>4. p \in Seq(S) /\ Drawn(p, o)
  BY <1>3, PrioritizeIs
<1> HIDE DEF p
<1>5. l \in Seq(S) /\ Drawn(l, p)
  BY <1>4, LimitIs
<1> HIDE DEF l
<1>6. Len(l) \in Nat
  BY <1>5
<1>7. Min({Len(l), config.maxEntries}) \in 0 .. Len(l) /\ Min({Len(l), config.maxEntries}) <= config.maxEntries
  BY <1>6, MinOfTwo
<1>8. out \in Seq(S) /\ Drawn(out, l)
  BY <1>1, <1>5, <1>7, SubSeqDrawn
<1>9. Distinct(out)
  BY <1>2, <1>3, <1>4, <1>5, <1>8, DrawnTransitive, DistinctDrawn
<1>10. Limited(entries) = l
  BY DEF Limited, l, p, o, r
<1> QED BY <1>1, <1>5, <1>7, <1>8, <1>9, <1>10 DEF out

LEMMA DistinctJoined ==
  ASSUME NEW S, NEW a \in Seq(S), NEW b \in Seq(S), Distinct(a), Distinct(b),
         \A i \in DOMAIN a, k \in DOMAIN b : a[i].artifact # b[k].artifact /\ a[i].payload # b[k].payload
  PROVE  Distinct(a \o b)
<1> DEFINE m == Len(a)
           n == Len(b)
           out == a \o b
<1>1. /\ m \in Nat /\ n \in Nat /\ DOMAIN out = 1 .. m + n
      /\ \A i \in 1 .. m : out[i] = a[i]
      /\ \A i \in 1 .. n : out[m + i] = b[i]
  BY JoinedIs
<1>2. DOMAIN a = 1 .. m /\ DOMAIN b = 1 .. n
  OBVIOUS
<1> HIDE DEF m, n, out
<1>3. \A i \in 1 .. m + n : \/ i \in 1 .. m /\ out[i] = a[i]
                            \/ i - m \in 1 .. n /\ out[i] = b[i - m] /\ ~(i <= m)
  <2> SUFFICES ASSUME NEW i \in 1 .. m + n, ~(i <= m)
               PROVE  i - m \in 1 .. n /\ out[i] = b[i - m]
    BY <1>1
  <2>1. i - m \in 1 .. n /\ m + (i - m) = i
    BY <1>1
  <2> QED BY <1>1, <2>1
<1> SUFFICES ASSUME NEW i \in 1 .. m + n, NEW k \in 1 .. m + n,
                    out[i].artifact = out[k].artifact \/ out[i].payload = out[k].payload
             PROVE  i = k
  BY <1>1 DEF Distinct, out
<1>4. CASE i \in 1 .. m /\ k \in 1 .. m /\ out[i] = a[i] /\ out[k] = a[k]
  BY <1>2, <1>4 DEF Distinct
<1>5. CASE i - m \in 1 .. n /\ k - m \in 1 .. n /\ out[i] = b[i - m] /\ out[k] = b[k - m]
  <2>1. i - m = k - m
    BY <1>2, <1>5 DEF Distinct
  <2> QED BY <1>1, <2>1
<1>6. CASE i \in 1 .. m /\ out[i] = a[i] /\ k - m \in 1 .. n /\ out[k] = b[k - m]
  BY <1>2, <1>6
<1>7. CASE k \in 1 .. m /\ out[k] = a[k] /\ i - m \in 1 .. n /\ out[i] = b[i - m]
  BY <1>2, <1>7
<1> QED BY <1>3, <1>4, <1>5, <1>6, <1>7

\* The block and the notes are made of the ordered entries.
LEMMA SelectedIs ==
  ASSUME RecallOK
  PROVE  LET ordered == Ordered(Entries, options.config)
         IN /\ ordered \in Seq(EntrySet) /\ Distinct(ordered)
            /\ \E at : Fills(ordered, options.config.budget, at)
            /\ Block \in Seq(EntrySet) /\ Drawn(Block, ordered)
            /\ Tokens(Block) <= options.config.budget
            /\ Notes \in Seq(EntrySet) /\ Drawn(Notes, Overflow(ordered, Block))
            /\ Overflow(ordered, Block) \in Seq(EntrySet) /\ Drawn(Overflow(ordered, Block), ordered)
<1> DEFINE S == EntrySet
           config == options.config
           ordered == Ordered(Entries, config)
           over == Overflow(ordered, Block)
           at == {i \in DOMAIN ordered : \A j \in DOMAIN Block : Block[j].artifact # ordered[i].artifact}
<1>1. Entries \in Seq(S) /\ (\A e \in S : Graded(e)) /\ (\A e \in S : e.tokens \in Nat)
  BY EntriesAre DEF Graded
<1>2. config.budget \in Nat /\ config.maxEntries \in Nat /\ config.maxCompactedEntries \in Nat
  BY OptionAssumption DEF RecallOK
<1>3. Block = Budgeted(ordered, config.budget)
  BY DEF Block, Injected
<1>4. Notes = IF config.compaction THEN SubSeq(over, 1, Min({Len(over), config.maxCompactedEntries}))
              ELSE <<>>
  BY <1>3 DEF Notes, Compacted
<1>5. over = Pick(ordered, at)
  BY DEF Overflow
<1>6. at \in SUBSET DOMAIN ordered
  OBVIOUS
<1> HIDE DEF S, config, at, Block, Notes, Entries
<1>7. ordered \in Seq(S) /\ Distinct(ordered)
  BY <1>1, <1>2, OrderedIs
<1> HIDE DEF ordered
<1>8. \E a : Fills(ordered, config.budget, a)
  BY <1>1, <1>2, <1>7, BudgetedIs
<1>9. PICK a : Fills(ordered, config.budget, a)
  BY <1>8
<1>10. Block \in Seq(S) /\ Drawn(Block, ordered) /\ Tokens(Block) <= config.budget
  <2>1. a \in SUBSET DOMAIN ordered /\ Block = Pick(ordered, a) /\ Tokens(Pick(ordered, a)) <= config.budget
    BY <1>3, <1>9 DEF Fills
  <2> QED BY <1>7, <2>1, PickIs, PickDrawn
<1>11. over \in Seq(S) /\ Drawn(over, ordered)
  BY <1>5, <1>6, <1>7, PickIs, PickDrawn
<1> HIDE DEF over
<1>12. Notes \in Seq(S) /\ Drawn(Notes, over)
  <2>1. CASE config.compaction
    <3>1. Len(over) \in Nat
      BY <1>11
    <3>2. Min({Len(over), config.maxCompactedEntries}) \in 0 .. Len(over)
      BY <1>2, <3>1, MinOfTwo
    <3> QED BY <1>4, <1>11, <2>1, <3>2, SubSeqDrawn
  <2>2. CASE ~config.compaction
    <3>1. Notes = <<>>
      BY <1>4, <2>2
    <3>2. <<>> \in Seq(S) /\ Drawn(<<>>, over)
      <4>1. 0 \in 0 .. Len(over) /\ SubSeq(over, 1, 0) = <<>>
        BY <1>11
      <4> QED BY <1>11, <4>1, SubSeqDrawn
    <3> QED BY <3>1, <3>2
  <2> QED BY <2>1, <2>2
<1> QED BY <1>7, <1>8, <1>10, <1>11, <1>12 DEF S, ordered, over, config

LEMMA SelectionHolds ==
  ASSUME RecallOK
  PROVE  SelectionFits
<1> DEFINE R == RankedHits(options.query, options.pinned)
           fitting == BeforeFallback(options.query, hits, options.pinned)
           ordered == Ordered(Entries, options.config)
           over == Overflow(ordered, Block)
<1>1. RecallQuery(options.query) /\ hits \in Seq(Hit) /\ \A e \in R : e.chars \in Nat
  BY QueryOK, RankedIs DEF RecallQuery
<1>2. /\ fitting \in Seq(R) /\ Len(fitting) <= options.query.limit
      /\ TokenCount(fitting) <= options.query.budget /\ Distinct(fitting)
  BY <1>1, ComposedIs
<1>3. Results \in Seq(R) /\ Drawn(Results, fitting)
  BY <1>1, SearchIs DEF Results
<1>4. /\ ordered \in Seq(EntrySet) /\ Distinct(ordered)
      /\ Block \in Seq(EntrySet) /\ Drawn(Block, ordered)
      /\ Tokens(Block) <= options.config.budget
      /\ Notes \in Seq(EntrySet) /\ Drawn(Notes, over)
      /\ over \in Seq(EntrySet) /\ Drawn(over, ordered)
  BY SelectedIs
<1>5. over = Pick(ordered, {i \in DOMAIN ordered : \A j \in DOMAIN Block : Block[j].artifact # ordered[i].artifact})
  BY DEF Overflow
<1> HIDE DEF R, fitting, Results, Block, Notes, Entries, ordered
<1>6. Len(Results) <= options.query.limit
  <2>1. Len(Results) <= Len(fitting)
    BY <1>2, <1>3, DrawnLen
  <2>2. Len(Results) \in Nat /\ Len(fitting) \in Nat /\ options.query.limit \in Nat
    BY <1>1, <1>2, <1>3 DEF RecallQuery
  <2> QED BY <1>2, <2>1, <2>2
<1>7. TokenCount(Results) <= options.query.budget
  <2>1. TokenCount(Results) <= TokenCount(fitting)
    BY <1>1, <1>2, <1>3, TokenCountDrawn
  <2>2. TokenCount(Results) \in Nat /\ TokenCount(fitting) \in Nat /\ options.query.budget \in Nat
    BY <1>1, <1>2, <1>3, TokenCountType DEF RecallQuery
  <2> QED BY <1>2, <2>1, <2>2
<1>8. Distinct(Results)
  BY <1>2, <1>3, DistinctDrawn
<1>9. Distinct(Block) /\ Distinct(Notes)
  BY <1>4, DrawnTransitive, DistinctDrawn
<1>10. ASSUME NEW i \in DOMAIN Block, NEW k \in DOMAIN Notes
       PROVE  Block[i].artifact # Notes[k].artifact /\ Block[i].payload # Notes[k].payload
  <2> DEFINE at == {x \in DOMAIN ordered : \A j \in DOMAIN Block : Block[j].artifact # ordered[x].artifact}
  <2>1. PICK x \in DOMAIN ordered : Block[i] = ordered[x]
    BY <1>4 DEF Drawn
  <2>2. PICK y \in DOMAIN over : Notes[k] = over[y]
    BY <1>4 DEF Drawn
  <2>3. at \in SUBSET DOMAIN ordered /\ over = Pick(ordered, at)
    BY <1>5
  <2>4. \A z \in at : ordered[z].artifact # Block[i].artifact
    OBVIOUS
  <2> HIDE DEF at, over
  <2>5. PICK z \in at : over[y] = ordered[z]
    <3>1. /\ Pick(ordered, at) \in Seq(EntrySet) /\ Len(Pick(ordered, at)) = Cardinality(at)
          /\ \A n \in 1 .. Cardinality(at) : Nth(at, n) \in at /\ Pick(ordered, at)[n] = ordered[Nth(at, n)]
      BY <1>4, <2>3, PickIs
    <3>2. y \in 1 .. Cardinality(at)
      BY <2>3, <3>1
    <3> QED BY <2>3, <3>1, <3>2
  <2>6. Block[i].artifact # Notes[k].artifact
    BY <2>2, <2>4, <2>5
  <2>7. x # z /\ z \in DOMAIN ordered
    BY <2>1, <2>2, <2>3, <2>5, <2>6
  <2>8. Block[i].payload # Notes[k].payload
    BY <1>4, <2>1, <2>2, <2>5, <2>7 DEF Distinct
  <2> QED BY <2>6, <2>8
<1>11. Distinct(Block \o Notes)
  BY <1>4, <1>9, <1>10, DistinctJoined
<1> QED BY <1>4, <1>6, <1>7, <1>8, <1>11 DEF SelectionFits

\* The results of the runtime keep to the limit and the budget of the query, the
\* block of the engine to its own, and neither these nor the notes repeat anything.
THEOREM SelectionCorrect == AlgorithmsSpec => []SelectionFits
<1>1. RecallOK => SelectionFits
  BY SelectionHolds
<1> QED BY <1>1, RecallHolds, PTL

\* Distinct entries of a sequence.
LEMMA DistinctInSet ==
  ASSUME NEW S, NEW seq \in Seq(S), NEW out \in Seq(S), Distinct(out),
         \A i \in DOMAIN out : \E k \in DOMAIN seq : seq[k] = out[i]
  PROVE  Drawn(out, seq)
<1> DEFINE g == [i \in DOMAIN out |-> CHOOSE k \in DOMAIN seq : seq[k] = out[i]]
<1>1. \A i \in DOMAIN out : g[i] \in DOMAIN seq /\ seq[g[i]] = out[i]
  OBVIOUS
<1>2. g = [i \in DOMAIN out |-> g[i]]
  OBVIOUS
<1> HIDE DEF g
<1>3. g \in [DOMAIN out -> DOMAIN seq]
  BY <1>1, <1>2
<1>4. \A i, k \in DOMAIN out : g[i] = g[k] => i = k
  BY <1>1 DEF Distinct
<1> QED BY <1>1, <1>3, <1>4 DEF Drawn

\* The places of the entries that LimitPerSource keeps.
LimitPlaces(seq, max) ==
  {i \in DOMAIN seq : Cardinality({j \in 1 .. i - 1 : seq[j].source = seq[i].source}) < max}

\* An entry for which there was no place follows two of its source that have one.
LEMMA InHand ==
  ASSUME NEW S, NEW seq \in Seq(S), NEW i \in DOMAIN seq, i \notin LimitPlaces(seq, 2)
  PROVE  \E j, k \in LimitPlaces(seq, 2) :
           j < k /\ k < i /\ seq[j].source = seq[i].source /\ seq[k].source = seq[i].source
<1> DEFINE N == Len(seq)
           J == {j \in 1 .. i - 1 : seq[j].source = seq[i].source}
<1>1. N \in Nat /\ DOMAIN seq = 1 .. N /\ i \in 1 .. N
  OBVIOUS
<1>2. J \in SUBSET (1 .. N)
  BY <1>1
<1>3. IsFiniteSet(J) /\ Cardinality(J) \in Nat /\ \A j \in J : j \in Nat
  <2> HIDE DEF J, N
  <2> QED BY <1>1, <1>2, NumbersFinite
<1>4. Cardinality(J) >= 2
  <2>1. ~(Cardinality(J) < 2)
    BY DEF LimitPlaces
  <2> HIDE DEF J
  <2> QED BY <1>3, <2>1
<1>5. ASSUME NEW j \in J, NEW r \in {1, 2}, RankIn(J, j) = r
      PROVE  j \in LimitPlaces(seq, 2) /\ j < i /\ seq[j].source = seq[i].source
  <2> DEFINE B == {k \in 1 .. j - 1 : seq[k].source = seq[j].source}
             A == {k \in J : k <= j}
  <2>1. j \in 1 .. i - 1 /\ seq[j].source = seq[i].source /\ j \in 1 .. N /\ j < i
    BY <1>1
  <2>2. B = A \ {j} /\ j \in A
    BY <1>1, <2>1
  <2>3. IsFiniteSet(A) /\ Cardinality(A) = r
    <3>1. A \in SUBSET J
      OBVIOUS
    <3>2. Cardinality(A) = r
      BY <1>5 DEF RankIn
    <3> HIDE DEF A, J
    <3> QED BY <1>3, <3>1, <3>2, FS_Subset
  <2> HIDE DEF A, B
  <2>4. Cardinality(B) = r - 1
    BY <2>2, <2>3, FS_RemoveElement
  <2>5. Cardinality(B) < 2
    BY <2>4
  <2>6. j \in LimitPlaces(seq, 2)
    BY <1>1, <2>1, <2>5 DEF LimitPlaces, B
  <2> QED BY <2>1, <2>6
<1> DEFINE a == Nth(J, 1)
           b == Nth(J, 2)
<1>6. a \in J /\ b \in J /\ RankIn(J, a) = 1 /\ RankIn(J, b) = 2 /\ a < b
  <2>1. 1 \in 1 .. Cardinality(J) /\ 2 \in 1 .. Cardinality(J)
    <3> HIDE DEF J
    <3> QED BY <1>3, <1>4
  <2> HIDE DEF J, N
  <2>2. a \in J /\ RankIn(J, a) = 1
    BY <1>1, <1>2, <2>1, NthInSet
  <2>3. b \in J /\ RankIn(J, b) = 2
    BY <1>1, <1>2, <2>1, NthInSet
  <2>4. a < b
    <3>1. 1 < 2
      OBVIOUS
    <3> QED BY <1>1, <1>2, <2>1, <3>1, NthGrows
  <2> QED BY <2>2, <2>3, <2>4
<1> HIDE DEF a, b, J
<1>7. /\ a \in LimitPlaces(seq, 2) /\ seq[a].source = seq[i].source
      /\ b \in LimitPlaces(seq, 2) /\ seq[b].source = seq[i].source /\ b < i
  BY <1>5, <1>6
<1> QED BY <1>6, <1>7

LEMMA KnowledgeHolds ==
  ASSUME RecallOK
  PROVE  KnowledgeFirst
<1> DEFINE S == EntrySet
           budget == options.config.budget
           r == RemoveRedundantEntries(Entries)
           o == InOrder(r)
           p == PrioritizeNonConversation(o)
           lat == LimitPlaces(p, 2)
           l == LimitPerSource(p, 2)
           ordered == Ordered(Entries, options.config)
           NC == {i \in DOMAIN Block : ~Conversation(Block[i])}
           knowledge == Pick(Block, NC)
<1>1. Entries \in Seq(S) /\ (\A e \in S : Graded(e)) /\ (\A e \in S : e.tokens \in Nat)
  BY EntriesAre DEF Graded
<1>2. options.config.maxEntries \in Nat /\ budget \in Nat
  BY OptionAssumption DEF RecallOK
<1>3. /\ ordered \in Seq(S) /\ Distinct(ordered)
      /\ \E a : Fills(ordered, budget, a)
      /\ Block \in Seq(S) /\ Block = Budgeted(ordered, budget)
  <2>1. Block = Budgeted(ordered, budget)
    BY DEF Block, Injected
  <2> HIDE DEF Block
  <2> QED BY <2>1, SelectedIs
<1>4. Limited(Entries) = l
  BY DEF Limited
<1>5. l = Pick(p, lat)
  BY DEF LimitPerSource, LimitPlaces
<1> HIDE DEF S, Entries, ordered, Block, budget, l, lat
<1>6. PICK n \in 0 .. Len(l) : ordered = SubSeq(l, 1, n)
  BY <1>1, <1>2, <1>4, OrderedIs DEF ordered
<1>7. r \in Seq(S)
  BY <1>1, RedundantIs
<1> HIDE DEF r
<1>8. o \in Seq(S) /\ \A i \in DOMAIN r : \E k \in DOMAIN o : o[k] = r[i]
  BY <1>1, <1>7, InOrderIs
<1> HIDE DEF o
<1>9. /\ p \in Seq(S) /\ \A i \in DOMAIN o : \E k \in DOMAIN p : p[k] = o[i]
      /\ \A i, k \in DOMAIN p : i < k /\ Conversation(p[i]) => Conversation(p[k])
  BY <1>8, PrioritizeIs
<1> HIDE DEF p
<1>10. lat \in SUBSET DOMAIN p /\ lat \in SUBSET (1 .. Len(p)) /\ Len(p) \in Nat
       /\ \A i \in DOMAIN p : i \in Nat
  <2>1. lat \in SUBSET DOMAIN p
    BY DEF lat, LimitPlaces
  <2> QED BY <1>9, <2>1
<1>11. /\ l \in Seq(S) /\ Len(l) = Cardinality(lat) /\ Cardinality(lat) \in Nat
       /\ \A k \in 1 .. Cardinality(lat) : Nth(lat, k) \in lat /\ l[k] = p[Nth(lat, k)]
  BY <1>5, <1>9, <1>10, PickIs
<1>12. /\ Len(ordered) = n /\ n \in Nat /\ DOMAIN ordered = 1 .. n
       /\ \A k \in 1 .. n : k \in 1 .. Cardinality(lat) /\ ordered[k] = p[Nth(lat, k)] /\ Nth(lat, k) \in lat
  <2>1. /\ SubSeq(l, 1, n) \in Seq(S) /\ Len(SubSeq(l, 1, n)) = n
        /\ \A i \in 1 .. n : SubSeq(l, 1, n)[i] = l[i]
    BY <1>11, SubSeqDrawn
  <2>2. DOMAIN ordered = 1 .. n /\ n \in Nat
    BY <1>3, <1>6, <2>1
  <2>3. \A k \in 1 .. n : k \in 1 .. Cardinality(lat)
    BY <1>11
  <2> QED BY <1>6, <1>11, <2>1, <2>2, <2>3
<1>13. PICK a : Fills(ordered, budget, a)
  BY <1>3
<1>14. /\ a \in SUBSET DOMAIN ordered /\ a \in SUBSET (1 .. n) /\ Block = Pick(ordered, a)
       /\ \A k \in DOMAIN ordered \ a : Tokens(Pick(ordered, a \cap (1 .. k - 1))) + ordered[k].tokens > budget
  BY <1>3, <1>12, <1>13 DEF Fills
<1>15. \A k \in a : \E y \in DOMAIN Block : Block[y] = ordered[k]
  <2>1. \A k \in a : RankIn(a, k) \in DOMAIN Pick(ordered, a) /\ Pick(ordered, a)[RankIn(a, k)] = ordered[k]
    BY <1>3, <1>14, PickHas
  <2> QED BY <1>14, <2>1
<1>16. NC \in SUBSET DOMAIN Block /\ \A y \in DOMAIN Block : ~Conversation(Block[y]) => y \in NC
  OBVIOUS
<1> HIDE DEF NC
<1>17. \A y \in NC : \E z \in DOMAIN knowledge : knowledge[z] = Block[y]
  BY <1>3, <1>16, PickHas
<1>18. knowledge \in Seq(S)
  BY <1>3, <1>16, PickIs
<1> HIDE DEF knowledge
<1>19. ASSUME NEW c \in DOMAIN Block, Conversation(Block[c]),
              NEW e \in ToSet(r), ~Conversation(e), e \notin ToSet(Block)
       PROVE  \/ Tokens(knowledge) + e.tokens > budget
              \/ Cardinality({i \in DOMAIN ordered : ordered[i].source = e.source}) >= 2
  <2>1. PICK i \in DOMAIN p : p[i] = e
    BY <1>8, <1>9 DEF ToSet
  <2>2. PICK m \in 1 .. n : ordered[m] = Block[c]
    <3>1. Drawn(Pick(ordered, a), ordered)
      BY <1>3, <1>14, PickDrawn
    <3> QED BY <1>12, <1>14, <3>1 DEF Drawn
  <2> DEFINE k == Nth(lat, m)
  <2>3. k \in lat /\ k \in DOMAIN p /\ Conversation(p[k]) /\ RankIn(lat, k) = m
    <3>1. m \in 1 .. Cardinality(lat) /\ ordered[m] = p[k] /\ k \in lat
      BY <1>12
    <3>2. RankIn(lat, k) = m
      BY <1>10, <3>1, NthInSet
    <3> HIDE DEF k
    <3> QED BY <1>10, <1>19, <2>2, <3>1, <3>2
  <2> HIDE DEF k
  <2>4. i < k
    <3>1. i # k /\ ~(k < i)
      BY <1>9, <1>19, <2>1, <2>3
    <3> QED BY <1>10, <2>1, <2>3, <3>1
  \* What has a place before the conversation is in hand.
  <2>5. ASSUME NEW j \in lat, j < k
        PROVE  RankIn(lat, j) \in 1 .. n /\ ordered[RankIn(lat, j)] = p[j]
    <3>1. RankIn(lat, j) < m /\ RankIn(lat, j) \in 1 .. Cardinality(lat) /\ Nth(lat, RankIn(lat, j)) = j
      BY <1>10, <2>3, <2>5, RankGrows, RankType, NthOfRank
    <3>2. RankIn(lat, j) \in 1 .. n
      BY <1>12, <3>1
    <3> QED BY <1>12, <3>1, <3>2
  <2>6. CASE i \in lat
    <3> DEFINE x == RankIn(lat, i)
               early == a \cap (1 .. x - 1)
               q == Pick(ordered, early)
    <3>1. x \in 1 .. n /\ ordered[x] = e /\ Nth(lat, x) = i
      BY <1>10, <2>1, <2>4, <2>5, <2>6, NthOfRank
    <3> HIDE DEF x
    <3>2. x \notin a
      <4> SUFFICES ASSUME x \in a PROVE FALSE
        OBVIOUS
      <4>1. PICK y \in DOMAIN Block : Block[y] = ordered[x]
        BY <1>15
      <4>2. e \in ToSet(Block)
        BY <3>1, <4>1 DEF ToSet
      <4> QED BY <1>19, <4>2
    <3>3. Tokens(q) + e.tokens > budget
      BY <1>12, <1>14, <3>1, <3>2
    <3>4. ASSUME NEW z \in early PROVE ~Conversation(ordered[z])
      <4>1. z \in 1 .. n /\ z \in 1 .. Cardinality(lat) /\ x \in 1 .. Cardinality(lat) /\ z < x
        BY <1>12, <1>14, <3>1
      <4>2. Nth(lat, z) < i
        <5>1. Nth(lat, z) < Nth(lat, x)
          BY <1>10, <4>1, NthGrows
        <5> QED BY <3>1, <5>1
      <4>3. Nth(lat, z) \in DOMAIN p /\ ordered[z] = p[Nth(lat, z)]
        BY <1>10, <1>12, <4>1
      <4> QED BY <1>9, <1>19, <2>1, <4>2, <4>3
    <3>5. early \in SUBSET DOMAIN ordered /\ early \in SUBSET a
      BY <1>14
    <3> HIDE DEF early
    <3>6. /\ q \in Seq(S) /\ Drawn(q, ordered) /\ Len(q) = Cardinality(early)
          /\ \A y \in 1 .. Cardinality(early) : Nth(early, y) \in early /\ q[y] = ordered[Nth(early, y)]
      BY <1>3, <3>5, PickIs, PickDrawn
    <3> HIDE DEF q
    <3>7. ASSUME NEW y \in DOMAIN q PROVE \E z \in DOMAIN knowledge : knowledge[z] = q[y]
      <4>1. PICK z \in early : q[y] = ordered[z]
        <5>1. y \in 1 .. Cardinality(early)
          BY <3>6
        <5> QED BY <3>6, <5>1
      <4>2. PICK w \in DOMAIN Block : Block[w] = ordered[z]
        BY <1>15, <3>5
      <4>3. w \in NC
        BY <1>16, <3>4, <4>2
      <4> QED BY <1>17, <4>1, <4>2, <4>3
    <3>8. Drawn(q, knowledge)
      <4>1. Distinct(q)
        BY <1>3, <3>6, DistinctDrawn
      <4> QED BY <1>18, <3>6, <3>7, <4>1, DistinctInSet
    <3>9. Tokens(q) <= Tokens(knowledge) /\ Tokens(q) \in Nat /\ Tokens(knowledge) \in Nat
      BY <1>1, <1>18, <3>6, <3>8, TokensDrawn, TokensType
    <3>10. e.tokens \in Nat
      <4>1. e \in S
        BY <1>9, <2>1
      <4> QED BY <1>1, <4>1
    <3>11. Tokens(knowledge) + e.tokens > budget
      BY <1>2, <3>3, <3>9, <3>10
    <3> QED BY <3>11
  <2>7. CASE i \notin lat
    <3> DEFINE H == {h \in DOMAIN ordered : ordered[h].source = e.source}
    <3>1. PICK j1, j2 \in lat :
            j1 < j2 /\ j2 < i /\ p[j1].source = p[i].source /\ p[j2].source = p[i].source
      BY <1>9, <2>7, InHand DEF lat
    <3> DEFINE x == RankIn(lat, j1)
               y == RankIn(lat, j2)
    <3>2. j1 < k /\ j2 < k
      BY <1>10, <2>1, <2>3, <2>4, <3>1
    <3>3. x \in 1 .. n /\ ordered[x] = p[j1] /\ y \in 1 .. n /\ ordered[y] = p[j2]
      BY <2>5, <3>2
    <3>4. x < y
      BY <1>10, <3>1, RankGrows
    <3> HIDE DEF x, y
    <3>5. {x} \cup {y} \in SUBSET H /\ H \in SUBSET (1 .. n)
      BY <1>12, <2>1, <3>1, <3>3
    <3> HIDE DEF H
    <3>6. IsFiniteSet(H) /\ Cardinality(H) \in Nat
      BY <1>12, <3>5, NumbersFinite
    <3>7. IsFiniteSet({x}) /\ Cardinality({x}) = 1
      BY FS_Singleton
    <3>8. Cardinality({x} \cup {y}) = 2
      <4>1. y \notin {x}
        BY <3>3, <3>4
      <4>2. Cardinality({x} \cup {y}) = Cardinality({x}) + 1
        BY <3>7, <4>1, FS_AddElement
      <4> DEFINE one == Cardinality({x})
                 two == Cardinality({x} \cup {y})
      <4>3. one = 1 /\ two = one + 1
        BY <3>7, <4>2
      <4> HIDE DEF one, two
      <4>4. two = 2
        BY <4>3
      <4> QED BY <4>4 DEF two
    <3>9. Cardinality({x} \cup {y}) <= Cardinality(H)
      BY <3>5, <3>6, FS_Subset
    <3>10. Cardinality(H) >= 2
      BY <3>6, <3>8, <3>9
    <3> QED BY <3>10 DEF H
  <2> QED BY <2>6, <2>7
<1>20. ASSUME NEW f \in ToSet(Block), Conversation(f), NEW e \in ToSet(Entries)
       PROVE  \/ Conversation(e) \/ e \in ToSet(Block)
              \/ Tokens(knowledge) + e.tokens > budget
              \/ Cardinality({i \in DOMAIN ordered : ordered[i].source = e.source}) >= 2
              \/ e \notin ToSet(r)
  <2>1. PICK c \in DOMAIN Block : Block[c] = f
    BY DEF ToSet
  <2> QED BY <1>19, <1>20, <2>1
<1> QED BY <1>20, Zenon DEF KnowledgeFirst, knowledge, NC, ordered, budget, r

\* Conversations are in the block only behind all the knowledge that fits.
THEOREM PriorityCorrect == AlgorithmsSpec => []KnowledgeFirst
<1>1. RecallOK => KnowledgeFirst
  BY KnowledgeHolds
<1> QED BY <1>1, RecallHolds, PTL

-----------------------------------------------------------------------------
(***************************************************************************)
(* Recall: the order in which the backend answers.                         *)
(***************************************************************************)

\* No two hits have the same score.
ScoresDiffer(seq) == \A i, j \in DOMAIN seq : seq[i].score = seq[j].score => i = j

LEMMA ScoresDifferDrawn ==
  ASSUME NEW seq, NEW out, Drawn(out, seq), ScoresDiffer(seq)
  PROVE  ScoresDiffer(out)
BY DEF Drawn, ScoresDiffer

\* If no two hits have the same score, a collapse keeps those that are best among
\* the hits of their kind, whatever the order.
BestOfKind(hs, kind) == {h \in hs : \A e \in hs : kind[e] = kind[h] => e.score <= h.score}

LEMMA CollapsedSet ==
  ASSUME NEW S, \A e \in S : e.score \in Int, NEW seq \in Seq(S), ScoresDiffer(seq),
         NEW kind, NEW key, \A i \in DOMAIN seq : key[i] = kind[seq[i]]
  PROVE  /\ Collapsed(seq, key) \in Seq(S) /\ ScoresDiffer(Collapsed(seq, key))
         /\ ToSet(Collapsed(seq, key)) = BestOfKind(ToSet(seq), kind)
<1> DEFINE out == Collapsed(seq, key)
<1> HIDE DEF out
<1>1. out \in Seq(S) /\ \E g : Collapses(seq, key, out, g)
  BY CollapsedIs DEF out
<1>2. PICK g : Collapses(seq, key, out, g)
  BY <1>1
<1>3. Drawn(out, seq) /\ ScoresDiffer(out)
  BY <1>2, CollapsesDrawn, ScoresDifferDrawn
<1>4. \A i \in DOMAIN seq : seq[i] \in S /\ seq[i].score \in Int
  OBVIOUS
<1>5. g \in [DOMAIN out -> DOMAIN seq] /\ \A n \in DOMAIN out : out[n] = seq[g[n]]
  <2>1. g \in [DOMAIN out -> DOMAIN seq]
    BY <1>2 DEF Collapses
  <2>2. \A n \in DOMAIN out : out[n] = seq[g[n]]
    BY <1>2 DEF Collapses
  <2> QED BY <2>1, <2>2
<1>6. \A m, n \in DOMAIN out : key[g[m]] = key[g[n]] => m = n
  BY <1>2 DEF Collapses
<1>7. \A i \in DOMAIN seq : \E n \in DOMAIN out :
        key[g[n]] = key[i] /\ seq[i].score <= seq[g[n]].score
  BY <1>2 DEF Collapses
<1>8. ASSUME NEW h \in ToSet(out) PROVE h \in BestOfKind(ToSet(seq), kind)
  <2>1. PICK n \in DOMAIN out : h = out[n]
    BY DEF ToSet
  <2>2. g[n] \in DOMAIN seq /\ h = seq[g[n]] /\ h \in ToSet(seq)
    BY <1>5, <2>1 DEF ToSet
  <2>3. ASSUME NEW e \in ToSet(seq), kind[e] = kind[h] PROVE e.score <= h.score
    <3>1. PICK i \in DOMAIN seq : e = seq[i]
      BY DEF ToSet
    <3>2. key[i] = key[g[n]]
      BY <2>2, <2>3, <3>1
    <3>3. PICK m \in DOMAIN out : key[g[m]] = key[i] /\ seq[i].score <= seq[g[m]].score
      BY <1>7
    <3>4. m = n
      BY <1>6, <3>2, <3>3
    <3> QED BY <2>2, <3>1, <3>3, <3>4
  <2> QED BY <2>2, <2>3 DEF BestOfKind
<1>9. ASSUME NEW h \in BestOfKind(ToSet(seq), kind) PROVE h \in ToSet(out)
  <2>1. PICK i \in DOMAIN seq : h = seq[i]
    BY DEF BestOfKind, ToSet
  <2>2. PICK n \in DOMAIN out : key[g[n]] = key[i] /\ seq[i].score <= seq[g[n]].score
    BY <1>7
  <2>3. g[n] \in DOMAIN seq /\ seq[g[n]] \in ToSet(seq) /\ kind[seq[g[n]]] = kind[h]
    BY <1>5, <2>1, <2>2 DEF ToSet
  <2>4. seq[g[n]].score <= seq[i].score
    BY <2>1, <2>3 DEF BestOfKind
  <2>5. seq[g[n]].score = seq[i].score
    BY <1>4, <2>2, <2>3, <2>4
  <2>6. g[n] = i
    BY <2>3, <2>5 DEF ScoresDiffer
  <2>7. out[n] = h
    BY <1>5, <2>1, <2>6
  <2> QED BY <2>7 DEF ToSet
<1>10. ToSet(out) = BestOfKind(ToSet(seq), kind)
  BY <1>8, <1>9
<1> QED BY <1>1, <1>3, <1>10 DEF out

\* Sequences in strictly descending order are equal if they have the same elements.
Descending(seq) == \A m, n \in DOMAIN seq : m < n => seq[m].score > seq[n].score

LEMMA DescendingEqual ==
  ASSUME NEW S, \A e \in S : e.score \in Int, NEW a \in Seq(S), NEW b \in Seq(S),
         Descending(a), Descending(b), ToSet(a) = ToSet(b)
  PROVE  a = b
<1> DEFINE T == {n \in Nat : \/ n \in DOMAIN a /\ n \notin DOMAIN b
                             \/ n \in DOMAIN b /\ n \notin DOMAIN a
                             \/ n \in DOMAIN a /\ n \in DOMAIN b /\ a[n] # b[n]}
<1>1. /\ \A n \in DOMAIN a : n \in Nat /\ a[n] \in S /\ a[n].score \in Int
      /\ \A n \in DOMAIN b : n \in Nat /\ b[n] \in S /\ b[n].score \in Int
  OBVIOUS
<1>2. /\ \A m, n \in DOMAIN a : a[m] = a[n] => m = n
      /\ \A m, n \in DOMAIN b : b[m] = b[n] => m = n
  <2>1. ASSUME NEW m \in DOMAIN a, NEW n \in DOMAIN a, a[m] = a[n] PROVE m = n
    <3>1. ~(m < n) /\ ~(n < m)
      BY <1>1, <2>1 DEF Descending
    <3> QED BY <1>1, <3>1
  <2>2. ASSUME NEW m \in DOMAIN b, NEW n \in DOMAIN b, b[m] = b[n] PROVE m = n
    <3>1. ~(m < n) /\ ~(n < m)
      BY <1>1, <2>2 DEF Descending
    <3> QED BY <1>1, <3>1
  <2> QED BY <2>1, <2>2
<1>3. ASSUME T # {} PROVE FALSE
  <2>1. T \in SUBSET Nat
    OBVIOUS
  <2>2. PICK n \in T : \A m \in T : ~(m < n)
    <3> HIDE DEF T
    <3> QED BY <1>3, <2>1, Least
  <2>3. \A m \in Nat : m < n => (m \in DOMAIN a <=> m \in DOMAIN b)
                                /\ (m \in DOMAIN a => a[m] = b[m])
    BY <2>2
  <2>4. /\ \A i, j \in Nat : i \in DOMAIN a /\ j < i /\ j # 0 => j \in DOMAIN a
        /\ \A i, j \in Nat : i \in DOMAIN b /\ j < i /\ j # 0 => j \in DOMAIN b
        /\ 0 \notin DOMAIN a /\ 0 \notin DOMAIN b
    <3>1. DOMAIN a = 1 .. Len(a) /\ DOMAIN b = 1 .. Len(b) /\ Len(a) \in Nat /\ Len(b) \in Nat
      OBVIOUS
    <3> QED BY <3>1
  <2>5. ASSUME n \in DOMAIN a PROVE n \in DOMAIN b /\ (a[n] # b[n] => b[n].score > a[n].score)
    <3>1. PICK m \in DOMAIN b : b[m] = a[n]
      BY <2>5 DEF ToSet
    <3>2. ~(m < n)
      <4> SUFFICES ASSUME m < n PROVE FALSE
        OBVIOUS
      <4>1. m \in DOMAIN a /\ a[m] = a[n]
        BY <1>1, <2>3, <3>1
      <4>2. m = n
        BY <1>2, <2>5, <4>1
      <4> QED BY <1>1, <4>2
    <3>3. m = n \/ n < m
      BY <1>1, <2>2, <3>2
    <3>4. n \in DOMAIN b
      BY <1>1, <2>2, <2>4, <2>5, <3>3
    <3>5. a[n] # b[n] => b[n].score > b[m].score
      BY <3>1, <3>3, <3>4 DEF Descending
    <3> QED BY <3>1, <3>4, <3>5
  <2>6. ASSUME n \in DOMAIN b PROVE n \in DOMAIN a /\ (a[n] # b[n] => a[n].score > b[n].score)
    <3>1. PICK m \in DOMAIN a : a[m] = b[n]
      BY <2>6 DEF ToSet
    <3>2. ~(m < n)
      <4> SUFFICES ASSUME m < n PROVE FALSE
        OBVIOUS
      <4>1. m \in DOMAIN b /\ b[m] = b[n]
        BY <1>1, <2>3, <3>1
      <4>2. m = n
        BY <1>2, <2>6, <4>1
      <4> QED BY <1>1, <4>2
    <3>3. m = n \/ n < m
      BY <1>1, <2>2, <3>2
    <3>4. n \in DOMAIN a
      BY <1>1, <2>2, <2>4, <2>6, <3>3
    <3>5. a[n] # b[n] => a[n].score > a[m].score
      BY <3>1, <3>3, <3>4 DEF Descending
    <3> QED BY <3>1, <3>4, <3>5
  <2>7. n \in DOMAIN a /\ n \in DOMAIN b /\ a[n] # b[n]
    BY <2>2, <2>5, <2>6
  <2> QED BY <1>1, <2>5, <2>6, <2>7
<1>4. DOMAIN a = DOMAIN b /\ \A n \in DOMAIN a : a[n] = b[n]
  <2>1. \A n \in Nat : n \notin T
    <3> HIDE DEF T
    <3> QED BY <1>3
  <2> QED BY <1>1, <2>1
<1> QED BY <1>4

\* Hits in another order, no two with the same score, collapse and sort alike.
Reordered(a, b) == ToSet(a) = ToSet(b) /\ ScoresDiffer(a) /\ ScoresDiffer(b)

LEMMA IdsReordered ==
  ASSUME NEW S, \A e \in S : e.score \in Int, NEW a \in Seq(S), NEW b \in Seq(S), Reordered(a, b)
  PROVE  /\ ByArtifactId(a) \in Seq(S) /\ ByArtifactId(b) \in Seq(S)
         /\ Reordered(ByArtifactId(a), ByArtifactId(b))
<1> DEFINE kind == [e \in S |-> e.artifact]
           keyA == [i \in DOMAIN a |-> a[i].artifact]
           keyB == [i \in DOMAIN b |-> b[i].artifact]
<1>1. (\A i \in DOMAIN a : keyA[i] = kind[a[i]]) /\ (\A i \in DOMAIN b : keyB[i] = kind[b[i]])
  OBVIOUS
<1>2. ByArtifactId(a) = Collapsed(a, keyA) /\ ByArtifactId(b) = Collapsed(b, keyB)
  BY DEF ByArtifactId
<1> HIDE DEF kind, keyA, keyB
<1>3. /\ Collapsed(a, keyA) \in Seq(S) /\ ScoresDiffer(Collapsed(a, keyA))
      /\ ToSet(Collapsed(a, keyA)) = BestOfKind(ToSet(a), kind)
  BY <1>1, CollapsedSet DEF Reordered
<1>4. /\ Collapsed(b, keyB) \in Seq(S) /\ ScoresDiffer(Collapsed(b, keyB))
      /\ ToSet(Collapsed(b, keyB)) = BestOfKind(ToSet(b), kind)
  BY <1>1, CollapsedSet DEF Reordered
<1> QED BY <1>2, <1>3, <1>4, Zenon DEF Reordered

LEMMA PrintsReordered ==
  ASSUME NEW S, \A e \in S : e.score \in Int, NEW a \in Seq(S), NEW b \in Seq(S), Reordered(a, b)
  PROVE  /\ BySnippetFingerprint(a) \in Seq(S) /\ BySnippetFingerprint(b) \in Seq(S)
         /\ Reordered(BySnippetFingerprint(a), BySnippetFingerprint(b))
<1> DEFINE kind == [e \in S |-> e.payload]
           keyA == [i \in DOMAIN a |-> a[i].payload]
           keyB == [i \in DOMAIN b |-> b[i].payload]
<1>1. (\A i \in DOMAIN a : keyA[i] = kind[a[i]]) /\ (\A i \in DOMAIN b : keyB[i] = kind[b[i]])
  OBVIOUS
<1>2. BySnippetFingerprint(a) = Collapsed(a, keyA) /\ BySnippetFingerprint(b) = Collapsed(b, keyB)
  BY DEF BySnippetFingerprint
<1> HIDE DEF kind, keyA, keyB
<1>3. /\ Collapsed(a, keyA) \in Seq(S) /\ ScoresDiffer(Collapsed(a, keyA))
      /\ ToSet(Collapsed(a, keyA)) = BestOfKind(ToSet(a), kind)
  BY <1>1, CollapsedSet DEF Reordered
<1>4. /\ Collapsed(b, keyB) \in Seq(S) /\ ScoresDiffer(Collapsed(b, keyB))
      /\ ToSet(Collapsed(b, keyB)) = BestOfKind(ToSet(b), kind)
  BY <1>1, CollapsedSet DEF Reordered
<1> QED BY <1>2, <1>3, <1>4, Zenon DEF Reordered

LEMMA ByScoreDescends ==
  ASSUME NEW S, \A e \in S : e.score \in Int, NEW seq \in Seq(S), ScoresDiffer(seq)
  PROVE  ByScore(seq) \in Seq(S) /\ Descending(ByScore(seq)) /\ ToSet(ByScore(seq)) = ToSet(seq)
<1> DEFINE out == ByScore(seq)
<1>1. /\ out \in Seq(S) /\ Len(out) = Len(seq) /\ Drawn(out, seq)
      /\ \A m, n \in DOMAIN out : m < n => out[m].score >= out[n].score
      /\ \A i \in DOMAIN seq : \E n \in DOMAIN out : out[n] = seq[i]
  BY ByScoreIs, Zenon
<1> HIDE DEF out
<1>2. ScoresDiffer(out) /\ ToSet(out) \subseteq ToSet(seq)
  BY <1>1, ScoresDifferDrawn, DrawnSeq
<1>3. ToSet(seq) \subseteq ToSet(out)
  BY <1>1 DEF ToSet
<1>4. \A n \in DOMAIN out : n \in Int /\ out[n].score \in Int
  <2>1. \A n \in DOMAIN out : n \in Int /\ out[n] \in S
    BY <1>1
  <2> QED BY <2>1
<1>5. Descending(out)
  BY <1>1, <1>2, <1>4 DEF Descending, ScoresDiffer
<1> QED BY <1>1, <1>2, <1>3, <1>5 DEF out

LEMMA ByScoreReordered ==
  ASSUME NEW S, \A e \in S : e.score \in Int, NEW a \in Seq(S), NEW b \in Seq(S), Reordered(a, b)
  PROVE  ByScore(a) = ByScore(b)
<1>1. ByScore(a) \in Seq(S) /\ Descending(ByScore(a)) /\ ToSet(ByScore(a)) = ToSet(a)
  BY ByScoreDescends DEF Reordered
<1>2. ByScore(b) \in Seq(S) /\ Descending(ByScore(b)) /\ ToSet(ByScore(b)) = ToSet(b)
  BY ByScoreDescends DEF Reordered
<1>3. ToSet(ByScore(a)) = ToSet(ByScore(b))
  BY <1>1, <1>2, Zenon DEF Reordered
<1> QED BY <1>1, <1>2, <1>3, DescendingEqual

LEMMA SearchReordered ==
  ASSUME NEW query, IsFiniteSet(query.words), NEW pinned, NEW minScore, NEW a \in Seq(Hit),
         NEW b \in Seq(Hit), Reordered(Ranked(query, a, pinned), Ranked(query, b, pinned))
  PROVE  Search(query, a, pinned, minScore) = Search(query, b, pinned, minScore)
<1> DEFINE S == RankedHits(query, pinned)
           u == Ranked(query, a, pinned)
           v == Ranked(query, b, pinned)
<1>1. u \in Seq(S) /\ v \in Seq(S) /\ \A e \in S : e.score \in Int
  BY RankedIs
<1> HIDE DEF S, u, v
<1>2. ByArtifactId(u) \in Seq(S) /\ ByArtifactId(v) \in Seq(S)
      /\ Reordered(ByArtifactId(u), ByArtifactId(v))
  BY <1>1, IdsReordered DEF u, v
<1> DEFINE x == BySnippetFingerprint(ByArtifactId(u))
           y == BySnippetFingerprint(ByArtifactId(v))
<1>3. x \in Seq(S) /\ y \in Seq(S) /\ Reordered(x, y)
  BY <1>1, <1>2, PrintsReordered
<1> HIDE DEF x, y
<1>4. ByScore(x) = ByScore(y)
  BY <1>1, <1>3, ByScoreReordered
<1>5. BeforeFallback(query, a, pinned) = BeforeFallback(query, b, pinned)
  BY <1>4, Zenon DEF BeforeFallback, u, v, x, y
<1>6. ComposeMemorySearchResults(query, a, pinned) = ComposeMemorySearchResults(query, b, pinned)
  BY <1>5, Zenon DEF ComposeMemorySearchResults
<1> QED BY <1>6, Zenon DEF Search

LEMMA OrderHolds ==
  ASSUME RecallOK
  PROVE  OrderIndependent
<1> DEFINE q == options.query
           p == options.pinned
           N == Len(hits)
<1> SUFFICES ASSUME IsInjective([i \in DOMAIN hits |-> Pool[i].score]),
                    NEW order \in Bijection(DOMAIN hits, DOMAIN hits)
             PROVE  Search(q, [i \in DOMAIN hits |-> hits[order[i]]], p, options.minScore) = Results
  BY DEF OrderIndependent
<1> DEFINE b == [i \in DOMAIN hits |-> hits[order[i]]]
<1>1. hits \in Seq(Hit) /\ IsFiniteSet(q.words)
  BY QueryOK DEF RecallOK, RecallQuery
<1>2. DOMAIN hits = 1 .. N /\ N \in Nat
  BY <1>1
<1>3. /\ order \in [1 .. N -> 1 .. N]
      /\ \A i, j \in 1 .. N : order[i] = order[j] => i = j
      /\ \A k \in 1 .. N : \E i \in 1 .. N : order[i] = k
  BY <1>2, Zenon DEF Bijection, Injection, Surjection, IsInjective
<1>4. b \in Seq(Hit) /\ Len(b) = N /\ DOMAIN b = 1 .. N /\ \A i \in 1 .. N : b[i] = hits[order[i]]
  <2>1. \A i \in 1 .. N : order[i] \in 1 .. N /\ hits[order[i]] \in Hit
    BY <1>1, <1>2, <1>3
  <2>2. b \in [1 .. N -> Hit]
    BY <1>2, <2>1
  <2>3. \A i \in 1 .. N : b[i] = hits[order[i]]
    BY <1>2
  <2> HIDE DEF b, N
  <2> QED BY <1>2, <2>2, <2>3
<1> HIDE DEF b, q, p, N
<1> DEFINE u == Ranked(q, hits, p)
           v == Ranked(q, b, p)
           S == RankedHits(q, p)
<1>5. /\ u \in Seq(S) /\ Len(u) = N /\ DOMAIN u = 1 .. N
      /\ \A i \in 1 .. N : u[i] = RankedHit(q, hits[i], p)
  BY <1>1, <1>2, RankedIs DEF N
<1>6. /\ v \in Seq(S) /\ Len(v) = N /\ DOMAIN v = 1 .. N
      /\ \A i \in 1 .. N : v[i] = RankedHit(q, b[i], p)
  BY <1>1, <1>4, RankedIs
<1>7. Pool = u
  BY DEF Pool, q, p
<1> HIDE DEF u, v, S
<1>8. \A i \in 1 .. N : order[i] \in 1 .. N /\ v[i] = u[order[i]]
  <2> SUFFICES ASSUME NEW i \in 1 .. N PROVE order[i] \in 1 .. N /\ v[i] = u[order[i]]
    OBVIOUS
  <2>1. order[i] \in 1 .. N
    BY <1>3
  <2>2. b[i] = hits[order[i]]
    BY <1>4
  <2>3. v[i] = RankedHit(q, b[i], p)
    BY <1>6
  <2>4. u[order[i]] = RankedHit(q, hits[order[i]], p)
    BY <1>5, <2>1
  <2> QED BY <2>1, <2>2, <2>3, <2>4, Zenon
<1>9. ScoresDiffer(u)
  BY <1>2, <1>5, <1>7 DEF IsInjective, ScoresDiffer
<1>10. ScoresDiffer(v)
  <2> SUFFICES ASSUME NEW i \in 1 .. N, NEW j \in 1 .. N, v[i].score = v[j].score PROVE i = j
    BY <1>6 DEF ScoresDiffer
  <2>1. order[i] \in DOMAIN u /\ order[j] \in DOMAIN u
    BY <1>5, <1>8
  <2>2. u[order[i]].score = u[order[j]].score
    <3>1. v[i] = u[order[i]] /\ v[j] = u[order[j]]
      BY <1>8
    <3> QED BY <3>1, Zenon
  <2>3. order[i] = order[j]
    BY <1>9, <2>1, <2>2, Zenon DEF ScoresDiffer
  <2> QED BY <1>3, <2>3, Zenon
<1>11. ToSet(u) = ToSet(v)
  <2>1. ASSUME NEW k \in 1 .. N PROVE u[k] \in ToSet(v)
    <3>1. PICK i \in 1 .. N : order[i] = k
      BY <1>3
    <3>2. v[i] = u[k] /\ i \in DOMAIN v
      BY <1>6, <1>8, <3>1
    <3> QED BY <3>2 DEF ToSet
  <2>2. ASSUME NEW i \in 1 .. N PROVE v[i] \in ToSet(u)
    BY <1>5, <1>8 DEF ToSet
  <2> QED BY <1>5, <1>6, <2>1, <2>2 DEF ToSet
<1>12. Reordered(u, v)
  BY <1>9, <1>10, <1>11 DEF Reordered
<1>13. Search(q, hits, p, options.minScore) = Search(q, b, p, options.minScore)
  BY <1>1, <1>4, <1>12, SearchReordered DEF u, v
<1> QED BY <1>13 DEF Results, q, p, b

\* For any hits, queries and configurations: the results are the same in whatever
\* order the backend answers, if no two hits have the same score.
THEOREM OrderCorrect == AlgorithmsSpec => []OrderIndependent
<1>1. RecallOK => OrderIndependent
  BY OrderHolds
<1> QED BY <1>1, RecallHolds, PTL

-----------------------------------------------------------------------------
(***************************************************************************)
(* Frames.                                                                 *)
(***************************************************************************)

\* Sequences are joined one after the other.
Joins(f, seqs, T) ==
  /\ UnfoldsTo(f, Len(seqs), Seq(T), <<>>,
               [p \in (1 .. Len(seqs)) \X Seq(T) |-> p[2] \o seqs[p[1]]])
  /\ FlattenSeq(seqs) = f[Len(seqs)]

LEMMA FlattenJoins ==
  ASSUME NEW T, NEW seqs \in Seq(Seq(T))
  PROVE  \E f : Joins(f, seqs, T)
<1> DEFINE N == Len(seqs)
           step == [p \in (1 .. N) \X Seq(T) |-> p[2] \o seqs[p[1]]]
           body(f) == [i \in 1 .. N |-> IF i = 1 THEN seqs[i] ELSE f[i - 1] \o seqs[i]]
           L == CHOOSE f : f = body(f)
           h == [n \in 0 .. N |-> IF n = 0 THEN <<>> ELSE L[n]]
<1>1. N \in Nat /\ \A n \in 1 .. N : seqs[n] \in Seq(T)
  OBVIOUS
<1>2. step \in [(1 .. N) \X Seq(T) -> Seq(T)] /\ <<>> \in Seq(T)
  <2>1. ASSUME NEW p \in (1 .. N) \X Seq(T) PROVE p[2] \o seqs[p[1]] \in Seq(T)
    <3>1. p[1] \in 1 .. N /\ p[2] \in Seq(T) /\ seqs[p[1]] \in Seq(T)
      BY <1>1
    <3> QED BY <3>1, ConcatProperties
  <2> QED BY <2>1
<1>3. \A n \in 1 .. N : \A d \in Seq(T) : step[<<n, d>>] = d \o seqs[n]
  <2> SUFFICES ASSUME NEW n \in 1 .. N, NEW d \in Seq(T) PROVE step[<<n, d>>] = d \o seqs[n]
    OBVIOUS
  <2>1. <<n, d>> \in (1 .. N) \X Seq(T) /\ <<n, d>>[1] = n /\ <<n, d>>[2] = d
    OBVIOUS
  <2> QED BY <2>1
<1>4. PICK f : UnfoldsTo(f, N, Seq(T), <<>>, step)
  <2> HIDE DEF step, N
  <2> QED BY <1>1, <1>2, RecursionTo
<1>5. L = body(L)
  <2> DEFINE k == [n \in 1 .. N |-> f[n]]
  <2>1. f \in [0 .. N -> Seq(T)] /\ f[0] = <<>> /\ \A n \in 1 .. N : f[n] = step[<<n, f[n - 1]>>]
    <3> HIDE DEF step, N
    <3> QED BY <1>4 DEF UnfoldsTo
  <2> HIDE DEF step, N
  <2>2. \A n \in 1 .. N : f[n - 1] \in Seq(T)
    <3>1. \A n \in 1 .. N : n - 1 \in 0 .. N
      BY <1>1
    <3> QED BY <2>1, <3>1
  <2>3. \A n \in 1 .. N : f[n] = f[n - 1] \o seqs[n]
    BY <1>3, <2>1, <2>2
  <2>4. \A n \in 1 .. N : k[n] = IF n = 1 THEN seqs[n] ELSE k[n - 1] \o seqs[n]
    <3> SUFFICES ASSUME NEW n \in 1 .. N PROVE k[n] = IF n = 1 THEN seqs[n] ELSE k[n - 1] \o seqs[n]
      OBVIOUS
    <3>1. CASE n = 1
      <4>1. f[1] = <<>> \o seqs[1] /\ seqs[1] \in Seq(T)
        <5>1. n - 1 = 0
          BY <3>1
        <5>2. f[n] = f[n - 1] \o seqs[n]
          BY <2>3
        <5> QED BY <1>1, <2>1, <3>1, <5>1, <5>2
      <4>2. f[1] = seqs[1]
        BY <4>1, ConcatEmptySeq
      <4> QED BY <3>1, <4>2
    <3>2. CASE n # 1
      <4>1. n - 1 \in 1 .. N
        BY <1>1, <3>2
      <4> QED BY <2>3, <3>2, <4>1
    <3> QED BY <3>1, <3>2
  <2>5. k = body(k)
    BY <2>4
  <2> HIDE DEF body, k
  <2> QED BY <2>5
<1>6. \A n \in 1 .. N : L[n] = IF n = 1 THEN seqs[n] ELSE L[n - 1] \o seqs[n]
  <2> HIDE DEF L, N
  <2> QED BY <1>5
<1>7. UnfoldsTo(h, N, Seq(T), <<>>, step)
  <2>1. 0 \in 0 .. N /\ \A n \in 1 .. N : n \in 0 .. N /\ n # 0 /\ n - 1 \in 0 .. N /\ (n # 1 => n - 1 # 0)
    BY <1>1
  <2> HIDE DEF L, N, step
  <2>2. h = [n \in 0 .. N |-> h[n]] /\ h[0] = <<>>
    BY <2>1
  <2>3. ASSUME NEW n \in 1 .. N, h[n - 1] \in Seq(T) PROVE h[n] = step[<<n, h[n - 1]>>]
    <3>1. step[<<n, h[n - 1]>>] = h[n - 1] \o seqs[n]
      <4> HIDE DEF h
      <4> QED BY <1>3, <2>3
    <3>2. CASE n = 1
      <4>1. h[n - 1] = <<>> /\ h[n] = seqs[n]
        BY <1>6, <2>1, <3>2
      <4> HIDE DEF h
      <4>2. <<>> \o seqs[n] = seqs[n]
        BY <1>1, ConcatEmptySeq
      <4> QED BY <3>1, <4>1, <4>2
    <3>3. CASE n # 1
      <4>1. h[n - 1] = L[n - 1] /\ h[n] = L[n]
        BY <2>1, <3>3
      <4> HIDE DEF h
      <4> QED BY <1>6, <3>1, <3>3, <4>1
    <3> QED BY <3>2, <3>3
  <2> HIDE DEF h
  <2> QED BY <1>1, <1>2, <2>2, <2>3, RecursionIs
<1>8. FlattenSeq(seqs) = h[N]
  <2>1. CASE N = 0
    <3>1. FlattenSeq(seqs) = seqs
      BY <2>1 DEF FlattenSeq
    <3>2. seqs = <<>>
      BY <2>1
    <3>3. h[N] = <<>>
      BY <1>1, <2>1
    <3> QED BY <3>1, <3>2, <3>3
  <2>2. CASE N # 0
    <3>1. FlattenSeq(seqs) = L[N]
      BY <2>2 DEF FlattenSeq
    <3>2. h[N] = L[N]
      <4> HIDE DEF L
      <4> QED BY <1>1, <2>2
    <3> QED BY <3>1, <3>2
  <2> QED BY <2>1, <2>2
<1> HIDE DEF h
<1> QED BY <1>7, <1>8 DEF Joins

\* One more sequence is joined behind the others.
LEMMA FlattenAppend ==
  ASSUME NEW T, NEW seqs \in Seq(Seq(T)), NEW e \in Seq(T)
  PROVE  /\ FlattenSeq(seqs) \in Seq(T)
         /\ FlattenSeq(Append(seqs, e)) = FlattenSeq(seqs) \o e
<1> DEFINE N == Len(seqs)
           more == Append(seqs, e)
<1>1. /\ N \in Nat /\ \A n \in 1 .. N : seqs[n] \in Seq(T)
      /\ more \in Seq(Seq(T)) /\ Len(more) = N + 1 /\ more[N + 1] = e
      /\ \A n \in 1 .. N : more[n] = seqs[n]
  OBVIOUS
<1> HIDE DEF more
<1>2. PICK f : Joins(f, seqs, T)
  BY FlattenJoins
<1>3. PICK g : Joins(g, more, T)
  BY <1>1, FlattenJoins
<1>4. /\ f \in [0 .. N -> Seq(T)] /\ f[0] = <<>> /\ FlattenSeq(seqs) = f[N]
      /\ \A n \in 1 .. N : f[n] = f[n - 1] \o seqs[n]
  <2> DEFINE step == [p \in (1 .. N) \X Seq(T) |-> p[2] \o seqs[p[1]]]
  <2>1. \A n \in 1 .. N : \A d \in Seq(T) : step[<<n, d>>] = d \o seqs[n]
    <3> SUFFICES ASSUME NEW n \in 1 .. N, NEW d \in Seq(T) PROVE step[<<n, d>>] = d \o seqs[n]
      OBVIOUS
    <3>1. <<n, d>> \in (1 .. N) \X Seq(T) /\ <<n, d>>[1] = n /\ <<n, d>>[2] = d
      OBVIOUS
    <3> QED BY <3>1
  <2> HIDE DEF step
  <2>2. UnfoldsTo(f, N, Seq(T), <<>>, step) /\ FlattenSeq(seqs) = f[N]
    BY <1>2 DEF Joins, step
  <2> HIDE DEF N
  <2>3. \A n \in 1 .. N : n - 1 \in 0 .. N
    BY <1>1
  <2> QED BY <2>1, <2>2, <2>3 DEF UnfoldsTo
<1>5. /\ g \in [0 .. N + 1 -> Seq(T)] /\ g[0] = <<>> /\ FlattenSeq(more) = g[N + 1]
      /\ \A n \in 1 .. N + 1 : g[n] = g[n - 1] \o more[n]
  <2> DEFINE step == [p \in (1 .. N + 1) \X Seq(T) |-> p[2] \o more[p[1]]]
  <2>1. \A n \in 1 .. N + 1 : \A d \in Seq(T) : step[<<n, d>>] = d \o more[n]
    <3> SUFFICES ASSUME NEW n \in 1 .. N + 1, NEW d \in Seq(T) PROVE step[<<n, d>>] = d \o more[n]
      OBVIOUS
    <3>1. <<n, d>> \in (1 .. N + 1) \X Seq(T) /\ <<n, d>>[1] = n /\ <<n, d>>[2] = d
      OBVIOUS
    <3> QED BY <3>1
  <2>2. UnfoldsTo(g, Len(more), Seq(T), <<>>,
                  [p \in (1 .. Len(more)) \X Seq(T) |-> p[2] \o more[p[1]]])
        /\ FlattenSeq(more) = g[Len(more)]
    BY <1>3 DEF Joins
  <2>3. UnfoldsTo(g, N + 1, Seq(T), <<>>, step) /\ FlattenSeq(more) = g[N + 1]
    BY <1>1, <2>2, Zenon
  <2> HIDE DEF step, N
  <2>4. \A n \in 1 .. N + 1 : n - 1 \in 0 .. N + 1
    BY <1>1
  <2> QED BY <2>1, <2>3, <2>4 DEF UnfoldsTo
<1> HIDE DEF N
<1> DEFINE S == {n \in Nat : n <= N => f[n] = g[n]}
<1>6. 0 \in S
  BY <1>4, <1>5
<1>7. ASSUME NEW n \in Nat, n \in S PROVE n + 1 \in S
  <2> SUFFICES ASSUME n + 1 <= N PROVE f[n + 1] = g[n + 1]
    OBVIOUS
  <2>1. n + 1 \in 1 .. N /\ n + 1 \in 1 .. N + 1 /\ (n + 1) - 1 = n /\ f[n] = g[n]
    BY <1>1, <1>7
  <2>2. f[n + 1] = f[n] \o seqs[n + 1] /\ g[n + 1] = g[n] \o more[n + 1]
    BY <1>4, <1>5, <2>1
  <2> QED BY <1>1, <2>1, <2>2
<1> HIDE DEF S
<1>8. Nat \subseteq S
  BY <1>6, <1>7, Induction
<1>9. f[N] = g[N]
  BY <1>1, <1>8 DEF S
<1>10. N + 1 \in 1 .. N + 1 /\ (N + 1) - 1 = N /\ N \in 0 .. N
  BY <1>1
<1>11. g[N + 1] = g[N] \o e
  BY <1>1, <1>5, <1>10
<1>12. f[N] \in Seq(T)
  BY <1>4, <1>10
<1> QED BY <1>4, <1>5, <1>9, <1>11, <1>12 DEF more

LEMMA AddTwo ==
  ASSUME NEW a \in Nat, NEW u \in Nat
  PROVE  a + (2 + u) = (a + 2) + u
OBVIOUS

LEMMA Within ==
  ASSUME NEW a \in Nat, NEW w \in Nat, NEW b \in Nat, NEW c \in Nat, a + w <= b, NEW i \in 1 .. w
  PROVE  a + i <= b /\ a + i \in 1 .. b + c
OBVIOUS

\* What a process writes.
Token == {<<"length", n>> : n \in Nat} \cup {<<"blank">>} \cup {<<"unit", p, n>> : p \in Server, n \in Nat}

LEMMA FrameIs ==
  ASSUME NEW p \in Server, NEW n \in Nat, NEW m \in Message
  PROVE  /\ Frame(p, n, m) \in Seq(Token) /\ Len(Frame(p, n, m)) = 2 + m.units
         /\ m.units \in Nat \ {0} /\ m.bytes \in Nat
         /\ Frame(p, n, m)[1] = <<"length", m.bytes>> /\ Frame(p, n, m)[2] = <<"blank">>
         /\ \A i \in 1 .. m.units : Frame(p, n, m)[2 + i] = <<"unit", p, n>>
<1> DEFINE head == <<<<"length", m.bytes>>, <<"blank">>>>
           body == Body(p, n, m)
           f == Frame(p, n, m)
<1>1. m.units \in Nat \ {0} /\ m.bytes \in Nat
  BY FramingAssumption
<1>2. <<"length", m.bytes>> \in Token /\ <<"blank">> \in Token /\ <<"unit", p, n>> \in Token
  BY <1>1 DEF Token
<1>3. head \in Seq(Token) /\ Len(head) = 2
      /\ head[1] = <<"length", m.bytes>> /\ head[2] = <<"blank">>
  BY <1>2
<1>4. body \in Seq(Token) /\ Len(body) = m.units /\ \A i \in 1 .. m.units : body[i] = <<"unit", p, n>>
  <2> DEFINE u == m.units
             e == <<"unit", p, n>>
             b == [i \in 1 .. u |-> e]
  <2>1. body = b
    BY Zenon DEF Body
  <2>2. e \in Token /\ u \in Nat
    BY <1>1, <1>2
  <2> HIDE DEF e, u, body
  <2>3. b \in Seq(Token) /\ Len(b) = u /\ \A i \in 1 .. u : b[i] = e
    BY <2>2
  <2> HIDE DEF b
  <2>4. body \in Seq(Token) /\ Len(body) = u /\ \A i \in 1 .. u : body[i] = e
    BY <2>1, <2>3
  <2> QED BY <2>4 DEF e, u
<1>5. f = head \o body
  BY DEF Frame
<1> HIDE DEF head, body, f
<1>6. /\ f \in Seq(Token) /\ Len(f) = 2 + m.units
      /\ \A i \in 1 .. 2 + m.units : f[i] = IF i <= 2 THEN head[i] ELSE body[i - 2]
  <2>1. /\ head \o body \in Seq(Token) /\ Len(head \o body) = Len(head) + Len(body)
        /\ \A i \in 1 .. Len(head) + Len(body) :
             (head \o body)[i] = IF i <= Len(head) THEN head[i] ELSE body[i - Len(head)]
    BY <1>3, <1>4, ConcatProperties
  <2> QED BY <1>3, <1>4, <1>5, <2>1
<1>7. f[1] = head[1] /\ f[2] = head[2]
  <2>1. 1 \in 1 .. 2 + m.units /\ 2 \in 1 .. 2 + m.units
    BY <1>1
  <2> QED BY <1>6, <2>1
<1>8. ASSUME NEW i \in 1 .. m.units PROVE f[2 + i] = <<"unit", p, n>>
  <2>1. 2 + i \in 1 .. 2 + m.units /\ ~(2 + i <= 2) /\ (2 + i) - 2 = i
    BY <1>1
  <2>2. f[2 + i] = body[(2 + i) - 2]
    BY <1>6, <2>1
  <2> QED BY <1>4, <2>1, <2>2
<1>9. f[1] = <<"length", m.bytes>> /\ f[2] = <<"blank">>
  BY <1>3, <1>7
<1> QED BY <1>1, <1>6, <1>8, <1>9 DEF f

LEMMA StreamMore ==
  ASSUME NEW p \in Server, NEW ms \in Seq(Message), NEW m \in Message
  PROVE  /\ Stream(p, ms) \in Seq(Token) /\ Stream(p, <<>>) = <<>>
         /\ Stream(p, Append(ms, m)) = Stream(p, ms) \o Frame(p, Len(ms) + 1, m)
<1> DEFINE N == Len(ms)
           frames == [n \in DOMAIN ms |-> Frame(p, n, ms[n])]
           more == Append(ms, m)
           framesMore == [n \in DOMAIN more |-> Frame(p, n, more[n])]
           last == Frame(p, N + 1, m)
<1>1. N \in Nat /\ DOMAIN ms = 1 .. N /\ \A n \in 1 .. N : ms[n] \in Message
  OBVIOUS
<1>2. DOMAIN more = 1 .. N + 1 /\ more[N + 1] = m /\ \A n \in 1 .. N : more[n] = ms[n]
  BY <1>1
<1>3. last \in Seq(Token) /\ \A n \in 1 .. N : Frame(p, n, ms[n]) \in Seq(Token)
  <2>1. N + 1 \in Nat /\ \A n \in 1 .. N : n \in Nat
    BY <1>1
  <2>2. last \in Seq(Token)
    <3> HIDE DEF N
    <3> QED BY <2>1, FrameIs
  <2>3. ASSUME NEW n \in 1 .. N PROVE Frame(p, n, ms[n]) \in Seq(Token)
    BY <1>1, <2>1, FrameIs
  <2> QED BY <2>2, <2>3
<1>4. frames \in Seq(Seq(Token)) /\ Len(frames) = N
  <2>1. frames \in [1 .. N -> Seq(Token)]
    BY <1>1, <1>3
  <2> HIDE DEF N, frames
  <2> QED BY <1>1, <2>1
<1>5. framesMore = Append(frames, last)
  <2>1. ASSUME NEW n \in 1 .. N + 1 PROVE framesMore[n] = IF n = N + 1 THEN last ELSE frames[n]
    <3>1. framesMore[n] = Frame(p, n, more[n])
      BY <1>2
    <3>2. CASE n = N + 1
      BY <1>2, <3>1, <3>2
    <3>3. CASE n # N + 1
      <4>1. n \in 1 .. N
        BY <1>1, <3>3
      <4>2. frames[n] = Frame(p, n, ms[n])
        BY <1>1, <4>1
      <4> QED BY <1>2, <3>1, <3>3, <4>1, <4>2
    <3> QED BY <3>2, <3>3
  <2>2. DOMAIN framesMore = 1 .. N + 1
    BY <1>2
  <2>3. framesMore = [n \in 1 .. N + 1 |-> framesMore[n]]
    BY <2>2
  <2> HIDE DEF frames, framesMore, last, more
  <2>4. Append(frames, last) \in Seq(Seq(Token)) /\ Len(Append(frames, last)) = N + 1
        /\ \A n \in 1 .. N + 1 : Append(frames, last)[n] = IF n = N + 1 THEN last ELSE frames[n]
    BY <1>1, <1>3, <1>4
  <2>5. DOMAIN Append(frames, last) = 1 .. N + 1
    BY <2>4
  <2>6. \A n \in 1 .. N + 1 : framesMore[n] = Append(frames, last)[n]
    BY <2>1, <2>4
  <2>7. framesMore \in Seq(Seq(Token)) /\ Len(framesMore) = N + 1
    <3>1. \A n \in 1 .. N + 1 : framesMore[n] \in Seq(Token)
      <4>1. \A n \in 1 .. N + 1 : n = N + 1 \/ n \in 1 .. N
        BY <1>1
      <4>2. \A n \in 1 .. N : frames[n] \in Seq(Token)
        BY <1>4
      <4> QED BY <1>3, <2>1, <4>1, <4>2
    <3>2. framesMore \in [1 .. N + 1 -> Seq(Token)]
      BY <2>3, <3>1
    <3> QED BY <1>1, <3>2
  <2> QED BY <2>4, <2>6, <2>7, SeqEqual
<1>6. Stream(p, ms) = FlattenSeq(frames) /\ Stream(p, more) = FlattenSeq(framesMore)
  BY DEF Stream
<1>7. Stream(p, <<>>) = <<>>
  <2>1. [n \in DOMAIN <<>> |-> Frame(p, n, <<>>[n])] = <<>>
    OBVIOUS
  <2>2. FlattenSeq(<<>>) = <<>>
    BY DEF FlattenSeq
  <2> QED BY <2>1, <2>2, Zenon DEF Stream
<1> HIDE DEF frames, framesMore, last
<1>8. FlattenSeq(frames) \in Seq(Token)
      /\ FlattenSeq(Append(frames, last)) = FlattenSeq(frames) \o last
  BY <1>3, <1>4, FlattenAppend
<1> QED BY <1>5, <1>6, <1>7, <1>8, Zenon DEF last, more

\* The first n frames, and where they end.
Upto(p, ms, n) == Stream(p, SubSeq(ms, 1, n))
EndAt(p, ms, n) == Len(Upto(p, ms, n))

LEMMA UptoIs ==
  ASSUME NEW p \in Server, NEW ms \in Seq(Message)
  PROVE  /\ Upto(p, ms, 0) = <<>> /\ EndAt(p, ms, 0) = 0
         /\ Upto(p, ms, Len(ms)) = Stream(p, ms)
         /\ \A n \in 0 .. Len(ms) : Upto(p, ms, n) \in Seq(Token) /\ EndAt(p, ms, n) \in Nat
         /\ \A n \in 0 .. Len(ms) - 1 :
              /\ Upto(p, ms, n + 1) = Upto(p, ms, n) \o Frame(p, n + 1, ms[n + 1])
              /\ EndAt(p, ms, n + 1) = EndAt(p, ms, n) + 2 + ms[n + 1].units
<1> DEFINE N == Len(ms)
           part(n) == SubSeq(ms, 1, n)
<1>1. N \in Nat /\ \A n \in 1 .. N : ms[n] \in Message
  OBVIOUS
<1>2. part(0) = <<>> /\ part(N) = ms
  BY SubSeqFull
<1>3. ASSUME NEW n \in 0 .. N PROVE part(n) \in Seq(Message) /\ Len(part(n)) = n
  OBVIOUS
<1>4. ASSUME NEW n \in 0 .. N - 1 PROVE part(n + 1) = Append(part(n), ms[n + 1])
  <2>1. n + 1 \in 1 .. N /\ n \in 0 .. N
    BY <1>1
  <2>2. part(n + 1) \in Seq(Message) /\ Len(part(n + 1)) = n + 1
        /\ \A i \in 1 .. n + 1 : part(n + 1)[i] = ms[i]
    BY <1>1, <2>1
  <2>3. part(n) \in Seq(Message) /\ Len(part(n)) = n /\ \A i \in 1 .. n : part(n)[i] = ms[i]
    BY <1>1, <2>1
  <2> HIDE DEF part, N
  <2>4. /\ Append(part(n), ms[n + 1]) \in Seq(Message) /\ Len(Append(part(n), ms[n + 1])) = n + 1
        /\ \A i \in 1 .. n + 1 : Append(part(n), ms[n + 1])[i] = ms[i]
    BY <1>1, <2>1, <2>3
  <2> QED BY <2>2, <2>4, SeqEqual
<1>5. Upto(p, ms, 0) = <<>> /\ EndAt(p, ms, 0) = 0
  <2>1. [n \in DOMAIN <<>> |-> Frame(p, n, <<>>[n])] = <<>>
    OBVIOUS
  <2>2. FlattenSeq(<<>>) = <<>>
    BY DEF FlattenSeq
  <2>3. Stream(p, <<>>) = <<>>
    BY <2>1, <2>2, Zenon DEF Stream
  <2>4. Upto(p, ms, 0) = <<>>
    BY <1>2, <2>3, Zenon DEF Upto
  <2> QED BY <2>4 DEF EndAt
<1> HIDE DEF N, part
<1>6. ASSUME NEW n \in 0 .. N - 1
      PROVE  /\ Upto(p, ms, n) \in Seq(Token)
             /\ Upto(p, ms, n + 1) = Upto(p, ms, n) \o Frame(p, n + 1, ms[n + 1])
  <2>1. n \in 0 .. N /\ n + 1 \in 1 .. N
    BY <1>1
  <2>2. part(n) \in Seq(Message) /\ Len(part(n)) = n /\ ms[n + 1] \in Message
    BY <1>1, <1>3, <2>1
  <2>3. /\ Stream(p, part(n)) \in Seq(Token)
        /\ Stream(p, Append(part(n), ms[n + 1])) = Stream(p, part(n)) \o Frame(p, n + 1, ms[n + 1])
    BY <2>2, StreamMore
  <2>4. Upto(p, ms, n) = Stream(p, part(n)) /\ Upto(p, ms, n + 1) = Stream(p, part(n + 1))
    BY Zenon DEF Upto, part
  <2> QED BY <1>4, <2>3, <2>4, Zenon
<1>7. ASSUME NEW n \in 0 .. N - 1
      PROVE  /\ Upto(p, ms, n + 1) \in Seq(Token)
             /\ EndAt(p, ms, n + 1) = EndAt(p, ms, n) + 2 + ms[n + 1].units
             /\ EndAt(p, ms, n) \in Nat /\ EndAt(p, ms, n + 1) \in Nat
  <2>1. n + 1 \in 1 .. N /\ n + 1 \in Nat /\ ms[n + 1] \in Message
    BY <1>1
  <2> DEFINE m == ms[n + 1]
             k == n + 1
             u == Upto(p, ms, n)
             f == Frame(p, k, m)
             v == Upto(p, ms, k)
  <2>2. f \in Seq(Token) /\ Len(f) = 2 + m.units /\ m.units \in Nat
    <3>1. k \in Nat /\ m \in Message
      BY <2>1
    <3> HIDE DEF k, m
    <3> QED BY <3>1, FrameIs
  <2>3. u \in Seq(Token) /\ v = u \o f
    BY <1>6
  <2>4. EndAt(p, ms, n) = Len(u) /\ EndAt(p, ms, n + 1) = Len(v)
    BY Zenon DEF EndAt
  <2> HIDE DEF u, f, v, m
  <2>5. v \in Seq(Token) /\ Len(v) = Len(u) + Len(f) /\ Len(u) \in Nat /\ Len(v) \in Nat
    <3>1. u \o f \in Seq(Token) /\ Len(u \o f) = Len(u) + Len(f)
      BY <2>2, <2>3, ConcatProperties
    <3> QED BY <2>2, <2>3, <3>1
  <2>6. EndAt(p, ms, n + 1) = EndAt(p, ms, n) + 2 + m.units
    <3>1. Len(u) + (2 + m.units) = Len(u) + 2 + m.units
      BY <2>2, <2>5, AddTwo
    <3> QED BY <2>2, <2>4, <2>5, <3>1, Zenon
  <2> QED BY <2>4, <2>5, <2>6 DEF v, m
<1>8. ASSUME NEW n \in 0 .. N PROVE Upto(p, ms, n) \in Seq(Token) /\ EndAt(p, ms, n) \in Nat
  <2>1. CASE n = 0
    <3>1. <<>> \in Seq(Token) /\ 0 \in Nat
      OBVIOUS
    <3> QED BY <1>5, <2>1, <3>1, Zenon
  <2>2. CASE n # 0
    <3> DEFINE k == n - 1
    <3>1. k \in 0 .. N - 1 /\ k + 1 = n
      BY <1>1, <2>2
    <3> HIDE DEF k
    <3> QED BY <1>7, <3>1
  <2> QED BY <2>1, <2>2
<1>9. Upto(p, ms, N) = Stream(p, ms)
  BY <1>2, Zenon DEF Upto, part
<1> QED BY <1>5, <1>6, <1>7, <1>8, <1>9 DEF N

\* Each frame is in the stream, behind the one before.
LEMMA StreamIs ==
  ASSUME NEW p \in Server, NEW ms \in Seq(Message)
  PROVE  /\ Stream(p, ms) \in Seq(Token)
         /\ \A n \in 0 .. Len(ms) : EndAt(p, ms, n) <= Len(Stream(p, ms))
         /\ \A n \in 0 .. Len(ms) - 1 : \A i \in 1 .. 2 + ms[n + 1].units :
              Stream(p, ms)[EndAt(p, ms, n) + i] = Frame(p, n + 1, ms[n + 1])[i]
<1> DEFINE N == Len(ms)
           U == [n \in 0 .. N |-> Upto(p, ms, n)]
           E == [n \in 0 .. N |-> EndAt(p, ms, n)]
           F == [n \in 0 .. N - 1 |-> Frame(p, n + 1, ms[n + 1])]
           W == [n \in 0 .. N - 1 |-> 2 + ms[n + 1].units]
           S == {M \in Nat : M <= N =>
                   /\ \A n \in 0 .. M : E[n] <= E[M]
                   /\ \A n \in 0 .. M - 1 : \A i \in 1 .. W[n] : U[M][E[n] + i] = F[n][i]}
<1>1. N \in Nat /\ \A n \in 1 .. N : ms[n] \in Message
  OBVIOUS
<1>2. /\ \A n \in 0 .. N : U[n] \in Seq(Token) /\ E[n] \in Nat /\ Len(U[n]) = E[n]
      /\ U[N] = Stream(p, ms)
      /\ \A n \in 0 .. N : U[n] = Upto(p, ms, n) /\ E[n] = EndAt(p, ms, n)
  <2>1. \A n \in 0 .. N : EndAt(p, ms, n) = Len(Upto(p, ms, n))
    BY DEF EndAt
  <2>2. N \in 0 .. N
    BY <1>1
  <2> HIDE DEF N
  <2> QED BY <2>1, <2>2, UptoIs DEF N
<1>3. ASSUME NEW n \in 0 .. N - 1
      PROVE  /\ n \in 0 .. N /\ n + 1 \in 0 .. N /\ U[n + 1] = U[n] \o F[n] /\ E[n + 1] = E[n] + W[n]
             /\ F[n] \in Seq(Token) /\ Len(F[n]) = W[n] /\ W[n] \in Nat
             /\ F[n] = Frame(p, n + 1, ms[n + 1]) /\ W[n] = 2 + ms[n + 1].units
  <2>1. n \in 0 .. N /\ n + 1 \in 0 .. N /\ n + 1 \in Nat /\ ms[n + 1] \in Message
    BY <1>1
  <2>2. F[n] = Frame(p, n + 1, ms[n + 1]) /\ W[n] = 2 + ms[n + 1].units
    OBVIOUS
  <2> HIDE DEF U, E, F, W, S
  <2>3. F[n] \in Seq(Token) /\ Len(F[n]) = W[n] /\ W[n] \in Nat /\ ms[n + 1].units \in Nat
    BY <2>1, <2>2, FrameIs
  <2>4. Upto(p, ms, n + 1) = Upto(p, ms, n) \o Frame(p, n + 1, ms[n + 1])
        /\ EndAt(p, ms, n + 1) = EndAt(p, ms, n) + 2 + ms[n + 1].units
    BY UptoIs
  <2>5. U[n + 1] = U[n] \o F[n]
    BY <1>2, <2>1, <2>2, <2>4
  <2>6. E[n + 1] = E[n] + W[n]
    <3>1. E[n + 1] = EndAt(p, ms, n + 1) /\ E[n] = EndAt(p, ms, n) /\ E[n] \in Nat
      BY <1>2, <2>1
    <3>2. EndAt(p, ms, n) + (2 + ms[n + 1].units) = EndAt(p, ms, n) + 2 + ms[n + 1].units
      BY <2>3, <3>1, AddTwo
    <3> QED BY <2>2, <2>4, <3>1, <3>2, Zenon
  <2> QED BY <2>1, <2>2, <2>3, <2>5, <2>6
<1> HIDE DEF N, U, E, F, W
<1>4. 0 \in S
  BY <1>1, <1>2
<1>5. ASSUME NEW M \in Nat, M \in S PROVE M + 1 \in S
  <2> SUFFICES ASSUME M + 1 <= N
               PROVE  /\ \A n \in 0 .. M + 1 : E[n] <= E[M + 1]
                      /\ \A n \in 0 .. (M + 1) - 1 : \A i \in 1 .. W[n] :
                           U[M + 1][E[n] + i] = F[n][i]
    OBVIOUS
  <2>1. M \in 0 .. N - 1 /\ M \in 0 .. N /\ M + 1 \in 0 .. N
    BY <1>1
  <2>2. /\ \A n \in 0 .. M : E[n] <= E[M]
        /\ \A n \in 0 .. M - 1 : \A i \in 1 .. W[n] : U[M][E[n] + i] = F[n][i]
    BY <1>1, <1>5
  <2> HIDE DEF S
  <2>3. U[M + 1] = U[M] \o F[M] /\ E[M + 1] = E[M] + W[M] /\ F[M] \in Seq(Token)
        /\ Len(F[M]) = W[M] /\ W[M] \in Nat
    BY <1>3, <2>1
  <2>4. U[M] \in Seq(Token) /\ Len(U[M]) = E[M] /\ E[M] \in Nat /\ E[M + 1] \in Nat
    BY <1>2, <2>1
  <2>5. ASSUME NEW n \in 0 .. M + 1 PROVE E[n] <= E[M + 1]
    <3>1. CASE n = M + 1
      BY <2>4, <3>1
    <3>2. CASE n # M + 1
      <4>1. n \in 0 .. M /\ n \in 0 .. N
        BY <1>1, <2>1, <3>2
      <4>2. E[n] <= E[M] /\ E[n] \in Nat
        BY <1>2, <2>2, <4>1
      <4> QED BY <2>3, <2>4, <4>2
    <3> QED BY <3>1, <3>2
  <2>6. \A j \in 1 .. E[M] + W[M] : U[M + 1][j] = IF j <= E[M] THEN U[M][j] ELSE F[M][j - E[M]]
    <3> DEFINE u == U[M]
               f == F[M]
    <3> HIDE DEF u, f
    <3>1. u \in Seq(Token) /\ f \in Seq(Token) /\ Len(u) = E[M] /\ Len(f) = W[M]
      BY <2>3, <2>4 DEF u, f
    <3>2. \A i \in 1 .. Len(u) + Len(f) :
            (u \o f)[i] = IF i <= Len(u) THEN u[i] ELSE f[i - Len(u)]
      BY <3>1, ConcatProperties
    <3>3. U[M + 1] = u \o f
      BY <2>3 DEF u, f
    <3> QED BY <3>1, <3>2, <3>3 DEF u, f
  <2>7. ASSUME NEW n \in 0 .. M, NEW i \in 1 .. W[n] PROVE U[M + 1][E[n] + i] = F[n][i]
    <3>1. CASE n = M
      <4>1. E[M] + i \in 1 .. E[M] + W[M] /\ ~(E[M] + i <= E[M]) /\ (E[M] + i) - E[M] = i
        <5> DEFINE a == E[M]
                   w == W[M]
        <5>1. a \in Nat /\ w \in Nat /\ i \in 1 .. w
          BY <2>3, <2>4, <3>1
        <5> HIDE DEF a, w
        <5>2. a + i \in 1 .. a + w /\ ~(a + i <= a) /\ (a + i) - a = i
          BY <5>1
        <5> QED BY <5>2 DEF a, w
      <4>2. U[M + 1][E[M] + i] = F[M][(E[M] + i) - E[M]]
        BY <2>6, <4>1
      <4> QED BY <3>1, <4>1, <4>2
    <3>2. CASE n # M
      <4>1. n \in 0 .. M - 1 /\ n + 1 \in 0 .. M /\ n \in 0 .. N - 1 /\ n \in 0 .. N
        BY <1>1, <2>1, <3>2
      <4>2. E[n + 1] <= E[M] /\ E[n + 1] = E[n] + W[n] /\ E[n] \in Nat /\ W[n] \in Nat
        BY <1>2, <1>3, <2>2, <4>1
      <4>3. E[n] + i \in 1 .. E[M] + W[M] /\ E[n] + i <= E[M]
        <5>1. E[n] + W[n] <= E[M]
          BY <4>2, Zenon
        <5> QED BY <2>3, <2>4, <4>2, <5>1, Within
      <4>4. U[M + 1][E[n] + i] = U[M][E[n] + i]
        BY <2>6, <4>3
      <4> QED BY <2>2, <4>1, <4>4
    <3> QED BY <3>1, <3>2
  <2>8. (M + 1) - 1 = M
    OBVIOUS
  <2> QED BY <2>5, <2>7, <2>8
<1> HIDE DEF S
<1>6. Nat \subseteq S
  BY <1>4, <1>5, Induction
<1>7. /\ \A n \in 0 .. N : E[n] <= E[N]
      /\ \A n \in 0 .. N - 1 : \A i \in 1 .. W[n] : U[N][E[n] + i] = F[n][i]
  BY <1>1, <1>6 DEF S
<1>8. U[N] = Stream(p, ms) /\ Len(U[N]) = E[N] /\ U[N] \in Seq(Token)
  <2>1. N \in 0 .. N
    BY <1>1
  <2> QED BY <1>2, <2>1
<1>9. ASSUME NEW n \in 0 .. N PROVE EndAt(p, ms, n) <= Len(Stream(p, ms))
  BY <1>2, <1>7, <1>8
<1>10. ASSUME NEW n \in 0 .. N - 1, NEW i \in 1 .. 2 + ms[n + 1].units
       PROVE  Stream(p, ms)[EndAt(p, ms, n) + i] = Frame(p, n + 1, ms[n + 1])[i]
  <2>1. W[n] = 2 + ms[n + 1].units /\ F[n] = Frame(p, n + 1, ms[n + 1]) /\ E[n] = EndAt(p, ms, n)
    BY <1>2, <1>3
  <2>2. U[N][E[n] + i] = F[n][i]
    BY <1>7, <2>1
  <2> QED BY <1>8, <2>1, <2>2
<1> QED BY <1>8, <1>9, <1>10 DEF N

\* What has arrived of the frames behind the first c.
LeftOver(p, ms, c, n) == SubSeq(Stream(p, ms), EndAt(p, ms, c) + 1, n)

LEMMA LeftOverIs ==
  ASSUME NEW p \in Server, NEW ms \in Seq(Message), NEW c \in 0 .. Len(ms),
         NEW n \in EndAt(p, ms, c) .. Len(Stream(p, ms))
  PROVE  LET s == Stream(p, ms)
             rest == LeftOver(p, ms, c, n)
             e == EndAt(p, ms, c)
         IN /\ s \in Seq(Token) /\ e \in Nat /\ n \in Nat /\ e <= n /\ n <= Len(s)
            /\ rest \in Seq(Token) /\ Len(rest) = n - e /\ Len(rest) \in Nat
            /\ \A i \in 1 .. Len(rest) : rest[i] = s[e + i] /\ rest[i] \in Token
            /\ c < Len(ms) => \A i \in 1 .. Len(rest) :
                                i <= 2 + ms[c + 1].units => rest[i] = Frame(p, c + 1, ms[c + 1])[i]
            /\ c = Len(ms) => Len(rest) = 0
<1> DEFINE N == Len(ms)
           s == Stream(p, ms)
           e == EndAt(p, ms, c)
           rest == LeftOver(p, ms, c, n)
<1>1. /\ s \in Seq(Token) /\ e \in Nat /\ N \in Nat /\ n \in Nat /\ e <= n /\ n <= Len(s)
      /\ e <= Len(s) /\ Len(s) \in Nat
  <2>1. e \in Nat /\ s \in Seq(Token)
    BY UptoIs, StreamIs
  <2>2. N \in Nat
    OBVIOUS
  <2> HIDE DEF e, s, N
  <2>3. Len(s) \in Nat
    BY <2>1
  <2>4. n \in e .. Len(s)
    BY DEF e, s
  <2> QED BY <2>1, <2>2, <2>3, <2>4
<1>2. rest = SubSeq(s, e + 1, n)
  BY DEF LeftOver
<1>3. c = N => e = Len(s)
  BY UptoIs DEF EndAt
<1>4. c < N => \A i \in 1 .. 2 + ms[c + 1].units : s[e + i] = Frame(p, c + 1, ms[c + 1])[i]
  <2>1. c < N => c \in 0 .. Len(ms) - 1
    OBVIOUS
  <2> QED BY <2>1, StreamIs
<1> HIDE DEF e, s, rest, N
<1>5. rest \in Seq(Token) /\ Len(rest) = n - e /\ Len(rest) \in Nat
      /\ \A i \in 1 .. Len(rest) : rest[i] = s[e + i] /\ rest[i] \in Token
  <2>1. \A i \in 1 .. n - e : e + i \in 1 .. Len(s) /\ (e + 1) + i - 1 = e + i
    BY <1>1
  <2>2. \A i \in 1 .. n - e : s[e + i] \in Token
    BY <1>1, <2>1
  <2>3. e + 1 \in 1 .. Len(s) + 1 /\ n \in (e + 1) - 1 .. Len(s)
    BY <1>1
  <2>4. rest \in Seq(Token) /\ Len(rest) = n - e
        /\ \A i \in 1 .. n - e : rest[i] = s[e + i]
    <3>1. SubSeq(s, e + 1, n) = [i \in 1 .. n - e |-> s[e + i]]
      BY <1>1, <2>1
    <3>2. [i \in 1 .. n - e |-> s[e + i]] \in [1 .. n - e -> Token] /\ n - e \in Nat
      BY <1>1, <2>2
    <3> DEFINE k == n - e
               f == [i \in 1 .. k |-> s[e + i]]
    <3>3. \A i \in 1 .. k : f[i] = s[e + i]
      OBVIOUS
    <3>4. rest = f /\ f \in [1 .. k -> Token] /\ k \in Nat
      BY <1>2, <3>1, <3>2
    <3> HIDE DEF f, k
    <3>5. f \in Seq(Token) /\ Len(f) = k
      BY <3>4
    <3> QED BY <3>3, <3>4, <3>5 DEF k
  <2> QED BY <1>1, <2>2, <2>4
<1>6. c < N => \A i \in 1 .. Len(rest) :
                 i <= 2 + ms[c + 1].units => rest[i] = Frame(p, c + 1, ms[c + 1])[i]
  <2> SUFFICES ASSUME c < N, NEW i \in 1 .. Len(rest), i <= 2 + ms[c + 1].units
               PROVE  rest[i] = Frame(p, c + 1, ms[c + 1])[i]
    OBVIOUS
  <2>1. ms[c + 1].units \in Nat
    <3>1. c + 1 \in 1 .. N
      BY <1>1
    <3>2. ms[c + 1] \in Message
      BY <3>1 DEF N
    <3> QED BY <3>2, FramingAssumption
  <2>2. i \in 1 .. 2 + ms[c + 1].units
    BY <1>5, <2>1
  <2> QED BY <1>4, <1>5, <2>2
<1>7. c = N => Len(rest) = 0
  BY <1>1, <1>3, <1>5
<1> QED BY <1>1, <1>5, <1>6, <1>7 DEF N, s, e, rest

\* What a round makes of the header of a frame.
LEMMA HeaderIs ==
  ASSUME NEW rest \in Seq(Token), Len(rest) >= 2, NEW b, rest[1] = <<"length", b>>, rest[2] = <<"blank">>
  PROVE  LET blanks == {i \in DOMAIN rest : rest[i][1] = "blank"}
             lengths == {i \in 1 .. 2 : rest[i][1] = "length"}
         IN /\ blanks # {} /\ Min(blanks) = 2
            /\ lengths # {} /\ rest[Min(lengths)][2] = b
<1> DEFINE blanks == {i \in DOMAIN rest : rest[i][1] = "blank"}
           lengths == {i \in 1 .. 2 : rest[i][1] = "length"}
           N == Len(rest)
<1>1. N \in Nat /\ DOMAIN rest = 1 .. N /\ 1 \in 1 .. N /\ 2 \in 1 .. N
  OBVIOUS
<1>2. rest[1][1] = "length" /\ rest[1][2] = b /\ rest[2][1] = "blank"
  OBVIOUS
<1>3. 2 \in blanks /\ 1 \notin blanks /\ blanks \in SUBSET (0 .. N) /\ 0 \notin blanks
  BY <1>1, <1>2
<1>4. 1 \in lengths /\ 2 \notin lengths /\ lengths \in SUBSET (0 .. 2) /\ lengths = {1}
  BY <1>2
<1> HIDE DEF blanks, lengths, N
<1>5. Min(blanks) = 2
  <2>1. Min(blanks) \in blanks /\ Min(blanks) <= 2
    BY <1>1, <1>3, MinMaxUpTo
  <2> DEFINE x == Min(blanks)
  <2>2. x \in blanks /\ x <= 2
    BY <2>1
  <2> HIDE DEF x
  <2>3. x \in 0 .. N /\ x # 0 /\ x # 1
    BY <1>3, <2>2
  <2>4. x = 2
    BY <1>1, <2>2, <2>3
  <2> QED BY <2>4 DEF x
<1>6. Min(lengths) = 1
  <2>1. Min(lengths) \in lengths
    BY <1>4, MinMaxUpTo
  <2> QED BY <1>4, <2>1
<1> QED BY <1>2, <1>3, <1>4, <1>5, <1>6 DEF blanks, lengths

\* The processes write what they may, and nothing arrives before it is written.
FramesOK ==
  /\ arrived \in [Server -> Nat] /\ written \in [Server -> Seq(Message)]
  /\ \A p \in Server : /\ Len(written[p]) <= MaxFrames
                       /\ arrived[p] \in 0 .. Len(Stream(p, written[p]))

\* No text has characters of more than one byte.
Plain == \A p \in Server : \A n \in DOMAIN written[p] : written[p][n].bytes = written[p][n].units

\* What the reader has after some rounds over a buffer.
Read(p, c, n, g, at) == [rest |-> LeftOver(p, written[p], c, n), got |-> g, at |-> at]

\* No other message has this text.
LEMMA ParsedIs ==
  ASSUME FramesOK, NEW p \in Server, NEW k \in DOMAIN written[p],
         NEW text, text = Body(p, k, written[p][k])
  PROVE  Parsed(text) = {<<p, k>>}
<1> DEFINE N == Len(written[p])
<1>1. /\ written[p] \in Seq(Message) /\ N \in Nat /\ N <= MaxFrames /\ k \in 1 .. N
      /\ written[p][k] \in Message
  BY DEF FramesOK
<1>2. MaxFrames \in Nat /\ \A m \in Message : m.units \in Nat \ {0}
  BY FramingAssumption
<1>3. <<p, k>> \in Parsed(text)
  <2>1. <<p, k>> \in Server \X (1 .. MaxFrames)
    BY <1>1, <1>2
  <2>2. <<p, k>>[1] = p /\ <<p, k>>[2] = k
    OBVIOUS
  <2> QED BY <2>1, <2>2 DEF Parsed
<1>4. ASSUME NEW m \in Parsed(text) PROVE m = <<p, k>>
  <2>1. /\ m \in Server \X (1 .. MaxFrames) /\ m[2] \in DOMAIN written[m[1]]
        /\ text = Body(m[1], m[2], written[m[1]][m[2]])
    BY DEF Parsed
  <2>2. written[m[1]] \in Seq(Message) /\ written[m[1]][m[2]] \in Message
    <3>1. m[1] \in Server
      BY <2>1
    <3>2. written[m[1]] \in Seq(Message)
      BY <3>1 DEF FramesOK
    <3> QED BY <2>1, <3>2
  <2> DEFINE u == written[p][k].units
             v == written[m[1]][m[2]].units
  <2>3. 1 \in 1 .. u /\ 1 \in 1 .. v
    BY <1>1, <1>2, <2>2
  <2>4. text = [i \in 1 .. u |-> <<"unit", p, k>>] /\ text = [i \in 1 .. v |-> <<"unit", m[1], m[2]>>]
    BY <2>1, Zenon DEF Body
  <2> HIDE DEF u, v
  <2>5. text[1] = <<"unit", p, k>> /\ text[1] = <<"unit", m[1], m[2]>>
    <3>1. text[1] = <<"unit", p, k>>
      BY <2>3, <2>4
    <3>2. text[1] = <<"unit", m[1], m[2]>>
      BY <2>3, <2>4
    <3> QED BY <3>1, <3>2
  <2>6. m[1] = p /\ m[2] = k
    BY <2>5
  <2> QED BY <2>1, <2>6
<1> QED BY <1>3, <1>4

Taken(before, d, e) == [before EXCEPT !.rest = d, !.got = Append(@, e)]

TakesAt(a, b, c, d, e) ==
  Taken([rest |-> a, got |-> b, at |-> c], d, e) = [rest |-> d, got |-> Append(b, e), at |-> c]

LEMMA RoundTakes ==
  ASSUME NEW a, NEW b, NEW c, NEW d, NEW e
  PROVE  TakesAt(a, b, c, d, e)
<1> DEFINE before == [rest |-> a, got |-> b, at |-> c]
           r == [before EXCEPT !.rest = d, !.got = Append(@, e)]
           q == [rest |-> d, got |-> Append(b, e), at |-> c]
           fields == {"rest", "got", "at"}
<1>1. DOMAIN r = fields /\ DOMAIN q = fields
  OBVIOUS
<1>2. r["rest"] = d /\ r["got"] = Append(b, e) /\ r["at"] = c
  OBVIOUS
<1>3. q["rest"] = d /\ q["got"] = Append(b, e) /\ q["at"] = c
  OBVIOUS
<1>4. r = [x \in fields |-> r[x]] /\ q = [x \in fields |-> q[x]]
  BY <1>1
<1> HIDE DEF r, q
<1>5. \A x \in fields : r[x] = q[x]
  BY <1>2, <1>3
<1>6. r = q
  BY <1>4, <1>5
<1> QED BY <1>6 DEF Taken, TakesAt, r, q

\* A whole frame at the front of the buffer is read.
LEMMA RoundReads ==
  ASSUME FramesOK, Plain, NEW p \in Server, NEW c \in 0 .. Len(written[p]) - 1,
         NEW n \in EndAt(p, written[p], c + 1) .. Len(Stream(p, written[p])), NEW g
  PROVE  Round(Read(p, c, n, g, "reads")) = Read(p, c + 1, n, Append(g, <<p, c + 1>>), "reads")
<1> DEFINE ms == written[p]
           k == c + 1
           m == ms[k]
           u == m.units
           reader == Read(p, c, n, g, "reads")
           rest == reader.rest
           blanks == {i \in DOMAIN rest : rest[i][1] = "blank"}
           end == Min(blanks)
           lengths == {i \in 1 .. end : rest[i][1] = "length"}
           length == rest[Min(lengths)][2]
           text == SubSeq(rest, end + 1, end + length)
           behind == SubSeq(rest, end + length + 1, Len(rest))
           e == EndAt(p, ms, c)
           d == EndAt(p, ms, k)
           s == Stream(p, ms)
<1>1. ms \in Seq(Message) /\ k \in 1 .. Len(ms) /\ k \in Nat /\ m \in Message /\ k \in DOMAIN ms
      /\ c \in 0 .. Len(ms)
  <2>1. ms \in Seq(Message)
    BY DEF FramesOK
  <2> HIDE DEF ms
  <2>2. c \in 0 .. Len(ms) - 1
    BY DEF ms
  <2>3. k \in 1 .. Len(ms) /\ k \in Nat /\ k \in DOMAIN ms /\ c \in 0 .. Len(ms)
    BY <2>1, <2>2
  <2> QED BY <2>1, <2>3
<1>2. u \in Nat \ {0} /\ m.bytes = u
  BY <1>1, FramingAssumption DEF Plain
<1>3. e \in Nat /\ d = e + 2 + u /\ n \in d .. Len(s) /\ s \in Seq(Token) /\ d \in Nat
  <2>1. e \in Nat /\ d = e + 2 + u
    BY <1>1, UptoIs
  <2>2. d \in Nat /\ s \in Seq(Token)
    BY <1>1, UptoIs, StreamIs
  <2> QED BY <2>1, <2>2
<1>4. /\ n \in e .. Len(s) /\ n \in Nat
  <2> HIDE DEF e, d, s, u
  <2> QED BY <1>2, <1>3
<1>5. /\ rest \in Seq(Token) /\ Len(rest) = n - e /\ Len(rest) \in Nat
      /\ \A i \in 1 .. Len(rest) : rest[i] = s[e + i] /\ rest[i] \in Token
      /\ \A i \in 1 .. Len(rest) : i <= 2 + u => rest[i] = Frame(p, k, m)[i]
      /\ rest = LeftOver(p, ms, c, n) /\ reader.got = g
  <2>1. c < Len(ms)
    BY <1>1
  <2>2. rest = LeftOver(p, ms, c, n) /\ reader.got = g
    BY DEF Read
  <2> DEFINE t == LeftOver(p, ms, c, n)
  <2>3. /\ t \in Seq(Token) /\ Len(t) = n - e /\ Len(t) \in Nat
        /\ \A i \in 1 .. Len(t) : t[i] = s[e + i] /\ t[i] \in Token
        /\ \A i \in 1 .. Len(t) : i <= 2 + u => t[i] = Frame(p, k, m)[i]
    <3> HIDE DEF t, e, s
    <3> QED BY <1>1, <1>4, <2>1, LeftOverIs DEF t, e, s
  <2> HIDE DEF t, rest, e, s, u, k, m
  <2>4. rest = t
    BY <2>2 DEF t
  <2> QED BY <2>2, <2>3, <2>4
<1>6. 2 + u <= Len(rest)
  <2> HIDE DEF rest, e, s, d, u
  <2> QED BY <1>2, <1>3, <1>5
<1>7. /\ Frame(p, k, m)[1] = <<"length", u>> /\ Frame(p, k, m)[2] = <<"blank">>
      /\ \A i \in 1 .. u : Frame(p, k, m)[2 + i] = <<"unit", p, k>>
  <2> DEFINE f == Frame(p, k, m)
  <2>1. /\ f[1] = <<"length", m.bytes>> /\ f[2] = <<"blank">>
        /\ \A i \in 1 .. m.units : f[2 + i] = <<"unit", p, k>>
    <3> HIDE DEF k, m
    <3> QED BY <1>1, FrameIs
  <2> HIDE DEF f, u
  <2> QED BY <1>2, <2>1, Zenon DEF f, u
<1>8. /\ rest[1] = <<"length", u>> /\ rest[2] = <<"blank">> /\ Len(rest) >= 2
      /\ \A i \in 1 .. u : rest[2 + i] = <<"unit", p, k>>
  <2> HIDE DEF rest, u, k, m
  <2>1. 1 \in 1 .. Len(rest) /\ 2 \in 1 .. Len(rest) /\ 1 <= 2 + u /\ 2 <= 2 + u
        /\ \A i \in 1 .. u : 2 + i \in 1 .. Len(rest) /\ 2 + i <= 2 + u
    BY <1>2, <1>5, <1>6
  <2> DEFINE f == Frame(p, k, m)
  <2> HIDE DEF f
  <2>2. /\ f[1] = <<"length", u>> /\ f[2] = <<"blank">> /\ \A i \in 1 .. u : f[2 + i] = <<"unit", p, k>>
    BY <1>7 DEF f
  <2>3. rest[1] = f[1] /\ rest[2] = f[2] /\ \A i \in 1 .. u : rest[2 + i] = f[2 + i]
    BY <1>5, <2>1 DEF f
  <2>4. Len(rest) >= 2
    BY <1>2, <1>5, <1>6
  <2> QED BY <2>2, <2>3, <2>4, Zenon
<1>9. blanks # {} /\ end = 2 /\ lengths # {} /\ length = u
  <2> HIDE DEF rest, u
  <2>1. /\ blanks # {} /\ Min(blanks) = 2
        /\ {i \in 1 .. 2 : rest[i][1] = "length"} # {}
        /\ rest[Min({i \in 1 .. 2 : rest[i][1] = "length"})][2] = u
    BY <1>5, <1>8, HeaderIs
  <2> QED BY <2>1, Zenon
<1>10. Complete(rest, end, length)
  <2> HIDE DEF rest, end, length
  <2> QED BY <1>6, <1>9 DEF Complete
<1>11. text = Body(p, k, m)
  <2> HIDE DEF rest, end, length, k, m
  <2>1. text = SubSeq(rest, 3, 2 + u)
    BY <1>9
  <2> HIDE DEF text, u
  <2>2. SubSeq(rest, 3, 2 + u) = [i \in 1 .. u |-> rest[2 + i]]
    BY <1>2, <1>5, <1>6
  <2>3. [i \in 1 .. u |-> rest[2 + i]] = [i \in 1 .. u |-> <<"unit", p, k>>]
    BY <1>8
  <2> QED BY <2>1, <2>2, <2>3, Zenon DEF Body, u
<1>12. Parsed(text) = {<<p, k>>}
  <2> HIDE DEF text, k
  <2>1. text = Body(p, k, written[p][k]) /\ k \in DOMAIN written[p]
    BY <1>1, <1>11
  <2> QED BY <2>1, ParsedIs
<1>13. behind = LeftOver(p, ms, k, n)
  <2>1. behind = SubSeq(rest, u + 3, Len(rest))
    <3> HIDE DEF rest, end, length, u
    <3>1. end + length + 1 = u + 3
      BY <1>2, <1>9
    <3> QED BY <3>1
  <2>2. LeftOver(p, ms, k, n) = SubSeq(s, d + 1, n)
    BY Zenon DEF LeftOver
  <2> HIDE DEF rest, behind, u, e, d, s
  <2>3. SubSeq(rest, u + 3, Len(rest)) = [i \in 1 .. n - d |-> rest[u + 2 + i]]
    BY <1>2, <1>3, <1>4, <1>5, <1>6
  <2>4. SubSeq(s, d + 1, n) = [i \in 1 .. n - d |-> s[d + i]]
    BY <1>3, <1>4
  <2>5. \A i \in 1 .. n - d : rest[u + 2 + i] = s[d + i]
    <3> SUFFICES ASSUME NEW i \in 1 .. n - d PROVE rest[u + 2 + i] = s[d + i]
      OBVIOUS
    <3>1. u + 2 + i \in 1 .. Len(rest) /\ e + (u + 2 + i) = d + i
      BY <1>2, <1>3, <1>4, <1>5
    <3> QED BY <1>5, <3>1
  <2> QED BY <2>1, <2>2, <2>3, <2>4, <2>5
<1>15. Round(reader) = [reader EXCEPT !.rest = behind, !.got = Append(@, CHOOSE x \in Parsed(text) : TRUE)]
  <2>1. Round(reader) =
          IF blanks = {} THEN [reader EXCEPT !.at = "waits"]
          ELSE IF lengths = {} THEN [reader EXCEPT !.at = IF lenient THEN "waits" ELSE "throws"]
          ELSE IF ~Complete(rest, end, length) THEN [reader EXCEPT !.at = "waits"]
          ELSE IF Parsed(text) = {} THEN [reader EXCEPT !.rest = behind, !.at = "throws"]
          ELSE [reader EXCEPT !.rest = behind, !.got = Append(@, CHOOSE x \in Parsed(text) : TRUE)]
    <3> HIDE DEF reader
    <3> QED BY Zenon DEF Round
  <2> HIDE DEF reader, blanks, lengths, rest, end, length, text, behind
  <2>2. Parsed(text) # {}
    BY <1>12
  <2> QED BY <1>9, <1>10, <2>1, <2>2
<1>16. (CHOOSE x \in Parsed(text) : TRUE) = <<p, k>>
  <2> HIDE DEF text
  <2> QED BY <1>12
<1> HIDE DEF behind, text
<1>17. [reader EXCEPT !.rest = behind, !.got = Append(@, <<p, k>>)]
         = [rest |-> behind, got |-> Append(g, <<p, k>>), at |-> "reads"]
  <2> DEFINE a == LeftOver(p, ms, c, n)
             x == <<p, k>>
  <2>1. reader = [rest |-> a, got |-> g, at |-> "reads"]
    BY Zenon DEF Read
  <2> HIDE DEF a, reader, x
  <2>3. Taken([rest |-> a, got |-> g, at |-> "reads"], behind, x)
          = [rest |-> behind, got |-> Append(g, x), at |-> "reads"]
    <3>1. TakesAt(a, g, "reads", behind, x)
      BY RoundTakes, Zenon
    <3> QED BY <3>1, Zenon DEF TakesAt
  <2>2. Taken(reader, behind, x) = [rest |-> behind, got |-> Append(g, x), at |-> "reads"]
    BY <2>1, <2>3, Zenon
  <2> QED BY <2>2, Zenon DEF x, Taken
<1> QED BY <1>13, <1>15, <1>16, <1>17, Zenon DEF Read

Waiting(reader) == [reader EXCEPT !.at = "waits"]

LEMMA ReaderWaits ==
  ASSUME NEW p, NEW c, NEW n, NEW g
  PROVE  Waiting(Read(p, c, n, g, "reads")) = Read(p, c, n, g, "waits")
<1> DEFINE r == [Read(p, c, n, g, "reads") EXCEPT !.at = "waits"]
           q == Read(p, c, n, g, "waits")
           a == LeftOver(p, written[p], c, n)
           fields == {"rest", "got", "at"}
<1> HIDE DEF a
<1>1. DOMAIN r = fields /\ DOMAIN q = fields
  BY DEF Read
<1>2. r["rest"] = a /\ r["got"] = g /\ r["at"] = "waits"
  BY DEF Read, a
<1>3. q["rest"] = a /\ q["got"] = g /\ q["at"] = "waits"
  BY DEF Read, a
<1>4. r = [x \in fields |-> r[x]] /\ q = [x \in fields |-> q[x]]
  BY <1>1 DEF Read
<1> HIDE DEF r, q
<1>5. \A x \in fields : r[x] = q[x]
  BY <1>2, <1>3
<1>6. r = q
  BY <1>4, <1>5
<1> QED BY <1>6 DEF Waiting, r, q

\* A part of a frame is left in the buffer.
LEMMA RoundWaits ==
  ASSUME FramesOK, Plain, NEW p \in Server, NEW c \in 0 .. Len(written[p]),
         NEW n \in EndAt(p, written[p], c) .. Len(Stream(p, written[p])),
         c < Len(written[p]) => n < EndAt(p, written[p], c + 1), NEW g
  PROVE  Round(Read(p, c, n, g, "reads")) = Read(p, c, n, g, "waits")
<1> DEFINE ms == written[p]
           k == c + 1
           m == ms[k]
           u == m.units
           reader == Read(p, c, n, g, "reads")
           rest == reader.rest
           blanks == {i \in DOMAIN rest : rest[i][1] = "blank"}
           end == Min(blanks)
           lengths == {i \in 1 .. end : rest[i][1] = "length"}
           length == rest[Min(lengths)][2]
           text == SubSeq(rest, end + 1, end + length)
           behind == SubSeq(rest, end + length + 1, Len(rest))
           e == EndAt(p, ms, c)
           s == Stream(p, ms)
           t == LeftOver(p, ms, c, n)
<1>1. ms \in Seq(Message)
  BY DEF FramesOK
<1>2. /\ t \in Seq(Token) /\ Len(t) = n - e /\ Len(t) \in Nat /\ e \in Nat /\ n \in Nat
      /\ c < Len(ms) => \A i \in 1 .. Len(t) : i <= 2 + u => t[i] = Frame(p, k, m)[i]
      /\ c = Len(ms) => Len(t) = 0
  <2> HIDE DEF t, e, s
  <2> QED BY <1>1, LeftOverIs DEF t, e, s
<1>3. rest = t
  BY DEF Read
<1>4. Round(reader) =
          IF blanks = {} THEN [reader EXCEPT !.at = "waits"]
          ELSE IF lengths = {} THEN [reader EXCEPT !.at = IF lenient THEN "waits" ELSE "throws"]
          ELSE IF ~Complete(rest, end, length) THEN [reader EXCEPT !.at = "waits"]
          ELSE IF Parsed(text) = {} THEN [reader EXCEPT !.rest = behind, !.at = "throws"]
          ELSE [reader EXCEPT !.rest = behind, !.got = Append(@, CHOOSE x \in Parsed(text) : TRUE)]
  <2> HIDE DEF reader
  <2> QED BY Zenon DEF Round
<1>5. [reader EXCEPT !.at = "waits"] = Read(p, c, n, g, "waits")
  <2>1. Waiting(reader) = Read(p, c, n, g, "waits")
    BY ReaderWaits, Zenon
  <2> HIDE DEF reader
  <2> QED BY <2>1, Zenon DEF Waiting
<1> HIDE DEF t, text, behind, reader
<1> SUFFICES Round(reader) = Read(p, c, n, g, "waits")
  BY DEF reader
<1>6. CASE c = Len(ms)
  <2>1. blanks = {}
    <3>1. Len(rest) = 0 /\ rest \in Seq(Token)
      BY <1>2, <1>3, <1>6, Zenon
    <3> HIDE DEF rest
    <3>2. DOMAIN rest = {}
      BY <3>1
    <3> QED BY <3>2
  <2> HIDE DEF blanks, end, lengths, length, rest
  <2> QED BY <1>4, <1>5, <2>1
<1>7. CASE c < Len(ms)
  <2>1. /\ k \in 1 .. Len(ms) /\ k \in Nat /\ m \in Message /\ k \in DOMAIN ms
        /\ c \in 0 .. Len(ms) - 1
    <3>1. c \in 0 .. Len(ms)
      OBVIOUS
    <3> HIDE DEF ms
    <3>2. k \in 1 .. Len(ms) /\ k \in Nat /\ k \in DOMAIN ms /\ c \in 0 .. Len(ms) - 1
      BY <1>1, <1>7, <3>1
    <3> QED BY <1>1, <3>2
  <2>2. u \in Nat \ {0} /\ m.bytes = u
    BY <2>1, FramingAssumption DEF Plain
  <2>3. n < e + 2 + u
    <3>1. EndAt(p, ms, k) = e + 2 + u
      BY <1>1, <2>1, UptoIs
    <3> QED BY <1>7, <3>1
  <2>4. /\ Frame(p, k, m)[1] = <<"length", u>> /\ Frame(p, k, m)[2] = <<"blank">>
    <3> DEFINE f == Frame(p, k, m)
    <3>1. f[1] = <<"length", m.bytes>> /\ f[2] = <<"blank">>
      <4> HIDE DEF k, m
      <4> QED BY <2>1, FrameIs
    <3> HIDE DEF f, u
    <3> QED BY <2>2, <3>1, Zenon DEF f, u
  <2>5. /\ rest \in Seq(Token) /\ Len(rest) \in Nat /\ Len(rest) < 2 + u
        /\ \A i \in 1 .. Len(rest) : rest[i] = Frame(p, k, m)[i]
    <3> HIDE DEF rest, k, m, u, e, ms
    <3>1. Len(t) < 2 + u
      BY <1>2, <2>2, <2>3
    <3>2. \A i \in 1 .. Len(t) : i <= 2 + u
      BY <1>2, <2>2, <3>1
    <3> QED BY <1>2, <1>3, <1>7, <3>1, <3>2, Zenon
  <2> DEFINE f == Frame(p, k, m)
  <2> HIDE DEF rest, k, m, u, e, ms, f
  <2>6. CASE Len(rest) < 2
    <3>1. blanks = {}
      <4> SUFFICES ASSUME NEW i \in DOMAIN rest, rest[i][1] = "blank" PROVE FALSE
        OBVIOUS
      <4>1. i = 1 /\ i \in 1 .. Len(rest)
        BY <2>5, <2>6
      <4>2. rest[i] = <<"length", u>>
        <5>1. rest[i] = f[i]
          BY <2>5, <4>1 DEF f
        <5> QED BY <2>4, <4>1, <5>1, Zenon DEF f
      <4> QED BY <4>2
    <3> HIDE DEF blanks, end, lengths, length
    <3> QED BY <1>4, <1>5, <3>1
  <2>7. CASE ~(Len(rest) < 2)
    <3>1. /\ rest[1] = <<"length", u>> /\ rest[2] = <<"blank">> /\ Len(rest) >= 2
      <4>1. 1 \in 1 .. Len(rest) /\ 2 \in 1 .. Len(rest) /\ Len(rest) >= 2
        BY <2>5, <2>7
      <4>2. rest[1] = f[1] /\ rest[2] = f[2]
        BY <2>5, <4>1 DEF f
      <4> QED BY <2>4, <4>1, <4>2, Zenon DEF f
    <3>2. blanks # {} /\ end = 2 /\ lengths # {} /\ length = u
      <4>1. /\ blanks # {} /\ Min(blanks) = 2
            /\ {i \in 1 .. 2 : rest[i][1] = "length"} # {}
            /\ rest[Min({i \in 1 .. 2 : rest[i][1] = "length"})][2] = u
        BY <2>5, <3>1, HeaderIs
      <4> QED BY <4>1, Zenon
    <3> HIDE DEF blanks, end, lengths, length
    <3>3. ~Complete(rest, end, length)
      BY <2>2, <2>5, <3>2 DEF Complete
    <3> QED BY <1>4, <1>5, <3>2, <3>3
  <2> QED BY <2>6, <2>7
<1>8. c = Len(ms) \/ c < Len(ms)
  <2>1. c \in 0 .. Len(ms)
    OBVIOUS
  <2> HIDE DEF ms
  <2> QED BY <1>1, <2>1
<1> QED BY <1>6, <1>7, <1>8

\* Each frame ends behind the one before.
LEMMA EndsGrow ==
  ASSUME NEW p \in Server, NEW ms \in Seq(Message)
  PROVE  \A i, j \in 0 .. Len(ms) : i <= j => EndAt(p, ms, i) + (j - i) <= EndAt(p, ms, j)
<1> DEFINE N == Len(ms)
           e == [n \in 0 .. N |-> EndAt(p, ms, n)]
           S == {j \in Nat : j <= N => \A i \in 0 .. j : e[i] + (j - i) <= e[j]}
<1>1. N \in Nat /\ \A n \in 1 .. N : ms[n] \in Message
  OBVIOUS
<1>2. \A n \in 0 .. N : e[n] = EndAt(p, ms, n) /\ e[n] \in Nat
  BY UptoIs
<1>3. ASSUME NEW n \in 0 .. N - 1 PROVE e[n] < e[n + 1]
  <2>1. EndAt(p, ms, n + 1) = EndAt(p, ms, n) + 2 + ms[n + 1].units
    BY UptoIs
  <2>2. n \in 0 .. N /\ n + 1 \in 0 .. N /\ n + 1 \in 1 .. N
    BY <1>1
  <2>3. ms[n + 1].units \in Nat
    BY <1>1, <2>2, FramingAssumption
  <2> DEFINE u == ms[n + 1].units
  <2> HIDE DEF u, N, e
  <2>4. e[n + 1] = e[n] + 2 + u /\ u \in Nat /\ e[n] \in Nat
    BY <1>2, <2>1, <2>2, <2>3, Zenon DEF u
  <2> QED BY <2>4
<1> HIDE DEF e, N
<1>4. 0 \in S
  BY <1>1, <1>2
<1>5. ASSUME NEW j \in Nat, j \in S PROVE j + 1 \in S
  <2> SUFFICES ASSUME j + 1 <= N, NEW i \in 0 .. j + 1 PROVE e[i] + (j + 1 - i) <= e[j + 1]
    OBVIOUS
  <2>1. j \in 0 .. N - 1 /\ j \in 0 .. N /\ j + 1 \in 0 .. N /\ i \in 0 .. N
    BY <1>1
  <2>2. e[j] < e[j + 1] /\ e[j] \in Nat /\ e[j + 1] \in Nat /\ e[i] \in Nat
    BY <1>2, <1>3, <2>1
  <2>3. CASE i = j + 1
    BY <2>2, <2>3
  <2>4. CASE i # j + 1
    <3>1. i \in 0 .. j
      BY <2>4
    <3>2. e[i] + (j - i) <= e[j]
      BY <1>1, <1>5, <3>1
    <3> QED BY <2>2, <3>1, <3>2
  <2> QED BY <2>3, <2>4
<1> HIDE DEF S
<1>6. Nat \subseteq S
  BY <1>4, <1>5, Induction
<1>7. ASSUME NEW i \in 0 .. N, NEW j \in 0 .. N, i <= j PROVE e[i] + (j - i) <= e[j]
  <2>1. j \in Nat /\ j <= N /\ i \in 0 .. j
    BY <1>1, <1>7
  <2> QED BY <1>6, <2>1 DEF S
<1> QED BY <1>2, <1>7 DEF N

\* The numbers of the frames of p behind the first c.
Gained(p, c, j) == [i \in 1 .. j |-> <<p, c + i>>]

Named == Server \X Nat

GainsNext(p, c, j, g) ==
  Append(g \o Gained(p, c, j), <<p, c + j + 1>>) = g \o Gained(p, c, j + 1)

LEMMA GainedSeq ==
  ASSUME NEW p \in Server, NEW c \in Nat, NEW j \in Nat
  PROVE  Gained(p, c, j) \in Seq(Named) /\ Len(Gained(p, c, j)) = j
<1> DEFINE f == [i \in 1 .. j |-> <<p, c + i>>]
<1>1. \A i \in 1 .. j : <<p, c + i>> \in Named
  BY DEF Named
<1>2. f \in [1 .. j -> Named]
  <2> HIDE DEF Named
  <2> QED BY <1>1
<1>3. DOMAIN f = 1 .. j
  OBVIOUS
<1> HIDE DEF f
<1>4. f \in Seq(Named) /\ Len(f) = j
  BY <1>2, <1>3
<1> QED BY <1>4 DEF f, Gained

LEMMA GainedIs ==
  ASSUME NEW p \in Server, NEW c \in Nat, NEW j \in Nat, NEW g \in Seq(Named)
  PROVE  /\ Gained(p, c, j) \in Seq(Named) /\ Len(Gained(p, c, j)) = j
         /\ g \o Gained(p, c, 0) = g
         /\ GainsNext(p, c, j, g)
<1> DEFINE a == Gained(p, c, j)
           b == Gained(p, c, j + 1)
           z == Gained(p, c, 0)
           x == <<p, c + j + 1>>
<1>1. x \in Named
  BY DEF Named
<1>2. a \in Seq(Named) /\ Len(a) = j
  BY GainedSeq
<1>3. b \in Seq(Named) /\ Len(b) = j + 1
  <2> DEFINE l == j + 1
  <2>1. l \in Nat
    OBVIOUS
  <2> HIDE DEF l
  <2>2. Gained(p, c, l) \in Seq(Named) /\ Len(Gained(p, c, l)) = l
    BY <2>1, GainedSeq
  <2> QED BY <2>2 DEF l
<1>4. z \in Seq(Named) /\ Len(z) = 0
  BY DEF Gained
<1>5. \A i \in 1 .. j : b[i] = a[i]
  BY DEF Gained
<1>6. b[j + 1] = x
  <2>1. j + 1 \in 1 .. j + 1 /\ c + (j + 1) = c + j + 1
    OBVIOUS
  <2> QED BY <2>1 DEF Gained
<1> HIDE DEF a, b, z, x
<1>7. g \o z = g
  BY <1>4
<1>8. Append(g \o a, x) = g \o b
  BY <1>1, <1>2, <1>3, <1>5, <1>6
<1> QED BY <1>2, <1>7, <1>8 DEF a, b, z, x, GainsNext

\* The frames up to the k-th are whole, and the next is not.
Reaches(p, k, n) ==
  LET ms == written[p]
  IN /\ k \in 0 .. Len(ms) /\ n \in EndAt(p, ms, k) .. Len(Stream(p, ms))
     /\ k < Len(ms) => n < EndAt(p, ms, k + 1)

\* The reader after j rounds over what has arrived behind the first c frames.
AfterRounds(p, c, k, n, g, j) ==
  IF c + j <= k THEN Read(p, c + j, n, g \o Gained(p, c, j), "reads")
  ELSE Read(p, k, n, g \o Gained(p, c, k - c), "waits")

LEMMA RoundsGoOn ==
  ASSUME FramesOK, Plain, NEW p \in Server, NEW k, NEW n, Reaches(p, k, n),
         NEW c \in 0 .. k, NEW g \in Seq(Named), NEW j \in Nat
  PROVE  LET before == AfterRounds(p, c, k, n, g, j)
         IN AfterRounds(p, c, k, n, g, j + 1) = IF before.at = "reads" THEN Round(before) ELSE before
<1> DEFINE ms == written[p]
           N == Len(ms)
           s == Stream(p, ms)
           e(i) == EndAt(p, ms, i)
           h == g \o Gained(p, c, j)
           before == AfterRounds(p, c, k, n, g, j)
           next == AfterRounds(p, c, k, n, g, j + 1)
<1> SUFFICES next = IF before.at = "reads" THEN Round(before) ELSE before
  BY Zenon
<1>1. ms \in Seq(Message) /\ N \in Nat
  BY DEF FramesOK
<1>2. k \in 0 .. N /\ n \in e(k) .. Len(s) /\ (k < N => n < e(k + 1))
  BY DEF Reaches
<1>3. k \in Nat /\ c \in Nat /\ c <= k /\ c + j \in Nat /\ k <= N
  <2> HIDE DEF ms, s, e, N
  <2> QED BY <1>1, <1>2
<1>4. CASE c + j < k
  <2>1. before = Read(p, c + j, n, h, "reads")
    BY <1>3, <1>4 DEF AfterRounds
  <2>2. next = Read(p, c + (j + 1), n, g \o Gained(p, c, j + 1), "reads")
    BY <1>3, <1>4 DEF AfterRounds
  <2>3. c + j \in 0 .. N - 1 /\ c + (j + 1) = (c + j) + 1 /\ c + j + 1 \in 0 .. N /\ c + j + 1 <= k
    <3> HIDE DEF N
    <3> QED BY <1>1, <1>2, <1>3, <1>4
  <2>4. n \in e(c + j + 1) .. Len(s)
    <3> DEFINE a == e(c + j + 1)
               b == e(k)
               l == Len(s)
    <3>1. a + (k - (c + j + 1)) <= b
      BY <1>1, <1>2, <2>3, EndsGrow
    <3>2. a \in Nat /\ b \in Nat
      BY <1>1, <1>2, <2>3, UptoIs
    <3>3. s \in Seq(Token) /\ l \in Nat
      BY <1>1, StreamIs
    <3>4. n \in b .. l
      BY <1>2
    <3> HIDE DEF a, b, l, N
    <3>5. n \in a .. l
      BY <1>3, <2>3, <3>1, <3>2, <3>3, <3>4
    <3> QED BY <3>5 DEF a, l
  <2>5. Round(Read(p, c + j, n, h, "reads")) = Read(p, c + j + 1, n, Append(h, <<p, c + j + 1>>), "reads")
    <3> DEFINE i == c + j
    <3>1. i \in 0 .. Len(written[p]) - 1 /\ n \in EndAt(p, written[p], i + 1) .. Len(Stream(p, written[p]))
      BY <2>3, <2>4
    <3> HIDE DEF i, h
    <3>2. Round(Read(p, i, n, h, "reads")) = Read(p, i + 1, n, Append(h, <<p, i + 1>>), "reads")
      BY <3>1, RoundReads
    <3> QED BY <3>2 DEF i
  <2>6. Append(h, <<p, c + j + 1>>) = g \o Gained(p, c, j + 1)
    <3>1. GainsNext(p, c, j, g)
      BY <1>3, GainedIs, Zenon
    <3> QED BY <3>1, Zenon DEF GainsNext
  <2>7. before.at = "reads"
    BY <2>1 DEF Read
  <2> HIDE DEF before, next, h
  <2> QED BY <2>1, <2>2, <2>3, <2>5, <2>6, <2>7
<1>5. CASE c + j = k
  <2>1. before = Read(p, k, n, h, "reads")
    BY <1>3, <1>5 DEF AfterRounds
  <2>2. next = Read(p, k, n, g \o Gained(p, c, k - c), "waits") /\ k - c = j
    <3>1. ~(c + (j + 1) <= k) /\ k - c = j
      BY <1>3, <1>5
    <3> QED BY <3>1 DEF AfterRounds
  <2>3. Round(Read(p, k, n, h, "reads")) = Read(p, k, n, h, "waits")
    <3> HIDE DEF h
    <3> QED BY <1>2, RoundWaits
  <2>4. before.at = "reads"
    BY <2>1 DEF Read
  <2> HIDE DEF before, next
  <2> QED BY <2>1, <2>2, <2>3, <2>4
<1>6. CASE c + j > k
  <2>1. before = Read(p, k, n, g \o Gained(p, c, k - c), "waits")
    <3>1. ~(c + j <= k)
      BY <1>3, <1>6
    <3> QED BY <3>1 DEF AfterRounds
  <2>2. next = Read(p, k, n, g \o Gained(p, c, k - c), "waits")
    <3>1. ~(c + (j + 1) <= k)
      BY <1>3, <1>6
    <3> QED BY <3>1 DEF AfterRounds
  <2>3. before.at = "waits"
    BY <2>1 DEF Read
  <2> HIDE DEF before, next
  <2> QED BY <2>1, <2>2, <2>3
<1>7. c + j < k \/ c + j = k \/ c + j > k
  BY <1>3
<1> QED BY <1>4, <1>5, <1>6, <1>7

\* The reader takes the whole frames from the buffer and leaves the rest.
LEMMA ReadFramesIs ==
  ASSUME FramesOK, Plain, NEW p \in Server, NEW k, NEW n, Reaches(p, k, n),
         NEW c \in 0 .. k, got \in Seq(Named)
  PROVE  ReadFrames(LeftOver(p, written[p], c, n)) = Read(p, k, n, got \o Gained(p, c, k - c), "waits")
<1> DEFINE ms == written[p]
           N == Len(ms)
           rest == LeftOver(p, ms, c, n)
           R == Len(rest) + 1
           start == [rest |-> rest, got |-> got, at |-> "reads"]
           step(before) == IF before.at = "reads" THEN Round(before) ELSE before
           body(f) == [j \in 0 .. R |-> IF j = 0 THEN start
                                        ELSE LET before == f[j - 1]
                                             IN IF before.at = "reads" THEN Round(before) ELSE before]
           A == [j \in Nat |-> AfterRounds(p, c, k, n, got, j)]
           f == [j \in 0 .. R |-> A[j]]
           L == CHOOSE h : h = body(h)
<1>1. ReadFrames(rest) = L[R]
  <2> HIDE DEF rest
  <2> QED BY DEF ReadFrames
<1>2. ms \in Seq(Message) /\ N \in Nat
  BY DEF FramesOK
<1>3. k \in 0 .. N /\ n \in EndAt(p, ms, k) .. Len(Stream(p, ms))
  BY DEF Reaches
<1>4. c \in 0 .. N /\ c \in Nat /\ c <= k /\ k \in Nat /\ k - c \in Nat
  <2> HIDE DEF N, ms
  <2> QED BY <1>2, <1>3
<1>5. R \in Nat /\ k - c < R
  <2> DEFINE a == EndAt(p, ms, c)
             b == EndAt(p, ms, k)
             l == Len(Stream(p, ms))
  <2>1. a + (k - c) <= b
    BY <1>2, <1>3, <1>4, EndsGrow
  <2>2. a \in Nat /\ b \in Nat
    BY <1>2, <1>3, <1>4, UptoIs
  <2>3. l \in Nat
    <3>1. Stream(p, ms) \in Seq(Token)
      BY <1>2, StreamIs
    <3> QED BY <3>1
  <2>4. n \in b .. l
    BY <1>3
  <2> HIDE DEF a, b, l, rest
  <2>5. n \in a .. l /\ k - c <= n - a
    BY <1>4, <2>1, <2>2, <2>3, <2>4
  <2>6. Len(rest) = n - a /\ Len(rest) \in Nat
    <3> HIDE DEF ms
    <3> QED BY <1>2, <1>4, <2>5, LeftOverIs DEF a, l, rest
  <2> QED BY <1>4, <2>5, <2>6
<1>6. A[0] = start
  <2>1. got \o Gained(p, c, 0) = got
    BY <1>4, GainedIs
  <2>2. A[0] = Read(p, c + 0, n, got \o Gained(p, c, 0), "reads")
    BY <1>4 DEF AfterRounds
  <2>3. c + 0 = c
    BY <1>4
  <2> HIDE DEF A
  <2> QED BY <2>1, <2>2, <2>3 DEF Read
<1>7. ASSUME NEW j \in Nat PROVE A[j + 1] = step(A[j])
  <2>1. AfterRounds(p, c, k, n, got, j + 1) = step(AfterRounds(p, c, k, n, got, j))
    BY RoundsGoOn
  <2>2. A[j + 1] = AfterRounds(p, c, k, n, got, j + 1) /\ A[j] = AfterRounds(p, c, k, n, got, j)
    OBVIOUS
  <2> HIDE DEF A
  <2> QED BY <2>1, <2>2
<1>8. A[R] = Read(p, k, n, got \o Gained(p, c, k - c), "waits")
  <2> HIDE DEF R
  <2>1. ~(c + R <= k)
    BY <1>4, <1>5
  <2> QED BY <1>5, <2>1 DEF AfterRounds
<1> HIDE DEF A, R, start
<1>9. f = body(f)
  <2>1. ASSUME NEW j \in 0 .. R PROVE f[j] = IF j = 0 THEN start ELSE step(f[j - 1])
    <3>1. CASE j = 0
      BY <1>6, <3>1
    <3>2. CASE j # 0
      <4>1. j - 1 \in Nat /\ j - 1 \in 0 .. R /\ (j - 1) + 1 = j
        BY <1>5, <3>2
      <4>2. A[j] = step(A[j - 1])
        BY <1>7, <4>1
      <4>3. f[j] = A[j] /\ f[j - 1] = A[j - 1]
        BY <4>1
      <4> HIDE DEF f
      <4> QED BY <3>2, <4>2, <4>3
    <3> QED BY <3>1, <3>2
  <2>2. f = [j \in 0 .. R |-> f[j]]
    OBVIOUS
  <2> HIDE DEF f
  <2> QED BY <2>1, <2>2
<1>10. L = body(L)
  <2> HIDE DEF body, f
  <2> QED BY <1>9
<1> HIDE DEF L, f
<1>11. \A j \in 0 .. R : L[j] = IF j = 0 THEN start ELSE step(L[j - 1])
  BY <1>10
<1> DEFINE S == {j \in Nat : j <= R => L[j] = A[j]}
<1>12. 0 \in S
  BY <1>5, <1>6, <1>11
<1>13. ASSUME NEW j \in Nat, j \in S PROVE j + 1 \in S
  <2> SUFFICES ASSUME j + 1 <= R PROVE L[j + 1] = A[j + 1]
    OBVIOUS
  <2>1. j + 1 \in 0 .. R /\ j + 1 # 0 /\ (j + 1) - 1 = j /\ j <= R
    BY <1>5
  <2>2. L[j + 1] = step(L[j])
    BY <1>11, <2>1
  <2>3. L[j] = A[j]
    BY <1>13, <2>1
  <2> QED BY <1>7, <2>2, <2>3
<1> HIDE DEF S
<1>14. Nat \subseteq S
  BY <1>12, <1>13, Induction
<1>15. L[R] = A[R]
  <2>1. R \in S /\ R <= R
    BY <1>5, <1>14
  <2> QED BY <2>1 DEF S
<1> QED BY <1>1, <1>8, <1>15

-----------------------------------------------------------------------------
\* What is picked does not depend on what stands behind it.
LEMMA PickKeeps ==
  ASSUME NEW S, NEW seq \in Seq(S), NEW x \in S, NEW at \in SUBSET DOMAIN seq
  PROVE  Pick(Append(seq, x), at) = Pick(seq, at)
<1> DEFINE more == Append(seq, x)
           c == Cardinality(at)
           a == Pick(seq, at)
           b == Pick(more, at)
<1>1. more \in Seq(S) /\ at \in SUBSET DOMAIN more /\ \A i \in DOMAIN seq : more[i] = seq[i]
  OBVIOUS
<1>2. a \in Seq(S) /\ Len(a) = c /\ \A n \in 1 .. c : Nth(at, n) \in at /\ a[n] = seq[Nth(at, n)]
  BY PickIs
<1> HIDE DEF more
<1>3. b \in Seq(S) /\ Len(b) = c /\ \A n \in 1 .. c : b[n] = more[Nth(at, n)]
  BY <1>1, PickIs
<1> HIDE DEF a, b, c
<1>4. \A n \in 1 .. c : b[n] = a[n]
  BY <1>1, <1>2, <1>3
<1>5. a = b
  BY <1>2, <1>3, <1>4, SeqEqual
<1> QED BY <1>5 DEF a, b, more

\* The places of the messages of a process.
Of(seq, p) == {i \in DOMAIN seq : seq[i][1] = p}

LEMMA OneMoreOf ==
  ASSUME NEW h \in Seq(Named), NEW x \in Named, NEW q
  PROVE  Pick(Append(h, x), Of(Append(h, x), q))
           = IF x[1] = q THEN Append(Pick(h, Of(h, q)), x) ELSE Pick(h, Of(h, q))
<1> DEFINE more == Append(h, x)
           n == Len(h) + 1
           at == Of(h, q)
           out == Pick(more, at)
<1>1. /\ more \in Seq(Named) /\ DOMAIN h = 1 .. Len(h) /\ Len(h) \in Nat
      /\ DOMAIN more = 1 .. n /\ more[n] = x /\ \A i \in 1 .. Len(h) : more[i] = h[i]
  OBVIOUS
<1>2. at \in SUBSET DOMAIN h /\ \A i \in at : i \in 1 .. Len(h)
  BY <1>1 DEF Of
<1> HIDE DEF at
<1>3. out = Pick(h, at)
  BY <1>2, PickKeeps
<1> HIDE DEF more
<1>4. CASE x[1] = q
  <2>1. Of(more, q) = at \cup {n}
    BY <1>1, <1>4 DEF Of, at
  <2>2. at \in SUBSET DOMAIN more /\ n \in DOMAIN more /\ \A i \in at : i < n
    BY <1>1, <1>2
  <2>3. Pick(more, at \cup {n}) = Append(Pick(more, at), more[n])
    <3> HIDE DEF n
    <3> QED BY <1>1, <2>2, PickAppend
  <2>4. more[n] = x
    BY <1>1
  <2> HIDE DEF n
  <2> QED BY <1>3, <1>4, <2>1, <2>3, <2>4, Zenon DEF at, more
<1>5. CASE x[1] # q
  <2>1. Of(more, q) = at
    BY <1>1, <1>5 DEF Of, at
  <2> QED BY <1>3, <1>5, <2>1, Zenon DEF at, more
<1> QED BY <1>4, <1>5

\* What the reader takes of one process goes on behind what it had of that one,
\* and leaves the others alone.
GoesOn(p, c, h, q, k) ==
  \A j \in Nat : LET more == h \o Gained(p, c, j)
                 IN /\ more \in Seq(Named)
                    /\ Pick(more, Of(more, q)) = Gained(q, 0, IF q = p THEN c + j ELSE k)

LEMMA PickGained ==
  ASSUME NEW p \in Server, NEW c \in Nat, NEW h \in Seq(Named), NEW q \in Server,
         NEW k \in Nat, Pick(h, Of(h, q)) = Gained(q, 0, k), q = p => k = c
  PROVE  GoesOn(p, c, h, q, k)
<1> DEFINE H == [j \in Nat |-> h \o Gained(p, c, j)]
           P == [j \in Nat |-> Pick(H[j], Of(H[j], q))]
           G == [j \in Nat |-> Gained(q, 0, j)]
           S == {j \in Nat : P[j] = G[IF q = p THEN c + j ELSE k]}
<1>1. \A j \in Nat : H[j] \in Seq(Named)
  <2> SUFFICES ASSUME NEW j \in Nat PROVE h \o Gained(p, c, j) \in Seq(Named)
    OBVIOUS
  <2> DEFINE a == Gained(p, c, j)
  <2>1. a \in Seq(Named)
    BY GainedIs
  <2> HIDE DEF a
  <2>2. h \o a \in Seq(Named)
    BY <2>1
  <2> QED BY <2>2 DEF a
<1>13. \A j \in Nat : H[j] = h \o Gained(p, c, j)
  OBVIOUS
<1>2. \A j \in Nat : H[j + 1] = Append(H[j], <<p, c + j + 1>>)
  <2> SUFFICES ASSUME NEW j \in Nat PROVE H[j + 1] = Append(H[j], <<p, c + j + 1>>)
    OBVIOUS
  <2>1. GainsNext(p, c, j, h)
    BY GainedIs, Zenon
  <2> HIDE DEF H
  <2>3. j + 1 \in Nat
    OBVIOUS
  <2>2. H[j + 1] = h \o Gained(p, c, j + 1) /\ H[j] = h \o Gained(p, c, j)
    BY <1>13, <2>3, Zenon
  <2> QED BY <2>1, <2>2, Zenon DEF GainsNext
<1>3. H[0] = h
  BY GainedIs
<1> HIDE DEF H
<1>4. \A j \in Nat : P[j] = Pick(H[j], Of(H[j], q))
  OBVIOUS
<1>6. \A j \in Nat : G[j] = Gained(q, 0, j)
  OBVIOUS
<1> HIDE DEF P, G
<1>5. ASSUME NEW j \in Nat PROVE G[j + 1] = Append(G[j], <<q, j + 1>>)
  <2>1. GainsNext(q, 0, j, <<>>)
    <3>1. <<>> \in Seq(Named) /\ 0 \in Nat
      OBVIOUS
    <3> QED BY <3>1, GainedIs, Zenon
  <2> DEFINE a == Gained(q, 0, j)
             b == Gained(q, 0, j + 1)
  <2>2. a \in Seq(Named) /\ b \in Seq(Named)
    <3>1. 0 \in Nat /\ j + 1 \in Nat /\ <<>> \in Seq(Named)
      OBVIOUS
    <3> QED BY <3>1, GainedIs, Zenon
  <2> HIDE DEF a, b
  <2>3. <<>> \o a = a /\ <<>> \o b = b /\ 0 + j + 1 = j + 1 /\ j + 1 \in Nat
    BY <2>2
  <2>4. b = Append(a, <<q, j + 1>>)
    BY <2>1, <2>3, Zenon DEF GainsNext, a, b
  <2>5. G[j] = a /\ G[j + 1] = b
    BY <1>6, <2>3, Zenon DEF a, b
  <2> QED BY <2>4, <2>5, Zenon
<1>7. 0 \in S
  <2>1. P[0] = Gained(q, 0, k)
    BY <1>3, <1>4
  <2>2. (IF q = p THEN c + 0 ELSE k) = k
    OBVIOUS
  <2> QED BY <1>6, <2>1, <2>2
<1>8. ASSUME NEW j \in Nat, j \in S PROVE j + 1 \in S
  <2> DEFINE x == <<p, c + j + 1>>
  <2>1. x \in Named /\ x[1] = p
    BY DEF Named
  <2>7. j + 1 \in Nat
    OBVIOUS
  <2>2. H[j] \in Seq(Named) /\ H[j + 1] = Append(H[j], x)
    BY <1>1, <1>2, Zenon
  <2>3. P[j + 1] = IF x[1] = q THEN Append(P[j], x) ELSE P[j]
    <3> DEFINE hj == H[j]
    <3> HIDE DEF x, hj
    <3>1. hj \in Seq(Named) /\ H[j + 1] = Append(hj, x) /\ x \in Named
      BY <2>1, <2>2, Zenon DEF hj
    <3>2. Pick(Append(hj, x), Of(Append(hj, x), q))
            = IF x[1] = q THEN Append(Pick(hj, Of(hj, q)), x) ELSE Pick(hj, Of(hj, q))
      BY <3>1, OneMoreOf
    <3>3. P[j] = Pick(hj, Of(hj, q)) /\ P[j + 1] = Pick(H[j + 1], Of(H[j + 1], q))
      BY <1>4, <2>7, Zenon DEF hj
    <3> QED BY <3>1, <3>2, <3>3, Zenon
  <2>4. P[j] = G[IF q = p THEN c + j ELSE k]
    BY <1>8
  <2>5. CASE q = p
    <3>1. c + j \in Nat /\ c + (j + 1) = (c + j) + 1
      OBVIOUS
    <3>2. G[(c + j) + 1] = Append(G[c + j], <<q, (c + j) + 1>>)
      BY <1>5, <3>1
    <3>3. P[j + 1] = Append(G[c + j], x)
      BY <2>1, <2>3, <2>4, <2>5, Zenon
    <3>4. P[j + 1] = G[c + (j + 1)]
      BY <2>5, <3>1, <3>2, <3>3
    <3> QED BY <2>5, <3>4
  <2>6. CASE q # p
    <3>1. P[j + 1] = P[j]
      BY <2>1, <2>3, <2>6, Zenon
    <3> QED BY <2>4, <2>6, <3>1
  <2> QED BY <2>5, <2>6
<1> HIDE DEF S
<1>9. Nat \subseteq S
  BY <1>7, <1>8, Induction
<1> SUFFICES ASSUME NEW j \in Nat
             PROVE  LET more == h \o Gained(p, c, j)
                    IN /\ more \in Seq(Named)
                       /\ Pick(more, Of(more, q)) = Gained(q, 0, IF q = p THEN c + j ELSE k)
  BY Zenon DEF GoesOn
<1>10. H[j] = h \o Gained(p, c, j)
  BY DEF H
<1>11. P[j] = G[IF q = p THEN c + j ELSE k] /\ (IF q = p THEN c + j ELSE k) \in Nat
  BY <1>9 DEF S
<1> QED BY <1>1, <1>4, <1>6, <1>10, <1>11

\* Each place is behind some number of whole frames and before the next.
LEMMA ReachesSome ==
  ASSUME FramesOK, NEW p \in Server, NEW n \in 0 .. Len(Stream(p, written[p]))
  PROVE  \E k \in 0 .. Len(written[p]) : Reaches(p, k, n)
<1> DEFINE ms == written[p]
           N == Len(ms)
           l == Len(Stream(p, ms))
           e == [i \in 0 .. N |-> EndAt(p, ms, i)]
           T == {j \in 0 .. N : j < N => n < e[j + 1]}
<1>1. ms \in Seq(Message) /\ N \in Nat
  BY DEF FramesOK
<1>2. e[0] = 0 /\ l \in Nat /\ n \in 0 .. l
  <2>1. Stream(p, ms) \in Seq(Token)
    BY <1>1, StreamIs
  <2>2. 0 \in 0 .. N /\ EndAt(p, ms, 0) = 0
    BY <1>1, UptoIs
  <2> QED BY <2>1, <2>2
<1>3. \A i \in 0 .. N : e[i] = EndAt(p, ms, i) /\ e[i] \in Nat
  BY <1>1, UptoIs
<1> HIDE DEF e, l
<1>4. N \in T /\ T \in SUBSET Nat
  <2> HIDE DEF N
  <2> QED BY <1>1
<1> HIDE DEF T
<1>5. PICK k \in T : \A m \in T : ~(m < k)
  BY <1>4, Least
<1> HIDE DEF N, ms
<1>6. k \in 0 .. N /\ k \in Nat /\ (k < N => n < e[k + 1])
  BY <1>1 DEF T
<1>7. e[k] <= n
  <2>1. CASE k = 0
    BY <1>2, <2>1
  <2>2. CASE k # 0
    <3>1. k - 1 \in 0 .. N /\ k - 1 < N /\ k - 1 < k /\ (k - 1) + 1 = k
      BY <1>1, <1>6, <2>2
    <3>2. k - 1 \notin T
      BY <1>5, <3>1
    <3>3. ~(n < e[k])
      BY <3>1, <3>2 DEF T
    <3> QED BY <1>2, <1>3, <1>6, <3>3
  <2> QED BY <2>1, <2>2
<1>8. n \in EndAt(p, ms, k) .. l
  BY <1>2, <1>3, <1>6, <1>7
<1>9. k < N => n < EndAt(p, ms, k + 1)
  <2>1. k < N => k + 1 \in 0 .. N
    BY <1>1, <1>6
  <2> QED BY <1>3, <1>6, <2>1
<1> QED BY <1>6, <1>8, <1>9, Zenon DEF Reaches, l, N, ms

\* More arrives of more frames.
LEMMA ReachesGrow ==
  ASSUME FramesOK, NEW p \in Server, NEW k, NEW a, Reaches(p, k, a),
         NEW j \in 0 .. Len(written[p]), NEW b \in Nat, EndAt(p, written[p], j) <= a, a <= b
  PROVE  /\ k \in Nat /\ a \in Nat /\ j <= k /\ EndAt(p, written[p], k) <= b
         /\ \A i : Reaches(p, i, b) => k \in 0 .. i
<1> DEFINE ms == written[p]
           N == Len(ms)
           l == Len(Stream(p, ms))
           e == [i \in 0 .. N |-> EndAt(p, ms, i)]
<1>1. ms \in Seq(Message) /\ N \in Nat
  BY DEF FramesOK
<1>2. k \in 0 .. N /\ a \in EndAt(p, ms, k) .. l /\ (k < N => a < EndAt(p, ms, k + 1))
  BY DEF Reaches
<1>3. \A i \in 0 .. N : e[i] = EndAt(p, ms, i) /\ e[i] \in Nat
  BY <1>1, UptoIs
<1>4. \A m, i \in 0 .. N : m <= i => e[m] + (i - m) <= e[i]
  <2>1. \A m, i \in 0 .. N : m <= i => EndAt(p, ms, m) + (i - m) <= EndAt(p, ms, i)
    BY <1>1, EndsGrow
  <2> HIDE DEF e, N
  <2> QED BY <1>3, <2>1
<1>5. l \in Nat
  <2>1. Stream(p, ms) \in Seq(Token)
    BY <1>1, StreamIs
  <2> QED BY <2>1
<1>6. j \in 0 .. N /\ EndAt(p, ms, j) <= a
  OBVIOUS
<1>7. ASSUME NEW i, Reaches(p, i, b)
      PROVE  i \in 0 .. N /\ b \in EndAt(p, ms, i) .. l /\ (i < N => b < EndAt(p, ms, i + 1))
  BY <1>7 DEF Reaches
<1> HIDE DEF ms, N, l, e
<1>8. /\ k \in Nat /\ a \in Nat /\ e[k] <= a /\ (k < N => a < e[k + 1] /\ k + 1 \in 0 .. N) /\ e[j] <= a
  <2>1. k < N => k + 1 \in 0 .. N
    BY <1>1, <1>2
  <2>2. e[k] = EndAt(p, ms, k) /\ e[k] \in Nat /\ e[j] = EndAt(p, ms, j)
    BY <1>2, <1>3, <1>6
  <2>3. k < N => e[k + 1] = EndAt(p, ms, k + 1)
    BY <1>3, <2>1
  <2> QED BY <1>2, <1>5, <1>6, <2>1, <2>2, <2>3
<1>9. j <= k
  <2> SUFFICES ASSUME k < j PROVE FALSE
    BY <1>6, <1>8
  <2>1. k < N /\ k + 1 <= j /\ k + 1 \in 0 .. N
    BY <1>1, <1>2, <1>6
  <2>2. e[k + 1] <= e[j]
    <3>1. e[k + 1] + (j - (k + 1)) <= e[j]
      BY <1>4, <1>6, <2>1
    <3> QED BY <1>3, <1>6, <1>8, <2>1, <3>1
  <2> QED BY <1>3, <1>6, <1>8, <2>1, <2>2
<1>10. e[k] <= b
  BY <1>2, <1>3, <1>8
<1>11. ASSUME NEW i, Reaches(p, i, b) PROVE k \in 0 .. i
  <2>1. i \in 0 .. N /\ b \in EndAt(p, ms, i) .. l /\ (i < N => b < EndAt(p, ms, i + 1))
    BY <1>7, <1>11
  <2> SUFFICES ASSUME i < k PROVE FALSE
    BY <1>8, <2>1
  <2>2. i < N /\ i + 1 <= k /\ i + 1 \in 0 .. N
    BY <1>1, <1>2, <2>1
  <2>3. b < e[i + 1]
    BY <1>3, <2>1, <2>2
  <2>4. e[i + 1] <= e[k]
    <3>1. e[i + 1] + (k - (i + 1)) <= e[k]
      BY <1>2, <1>4, <2>2
    <3> QED BY <1>2, <1>3, <1>8, <2>1, <2>2, <3>1
  <2> QED BY <1>2, <1>3, <1>10, <2>2, <2>3, <2>4
<1> QED BY <1>2, <1>3, <1>8, <1>9, <1>10, <1>11 DEF ms

\* The whole frames of a process are its first.
LEMMA WholeIs ==
  ASSUME FramesOK, NEW p \in Server, NEW k, Reaches(p, k, arrived[p])
  PROVE  Cardinality(Whole(p)) = k
<1> DEFINE ms == written[p]
           N == Len(ms)
           a == arrived[p]
<1>1. ms \in Seq(Message) /\ N \in Nat /\ DOMAIN ms = 1 .. N
  BY DEF FramesOK
<1>2. k \in 0 .. N /\ a \in EndAt(p, ms, k) .. Len(Stream(p, ms))
  BY DEF Reaches
<1>3. EndAt(p, ms, k) \in Nat /\ EndAt(p, ms, k) <= a /\ a \in Nat
  <2>1. EndAt(p, ms, k) \in Nat
    BY <1>1, <1>2, UptoIs
  <2>2. Stream(p, ms) \in Seq(Token)
    BY <1>1, StreamIs
  <2> DEFINE b == EndAt(p, ms, k)
             s == Stream(p, ms)
  <2>3. Len(s) \in Nat
    BY <2>2
  <2>4. b \in Nat /\ a \in b .. Len(s)
    BY <1>2, <2>1
  <2> HIDE DEF b, s, a
  <2>5. b <= a /\ a \in Nat
    BY <2>3, <2>4
  <2> QED BY <2>4, <2>5 DEF b
<1>4. \A n \in 1 .. N : EndOf(p, n) = EndAt(p, ms, n)
  BY DEF EndOf, EndAt, Upto
<1>5. ASSUME NEW n \in 1 .. N PROVE EndAt(p, ms, n) <= a <=> n <= k
  <2>1. n \in 0 .. N /\ EndAt(p, ms, n) \in Nat
    BY <1>1, UptoIs
  <2>2. EndAt(p, ms, n) <= a => n <= k
    <3> SUFFICES ASSUME EndAt(p, ms, n) <= a PROVE n <= k
      OBVIOUS
    <3>1. EndAt(p, written[p], n) <= a /\ a <= a /\ n \in 0 .. Len(written[p])
      BY <1>3, <2>1
    <3> HIDE DEF ms, N
    <3> QED BY <1>3, <3>1, ReachesGrow
  <2>3. n <= k => EndAt(p, ms, n) <= a
    <3> SUFFICES ASSUME n <= k PROVE EndAt(p, ms, n) <= a
      OBVIOUS
    <3>1. EndAt(p, ms, n) + (k - n) <= EndAt(p, ms, k)
      BY <1>1, <1>2, <2>1, EndsGrow
    <3> HIDE DEF ms, N, a
    <3> QED BY <1>1, <1>2, <1>3, <2>1, <3>1
  <2> QED BY <2>2, <2>3
<1>6. Whole(p) = 1 .. k
  <2>1. Whole(p) = {n \in 1 .. N : EndAt(p, ms, n) <= a}
    <3>1. Whole(p) = {n \in 1 .. N : EndOf(p, n) <= a}
      BY <1>1 DEF Whole
    <3> HIDE DEF ms, N, a
    <3> QED BY <1>4, <3>1
  <2> HIDE DEF ms, N, a
  <2>2. {n \in 1 .. N : EndAt(p, ms, n) <= a} = {n \in 1 .. N : n <= k}
    BY <1>5
  <2>3. {n \in 1 .. N : n <= k} = 1 .. k
    BY <1>1, <1>2
  <2> QED BY <2>1, <2>2, <2>3
<1>7. Cardinality(1 .. k) = k
  <2>1. k \in Nat
    <3> HIDE DEF ms, N
    <3> QED BY <1>1, <1>2
  <2>2. Cardinality(1 .. k) = IF 1 > k THEN 0 ELSE k - 1 + 1
    BY <2>1, FS_Interval
  <2> QED BY <2>1, <2>2
<1> QED BY <1>6, <1>7

\* Between two frames nothing is left in the buffer.
LEMMA BetweenFrames ==
  ASSUME FramesOK, NEW p \in Server, NEW k, NEW n \in Nat, Reaches(p, k, n), n \in Ends(p)
  PROVE  LeftOver(p, written[p], k, n) = <<>>
<1> DEFINE ms == written[p]
           N == Len(ms)
           s == Stream(p, ms)
<1>1. ms \in Seq(Message) /\ N \in Nat
  BY DEF FramesOK
<1>2. k \in 0 .. N
  BY DEF Reaches
<1>3. PICK j \in 0 .. N : n = EndAt(p, ms, j)
  BY DEF Ends, EndOf, EndAt, Upto
<1>4. k \in Nat /\ j <= k /\ EndAt(p, ms, k) <= n
  <2>1. EndAt(p, written[p], j) <= n /\ j \in 0 .. Len(written[p]) /\ n <= n
    BY <1>3
  <2> HIDE DEF ms, N
  <2> QED BY <2>1, ReachesGrow DEF ms
<1>5. EndAt(p, ms, j) + (k - j) <= EndAt(p, ms, k) /\ EndAt(p, ms, k) \in Nat
  BY <1>1, <1>2, <1>4, EndsGrow, UptoIs
<1>6. EndAt(p, ms, k) = n
  <2> HIDE DEF ms, N
  <2> QED BY <1>1, <1>3, <1>4, <1>5
<1>7. s \in Seq(Token)
  BY <1>1, StreamIs
<1>8. LeftOver(p, ms, k, n) = SubSeq(s, n + 1, n)
  BY <1>6 DEF LeftOver
<1> HIDE DEF ms, N, s
<1>9. SubSeq(s, n + 1, n) = <<>>
  BY <1>7
<1> QED BY <1>8, <1>9 DEF ms

\* What arrives goes behind what is left in the buffer.
LEMMA LeftOverMore ==
  ASSUME FramesOK, NEW p \in Server, NEW k, NEW a, Reaches(p, k, a),
         NEW b \in a + 1 .. Len(Stream(p, written[p]))
  PROVE  /\ LeftOver(p, written[p], k, a) \o SubSeq(Stream(p, written[p]), a + 1, b)
              = LeftOver(p, written[p], k, b)
         /\ a \in Nat /\ b \in Nat /\ a <= b /\ b \in 0 .. Len(Stream(p, written[p]))
<1> DEFINE ms == written[p]
           N == Len(ms)
           s == Stream(p, ms)
           e == EndAt(p, ms, k)
<1>1. ms \in Seq(Message) /\ N \in Nat
  BY DEF FramesOK
<1>2. k \in 0 .. N /\ a \in e .. Len(s)
  BY DEF Reaches
<1>3. e \in Nat /\ s \in Seq(Token)
  BY <1>1, <1>2, UptoIs, StreamIs
<1>4. b \in a + 1 .. Len(s)
  OBVIOUS
<1>5. LeftOver(p, ms, k, a) = SubSeq(s, e + 1, a) /\ LeftOver(p, ms, k, b) = SubSeq(s, e + 1, b)
  BY DEF LeftOver
<1> HIDE DEF ms, N, s, e
<1>6. Len(s) \in Nat /\ a \in Nat /\ b \in Nat /\ e <= a /\ a <= b /\ b <= Len(s)
  BY <1>2, <1>3, <1>4
<1> DEFINE x == SubSeq(s, e + 1, a)
           y == SubSeq(s, a + 1, b)
           z == SubSeq(s, e + 1, b)
<1>7. x \in Seq(Token) /\ Len(x) = a - e /\ \A i \in 1 .. a - e : x[i] = s[e + i]
  BY <1>3, <1>6
<1>8. y \in Seq(Token) /\ Len(y) = b - a /\ \A i \in 1 .. b - a : y[i] = s[a + i]
  BY <1>3, <1>6
<1>9. z \in Seq(Token) /\ Len(z) = b - e /\ \A i \in 1 .. b - e : z[i] = s[e + i]
  BY <1>3, <1>6
<1> HIDE DEF x, y, z
<1>10. x \o y \in Seq(Token) /\ Len(x \o y) = b - e
  BY <1>3, <1>6, <1>7, <1>8
<1>11. ASSUME NEW i \in 1 .. b - e PROVE (x \o y)[i] = z[i]
  <2>1. CASE i <= a - e
    <3>1. i \in 1 .. Len(x) /\ i \in 1 .. a - e
      BY <1>3, <1>6, <1>7, <2>1
    <3>2. (x \o y)[i] = x[i]
      BY <1>7, <1>8, <3>1
    <3> QED BY <1>7, <1>9, <3>1, <3>2
  <2>2. CASE ~(i <= a - e)
    <3>1. i - (a - e) \in 1 .. b - a /\ a + (i - (a - e)) = e + i /\ i > Len(x) /\ i <= Len(x) + Len(y)
      BY <1>3, <1>6, <1>7, <1>8, <2>2
    <3>2. (x \o y)[i] = y[i - (a - e)]
      BY <1>3, <1>6, <1>7, <1>8, <3>1
    <3> QED BY <1>8, <1>9, <3>1, <3>2
  <2> QED BY <2>1, <2>2
<1>12. x \o y = z
  BY <1>9, <1>10, <1>11, SeqEqual
<1>13. b \in 0 .. Len(s)
  BY <1>6
<1>14. LeftOver(p, ms, k, a) \o SubSeq(s, a + 1, b) = LeftOver(p, ms, k, b)
  BY <1>5, <1>12, Zenon DEF x, y, z
<1> QED BY <1>6, <1>13, <1>14, Zenon DEF s, ms

\* One more message leaves everything before it where it is.
LEMMA StreamKeeps ==
  ASSUME NEW p \in Server, NEW ms \in Seq(Message), NEW m \in Message
  PROVE  LET more == Append(ms, m)
             l == Len(Stream(p, ms))
         IN /\ more \in Seq(Message) /\ Len(more) = Len(ms) + 1 /\ l \in Nat
            /\ \A i \in 0 .. Len(ms) : EndAt(p, more, i) = EndAt(p, ms, i)
            /\ l = EndAt(p, ms, Len(ms)) /\ l < EndAt(p, more, Len(ms) + 1)
            /\ Len(Stream(p, more)) = EndAt(p, more, Len(ms) + 1)
            /\ \A c \in 0 .. Len(ms) : \A n \in EndAt(p, ms, c) .. l :
                 LeftOver(p, more, c, n) = LeftOver(p, ms, c, n)
<1> DEFINE more == Append(ms, m)
           N == Len(ms)
           s == Stream(p, ms)
           t == Stream(p, more)
           f == Frame(p, N + 1, m)
           l == Len(s)
<1>1. more \in Seq(Message) /\ N \in Nat /\ Len(more) = N + 1 /\ N + 1 \in Nat
      /\ \A i \in 1 .. N : more[i] = ms[i]
  OBVIOUS
<1>2. \A i \in 0 .. N : SubSeq(more, 1, i) = SubSeq(ms, 1, i)
  <2> SUFFICES ASSUME NEW i \in 0 .. N PROVE SubSeq(more, 1, i) = SubSeq(ms, 1, i)
    OBVIOUS
  <2> HIDE DEF more, N
  <2>1. SubSeq(more, 1, i) = [j \in 1 .. i |-> more[j]]
    BY <1>1
  <2>2. SubSeq(ms, 1, i) = [j \in 1 .. i |-> ms[j]]
    BY <1>1 DEF N
  <2>3. \A j \in 1 .. i : more[j] = ms[j]
    BY <1>1
  <2> QED BY <2>1, <2>2, <2>3
<1>3. \A i \in 0 .. N : EndAt(p, more, i) = EndAt(p, ms, i)
  BY <1>2, Zenon DEF EndAt, Upto
<1>4. s \in Seq(Token) /\ t = s \o f
  BY <1>1, StreamMore
<1>5. f \in Seq(Token) /\ Len(f) \in Nat /\ Len(f) > 0
  <2> DEFINE n == N + 1
  <2>1. n \in Nat
    BY <1>1
  <2> HIDE DEF n
  <2>2. Frame(p, n, m) \in Seq(Token) /\ Len(Frame(p, n, m)) = 2 + m.units /\ m.units \in Nat
    BY <2>1, FrameIs
  <2>3. Frame(p, n, m) \in Seq(Token) /\ Len(Frame(p, n, m)) \in Nat /\ Len(Frame(p, n, m)) > 0
    BY <2>2
  <2> QED BY <2>3 DEF n
<1>6. l = EndAt(p, ms, N) /\ t \in Seq(Token) /\ Len(t) = EndAt(p, more, N + 1)
  <2>1. Upto(p, ms, N) = s
    BY UptoIs
  <2>2. Upto(p, more, N + 1) = t /\ t \in Seq(Token)
    <3> HIDE DEF more, N
    <3>1. Upto(p, more, Len(more)) = t
      BY <1>1, UptoIs
    <3>2. t \in Seq(Token)
      BY <1>1, StreamIs
    <3> QED BY <1>1, <3>1, <3>2
  <2> QED BY <2>1, <2>2 DEF EndAt
<1> HIDE DEF more, N, s, t, f
<1>7. l \in Nat /\ Len(t) > l /\ \A i \in 1 .. l : t[i] = s[i]
  BY <1>4, <1>5
<1>8. ASSUME NEW c \in 0 .. N, NEW n \in EndAt(p, ms, c) .. l
      PROVE  LeftOver(p, more, c, n) = LeftOver(p, ms, c, n)
  <2> DEFINE e == EndAt(p, ms, c)
  <2>1. e \in Nat
    BY UptoIs DEF N
  <2>2. LeftOver(p, more, c, n) = SubSeq(t, e + 1, n) /\ LeftOver(p, ms, c, n) = SubSeq(s, e + 1, n)
    BY <1>3 DEF LeftOver, t, s
  <2>3. n \in e .. l
    OBVIOUS
  <2> HIDE DEF e
  <2>4. SubSeq(t, e + 1, n) = [i \in 1 .. n - e |-> t[e + i]]
    BY <1>6, <1>7, <2>1, <2>3
  <2>5. SubSeq(s, e + 1, n) = [i \in 1 .. n - e |-> s[e + i]]
    BY <1>4, <1>7, <2>1, <2>3
  <2>6. \A i \in 1 .. n - e : t[e + i] = s[e + i]
    <3>1. \A i \in 1 .. n - e : e + i \in 1 .. l
      BY <1>7, <2>1, <2>3
    <3> QED BY <1>7, <3>1
  <2> QED BY <2>2, <2>4, <2>5, <2>6
<1> QED BY <1>1, <1>3, <1>6, <1>7, <1>8 DEF more, N, s, t

\* The messages of a process have been read up to some frame, and when every other
\* process is between two frames, the buffer is what has arrived of the next.
InStep(p) ==
  \E k \in 0 .. Len(written[p]) :
    /\ Reaches(p, k, arrived[p])
    /\ Pick(got, Of(got, p)) = Gained(p, 0, k)
    /\ (\A q \in Server \ {p} : arrived[q] \in Ends(q))
         => buffer = LeftOver(p, written[p], k, arrived[p])

FramesInv ==
  /\ FramesOK
  /\ \/ mixed
     \/ ~Plain
     \/ ~thrown /\ got \in Seq(Named) /\ \A p \in Server : InStep(p)

LEMMA FramesBegin ==
  ASSUME FramingInit
  PROVE  FramesInv
<1>1. ASSUME NEW p \in Server
      PROVE  /\ written[p] = <<>> /\ arrived[p] = 0 /\ Stream(p, <<>>) = <<>>
             /\ EndAt(p, <<>>, 0) = 0 /\ LeftOver(p, <<>>, 0, 0) = <<>>
  <2>1. written[p] = <<>> /\ arrived[p] = 0
    BY DEF FramingInit
  <2>2. <<>> \in Seq(Message)
    OBVIOUS
  <2>3. EndAt(p, <<>>, 0) = 0 /\ Upto(p, <<>>, 0) = <<>> /\ Upto(p, <<>>, Len(<<>>)) = Stream(p, <<>>)
    <3> DEFINE none == <<>>
    <3>1. none \in Seq(Message) /\ Len(none) = 0
      OBVIOUS
    <3> HIDE DEF none
    <3>2. EndAt(p, none, 0) = 0 /\ Upto(p, none, 0) = <<>> /\ Upto(p, none, Len(none)) = Stream(p, none)
      BY <3>1, UptoIs
    <3> QED BY <3>2 DEF none
  <2>4. Len(<<>>) = 0
    OBVIOUS
  <2>5. Stream(p, <<>>) = <<>>
    BY <2>3, <2>4
  <2>6. LeftOver(p, <<>>, 0, 0) = SubSeq(<<>>, 1, 0)
    BY <2>3, <2>5 DEF LeftOver
  <2> QED BY <2>1, <2>3, <2>5, <2>6
<1>2. FramesOK
  <2>1. \A p \in Server : Len(written[p]) <= MaxFrames /\ arrived[p] \in 0 .. Len(Stream(p, written[p]))
    <3> SUFFICES ASSUME NEW p \in Server
                 PROVE  Len(written[p]) <= MaxFrames /\ arrived[p] \in 0 .. Len(Stream(p, written[p]))
      OBVIOUS
    <3>1. Len(written[p]) = 0 /\ Stream(p, written[p]) = <<>>
      BY <1>1
    <3> QED BY <1>1, <3>1, FramingAssumption
  <2> QED BY <2>1 DEF FramesOK, FramingInit
<1>3. got = <<>> /\ got \in Seq(Named) /\ ~thrown /\ buffer = <<>>
  BY DEF FramingInit
<1>4. ASSUME NEW p \in Server PROVE InStep(p)
  <2>1. 0 \in 0 .. Len(written[p]) /\ Len(written[p]) = 0
    BY <1>1
  <2>2. Reaches(p, 0, arrived[p])
    <3>1. Len(Stream(p, written[p])) = 0 /\ EndAt(p, written[p], 0) = 0 /\ arrived[p] = 0
      BY <1>1
    <3> QED BY <2>1, <3>1 DEF Reaches
  <2>3. Pick(got, Of(got, p)) = Gained(p, 0, 0)
    <3>1. Of(got, p) = {}
      BY <1>3 DEF Of
    <3>2. Pick(got, {}) \in Seq(Named) /\ Len(Pick(got, {})) = 0
      <4>1. {} \in SUBSET DOMAIN got /\ Cardinality({}) = 0
        BY FS_EmptySet
      <4> QED BY <1>3, <4>1, PickIs
    <3>3. Gained(p, 0, 0) \in Seq(Named) /\ Len(Gained(p, 0, 0)) = 0
      <4>1. 0 \in Nat
        OBVIOUS
      <4> QED BY <1>3, <4>1, GainedIs, Zenon
    <3> DEFINE a == Pick(got, {})
               b == Gained(p, 0, 0)
    <3> HIDE DEF a, b
    <3>4. a = b
      BY <3>2, <3>3 DEF a, b
    <3> QED BY <3>1, <3>4 DEF a, b
  <2>4. buffer = LeftOver(p, written[p], 0, arrived[p])
    BY <1>1, <1>3
  <2> QED BY <2>1, <2>2, <2>3, <2>4 DEF InStep
<1> QED BY <1>2, <1>3, <1>4 DEF FramesInv

\* What has arrived of a process stays what it was when that one writes more.
LEMMA WriteKeeps ==
  ASSUME NEW p \in Server, NEW ms \in Seq(Message), NEW m \in Message, NEW k \in 0 .. Len(ms),
         NEW a \in EndAt(p, ms, k) .. Len(Stream(p, ms)), k < Len(ms) => a < EndAt(p, ms, k + 1)
  PROVE  LET more == Append(ms, m)
         IN /\ k \in 0 .. Len(more) /\ a \in EndAt(p, more, k) .. Len(Stream(p, more))
            /\ k < Len(more) => a < EndAt(p, more, k + 1)
            /\ LeftOver(p, more, k, a) = LeftOver(p, ms, k, a)
            /\ \A i \in 0 .. Len(more) : a = EndAt(p, more, i) => i \in 0 .. Len(ms) /\ a = EndAt(p, ms, i)
<1> DEFINE more == Append(ms, m)
           N == Len(ms)
           l == Len(Stream(p, ms))
           b == Len(Stream(p, more))
<1>1. /\ more \in Seq(Message) /\ Len(more) = N + 1 /\ l \in Nat /\ N \in Nat
      /\ \A i \in 0 .. N : EndAt(p, more, i) = EndAt(p, ms, i)
      /\ l = EndAt(p, ms, N) /\ l < EndAt(p, more, N + 1)
      /\ b = EndAt(p, more, N + 1)
      /\ \A c \in 0 .. N : \A n \in EndAt(p, ms, c) .. l : LeftOver(p, more, c, n) = LeftOver(p, ms, c, n)
  BY StreamKeeps
<1>2. EndAt(p, ms, k) \in Nat /\ EndAt(p, more, k) = EndAt(p, ms, k)
  <2>1. EndAt(p, ms, k) \in Nat
    BY UptoIs
  <2> QED BY <1>1, <2>1
<1>3. b \in Nat
  <2>1. Stream(p, more) \in Seq(Token)
    <3> HIDE DEF more
    <3> QED BY <1>1, StreamIs
  <2> QED BY <2>1
<1>4. a \in EndAt(p, ms, k) .. l /\ k \in 0 .. N /\ (k < N => a < EndAt(p, ms, k + 1))
  OBVIOUS
<1> HIDE DEF more, N, l, b
<1>5. a \in EndAt(p, more, k) .. b /\ a \in Nat /\ a <= l
  BY <1>1, <1>2, <1>3, <1>4
<1>6. k < Len(more) => a < EndAt(p, more, k + 1)
  <2>1. CASE k = N
    BY <1>1, <1>5, <1>3, <2>1
  <2>2. CASE k # N
    <3>1. k < N /\ k + 1 \in 0 .. N
      BY <1>1, <1>4, <2>2
    <3> QED BY <1>1, <1>4, <3>1
  <2> QED BY <2>1, <2>2
<1>7. ASSUME NEW i \in 0 .. Len(more), a = EndAt(p, more, i) PROVE i \in 0 .. N /\ a = EndAt(p, ms, i)
  <2>1. i # N + 1
    BY <1>1, <1>3, <1>5, <1>7
  <2>2. i \in 0 .. N
    BY <1>1, <2>1
  <2> QED BY <1>1, <1>7, <2>2
<1>8. k \in 0 .. Len(more)
  BY <1>1, <1>4
<1>9. LeftOver(p, more, k, a) = LeftOver(p, ms, k, a)
  BY <1>1, <1>4
<1> QED BY <1>5, <1>6, <1>7, <1>8, <1>9 DEF more, N, b

LEMMA EndsAre ==
  \A p : Ends(p) = {EndAt(p, written[p], n) : n \in 0 .. Len(written[p])}
BY DEF Ends, EndOf, EndAt, Upto

LEMMA FramesWritten ==
  ASSUME FramesInv, NEW p \in Server, NEW m \in Message, WriteMessage(p, m)
  PROVE  FramesInv'
<1> DEFINE ms == written[p]
           more == Append(ms, m)
<1>1. FramesOK /\ ms \in Seq(Message)
  BY DEF FramesInv, FramesOK
<1>2. /\ written' = [written EXCEPT ![p] = more] /\ Len(ms) < MaxFrames
      /\ arrived' = arrived /\ buffer' = buffer /\ got' = got /\ thrown' = thrown /\ mixed' = mixed
  BY DEF WriteMessage
<1>3. /\ written' \in [Server -> Seq(Message)] /\ written'[p] = more
      /\ \A q \in Server \ {p} : written'[q] = written[q]
  <2>1. more \in Seq(Message)
    BY <1>1
  <2> HIDE DEF more
  <2> QED BY <1>1, <1>2, <2>1 DEF FramesOK
<1> HIDE DEF more
<1>4. more = Append(ms, m)
  BY DEF more
<1>5. FramesOK'
  <2> SUFFICES ASSUME NEW q \in Server
               PROVE  Len(written'[q]) <= MaxFrames /\ arrived[q] \in 0 .. Len(Stream(q, written'[q]))
    BY <1>1, <1>2, <1>3 DEF FramesOK
  <2>1. Len(written[q]) <= MaxFrames /\ arrived[q] \in 0 .. Len(Stream(q, written[q]))
    BY <1>1 DEF FramesOK
  <2>2. CASE q # p
    BY <1>3, <2>1, <2>2
  <2>3. CASE q = p
    <3>1. /\ Len(more) = Len(ms) + 1 /\ Len(Stream(p, ms)) \in Nat
          /\ Len(Stream(p, ms)) < Len(Stream(p, more)) /\ Len(Stream(p, more)) \in Nat
      <4>1. /\ Len(more) = Len(ms) + 1 /\ Len(Stream(p, ms)) \in Nat
            /\ Len(Stream(p, ms)) < EndAt(p, more, Len(ms) + 1)
            /\ Len(Stream(p, more)) = EndAt(p, more, Len(ms) + 1)
        BY <1>1, <1>4, StreamKeeps
      <4>2. Stream(p, more) \in Seq(Token)
        <5>1. more \in Seq(Message)
          BY <1>1, <1>4
        <5> QED BY <5>1, StreamIs
      <4>3. Len(Stream(p, more)) \in Nat
        BY <4>2
      <4> QED BY <4>1, <4>3
    <3> DEFINE a == Len(Stream(p, ms))
               b == Len(Stream(p, more))
    <3>2. arrived[p] \in 0 .. a /\ Len(ms) \in Nat
      BY <1>1, <2>1, <2>3
    <3> HIDE DEF a, b, ms
    <3>3. arrived[p] \in 0 .. b /\ Len(more) <= MaxFrames
      BY <1>2, <3>1, <3>2, FramingAssumption DEF a, b
    <3> QED BY <1>3, <2>3, <3>3 DEF b
  <2> QED BY <2>2, <2>3
<1>6. CASE mixed
  BY <1>2, <1>5, <1>6 DEF FramesInv
<1>7. CASE ~Plain
  <2>1. PICK q \in Server : \E n \in DOMAIN written[q] : written[q][n].bytes # written[q][n].units
    BY <1>7 DEF Plain
  <2>4. PICK n \in DOMAIN written[q] : written[q][n].bytes # written[q][n].units
    BY <2>1
  <2>2. n \in DOMAIN written'[q] /\ written'[q][n] = written[q][n]
    <3>1. CASE q # p
      BY <1>3, <3>1
    <3>2. CASE q = p
      <4>1. n \in DOMAIN ms /\ written[q] = ms
        BY <3>2
      <4>2. n \in DOMAIN more /\ more[n] = ms[n]
        <5> HIDE DEF ms
        <5> QED BY <1>1, <1>4, <4>1
      <4> QED BY <1>3, <3>2, <4>1, <4>2
    <3> QED BY <3>1, <3>2
  <2>3. ~Plain'
    BY <2>2, <2>4 DEF Plain
  <2> QED BY <1>5, <2>3 DEF FramesInv
<1>8. CASE ~mixed /\ Plain
  <2>1. ~thrown /\ got \in Seq(Named) /\ \A q \in Server : InStep(q)
    BY <1>8 DEF FramesInv
  <2>2. ASSUME NEW q \in Server PROVE InStep(q)'
    <3>1. PICK k \in 0 .. Len(written[q]) :
            /\ Reaches(q, k, arrived[q]) /\ Pick(got, Of(got, q)) = Gained(q, 0, k)
            /\ (\A r \in Server \ {q} : arrived[r] \in Ends(r))
                 => buffer = LeftOver(q, written[q], k, arrived[q])
      BY <2>1 DEF InStep
    <3>2. /\ arrived[q] \in EndAt(q, written[q], k) .. Len(Stream(q, written[q]))
          /\ k < Len(written[q]) => arrived[q] < EndAt(q, written[q], k + 1)
      BY <3>1 DEF Reaches
    <3>3. /\ k \in 0 .. Len(written'[q])
          /\ arrived[q] \in EndAt(q, written'[q], k) .. Len(Stream(q, written'[q]))
          /\ k < Len(written'[q]) => arrived[q] < EndAt(q, written'[q], k + 1)
          /\ LeftOver(q, written'[q], k, arrived[q]) = LeftOver(q, written[q], k, arrived[q])
      <4>1. CASE q # p
        <5>1. written'[q] = written[q]
          BY <1>3, <4>1
        <5> QED BY <3>1, <3>2, <5>1
      <4>2. CASE q = p
        <5> DEFINE a == arrived[p]
        <5>1. k \in 0 .. Len(ms) /\ a \in EndAt(p, ms, k) .. Len(Stream(p, ms))
              /\ (k < Len(ms) => a < EndAt(p, ms, k + 1))
          BY <3>1, <3>2, <4>2
        <5> HIDE DEF a, ms
        <5>2. /\ k \in 0 .. Len(more) /\ a \in EndAt(p, more, k) .. Len(Stream(p, more))
              /\ k < Len(more) => a < EndAt(p, more, k + 1)
              /\ LeftOver(p, more, k, a) = LeftOver(p, ms, k, a)
          BY <1>1, <1>4, <5>1, WriteKeeps
        <5> QED BY <1>3, <4>2, <5>2 DEF a, ms
      <4> QED BY <4>1, <4>2
    <3>4. ASSUME NEW r \in Server, arrived'[r] \in Ends(r)' PROVE arrived[r] \in Ends(r)
      <4>1. PICK i \in 0 .. Len(written'[r]) : arrived[r] = EndAt(r, written'[r], i)
        BY <1>2, <3>4 DEF Ends, EndOf, EndAt, Upto
      <4>2. i \in 0 .. Len(written[r]) /\ arrived[r] = EndAt(r, written[r], i)
        <5>1. CASE r # p
          <6>1. written'[r] = written[r]
            BY <1>3, <5>1
          <6> QED BY <4>1, <6>1
        <5>2. CASE r = p
          <6>1. InStep(p)
            BY <2>1
          <6>2. PICK c \in 0 .. Len(written[p]) : Reaches(p, c, arrived[p])
            BY <6>1 DEF InStep
          <6> DEFINE a == arrived[p]
          <6>3. c \in 0 .. Len(ms) /\ a \in EndAt(p, ms, c) .. Len(Stream(p, ms))
                /\ (c < Len(ms) => a < EndAt(p, ms, c + 1))
            BY <6>2 DEF Reaches
          <6>4. i \in 0 .. Len(more) /\ a = EndAt(p, more, i)
            BY <1>3, <4>1, <5>2
          <6> HIDE DEF a, ms
          <6>5. i \in 0 .. Len(ms) /\ a = EndAt(p, ms, i)
            BY <1>1, <1>4, <6>3, <6>4, WriteKeeps
          <6> QED BY <5>2, <6>5 DEF a, ms
        <5> QED BY <5>1, <5>2
      <4> QED BY <4>2, EndsAre
    <3>5. Reaches(q, k, arrived[q])'
      BY <1>2, <3>3 DEF Reaches
    <3>6. (Pick(got, Of(got, q)) = Gained(q, 0, k))'
      BY <1>2, <3>1
    <3>7. ((\A r \in Server \ {q} : arrived[r] \in Ends(r))
             => buffer = LeftOver(q, written[q], k, arrived[q]))'
      <4> SUFFICES ASSUME \A r \in Server \ {q} : arrived'[r] \in Ends(r)'
                   PROVE  buffer' = LeftOver(q, written'[q], k, arrived'[q])
        OBVIOUS
      <4>1. \A r \in Server \ {q} : arrived[r] \in Ends(r)
        BY <3>4
      <4> QED BY <1>2, <3>1, <3>3, <4>1
    <3> QED BY <3>3, <3>5, <3>6, <3>7 DEF InStep
  <2> QED BY <1>2, <1>5, <2>1, <2>2 DEF FramesInv
<1> QED BY <1>6, <1>7, <1>8

LEMMA FramesArrive ==
  ASSUME FramesInv, NEW p \in Server, NEW n \in arrived[p] + 1 .. Len(Stream(p, written[p])),
         OnStdout(p, n)
  PROVE  FramesInv'
<1> DEFINE ms == written[p]
           s == Stream(p, ms)
           chunk == SubSeq(s, arrived[p] + 1, n)
           read == ReadFrames(buffer \o chunk)
<1>1. FramesOK
  BY DEF FramesInv
<1>2. /\ ~thrown /\ arrived' = [arrived EXCEPT ![p] = n] /\ written' = written
      /\ buffer' = read.rest /\ got' = read.got /\ thrown' = (read.at = "throws")
      /\ mixed' = (mixed \/ \E q \in Server \ {p} : arrived[q] \notin Ends(q))
  BY Zenon DEF OnStdout
<1>3. n \in Nat /\ n \in 0 .. Len(s) /\ arrived[p] \in 0 .. Len(s)
  <2>1. arrived[p] \in Nat /\ arrived[p] \in 0 .. Len(s)
    BY <1>1 DEF FramesOK
  <2> DEFINE a == arrived[p]
             l == Len(s)
  <2>2. l \in Nat
    <3>1. ms \in Seq(Message)
      BY <1>1 DEF FramesOK
    <3>2. s \in Seq(Token)
      BY <3>1, StreamIs
    <3> QED BY <3>2
  <2>3. n \in a + 1 .. l /\ a \in Nat
    BY <2>1
  <2> HIDE DEF a, l
  <2>4. n \in Nat /\ n \in 0 .. l
    BY <2>2, <2>3
  <2> QED BY <2>1, <2>4 DEF l
<1>4. arrived'[p] = n /\ \A q \in Server \ {p} : arrived'[q] = arrived[q]
  BY <1>1, <1>2 DEF FramesOK
<1> HIDE DEF read, chunk
<1>5. FramesOK'
  <2>1. arrived' \in [Server -> Nat]
    BY <1>1, <1>2, <1>3 DEF FramesOK
  <2> SUFFICES ASSUME NEW q \in Server PROVE arrived'[q] \in 0 .. Len(Stream(q, written[q]))
    BY <1>1, <1>2, <2>1 DEF FramesOK
  <2>2. CASE q = p
    BY <1>3, <1>4, <2>2
  <2>3. CASE q # p
    BY <1>1, <1>4, <2>3 DEF FramesOK
  <2> QED BY <2>2, <2>3
<1>6. CASE mixed'
  BY <1>5, <1>6 DEF FramesInv
<1>7. CASE ~Plain
  <2>1. ~Plain'
    BY <1>2, <1>7 DEF Plain
  <2> QED BY <1>5, <2>1 DEF FramesInv
<1>8. CASE ~mixed' /\ Plain
  <2>1. ~mixed /\ \A q \in Server \ {p} : arrived[q] \in Ends(q)
    BY <1>2, <1>8
  <2>2. got \in Seq(Named) /\ \A q \in Server : InStep(q)
    BY <1>8, <2>1 DEF FramesInv
  <2>3. InStep(p)
    BY <2>2
  <2>4. PICK k \in 0 .. Len(written[p]) :
          /\ Reaches(p, k, arrived[p]) /\ Pick(got, Of(got, p)) = Gained(p, 0, k)
          /\ buffer = LeftOver(p, written[p], k, arrived[p])
    BY <2>1, <2>3 DEF InStep
  <2>5. PICK j \in 0 .. Len(written[p]) : Reaches(p, j, n)
    BY <1>1, <1>3, ReachesSome
  <2>6. buffer \o chunk = LeftOver(p, written[p], k, n)
    <3>1. LeftOver(p, written[p], k, arrived[p]) \o SubSeq(Stream(p, written[p]), arrived[p] + 1, n)
            = LeftOver(p, written[p], k, n)
      BY <1>1, <2>4, LeftOverMore
    <3> QED BY <2>4, <3>1, Zenon DEF chunk
  <2>7. k \in 0 .. j /\ k \in Nat /\ j \in Nat /\ j - k \in Nat /\ k + (j - k) = j
    <3> DEFINE a == arrived[p]
    <3>1. 0 \in 0 .. Len(written[p]) /\ EndAt(p, written[p], 0) <= a /\ a <= n /\ a \in Nat
      <4>1. ms \in Seq(Message) /\ a \in Nat /\ n \in a + 1 .. Len(s)
        BY <1>1 DEF FramesOK
      <4>2. EndAt(p, ms, 0) = 0 /\ 0 \in 0 .. Len(ms)
        BY <4>1, UptoIs
      <4>3. a <= n
        <5> HIDE DEF a, s
        <5> QED BY <1>3, <4>1
      <4> QED BY <4>1, <4>2, <4>3
    <3>2. Reaches(p, k, a)
      BY <2>4
    <3> HIDE DEF a
    <3>3. k \in Nat /\ k \in 0 .. j
      BY <1>1, <1>3, <2>5, <3>1, <3>2, ReachesGrow
    <3> QED BY <3>3
  <2> DEFINE h == got \o Gained(p, k, j - k)
  <2>8. read = Read(p, j, n, h, "waits")
    <3>1. ReadFrames(LeftOver(p, written[p], k, n)) = Read(p, j, n, h, "waits")
      BY <1>1, <1>8, <2>2, <2>5, <2>7, ReadFramesIs
    <3> QED BY <2>6, <3>1, Zenon DEF read
  <2>9. got' = h /\ buffer' = LeftOver(p, written[p], j, n) /\ ~thrown'
    BY <1>2, <2>8 DEF Read
  <2>10. ASSUME NEW q \in Server, NEW c \in Nat, Pick(got, Of(got, q)) = Gained(q, 0, c), q = p => c = k
         PROVE  h \in Seq(Named) /\ Pick(h, Of(h, q)) = Gained(q, 0, IF q = p THEN j ELSE c)
    <3>1. \A i \in Nat :
            LET more == got \o Gained(p, k, i)
            IN /\ more \in Seq(Named)
               /\ Pick(more, Of(more, q)) = Gained(q, 0, IF q = p THEN k + i ELSE c)
      <4>1. GoesOn(p, k, got, q, c)
        BY <2>2, <2>7, <2>10, PickGained
      <4> QED BY <4>1, Zenon DEF GoesOn
    <3> DEFINE w == j - k
    <3>2. w \in Nat /\ k + w = j
      BY <2>7
    <3> HIDE DEF w
    <3>3. LET more == got \o Gained(p, k, w)
          IN /\ more \in Seq(Named)
             /\ Pick(more, Of(more, q)) = Gained(q, 0, IF q = p THEN k + w ELSE c)
      BY <3>1, <3>2, Zenon
    <3> QED BY <3>2, <3>3, Zenon DEF w
  <2>11. Pick(h, Of(h, p)) = Gained(p, 0, j) /\ h \in Seq(Named)
    <3> HIDE DEF h
    <3> QED BY <2>4, <2>7, <2>10
  <2> HIDE DEF h
  <2>12. ASSUME NEW q \in Server PROVE InStep(q)'
    <3>1. CASE q = p
      <4>1. Reaches(p, j, arrived[p])'
        BY <1>2, <1>4, <2>5 DEF Reaches
      <4>2. (Pick(got, Of(got, p)) = Gained(p, 0, j))'
        BY <2>9, <2>11
      <4>3. (buffer = LeftOver(p, written[p], j, arrived[p]))'
        BY <1>2, <1>4, <2>9
      <4>4. j \in 0 .. Len(written'[p])
        BY <1>2, <2>5
      <4> QED BY <3>1, <4>1, <4>2, <4>3, <4>4 DEF InStep
    <3>2. CASE q # p
      <4>1. InStep(q)
        BY <2>2
      <4>2. PICK c \in 0 .. Len(written[q]) :
              Reaches(q, c, arrived[q]) /\ Pick(got, Of(got, q)) = Gained(q, 0, c)
        BY <4>1 DEF InStep
      <4>3. c \in Nat /\ arrived[q] \in Nat
        <5>1. written[q] \in Seq(Message) /\ arrived[q] \in Nat
          BY <1>1 DEF FramesOK
        <5> QED BY <5>1
      <4>4. Reaches(q, c, arrived[q])'
        BY <1>2, <1>4, <3>2, <4>2 DEF Reaches
      <4>5. (Pick(got, Of(got, q)) = Gained(q, 0, c))'
        <5>1. Pick(h, Of(h, q)) = Gained(q, 0, c)
          BY <2>10, <3>2, <4>2, <4>3
        <5> QED BY <2>9, <5>1
      <4>6. ((\A r \in Server \ {q} : arrived[r] \in Ends(r))
               => buffer = LeftOver(q, written[q], c, arrived[q]))'
        <5> SUFFICES ASSUME \A r \in Server \ {q} : arrived'[r] \in Ends(r)'
                     PROVE  buffer' = LeftOver(q, written'[q], c, arrived'[q])
          OBVIOUS
        <5>1. n \in Ends(p)
          <6>1. arrived'[p] \in Ends(p)'
            BY <3>2
          <6>2. Ends(p)' = Ends(p)
            BY <1>2 DEF Ends, EndOf
          <6> QED BY <1>4, <6>1, <6>2
        <5>2. LeftOver(p, written[p], j, n) = <<>>
          BY <1>1, <1>3, <2>5, <5>1, BetweenFrames
        <5>3. arrived[q] \in Ends(q)
          BY <2>1, <3>2
        <5>4. LeftOver(q, written[q], c, arrived[q]) = <<>>
          BY <1>1, <4>2, <4>3, <5>3, BetweenFrames
        <5>5. written'[q] = written[q] /\ arrived'[q] = arrived[q]
          BY <1>2, <1>4, <3>2
        <5> QED BY <2>9, <5>2, <5>4, <5>5
      <4>7. c \in 0 .. Len(written'[q])
        BY <1>2, <4>2
      <4> QED BY <4>4, <4>5, <4>6, <4>7 DEF InStep
    <3> QED BY <3>1, <3>2
  <2>13. (~thrown /\ got \in Seq(Named))'
    BY <2>9, <2>11
  <2>14. (\A q \in Server : InStep(q))'
    BY <2>12
  <2>15. (\/ mixed
          \/ ~Plain
          \/ ~thrown /\ got \in Seq(Named) /\ \A q \in Server : InStep(q))'
    BY <2>13, <2>14, Zenon
  <2> QED BY <1>5, <2>15, Zenon DEF FramesInv
<1> QED BY <1>6, <1>7, <1>8

LEMMA FramesStay ==
  ASSUME FramesInv, UNCHANGED framingVars
  PROVE  FramesInv'
<1>1. FramesOK' = FramesOK /\ Plain' = Plain
  BY DEF FramesOK, Plain, framingVars
<1>2. (\A p \in Server : InStep(p))' = (\A p \in Server : InStep(p))
  BY DEF InStep, Reaches, Of, Ends, EndOf, framingVars
<1>3. mixed' = mixed /\ thrown' = thrown /\ got' = got
  BY DEF framingVars
<1> QED BY <1>1, <1>2, <1>3, Zenon DEF FramesInv

LEMMA FramesHold == AlgorithmsSpec => []FramesInv
<1>1. ASSUME AlgorithmsInit PROVE FramesInv
  <2>1. FramingInit
    BY <1>1 DEF AlgorithmsInit
  <2> QED BY <2>1, FramesBegin
<1>2. ASSUME FramesInv, [AlgorithmsNext]_vars PROVE FramesInv'
  <2>1. CASE UNCHANGED framingVars
    BY <1>2, <2>1, FramesStay
  <2>2. CASE ReaderNext
    <3>1. FramingNext
      BY <2>2 DEF ReaderNext
    <3>2. PICK p \in Server :
            \/ \E m \in Message : WriteMessage(p, m)
            \/ \E n \in arrived[p] + 1 .. Len(Stream(p, written[p])) : OnStdout(p, n)
      BY <3>1 DEF FramingNext
    <3>3. CASE \E m \in Message : WriteMessage(p, m)
      BY <1>2, <3>3, FramesWritten
    <3>4. CASE \E n \in arrived[p] + 1 .. Len(Stream(p, written[p])) : OnStdout(p, n)
      BY <1>2, <3>4, FramesArrive
    <3> QED BY <3>2, <3>3, <3>4
  <2>3. UNCHANGED framingVars \/ ReaderNext
    BY <1>2 DEF AlgorithmsNext, ReturnHit, AppendLine, AppendWord, LaunchNext, ServerNext, vars
  <2> QED BY <2>1, <2>2, <2>3
<1> QED BY <1>1, <1>2, PTL DEF AlgorithmsSpec

\* However the frames of a process are cut into chunks, and however much of them
\* arrives at a time, each message is read once it is there, once and in order.
THEOREM FramesCorrect == AlgorithmsSpec => []FramesRead
<1>1. ASSUME FramesInv PROVE FramesRead
  <2>1. FramesOK
    BY <1>1 DEF FramesInv
  <2>2. CASE ~Plain
    BY <2>2 DEF Plain, FramesRead
  <2>3. CASE ~thrown /\ got \in Seq(Named) /\ \A p \in Server : InStep(p)
    <3>1. ASSUME NEW p \in Server
          PROVE  Pick(got, {i \in DOMAIN got : got[i][1] = p})
                   = [n \in 1 .. Cardinality(Whole(p)) |-> <<p, n>>]
      <4>1. InStep(p)
        BY <2>3
      <4>2. PICK k \in 0 .. Len(written[p]) :
              Reaches(p, k, arrived[p]) /\ Pick(got, Of(got, p)) = Gained(p, 0, k)
        BY <4>1 DEF InStep
      <4>3. Cardinality(Whole(p)) = k
        BY <2>1, <4>2, WholeIs
      <4>4. Gained(p, 0, k) = [n \in 1 .. k |-> <<p, n>>]
        <5>1. \A n \in 1 .. k : 0 + n = n
          OBVIOUS
        <5>2. [n \in 1 .. k |-> <<p, 0 + n>>] = [n \in 1 .. k |-> <<p, n>>]
          BY <5>1
        <5> QED BY <5>2 DEF Gained
      <4> QED BY <4>2, <4>3, <4>4, Zenon DEF Of
    <3> QED BY <2>3, <3>1 DEF FramesRead
  <2>4. CASE mixed
    BY <2>4 DEF FramesRead
  <2> QED BY <1>1, <2>2, <2>3, <2>4 DEF FramesInv
<1> QED BY <1>1, FramesHold, PTL

=============================================================================
