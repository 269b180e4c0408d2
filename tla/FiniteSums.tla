----------------------------- MODULE FiniteSums -----------------------------
(***************************************************************************)
(* What the proofs of several modules need of arithmetic: the least and    *)
(* the greatest of some numbers, products, and sums over finite sets.      *)
(*                                                                         *)
(* The library's SumFunction is a recursion over sets.  The lemmas here    *)
(* say what it computes without taking an operator as a parameter: a sum   *)
(* is what any function of the subsets with its two equations has at the   *)
(* whole set, and every other lemma names such a function.                 *)
(***************************************************************************)
EXTENDS Integers, FiniteSets, FiniteSetsExt, Functions, FiniteSetTheorems, WellFoundedInduction, TLAPS

-----------------------------------------------------------------------------
(* The least and the greatest.                                             *)

\* A set of natural numbers has a least element, and a bounded one a greatest.
LEMMA LeastIs ==
    ASSUME NEW S \in SUBSET Nat, S # {}
    PROVE  /\ Min(S) \in S
           /\ \A x \in S : Min(S) <= x
  <1> DEFINE R == {o \in Nat \X Nat : o[1] < o[2]}
  <1>1. IsWellFoundedOn(R, Nat)
    BY NatLessThanWellFounded DEF OpToRel
  <1>2. PICK m \in S : \A x \in S : ~(<<x, m>> \in R)
    <2> HIDE DEF R
    <2> QED BY <1>1, WFMin
  <1>3. ASSUME NEW x \in S PROVE m <= x
    <2>1. m \in Nat /\ x \in Nat /\ ~(<<x, m>> \in R)
      BY <1>2
    <2>2. ~(x < m)
      BY <2>1
    <2> HIDE DEF R
    <2> QED BY <2>1, <2>2
  <1> QED BY <1>3 DEF Min

LEMMA GreatestIs ==
    ASSUME NEW n \in Nat, NEW S \in SUBSET (0 .. n), S # {}
    PROVE  /\ Max(S) \in S
           /\ \A x \in S : Max(S) >= x
  <1> DEFINE T == {n - x : x \in S}
  <1>1. T \in SUBSET Nat /\ T # {}
    <2>1. \A x \in S : n - x \in Nat
      OBVIOUS
    <2>2. PICK x \in S : TRUE
      OBVIOUS
    <2> QED BY <2>1, <2>2
  <1>2. Min(T) \in T /\ \A t \in T : Min(T) <= t
    <2> HIDE DEF T
    <2> QED BY <1>1, LeastIs
  <1>3. PICK x \in S : Min(T) = n - x
    BY <1>2
  <1>4. \A y \in S : x >= y
    <2> SUFFICES ASSUME NEW y \in S PROVE x >= y
      OBVIOUS
    <2>1. n - y \in T
      OBVIOUS
    <2>2. n - x <= n - y
      <3> HIDE DEF T
      <3> QED BY <1>2, <1>3, <2>1
    <2>3. x \in Nat /\ y \in Nat
      OBVIOUS
    <2> HIDE DEF T
    <2> QED BY <2>2, <2>3
  <1> QED BY <1>3, <1>4 DEF Max

LEMMA OfTwo ==
    ASSUME NEW a \in Int, NEW b \in Int
    PROVE  /\ Min({a, b}) = IF a <= b THEN a ELSE b
           /\ Max({a, b}) = IF a >= b THEN a ELSE b
  <1>1. \E x \in {a, b} : \A y \in {a, b} : x <= y
    OBVIOUS
  <1>2. \E x \in {a, b} : \A y \in {a, b} : x >= y
    OBVIOUS
  <1>3. Min({a, b}) \in {a, b} /\ \A y \in {a, b} : Min({a, b}) <= y
    BY <1>1 DEF Min
  <1>4. Max({a, b}) \in {a, b} /\ \A y \in {a, b} : Max({a, b}) >= y
    BY <1>2 DEF Max
  <1> QED BY <1>3, <1>4

\* Of those with the fewest below them, none is below another.
LEMMA SomeLeast ==
    ASSUME NEW K, IsFiniteSet(K), K # {}, NEW f \in [K -> Int]
    PROVE  \E k \in K : \A j \in K : f[k] <= f[j]
  <1> DEFINE Below(k) == {j \in K : f[j] < f[k]}
             counts == {Cardinality(Below(k)) : k \in K}
  <1>1. ASSUME NEW k \in K PROVE IsFiniteSet(Below(k)) /\ Cardinality(Below(k)) \in Nat
    <2>1. Below(k) \in SUBSET K
      OBVIOUS
    <2>2. IsFiniteSet(Below(k))
      <3> HIDE DEF Below
      <3> QED BY <2>1, FS_Subset
    <2> QED BY <2>2, FS_CardinalityType
  <1>2. counts \in SUBSET Nat /\ counts # {}
    <2> HIDE DEF Below
    <2> QED BY <1>1
  <1>3. PICK k \in K : \A j \in K : Cardinality(Below(k)) <= Cardinality(Below(j))
    <2>1. Min(counts) \in counts /\ \A c \in counts : Min(counts) <= c
      <3> HIDE DEF counts
      <3> QED BY <1>2, LeastIs
    <2> HIDE DEF Below
    <2> QED BY <2>1
  <1>4. ASSUME NEW j \in K, ~(f[k] <= f[j]) PROVE FALSE
    <2>1. f[j] \in Int /\ f[k] \in Int /\ f[j] < f[k]
      BY <1>4
    <2>2. Below(j) \in SUBSET Below(k) /\ j \in Below(k) /\ j \notin Below(j)
      <3>1. \A i \in K : f[i] \in Int
        OBVIOUS
      <3> QED BY <2>1, <3>1
    <2>3. Below(j) # Below(k)
      BY <2>2
    <2>4. IsFiniteSet(Below(k)) /\ Cardinality(Below(k)) \in Nat /\ Cardinality(Below(j)) \in Nat
      BY <1>1
    <2> HIDE DEF Below
    <2>5. Cardinality(Below(j)) <= Cardinality(Below(k)) /\ Cardinality(Below(j)) # Cardinality(Below(k))
      BY <2>2, <2>3, <2>4, FS_Subset
    <2>6. Cardinality(Below(k)) <= Cardinality(Below(j))
      BY <1>3
    <2> QED BY <2>4, <2>5, <2>6
  <1> QED BY <1>4

LEMMA FiniteBounds ==
    ASSUME NEW S \in SUBSET Int, IsFiniteSet(S), S # {}
    PROVE  /\ Min(S) \in S /\ \A x \in S : Min(S) <= x
           /\ Max(S) \in S /\ \A x \in S : Max(S) >= x
  <1>1. PICK a \in S : \A x \in S : a <= x
    <2> DEFINE f == [x \in S |-> x]
    <2>1. f \in [S -> Int] /\ \A x \in S : f[x] = x
      OBVIOUS
    <2> HIDE DEF f
    <2>2. \E k \in S : \A j \in S : f[k] <= f[j]
      BY <2>1, SomeLeast
    <2> QED BY <2>1, <2>2
  <1>2. PICK b \in S : \A x \in S : b >= x
    <2> DEFINE f == [x \in S |-> -x]
    <2>1. f \in [S -> Int] /\ \A x \in S : f[x] = -x
      OBVIOUS
    <2> HIDE DEF f
    <2>2. PICK k \in S : \A j \in S : f[k] <= f[j]
      BY <2>1, SomeLeast
    <2>3. \A j \in S : k \in Int /\ j \in Int /\ -k <= -j
      BY <2>1, <2>2
    <2>4. \A j \in S : k >= j
      BY <2>3
    <2> QED BY <2>4
  <1> QED BY <1>1, <1>2 DEF Min, Max

-----------------------------------------------------------------------------
(* Products.                                                               *)

LEMMA TimesMonotone ==
    ASSUME NEW a \in Int, NEW b \in Int, NEW c \in Nat, a <= b
    PROVE  a * c <= b * c /\ c * a <= c * b /\ a * c \in Int /\ b * c \in Int /\ c * a \in Int /\ c * b \in Int
  <1>1. PICK d \in Nat : b = a + d
    <2>1. b - a \in Nat /\ b = a + (b - a)
      OBVIOUS
    <2> QED BY <2>1
  <1>2. (a + d) * c = a * c + d * c /\ c * (a + d) = c * a + c * d
    OBVIOUS
  <1>3. d * c \in Nat /\ c * d \in Nat /\ a * c \in Int /\ c * a \in Int
    OBVIOUS
  <1> QED BY <1>1, <1>2, <1>3

-----------------------------------------------------------------------------
(* Sums over finite sets.                                                  *)

Picked(s) == CHOOSE x \in s : TRUE

\* g sums w over every set in D.
Sums(g, w, D) == g = [s \in D |-> IF s = {} THEN 0 ELSE w[Picked(s)] + g[s \ {Picked(s)}]]

\* The definition of a sum by recursion has a solution: each set is smaller by one
\* than the next, and there is no least size at which it has none.
LEMMA SumExists ==
    ASSUME NEW S, IsFiniteSet(S), NEW w \in [S -> Int]
    PROVE  \E g \in [SUBSET S -> Int] : Sums(g, w, SUBSET S)
  <1> DEFINE Upto(n) == {s \in SUBSET S : Cardinality(s) <= n}
             bad == {n \in Nat : ~\E g \in [Upto(n) -> Int] : Sums(g, w, Upto(n))}
  <1>1. ASSUME NEW s \in SUBSET S PROVE IsFiniteSet(s) /\ Cardinality(s) \in Nat /\ Cardinality(s) <= Cardinality(S)
    BY FS_Subset, FS_CardinalityType
  <1>2. ASSUME NEW s \in SUBSET S, s # {}
        PROVE  /\ Picked(s) \in s /\ Picked(s) \in S /\ w[Picked(s)] \in Int
               /\ s \ {Picked(s)} \in SUBSET S
               /\ Cardinality(s \ {Picked(s)}) = Cardinality(s) - 1
    <2>1. Picked(s) \in s
      BY <1>2 DEF Picked
    <2>2. Cardinality(s \ {Picked(s)}) = Cardinality(s) - 1
      BY <1>1, <2>1, FS_RemoveElement
    <2> QED BY <2>1, <2>2
  <1>3. bad = {}
    <2>1. SUFFICES ASSUME bad # {} PROVE FALSE
      OBVIOUS
    <2>2. PICK n \in Nat : n \in bad /\ \A k \in bad : n <= k
      <3>1. bad \in SUBSET Nat
        OBVIOUS
      <3> HIDE DEF bad
      <3>2. Min(bad) \in bad /\ \A k \in bad : Min(bad) <= k
        BY <2>1, <3>1, LeastIs
      <3> QED BY <3>1, <3>2
    <2>3. \A s \in Upto(n) : s \in SUBSET S /\ Cardinality(s) <= n /\ Cardinality(s) \in Nat
      BY <1>1
    <2>4. CASE n = 0
      <3> DEFINE g == [s \in Upto(n) |-> 0]
      <3>1. \A s \in Upto(n) : s = {}
        BY <1>1, <2>3, <2>4, FS_EmptySet
      <3>2. g \in [Upto(n) -> Int]
        OBVIOUS
      <3>3. Sums(g, w, Upto(n))
        <4> HIDE DEF Upto
        <4> QED BY <3>1 DEF Sums
      <3> HIDE DEF g
      <3> QED BY <2>2, <3>2, <3>3
    <2>5. CASE n # 0
      <3>1. n - 1 \in Nat /\ ~(n <= n - 1)
        BY <2>5
      <3>2. n - 1 \notin bad
        BY <2>2, <3>1
      <3>3. PICK g \in [Upto(n - 1) -> Int] : Sums(g, w, Upto(n - 1))
        BY <3>1, <3>2
      <3> DEFINE h == [s \in Upto(n) |-> IF s = {} THEN 0 ELSE w[Picked(s)] + g[s \ {Picked(s)}]]
      <3>4. ASSUME NEW s \in Upto(n), s # {}
            PROVE  s \ {Picked(s)} \in Upto(n - 1) /\ s \ {Picked(s)} \in Upto(n)
        <4>1. /\ Cardinality(s \ {Picked(s)}) = Cardinality(s) - 1 /\ s \ {Picked(s)} \in SUBSET S
              /\ Cardinality(s) \in Nat /\ Cardinality(s) <= n
          BY <1>2, <2>3, <3>4
        <4> QED BY <4>1
      <3>5. \A s \in Upto(n - 1) : s \in Upto(n)
        <4> TAKE s \in Upto(n - 1)
        <4>1. s \in SUBSET S /\ Cardinality(s) \in Nat /\ Cardinality(s) <= n - 1
          BY <1>1
        <4> QED BY <4>1
      <3>6. \A s \in Upto(n - 1) : h[s] = g[s]
        <4> HIDE DEF Upto
        <4> QED BY <3>3, <3>5 DEF Sums
      <3>7. h \in [Upto(n) -> Int]
        <4>1. ASSUME NEW s \in Upto(n), s # {} PROVE w[Picked(s)] + g[s \ {Picked(s)}] \in Int
          <5>1. w[Picked(s)] \in Int
            BY <1>2, <2>3, <4>1
          <5>2. g[s \ {Picked(s)}] \in Int
            <6> HIDE DEF Upto
            <6> QED BY <3>3, <3>4, <4>1
          <5> QED BY <5>1, <5>2
        <4> HIDE DEF Upto
        <4> QED BY <4>1
      <3>8. Sums(h, w, Upto(n))
        <4>1. \A s \in Upto(n) : s # {} => h[s \ {Picked(s)}] = g[s \ {Picked(s)}]
          <5> HIDE DEF Upto, h
          <5> QED BY <3>4, <3>6
        <4>2. h = [s \in Upto(n) |-> IF s = {} THEN 0 ELSE w[Picked(s)] + h[s \ {Picked(s)}]]
          <5> DEFINE k == [s \in Upto(n) |-> IF s = {} THEN 0 ELSE w[Picked(s)] + h[s \ {Picked(s)}]]
          <5>1. \A s \in Upto(n) : h[s] = k[s]
            <6> HIDE DEF Upto
            <6> QED BY <4>1
          <5> QED BY <5>1
        <4> HIDE DEF Upto, h
        <4> QED BY <4>2 DEF Sums
      <3> HIDE DEF h
      <3> QED BY <2>2, <3>7, <3>8
    <2> QED BY <2>4, <2>5
  <1>4. Cardinality(S) \in Nat
    BY FS_CardinalityType
  <1>5. Upto(Cardinality(S)) = SUBSET S
    BY <1>1
  <1>6. PICK g \in [Upto(Cardinality(S)) -> Int] : Sums(g, w, Upto(Cardinality(S)))
    BY <1>3, <1>4
  <1> HIDE DEF Upto
  <1> QED BY <1>5, <1>6

\* Two such sums are the same, so SumFunction is the one there is.
LEMMA SumIs ==
    ASSUME NEW S, IsFiniteSet(S), NEW w \in [S -> Int]
    PROVE  \E g \in [SUBSET S -> Int] : Sums(g, w, SUBSET S) /\ SumFunction(w) = g[S]
  <1> DEFINE D == SUBSET S
             f == CHOOSE h : Sums(h, w, D)
  <1>1. SumFunction(w) = f[S]
    <2>1. DOMAIN w = S
      OBVIOUS
    <2> QED BY <2>1, Zenon DEF SumFunction, SumFunctionOnSet, FoldFunctionOnSet, MapThenFoldSet, Picked, Sums
  <1>2. PICK g \in [D -> Int] : Sums(g, w, D)
    BY SumExists
  <1>3. Sums(f, w, D)
    BY <1>2
  <1> HIDE DEF f
  <1>4. \A s \in D : /\ s = {} => f[s] = 0 /\ g[s] = 0
                     /\ s # {} => /\ f[s] = w[Picked(s)] + f[s \ {Picked(s)}]
                                  /\ g[s] = w[Picked(s)] + g[s \ {Picked(s)}]
    <2> HIDE DEF D
    <2> QED BY <1>2, <1>3 DEF Sums
  <1> DEFINE apart == {n \in Nat : \E s \in D : Cardinality(s) = n /\ f[s] # g[s]}
  <1>5. apart = {}
    <2>1. SUFFICES ASSUME apart # {} PROVE FALSE
      OBVIOUS
    <2>2. PICK n \in apart : \A k \in apart : n <= k
      <3>1. apart \in SUBSET Nat
        OBVIOUS
      <3> HIDE DEF apart
      <3>2. Min(apart) \in apart /\ \A k \in apart : Min(apart) <= k
        BY <2>1, <3>1, LeastIs
      <3> QED BY <3>2
    <2>3. PICK s \in D : Cardinality(s) = n /\ f[s] # g[s]
      BY <2>2
    <2>4. s # {}
      BY <1>4, <2>3
    <2>5. IsFiniteSet(s) /\ Picked(s) \in s
      BY <2>4, FS_Subset DEF Picked
    <2>6. s \ {Picked(s)} \in D /\ Cardinality(s \ {Picked(s)}) = n - 1 /\ n - 1 \in Nat
      <3>1. Cardinality(s \ {Picked(s)}) = n - 1
        BY <2>3, <2>5, FS_RemoveElement
      <3>2. Cardinality(s \ {Picked(s)}) \in Nat
        BY <2>5, FS_RemoveElement, FS_CardinalityType
      <3> QED BY <3>1, <3>2
    <2>7. f[s \ {Picked(s)}] = g[s \ {Picked(s)}]
      BY <2>2, <2>6
    <2> QED BY <1>4, <2>3, <2>4, <2>7
  <1>6. f[S] = g[S]
    <2>1. S \in D /\ Cardinality(S) \in Nat
      BY FS_CardinalityType
    <2> QED BY <1>5, <2>1
  <1> QED BY <1>1, <1>2, <1>6

\* Summand by summand.
LEMMA SumMonotone ==
    ASSUME NEW S, IsFiniteSet(S), NEW w \in [S -> Int], NEW v \in [S -> Int],
           \A k \in S : w[k] <= v[k]
    PROVE  SumFunction(w) <= SumFunction(v) /\ SumFunction(w) \in Int /\ SumFunction(v) \in Int
  <1> DEFINE D == SUBSET S
  <1>1. PICK g \in [D -> Int] : Sums(g, w, D) /\ SumFunction(w) = g[S]
    BY SumIs
  <1>2. PICK h \in [D -> Int] : Sums(h, v, D) /\ SumFunction(v) = h[S]
    BY SumIs
  <1>3. \A s \in D : /\ s = {} => g[s] = 0 /\ h[s] = 0
                     /\ s # {} => /\ g[s] = w[Picked(s)] + g[s \ {Picked(s)}]
                                  /\ h[s] = v[Picked(s)] + h[s \ {Picked(s)}]
    <2> HIDE DEF D
    <2> QED BY <1>1, <1>2 DEF Sums
  <1> DEFINE more == {n \in Nat : \E s \in D : Cardinality(s) = n /\ ~(g[s] <= h[s])}
  <1>4. more = {}
    <2>1. SUFFICES ASSUME more # {} PROVE FALSE
      OBVIOUS
    <2>2. PICK n \in more : \A k \in more : n <= k
      <3>1. more \in SUBSET Nat
        OBVIOUS
      <3> HIDE DEF more
      <3>2. Min(more) \in more /\ \A k \in more : Min(more) <= k
        BY <2>1, <3>1, LeastIs
      <3> QED BY <3>2
    <2>3. PICK s \in D : Cardinality(s) = n /\ ~(g[s] <= h[s])
      BY <2>2
    <2>4. s # {}
      <3>1. s = {} => g[s] = 0 /\ h[s] = 0
        BY <1>3
      <3> HIDE DEF D, more
      <3> QED BY <2>3, <3>1
    <2>5. IsFiniteSet(s) /\ Picked(s) \in s /\ Picked(s) \in S
      BY <2>4, FS_Subset DEF Picked
    <2>6. s \ {Picked(s)} \in D /\ Cardinality(s \ {Picked(s)}) = n - 1 /\ n - 1 \in Nat
      <3>1. Cardinality(s \ {Picked(s)}) = Cardinality(s) - 1
        BY <2>5, FS_RemoveElement
      <3>2. Cardinality(s \ {Picked(s)}) \in Nat
        BY <2>5, FS_RemoveElement, FS_CardinalityType
      <3> QED BY <2>3, <3>1, <3>2
    <2>7. g[s \ {Picked(s)}] <= h[s \ {Picked(s)}]
      BY <2>2, <2>6
    <2>8. /\ w[Picked(s)] \in Int /\ v[Picked(s)] \in Int /\ w[Picked(s)] <= v[Picked(s)]
          /\ g[s \ {Picked(s)}] \in Int /\ h[s \ {Picked(s)}] \in Int
      BY <1>1, <1>2, <2>5, <2>6
    <2>9. g[s] = w[Picked(s)] + g[s \ {Picked(s)}] /\ h[s] = v[Picked(s)] + h[s \ {Picked(s)}]
      BY <1>3, <2>4
    <2>10. g[s] <= h[s]
      BY <2>7, <2>8, <2>9
    <2> QED BY <2>3, <2>10
  <1>5. g[S] <= h[S] /\ g[S] \in Int /\ h[S] \in Int
    <2>1. S \in D /\ Cardinality(S) \in Nat
      BY FS_CardinalityType
    <2> QED BY <1>1, <1>2, <1>4, <2>1
  <1> QED BY <1>1, <1>2, <1>5

\* A function of the subsets with the two equations of a sum, whichever element is
\* taken off, is the sum at the whole set.
LEMMA SumIsWhat ==
    ASSUME NEW S, IsFiniteSet(S), NEW w \in [S -> Int], NEW h \in [SUBSET S -> Int],
           h[{}] = 0, \A s \in SUBSET S : \A x \in s : h[s] = w[x] + h[s \ {x}]
    PROVE  SumFunction(w) = h[S]
  <1> DEFINE D == SUBSET S
  <1>1. PICK g \in [D -> Int] : Sums(g, w, D) /\ SumFunction(w) = g[S]
    BY SumIs
  <1>2. \A s \in D : /\ s = {} => g[s] = 0 /\ h[s] = 0
                     /\ s # {} => /\ g[s] = w[Picked(s)] + g[s \ {Picked(s)}]
                                  /\ h[s] = w[Picked(s)] + h[s \ {Picked(s)}]
    <2> SUFFICES ASSUME NEW s \in D
                 PROVE  /\ s = {} => g[s] = 0 /\ h[s] = 0
                        /\ s # {} => /\ g[s] = w[Picked(s)] + g[s \ {Picked(s)}]
                                     /\ h[s] = w[Picked(s)] + h[s \ {Picked(s)}]
      OBVIOUS
    <2>1. s # {} => Picked(s) \in s
      BY DEF Picked
    <2>2. g[s] = IF s = {} THEN 0 ELSE w[Picked(s)] + g[s \ {Picked(s)}]
      <3> HIDE DEF D
      <3> QED BY <1>1 DEF Sums
    <2> QED BY <2>1, <2>2
  <1> DEFINE apart == {n \in Nat : \E s \in D : Cardinality(s) = n /\ g[s] # h[s]}
  <1>3. apart = {}
    <2>1. SUFFICES ASSUME apart # {} PROVE FALSE
      OBVIOUS
    <2>2. PICK n \in apart : \A k \in apart : n <= k
      <3>1. apart \in SUBSET Nat
        OBVIOUS
      <3> HIDE DEF apart
      <3>2. Min(apart) \in apart /\ \A k \in apart : Min(apart) <= k
        BY <2>1, <3>1, LeastIs
      <3> QED BY <3>2
    <2>3. PICK s \in D : Cardinality(s) = n /\ g[s] # h[s]
      BY <2>2
    <2>4. s # {}
      BY <1>2, <2>3
    <2>5. IsFiniteSet(s) /\ Picked(s) \in s
      BY <2>4, FS_Subset DEF Picked
    <2>6. s \ {Picked(s)} \in D /\ Cardinality(s \ {Picked(s)}) = n - 1 /\ n - 1 \in Nat
      <3>1. Cardinality(s \ {Picked(s)}) = n - 1
        BY <2>3, <2>5, FS_RemoveElement
      <3>2. Cardinality(s \ {Picked(s)}) \in Nat
        BY <2>5, FS_RemoveElement, FS_CardinalityType
      <3> QED BY <3>1, <3>2
    <2>7. g[s \ {Picked(s)}] = h[s \ {Picked(s)}]
      BY <2>2, <2>6
    <2> QED BY <1>2, <2>3, <2>4, <2>7
  <1>4. g[S] = h[S]
    <2>1. S \in D /\ Cardinality(S) \in Nat
      BY FS_CardinalityType
    <2> QED BY <1>3, <2>1
  <1> QED BY <1>1, <1>4

\* A sum is such a function of the subsets: the order of the summands is of no account.
LEMMA SumOfSubsets ==
    ASSUME NEW S, IsFiniteSet(S), NEW w \in [S -> Int]
    PROVE  \E h \in [SUBSET S -> Int] :
              /\ h[{}] = 0 /\ \A s \in SUBSET S : \A x \in s : h[s] = w[x] + h[s \ {x}]
              /\ SumFunction(w) = h[S]
  <1> DEFINE D == SUBSET S
  <1>1. PICK g \in [D -> Int] : Sums(g, w, D) /\ SumFunction(w) = g[S]
    BY SumIs
  <1>2. \A s \in D : /\ s = {} => g[s] = 0
                     /\ s # {} => g[s] = w[Picked(s)] + g[s \ {Picked(s)}]
    <2> HIDE DEF D
    <2> QED BY <1>1 DEF Sums
  <1> DEFINE apart == {n \in Nat : \E s \in D : \E x \in s :
                          Cardinality(s) = n /\ g[s] # w[x] + g[s \ {x}]}
  <1>3. apart = {}
    <2>1. SUFFICES ASSUME apart # {} PROVE FALSE
      OBVIOUS
    <2>2. PICK n \in apart : \A k \in apart : n <= k
      <3>1. apart \in SUBSET Nat
        OBVIOUS
      <3> HIDE DEF apart
      <3>2. Min(apart) \in apart /\ \A k \in apart : Min(apart) <= k
        BY <2>1, <3>1, LeastIs
      <3> QED BY <3>2
    <2>0. PICK s \in D : \E x \in s : Cardinality(s) = n /\ g[s] # w[x] + g[s \ {x}]
      BY <2>2
    <2>3. PICK x \in s : Cardinality(s) = n /\ g[s] # w[x] + g[s \ {x}]
      BY <2>0
    <2>4. PICK y \in s : y = Picked(s)
      BY <2>3 DEF Picked
    <2>5. IsFiniteSet(s) /\ s \subseteq S /\ w[x] \in Int /\ w[y] \in Int
      BY FS_Subset
    <2>6. g[s] = w[y] + g[s \ {y}]
      BY <1>2, <2>4
    <2>7. x # y
      BY <2>3, <2>6
    <2>8. /\ s \ {y} \in D /\ s \ {x} \in D /\ (s \ {x}) \ {y} \in D /\ x \in s \ {y} /\ y \in s \ {x}
          /\ (s \ {y}) \ {x} = (s \ {x}) \ {y}
      BY <2>5, <2>7
    <2>9. /\ Cardinality(s \ {y}) = n - 1 /\ Cardinality(s \ {x}) = n - 1 /\ n - 1 \in Nat
      <3>1. Cardinality(s \ {y}) = n - 1 /\ Cardinality(s \ {x}) = n - 1
        BY <2>3, <2>5, FS_RemoveElement
      <3>2. Cardinality(s \ {x}) \in Nat
        BY <2>5, FS_RemoveElement, FS_CardinalityType
      <3> QED BY <3>1, <3>2
    <2>10. ASSUME NEW r \in D, Cardinality(r) = n - 1, NEW z \in r PROVE g[r] = w[z] + g[r \ {z}]
      <3>1. SUFFICES ASSUME g[r] # w[z] + g[r \ {z}] PROVE FALSE
        OBVIOUS
      <3>2. n - 1 \in apart
        BY <2>9, <2>10, <3>1
      <3>3. ~(n <= n - 1)
        BY <2>9
      <3> HIDE DEF apart
      <3> QED BY <2>2, <3>2, <3>3
    <2>11. g[s \ {y}] = w[x] + g[(s \ {y}) \ {x}]
      BY <2>8, <2>9, <2>10
    <2>12. g[s \ {x}] = w[y] + g[(s \ {x}) \ {y}]
      BY <2>8, <2>9, <2>10
    <2>13. PICK rest \in Int : rest = g[(s \ {x}) \ {y}]
      BY <2>8
    <2>14. g[s \ {y}] = w[x] + rest /\ g[s \ {x}] = w[y] + rest
      BY <2>8, <2>11, <2>12, <2>13
    <2> HIDE DEF apart, D
    <2>15. g[s] = w[x] + g[s \ {x}]
      BY <2>5, <2>6, <2>13, <2>14
    <2> QED BY <2>3, <2>15
  <1>4. ASSUME NEW s \in D, NEW x \in s PROVE g[s] = w[x] + g[s \ {x}]
    <2>1. Cardinality(s) \in Nat
      BY FS_Subset, FS_CardinalityType
    <2> QED BY <1>3, <2>1
  <1>5. g[{}] = 0
    BY <1>2
  <1> QED BY <1>1, <1>4, <1>5

LEMMA SumIsInt ==
    ASSUME NEW S, IsFiniteSet(S), NEW w \in [S -> Int]
    PROVE  SumFunction(w) \in Int
  <1>1. PICK h \in [SUBSET S -> Int] : SumFunction(w) = h[S]
    BY SumOfSubsets
  <1>2. S \in SUBSET S
    OBVIOUS
  <1> QED BY <1>1, <1>2

\* Two sums over the same set are one.
LEMMA SumAdd ==
    ASSUME NEW S, IsFiniteSet(S), NEW w \in [S -> Int], NEW z \in [S -> Int]
    PROVE  SumFunction([x \in S |-> w[x] + z[x]]) = SumFunction(w) + SumFunction(z)
  <1>1. PICK g \in [SUBSET S -> Int] :
           /\ g[{}] = 0 /\ \A s \in SUBSET S : \A x \in s : g[s] = w[x] + g[s \ {x}]
           /\ SumFunction(w) = g[S]
    BY SumOfSubsets
  <1>2. PICK h \in [SUBSET S -> Int] :
           /\ h[{}] = 0 /\ \A s \in SUBSET S : \A x \in s : h[s] = z[x] + h[s \ {x}]
           /\ SumFunction(z) = h[S]
    BY SumOfSubsets
  <1> DEFINE both == [x \in S |-> w[x] + z[x]]
             f == [s \in SUBSET S |-> g[s] + h[s]]
  <1>3. both \in [S -> Int] /\ f \in [SUBSET S -> Int] /\ f[{}] = 0 /\ f[S] = g[S] + h[S]
    BY <1>1, <1>2
  <1>4. ASSUME NEW s \in SUBSET S, NEW x \in s PROVE f[s] = both[x] + f[s \ {x}]
    <2>1. g[s] = w[x] + g[s \ {x}] /\ h[s] = z[x] + h[s \ {x}] /\ s \ {x} \in SUBSET S /\ x \in S
      BY <1>1, <1>2
    <2>2. w[x] \in Int /\ z[x] \in Int /\ g[s \ {x}] \in Int /\ h[s \ {x}] \in Int
      BY <2>1
    <2>3. f[s] = g[s] + h[s] /\ f[s \ {x}] = g[s \ {x}] + h[s \ {x}] /\ both[x] = w[x] + z[x]
      BY <2>1
    <2> HIDE DEF f, both
    <2> QED BY <2>1, <2>2, <2>3
  <1> HIDE DEF f, both
  <1>5. SumFunction(both) = f[S]
    BY <1>3, <1>4, SumIsWhat
  <1> QED BY <1>1, <1>2, <1>3, <1>5 DEF both

\* What is zero outside a part may be summed over the part.
LEMMA SumOfPart ==
    ASSUME NEW S, IsFiniteSet(S), NEW T \in SUBSET S, NEW w \in [T -> Int],
           NEW all \in [S -> Int], \A x \in T : all[x] = w[x], \A x \in S \ T : all[x] = 0
    PROVE  SumFunction(all) = SumFunction(w)
  <1>1. IsFiniteSet(T)
    BY FS_Subset
  <1>2. PICK h \in [SUBSET T -> Int] :
           /\ h[{}] = 0 /\ \A s \in SUBSET T : \A x \in s : h[s] = w[x] + h[s \ {x}]
           /\ SumFunction(w) = h[T]
    BY <1>1, SumOfSubsets
  <1> DEFINE f == [s \in SUBSET S |-> h[s \cap T]]
  <1>3. f \in [SUBSET S -> Int]
    <2>1. \A s \in SUBSET S : s \cap T \in SUBSET T
      OBVIOUS
    <2> QED BY <2>1
  <1>4. f[{}] = 0 /\ f[S] = h[T]
    <2>1. {} \cap T = {} /\ S \cap T = T /\ {} \in SUBSET S /\ S \in SUBSET S
      OBVIOUS
    <2> QED BY <1>2, <2>1
  <1>5. ASSUME NEW s \in SUBSET S, NEW x \in s PROVE f[s] = all[x] + f[s \ {x}]
    <2>1. /\ f[s] = h[s \cap T] /\ f[s \ {x}] = h[(s \ {x}) \cap T]
          /\ s \cap T \in SUBSET T /\ x \in S
      OBVIOUS
    <2>2. CASE x \in T
      <3>1. (s \ {x}) \cap T = (s \cap T) \ {x} /\ x \in s \cap T /\ all[x] = w[x]
        BY <2>2
      <3>2. h[s \cap T] = w[x] + h[(s \cap T) \ {x}]
        BY <1>2, <2>1, <3>1
      <3> HIDE DEF f
      <3> QED BY <2>1, <3>1, <3>2
    <2>3. CASE x \notin T
      <3>1. (s \ {x}) \cap T = s \cap T /\ all[x] = 0
        BY <2>3
      <3>2. PICK rest \in Int : rest = h[s \cap T]
        BY <2>1
      <3> HIDE DEF f
      <3>3. f[s] = rest /\ f[s \ {x}] = rest
        BY <2>1, <3>1, <3>2
      <3> QED BY <3>1, <3>2, <3>3
    <2> QED BY <2>2, <2>3
  <1> HIDE DEF f
  <1>6. SumFunction(all) = f[S]
    <2>1. \A s \in SUBSET S : \A x \in s : f[s] = all[x] + f[s \ {x}]
      BY <1>5
    <2>2. all \in [S -> Int] /\ f \in [SUBSET S -> Int] /\ f[{}] = 0
      BY <1>3, <1>4
    <2> QED BY <2>1, <2>2, SumIsWhat
  <1> QED BY <1>2, <1>4, <1>6

\* The names of the summands are of no account.
LEMMA SumRenamed ==
    ASSUME NEW S, IsFiniteSet(S), NEW T, NEW f \in Bijection(T, S), NEW w \in [S -> Int],
           NEW named \in [T -> Int], \A x \in T : named[x] = w[f[x]]
    PROVE  SumFunction(named) = SumFunction(w)
  <1>1. /\ f \in [T -> S] /\ \A x, y \in T : f[x] = f[y] => x = y
        /\ \A y \in S : \E x \in T : f[x] = y
    BY DEF Bijection, Injection, Surjection, IsInjective
  <1>2. IsFiniteSet(T)
    BY FS_Injection DEF Bijection
  <1>3. PICK h \in [SUBSET S -> Int] :
           /\ h[{}] = 0 /\ \A s \in SUBSET S : \A x \in s : h[s] = w[x] + h[s \ {x}]
           /\ SumFunction(w) = h[S]
    BY SumOfSubsets
  <1> DEFINE image(s) == {f[x] : x \in s}
             g == [s \in SUBSET T |-> h[image(s)]]
  <1>4. \A s \in SUBSET T : image(s) \in SUBSET S
    BY <1>1
  <1>5. g \in [SUBSET T -> Int]
    <2> HIDE DEF image
    <2> QED BY <1>1, <1>4
  <1>6. g[{}] = 0 /\ g[T] = h[S]
    <2>1. image({}) = {} /\ image(T) = S
      BY <1>1
    <2> HIDE DEF image
    <2> QED BY <1>3, <2>1
  <1>7. ASSUME NEW s \in SUBSET T, NEW x \in s PROVE g[s] = named[x] + g[s \ {x}]
    <2>1. image(s \ {x}) = image(s) \ {f[x]} /\ f[x] \in image(s) /\ x \in T
      BY <1>1
    <2>2. g[s] = h[image(s)] /\ g[s \ {x}] = h[image(s \ {x})] /\ named[x] = w[f[x]]
      BY <2>1
    <2>3. image(s) \in SUBSET S
      BY <1>4
    <2> HIDE DEF image, g
    <2>4. h[image(s)] = w[f[x]] + h[image(s) \ {f[x]}]
      BY <1>3, <2>1, <2>3
    <2> QED BY <2>1, <2>2, <2>4
  <1> HIDE DEF g
  <1>8. SumFunction(named) = g[T]
    BY <1>2, <1>5, <1>6, <1>7, SumIsWhat
  <1> QED BY <1>3, <1>6, <1>8

\* As often as there are elements.
LEMMA SumOfConstant ==
    ASSUME NEW S, IsFiniteSet(S), NEW b \in Int, NEW w \in [S -> Int], \A x \in S : w[x] = b
    PROVE  SumFunction(w) = b * Cardinality(S)
  <1> DEFINE f == [s \in SUBSET S |-> b * Cardinality(s)]
  <1>1. \A s \in SUBSET S : IsFiniteSet(s) /\ Cardinality(s) \in Nat
    BY FS_Subset, FS_CardinalityType
  <1>2. f \in [SUBSET S -> Int]
    BY <1>1
  <1>3. f[{}] = 0
    <2>1. Cardinality({}) = 0
      BY FS_EmptySet
    <2> QED BY <2>1
  <1>4. ASSUME NEW s \in SUBSET S, NEW x \in s PROVE f[s] = w[x] + f[s \ {x}]
    <2>1. IsFiniteSet(s) /\ Cardinality(s) \in Nat /\ s \ {x} \in SUBSET S
      BY <1>1
    <2>2. PICK k \in Nat : k = Cardinality(s \ {x})
      BY <1>1, <2>1
    <2>3. Cardinality(s) = k + 1
      <3>1. Cardinality(s \ {x}) = Cardinality(s) - 1
        BY <2>1, FS_RemoveElement
      <3> HIDE DEF f
      <3> QED BY <2>1, <2>2, <3>1
    <2>4. b * (k + 1) = b + b * k
      OBVIOUS
    <2>5. f[s] = b * Cardinality(s) /\ f[s \ {x}] = b * Cardinality(s \ {x}) /\ w[x] = b
      BY <2>1
    <2> HIDE DEF f
    <2> QED BY <2>2, <2>3, <2>4, <2>5
  <1>5. f[S] = b * Cardinality(S)
    OBVIOUS
  <1> HIDE DEF f
  <1>6. SumFunction(w) = f[S]
    BY <1>2, <1>3, <1>4, SumIsWhat
  <1> QED BY <1>5, <1>6

=============================================================================
