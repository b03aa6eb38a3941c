----------------------------- MODULE DataTheorems -----------------------------
(***************************************************************************)
(* Division, least elements, induction, folds and sums over finite sets.   *)
(*                                                                         *)
(* Induction is stated over a set of good numbers, or of good subsets, and *)
(* a fold by a function that takes its steps: none has an operator as a    *)
(* parameter.                                                              *)
(***************************************************************************)
EXTENDS FiniteSetTheorems, WellFoundedInduction, TLAPS

-----------------------------------------------------------------------------
(* Arithmetic.                                                             *)

\* Division with remainder, and what it says of products.
LEMMA Quotient ==
  ASSUME NEW a \in Nat, NEW n \in Nat, n > 0
  PROVE  a \div n \in Nat /\ (a \div n) * n <= a /\ a < (a \div n + 1) * n
<1>1. a = (a \div n) * n + (a % n) /\ a % n \in 0 .. n - 1 /\ a \div n \in Nat
  OBVIOUS
<1> DEFINE q == a \div n
<1>2. (q + 1) * n = q * n + n
  <2>1. q \in Nat
    BY <1>1
  <2> HIDE DEF q
  <2> QED BY <2>1
<1> HIDE DEF q
<1>3. q \in Nat /\ a = q * n + (a % n) /\ a % n \in 0 .. n - 1 /\ q * n \in Nat
  BY <1>1 DEF q
<1>4. q \in Nat /\ q * n <= a /\ a < (q + 1) * n
  BY <1>2, <1>3
<1>5. QED
  BY <1>4 DEF q

\* Comparing products compares a factor.
LEMMA Factor ==
  ASSUME NEW a \in Int, NEW b \in Int, NEW n \in Nat, n > 0
  PROVE  /\ a <= b => a * n <= b * n
         /\ a * n < b * n => a < b
<1>1. ASSUME NEW x \in Int, NEW y \in Int, x <= y PROVE x * n <= y * n
  BY <1>1
<1>2. a * n < b * n => ~ (b <= a)
  BY <1>1
<1>3. QED
  BY <1>1, <1>2

-----------------------------------------------------------------------------
(* Least elements and induction.                                           *)

\* A nonempty set of naturals has a least element.
LEMMA LeastNatural ==
  ASSUME NEW T, T \subseteq Nat, T # {}
  PROVE  \E x \in T : \A y \in T : x <= y
<1>1. \E x \in T : \A y \in T : ~ (<<y, x>> \in OpToRel(<, Nat))
  BY NatLessThanWellFounded, WFMin
<1>2. PICK x \in T : \A y \in T : ~ (<<y, x>> \in OpToRel(<, Nat))
  BY <1>1
<1>3. ASSUME NEW y \in T PROVE x <= y
  <2>1. x \in Nat /\ y \in Nat
    OBVIOUS
  <2>2. y < x => <<y, x>> \in OpToRel(<, Nat)
    BY <2>1 DEF OpToRel
  <2>3. ~ (y < x)
    BY <1>2, <2>2, Zenon
  <2>4. QED
    BY <2>1, <2>3
<1>4. QED
  BY <1>3

\* So has a nonempty finite set of integers ...
LEMMA LeastInteger ==
  ASSUME NEW S, IsFiniteSet(S), S \subseteq Int, S # {}
  PROVE  \E x \in S : \A y \in S : x <= y
<1> DEFINE Below(x) == { y \in S : y < x }
           T == { Cardinality(Below(x)) : x \in S }
<1>1. \A x \in S : IsFiniteSet(Below(x)) /\ Cardinality(Below(x)) \in Nat
  BY FS_Subset, FS_CardinalityType
<1>2. T \subseteq Nat /\ T # {}
  BY <1>1
<1>3. PICK k \in T : \A j \in T : k <= j
  <2> HIDE DEF T
  <2> QED BY <1>2, LeastNatural
<1>4. PICK x \in S : k = Cardinality(Below(x))
  OBVIOUS
<1>5. ASSUME NEW y \in S, y < x PROVE FALSE
  <2>1. Below(y) \in SUBSET Below(x)
    <3>1. ASSUME NEW z \in S, z < y PROVE z < x
      <4>1. z \in Int /\ y \in Int /\ x \in Int
        OBVIOUS
      <4>2. QED
        BY <1>5, <3>1, <4>1
    <3>2. QED
      BY <3>1
  <2>2. y \in Below(x) /\ y \notin Below(y)
    BY <1>5
  <2>3. Cardinality(Below(y)) <= Cardinality(Below(x)) /\ Cardinality(Below(y)) # Cardinality(Below(x))
    <3> HIDE DEF Below
    <3> QED BY <1>1, <2>1, <2>2, FS_Subset
  <2>4. Cardinality(Below(x)) <= Cardinality(Below(y))
    BY <1>3, <1>4
  <2>5. QED
    <3> HIDE DEF Below
    <3> QED BY <1>1, <2>3, <2>4
<1>6. QED
  BY <1>5

\* ... and a greatest one.
LEMMA GreatestInteger ==
  ASSUME NEW S, IsFiniteSet(S), S \subseteq Int, S # {}
  PROVE  \E x \in S : \A y \in S : y <= x
<1> DEFINE f == [ x \in S |-> -x ]
           T == { -x : x \in S }
<1>1. f \in Surjection(S, T)
  BY DEF Surjection
<1>2. IsFiniteSet(T)
  <2> HIDE DEF T, f
  <2> QED BY <1>1, FS_Surjection
<1>3. T \subseteq Int /\ T # {}
  OBVIOUS
<1>4. PICK t \in T : \A u \in T : t <= u
  <2> HIDE DEF T
  <2> QED BY <1>2, <1>3, LeastInteger
<1>5. PICK x \in S : t = -x
  OBVIOUS
<1>6. ASSUME NEW y \in S PROVE y <= x
  <2>1. -y \in T
    OBVIOUS
  <2>2. t <= -y
    BY <1>4, <2>1
  <2>3. QED
    BY <1>5, <2>2
<1>7. QED
  BY <1>6

\* What holds of zero, and of n + 1 whenever of n, holds of all naturals.
LEMMA NumberInduction ==
  ASSUME NEW G, 0 \in G, \A n \in Nat : n \in G => n + 1 \in G
  PROVE  Nat \subseteq G
<1> DEFINE Bad == Nat \ G
<1> SUFFICES ASSUME Bad # {} PROVE FALSE
  OBVIOUS
<1>1. PICK n \in Bad : \A m \in Bad : n <= m
  <2>1. Bad \subseteq Nat
    OBVIOUS
  <2> HIDE DEF Bad
  <2> QED BY <2>1, LeastNatural
<1>2. n \in Nat /\ n # 0
  OBVIOUS
<1>3. n - 1 \in Nat /\ n - 1 \notin Bad
  BY <1>1, <1>2
<1>4. QED
  BY <1>2, <1>3

\* n steps, each from a value in X to one in X, and values they go through.
Stepping(X, first, n, step) ==
  first \in X /\ n \in Nat /\ \A k \in 1 .. n, x \in X : step[k][x] \in X

Stepped(f, first, n, step) ==
  f[0] = first /\ \A k \in 1 .. n : f[k] = step[k][f[k - 1]]

\* A sequence of values may be built step by step.
LEMMA StepsExist ==
  ASSUME NEW X, NEW first, NEW n, NEW step, Stepping(X, first, n, step)
  PROVE  \E f \in [0 .. n -> X] : Stepped(f, first, n, step)
<1> USE DEF Stepping
<1> DEFINE Built(f, k) == f[0] = first /\ \A i \in 1 .. k : f[i] = step[i][f[i - 1]]
           G == { k \in Nat : k <= n => \E f \in [0 .. k -> X] : Built(f, k) }
<1>1. 0 \in G
  <2> DEFINE f == [i \in 0 .. 0 |-> first]
  <2>1. f \in [0 .. 0 -> X] /\ Built(f, 0)
    OBVIOUS
  <2> HIDE DEF Built
  <2> QED BY <2>1
<1>2. ASSUME NEW k \in Nat, k \in G PROVE k + 1 \in G
  <2> SUFFICES ASSUME k + 1 <= n PROVE \E f \in [0 .. k + 1 -> X] : Built(f, k + 1)
    OBVIOUS
  <2>1. PICK f \in [0 .. k -> X] : Built(f, k)
    BY <1>2
  <2> DEFINE g == [i \in 0 .. k + 1 |-> IF i = k + 1 THEN step[k + 1][f[k]] ELSE f[i]]
  <2>2. k + 1 \in 1 .. n /\ f[k] \in X
    OBVIOUS
  <2>3. step[k + 1][f[k]] \in X
    BY <2>2
  <2>4. g \in [0 .. k + 1 -> X]
    BY <2>3
  <2>5. Built(g, k + 1)
    BY <2>1
  <2> HIDE DEF g, Built
  <2> QED BY <2>4, <2>5
<1>3. n \in G
  <2> HIDE DEF G
  <2> QED BY <1>1, <1>2, NumberInduction
<1>4. QED
  BY <1>3 DEF Stepped

\* What holds of the empty set, and of a set with one more element, holds of a
\* finite set.
LEMMA SubsetInduction ==
  ASSUME NEW S, IsFiniteSet(S), NEW G, {} \in G,
         \A T \in SUBSET S : T \in G => \A x \in S \ T : T \cup {x} \in G
  PROVE  \A T \in SUBSET S : T \in G
<1> DEFINE Bad == { T \in SUBSET S : T \notin G }
           Sizes == { Cardinality(T) : T \in Bad }
<1> SUFFICES ASSUME Bad # {} PROVE FALSE
  OBVIOUS
<1>1. \A T \in SUBSET S : IsFiniteSet(T) /\ Cardinality(T) \in Nat
  BY FS_Subset, FS_CardinalityType
<1>2. Sizes \subseteq Nat /\ Sizes # {}
  BY <1>1
<1>3. PICK n \in Sizes : \A m \in Sizes : n <= m
  <2> HIDE DEF Sizes
  <2> QED BY <1>2, LeastNatural
<1>4. PICK T \in Bad : n = Cardinality(T)
  OBVIOUS
<1>5. PICK x : x \in T
  OBVIOUS
<1> DEFINE U == T \ {x}
<1>6. U \in SUBSET S /\ x \in S \ U /\ T = U \cup {x}
  BY <1>5
<1>7. Cardinality(U) = n - 1 /\ n \in Nat
  BY <1>1, <1>4, <1>5, FS_RemoveElement
<1>8. U \notin Bad
  <2>1. U \in Bad => Cardinality(U) \in Sizes
    OBVIOUS
  <2> HIDE DEF U, Bad, Sizes
  <2> QED BY <1>3, <1>7, <2>1
<1>9. U \in G
  BY <1>6, <1>8
<1>10. T \in G
  <2> HIDE DEF U
  <2> QED BY <1>6, <1>9
<1>11. QED
  BY <1>4, <1>10

-----------------------------------------------------------------------------
(* Folds: MapThenFoldSet picks an element of a set, and takes a step from  *)
(* what it has made of the rest.                                           *)

\* A recursion over the subsets of S, with values in X.
Folding(S, X, base, pick, step) ==
  /\ IsFiniteSet(S)
  /\ base \in X
  /\ \A s \in SUBSET S : s # {} => pick[s] \in s
  /\ \A s \in SUBSET S, x \in X : step[s][x] \in X

Folded(g, S, base, pick, step) ==
  \A s \in SUBSET S : g[s] = IF s = {} THEN base ELSE step[s][g[s \ {pick[s]}]]

\* It defines a function.
LEMMA FoldsExist ==
  ASSUME NEW S, NEW X, NEW base, NEW pick, NEW step, Folding(S, X, base, pick, step)
  PROVE  \E g \in [SUBSET S -> X] : Folded(g, S, base, pick, step)
<1> IsFiniteSet(S) /\ base \in X
    /\ (\A s \in SUBSET S : s # {} => pick[s] \in s)
    /\ (\A s \in SUBSET S, x \in X : step[s][x] \in X)
  BY DEF Folding
<1> DEFINE Next(g, s) == IF s = {} THEN base ELSE step[s][g[s \ {pick[s]}]]
           L(n) == { s \in SUBSET S : Cardinality(s) <= n }
           G == { n \in Nat : \E g \in [L(n) -> X] : \A s \in L(n) : g[s] = Next(g, s) }
<1>0. \A s \in SUBSET S : IsFiniteSet(s) /\ Cardinality(s) \in Nat
  BY FS_Subset, FS_CardinalityType
<1>1. 0 \in G
  <2>1. L(0) = {{}}
    BY <1>0, FS_EmptySet
  <2>2. [s \in {{}} |-> base] \in [{{}} -> X]
    OBVIOUS
  <2>3. \A s \in {{}} : [t \in {{}} |-> base][s] = Next([t \in {{}} |-> base], s)
    OBVIOUS
  <2>4. \E g \in [L(0) -> X] : \A s \in L(0) : g[s] = Next(g, s)
    <3> HIDE DEF Next
    <3> QED BY <2>1, <2>2, <2>3
  <2>5. QED
    BY <2>4
<1>2. ASSUME NEW n \in Nat, n \in G PROVE n + 1 \in G
  <2>1. PICK g \in [L(n) -> X] : \A s \in L(n) : g[s] = Next(g, s)
    BY <1>2
  <2> DEFINE f == [s \in L(n + 1) |-> Next(g, s)]
  <2>2. ASSUME NEW s \in L(n + 1), s # {} PROVE s \ {pick[s]} \in L(n)
    <3>1. PICK x \in s : x = pick[s]
      BY <2>2
    <3>2. Cardinality(s \ {x}) = Cardinality(s) - 1 /\ Cardinality(s) \in Nat
      BY <1>0, FS_RemoveElement
    <3>3. s \ {x} \in L(n)
      BY <3>2
    <3>4. QED
      BY <3>1, <3>3
  <2>3. f \in [L(n + 1) -> X]
    <3>1. ASSUME NEW s \in L(n + 1) PROVE Next(g, s) \in X
      <4>1. s \in SUBSET S
        OBVIOUS
      <4>2. s # {} => g[s \ {pick[s]}] \in X
        <5> HIDE DEF L
        <5> QED BY <2>2
      <4> HIDE DEF L
      <4> QED BY <4>1, <4>2
    <3> HIDE DEF L, Next
    <3> QED BY <3>1
  <2>4. \A s \in L(n) : s \in L(n + 1) /\ f[s] = g[s]
    <3>1. \A s \in L(n) : s \in L(n + 1)
      BY <1>0
    <3> HIDE DEF L, Next
    <3> QED BY <2>1, <3>1
  <2>5. ASSUME NEW s \in L(n + 1) PROVE f[s] = Next(f, s)
    <3>1. f[s] = Next(g, s)
      OBVIOUS
    <3>2. s # {} => f[s \ {pick[s]}] = g[s \ {pick[s]}]
      <4> HIDE DEF L, f
      <4> QED BY <2>2, <2>4
    <3> HIDE DEF L, f
    <3> QED BY <3>1, <3>2
  <2>6. QED
    <3> HIDE DEF L, f, Next
    <3>1. n + 1 \in Nat
      OBVIOUS
    <3> QED BY <2>3, <2>5, <3>1
<1>3. Nat \subseteq G
  <2> HIDE DEF G
  <2> QED BY <1>1, <1>2, NumberInduction
<1>4. PICK n \in Nat : n = Cardinality(S)
  BY FS_CardinalityType
<1>5. L(n) = SUBSET S
  BY <1>0, <1>4, FS_Subset
<1>6. PICK g \in [L(n) -> X] : \A s \in L(n) : g[s] = Next(g, s)
  BY <1>3
<1>7. QED
  <2> HIDE DEF L
  <2> QED BY <1>5, <1>6 DEF Folded

-----------------------------------------------------------------------------
(* Sums: MapThenSumSet takes any element away and adds up the rest.        *)

Added(g, h, s) ==
  IF s = {} THEN 0
  ELSE h[CHOOSE x \in s : TRUE] + g[s \ {CHOOSE x \in s : TRUE}]

\* g adds up h over the subsets of S.
AddsUp(g, h, S) == g = [s \in SUBSET S |-> Added(g, h, s)]

SumOver(h, S) == (CHOOSE g : AddsUp(g, h, S))[S]

\* There is such a g.
LEMMA SumsExist ==
  ASSUME NEW S, IsFiniteSet(S), NEW h, \A x \in S : h[x] \in Int
  PROVE  \E g \in [SUBSET S -> Int] : AddsUp(g, h, S)
<1> DEFINE pick == [s \in SUBSET S |-> CHOOSE x \in s : TRUE]
           step == [s \in SUBSET S |-> [x \in Int |->
                      IF s = {} THEN 0 ELSE h[CHOOSE y \in s : TRUE] + x]]
<1>1. \A s \in SUBSET S : s # {} => pick[s] \in s
  OBVIOUS
<1>2. \A s \in SUBSET S, x \in Int :
        step[s][x] = IF s = {} THEN 0 ELSE h[CHOOSE y \in s : TRUE] + x
  OBVIOUS
<1>3. \A s \in SUBSET S, x \in Int : step[s][x] \in Int
  <2>1. \A s \in SUBSET S : s # {} => h[CHOOSE y \in s : TRUE] \in Int
    BY <1>1
  <2> HIDE DEF step
  <2> QED BY <1>2, <2>1
<1>4. PICK g \in [SUBSET S -> Int] : \A s \in SUBSET S :
        g[s] = IF s = {} THEN 0 ELSE step[s][g[s \ {pick[s]}]]
  <2>1. Folding(S, Int, 0, pick, step)
    BY <1>1, <1>3 DEF Folding
  <2> HIDE DEF pick, step
  <2>2. \E g \in [SUBSET S -> Int] : Folded(g, S, 0, pick, step)
    BY <2>1, FoldsExist
  <2> QED BY <2>2 DEF Folded
<1>5. ASSUME NEW s \in SUBSET S PROVE g[s] = Added(g, h, s)
  <2>1. pick[s] = CHOOSE x \in s : TRUE
    OBVIOUS
  <2>2. g[s \ {pick[s]}] \in Int
    <3>1. s \ {pick[s]} \in SUBSET S
      OBVIOUS
    <3> HIDE DEF pick
    <3> QED BY <3>1
  <2> HIDE DEF pick, step
  <2> QED BY <1>2, <1>4, <2>1, <2>2, ZenonT(30) DEF Added
<1>6. QED
  BY <1>5 DEF AddsUp

\* There is only one.
LEMMA SumsUnique ==
  ASSUME NEW S, IsFiniteSet(S), NEW h, NEW f, NEW g, AddsUp(f, h, S), AddsUp(g, h, S)
  PROVE  f = g
<1> DEFINE G == { n \in Nat : \A s \in SUBSET S : Cardinality(s) = n => f[s] = g[s] }
<1>0. \A s \in SUBSET S : IsFiniteSet(s) /\ Cardinality(s) \in Nat
  BY FS_Subset, FS_CardinalityType
<1>1. \A s \in SUBSET S : f[s] = Added(f, h, s) /\ g[s] = Added(g, h, s)
  BY DEF AddsUp
<1>2. 0 \in G
  <2>1. ASSUME NEW s \in SUBSET S, Cardinality(s) = 0 PROVE f[s] = g[s]
    <3>1. s = {}
      BY <1>0, <2>1, FS_EmptySet
    <3>2. QED
      BY <1>1, <3>1 DEF Added
  <2>2. QED
    BY <2>1
<1>3. ASSUME NEW n \in Nat, n \in G PROVE n + 1 \in G
  <2>1. ASSUME NEW s \in SUBSET S, Cardinality(s) = n + 1 PROVE f[s] = g[s]
    <3>1. PICK x : x = CHOOSE y \in s : TRUE
      OBVIOUS
    <3>2. s # {}
      BY <2>1, FS_EmptySet
    <3>3. x \in s
      BY <3>1, <3>2
    <3>4. Cardinality(s \ {x}) = n
      BY <1>0, <2>1, <3>3, FS_RemoveElement
    <3>5. f[s \ {x}] = g[s \ {x}]
      BY <1>3, <3>4
    <3>6. QED
      BY <1>1, <3>1, <3>2, <3>5, ZenonT(30) DEF Added
  <2>2. QED
    BY <2>1
<1>4. Nat \subseteq G
  <2> HIDE DEF G
  <2> QED BY <1>2, <1>3, NumberInduction
<1>5. \A s \in SUBSET S : f[s] = g[s]
  BY <1>0, <1>4
<1>6. QED
  BY <1>5 DEF AddsUp

\* Whatever adds up h gives its sum, over every subset.
LEMMA SumIs ==
  ASSUME NEW S, IsFiniteSet(S), NEW h, NEW g, AddsUp(g, h, S), NEW T \in SUBSET S
  PROVE  g[T] = SumOver(h, T)
<1> DEFINE f == [s \in SUBSET T |-> g[s]]
<1>1. IsFiniteSet(T)
  BY FS_Subset
<1>2. AddsUp(f, h, T)
  <2>1. ASSUME NEW s \in SUBSET T PROVE f[s] = Added(f, h, s)
    <3>1. g[s] = Added(g, h, s)
      BY DEF AddsUp
    <3>2. f[s] = g[s] /\ s \ {CHOOSE x \in s : TRUE} \in SUBSET T
      OBVIOUS
    <3>3. f[s \ {CHOOSE x \in s : TRUE}] = g[s \ {CHOOSE x \in s : TRUE}]
      BY <3>2
    <3> HIDE DEF f
    <3> QED BY <3>1, <3>2, <3>3 DEF Added
  <2>2. f = [s \in SUBSET T |-> f[s]]
    OBVIOUS
  <2> HIDE DEF f
  <2> QED BY <2>1, <2>2 DEF AddsUp
<1>3. PICK e : e = CHOOSE total : AddsUp(total, h, T)
  OBVIOUS
<1>4. AddsUp(e, h, T)
  BY <1>2, <1>3
<1>5. e = f
  <2> HIDE DEF f
  <2> QED BY <1>1, <1>2, <1>4, SumsUnique
<1>6. QED
  BY <1>3, <1>5 DEF SumOver

\* The sum over a nonempty set is an element and the sum over the rest.
LEMMA SumStep ==
  ASSUME NEW S, IsFiniteSet(S), NEW h, \A x \in S : h[x] \in Int
  PROVE  /\ SumOver(h, S) \in Int
         /\ S = {} => SumOver(h, S) = 0
         /\ S # {} => SumOver(h, S) = h[CHOOSE x \in S : TRUE]
                                        + SumOver(h, S \ {CHOOSE x \in S : TRUE})
<1>1. PICK g \in [SUBSET S -> Int] : AddsUp(g, h, S)
  BY SumsExist
<1>2. \A T \in SUBSET S : g[T] = SumOver(h, T)
  BY <1>1, SumIs
<1>3. g[S] = Added(g, h, S)
  BY <1>1 DEF AddsUp
<1>4. S \in SUBSET S /\ S \ {CHOOSE x \in S : TRUE} \in SUBSET S
  OBVIOUS
<1>5. g[S] \in Int
  BY <1>1
<1>6. QED
  BY <1>2, <1>3, <1>4, <1>5 DEF Added

\* It does not matter which element.
LEMMA SumAdd ==
  ASSUME NEW S, IsFiniteSet(S), NEW h, \A x \in S : h[x] \in Int, NEW a \in S
  PROVE  SumOver(h, S) = h[a] + SumOver(h, S \ {a})
<1> DEFINE Good(T) == \A x \in T : SumOver(h, T) = h[x] + SumOver(h, T \ {x})
           G == { n \in Nat : \A T \in SUBSET S : Cardinality(T) = n => Good(T) }
<1>0. \A s \in SUBSET S : IsFiniteSet(s) /\ Cardinality(s) \in Nat
  BY FS_Subset, FS_CardinalityType
<1>1. 0 \in G
  <2>1. ASSUME NEW T \in SUBSET S, Cardinality(T) = 0 PROVE Good(T)
    BY <1>0, <2>1, FS_EmptySet
  <2>2. QED
    BY <2>1
<1>2. ASSUME NEW n \in Nat, n \in G PROVE n + 1 \in G
  <2>1. ASSUME NEW T \in SUBSET S, Cardinality(T) = n + 1, NEW x \in T
        PROVE  SumOver(h, T) = h[x] + SumOver(h, T \ {x})
    <3>1. PICK y : y = CHOOSE one \in T : TRUE
      OBVIOUS
    <3>2. y \in T /\ T # {}
      BY <3>1
    <3>3. SumOver(h, T) = h[y] + SumOver(h, T \ {y})
      BY <1>0, <3>1, <3>2, SumStep
    <3>4. CASE x = y
      BY <3>3, <3>4
    <3>5. CASE x # y
      <4>1. Cardinality(T \ {x}) = n /\ Cardinality(T \ {y}) = n
        BY <1>0, <2>1, <3>2, FS_RemoveElement
      <4>2. Good(T \ {x}) /\ Good(T \ {y})
        BY <1>2, <4>1
      <4>3. x \in T \ {y} /\ y \in T \ {x} /\ (T \ {y}) \ {x} = (T \ {x}) \ {y}
        BY <3>2, <3>5
      <4>4. PICK w : w = SumOver(h, (T \ {x}) \ {y})
        OBVIOUS
      <4>5. SumOver(h, T \ {y}) = h[x] + w /\ SumOver(h, T \ {x}) = h[y] + w
        BY <4>2, <4>3, <4>4
      <4>6. w \in Int
        <5>1. IsFiniteSet((T \ {x}) \ {y}) /\ \A z \in (T \ {x}) \ {y} : h[z] \in Int
          BY <1>0
        <5>2. QED
          BY <4>4, <5>1, SumStep
      <4>7. h[x] \in Int /\ h[y] \in Int
        BY <3>2
      <4>8. QED
        BY <3>3, <4>5, <4>6, <4>7
    <3>6. QED
      BY <3>4, <3>5
  <2>2. QED
    BY <2>1
<1>3. Nat \subseteq G
  <2> HIDE DEF G
  <2> QED BY <1>1, <1>2, NumberInduction
<1>4. QED
  BY <1>0, <1>3

\* Summand by summand, a sum of greater values is no less, and of equal values
\* the same.
LEMMA SumMonotone ==
  ASSUME NEW S, IsFiniteSet(S), NEW f, NEW h,
         \A x \in S : f[x] \in Int /\ h[x] \in Int /\ f[x] <= h[x]
  PROVE  SumOver(f, S) <= SumOver(h, S)
<1> DEFINE G == { T \in SUBSET S : SumOver(f, T) <= SumOver(h, T) }
<1>0. \A T \in SUBSET S : IsFiniteSet(T) /\ SumOver(f, T) \in Int /\ SumOver(h, T) \in Int
  BY FS_Subset, SumStep
<1>1. {} \in G
  BY <1>0, SumStep
<1>2. ASSUME NEW T \in SUBSET S, T \in G, NEW x \in S \ T PROVE T \cup {x} \in G
  <2>1. (T \cup {x}) \ {x} = T /\ T \cup {x} \in SUBSET S
    OBVIOUS
  <2>2. /\ SumOver(f, T \cup {x}) = f[x] + SumOver(f, T)
        /\ SumOver(h, T \cup {x}) = h[x] + SumOver(h, T)
    BY <1>0, <2>1, SumAdd
  <2>3. SumOver(f, T) <= SumOver(h, T)
    BY <1>2
  <2>4. SumOver(f, T \cup {x}) <= SumOver(h, T \cup {x})
    BY <1>0, <2>2, <2>3
  <2>5. QED
    BY <2>1, <2>4
<1>3. S \in G
  <2> HIDE DEF G
  <2> QED BY <1>1, <1>2, SubsetInduction
<1>4. QED
  BY <1>3

\* A value added to each summand is added as often as there are summands.
LEMMA SumConstant ==
  ASSUME NEW S, IsFiniteSet(S), NEW c \in Int, NEW h, \A x \in S : h[x] = c
  PROVE  SumOver(h, S) = c * Cardinality(S)
<1> DEFINE G == { T \in SUBSET S : SumOver(h, T) = c * Cardinality(T) }
<1>0. \A T \in SUBSET S : IsFiniteSet(T) /\ SumOver(h, T) \in Int /\ Cardinality(T) \in Nat
  BY FS_Subset, FS_CardinalityType, SumStep
<1>1. {} \in G
  BY <1>0, SumStep, FS_EmptySet
<1>2. ASSUME NEW T \in SUBSET S, T \in G, NEW x \in S \ T PROVE T \cup {x} \in G
  <2>1. (T \cup {x}) \ {x} = T /\ T \cup {x} \in SUBSET S
    OBVIOUS
  <2>2. SumOver(h, T \cup {x}) = h[x] + SumOver(h, T)
    BY <1>0, <2>1, SumAdd
  <2>3. Cardinality(T \cup {x}) = Cardinality(T) + 1
    BY <1>0, FS_AddElement
  <2>4. SumOver(h, T) = c * Cardinality(T) /\ h[x] = c
    BY <1>2
  <2>5. PICK k \in Nat : k = Cardinality(T)
    BY <1>0
  <2>6. c * (k + 1) = c + c * k
    OBVIOUS
  <2>7. QED
    BY <2>1, <2>2, <2>3, <2>4, <2>5, <2>6
<1>3. S \in G
  <2> HIDE DEF G
  <2> QED BY <1>1, <1>2, SubsetInduction
<1>4. QED
  BY <1>3

\* A sum of naturals is one.
LEMMA SumNatural ==
  ASSUME NEW S, IsFiniteSet(S), NEW h, \A x \in S : h[x] \in Nat
  PROVE  SumOver(h, S) \in Nat
<1> DEFINE zero == [x \in S |-> 0]
<1>1. PICK c \in Int : c = 0
  OBVIOUS
<1>2. \A x \in S : zero[x] = c /\ zero[x] \in Int /\ h[x] \in Int /\ zero[x] <= h[x]
  BY <1>1
<1>3. SumOver(zero, S) = c * Cardinality(S) /\ SumOver(zero, S) <= SumOver(h, S)
  <2> HIDE DEF zero
  <2> QED BY <1>2, SumConstant, SumMonotone
<1>4. Cardinality(S) \in Nat /\ SumOver(h, S) \in Int
  BY <1>2, FS_CardinalityType, SumStep
<1>5. QED
  BY <1>1, <1>3, <1>4

\* A sum does not depend on what its summands are indexed by.
LEMMA SumReindexed ==
  ASSUME NEW A, IsFiniteSet(A), NEW B, NEW f \in Bijection(A, B),
         NEW g, NEW h, \A x \in A : h[f[x]] \in Int /\ g[x] = h[f[x]]
  PROVE  SumOver(g, A) = SumOver(h, B)
<1> DEFINE Image(T) == { f[x] : x \in T }
           G == { T \in SUBSET A : SumOver(g, T) = SumOver(h, Image(T)) }
<1>1. /\ f \in [A -> B]
      /\ \A x, y \in A : f[x] = f[y] => x = y
      /\ \A y \in B : \E x \in A : f[x] = y
  BY DEF Bijection, Injection, IsInjective, Surjection
<1>2. IsFiniteSet(B)
  BY FS_Surjection DEF Bijection
<1>3. ASSUME NEW T \in SUBSET A
      PROVE  /\ IsFiniteSet(T) /\ IsFiniteSet(Image(T))
             /\ \A x \in T : g[x] \in Int
             /\ \A y \in Image(T) : h[y] \in Int
  <2>1. Image(T) \in SUBSET B
    BY <1>1
  <2>2. \A y \in Image(T) : h[y] \in Int
    OBVIOUS
  <2> HIDE DEF Image
  <2> QED BY <1>2, <2>1, <2>2, FS_Subset
<1>4. {} \in G
  <2>1. Image({}) = {}
    OBVIOUS
  <2>2. SumOver(g, {}) = 0 /\ SumOver(h, {}) = 0
    <3>1. IsFiniteSet({}) /\ (\A x \in {} : g[x] \in Int) /\ (\A x \in {} : h[x] \in Int)
      BY FS_EmptySet
    <3>2. QED
      BY <3>1, SumStep
  <2> HIDE DEF Image
  <2> QED BY <2>1, <2>2
<1>5. ASSUME NEW T \in SUBSET A, T \in G, NEW x \in A \ T PROVE T \cup {x} \in G
  <2>1. (T \cup {x}) \ {x} = T /\ T \cup {x} \in SUBSET A /\ x \in T \cup {x}
    OBVIOUS
  <2>2. Image(T \cup {x}) \ {f[x]} = Image(T) /\ f[x] \in Image(T \cup {x})
    BY <1>1
  <2>3. SumOver(g, T) = SumOver(h, Image(T))
    BY <1>5
  <2> HIDE DEF Image, G
  <2>4. /\ SumOver(g, T \cup {x}) = g[x] + SumOver(g, T)
        /\ SumOver(h, Image(T \cup {x})) = h[f[x]] + SumOver(h, Image(T))
    <3>1. PICK V, W : V = T \cup {x} /\ W = Image(V)
      OBVIOUS
    <3>2. /\ IsFiniteSet(V) /\ (\A y \in V : g[y] \in Int) /\ x \in V /\ V \ {x} = T
          /\ IsFiniteSet(W) /\ (\A y \in W : h[y] \in Int) /\ f[x] \in W /\ W \ {f[x]} = Image(T)
      BY <1>3, <2>1, <2>2, <3>1
    <3>3. SumOver(g, V) = g[x] + SumOver(g, V \ {x})
      BY <3>2, SumAdd
    <3>4. SumOver(h, W) = h[f[x]] + SumOver(h, W \ {f[x]})
      BY <3>2, SumAdd
    <3>5. QED
      BY <3>1, <3>2, <3>3, <3>4
  <2>5. SumOver(g, T \cup {x}) = SumOver(h, Image(T \cup {x}))
    BY <2>3, <2>4
  <2>6. QED
    BY <2>1, <2>5 DEF G
<1>6. A \in G
  <2> HIDE DEF G
  <2> QED BY <1>4, <1>5, SubsetInduction
<1>7. Image(A) = B
  BY <1>1
<1>8. QED
  <2> HIDE DEF Image
  <2> QED BY <1>6, <1>7

\* Summands that are zero can be left out.
LEMMA SumOfNonzero ==
  ASSUME NEW S, IsFiniteSet(S), NEW h, \A x \in S : h[x] \in Int,
         NEW J \in SUBSET S, \A x \in S \ J : h[x] = 0
  PROVE  SumOver(h, S) = SumOver(h, J)
<1> DEFINE R == S \ J
           G == { T \in SUBSET R : SumOver(h, J \cup T) = SumOver(h, J) }
<1>0. \A T \in SUBSET S : IsFiniteSet(T) /\ SumOver(h, T) \in Int
  BY FS_Subset, SumStep
<1>1. {} \in G
  <2>1. J \cup {} = J
    OBVIOUS
  <2>2. QED
    BY <2>1
<1>2. ASSUME NEW T \in SUBSET R, T \in G, NEW x \in R \ T PROVE T \cup {x} \in G
  <2>1. PICK U : U = J \cup (T \cup {x})
    OBVIOUS
  <2>2. U \ {x} = J \cup T /\ U \in SUBSET S /\ x \in U /\ h[x] = 0
    BY <2>1
  <2>3. SumOver(h, U) = h[x] + SumOver(h, U \ {x})
    BY <1>0, <2>2, SumAdd
  <2>4. SumOver(h, J \cup T) = SumOver(h, J) /\ SumOver(h, J) \in Int
    BY <1>0, <1>2
  <2>5. SumOver(h, U) = SumOver(h, J)
    <3>1. SumOver(h, U \ {x}) = SumOver(h, J)
      BY <2>2, <2>4, Zenon
    <3>2. QED
      BY <2>2, <2>3, <2>4, <3>1
  <2>6. QED
    BY <2>1, <2>5
<1>3. R \in G
  <2>1. IsFiniteSet(R)
    BY <1>0
  <2> HIDE DEF G, R
  <2>2. PICK Q, H : Q = R /\ H = G
    OBVIOUS
  <2>3. IsFiniteSet(Q) /\ {} \in H /\ \A T \in SUBSET Q : T \in H => \A x \in Q \ T : T \cup {x} \in H
    BY <1>1, <1>2, <2>1, <2>2
  <2>4. Q \in SUBSET Q
    OBVIOUS
  <2>5. Q \in H
    BY <2>3, <2>4, SubsetInduction
  <2> QED BY <2>2, <2>5
<1>4. J \cup R = S
  OBVIOUS
<1>5. QED
  BY <1>3, <1>4

\* Over S, a times f exceeds b times h by at most c.
Within(f, h, S, a, b, c) ==
  \A x \in S : f[x] \in Int /\ h[x] \in Int /\ a * f[x] <= b * h[x] + c

\* What each summand is off by at most, the sum is off by as often as there are
\* summands.
LEMMA SumRounded ==
  ASSUME NEW S, IsFiniteSet(S), NEW f, NEW h, NEW a \in Int, NEW b \in Int, NEW c \in Int,
         Within(f, h, S, a, b, c)
  PROVE  a * SumOver(f, S) <= b * SumOver(h, S) + c * Cardinality(S)
<1>0. \A x \in S : f[x] \in Int /\ h[x] \in Int /\ a * f[x] <= b * h[x] + c
  BY DEF Within
<1> DEFINE G == { T \in SUBSET S : a * SumOver(f, T) <= b * SumOver(h, T) + c * Cardinality(T) }
<1>1. \A T \in SUBSET S : /\ IsFiniteSet(T) /\ Cardinality(T) \in Nat
                          /\ SumOver(f, T) \in Int /\ SumOver(h, T) \in Int
  BY <1>0, FS_Subset, FS_CardinalityType, SumStep
<1>2. {} \in G
  <2>1. Cardinality({}) = 0 /\ SumOver(f, {}) = 0 /\ SumOver(h, {}) = 0
    <3>1. IsFiniteSet({}) /\ \A x \in {} : f[x] \in Int /\ h[x] \in Int
      BY FS_EmptySet
    <3>2. QED
      BY <3>1, FS_EmptySet, SumStep
  <2>2. a * 0 = 0 /\ b * 0 = 0 /\ c * 0 = 0
    OBVIOUS
  <2>3. a * SumOver(f, {}) <= b * SumOver(h, {}) + c * Cardinality({})
    BY <2>1, <2>2
  <2>4. QED
    BY <2>3
<1>3. ASSUME NEW T \in SUBSET S, T \in G, NEW x \in S \ T PROVE T \cup {x} \in G
  <2>1. PICK V : V = T \cup {x}
    OBVIOUS
  <2>2. /\ V \in SUBSET S /\ x \in V /\ V \ {x} = T
        /\ IsFiniteSet(V) /\ \A y \in V : f[y] \in Int /\ h[y] \in Int
    BY <1>0, <1>1, <2>1
  <2>3. SumOver(f, V) = f[x] + SumOver(f, V \ {x}) /\ SumOver(h, V) = h[x] + SumOver(h, V \ {x})
    BY <2>2, SumAdd
  <2>4. Cardinality(V) = Cardinality(T) + 1
    BY <1>1, <2>1, FS_AddElement
  <2>5. PICK u, v, w, z \in Int : u = f[x] /\ v = SumOver(f, T) /\ w = h[x] /\ z = SumOver(h, T)
    BY <1>0, <1>1
  <2>6. PICK k \in Int : k = Cardinality(T)
    BY <1>1
  <2>7. a * v <= b * z + c * k /\ a * u <= b * w + c
    BY <1>0, <1>3, <2>5, <2>6
  <2>8. a * (u + v) = a * u + a * v /\ b * (w + z) = b * w + b * z /\ c * (k + 1) = c * k + c
    OBVIOUS
  <2>9. PICK A, B, C, D, F \in Int : A = a * u /\ B = a * v /\ C = b * w /\ D = b * z /\ F = c * k
    <3>1. a * u \in Int /\ a * v \in Int /\ b * w \in Int /\ b * z \in Int /\ c * k \in Int
      OBVIOUS
    <3>2. QED
      BY <3>1
  <2>10. A + B <= (C + D) + (F + c)
    BY <2>7, <2>9
  <2>11. a * (u + v) <= b * (w + z) + c * (k + 1)
    BY <2>8, <2>9, <2>10
  <2>12. a * SumOver(f, V) <= b * SumOver(h, V) + c * Cardinality(V)
    BY <2>2, <2>3, <2>4, <2>5, <2>6, <2>11
  <2>13. QED
    BY <2>1, <2>2, <2>12
<1>4. S \in G
  <2> HIDE DEF G
  <2> QED BY <1>2, <1>3, SubsetInduction
<1>5. QED
  BY <1>4
=============================================================================
