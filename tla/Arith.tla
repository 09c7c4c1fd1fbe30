------------------------------- MODULE Arith -------------------------------
(***************************************************************************)
(* Facts that the proofs about the program's share and fee arithmetic      *)
(* cite: about products and quotients of natural numbers, about induction, *)
(* and about sums over finite sets.                                        *)
(***************************************************************************)
EXTENDS Integers, Functions, FiniteSetTheorems, TLAPS

\* The quotient of natural numbers is a natural number.
LEMMA DivNat ==
    ASSUME NEW a \in Nat, NEW b \in Nat, b > 0
    PROVE  a \div b \in Nat
OBVIOUS

\* Rounding down keeps the order.
LEMMA DivMonotone ==
    ASSUME NEW a \in Nat, NEW c \in Nat, NEW b \in Nat, b > 0, a <= c
    PROVE  a \div b <= c \div b
OBVIOUS

\* The product of natural numbers is a natural number.
LEMMA TimesNat ==
    ASSUME NEW a \in Nat, NEW b \in Nat
    PROVE  a * b \in Nat
OBVIOUS

\* Multiplying by a natural number keeps the order.
LEMMA TimesMonotone ==
    ASSUME NEW a \in Nat, NEW b \in Nat, NEW c \in Nat, b <= c
    PROVE  a * b <= a * c
OBVIOUS

\* A share f/d of an amount, f at most d, is at most the amount.
LEMMA FeeWithinAmount ==
    ASSUME NEW a \in Nat, NEW f \in Nat, NEW d \in Nat, d > 0, f <= d
    PROVE  (a * f) \div d <= a
OBVIOUS

\* A share rounded down is at most the exact one.
LEMMA FeeWithinShare ==
    ASSUME NEW a \in Nat, NEW f \in Nat, NEW d \in Nat, d > 0
    PROVE  ((a * f) \div d) * d <= a * f
OBVIOUS

\* A quotient rounded down leaves a remainder smaller than the divisor.
LEMMA DivBounds ==
    ASSUME NEW a \in Nat, NEW b \in Nat, b > 0
    PROVE  /\ b * (a \div b) <= a
           /\ a <= b * (a \div b) + (b - 1)
OBVIOUS

\* A number that fits into a quotient is at most the quotient rounded down,
\* and one the quotient fits into is at least that.
LEMMA DivLeast ==
    ASSUME NEW a \in Nat, NEW b \in Nat, b > 0, NEW q \in Nat
    PROVE  /\ b * q <= a => q <= a \div b
           /\ a <= b * q => a \div b <= q
OBVIOUS

\* A weight's share of an amount, rounded down once, against what it gets of
\* the amount per unit of weight, rounded down before it is multiplied.
LEMMA ShareOfWeight ==
    ASSUME NEW a \in Nat, NEW w \in Nat, NEW d \in Nat, d > 0
    PROVE  /\ w * (a \div d) <= (a * w) \div d
           /\ (a * w) \div d <= w * (a \div d) + w
<1> DEFINE q == a \div d
<1>1. q \in Nat /\ d * q <= a /\ a <= d * q + d
  BY DivNat, DivBounds
<1> HIDE DEF q
<1>2. w * (d * q) <= w * a /\ w * a <= w * (d * q + d)
  <2>1. d * q \in Nat /\ d * q + d \in Nat
    BY <1>1
  <2> QED
    BY <1>1, <2>1, TimesMonotone
<1>3. /\ w * (d * q) = d * (w * q)
      /\ w * (d * q + d) = d * (w * q + w)
      /\ w * a = a * w
  BY <1>1
<1>4. w * q \in Nat /\ w * q + w \in Nat /\ a * w \in Nat
  BY <1>1
<1>5. d * (w * q) <= a * w /\ a * w <= d * (w * q + w)
  BY <1>2, <1>3
<1> QED
  BY <1>4, <1>5, DivLeast DEF q

\* A common factor can be taken away from both sides.
LEMMA CancelFactor ==
    ASSUME NEW d \in Nat, d > 0, NEW x \in Int, NEW y \in Int, d * x <= y * d
    PROVE  x <= y
OBVIOUS

\* Nothing divided is nothing.
LEMMA ZeroDiv ==
    ASSUME NEW b \in Nat, b > 0
    PROVE  0 \div b = 0
OBVIOUS
----------------------------------------------------------------------------
(* Induction.  What is induced on is a set, of numbers or of sets, so that *)
(* these facts apply to any formula.                                       *)

\* The order of the natural numbers, as a relation.
Below == {p \in Nat \X Nat : p[1] < p[2]}

\* It has no infinite descent.
LEMMA BelowWellFounded == IsWellFoundedOn(Below, Nat)
  BY NatLessThanWellFounded DEF OpToRel, Below

\* A set of naturals with 0 and all successors is the set of all naturals.
LEMMA NumberInduction ==
    ASSUME NEW N \in SUBSET Nat, 0 \in N, \A n \in N : n + 1 \in N
    PROVE  N = Nat
  <1>1. SUFFICES ASSUME Nat \ N # {} PROVE FALSE
    OBVIOUS
  <1>2. PICK n \in Nat \ N : \A k \in Nat \ N : <<k, n>> \notin Below
    BY <1>1, BelowWellFounded, WFMin
  <1>3. n - 1 \in Nat /\ <<n - 1, n>> \in Below
    BY <1>2 DEF Below
  <1>4. n - 1 \in N
    BY <1>2, <1>3
  <1> QED
    BY <1>2, <1>4

\* A collection with the empty set, closed under adding elements, has every
\* finite set.
LEMMA SetInduction ==
    ASSUME NEW S, IsFiniteSet(S), NEW P, {} \in P,
           \A T \in SUBSET S : \A x \in S \ T : T \in P => T \cup {x} \in P
    PROVE  S \in P
  <1> DEFINE N == {n \in Nat : \A T \in SUBSET S : Cardinality(T) = n => T \in P}
  <1>1. 0 \in N
    <2>1. \A T \in SUBSET S : IsFiniteSet(T) /\ (Cardinality(T) = 0 => T = {})
      BY FS_Subset, FS_EmptySet
    <2> QED
      BY <2>1
  <1>2. ASSUME NEW n \in N
        PROVE  n + 1 \in N
    <2>1. SUFFICES ASSUME NEW T \in SUBSET S, Cardinality(T) = n + 1
                   PROVE  T \in P
      OBVIOUS
    <2>2. IsFiniteSet(T) /\ T # {}
      BY <2>1, FS_Subset, FS_EmptySet
    <2>3. PICK x \in T : TRUE
      BY <2>2
    <2>4. Cardinality(T \ {x}) = n
      <3>1. Cardinality(T \ {x}) = Cardinality(T) - 1
        BY <2>2, <2>3, FS_RemoveElement
      <3> QED
        BY <2>1, <3>1
    <2>5. T \ {x} \in P
      BY <2>4
    <2>6. (T \ {x}) \cup {x} \in P
      BY <2>3, <2>5
    <2>7. (T \ {x}) \cup {x} = T
      BY <2>3
    <2> QED
      BY <2>6, <2>7
  <1> HIDE DEF N
  <1>3. N = Nat
    <2>1. N \in SUBSET Nat
      BY DEF N
    <2> QED
      BY <1>1, <1>2, <2>1, NumberInduction
  <1>4. Cardinality(S) \in Nat
    BY FS_CardinalityType
  <1> QED
    BY <1>3, <1>4 DEF N

\* What a fold over the subsets of S needs, and a solution of the recursion
\* by which it is defined: pick names the element taken out of each.
Foldable(S, pick, V, base, step) ==
    /\ IsFiniteSet(S)
    /\ \A s \in SUBSET S : s # {} => pick[s] \in s
    /\ base \in V
    /\ \A x \in S, v \in V : step[<<x, v>>] \in V

Folds(S, pick, V, base, step, g) ==
    /\ g \in [SUBSET S -> V]
    /\ g[{}] = base
    /\ \A s \in SUBSET S : s # {} => g[s] = step[<<pick[s], g[s \ {pick[s]}]>>]

\* A fold over a finite set has values: its recursion has a solution.
LEMMA FoldExists ==
    ASSUME NEW S, NEW pick, NEW V, NEW base, NEW step,
           Foldable(S, pick, V, base, step)
    PROVE  \E g : Folds(S, pick, V, base, step, g)
  <1> USE DEF Foldable
  <1> DEFINE Level(n) == {s \in SUBSET S : Cardinality(s) <= n}
              Next(g, s) == IF s = {} THEN base
                            ELSE step[<<pick[s], g[s \ {pick[s]}]>>]
              N == {n \in Nat : \E g \in [Level(n) -> V] :
                                   \A s \in Level(n) : g[s] = Next(g, s)}
  <1>0. \A s \in SUBSET S : IsFiniteSet(s) /\ Cardinality(s) \in Nat
    BY FS_Subset, FS_CardinalityType
  <1>1. 0 \in N
    <2>1. Level(0) = {{}}
      BY <1>0, FS_EmptySet
    <2> DEFINE g == [s \in Level(0) |-> base]
    <2>2. g \in [Level(0) -> V] /\ \A s \in Level(0) : g[s] = Next(g, s)
      BY <2>1
    <2> QED
      BY <2>2
  <1>2. ASSUME NEW n \in N
        PROVE  n + 1 \in N
    <2>1. PICK g \in [Level(n) -> V] : \A s \in Level(n) : g[s] = Next(g, s)
      OBVIOUS
    <2> DEFINE h == [s \in Level(n + 1) |-> Next(g, s)]
    <2>2. \A s \in Level(n + 1) \ {{}} :
             /\ pick[s] \in S
             /\ s \ {pick[s]} \in Level(n)
             /\ s \ {pick[s]} \in Level(n + 1)
      <3>1. SUFFICES ASSUME NEW s \in Level(n + 1) \ {{}}
                     PROVE  pick[s] \in S /\ s \ {pick[s]} \in Level(n)
        BY <1>0
      <3>2. pick[s] \in s
        OBVIOUS
      <3>3. Cardinality(s \ {pick[s]}) = Cardinality(s) - 1
        BY <1>0, <3>2, FS_RemoveElement
      <3> QED
        BY <1>0, <3>2, <3>3
    <2>3. \A s \in Level(n + 1) : Next(g, s) \in V
      BY <2>2
    <2>4. \A s \in Level(n) : h[s] = g[s]
      BY <1>0, <2>1
    <2>5. \A s \in Level(n + 1) : h[s] = Next(h, s)
      BY <2>2, <2>4
    <2>6. h \in [Level(n + 1) -> V]
      BY <2>3
    <2> HIDE DEF h, Level, Next
    <2> QED
      BY <2>5, <2>6
  <1>3. N = Nat
    <2> HIDE DEF N
    <2>1. N \in SUBSET Nat
      BY DEF N
    <2> QED
      BY <1>1, <1>2, <2>1, NumberInduction
  <1>4. Level(Cardinality(S)) = SUBSET S /\ Cardinality(S) \in Nat
    BY FS_Subset, FS_CardinalityType
  <1>5. Cardinality(S) \in N
    BY <1>3, <1>4
  <1>6. PICK g \in [SUBSET S -> V] : \A s \in SUBSET S : g[s] = Next(g, s)
    BY <1>4, <1>5
  <1> QED
    BY <1>6 DEF Folds

----------------------------------------------------------------------------
(* Sums over finite sets, as SumFunction of the community modules computes *)
(* them: by taking out chosen elements one at a time.                      *)

\* The recursion that SumFunction unfolds to, and a function that gives every
\* subset its sum, in whichever order its elements are added.
Summing(f, S, g) ==
    g = [s \in SUBSET S |->
           IF s = {} THEN 0
           ELSE f[CHOOSE x \in s : TRUE] + g[s \ {CHOOSE x \in s : TRUE}]]

Sums(f, S, g) ==
    /\ g \in [SUBSET S -> Int]
    /\ g[{}] = 0
    /\ \A T \in SUBSET S : \A x \in S \ T : g[T \cup {x}] = f[x] + g[T]

\* The recursion has a solution ...
LEMMA SummingExists ==
    ASSUME NEW S, IsFiniteSet(S), NEW f \in [S -> Int]
    PROVE  \E g \in [SUBSET S -> Int] : Summing(f, S, g)
  <1> DEFINE pick == [s \in SUBSET S |-> CHOOSE x \in s : TRUE]
              step == [p \in S \X Int |-> f[p[1]] + p[2]]
  <1>1. \A s \in SUBSET S : s # {} => pick[s] \in s
    OBVIOUS
  <1>2. \A s \in SUBSET S : pick[s] = CHOOSE x \in s : TRUE
    OBVIOUS
  <1>3. \A x \in S, v \in Int : step[<<x, v>>] = f[x] + v /\ step[<<x, v>>] \in Int
    OBVIOUS
  <1> HIDE DEF pick, step
  <1>4. Foldable(S, pick, Int, 0, step)
    BY <1>1, <1>3 DEF Foldable
  <1>5. PICK g : Folds(S, pick, Int, 0, step, g)
    BY <1>4, FoldExists
  <1>6. /\ g \in [SUBSET S -> Int]
        /\ g[{}] = 0
        /\ \A s \in SUBSET S :
              s # {} => g[s] = step[<<pick[s], g[s \ {pick[s]}]>>]
    BY <1>5 DEF Folds
  <1>7. ASSUME NEW s \in SUBSET S, s # {}
        PROVE  g[s] = f[CHOOSE x \in s : TRUE] + g[s \ {CHOOSE x \in s : TRUE}]
    <2>1. pick[s] \in S /\ g[s \ {pick[s]}] \in Int
      BY <1>1, <1>6, <1>7
    <2>2. g[s] = f[pick[s]] + g[s \ {pick[s]}]
      BY <1>3, <1>6, <1>7, <2>1
    <2> QED
      BY <1>2, <2>2
  <1>8. g[{}] = 0
    BY <1>6
  <1>9. Summing(f, S, g)
    BY <1>6, <1>7, <1>8 DEF Summing
  <1> QED
    BY <1>6, <1>9

\* ... and every solution sums, whichever elements are chosen ...
LEMMA SummingSums ==
    ASSUME NEW S, IsFiniteSet(S), NEW f \in [S -> Int], NEW g, Summing(f, S, g)
    PROVE  Sums(f, S, g)
  <1>3. /\ DOMAIN g = SUBSET S
        /\ g[{}] = 0
        /\ \A s \in (SUBSET S) \ {{}} : \E x \in s : g[s] = f[x] + g[s \ {x}]
    BY DEF Summing
  <1> DEFINE Right(T) == /\ g[T] \in Int
                          /\ \A x \in T : g[T] = f[x] + g[T \ {x}]
              N == {n \in Nat : \A T \in SUBSET S : Cardinality(T) <= n => Right(T)}
  <1>4. \A T \in SUBSET S :
           /\ IsFiniteSet(T) /\ Cardinality(T) \in Nat
           /\ Cardinality(T) = 0 => T = {}
           /\ \A x \in T : Cardinality(T \ {x}) = Cardinality(T) - 1
    BY FS_Subset, FS_EmptySet, FS_CardinalityType, FS_RemoveElement
  <1>5. 0 \in N
    <2>1. \A T \in SUBSET S : Cardinality(T) <= 0 => T = {}
      BY <1>4
    <2>2. Right({})
      BY <1>3
    <2> QED
      BY <2>1, <2>2
  <1>6. ASSUME NEW n \in N
        PROVE  n + 1 \in N
    <2>1. SUFFICES ASSUME NEW T \in SUBSET S, Cardinality(T) <= n + 1
                   PROVE  Right(T)
      OBVIOUS
    <2>2. \A U \in SUBSET T : U # T => Right(U)
      <3>1. ASSUME NEW U \in SUBSET T, U # T
            PROVE  Cardinality(U) <= n
        <4>1. PICK x \in T : x \notin U
          BY <3>1
        <4>2. U \subseteq T \ {x} /\ IsFiniteSet(T \ {x})
          BY <1>4, <4>1
        <4>3. Cardinality(U) <= Cardinality(T \ {x})
          BY <4>2, FS_Subset
        <4> QED
          BY <1>4, <2>1, <4>3
      <3> QED
        BY <3>1
    <2> CASE T = {}
      BY <1>3
    <2> SUFFICES ASSUME T # {} PROVE Right(T)
      OBVIOUS
    <2>3. PICK y \in T : g[T] = f[y] + g[T \ {y}]
      BY <1>3
    <2>4. g[T] \in Int
      BY <2>2, <2>3
    <2>5. ASSUME NEW x \in T, x # y
          PROVE  g[T] = f[x] + g[T \ {x}]
      <3>1. g[T \ {y}] = f[x] + g[(T \ {y}) \ {x}]
        BY <2>2, <2>5
      <3>2. g[T \ {x}] = f[y] + g[(T \ {x}) \ {y}]
        BY <2>2, <2>5
      <3>3. (T \ {y}) \ {x} = (T \ {x}) \ {y}
        OBVIOUS
      <3>4. /\ f[x] \in Int /\ f[y] \in Int
            /\ g[(T \ {x}) \ {y}] \in Int
        BY <2>2, <2>5
      <3> DEFINE w == g[(T \ {x}) \ {y}]
      <3>5. g[T] = f[y] + (f[x] + w)
        BY <2>3, <3>1, <3>3
      <3>6. g[T \ {x}] = f[y] + w
        BY <3>2
      <3> HIDE DEF w, Right, N
      <3>7. w \in Int
        BY <3>4 DEF w
      <3>8. f[x] + (f[y] + w) = f[y] + (f[x] + w)
        BY <3>4, <3>7
      <3> QED
        BY <3>5, <3>6, <3>8, Zenon
    <2> QED
      BY <2>3, <2>4, <2>5
  <1>7. N = Nat
    <2> HIDE DEF N
    <2>1. N \in SUBSET Nat
      BY DEF N
    <2> QED
      BY <1>5, <1>6, <2>1, NumberInduction
  <1>8. \A T \in SUBSET S : Right(T)
    BY <1>4, <1>7
  <1>9. g \in [SUBSET S -> Int]
    BY <1>8 DEF Summing
  <1>10. ASSUME NEW T \in SUBSET S, NEW x \in S \ T
         PROVE  g[T \cup {x}] = f[x] + g[T]
    <2> DEFINE U == T \cup {x}
    <2>1. U \in SUBSET S /\ x \in U /\ U \ {x} = T
      OBVIOUS
    <2> HIDE DEF U
    <2>2. g[U] = f[x] + g[U \ {x}]
      BY <1>8, <2>1
    <2> QED
      BY <2>1, <2>2 DEF U
  <1> QED
    BY <1>3, <1>9, <1>10 DEF Sums

\* ... so that SumFunction returns a sum.
LEMMA SumSolved ==
    ASSUME NEW S, IsFiniteSet(S), NEW f \in [S -> Int]
    PROVE  \E g : Sums(f, S, g) /\ SumFunction(f) = g[S]
  <1> DEFINE g == CHOOSE h : Summing(f, S, h)
  <1>1. SumFunction(f) = g[S]
    <2>1. DOMAIN f = S
      OBVIOUS
    <2>2. SumFunctionOnSet(f, S) = g[S]
      BY DEF SumFunctionOnSet, FoldFunctionOnSet, MapThenFoldSet, Summing
    <2> QED
      BY <2>1, <2>2 DEF SumFunction
  <1>2. Summing(f, S, g)
    BY SummingExists
  <1> HIDE DEF g
  <1> QED
    BY <1>1, <1>2, SummingSums

\* The sum over a part of S is what g gives that part.
LEMMA SumOfPart ==
    ASSUME NEW S, IsFiniteSet(S), NEW f \in [S -> Int], NEW g, Sums(f, S, g),
           NEW R \in SUBSET S, NEW h \in [R -> Int], \A x \in R : h[x] = f[x]
    PROVE  SumFunction(h) = g[R]
  <1>1. IsFiniteSet(R)
    BY FS_Subset
  <1>2. PICK k : Sums(h, R, k) /\ SumFunction(h) = k[R]
    BY <1>1, SumSolved
  <1> DEFINE P == {T \in SUBSET R : k[T] = g[T]}
  <1>3. {} \in P
    BY <1>2 DEF Sums
  <1>4. ASSUME NEW T \in SUBSET R, NEW x \in R \ T, T \in P
        PROVE  T \cup {x} \in P
    <2>1. g[T \cup {x}] = f[x] + g[T] /\ k[T \cup {x}] = h[x] + k[T]
      BY <1>2 DEF Sums
    <2>2. h[x] = f[x] /\ k[T] = g[T]
      BY <1>4
    <2> QED
      BY <2>1, <2>2
  <1>5. R \in P
    <2> HIDE DEF P
    <2> QED
      BY <1>1, <1>3, <1>4, SetInduction
  <1> QED
    BY <1>2, <1>5

\* A sum of integers is an integer.
LEMMA SumType ==
    ASSUME NEW S, IsFiniteSet(S), NEW f \in [S -> Int]
    PROVE  SumFunction(f) \in Int
  <1>1. PICK g : Sums(f, S, g) /\ SumFunction(f) = g[S]
    BY SumSolved
  <1> QED
    BY <1>1 DEF Sums

\* A new element adds its term.
LEMMA SumAdded ==
    ASSUME NEW U, IsFiniteSet(U), NEW u \in U, NEW h \in [U -> Int],
           NEW f \in [U \ {u} -> Int], \A x \in U \ {u} : h[x] = f[x]
    PROVE  SumFunction(h) = SumFunction(f) + h[u]
  <1> DEFINE S == U \ {u}
  <1>1. S \in SUBSET U /\ u \in U \ S /\ S \cup {u} = U
    OBVIOUS
  <1>2. f \in [S -> Int] /\ \A x \in S : h[x] = f[x]
    OBVIOUS
  <1> HIDE DEF S
  <1>3. PICK g : Sums(h, U, g) /\ SumFunction(h) = g[U]
    BY <1>1, <1>2, SumSolved
  <1>4. SumFunction(f) = g[S]
    <2>1. \A x \in S : f[x] = h[x]
      BY <1>2
    <2> QED
      BY <1>1, <1>2, <1>3, <2>1, SumOfPart
  <1>5. g[U] = h[u] + g[S] /\ g[S] \in Int /\ h[u] \in Int
    BY <1>1, <1>2, <1>3 DEF Sums
  <1> QED
    BY <1>3, <1>4, <1>5

\* Functions that agree except at u have sums that differ by what they are
\* there.
LEMMA SumUpdate ==
    ASSUME NEW S, IsFiniteSet(S), NEW f \in [S -> Int], NEW h \in [S -> Int],
           NEW u \in S, \A x \in S : x # u => h[x] = f[x]
    PROVE  SumFunction(h) = SumFunction(f) - f[u] + h[u]
  <1>1. PICK g : Sums(f, S, g) /\ SumFunction(f) = g[S]
    BY SumSolved
  <1>2. PICK k : Sums(h, S, k) /\ SumFunction(h) = k[S]
    BY SumSolved
  <1> DEFINE R == S \ {u}
              P == {T \in SUBSET R : k[T] = g[T]}
  <1>3. IsFiniteSet(R)
    BY FS_Subset
  <1>4. {} \in P
    BY <1>1, <1>2 DEF Sums
  <1>5. ASSUME NEW T \in SUBSET R, NEW x \in R \ T, T \in P
        PROVE  T \cup {x} \in P
    <2>2. g[T \cup {x}] = f[x] + g[T] /\ k[T \cup {x}] = h[x] + k[T]
      BY <1>1, <1>2 DEF Sums
    <2>3. h[x] = f[x] /\ k[T] = g[T]
      BY <1>5
    <2> QED
      BY <2>2, <2>3
  <1>6. R \in P
    <2> HIDE DEF R, P
    <2> QED
      BY <1>3, <1>4, <1>5, SetInduction
  <1>7. g[S] = f[u] + g[R] /\ k[S] = h[u] + k[R]
    <2>1. R \in SUBSET S /\ u \in S \ R /\ R \cup {u} = S
      OBVIOUS
    <2> HIDE DEF R
    <2> QED
      BY <1>1, <1>2, <2>1 DEF Sums
  <1>8. g[R] \in Int /\ f[u] \in Int /\ h[u] \in Int
    BY <1>1 DEF Sums
  <1> QED
    BY <1>1, <1>2, <1>6, <1>7, <1>8

\* Sums are linear: h is f and a times k, term by term.
Combines(S, h, f, a, k) ==
    /\ a \in Int
    /\ f \in [S -> Int] /\ k \in [S -> Int] /\ h \in [S -> Int]
    /\ \A x \in S : h[x] = f[x] + a * k[x]

\* Sums of functions that are combined linearly combine likewise.
LEMMA SumLinear ==
    ASSUME NEW S, IsFiniteSet(S), NEW f, NEW k, NEW h, NEW a,
           Combines(S, h, f, a, k)
    PROVE  SumFunction(h) = SumFunction(f) + a * SumFunction(k)
  <1> USE DEF Combines
  <1>1. PICK gf : Sums(f, S, gf) /\ SumFunction(f) = gf[S]
    BY SumSolved
  <1>2. PICK gk : Sums(k, S, gk) /\ SumFunction(k) = gk[S]
    BY SumSolved
  <1>3. PICK gh : Sums(h, S, gh) /\ SumFunction(h) = gh[S]
    BY SumSolved
  <1> DEFINE P == {T \in SUBSET S : gh[T] = gf[T] + a * gk[T]}
  <1>4. {} \in P
    BY <1>1, <1>2, <1>3 DEF Sums
  <1>5. ASSUME NEW T \in SUBSET S, NEW x \in S \ T, T \in P
        PROVE  T \cup {x} \in P
    <2>2. /\ gf[T \cup {x}] = f[x] + gf[T]
          /\ gk[T \cup {x}] = k[x] + gk[T]
          /\ gh[T \cup {x}] = h[x] + gh[T]
      BY <1>1, <1>2, <1>3 DEF Sums
    <2>3. h[x] = f[x] + a * k[x] /\ gh[T] = gf[T] + a * gk[T]
      BY <1>5
    <2>4. f[x] \in Int /\ k[x] \in Int /\ gf[T] \in Int /\ gk[T] \in Int
      BY <1>1, <1>2 DEF Sums
    <2>5. \A p, q, r, s \in Int : (p + a * q) + (r + a * s) = (p + r) + a * (q + s)
      OBVIOUS
    <2>6. (f[x] + a * k[x]) + (gf[T] + a * gk[T]) = (f[x] + gf[T]) + a * (k[x] + gk[T])
      BY <2>4, <2>5
    <2> QED
      BY <2>2, <2>3, <2>6
  <1>6. S \in P
    <2> HIDE DEF P
    <2> QED
      BY <1>4, <1>5, SetInduction
  <1> QED
    BY <1>1, <1>2, <1>3, <1>6

\* Nothing sums to nothing.
LEMMA SumZero ==
    ASSUME NEW S, IsFiniteSet(S), NEW f \in [S -> Int], \A x \in S : f[x] = 0
    PROVE  SumFunction(f) = 0
  <1>1. \A x \in S : f[x] = f[x] + 1 * f[x]
    OBVIOUS
  <1>2. SumFunction(f) = SumFunction(f) + 1 * SumFunction(f)
    BY <1>1, SumLinear DEF Combines
  <1> QED
    BY <1>2, SumType

\* A pointwise order is one of the sums.
LEMMA SumMonotone ==
    ASSUME NEW S, IsFiniteSet(S), NEW f \in [S -> Int], NEW h \in [S -> Int],
           \A x \in S : f[x] <= h[x]
    PROVE  SumFunction(f) <= SumFunction(h)
  <1>1. PICK g : Sums(f, S, g) /\ SumFunction(f) = g[S]
    BY SumSolved
  <1>2. PICK k : Sums(h, S, k) /\ SumFunction(h) = k[S]
    BY SumSolved
  <1> DEFINE P == {T \in SUBSET S : g[T] <= k[T]}
  <1>3. {} \in P
    BY <1>1, <1>2 DEF Sums
  <1>4. ASSUME NEW T \in SUBSET S, NEW x \in S \ T, T \in P
        PROVE  T \cup {x} \in P
    <2>2. g[T \cup {x}] = f[x] + g[T] /\ k[T \cup {x}] = h[x] + k[T]
      BY <1>1, <1>2 DEF Sums
    <2>3. f[x] <= h[x] /\ g[T] <= k[T]
      BY <1>4
    <2>4. f[x] \in Int /\ h[x] \in Int /\ g[T] \in Int /\ k[T] \in Int
      BY <1>1, <1>2 DEF Sums
    <2> QED
      BY <2>2, <2>3, <2>4
  <1>5. S \in P
    <2> HIDE DEF P
    <2> QED
      BY <1>3, <1>4, SetInduction
  <1> QED
    BY <1>1, <1>2, <1>5

\* A factor common to all the terms is one of the sum.
LEMMA SumScale ==
    ASSUME NEW S, IsFiniteSet(S), NEW k \in [S -> Int], NEW h \in [S -> Int],
           NEW a \in Int, \A x \in S : h[x] = a * k[x]
    PROVE  SumFunction(h) = a * SumFunction(k)
  <1> DEFINE zero == [x \in S |-> 0]
  <1>1. zero \in [S -> Int] /\ \A x \in S : zero[x] = 0
    OBVIOUS
  <1> HIDE DEF zero
  <1>2. SumFunction(zero) = 0
    BY <1>1, SumZero
  <1>3. \A x \in S : h[x] = zero[x] + a * k[x]
    <2> SUFFICES ASSUME NEW x \in S
                 PROVE  h[x] = zero[x] + a * k[x]
      OBVIOUS
    <2>1. h[x] \in Int /\ h[x] = a * k[x] /\ zero[x] = 0
      BY <1>1
    <2> QED
      BY <2>1
  <1>4. SumFunction(h) = SumFunction(zero) + a * SumFunction(k)
    <2>1. Combines(S, h, zero, a, k)
      BY <1>1, <1>3 DEF Combines
    <2> QED
      BY <2>1, SumLinear
  <1>5. SumFunction(h) \in Int /\ SumFunction(k) \in Int
    BY SumType
  <1> QED
    BY <1>2, <1>4, <1>5

\* A sum of natural numbers is a natural number.
LEMMA SumNat ==
    ASSUME NEW S, IsFiniteSet(S), NEW f \in [S -> Nat]
    PROVE  SumFunction(f) \in Nat
  <1> DEFINE zero == [x \in S |-> 0]
  <1>1. zero \in [S -> Int] /\ f \in [S -> Int]
        /\ \A x \in S : zero[x] = 0 /\ zero[x] <= f[x]
    OBVIOUS
  <1> HIDE DEF zero
  <1>2. SumFunction(zero) = 0 /\ SumFunction(zero) <= SumFunction(f)
    BY <1>1, SumZero, SumMonotone
  <1>3. SumFunction(f) \in Int
    BY <1>1, SumType
  <1> QED
    BY <1>2, <1>3

\* Less is summed over a part.
LEMMA SumOverLess ==
    ASSUME NEW S, IsFiniteSet(S), NEW f \in [S -> Nat], NEW R \in SUBSET S,
           NEW h \in [R -> Nat], \A x \in R : h[x] = f[x]
    PROVE  SumFunction(h) <= SumFunction(f)
  <1> DEFINE k == [x \in S |-> IF x \in R THEN f[x] ELSE 0]
  <1>0. f \in [S -> Int] /\ h \in [R -> Int] /\ k \in [S -> Int]
    OBVIOUS
  <1>1. PICK g : Sums(k, S, g) /\ SumFunction(k) = g[S]
    BY <1>0, SumSolved
  <1>2. SumFunction(h) = g[R]
    <2>1. \A x \in R : h[x] = k[x]
      OBVIOUS
    <2> HIDE DEF k
    <2> QED
      BY <1>0, <1>1, <2>1, SumOfPart
  <1>3. SumFunction(k) <= SumFunction(f)
    <2>1. \A x \in S : k[x] <= f[x]
      OBVIOUS
    <2> HIDE DEF k
    <2> QED
      BY <1>0, <2>1, SumMonotone
  <1> DEFINE P == {T \in SUBSET (S \ R) : g[R \cup T] = g[R]}
  <1>4. {} \in P
    OBVIOUS
  <1>5. ASSUME NEW T \in SUBSET (S \ R), NEW x \in (S \ R) \ T, T \in P
        PROVE  T \cup {x} \in P
    <2>1. g[(R \cup T) \cup {x}] = k[x] + g[R \cup T]
      <3>1. R \cup T \in SUBSET S /\ x \in S \ (R \cup T)
        BY <1>5
      <3> HIDE DEF k, P
      <3> QED
        BY <1>1, <3>1 DEF Sums
    <2>2. k[x] = 0 /\ g[R \cup T] = g[R]
      BY <1>5
    <2>3. g[R] \in Int
      BY <1>1 DEF Sums
    <2>4. R \cup (T \cup {x}) = (R \cup T) \cup {x}
      OBVIOUS
    <2>5. g[R \cup (T \cup {x})] = g[R]
      BY <2>1, <2>2, <2>3, <2>4
    <2> QED
      BY <2>5
  <1>6. S \ R \in P
    <2> HIDE DEF P
    <2>1. IsFiniteSet(S \ R)
      BY FS_Subset
    <2> QED
      BY <1>4, <1>5, <2>1, SetInduction
  <1>7. g[S] = g[R]
    <2>1. R \cup (S \ R) = S
      OBVIOUS
    <2> QED
      BY <1>6, <2>1
  <1> QED
    BY <1>1, <1>2, <1>3, <1>7
----------------------------------------------------------------------------
(* The largest element. *)

\* A nonempty set of numbers up to n has a largest element.
LEMMA LargestExists ==
    ASSUME NEW n \in Nat, NEW s \in SUBSET (0..n), s # {}
    PROVE  \E x \in s : \A y \in s : x >= y
  <1> DEFINE D == {n - x : x \in s}
  <1>0. \A x \in s : x \in Nat /\ n - x \in Nat
    OBVIOUS
  <1>1. D \in SUBSET Nat /\ D # {}
    BY <1>0
  <1>2. PICK d \in D : \A e \in D : <<e, d>> \notin Below
    BY <1>1, BelowWellFounded, WFMin
  <1>3. PICK x \in s : d = n - x
    OBVIOUS
  <1>4. ASSUME NEW y \in s
        PROVE  x >= y
    <2>1. n - y \in D /\ n - y \in Nat /\ d \in Nat /\ <<n - y, d>> \notin Below
      BY <1>1, <1>2
    <2>2. ~(n - y < n - x)
      BY <1>3, <2>1 DEF Below
    <2>3. x \in Nat /\ y \in Nat
      BY <1>0
    <2> QED
      BY <2>2, <2>3
  <1> QED
    BY <1>4
=============================================================================
