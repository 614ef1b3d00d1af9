------------------------------ MODULE Induction ------------------------------
(***************************************************************************)
(* Induction and recursion over the natural numbers, for sets and          *)
(* functions. The library's theorems on both take an operator, which no    *)
(* prover at hand can instantiate; a set can be. Then what sums, folds and *)
(* flattened sequences are. All of it rests on facts about finite sets.    *)
(***************************************************************************)
EXTENDS Integers, SequencesExt, FiniteSetTheorems, SequenceTheorems, WellFoundedInduction, TLAPS

\* Of the intervals 1..i, i \in S, one has no other inside it.
LEMMA SmallestNumber ==
  ASSUME NEW n \in Nat, NEW S \in SUBSET (1..n), S # {}
  PROVE  \E i \in S : \A j \in S : i <= j
<1> DEFINE T == {1..i : i \in S}
<1>1. IsFiniteSet(1..n)
  BY FS_Interval
<1>2. T \subseteq SUBSET (1..n) /\ T # {}
  <2>1. \A i \in S : 1..i \subseteq 1..n
    OBVIOUS
  <2>2. PICK i \in S : TRUE
    OBVIOUS
  <2> QED BY <2>1, <2>2
<1>3. IsWellFoundedOn(StrictSubsetOrdering(1..n), SUBSET (1..n))
  BY <1>1, FS_StrictSubsetOrderingWellFounded, FS_FiniteSubsetsOfFinite
<1>4. PICK x \in T : \A y \in T : ~(<<y, x>> \in StrictSubsetOrdering(1..n))
  BY <1>2, <1>3, WFMin
<1>5. PICK i \in S : x = 1..i
  OBVIOUS
<1>6. ASSUME NEW j \in S, j < i PROVE FALSE
  <2>1. 1..j \in T /\ 1..j \subseteq 1..i /\ i \in 1..i /\ i \notin 1..j
    BY <1>6
  <2>2. <<1..j, 1..i>> \in StrictSubsetOrdering(1..n)
    BY <1>2, <1>5, <2>1 DEF StrictSubsetOrdering
  <2> QED BY <1>4, <1>5, <2>1, <2>2
<1> QED BY <1>6

\* Adding one takes S /\ (0..n) into itself without 0 as long as n is left
\* out: a smaller set.
LEMMA NatSetInduction ==
  ASSUME NEW S, 0 \in S, \A n \in Nat : n \in S => n + 1 \in S
  PROVE  Nat \subseteq S
<1> SUFFICES ASSUME NEW n \in Nat, n \notin S PROVE FALSE
  OBVIOUS
<1> DEFINE A == S \cap (0..n)
           B == A \ {0}
<1>1. IsFiniteSet(A) /\ IsFiniteSet(B) /\ Cardinality(B) < Cardinality(A)
  <2>1. IsFiniteSet(A)
    <3>1. IsFiniteSet(0..n)
      BY FS_Interval
    <3> QED BY <3>1, FS_Intersection
  <2>2. 0 \in A
    OBVIOUS
  <2>3. IsFiniteSet(B) /\ Cardinality(B) = Cardinality(A) - 1
    BY <2>1, <2>2, FS_RemoveElement
  <2>4. Cardinality(A) \in Nat
    BY <2>1, FS_CardinalityType
  <2> HIDE DEF A, B
  <2> QED BY <2>1, <2>3, <2>4
<1>2. [x \in A |-> x + 1] \in [A -> B]
  OBVIOUS
<1>3. PICK f \in [A -> B] : \A x \in A : f[x] = x + 1
  BY <1>2
<1>4. \E x, y \in A : x # y /\ f[x] = f[y]
  <2> HIDE DEF A, B
  <2> QED BY <1>1, <1>3, FS_PigeonHole
<1> QED BY <1>3, <1>4

\* The same up to a bound.
LEMMA IntervalInduction ==
  ASSUME NEW a \in Int, NEW b \in Int, NEW S, a \in S,
         \A i \in a..(b - 1) : i \in S => i + 1 \in S
  PROVE  a..b \subseteq S
<1> DEFINE T == {n \in Nat : a + n <= b => a + n \in S}
<1>1. 0 \in T
  OBVIOUS
<1>2. ASSUME NEW n \in Nat, n \in T PROVE n + 1 \in T
  <2>1. SUFFICES ASSUME a + n + 1 <= b PROVE a + n + 1 \in S
    OBVIOUS
  <2>2. a + n \in S /\ a + n \in a..(b - 1)
    BY <1>2, <2>1
  <2> QED BY <2>2
<1> HIDE DEF T
<1>3. Nat \subseteq T
  BY <1>1, <1>2, NatSetInduction
<1>4. ASSUME NEW i \in a..b PROVE i \in S
  <2>1. i - a \in T
    BY <1>3
  <2> QED BY <2>1 DEF T
<1> QED BY <1>4

\* g goes from v0 on by one F after the other.
Recursive(g, F, v0, V, N) ==
  g \in [0..N -> V] /\ g[0] = v0 /\ \A i \in 1..N : g[i] = F[i][g[i - 1]]

\* A value for every step: what is computed from what came before exists, for
\* each number of steps.
LEMMA Recursion ==
  ASSUME NEW V, NEW v0 \in V, NEW N \in Nat, NEW F \in [1..N -> [V -> V]]
  PROVE  \E g : Recursive(g, F, v0, V, N)
<1> DEFINE Upto(n) == {g \in [0..n -> V] : g[0] = v0 /\ \A i \in 1..n : g[i] = F[i][g[i - 1]]}
           S == {n \in 0..N : Upto(n) # {}}
<1>1. 0 \in S
  <2>1. [i \in 0..0 |-> v0] \in Upto(0)
    OBVIOUS
  <2> QED BY <2>1
<1>2. ASSUME NEW n \in 0..(N - 1), n \in S PROVE n + 1 \in S
  <2>1. PICK g \in Upto(n) : TRUE
    BY <1>2
  <2>2. g[n] \in V
    BY <2>1
  <2>3. F[n + 1] \in [V -> V]
    BY <1>2
  <2>4. F[n + 1][g[n]] \in V
    BY <2>2, <2>3
  <2> DEFINE h == [i \in 0..(n + 1) |-> IF i = n + 1 THEN F[n + 1][g[n]] ELSE g[i]]
  <2>5. h \in [0..(n + 1) -> V]
    BY <2>1, <2>4
  <2>6. h[0] = v0
    BY <2>1
  <2>7. ASSUME NEW i \in 1..(n + 1) PROVE h[i] = F[i][h[i - 1]]
    BY <2>1
  <2>8. h \in Upto(n + 1)
    BY <2>5, <2>6, <2>7
  <2> QED BY <2>8
<1> HIDE DEF S
<1>3. 0..N \subseteq S
  <2>1. \A n \in 0..(N - 1) : n \in S => n + 1 \in S
    BY <1>2
  <2> QED BY SMTT(30), <1>1, <2>1, IntervalInduction
<1> QED BY <1>3 DEF S, Recursive

-----------------------------------------------------------------------------
(***************************************************************************)
(* Recursion over the subsets of a finite set, one element less at a time: *)
(* what the folds of the community modules are defined by.                 *)
(***************************************************************************)

\* W has every set of which it has all that are one element smaller.
Grows(W, S) == \A T \in SUBSET S : (\A x \in T : T \ {x} \in W) => T \in W

\* c chooses from every subset of S.
Choice(c, S) == \A T \in SUBSET S : T # {} => c[T] \in T

Arbitrary(c, S) == \A T \in SUBSET S : c[T] = CHOOSE x \in T : TRUE

\* h is worked out from v0 by F, an element that c chooses at a time.
Fold(h, F, v0, c, S) ==
  \A T \in SUBSET S : h[T] = IF T = {} THEN v0 ELSE F[c[T]][h[T \ {c[T]}]]

\* The step of an induction from 0 to n.
Climbs(S, n) == \A i \in 0..(n - 1) : i \in S => i + 1 \in S

LEMMA ClimbsToTop ==
  ASSUME NEW n \in Nat, NEW S, 0 \in S, Climbs(S, n)
  PROVE  n \in S
<1>1. 0 \in Int /\ n \in Int /\ n \in 0..n
  OBVIOUS
<1>2. 0..n \subseteq S
  BY <1>1, IntervalInduction DEF Climbs
<1> QED BY <1>1, <1>2

\* Of some numbers one is the least.
LEMMA LeastOf ==
  ASSUME NEW S \in SUBSET Nat, S # {}
  PROVE  \E e \in S : \A f \in S : e <= f
<1>1. SUFFICES ASSUME \A e \in S : \E f \in S : f < e PROVE FALSE
  OBVIOUS
<1> DEFINE T == {n \in Nat : \A f \in S : n <= f}
<1>2. 0 \in T
  OBVIOUS
<1>3. ASSUME NEW n \in Nat, n \in T PROVE n + 1 \in T
  <2>1. SUFFICES ASSUME NEW f \in S PROVE n + 1 <= f
    OBVIOUS
  <2>2. CASE f = n
    BY <1>1, <1>3, <2>2
  <2> QED BY <1>3, <2>2
<1>4. Nat \subseteq T
  <2> HIDE DEF T
  <2> QED BY <1>2, <1>3, NatSetInduction
<1>5. PICK f \in S : TRUE
  OBVIOUS
<1>6. PICK n : n = f + 1
  OBVIOUS
<1>7. n \in Nat /\ ~(n <= f)
  BY <1>6
<1> QED BY <1>4, <1>5, <1>7

\* From m to n, f is computed from what lies further on: at i by G[i], from the
\* value at next[i], or from v0 where that is past n.
Backward(f, G, next, v0, m, n) ==
  \A i \in m..n : f[i] = G[i][IF next[i] <= n THEN f[next[i]] ELSE v0]

\* Such an f exists.
LEMMA BackwardRecursion ==
  ASSUME NEW V, NEW v0 \in V, NEW n \in Nat, NEW G \in [1..n -> [V -> V]],
         NEW next \in [1..n -> Nat], \A i \in 1..n : i < next[i]
  PROVE  \E f : f \in [1..n -> V] /\ Backward(f, G, next, v0, 1, n)
<1> DEFINE From(a) == \E f : f \in [a..n -> V] /\ Backward(f, G, next, v0, a, n)
           S == {m \in 0..n : From(n - m + 1)}
<1>1. 0 \in S
  <2>1. PICK a : a = n - 0 + 1
    OBVIOUS
  <2>2. PICK f : f = [i \in a..n |-> v0]
    OBVIOUS
  <2>3. f \in [a..n -> V] /\ a..n = {}
    BY <2>1, <2>2
  <2>4. Backward(f, G, next, v0, a, n)
    BY <2>3 DEF Backward
  <2> QED BY <2>1, <2>3, <2>4
<1>2. ASSUME NEW m \in 0..(n - 1), m \in S PROVE m + 1 \in S
  <2>1. PICK a, k : a = n - m + 1 /\ k = n - (m + 1) + 1
    OBVIOUS
  <2>2. k \in 1..n /\ a = k + 1
    BY <2>1
  <2>3. PICK f : f \in [a..n -> V] /\ Backward(f, G, next, v0, a, n)
    BY <1>2, <2>1
  <2>4. PICK x : x = IF next[k] <= n THEN f[next[k]] ELSE v0
    OBVIOUS
  <2>5. x \in V
    BY <2>2, <2>3, <2>4
  <2>6. PICK h : h = [i \in k..n |-> IF i = k THEN G[k][x] ELSE f[i]]
    OBVIOUS
  <2>7. \A i \in k..n : i = k \/ i \in a..n
    BY <2>2
  <2>8. h \in [k..n -> V]
    BY <2>2, <2>3, <2>5, <2>6, <2>7
  <2>9. ASSUME NEW i \in a..n PROVE i \in k..n /\ h[i] = f[i]
    BY <2>2, <2>6, <2>9
  <2>10. ASSUME NEW i \in k..n PROVE h[i] = G[i][IF next[i] <= n THEN h[next[i]] ELSE v0]
    <3>1. i \in 1..n /\ i < next[i] /\ next[i] \in Nat
      BY <2>2
    <3>2. next[i] <= n => next[i] \in a..n
      BY <2>2, <3>1
    <3>3. next[i] <= n => h[next[i]] = f[next[i]]
      BY <2>9, <3>2
    <3>4. CASE i = k
      BY <2>4, <2>6, <3>3, <3>4
    <3>5. CASE i # k
      <4>1. i \in a..n
        BY <2>7, <3>5
      <4>2. f[i] = G[i][IF next[i] <= n THEN f[next[i]] ELSE v0]
        BY <2>3, <4>1 DEF Backward
      <4> QED BY <2>9, <3>3, <4>1, <4>2
    <3> QED BY <3>4, <3>5
  <2>11. Backward(h, G, next, v0, k, n)
    BY <2>10 DEF Backward
  <2>12. m + 1 \in 0..n
    OBVIOUS
  <2> QED BY <2>1, <2>8, <2>11, <2>12
<1> HIDE DEF S
<1>3. n \in S
  <2>1. Climbs(S, n)
    BY <1>2 DEF Climbs
  <2> QED BY <1>1, <2>1, ClimbsToTop
<1>4. n - n + 1 = 1
  OBVIOUS
<1> QED BY <1>3, <1>4 DEF S

LEMMA OneLess ==
  ASSUME NEW S, IsFiniteSet(S), NEW T \in SUBSET S, NEW x \in T
  PROVE  /\ Cardinality(T) \in Nat \ {0}
         /\ Cardinality(T \ {x}) = Cardinality(T) - 1
<1>1. IsFiniteSet(T)
  BY FS_Subset
<1>2. Cardinality(T \ {x}) = Cardinality(T) - 1
  BY <1>1, FS_RemoveElement
<1>3. Cardinality(T) \in Nat /\ Cardinality(T) # 0
  BY <1>1, FS_CardinalityType, FS_EmptySet
<1> QED BY <1>2, <1>3

\* What a set has when every set that is one element smaller has it, all of
\* them have.
LEMMA SubsetInduction ==
  ASSUME NEW S, IsFiniteSet(S), NEW W, Grows(W, S)
  PROVE  SUBSET S \subseteq W
<1> USE DEF Grows
<1> DEFINE N == {n \in Nat : \A T \in SUBSET S : Cardinality(T) = n => T \in W}
<1>1. 0 \in N
  <2>1. ASSUME NEW T \in SUBSET S, Cardinality(T) = 0 PROVE T \in W
    <3>1. T = {}
      BY <2>1, OneLess
    <3> QED BY <3>1
  <2> QED BY <2>1
<1>2. ASSUME NEW n \in Nat, n \in N PROVE n + 1 \in N
  <2>1. ASSUME NEW T \in SUBSET S, Cardinality(T) = n + 1, NEW x \in T PROVE T \ {x} \in W
    <3>1. Cardinality(T \ {x}) = n
      BY <2>1, OneLess
    <3> QED BY <3>1, <1>2
  <2> QED BY <2>1
<1> HIDE DEF N
<1>3. Nat \subseteq N
  BY <1>1, <1>2, NatSetInduction
<1>4. ASSUME NEW T \in SUBSET S PROVE T \in W
  <2>1. Cardinality(T) \in Nat
    BY FS_Subset, FS_CardinalityType
  <2> QED BY <1>3, <2>1 DEF N
<1> QED BY <1>4

\* A value for every subset, worked out from the subset without its choice.
LEMMA SubsetRecursion ==
  ASSUME NEW S, IsFiniteSet(S), NEW V, NEW v0 \in V,
         NEW c, Choice(c, S), NEW F \in [S -> [V -> V]]
  PROVE  \E h \in [SUBSET S -> V] : Fold(h, F, v0, c, S)
<1> USE DEF Choice, Fold
<1> DEFINE Upto(n) == {T \in SUBSET S : Cardinality(T) <= n}
           Values(n) == {h \in [Upto(n) -> V] :
             \A T \in Upto(n) : h[T] = IF T = {} THEN v0 ELSE F[c[T]][h[T \ {c[T]}]]}
           N == {n \in Nat : Values(n) # {}}
<1>0. \A T \in SUBSET S : Cardinality(T) \in Nat
  BY FS_Subset, FS_CardinalityType
<1>1. 0 \in N
  <2>1. ASSUME NEW T \in Upto(0) PROVE T = {}
    <3>1. T \in SUBSET S /\ Cardinality(T) <= 0
      OBVIOUS
    <3> HIDE DEF Upto
    <3>2. ASSUME NEW x \in T PROVE FALSE
      <4>1. Cardinality(T) \in Nat \ {0}
        BY <3>1, OneLess
      <4> QED BY <3>1, <4>1
    <3> QED BY <3>2
  <2>2. [T \in Upto(0) |-> v0] \in [Upto(0) -> V]
    OBVIOUS
  <2> HIDE DEF Upto
  <2>3. [T \in Upto(0) |-> v0] \in Values(0)
    BY <2>1, <2>2
  <2> QED BY <2>3
<1>2. ASSUME NEW n \in Nat, n \in N PROVE n + 1 \in N
  <2>1. PICK g \in Values(n) : TRUE
    BY <1>2
  <2>2. \A T \in Upto(n + 1) : T # {} => T \ {c[T]} \in Upto(n) /\ c[T] \in S
    <3>1. SUFFICES ASSUME NEW T \in Upto(n + 1), T # {}
                   PROVE  T \ {c[T]} \in Upto(n) /\ c[T] \in S
      OBVIOUS
    <3>2. c[T] \in T /\ T \in SUBSET S /\ Cardinality(T) <= n + 1
      BY <3>1
    <3>3. Cardinality(T \ {c[T]}) = Cardinality(T) - 1 /\ Cardinality(T) \in Nat
      BY <3>2, OneLess
    <3> QED BY <3>2, <3>3
  <2>3. \A T \in Upto(n) : T \in Upto(n + 1)
    BY <1>0
  <2>4. \A T \in Upto(n) : g[T] \in V /\ g[T] = IF T = {} THEN v0 ELSE F[c[T]][g[T \ {c[T]}]]
    BY <2>1
  <2> HIDE DEF Upto
  <2> DEFINE h == [T \in Upto(n + 1) |-> IF T = {} THEN v0 ELSE F[c[T]][g[T \ {c[T]}]]]
  <2>5. h \in [Upto(n + 1) -> V]
    <3>1. ASSUME NEW T \in Upto(n + 1), T # {} PROVE F[c[T]][g[T \ {c[T]}]] \in V
      <4>1. F[c[T]] \in [V -> V]
        BY <2>2, <3>1
      <4>2. g[T \ {c[T]}] \in V
        BY <2>2, <2>4, <3>1
      <4> QED BY <4>1, <4>2
    <3> QED BY <3>1
  <2>6. \A T \in Upto(n) : h[T] = g[T]
    BY <2>3, <2>4
  <2>7. ASSUME NEW T \in Upto(n + 1)
        PROVE  h[T] = IF T = {} THEN v0 ELSE F[c[T]][h[T \ {c[T]}]]
    BY <2>2, <2>6
  <2>8. h \in Values(n + 1)
    <3> HIDE DEF h
    <3> QED BY <2>5, <2>7
  <2>9. Values(n + 1) # {}
    <3> HIDE DEF Values, h
    <3> QED BY <2>8
  <2> HIDE DEF Values
  <2> QED BY <2>9
<1> HIDE DEF N
<1>3. Nat \subseteq N
  BY <1>1, <1>2, NatSetInduction
<1>4. Cardinality(S) \in N /\ Cardinality(S) \in Nat
  BY <1>0, <1>3
<1>5. PICK h \in Values(Cardinality(S)) : TRUE
  BY <1>4 DEF N
<1>6. Upto(Cardinality(S)) = SUBSET S
  <2>1. \A T \in SUBSET S : Cardinality(T) <= Cardinality(S)
    BY FS_Subset
  <2> QED BY <2>1
<1> HIDE DEF Upto
<1> QED BY <1>5, <1>6

\* Two functions that are worked out the same way from smaller sets are equal.
LEMMA SameRecursion ==
  ASSUME NEW S, IsFiniteSet(S), NEW c, NEW g, NEW h, Choice(c, S),
         g[{}] = h[{}],
         \A T \in SUBSET S : T # {} /\ g[T \ {c[T]}] = h[T \ {c[T]}] => g[T] = h[T]
  PROVE  \A T \in SUBSET S : g[T] = h[T]
<1> DEFINE W == {T \in SUBSET S : g[T] = h[T]}
<1>1. ASSUME NEW T \in SUBSET S, \A x \in T : T \ {x} \in W PROVE T \in W
  <2>1. CASE T = {}
    BY <2>1
  <2>2. CASE T # {}
    <3>1. c[T] \in T
      BY <2>2 DEF Choice
    <3> QED BY <1>1, <2>2, <3>1
  <2> QED BY <2>1, <2>2
<1> HIDE DEF W
<1>2. SUBSET S \subseteq W
  <2>1. Grows(W, S)
    BY <1>1 DEF Grows
  <2> QED BY <2>1, SubsetInduction
<1> QED BY <1>2 DEF W

\* h is the sum of f.
AddsUp(h, f, c, S) ==
  \A T \in SUBSET S : h[T] = IF T = {} THEN 0 ELSE f[c[T]] + h[T \ {c[T]}]

SumAnyhow(h, f, S) ==
  h[{}] = 0 /\ \A T \in SUBSET S : \A x \in T : h[T] = f[x] + h[T \ {x}]

LEMMA SumFrom ==
  ASSUME NEW S, IsFiniteSet(S), NEW f \in [S -> Int], NEW c, Choice(c, S)
  PROVE  \E h \in [SUBSET S -> Int] : AddsUp(h, f, c, S)
<1>1. PICK F \in [S -> [Int -> Int]] : \A x \in S, v \in Int : F[x][v] = f[x] + v
  <2>1. [x \in S |-> [v \in Int |-> f[x] + v]] \in [S -> [Int -> Int]]
    OBVIOUS
  <2> QED BY <2>1
<1>2. 0 \in Int
  OBVIOUS
<1>3. PICK h \in [SUBSET S -> Int] : Fold(h, F, 0, c, S)
  BY <1>2, SubsetRecursion
<1> USE DEF Choice, Fold
<1>4. ASSUME NEW T \in SUBSET S, T # {} PROVE h[T] = f[c[T]] + h[T \ {c[T]}]
  <2>1. T \ {c[T]} \in SUBSET S /\ c[T] \in S
    BY <1>4
  <2>2. h[T \ {c[T]}] \in Int
    BY <2>1, <1>3
  <2> QED BY <1>1, <1>3, <1>4, <2>1, <2>2
<1>5. h[{}] = 0
  BY <1>3
<1> QED BY <1>4, <1>5 DEF AddsUp

LEMMA SumInAnyOrder ==
  ASSUME NEW S, IsFiniteSet(S), NEW f \in [S -> Int], NEW c, Choice(c, S),
         NEW h \in [SUBSET S -> Int], AddsUp(h, f, c, S)
  PROVE  SumAnyhow(h, f, S)
<1> USE DEF SumAnyhow
<1> DEFINE W == {T \in SUBSET S : \A x \in T : h[T] = f[x] + h[T \ {x}]}
<1>1. ASSUME NEW T \in SUBSET S, \A x \in T : T \ {x} \in W PROVE T \in W
  <2>1. SUFFICES ASSUME NEW x \in T PROVE h[T] = f[x] + h[T \ {x}]
    OBVIOUS
  <2> DEFINE y == c[T]
  <2>2. y \in T /\ h[T] = f[y] + h[T \ {y}]
    BY <2>1 DEF Choice, AddsUp
  <2>3. CASE x # y
    <3>1. h[T \ {y}] = f[x] + h[(T \ {y}) \ {x}]
      BY <1>1, <2>1, <2>2, <2>3
    <3>2. h[T \ {x}] = f[y] + h[(T \ {x}) \ {y}]
      BY <1>1, <2>1, <2>2, <2>3
    <3> DEFINE Tyx == (T \ {y}) \ {x}
    <3>3. (T \ {x}) \ {y} = Tyx /\ Tyx \in SUBSET S
      OBVIOUS
    <3>4. f[x] \in Int /\ f[y] \in Int /\ h[Tyx] \in Int
      BY <2>1, <2>2, <3>3
    <3>5. h[T] = f[y] + h[T \ {y}] /\ h[T \ {y}] = f[x] + h[Tyx] /\ h[T \ {x}] = f[y] + h[Tyx]
      BY <2>2, <3>1, <3>2, <3>3
    <3> HIDE DEF Tyx, y
    <3> QED BY <3>4, <3>5
  <2> QED BY <2>2, <2>3
<1> HIDE DEF W
<1>2. SUBSET S \subseteq W
  <2>1. Grows(W, S)
    BY <1>1 DEF Grows
  <2> QED BY <2>1, SubsetInduction
<1> QED BY <1>2 DEF W, AddsUp

LEMMA FoldIsThis ==
  ASSUME NEW T, IsFiniteSet(T), NEW f, NEW h, NEW c, AddsUp(h, f, c, T), Arbitrary(c, T)
  PROVE  SumFunctionOnSet(f, T) = h[T]
<1> DEFINE Step(it, s) == IF s = {} THEN 0 ELSE LET x == CHOOSE x \in s : TRUE IN f[x] + it[s \ {x}]
           it == CHOOSE it : it = [s \in SUBSET T |-> Step(it, s)]
<1>1. \E g : g = [s \in SUBSET T |-> Step(g, s)]
  <2>1. PICK g : g = [s \in SUBSET T |-> h[s]]
    OBVIOUS
  <2>2. ASSUME NEW s \in SUBSET T PROVE g[s] = Step(g, s)
    BY <2>1 DEF AddsUp, Arbitrary
  <2> HIDE DEF Step
  <2>3. g = [s \in SUBSET T |-> Step(g, s)]
    BY <2>1, <2>2
  <2> QED BY <2>3
<1>2. it = [s \in SUBSET T |-> Step(it, s)]
  <2> HIDE DEF Step
  <2> QED BY <1>1
<1>3. SumFunctionOnSet(f, T) = it[T]
  BY DEF SumFunctionOnSet, FoldFunctionOnSet, MapThenFoldSet
<1> HIDE DEF it
<1>4. ASSUME NEW s \in SUBSET T PROVE it[s] = Step(it, s)
  <2> HIDE DEF Step
  <2> QED BY <1>2
<1>5. Choice(c, T)
  BY DEF Choice, Arbitrary
<1>7. it[{}] = h[{}]
  BY <1>4 DEF AddsUp
<1>8. ASSUME NEW s \in SUBSET T, s # {}, it[s \ {c[s]}] = h[s \ {c[s]}] PROVE it[s] = h[s]
  <2>1. c[s] = (CHOOSE x \in s : TRUE)
    BY DEF Arbitrary
  <2>2. it[s] = f[c[s]] + it[s \ {c[s]}]
    BY <1>4, <1>8, <2>1
  <2> QED BY <1>8, <2>2 DEF AddsUp
<1>9. \A s \in SUBSET T : it[s] = h[s]
  <2> HIDE DEF Step
  <2> QED BY <1>5, <1>7, <1>8, SameRecursion
<1> QED BY <1>3, <1>9

IsSum(h, f, S) ==
  /\ h \in [SUBSET S -> Int]
  /\ SumAnyhow(h, f, S)
  /\ \A T \in SUBSET S : SumFunctionOnSet(f, T) = h[T]

\* The sum over a set (FoldFunctionOnSet) takes its elements in any order.
LEMMA SumOverSet ==
  ASSUME NEW S, IsFiniteSet(S), NEW f \in [S -> Int]
  PROVE  \E h : IsSum(h, f, S)
<1>1. PICK c : c = [T \in SUBSET S |-> CHOOSE x \in T : TRUE]
  OBVIOUS
<1>2. Arbitrary(c, S) /\ Choice(c, S)
  BY <1>1 DEF Arbitrary, Choice
<1>3. PICK h \in [SUBSET S -> Int] : AddsUp(h, f, c, S)
  BY <1>2, SumFrom
<1>4. SumAnyhow(h, f, S)
  BY <1>2, <1>3, SumInAnyOrder
<1>6. ASSUME NEW T \in SUBSET S PROVE SumFunctionOnSet(f, T) = h[T]
  <2>1. IsFiniteSet(T)
    BY FS_Subset
  <2>2. AddsUp(h, f, c, T) /\ Arbitrary(c, T)
    BY <1>2, <1>3 DEF AddsUp, Arbitrary
  <2> QED BY <2>1, <2>2, FoldIsThis
<1> QED BY <1>3, <1>4, <1>6 DEF IsSum

-----------------------------------------------------------------------------
(***************************************************************************)
(* Sequences are folded from their first element to their last: of the     *)
(* indices left, the largest is taken off (FoldLeft).                      *)
(***************************************************************************)

Largest(c, S) == \A T \in SUBSET S : T # {} => c[T] = Max(T)

LEMMA MaxIsLargest ==
  ASSUME NEW n \in Nat, NEW T \in SUBSET (1..n), T # {}
  PROVE  Max(T) \in T /\ \A i \in T : i <= Max(T)
<1> DEFINE M == {n + 1 - i : i \in T}
<1>1. M \in SUBSET (1..n) /\ M # {}
  <2>1. \A i \in T : n + 1 - i \in 1..n
    OBVIOUS
  <2>2. M \subseteq 1..n
    BY <2>1
  <2>3. M # {}
    OBVIOUS
  <2> QED BY <2>2, <2>3
<1>2. PICK m \in M : \A j \in M : m <= j
  BY <1>1, SmallestNumber
<1>3. PICK x \in T : m = n + 1 - x
  BY <1>2
<1>4. ASSUME NEW i \in T PROVE x >= i
  <2>1. m <= n + 1 - i
    BY <1>2
  <2>2. i \in 1..n /\ x \in 1..n
    OBVIOUS
  <2> HIDE DEF M
  <2> QED BY <2>1, <2>2, <1>3
<1>5. \E y \in T : \A i \in T : y >= i
  BY <1>4
<1>6. Max(T) \in T /\ \A i \in T : Max(T) >= i
  BY <1>5 DEF Max
<1> QED BY <1>6

LEMMA MaxOfUpto ==
  ASSUME NEW n \in Nat \ {0}
  PROVE  Max(1..n) = n /\ (1..n) \ {n} = 1..(n - 1)
<1> DEFINE T == 1..n
<1>1. T \in SUBSET (1..n) /\ T # {} /\ n \in T
  OBVIOUS
<1>2. Max(T) \in T /\ \A i \in T : i <= Max(T)
  <2> HIDE DEF T
  <2> QED BY <1>1, MaxIsLargest
<1>3. Max(1..n) = n
  BY <1>1, <1>2
<1>4. (1..n) \ {n} = 1..(n - 1)
  OBVIOUS
<1> QED BY <1>3, <1>4

LEMMA ChooseLargest ==
  ASSUME NEW n \in Nat
  PROVE  \E c : Choice(c, 1..n) /\ Largest(c, 1..n)
<1>1. PICK c : c = [T \in SUBSET (1..n) |-> Max(T)]
  OBVIOUS
<1>2. Largest(c, 1..n)
  BY <1>1 DEF Largest
<1>3. Choice(c, 1..n)
  BY <1>1, MaxIsLargest DEF Choice
<1> QED BY <1>2, <1>3

\* What is folded so far is what the elements so far fold to.
LEMMA FoldSteps ==
  ASSUME NEW n \in Nat, NEW h, NEW F, NEW v0, NEW c,
         Largest(c, 1..n), Fold(h, F, v0, c, 1..n)
  PROVE  /\ h[{}] = v0
         /\ \A i \in 1..n : h[1..i] = F[i][h[1..(i - 1)]]
<1>1. h[{}] = v0
  BY DEF Fold
<1>2. ASSUME NEW i \in 1..n PROVE h[1..i] = F[i][h[1..(i - 1)]]
  <2> DEFINE T == 1..i
  <2>1. T \in SUBSET (1..n) /\ T # {}
    <3>1. i \in 1..i /\ \A j \in 1..i : j \in 1..n
      OBVIOUS
    <3> QED BY <3>1
  <2>2. c[T] = i /\ (1..i) \ {i} = 1..(i - 1)
    <3>1. c[T] = Max(T)
      <4> HIDE DEF T
      <4> QED BY <2>1 DEF Largest
    <3> QED BY <3>1, MaxOfUpto
  <2>3. h[T] = F[c[T]][h[T \ {c[T]}]]
    <3> HIDE DEF T
    <3> QED BY <2>1 DEF Fold
  <2> QED BY <2>2, <2>3
<1> QED BY <1>1, <1>2

\* A step of a fold works on what the fold is so far.
LEMMA LeftFold ==
  ASSUME NEW n \in Nat, NEW V, NEW v0 \in V, NEW F \in [1..n -> [V -> V]]
  PROVE  \E h, c : /\ h \in [SUBSET (1..n) -> V]
                  /\ Choice(c, 1..n) /\ Largest(c, 1..n) /\ Fold(h, F, v0, c, 1..n)
<1>1. IsFiniteSet(1..n)
  BY FS_Interval
<1>2. PICK c : Choice(c, 1..n) /\ Largest(c, 1..n)
  BY ChooseLargest
<1>3. PICK h \in [SUBSET (1..n) -> V] : Fold(h, F, v0, c, 1..n)
  BY <1>1, <1>2, SubsetRecursion
<1> QED BY <1>2, <1>3

\* h is what applying l again and again comes to.
Applied(h, l, x, n) ==
  \A T \in SUBSET (1..n) : h[T] = IF T = {} THEN x ELSE l[h[T \ {Max(T)}]]

LEMMA AppliedIsThis ==
  ASSUME NEW n \in Nat, NEW x, NEW l, NEW h, Applied(h, l, x, n)
  PROVE  FoldLeft(LAMBDA p, i : l[p], x, [i \in 1..n |-> i]) = h[1..n]
<1> DEFINE T == 1..n
           Step(it, s) == IF s = {} THEN x ELSE l[it[s \ {Max(s)}]]
           it == CHOOSE it : it = [s \in SUBSET T |-> Step(it, s)]
<1>1. \E g : g = [s \in SUBSET T |-> Step(g, s)]
  <2>1. PICK g : g = [s \in SUBSET T |-> h[s]]
    OBVIOUS
  <2>2. ASSUME NEW s \in SUBSET T PROVE g[s] = Step(g, s)
    <3>1. CASE s = {}
      BY <2>1, <3>1 DEF Applied
    <3>2. CASE s # {}
      BY <2>1, <3>2 DEF Applied
    <3> QED BY <3>1, <3>2
  <2> HIDE DEF Step, T
  <2>3. g = [s \in SUBSET T |-> Step(g, s)]
    BY <2>1, <2>2
  <2> QED BY <2>3
<1>2. it = [s \in SUBSET T |-> Step(it, s)]
  <2> HIDE DEF Step
  <2> QED BY <1>1
<1>3. FoldLeft(LAMBDA p, i : l[p], x, [i \in 1..n |-> i]) = it[T]
  BY DEF FoldLeft, MapThenFoldSet
<1> HIDE DEF it
<1>4. ASSUME NEW s \in SUBSET T PROVE it[s] = Step(it, s)
  <2> HIDE DEF Step
  <2> QED BY <1>2
<1>5. PICK c : Choice(c, T) /\ Largest(c, T)
  BY ChooseLargest
<1>6. it[{}] = h[{}]
  BY <1>4 DEF Applied
<1>7. ASSUME NEW s \in SUBSET T, s # {}, it[s \ {c[s]}] = h[s \ {c[s]}] PROVE it[s] = h[s]
  <2>1. c[s] = Max(s)
    BY <1>5, <1>7 DEF Largest
  <2>2. it[s] = l[it[s \ {c[s]}]] /\ h[s] = l[h[s \ {c[s]}]]
    BY <1>4, <1>7, <2>1 DEF Applied
  <2> QED BY <1>7, <2>2
<1>8. \A s \in SUBSET T : it[s] = h[s]
  <2>1. IsFiniteSet(T)
    BY FS_Interval
  <2>2. \A s \in SUBSET T : s # {} /\ it[s \ {c[s]}] = h[s \ {c[s]}] => it[s] = h[s]
    BY <1>7
  <2>3. PICK S, g : S = T /\ g = it
    OBVIOUS
  <2> HIDE DEF Step, T
  <2>4. Choice(c, S) /\ IsFiniteSet(S) /\ g[{}] = h[{}]
    BY <1>5, <1>6, <2>1, <2>3
  <2>5. \A s \in SUBSET S : s # {} /\ g[s \ {c[s]}] = h[s \ {c[s]}] => g[s] = h[s]
    BY <2>2, <2>3
  <2>6. \A s \in SUBSET S : g[s] = h[s]
    BY <2>4, <2>5, SameRecursion
  <2> QED BY <2>3, <2>6
<1> QED BY <1>3, <1>8

\* Two ways to go through 1..n, the largest first, that do the same at each.
Alike(it, h, n) ==
  /\ it[{}] = h[{}]
  /\ \A u \in SUBSET (1..n) : u # {} /\ it[u \ {Max(u)}] = h[u \ {Max(u)}] => it[u] = h[u]

LEMMA SameFold ==
  ASSUME NEW n \in Nat, NEW it, NEW h, Alike(it, h, n)
  PROVE  it[1..n] = h[1..n]
<1>1. PICK S : S = 1..n
  OBVIOUS
<1>2. IsFiniteSet(S)
  BY <1>1, FS_Interval
<1>3. PICK c : Choice(c, S) /\ Largest(c, S)
  BY <1>1, ChooseLargest
<1>4. \A u \in SUBSET S : u # {} /\ it[u \ {c[u]}] = h[u \ {c[u]}] => it[u] = h[u]
  BY <1>1, <1>3 DEF Alike, Largest
<1>5. it[{}] = h[{}]
  BY DEF Alike
<1>6. \A u \in SUBSET S : it[u] = h[u]
  BY <1>2, <1>3, <1>4, <1>5, SameRecursion
<1> QED BY <1>1, <1>6

\* h is what F comes to over a set of indices, g what it comes to over the
\* first of them.
Folded(h, g, F, v0, V, n) ==
  /\ h \in [SUBSET (1..n) -> V] /\ g \in [0..n -> V]
  /\ h[{}] = v0 /\ g[0] = v0 /\ g[n] = h[1..n]
  /\ \A u \in SUBSET (1..n) : u # {} => Max(u) \in 1..n /\ h[u] = F[Max(u)][h[u \ {Max(u)}]]
  /\ \A i \in 1..n : g[i] = F[i][g[i - 1]]

LEMMA FoldInOrder ==
  ASSUME NEW n \in Nat, NEW V, NEW v0 \in V, NEW F, F \in [1..n -> [V -> V]]
  PROVE  \E h, g : Folded(h, g, F, v0, V, n)
<1>1. PICK h, c : /\ h \in [SUBSET (1..n) -> V]
                  /\ Choice(c, 1..n) /\ Largest(c, 1..n) /\ Fold(h, F, v0, c, 1..n)
  BY LeftFold
<1>2. h[{}] = v0 /\ \A i \in 1..n : h[1..i] = F[i][h[1..(i - 1)]]
  <2>1. Largest(c, 1..n) /\ Fold(h, F, v0, c, 1..n)
    BY <1>1
  <2> QED BY <2>1, FoldSteps
<1>3. \A u \in SUBSET (1..n) : u # {} => Max(u) \in 1..n /\ h[u] = F[Max(u)][h[u \ {Max(u)}]]
  BY <1>1 DEF Fold, Largest, Choice
<1>4. PICK g : g = [i \in 0..n |-> h[1..i]]
  OBVIOUS
<1>5. \A i \in 0..n : 1..i \in SUBSET (1..n)
  OBVIOUS
<1>6. g \in [0..n -> V]
  BY <1>1, <1>4, <1>5
<1>7. 1..0 = {} /\ 0 \in 0..n /\ n \in 0..n
  OBVIOUS
<1>8. ASSUME NEW i \in 1..n PROVE g[i] = F[i][g[i - 1]]
  <2>1. PICK j : j = i - 1
    OBVIOUS
  <2>2. j \in 0..n /\ i \in 0..n
    BY <2>1
  <2>3. g[i] = h[1..i] /\ g[j] = h[1..j]
    BY <1>4, <2>2
  <2>4. h[1..i] = F[i][h[1..j]]
    BY <1>2, <2>1
  <2> QED BY <2>1, <2>3, <2>4
<1>9. g[0] = v0 /\ g[n] = h[1..n]
  BY <1>2, <1>4, <1>7
<1>10. Folded(h, g, F, v0, V, n)
  BY <1>1, <1>2, <1>3, <1>6, <1>8, <1>9 DEF Folded
<1> QED BY <1>10

-----------------------------------------------------------------------------
(***************************************************************************)
(* Sums.                                                                   *)
(***************************************************************************)

LEMMA SumOfEqual ==
  ASSUME NEW S, IsFiniteSet(S), NEW a \in Int, NEW f \in [S -> Int], \A x \in S : f[x] = a
  PROVE  SumFunctionOnSet(f, S) = a * Cardinality(S)
<1>0. PICK h : IsSum(h, f, S)
  BY SumOverSet
<1>1. /\ h \in [SUBSET S -> Int] /\ h[{}] = 0
      /\ \A T \in SUBSET S : \A x \in T : h[T] = f[x] + h[T \ {x}]
      /\ SumFunctionOnSet(f, S) = h[S]
  BY <1>0 DEF IsSum, SumAnyhow
<1> DEFINE W == {T \in SUBSET S : h[T] = a * Cardinality(T)}
<1>2. ASSUME NEW T \in SUBSET S, \A x \in T : T \ {x} \in W PROVE T \in W
  <2>1. CASE T = {}
    <3>1. h[{}] = 0 /\ Cardinality({}) = 0 /\ a * 0 = 0
      BY <1>1, FS_EmptySet
    <3> QED BY <2>1, <3>1
  <2>2. ASSUME NEW x \in T PROVE T \in W
    <3>1. h[T] = f[x] + h[T \ {x}] /\ f[x] = a
      BY <1>1
    <3>2. Cardinality(T) \in Nat \ {0} /\ Cardinality(T \ {x}) = Cardinality(T) - 1
      BY OneLess
    <3>3. h[T \ {x}] = a * (Cardinality(T) - 1)
      BY <1>2, <3>2
    <3>4. a + a * (Cardinality(T) - 1) = a * Cardinality(T)
      BY <3>2
    <3> QED BY <3>1, <3>3, <3>4
  <2> QED BY <2>1, <2>2
<1> HIDE DEF W
<1>3. SUBSET S \subseteq W
  <2>1. Grows(W, S)
    BY <1>2 DEF Grows
  <2> QED BY <2>1, SubsetInduction
<1> QED BY <1>1, <1>3 DEF W

LEMMA SumOfOne ==
  ASSUME NEW S, IsFiniteSet(S), NEW z \in S, NEW f \in [S -> Int],
         \A x \in S \ {z} : f[x] = 0
  PROVE  SumFunctionOnSet(f, S) = f[z]
<1>0. PICK h : IsSum(h, f, S)
  BY SumOverSet
<1>1. /\ h \in [SUBSET S -> Int] /\ h[{}] = 0
      /\ \A T \in SUBSET S : \A x \in T : h[T] = f[x] + h[T \ {x}]
      /\ SumFunctionOnSet(f, S) = h[S]
  BY <1>0 DEF IsSum, SumAnyhow
<1> DEFINE W == {T \in SUBSET S : z \notin T => h[T] = 0}
<1>2. ASSUME NEW T \in SUBSET S, \A x \in T : T \ {x} \in W PROVE T \in W
  <2>1. CASE T = {}
    BY <1>1, <2>1
  <2>2. ASSUME NEW x \in T PROVE T \in W
    <3>1. SUFFICES ASSUME z \notin T PROVE h[T] = 0
      OBVIOUS
    <3>2. h[T] = f[x] + h[T \ {x}] /\ f[x] = 0
      BY <1>1, <3>1
    <3>3. h[T \ {x}] = 0
      BY <1>2, <3>1
    <3> QED BY <3>2, <3>3
  <2> QED BY <2>1, <2>2
<1> HIDE DEF W
<1>3. SUBSET S \subseteq W
  <2>1. Grows(W, S)
    BY <1>2 DEF Grows
  <2> QED BY <2>1, SubsetInduction
<1>4. h[S \ {z}] = 0
  BY <1>3 DEF W
<1>5. h[S] = f[z] + h[S \ {z}]
  BY <1>1
<1> QED BY <1>1, <1>4, <1>5

Smaller(f, g, S) == \A x \in S : f[x] <= g[x]

LEMMA SumAtMost ==
  ASSUME NEW S, IsFiniteSet(S), NEW f \in [S -> Int], NEW g \in [S -> Int], Smaller(f, g, S)
  PROVE  SumFunctionOnSet(f, S) \in Int /\ SumFunctionOnSet(g, S) \in Int
         /\ SumFunctionOnSet(f, S) <= SumFunctionOnSet(g, S)
<1>1. PICK h : IsSum(h, f, S)
  BY SumOverSet
<1>2. PICK k : IsSum(k, g, S)
  BY SumOverSet
<1>3. /\ h \in [SUBSET S -> Int] /\ h[{}] = 0
      /\ \A T \in SUBSET S : \A x \in T : h[T] = f[x] + h[T \ {x}]
      /\ SumFunctionOnSet(f, S) = h[S]
  BY <1>1 DEF IsSum, SumAnyhow
<1>4. /\ k \in [SUBSET S -> Int] /\ k[{}] = 0
      /\ \A T \in SUBSET S : \A x \in T : k[T] = g[x] + k[T \ {x}]
      /\ SumFunctionOnSet(g, S) = k[S]
  BY <1>2 DEF IsSum, SumAnyhow
<1> DEFINE W == {T \in SUBSET S : h[T] <= k[T]}
<1>5. ASSUME NEW T \in SUBSET S, \A x \in T : T \ {x} \in W PROVE T \in W
  <2>1. CASE T = {}
    BY <1>3, <1>4, <2>1
  <2>2. ASSUME NEW x \in T PROVE T \in W
    <3>1. PICK U : U = T \ {x}
      OBVIOUS
    <3>2. h[T] = f[x] + h[U] /\ k[T] = g[x] + k[U] /\ U \in SUBSET S
      BY <1>3, <1>4, <3>1
    <3>3. f[x] <= g[x] /\ f[x] \in Int /\ g[x] \in Int /\ h[U] \in Int /\ k[U] \in Int
      BY <1>3, <1>4, <3>2 DEF Smaller
    <3>4. h[U] <= k[U]
      BY <1>5, <3>1
    <3>5. h[T] <= k[T]
      BY <3>2, <3>3, <3>4
    <3> QED BY <3>5
  <2> QED BY <2>1, <2>2
<1> HIDE DEF W
<1>6. SUBSET S \subseteq W
  <2>1. Grows(W, S)
    BY <1>5 DEF Grows
  <2> QED BY <2>1, SubsetInduction
<1>7. h[S] <= k[S] /\ h[S] \in Int /\ k[S] \in Int
  BY <1>3, <1>4, <1>6 DEF W
<1> QED BY <1>3, <1>4, <1>7

\* A sum whose terms lie between a and b.
LEMMA SumBetween ==
  ASSUME NEW S, IsFiniteSet(S), NEW f \in [S -> Int], NEW a \in Int, NEW b \in Int,
         \A x \in S : a <= f[x] /\ f[x] <= b
  PROVE  /\ SumFunctionOnSet(f, S) \in Int
         /\ a * Cardinality(S) <= SumFunctionOnSet(f, S)
         /\ SumFunctionOnSet(f, S) <= b * Cardinality(S)
<1>1. PICK l, u : l = [x \in S |-> a] /\ u = [x \in S |-> b]
  OBVIOUS
<1>2. l \in [S -> Int] /\ u \in [S -> Int] /\ Smaller(l, f, S) /\ Smaller(f, u, S)
  BY <1>1 DEF Smaller
<1>3. SumFunctionOnSet(l, S) = a * Cardinality(S) /\ SumFunctionOnSet(u, S) = b * Cardinality(S)
  BY <1>1, <1>2, SumOfEqual
<1>4. SumFunctionOnSet(l, S) <= SumFunctionOnSet(f, S)
  BY <1>2, SumAtMost
<1>5. SumFunctionOnSet(f, S) <= SumFunctionOnSet(u, S) /\ SumFunctionOnSet(f, S) \in Int
  BY <1>2, SumAtMost
<1> QED BY <1>3, <1>4, <1>5

\* A sum whose terms are a in R and zero elsewhere.
EqualWithin(f, R, S, a) == R \subseteq S /\ \A x \in S : f[x] = IF x \in R THEN a ELSE 0

LEMMA SumOfSome ==
  ASSUME NEW S, IsFiniteSet(S), NEW f \in [S -> Int], NEW a \in Int, NEW R, EqualWithin(f, R, S, a)
  PROVE  SumFunctionOnSet(f, S) = a * Cardinality(R)
<1>0. PICK h : IsSum(h, f, S)
  BY SumOverSet
<1>1. /\ h \in [SUBSET S -> Int] /\ h[{}] = 0
      /\ \A T \in SUBSET S : \A x \in T : h[T] = f[x] + h[T \ {x}]
      /\ SumFunctionOnSet(f, S) = h[S]
  BY <1>0 DEF IsSum, SumAnyhow
<1> DEFINE W == {T \in SUBSET S : h[T] = a * Cardinality(T \cap R)}
<1>2. ASSUME NEW T \in SUBSET S, \A x \in T : T \ {x} \in W PROVE T \in W
  <2>1. CASE T = {}
    <3>1. {} \cap R = {} /\ h[{}] = 0 /\ Cardinality({}) = 0 /\ a * 0 = 0
      BY <1>1, FS_EmptySet
    <3> QED BY <2>1, <3>1
  <2>2. ASSUME NEW x \in T PROVE T \in W
    <3>1. PICK U, A, B : U = T \ {x} /\ A = T \cap R /\ B = U \cap R
      OBVIOUS
    <3>2. h[T] = f[x] + h[U] /\ h[U] = a * Cardinality(B)
      BY <1>1, <1>2, <3>1
    <3>3. CASE x \in R
      <4>1. A \in SUBSET S /\ x \in A /\ B = A \ {x}
        BY <3>1, <3>3
      <4>2. Cardinality(A) \in Nat \ {0} /\ Cardinality(B) = Cardinality(A) - 1
        BY <4>1, OneLess
      <4>3. PICK p \in Nat \ {0} : p = Cardinality(A) /\ Cardinality(B) = p - 1
        BY <4>2
      <4>4. a + a * (p - 1) = a * p
        BY <4>3
      <4>5. h[T] = a * Cardinality(A)
        BY <3>2, <3>3, <4>3, <4>4 DEF EqualWithin
      <4> QED BY <3>1, <4>5
    <3>4. CASE x \notin R
      <4>1. A = B /\ f[x] = 0
        BY <3>1, <3>4 DEF EqualWithin
      <4>2. h[U] \in Int
        BY <1>1, <3>1
      <4>3. h[T] = a * Cardinality(A)
        BY <3>2, <4>1, <4>2
      <4> QED BY <3>1, <4>3
    <3> QED BY <3>3, <3>4
  <2> QED BY <2>1, <2>2
<1> HIDE DEF W
<1>3. SUBSET S \subseteq W
  <2>1. Grows(W, S)
    BY <1>2 DEF Grows
  <2> QED BY <2>1, SubsetInduction
<1>4. h[S] = a * Cardinality(S \cap R) /\ S \cap R = R
  BY <1>3 DEF W, EqualWithin
<1> QED BY <1>1, <1>4

-----------------------------------------------------------------------------
(***************************************************************************)
(* Products, and the greatest and the least of numbers. The products are   *)
(* what the provers know of them only when asked for nothing else.         *)
(***************************************************************************)

LEMMA ProductOfTwo ==
  ASSUME NEW a \in Nat, NEW b \in Nat
  PROVE  a * b \in Nat /\ (a # 0 /\ b # 0 => a * b # 0)
OBVIOUS

LEMMA ProductOfSum ==
  ASSUME NEW a \in Nat, NEW b \in Nat, NEW c \in Nat
  PROVE  a * (b + c) = a * b + a * c /\ (b + c) * a = b * a + c * a
OBVIOUS

\* Of the numbers of an interval of indices one is the greatest.
Greatest(f, m, a, b) == m \in a..b /\ \A j \in a..b : f[j] <= f[m]

LEMMA GreatestExists ==
  ASSUME NEW a \in Int, NEW b \in Int, a <= b, NEW f, \A i \in a..b : f[i] \in Int
  PROVE  \E m : Greatest(f, m, a, b)
<1> DEFINE S == {k \in a..b : \E m : Greatest(f, m, a, k)}
<1>1. a \in S
  <2>1. a \in a..b /\ a \in a..a /\ (\A j \in a..a : j = a) /\ f[a] \in Int
    OBVIOUS
  <2>2. f[a] <= f[a]
    BY <2>1
  <2>3. Greatest(f, a, a, a)
    BY <2>1, <2>2 DEF Greatest
  <2> QED BY <2>1, <2>3
<1>2. ASSUME NEW k \in a..(b - 1), k \in S PROVE k + 1 \in S
  <2>1. PICK m : Greatest(f, m, a, k)
    BY <1>2
  <2>2. PICK n : n = k + 1
    OBVIOUS
  <2>3. n \in a..b /\ n \in a..n /\ m \in a..b /\ m \in a..n /\ \A j \in a..n : j = n \/ j \in a..k
    BY <2>1, <2>2 DEF Greatest
  <2>4. f[m] \in Int /\ f[n] \in Int
    BY <2>3
  <2>5. CASE f[n] <= f[m]
    <3>1. Greatest(f, m, a, n)
      BY <2>1, <2>3, <2>5 DEF Greatest
    <3> QED BY <2>2, <2>3, <3>1
  <2>6. CASE f[m] < f[n]
    <3>1. ASSUME NEW j \in a..n PROVE f[j] <= f[n]
      <4>1. CASE j = n
        BY <2>4, <4>1
      <4>2. CASE j \in a..k
        <5>1. f[j] <= f[m]
          BY <2>1, <4>2 DEF Greatest
        <5>2. f[j] \in Int
          BY <2>2, <2>3, <4>2
        <5> QED BY <2>4, <2>6, <5>1, <5>2
      <4> QED BY <2>3, <4>1, <4>2
    <3>2. Greatest(f, n, a, n)
      BY <2>3, <3>1 DEF Greatest
    <3> QED BY <2>2, <2>3, <3>2
  <2> QED BY <2>4, <2>5, <2>6
<1> HIDE DEF S
<1>3. a..b \subseteq S
  <2>1. \A i \in a..(b - 1) : i \in S => i + 1 \in S
    BY <1>2
  <2> QED BY <1>1, <2>1, IntervalInduction
<1>4. b \in S
  <2>1. b \in a..b
    OBVIOUS
  <2> QED BY <1>3, <2>1
<1> QED BY <1>4 DEF S

LEMMA MaxIs ==
  ASSUME NEW S \in SUBSET Int, NEW m \in S, \A x \in S : x <= m
  PROVE  Max(S) = m
<1>1. \A x \in S : m >= x
  OBVIOUS
<1>2. Max(S) \in S /\ \A x \in S : Max(S) >= x
  BY <1>1 DEF Max
<1>3. Max(S) \in Int /\ m \in Int /\ Max(S) >= m /\ m >= Max(S)
  BY <1>1, <1>2
<1> QED BY <1>3

LEMMA MinIs ==
  ASSUME NEW S \in SUBSET Int, NEW m \in S, \A x \in S : m <= x
  PROVE  Min(S) = m
<1>2. Min(S) \in S /\ \A x \in S : Min(S) <= x
  BY DEF Min
<1>3. Min(S) \in Int /\ m \in Int /\ Min(S) <= m /\ m <= Min(S)
  BY <1>2
<1> QED BY <1>3

LEMMA GreatestOfTwo ==
  ASSUME NEW a \in Int, NEW b \in Int
  PROVE  Max({a, b}) = IF a <= b THEN b ELSE a
<1>1. CASE a <= b
  BY <1>1, MaxIs
<1>2. CASE ~(a <= b)
  BY <1>2, MaxIs
<1> QED BY <1>1, <1>2

LEMMA LeastOfTwo ==
  ASSUME NEW a \in Int, NEW b \in Int
  PROVE  Min({a, b}) = IF a <= b THEN a ELSE b
<1>1. CASE a <= b
  BY <1>1, MinIs
<1>2. CASE ~(a <= b)
  BY <1>2, MinIs
<1> QED BY <1>1, <1>2

-----------------------------------------------------------------------------
(***************************************************************************)
(* A sequence of sequences, flattened (FlattenSeq).                        *)
(***************************************************************************)

\* r is s and then t.
IsJoin(s, t, r) ==
  /\ Len(s) \in Nat /\ Len(t) \in Nat /\ Len(r) = Len(s) + Len(t)
  /\ \A i \in 1..(Len(s) + Len(t)) : r[i] = IF i <= Len(s) THEN s[i] ELSE t[i - Len(s)]

LEMMA JoinIs ==
  ASSUME NEW T, NEW s \in Seq(T), NEW t \in Seq(T), NEW r, r = s \o t
  PROVE  r \in Seq(T) /\ IsJoin(s, t, r)
BY ConcatProperties, LenProperties DEF IsJoin

\* g[i] is the first i pieces one after the other.
Pieces(g, s, T, n) ==
  /\ g[0] = <<>>
  /\ \A i \in 1..n : s[i] \in Seq(T) /\ g[i] \in Seq(T) /\ g[i] = g[i - 1] \o s[i]

LEMMA PiecesExist ==
  ASSUME NEW n \in Nat, NEW T, NEW s, s \in [1..n -> Seq(T)]
  PROVE  \E g : Pieces(g, s, T, n)
<1> DEFINE F == [i \in 1..n |-> [q \in Seq(T) |-> q \o s[i]]]
<1>1. F \in [1..n -> [Seq(T) -> Seq(T)]]
  <2>1. \A i \in 1..n, q \in Seq(T) : q \o s[i] \in Seq(T)
    BY ConcatProperties
  <2> QED BY <2>1
<1>2. \A i \in 1..n, q \in Seq(T) : F[i][q] = q \o s[i]
  OBVIOUS
<1>3. <<>> \in Seq(T)
  BY EmptySeq
<1> HIDE DEF F
<1>4. PICK g \in [0..n -> Seq(T)] : g[0] = <<>> /\ \A i \in 1..n : g[i] = F[i][g[i - 1]]
  <2>1. PICK V, v0 : V = Seq(T) /\ v0 = <<>>
    OBVIOUS
  <2>2. F \in [1..n -> [V -> V]] /\ v0 \in V
    BY <1>1, <1>3, <2>1
  <2>3. PICK g : Recursive(g, F, v0, V, n)
    BY <2>2, Recursion
  <2> QED BY <2>1, <2>3 DEF Recursive
<1>5. ASSUME NEW i \in 1..n PROVE g[i] \in Seq(T) /\ g[i] = g[i - 1] \o s[i]
  <2>1. i \in 0..n /\ i - 1 \in 0..n
    OBVIOUS
  <2> QED BY <1>2, <1>4, <2>1
<1> QED BY <1>4, <1>5 DEF Pieces

LEMMA FlattenIsThis ==
  ASSUME NEW n \in Nat, NEW T, NEW s, s \in [1..n -> Seq(T)], NEW g, Pieces(g, s, T, n)
  PROVE  FlattenSeq(s) = g[n]
<1>1. s \in Seq(Seq(T)) /\ Len(s) = n
  <2>1. s \in Seq(Seq(T))
    BY SeqDef
  <2> QED BY <2>1, LenProperties
<1>2. CASE n = 0
  <2>1. s = <<>>
    BY <1>1, <1>2, EmptySeq
  <2> QED BY <1>1, <1>2, <2>1 DEF FlattenSeq, Pieces
<1>3. CASE n > 0
  <2> DEFINE Step(f, i) == IF i = 1 THEN s[i] ELSE f[i - 1] \o s[i]
             D == 1..n
             f == CHOOSE f : f = [i \in D |-> Step(f, i)]
  <2>0. 1 \in D /\ n \in D
    BY <1>3
  <2>a. ASSUME NEW i \in D PROVE s[i] \in Seq(T) /\ g[i] = g[i - 1] \o s[i]
    BY DEF Pieces
  <2>1. g[1] = s[1]
    <3>1. PICK j, k : j = 1 /\ k = j - 1
      OBVIOUS
    <3>2. k = 0 /\ g[k] = <<>>
      BY <3>1 DEF Pieces
    <3> HIDE DEF D
    <3>3. s[j] \in Seq(T) /\ g[j] = g[k] \o s[j]
      BY <2>0, <2>a, <3>1
    <3>4. <<>> \o s[j] = s[j]
      BY <3>3, ConcatEmptySeq
    <3> QED BY <3>1, <3>2, <3>3, <3>4
  <2>2. \E h : h = [i \in D |-> Step(h, i)]
    <3>1. PICK h : h = [i \in D |-> g[i]]
      OBVIOUS
    <3>2. ASSUME NEW i \in D PROVE h[i] = Step(h, i)
      <4>1. CASE i = 1
        BY <2>1, <3>1, <4>1
      <4>2. CASE i # 1
        <5>1. i - 1 \in D
          BY <4>2
        <5> QED BY <3>1, <4>2, <5>1 DEF Pieces
      <4> QED BY <4>1, <4>2
    <3> HIDE DEF Step, D
    <3>3. h = [i \in D |-> Step(h, i)]
      BY <3>1, <3>2
    <3> QED BY <3>3
  <2>3. f = [i \in D |-> Step(f, i)]
    <3> HIDE DEF Step, D
    <3> QED BY <2>2
  <2>4. FlattenSeq(s) = f[n]
    BY <1>1, <1>3 DEF FlattenSeq
  <2> HIDE DEF f
  <2>5. ASSUME NEW i \in D PROVE f[i] = Step(f, i)
    <3> HIDE DEF Step, D
    <3> QED BY <2>3
  <2> DEFINE E == {i \in D : f[i] = g[i]}
  <2>6. 1 \in E
    BY <2>0, <2>1, <2>5
  <2>7. ASSUME NEW i \in 1..(n - 1), i \in E PROVE i + 1 \in E
    <3>1. PICK j : j = i + 1
      OBVIOUS
    <3>2. j \in D /\ j # 1 /\ j - 1 = i
      BY <3>1
    <3>3. f[j] = f[j - 1] \o s[j] /\ g[j] = g[j - 1] \o s[j]
      BY <2>5, <2>a, <3>2
    <3> QED BY <2>7, <3>1, <3>2, <3>3
  <2> HIDE DEF E
  <2>8. D \subseteq E
    <3>1. \A i \in 1..(n - 1) : i \in E => i + 1 \in E
      BY <2>7
    <3>2. 1 \in Int /\ n \in Int
      OBVIOUS
    <3>3. 1..n \subseteq E
      BY <2>6, <3>1, <3>2, IntervalInduction
    <3> QED BY <3>3
  <2> QED BY <2>0, <2>4, <2>8 DEF E
<1> QED BY <1>2, <1>3

\* r is s without its last piece.
WithoutLast(r, s, T, n) ==
  /\ s \in [1..(n + 1) -> Seq(T)] /\ r \in [1..n -> Seq(T)]
  /\ \A i \in 1..n : r[i] = s[i]

LastAdded(r, s, T, n) ==
  /\ FlattenSeq(r) \in Seq(T) /\ s[n + 1] \in Seq(T)
  /\ FlattenSeq(s) = FlattenSeq(r) \o s[n + 1]
  /\ n = 0 => FlattenSeq(r) = <<>>

\* One piece more.
LEMMA FlattenMore ==
  ASSUME NEW n \in Nat, NEW T, NEW s, NEW r, WithoutLast(r, s, T, n)
  PROVE  LastAdded(r, s, T, n)
<1> DEFINE m == n + 1
<1>1. m \in Nat /\ m \in 1..m /\ m - 1 = n /\ \A i \in 1..n : i \in 1..m
  OBVIOUS
<1> HIDE DEF m
<1>2. s \in [1..m -> Seq(T)] /\ r \in [1..n -> Seq(T)] /\ \A i \in 1..n : r[i] = s[i]
  BY DEF m, WithoutLast
<1>3. PICK g : Pieces(g, s, T, m)
  BY <1>1, <1>2, PiecesExist
<1>4. r \in [1..n -> Seq(T)] /\ Pieces(g, r, T, n)
  BY <1>1, <1>2, <1>3 DEF Pieces
<1>5. FlattenSeq(s) = g[m] /\ FlattenSeq(r) = g[n]
  BY SMTT(30), <1>1, <1>2, <1>3, <1>4, FlattenIsThis
<1>6. g[m] = g[n] \o s[m] /\ s[m] \in Seq(T) /\ g[0] = <<>>
  BY <1>1, <1>3 DEF Pieces
<1>7. g[n] \in Seq(T)
  <2>1. CASE n = 0
    BY <1>6, <2>1, EmptySeq
  <2>2. CASE n # 0
    <3>1. n \in 1..n
      BY <2>2
    <3> QED BY <1>4, <3>1 DEF Pieces
  <2> QED BY <2>1, <2>2
<1> QED BY <1>5, <1>6, <1>7 DEF m, LastAdded

\* Piece i of g[m], in its place.
LiesAt(g, s, m, i) ==
  /\ Len(g[i - 1]) \in Nat /\ Len(s[i]) \in Nat
  /\ Len(g[i]) = Len(g[i - 1]) + Len(s[i]) /\ Len(g[i]) <= Len(g[m])
  /\ \A j \in 1..Len(s[i]) : g[m][Len(g[i - 1]) + j] = s[i][j]

Lie(g, s, m) == \A i \in 1..m : LiesAt(g, s, m, i)

\* Every piece keeps its place in what is flattened.
LEMMA PiecesLie ==
  ASSUME NEW n \in Nat, NEW T, NEW g, NEW s, Pieces(g, s, T, n)
  PROVE  Lie(g, s, n)
<1> DEFINE S == {m \in 0..n : Lie(g, s, m)}
<1>1. 0 \in S
  BY DEF Lie
<1>2. ASSUME NEW m \in 0..(n - 1), m \in S PROVE m + 1 \in S
  <2>1. PICK k : k = m + 1
    OBVIOUS
  <2>2. k \in 1..n /\ k - 1 = m /\ m \in Nat
    BY <2>1
  <2>3. s[k] \in Seq(T) /\ g[k] = g[m] \o s[k] /\ g[m] \in Seq(T)
    <3>1. s[k] \in Seq(T) /\ g[k] = g[m] \o s[k]
      BY <2>2 DEF Pieces
    <3>2. m = 0 => g[m] = <<>>
      BY DEF Pieces
    <3>3. m # 0 => m \in 1..n
      BY <2>2
    <3>4. m # 0 => g[m] \in Seq(T)
      BY <3>3 DEF Pieces
    <3> QED BY <3>1, <3>2, <3>4, EmptySeq
  <2>4. PICK a, b : a = Len(g[m]) /\ b = Len(s[k])
    OBVIOUS
  <2>5. a \in Nat /\ b \in Nat
    BY <2>3, <2>4, LenProperties
  <2>6. Len(g[k]) = a + b /\ \A j \in 1..(a + b) : g[k][j] = IF j <= a THEN g[m][j] ELSE s[k][j - a]
    <3>1. PICK x, y : x = g[m] /\ y = s[k]
      OBVIOUS
    <3>2. x \in Seq(T) /\ y \in Seq(T) /\ a = Len(x) /\ b = Len(y) /\ g[k] = x \o y
      BY <2>3, <2>4, <3>1
    <3>3. PICK r : r = x \o y
      OBVIOUS
    <3>4. Len(r) = a + b /\ \A j \in 1..(a + b) : r[j] = IF j <= a THEN x[j] ELSE y[j - a]
      BY <3>2, <3>3, ConcatProperties
    <3>5. g[k] = r /\ g[m] = x /\ s[k] = y
      BY <3>1, <3>2, <3>3
    <3> QED BY ZenonT(30), <3>4, <3>5
  <2>7. LiesAt(g, s, k, k)
    <3>1. ASSUME NEW j \in 1..b PROVE g[k][a + j] = s[k][j]
      <4>1. PICK z : z = a + j
        OBVIOUS
      <4>2. z \in 1..(a + b) /\ ~(z <= a) /\ z - a = j
        BY <2>5, <4>1
      <4> QED BY <2>6, <4>1, <4>2
    <3> QED BY <2>2, <2>4, <2>5, <2>6, <3>1 DEF LiesAt
  <2>8. ASSUME NEW i \in 1..m PROVE LiesAt(g, s, k, i)
    <3>1. LiesAt(g, s, m, i)
      BY <1>2 DEF Lie
    <3>2. PICK c, d : c = Len(g[i - 1]) /\ d = Len(s[i])
      OBVIOUS
    <3>3. c \in Nat /\ d \in Nat /\ Len(g[i]) = c + d /\ c + d <= a
          /\ \A j \in 1..d : g[m][c + j] = s[i][j]
      BY <2>4, <3>1, <3>2 DEF LiesAt
    <3>4. ASSUME NEW j \in 1..d PROVE g[k][c + j] = s[i][j]
      <4>1. PICK z : z = c + j
        OBVIOUS
      <4>2. z \in 1..(a + b) /\ z <= a
        BY <2>5, <3>3, <4>1
      <4> QED BY <2>6, <3>3, <4>1, <4>2
    <3>5. Len(g[i]) <= Len(g[k])
      BY <2>5, <2>6, <3>3
    <3> QED BY <3>2, <3>3, <3>4, <3>5 DEF LiesAt
  <2>9. Lie(g, s, k)
    <3>1. \A i \in 1..k : i = k \/ i \in 1..m
      BY <2>1, <2>2
    <3> QED BY <2>7, <2>8, <3>1 DEF Lie
  <2>10. m + 1 \in 0..n
    OBVIOUS
  <2> QED BY <2>1, <2>9, <2>10
<1> HIDE DEF S
<1>3. n \in S
  <2>1. Climbs(S, n)
    BY <1>2 DEF Climbs
  <2> QED BY <1>1, <2>1, ClimbsToTop
<1> QED BY <1>3 DEF S

LEMMA PiecesType ==
  ASSUME NEW n \in Nat, NEW T, NEW g, NEW s, Pieces(g, s, T, n), NEW i \in 0..n
  PROVE  g[i] \in Seq(T)
<1>1. i = 0 \/ i \in 1..n
  OBVIOUS
<1> QED BY <1>1, EmptySeq DEF Pieces

BeginsWith(t, s, T) == \E u \in Seq(T) : t = s \o u

\* What is flattened begins with what its first pieces are.
LEMMA PiecesStart ==
  ASSUME NEW n \in Nat, NEW T, NEW g, NEW s, Pieces(g, s, T, n), NEW i \in 0..n
  PROVE  BeginsWith(g[n], g[i], T)
<1> DEFINE S == {m \in 0..n : \E u \in Seq(T) : g[n] = g[n - m] \o u}
<1>1. 0 \in S
  <2>1. PICK k : k = n - 0
    OBVIOUS
  <2>2. k = n /\ n \in 0..n
    BY <2>1
  <2>3. g[n] \in Seq(T)
    BY <2>2, PiecesType
  <2>4. \E u \in Seq(T) : g[n] = g[n - 0] \o u
    <3>1. g[n] = g[k] \o <<>> /\ <<>> \in Seq(T)
      BY <2>2, <2>3, ConcatEmptySeq, EmptySeq
    <3>2. \E u \in Seq(T) : g[n] = g[k] \o u
      BY <3>1
    <3> QED BY <2>1, <3>2
  <2>5. 0 \in 0..n
    OBVIOUS
  <2> QED BY <2>4, <2>5
<1>2. ASSUME NEW m \in 0..(n - 1), m \in S PROVE m + 1 \in S
  <2>1. PICK k, l : k = n - m /\ l = n - (m + 1)
    OBVIOUS
  <2>2. k \in 1..n /\ l = k - 1 /\ l \in 0..n
    BY <2>1
  <2>3. PICK u \in Seq(T) : g[n] = g[k] \o u
    BY <1>2, <2>1
  <2>4. g[k] = g[l] \o s[k] /\ s[k] \in Seq(T)
    BY <2>2 DEF Pieces
  <2>5. g[l] \in Seq(T)
    BY <2>2, PiecesType
  <2>6. PICK a, b, c : a = g[l] /\ b = s[k] /\ c = u
    OBVIOUS
  <2>7. a \in Seq(T) /\ b \in Seq(T) /\ c \in Seq(T)
    BY <2>3, <2>4, <2>5, <2>6
  <2>8. (a \o b) \o c = a \o (b \o c) /\ b \o c \in Seq(T)
    BY SMTT(30), <2>7, ConcatAssociative, ConcatProperties
  <2>9. \E v \in Seq(T) : g[n] = g[l] \o v
    BY <2>3, <2>4, <2>6, <2>8
  <2>10. \E v \in Seq(T) : g[n] = g[n - (m + 1)] \o v
    BY <2>1, <2>9
  <2>11. m + 1 \in 0..n
    OBVIOUS
  <2> QED BY <2>10, <2>11
<1> HIDE DEF S
<1>4. 0..n \subseteq S
  <2>1. 0 \in Int /\ n \in Int
    OBVIOUS
  <2>2. \A j \in 0..(n - 1) : j \in S => j + 1 \in S
    BY <1>2
  <2> QED BY <1>1, <2>1, <2>2, IntervalInduction
<1>5. n - i \in 0..n /\ n - (n - i) = i
  OBVIOUS
<1>6. n - i \in S
  BY <1>4, <1>5
<1>7. \E u \in Seq(T) : g[n] = g[i] \o u
  BY <1>5, <1>6 DEF S
<1> QED BY <1>7 DEF BeginsWith

LEMMA BeginsWithPrefix ==
  ASSUME NEW T, NEW s \in Seq(T), NEW t, BeginsWith(t, s, T)
  PROVE  IsPrefix(s, t)
<1>1. PICK u \in Seq(T) : t = s \o u
  BY DEF BeginsWith
<1>2. Len(s) \in Nat /\ Len(u) \in Nat /\ Len(t) = Len(s) + Len(u)
  BY <1>1, ConcatProperties, LenProperties
<1>3. SubSeq(t, 1, Len(s)) = SubSeq(s, 1, Len(s))
  <2>1. CASE Len(s) = 0
    BY <2>1, SubSeqEmpty
  <2>2. CASE Len(s) # 0
    <3>1. Len(s) \in 1..Len(s) /\ 1 \in 1..Len(s)
      BY <1>2, <2>2
    <3>2. SubSeq(s \o u, 1, Len(s)) = SubSeq(s, 1, Len(s))
      BY <3>1, SubSeqOfConcat1
    <3> QED BY <1>1, <3>2
  <2> QED BY <2>1, <2>2
<1> QED BY <1>2, <1>3 DEF IsPrefix

=============================================================================
