--------------------------- MODULE Results_proofs ---------------------------
(***************************************************************************)
(* The rows and the document of a run: what bench.c sends of its own       *)
(* measurements passes the hub's checks, a span is read off the predictor  *)
(* and a total lies within its rows, for every number of runs, threads,    *)
(* cores and sizes. Numbers are fractions, and what is not positive counts *)
(* as not measured.                                                        *)
(***************************************************************************)
EXTENDS Results, Induction, SequenceTheorems, TLAPS

Fractions == Nat \X (Nat \ {0})

LEMMA FractionIs ==
  ASSUME NEW x
  PROVE  x \in Fractions <=> x = <<x[1], x[2]>> /\ x[1] \in Nat /\ x[2] \in Nat \ {0}
BY DEF Fractions

LEMMA NewFraction ==
  ASSUME NEW a \in Nat, NEW b \in Nat \ {0}
  PROVE  <<a, b>> \in Fractions
BY DEF Fractions

LEMMA PlusType ==
  ASSUME NEW x \in Fractions, NEW y \in Fractions
  PROVE  Plus(x, y) \in Fractions
<1>1. PICK a, b, c, d : a = x[1] /\ b = x[2] /\ c = y[1] /\ d = y[2]
  OBVIOUS
<1>2. a \in Nat /\ b \in Nat \ {0} /\ c \in Nat /\ d \in Nat \ {0}
  BY <1>1, FractionIs
<1>3. a * d \in Nat /\ c * b \in Nat /\ b * d \in Nat \ {0}
  BY <1>2, ProductOfTwo
<1>4. a * d + c * b \in Nat
  BY <1>3
<1> QED BY <1>1, <1>3, <1>4, NewFraction DEF Plus

LEMMA OverType ==
  ASSUME NEW x \in Fractions, NEW y \in Fractions, Positive(y)
  PROVE  Over(x, y) \in Fractions /\ (Positive(Over(x, y)) <=> Positive(x))
<1>1. PICK a, b, c, d : a = x[1] /\ b = x[2] /\ c = y[1] /\ d = y[2]
  OBVIOUS
<1>2. a \in Nat /\ b \in Nat \ {0} /\ c \in Nat \ {0} /\ d \in Nat \ {0}
  BY <1>1, FractionIs DEF Positive
<1>3. a * d \in Nat /\ b * c \in Nat \ {0} /\ (a # 0 => a * d # 0) /\ (a = 0 => a * d = 0)
  BY <1>2, ProductOfTwo
<1>4. a * d > 0 <=> a > 0
  BY <1>2, <1>3
<1>5. Over(x, y) = <<a * d, b * c>>
  BY <1>1 DEF Over
<1> QED BY <1>1, <1>3, <1>4, <1>5, NewFraction DEF Positive

LEMMA SimpleFractions ==
  /\ Zero \in Fractions /\ ~Positive(Zero)
  /\ \A n \in Nat : Whole(n) \in Fractions /\ (Positive(Whole(n)) <=> n > 0)
  /\ <<1, 20>> \in Fractions /\ Positive(<<1, 20>>)
  /\ <<1, 2000>> \in Fractions /\ Positive(<<1, 2000>>)
BY NewFraction DEF Zero, Whole, Positive

LEMMA RatioType ==
  ASSUME NEW x \in Fractions, NEW y \in Fractions
  PROVE  Ratio(x, y) \in Fractions
BY OverType, SimpleFractions DEF Ratio

LEMMA SameAsItself ==
  ASSUME NEW x \in Fractions
  PROVE  Same(x, x)
<1>1. x[1] \in Nat /\ x[2] \in Nat
  BY FractionIs
<1>2. PICK m \in Nat : m = x[1] * x[2]
  BY <1>1, ProductOfTwo
<1> QED BY <1>2 DEF Same, AtMost

\* Keeping what is positive, one after the other.
Kept(g, s, n) == g[0] = <<>> /\ \A i \in 1..n : g[i] = Keep(g[i - 1], s[i])

LEMMA KeepsOneByOne ==
  ASSUME NEW n \in Nat, NEW A, NEW s, s \in [1..n -> A]
  PROVE  \E g \in [0..n -> Seq(A)] : Kept(g, s, n) /\ PositiveOnes(s) = g[n]
<1> DEFINE T == 1..n
           Step(it, u) == IF u = {} THEN <<>> ELSE Keep(it[u \ {Max(u)}], s[Max(u)])
           it == CHOOSE it : it = [u \in SUBSET T |-> Step(it, u)]
<1>1. PICK V, v0 : V = Seq(A) /\ v0 = <<>>
  OBVIOUS
<1>2. v0 \in V /\ \A v \in V : \A i \in 1..n : Keep(v, s[i]) \in V
  BY <1>1, EmptySeq, AppendProperties DEF Keep
<1>3. PICK F \in [1..n -> [V -> V]] : \A i \in 1..n : \A v \in V : F[i][v] = Keep(v, s[i])
  <2>1. [i \in 1..n |-> [v \in V |-> Keep(v, s[i])]] \in [1..n -> [V -> V]]
    BY <1>2
  <2> QED BY <2>1
<1>4. PICK h, g : Folded(h, g, F, v0, V, n)
  BY <1>2, <1>3, FoldInOrder
<1>5. PositiveOnes(s) = it[T]
  <2>1. DOMAIN s = T
    OBVIOUS
  <2> QED BY <2>1 DEF PositiveOnes, FoldLeft, MapThenFoldSet
<1>6. ASSUME NEW u \in SUBSET T PROVE h[u] = Step(h, u)
  <2>1. CASE u = {}
    BY <1>1, <1>4, <2>1 DEF Folded
  <2>2. CASE u # {}
    <3>1. Max(u) \in 1..n /\ h[u] = F[Max(u)][h[u \ {Max(u)}]] /\ h[u \ {Max(u)}] \in V
      BY <1>4, <2>2 DEF Folded
    <3> QED BY <1>3, <2>2, <3>1
  <2> QED BY <2>1, <2>2
<1>7. it = [u \in SUBSET T |-> Step(it, u)]
  <2>1. h = [u \in SUBSET T |-> Step(h, u)]
    <3> HIDE DEF Step
    <3> QED BY <1>4, <1>6 DEF Folded
  <2> HIDE DEF Step
  <2> QED BY <2>1
<1> HIDE DEF it
<1>8. Alike(it, h, n)
  <2>1. \A u \in SUBSET T : it[u] = Step(it, u)
    <3> HIDE DEF Step
    <3> QED BY <1>7
  <2> QED BY <1>6, <2>1 DEF Alike
<1>9. it[T] = h[T]
  BY <1>8, SameFold
<1>10. Kept(g, s, n)
  <2>1. ASSUME NEW i \in 1..n PROVE g[i] = Keep(g[i - 1], s[i])
    <3>1. PICK j : j = i - 1
      OBVIOUS
    <3>2. j \in 0..n
      BY <3>1
    <3>3. g[j] \in V /\ g[i] = F[i][g[j]]
      BY <1>4, <3>1, <3>2 DEF Folded
    <3> QED BY <1>3, <3>1, <3>3
  <2> QED BY <1>1, <1>4, <2>1 DEF Kept, Folded
<1>11. g \in [0..n -> V] /\ g[n] = h[T]
  BY <1>4 DEF Folded
<1> QED BY <1>1, <1>5, <1>9, <1>10, <1>11

\* The sum of the terms, one after the other.
Summed(g, s, n) == g[0] = Zero /\ \A i \in 1..n : g[i] = Plus(g[i - 1], s[i])

LEMMA SumsOneByOne ==
  ASSUME NEW n \in Nat, NEW s, s \in [1..n -> Fractions]
  PROVE  \E g \in [0..n -> Fractions] : Summed(g, s, n) /\ SumOf(s) = g[n]
<1> DEFINE T == 1..n
           Step(it, u) == IF u = {} THEN Zero ELSE Plus(it[u \ {Max(u)}], s[Max(u)])
           it == CHOOSE it : it = [u \in SUBSET T |-> Step(it, u)]
<1>1. PICK V, v0 : V = Fractions /\ v0 = Zero
  OBVIOUS
<1>2. v0 \in V /\ \A v \in V : \A i \in 1..n : Plus(v, s[i]) \in V
  BY <1>1, SimpleFractions, PlusType
<1>3. PICK F \in [1..n -> [V -> V]] : \A i \in 1..n : \A v \in V : F[i][v] = Plus(v, s[i])
  <2>1. [i \in 1..n |-> [v \in V |-> Plus(v, s[i])]] \in [1..n -> [V -> V]]
    BY <1>2
  <2> QED BY <2>1
<1>4. PICK h, g : Folded(h, g, F, v0, V, n)
  BY <1>2, <1>3, FoldInOrder
<1>5. SumOf(s) = it[T]
  <2>1. DOMAIN s = T
    OBVIOUS
  <2> QED BY <2>1 DEF SumOf, FoldLeft, MapThenFoldSet
<1>6. ASSUME NEW u \in SUBSET T PROVE h[u] = Step(h, u)
  <2>1. CASE u = {}
    BY <1>1, <1>4, <2>1 DEF Folded
  <2>2. CASE u # {}
    <3>1. Max(u) \in 1..n /\ h[u] = F[Max(u)][h[u \ {Max(u)}]] /\ h[u \ {Max(u)}] \in V
      BY <1>4, <2>2 DEF Folded
    <3> QED BY <1>3, <2>2, <3>1
  <2> QED BY <2>1, <2>2
<1>7. it = [u \in SUBSET T |-> Step(it, u)]
  <2>1. h = [u \in SUBSET T |-> Step(h, u)]
    <3> HIDE DEF Step
    <3> QED BY <1>4, <1>6 DEF Folded
  <2> HIDE DEF Step
  <2> QED BY <2>1
<1> HIDE DEF it
<1>8. Alike(it, h, n)
  <2>1. \A u \in SUBSET T : it[u] = Step(it, u)
    <3> HIDE DEF Step
    <3> QED BY <1>7
  <2> QED BY <1>6, <2>1 DEF Alike
<1>9. it[T] = h[T]
  BY <1>8, SameFold
<1>10. Summed(g, s, n)
  <2>1. ASSUME NEW i \in 1..n PROVE g[i] = Plus(g[i - 1], s[i])
    <3>1. PICK j : j = i - 1
      OBVIOUS
    <3>2. j \in 0..n
      BY <3>1
    <3>3. g[j] \in V /\ g[i] = F[i][g[j]]
      BY <1>4, <3>1, <3>2 DEF Folded
    <3> QED BY <1>3, <3>1, <3>3
  <2> QED BY <1>1, <1>4, <2>1 DEF Summed, Folded
<1>11. g \in [0..n -> V] /\ g[n] = h[T]
  BY <1>4 DEF Folded
<1> QED BY <1>1, <1>5, <1>9, <1>10, <1>11

LEMMA MeasuredIsThere ==
  ASSUME NEW x \in Fractions, Positive(x)
  PROVE  x # <<>>
BY FractionIs

\* What a cell says is what was measured, and zero where nothing was.
LEMMA NumberOfCell ==
  ASSUME NEW x \in Fractions
  PROVE  /\ (Cell(x) = <<>> <=> ~Positive(x))
         /\ Number(Cell(x)) = IF Positive(x) THEN x ELSE Zero
         /\ Number(Cell(x)) \in Fractions
         /\ (Positive(Number(Cell(x))) <=> Positive(x))
BY MeasuredIsThere, SimpleFractions DEF Cell, Number

LEMMA SameNothing ==
  ASSUME NEW x \in Fractions, NEW y \in Fractions, ~Positive(x), ~Positive(y)
  PROVE  Same(x, y)
<1>1. x[1] = 0 /\ y[1] = 0 /\ x[2] \in Nat /\ y[2] \in Nat
  BY FractionIs DEF Positive
<1>2. 0 * y[2] = 0 /\ 0 * x[2] = 0
  BY <1>1
<1> QED BY <1>1, <1>2 DEF Same, AtMost

\* A ratio worked out before it was sent is the ratio of what was sent.
LEMMA RatioOfSent ==
  ASSUME NEW x \in Fractions, NEW y \in Fractions
  PROVE  Same(Number(Cell(Ratio(x, y))), Ratio(Number(Cell(x)), Number(Cell(y))))
<1>1. PICK r : r = Ratio(x, y)
  OBVIOUS
<1>2. PICK p, q : p = Number(Cell(x)) /\ q = Number(Cell(y))
  OBVIOUS
<1>3. p \in Fractions /\ q \in Fractions /\ p = (IF Positive(x) THEN x ELSE Zero)
      /\ q = (IF Positive(y) THEN y ELSE Zero)
  BY <1>2, NumberOfCell
<1>4. r \in Fractions /\ Ratio(p, q) \in Fractions
  BY <1>1, <1>3, RatioType
<1>5. CASE Positive(x) /\ Positive(y)
  <2>1. Ratio(p, q) = r /\ Positive(r)
    BY <1>1, <1>3, <1>5, OverType DEF Ratio
  <2>2. Number(Cell(r)) = r
    BY <1>4, <2>1, NumberOfCell
  <2> QED BY <1>1, <1>2, <1>4, <2>1, <2>2, SameAsItself
<1>6. CASE ~(Positive(x) /\ Positive(y))
  <2>1. ~Positive(r)
    <3>1. CASE Positive(y)
      BY <1>1, <1>6, <3>1, OverType DEF Ratio
    <3>2. CASE ~Positive(y)
      BY <1>1, <3>2, SimpleFractions DEF Ratio
    <3> QED BY <3>1, <3>2
  <2>2. ~Positive(Ratio(p, q))
    <3>1. CASE Positive(y)
      <4>1. ~Positive(x) /\ q = y /\ p = Zero /\ ~Positive(p)
        BY <1>3, <1>6, <3>1, SimpleFractions
      <4> QED BY <3>1, <4>1, <1>3, OverType DEF Ratio
    <3>2. CASE ~Positive(y)
      <4>1. ~Positive(q)
        BY <1>3, <3>2, SimpleFractions
      <4> QED BY <4>1, SimpleFractions DEF Ratio
    <3> QED BY <3>1, <3>2
  <2>3. Number(Cell(r)) \in Fractions /\ ~Positive(Number(Cell(r)))
    BY <1>4, <2>1, NumberOfCell
  <2> QED BY <1>1, <1>2, <1>4, <2>2, <2>3, SameNothing
<1> QED BY <1>5, <1>6

\* Two terms of a score that the hub and the benchmark do not tell apart.
Agree(x, y) ==
  /\ x \in Fractions /\ y \in Fractions
  /\ Positive(x) <=> Positive(y)
  /\ Positive(x) => Same(x, y)

LEMMA AgreesWithItself ==
  ASSUME NEW x \in Fractions
  PROVE  Agree(x, x)
BY SameAsItself DEF Agree

Twin(s, t) == Len(s) = Len(t) /\ \A i \in 1..Len(s) : Same(s[i], t[i])

LEMMA TwinsGrow ==
  ASSUME NEW s \in Seq(Fractions), NEW t \in Seq(Fractions), Twin(s, t),
         NEW x, NEW y, Agree(x, y)
  PROVE  Twin(Keep(s, x), Keep(t, y))
<1>0. x \in Fractions /\ y \in Fractions /\ (Positive(x) <=> Positive(y))
  BY DEF Agree
<1>1. CASE ~Positive(x)
  BY <1>0, <1>1 DEF Keep
<1>2. CASE Positive(x)
  <2>1. PICK p, q : p = Append(s, x) /\ q = Append(t, y)
    OBVIOUS
  <2>2. Keep(s, x) = p /\ Keep(t, y) = q
    BY <1>0, <1>2, <2>1 DEF Keep
  <2>3. PICK n \in Nat : n = Len(s) /\ n = Len(t)
    BY LenProperties DEF Twin
  <2>4. /\ Len(p) = n + 1 /\ Len(q) = n + 1 /\ p[n + 1] = x /\ q[n + 1] = y
        /\ \A i \in 1..n : p[i] = s[i] /\ q[i] = t[i]
    <3>1. Len(p) = Len(s) + 1 /\ p[Len(s) + 1] = x /\ \A i \in 1..Len(s) : p[i] = s[i]
      BY <1>0, <2>1, AppendProperties
    <3>2. Len(q) = Len(t) + 1 /\ q[Len(t) + 1] = y /\ \A i \in 1..Len(t) : q[i] = t[i]
      BY <1>0, <2>1, AppendProperties
    <3> QED BY <2>3, <3>1, <3>2
  <2>5. ASSUME NEW i \in 1..(n + 1) PROVE Same(p[i], q[i])
    <3>1. CASE i = n + 1
      BY <1>2, <2>4, <3>1 DEF Agree
    <3>2. CASE i # n + 1
      BY <2>3, <2>4, <3>2 DEF Twin
    <3> QED BY <3>1, <3>2
  <2> QED BY <2>2, <2>4, <2>5 DEF Twin
<1> QED BY <1>1, <1>2

AgreeThroughout(s, t, n) == \A i \in 1..n : Agree(s[i], t[i])

LEMMA KeptAlike ==
  ASSUME NEW n \in Nat, NEW s, NEW t, s \in [1..n -> Fractions], t \in [1..n -> Fractions],
         AgreeThroughout(s, t, n)
  PROVE  /\ PositiveOnes(s) \in Seq(Fractions) /\ PositiveOnes(t) \in Seq(Fractions)
         /\ Twin(PositiveOnes(s), PositiveOnes(t))
<1>1. PICK g \in [0..n -> Seq(Fractions)] : Kept(g, s, n) /\ PositiveOnes(s) = g[n]
  BY KeepsOneByOne
<1>2. PICK h \in [0..n -> Seq(Fractions)] : Kept(h, t, n) /\ PositiveOnes(t) = h[n]
  BY KeepsOneByOne
<1> DEFINE S == {i \in 0..n : Twin(g[i], h[i])}
<1>3. 0 \in S
  <2>1. g[0] = <<>> /\ h[0] = <<>>
    BY <1>1, <1>2 DEF Kept
  <2>2. \A i \in 1..Len(<<>>) : Same(<<>>[i], <<>>[i])
    BY EmptySeq
  <2> QED BY <2>1, <2>2 DEF Twin
<1>4. ASSUME NEW j \in 0..(n - 1), j \in S PROVE j + 1 \in S
  <2>1. PICK i : i = j + 1
    OBVIOUS
  <2>2. i \in 1..n /\ i \in 0..n /\ j \in 0..n /\ j = i - 1
    BY <2>1
  <2>3. g[i] = Keep(g[j], s[i]) /\ h[i] = Keep(h[j], t[i])
    BY <1>1, <1>2, <2>2 DEF Kept
  <2>4. g[j] \in Seq(Fractions) /\ h[j] \in Seq(Fractions) /\ Agree(s[i], t[i]) /\ Twin(g[j], h[j])
    BY <1>4, <2>2 DEF AgreeThroughout
  <2> QED BY <2>1, <2>2, <2>3, <2>4, TwinsGrow
<1> HIDE DEF S
<1>5. n \in S
  <2>1. Climbs(S, n)
    BY <1>4 DEF Climbs
  <2> QED BY <1>3, <2>1, ClimbsToTop
<1>6. n \in 0..n
  OBVIOUS
<1> QED BY <1>1, <1>2, <1>5, <1>6 DEF S

\* What a row holds, of one CPU or of n threads together.
MeasuredRow(r) ==
  /\ r.mhz \in Fractions /\ r.lat \in Fractions /\ r.thr \in Fractions
  /\ r.near \in Fractions /\ r.far \in Fractions
  /\ r.disp.thr \in Fractions /\ r.disp.span \in Fractions
  /\ Positive(r.lat) /\ Positive(r.thr)

RowOf(r, n) ==
  /\ MeasuredRow(r)
  /\ r.ilp = Ratio(r.thr, r.lat) /\ r.mlp = Ratio(r.near, r.far)
  /\ r.score = Geomean(Terms(r, n))

LEMMA PlusOneAgrees ==
  ASSUME NEW x \in Fractions, NEW y, y = Number(Cell(x))
  PROVE  Agree(Over(Plus(x, Whole(1)), <<1, 2000>>), Over(Plus(y, Whole(1)), <<1, 2000>>))
<1>1. y \in Fractions /\ Whole(1) \in Fractions
  BY NumberOfCell, SimpleFractions
<1>2. CASE Positive(x)
  <2>1. y = x
    BY <1>2, NumberOfCell
  <2>2. Over(Plus(x, Whole(1)), <<1, 2000>>) \in Fractions
    BY <1>1, PlusType, OverType, SimpleFractions
  <2> QED BY <2>1, <2>2, AgreesWithItself
<1>3. CASE ~Positive(x)
  <2>1. PICK k : k = x[2]
    OBVIOUS
  <2>2. k \in Nat \ {0} /\ x[1] = 0 /\ y = <<0, 1>>
    BY <1>3, <2>1, FractionIs, NumberOfCell DEF Positive, Zero
  <2>3. Plus(x, Whole(1)) = <<k, k>> /\ Plus(y, Whole(1)) = <<1, 1>>
    <3>1. 0 * 1 + 1 * k = k /\ k * 1 = k /\ 0 * 1 + 1 * 1 = 1 /\ 1 * 1 = 1
      BY <2>2
    <3> QED BY <2>1, <2>2, <3>1 DEF Plus, Whole
  <2>4. PICK m \in Nat \ {0} : m = k * 2000
    BY <2>2
  <2>5. Over(<<k, k>>, <<1, 2000>>) = <<m, k>> /\ Over(<<1, 1>>, <<1, 2000>>) = <<2000, 1>>
    <3>1. k * 1 = k /\ 1 * 2000 = 2000 /\ 1 * 1 = 1
      BY <2>2
    <3> QED BY <2>4, <3>1 DEF Over
  <2>6. <<m, k>> \in Fractions /\ <<2000, 1>> \in Fractions /\ Positive(<<m, k>>) /\ Positive(<<2000, 1>>)
    BY <2>2, <2>4, NewFraction DEF Positive
  <2>7. Same(<<m, k>>, <<2000, 1>>)
    <3>1. m * 1 = m /\ 2000 * k = m
      BY <2>2, <2>4
    <3> QED BY <2>4, <3>1 DEF Same, AtMost
  <2> QED BY <2>3, <2>5, <2>6, <2>7 DEF Agree
<1> QED BY <1>2, <1>3

LEMMA OverAgrees ==
  ASSUME NEW x \in Fractions, NEW y, y = Number(Cell(x)), NEW z \in Fractions, Positive(z)
  PROVE  Agree(Over(x, z), Over(y, z))
<1>1. y \in Fractions /\ (Positive(y) <=> Positive(x)) /\ (Positive(x) => y = x)
  BY NumberOfCell
<1>2. Over(x, z) \in Fractions /\ Over(y, z) \in Fractions
      /\ (Positive(Over(x, z)) <=> Positive(x)) /\ (Positive(Over(y, z)) <=> Positive(x))
  BY <1>1, OverType
<1>3. Positive(x) => Same(Over(x, z), Over(y, z))
  BY <1>1, <1>2, SameAsItself
<1> QED BY <1>2, <1>3 DEF Agree

LEMMA TermsAgree ==
  ASSUME NEW r, MeasuredRow(r), NEW n \in Nat, NEW scope, NEW s, NEW t,
         s = Terms(r, n), t = ScoreTerms(Sent(scope, r), n)
  PROVE  s \in [1..4 -> Fractions] /\ t \in [1..4 -> Fractions] /\ AgreeThroughout(s, t, 4)
<1>1. PICK thr, dthr, span, far, status :
        thr = r.thr /\ dthr = r.disp.thr /\ span = r.disp.span /\ far = r.far /\ status = r.disp.status
  OBVIOUS
<1>2. thr \in Fractions /\ dthr \in Fractions /\ span \in Fractions /\ far \in Fractions
  BY <1>1 DEF MeasuredRow
<1>3. PICK q : q = Whole(100000 * n)
  OBVIOUS
<1>4. q \in Fractions
  BY <1>3, SimpleFractions
<1>5. PICK p, u, v : p = Number(Cell(thr)) /\ u = Number(Cell(dthr)) /\ v = Number(Cell(span))
  OBVIOUS
<1>6. PICK a, b, c, d :
        /\ a = thr /\ b = Over(dthr, <<1, 20>>)
        /\ c = (IF status = "unknown" THEN Zero ELSE Over(Plus(span, Whole(1)), <<1, 2000>>))
        /\ d = (IF Positive(far) THEN Over(q, far) ELSE Zero)
  OBVIOUS
<1>7. PICK e, f, g, h :
        /\ e = p /\ f = Over(u, <<1, 20>>)
        /\ g = (IF status = "unknown" THEN Zero ELSE Over(Plus(v, Whole(1)), <<1, 2000>>))
        /\ h = (IF Positive(far) THEN Over(q, far) ELSE Zero)
  OBVIOUS
<1>8. s = <<a, b, c, d>>
  BY <1>1, <1>3, <1>6 DEF Terms
<1>9. t = <<e, f, g, h>>
  <2>1. PICK x : x = Sent(scope, r)
    OBVIOUS
  <2>2. /\ x.thr = Cell(thr) /\ x.dispThr = Cell(dthr) /\ x.prediction = status
        /\ x.far = Cell(far) /\ (status # "unknown" => x.span = Cell(span))
    BY <1>1, <2>1 DEF Sent
  <2>3. x.far # <<>> <=> Positive(far)
    BY <1>2, <2>2, NumberOfCell
  <2>4. Positive(far) => Number(x.far) = far
    BY <1>2, <2>2, NumberOfCell
  <2> QED BY <1>3, <1>5, <1>7, <2>1, <2>2, <2>3, <2>4 DEF ScoreTerms
<1>10. Agree(a, e)
  <2>1. a \in Fractions /\ e \in Fractions /\ (Positive(e) <=> Positive(a)) /\ (Positive(a) => e = a)
    BY <1>2, <1>5, <1>6, <1>7, NumberOfCell
  <2> QED BY <2>1, SameAsItself DEF Agree
<1>11. Agree(b, f)
  BY <1>2, <1>5, <1>6, <1>7, SimpleFractions, OverAgrees
<1>12. Agree(c, g)
  <2>1. CASE status = "unknown"
    BY <1>6, <1>7, <2>1, SimpleFractions, AgreesWithItself
  <2>2. CASE status # "unknown"
    BY <1>2, <1>5, <1>6, <1>7, <2>2, PlusOneAgrees
  <2> QED BY <2>1, <2>2
<1>13. Agree(d, h)
  <2>1. d \in Fractions
    BY <1>2, <1>4, <1>6, OverType, SimpleFractions
  <2> QED BY <1>6, <1>7, <2>1, AgreesWithItself
<1>14. ASSUME NEW i \in 1..4 PROVE Agree(s[i], t[i]) /\ s[i] \in Fractions /\ t[i] \in Fractions
  <2>1. i = 1 \/ i = 2 \/ i = 3 \/ i = 4
    OBVIOUS
  <2>2. Agree(s[i], t[i])
    BY <1>8, <1>9, <1>10, <1>11, <1>12, <1>13, <2>1
  <2> QED BY <2>2 DEF Agree
<1>15. s = [i \in 1..4 |-> s[i]] /\ t = [i \in 1..4 |-> t[i]]
  BY <1>8, <1>9
<1> QED BY <1>14, <1>15 DEF AgreeThroughout

LEMMA SentRowIsConsistent ==
  ASSUME NEW r, NEW scope, NEW n \in Nat, NEW m, m = (IF scope = "total" THEN n ELSE 1), RowOf(r, m)
  PROVE  Consistent(Sent(scope, r), n) /\ Sent(scope, r).thr # <<>>
<1>1. PICK d : d = Sent(scope, r)
  OBVIOUS
<1>2. /\ d.scope = scope /\ d.thr = Cell(r.thr) /\ d.lat = Cell(r.lat) /\ d.ilp = Cell(r.ilp)
      /\ d.near = Cell(r.near) /\ d.far = Cell(r.far) /\ d.mlp = Cell(r.mlp) /\ d.score = r.score
  BY <1>1 DEF Sent
<1>3. m \in Nat /\ MeasuredRow(r)
  BY DEF RowOf
<1>4. Same(Number(d.ilp), Ratio(Number(d.thr), Number(d.lat)))
  BY <1>2, <1>3, RatioOfSent DEF RowOf, MeasuredRow
<1>5. Same(Number(d.mlp), Ratio(Number(d.near), Number(d.far)))
  BY <1>2, <1>3, RatioOfSent DEF RowOf, MeasuredRow
<1>6. PICK s, t : s = Terms(r, m) /\ t = ScoreTerms(d, m)
  OBVIOUS
<1>7. s \in [1..4 -> Fractions] /\ t \in [1..4 -> Fractions] /\ AgreeThroughout(s, t, 4)
  BY <1>1, <1>3, <1>6, TermsAgree
<1>8. PICK p, q : p = PositiveOnes(s) /\ q = PositiveOnes(t)
  OBVIOUS
<1>9. p \in Seq(Fractions) /\ q \in Seq(Fractions) /\ Twin(p, q)
  BY <1>7, <1>8, KeptAlike
<1>10. d.score = p /\ Geomean(t) = q
  BY <1>2, <1>6, <1>8 DEF RowOf, Geomean
<1>11. DOMAIN q = 1..Len(p) /\ Len(p) = Len(q) /\ \A i \in DOMAIN q : Same(p[i], q[i])
  <2>1. DOMAIN q = 1..Len(q)
    BY <1>9, LenProperties
  <2> QED BY <1>9, <2>1 DEF Twin
<1>12. Consistent(d, n)
  BY <1>2, <1>4, <1>5, <1>6, <1>10, <1>11 DEF Consistent
<1>13. d.thr # <<>>
  BY <1>2, <1>3, NumberOfCell DEF MeasuredRow
<1> QED BY <1>1, <1>12, <1>13

Rows(rows) ==
  /\ \E S : rows \in Seq(S)
  /\ \A i \in 1..Len(rows) : RowOf(rows[i], 1)

\* Records that agree with themselves, of a run of n threads.
Good(records, n) ==
  /\ \E S : records \in Seq(S)
  /\ \A i \in 1..Len(records) : Consistent(records[i], n) /\ records[i].thr # <<>>

LEMMA SentRowsAreGood ==
  ASSUME NEW rows, Rows(rows), NEW scope, scope # "total", NEW n \in Nat
  PROVE  /\ Good([i \in DOMAIN rows |-> Sent(scope, rows[i])], n)
         /\ Len([i \in DOMAIN rows |-> Sent(scope, rows[i])]) = Len(rows)
<1>1. PICK k : k = Len(rows)
  OBVIOUS
<1>2. k \in Nat /\ DOMAIN rows = 1..k
  BY <1>1, LenProperties DEF Rows
<1>3. PICK out, S : out = [i \in DOMAIN rows |-> Sent(scope, rows[i])] /\ S = {Sent(scope, rows[i]) : i \in DOMAIN rows}
  OBVIOUS
<1>4. out \in [1..k -> S]
  BY <1>2, <1>3
<1>5. out \in Seq(S) /\ Len(out) = k
  <2>1. out \in Seq(S)
    BY <1>2, <1>4, SeqDef
  <2> QED BY <1>2, <1>4, <2>1, LenProperties
<1>6. ASSUME NEW i \in 1..k PROVE Consistent(out[i], n) /\ out[i].thr # <<>>
  <2>1. out[i] = Sent(scope, rows[i])
    BY <1>2, <1>3
  <2>2. PICK m : m = 1
    OBVIOUS
  <2>3. m = (IF scope = "total" THEN n ELSE 1) /\ RowOf(rows[i], m)
    BY <1>1, <2>2 DEF Rows
  <2> QED BY <2>1, <2>3, SentRowIsConsistent
<1>7. Good(out, n)
  BY <1>5, <1>6 DEF Good
<1> QED BY <1>1, <1>3, <1>5, <1>7

LEMMA GoodJoined ==
  ASSUME NEW s, NEW t, NEW n, Good(s, n), Good(t, n)
  PROVE  Good(s \o t, n) /\ Len(s \o t) = Len(s) + Len(t)
<1>1. PICK S, T : s \in Seq(S) /\ t \in Seq(T)
  BY DEF Good
<1>2. PICK U, r : U = S \cup T /\ r = s \o t
  OBVIOUS
<1>3. s \in Seq(U) /\ t \in Seq(U)
  <2>1. S \subseteq U /\ T \subseteq U
    BY <1>2
  <2> QED BY <1>1, <2>1, SeqMonotonic
<1>4. r \in Seq(U) /\ IsJoin(s, t, r)
  BY <1>2, <1>3, JoinIs
<1>5. ASSUME NEW i \in 1..Len(r) PROVE Consistent(r[i], n) /\ r[i].thr # <<>>
  <2>1. PICK a \in Nat, b \in Nat : a = Len(s) /\ b = Len(t) /\ Len(r) = a + b
    BY <1>4 DEF IsJoin
  <2>2. CASE i <= a
    <3>1. r[i] = s[i] /\ i \in 1..Len(s)
      BY <1>4, <2>1, <2>2 DEF IsJoin
    <3> QED BY <3>1 DEF Good
  <2>3. CASE i > a
    <3>1. PICK j : j = i - a
      OBVIOUS
    <3>2. r[i] = t[j] /\ j \in 1..Len(t)
      BY <1>4, <2>1, <2>3, <3>1 DEF IsJoin
    <3> QED BY <3>2 DEF Good
  <2> QED BY <2>1, <2>2, <2>3
<1>6. Good(r, n)
  BY <1>4, <1>5 DEF Good
<1> QED BY <1>2, <1>4, <1>6 DEF IsJoin

\* What the hub says to a document of rows that were measured.
Accepted(d) ==
  Verdict(d) \in {"stored"} \cup (IF Len(d.records) > MaxRecords THEN {"too many records"} ELSE {})

LEMMA DocumentAccepted ==
  ASSUME Rows(threads), Rows(cores), setup \in Setups,
         Len(threads) = setup.threads, Len(cores) = setup.cpus,
         threads # <<>> => RowOf(total, setup.threads)
  PROVE  Accepted(Document)
<1>1. PICK n, c : n = setup.threads /\ c = setup.cpus
  OBVIOUS
<1>2. n \in Nat /\ c \in Nat /\ n + c > 0
  BY <1>1, ResultsAssumption
<1>3. PICK r1 : r1 = [i \in DOMAIN threads |-> Sent("thread", threads[i])]
  OBVIOUS
<1>4. PICK r2 : r2 = IF threads = <<>> THEN <<>> ELSE <<Sent("total", total)>>
  OBVIOUS
<1>5. PICK r3 : r3 = [i \in DOMAIN cores |-> Sent("cpu", cores[i])]
  OBVIOUS
<1>6. Good(r1, n) /\ Len(r1) = n
  BY <1>1, <1>2, <1>3, SentRowsAreGood
<1>7. Good(r3, n) /\ Len(r3) = c
  BY <1>1, <1>2, <1>5, SentRowsAreGood
<1>8. Good(r2, n) /\ Len(r2) \in Nat
  <2>1. CASE threads = <<>>
    <3>1. r2 = <<>> /\ Len(r2) = 0 /\ r2 \in Seq({})
      BY <1>4, <2>1, EmptySeq
    <3> QED BY <3>1 DEF Good
  <2>2. CASE threads # <<>>
    <3>1. PICK x : x = Sent("total", total)
      OBVIOUS
    <3>2. r2 = <<x>> /\ Len(r2) = 1 /\ r2 \in Seq({x}) /\ r2[1] = x
      BY <1>4, <2>2, <3>1
    <3>3. Consistent(x, n) /\ x.thr # <<>>
      <4>1. PICK scope : scope = "total"
        OBVIOUS
      <4>2. n = (IF scope = "total" THEN n ELSE 1) /\ RowOf(total, n)
        BY <1>1, <2>2, <4>1
      <4>3. Consistent(Sent(scope, total), n) /\ Sent(scope, total).thr # <<>>
        BY <1>2, <4>2, SentRowIsConsistent
      <4> QED BY <3>1, <4>1, <4>3
    <3>4. \A i \in 1..Len(r2) : i = 1
      BY <3>2
    <3> QED BY <3>2, <3>3, <3>4 DEF Good
  <2> QED BY <2>1, <2>2
<1>9. PICK r : r = (r1 \o r2) \o r3
  OBVIOUS
<1>10. Good(r, n) /\ Len(r) \in Nat /\ Len(r) > 0
  <2>1. Good(r1 \o r2, n) /\ Len(r1 \o r2) = n + Len(r2)
    BY <1>6, <1>8, GoodJoined
  <2>2. Good(r, n) /\ Len(r) = Len(r1 \o r2) + c
    BY <1>7, <1>9, <2>1, GoodJoined
  <2> QED BY <1>2, <1>8, <2>1, <2>2
<1>11. PICK d : d = Document
  OBVIOUS
<1>12. d.records = r /\ d.threads = n
  BY <1>1, <1>3, <1>4, <1>5, <1>9, <1>11 DEF Document
<1>13. DOMAIN r = 1..Len(r) /\ r # <<>> /\ 1 \in DOMAIN r
  <2>1. DOMAIN r = 1..Len(r)
    BY LenProperties, <1>10 DEF Good
  <2> QED BY <1>10, <2>1, EmptySeq
<1>14. r[1].thr # <<>> /\ \A i \in DOMAIN r : Consistent(r[i], n)
  BY <1>10, <1>13 DEF Good
<1>15. Verdict(d) \in {"stored"} \cup (IF Len(r) > MaxRecords THEN {"too many records"} ELSE {})
  BY <1>12, <1>13, <1>14 DEF Verdict
<1> QED BY <1>11, <1>12, <1>15 DEF Accepted

LEMMA LadderIs ==
  /\ Len(Ladder) \in Nat /\ Len(Ladder) >= 3 /\ PlateauPts \in Nat /\ PlateauPts >= 1
  /\ PlateauPts + 1 <= Len(Ladder) - 1 /\ 1 \in 1..Len(Ladder) /\ Len(Ladder) \in 1..Len(Ladder)
  /\ 2..(PlateauPts + 1) \subseteq Span /\ Span \subseteq 1..Len(Ladder)
<1>1. Len(Ladder) \in Nat
  BY ResultsAssumption, LenProperties
<1>2. PlateauPts \in 1..(Len(Ladder) - 2)
  BY ResultsAssumption
<1> QED BY <1>1, <1>2 DEF Span

SpanIsFinite == IsFiniteSet(Span) /\ Cardinality(Span) = Len(Ladder) - 2

LEMMA SpanCounts == SpanIsFinite
<1>1. PICK b : b = Len(Ladder) - 1
  OBVIOUS
<1>2. b \in Int /\ 2 \in Int /\ b - 2 + 1 = Len(Ladder) - 2 /\ ~(2 > b)
  BY <1>1, LadderIs
<1>3. IsFiniteSet(2..b) /\ Cardinality(2..b) = b - 2 + 1
  BY <1>2, FS_Interval
<1> QED BY <1>1, <1>2, <1>3 DEF SpanIsFinite, Span

\* The plateau is the rate of some entry at the span's beginning, and none of
\* these is faster.
PlateauAt(m, rates) ==
  /\ m \in 2..(PlateauPts + 1) /\ Plateau(rates) = rates[m]
  /\ \A j \in 2..(PlateauPts + 1) : rates[j] <= rates[m]

LEMMA PlateauIs ==
  ASSUME NEW rates \in [1..Len(Ladder) -> Nat]
  PROVE  Plateau(rates) \in Nat /\ \E m : PlateauAt(m, rates)
<1>1. PICK b : b = PlateauPts + 1
  OBVIOUS
<1>2. b \in Int /\ 2 <= b /\ 2..b \subseteq 1..Len(Ladder)
  BY <1>1, LadderIs
<1>3. \A i \in 2..b : rates[i] \in Nat
  BY <1>2
<1>4. PICK m : Greatest(rates, m, 2, b)
  <2>1. 2 \in Int /\ \A i \in 2..b : rates[i] \in Int
    BY <1>3
  <2> QED BY ONLY <1>2, <2>1, GreatestExists
<1>5. m \in 2..b /\ \A j \in 2..b : rates[j] <= rates[m]
  BY <1>4 DEF Greatest
<1>6. PICK S : S = {rates[i] : i \in 2..b}
  OBVIOUS
<1>7. S \in SUBSET Int /\ rates[m] \in S /\ \A x \in S : x <= rates[m]
  BY <1>3, <1>5, <1>6
<1>8. Max(S) = rates[m]
  BY <1>7, MaxIs
<1>9. Plateau(rates) = rates[m]
  BY <1>1, <1>6, <1>8 DEF Plateau
<1> QED BY <1>1, <1>3, <1>5, <1>9 DEF PlateauAt

\* What a rate is worth over the floor, and no more than the plateau is.
Won(rates, i) ==
  LET over == rates[i] - rates[Len(Ladder)]
      most == Plateau(rates) - rates[Len(Ladder)]
  IN IF over <= 0 THEN 0 ELSE IF over <= most THEN over ELSE most

\* The span's integral: w the terms, most what each may be.
Integral(rates, w, most) ==
  /\ most = Plateau(rates) - rates[Len(Ladder)] /\ most \in Nat \ {0}
  /\ w = [i \in Span |-> Won(rates, i)] /\ w \in [Span -> 0..most]
  /\ SumFunctionOnSet(w, Span) \in Nat
  /\ SumFunctionOnSet(w, Span) <= most * (Len(Ladder) - 2)

LEMMA IntegralIs ==
  ASSUME NEW rates \in [1..Len(Ladder) -> Nat], Plateau(rates) > rates[Len(Ladder)]
  PROVE  \E w, most : Integral(rates, w, most)
<1>1. PICK most : most = Plateau(rates) - rates[Len(Ladder)]
  OBVIOUS
<1>2. most \in Nat \ {0}
  BY <1>1, PlateauIs, LadderIs
<1>3. PICK w : w = [i \in Span |-> Won(rates, i)]
  OBVIOUS
<1>4. ASSUME NEW i \in Span PROVE Won(rates, i) \in 0..most
  <2>1. PICK over \in Int : over = rates[i] - rates[Len(Ladder)]
    BY LadderIs
  <2>2. Won(rates, i) = IF over <= 0 THEN 0 ELSE IF over <= most THEN over ELSE most
    BY <1>1, <2>1 DEF Won
  <2> QED BY <1>2, <2>1, <2>2
<1>5. w \in [Span -> 0..most]
  BY <1>3, <1>4
<1>6. w \in [Span -> Int] /\ \A i \in Span : 0 <= w[i] /\ w[i] <= most
  BY <1>2, <1>5
<1>7. PICK c \in Nat : c = Len(Ladder) - 2 /\ Cardinality(Span) = c /\ IsFiniteSet(Span)
  BY LadderIs, SpanCounts DEF SpanIsFinite
<1>8. /\ SumFunctionOnSet(w, Span) \in Int /\ 0 * c <= SumFunctionOnSet(w, Span)
      /\ SumFunctionOnSet(w, Span) <= most * c
  BY <1>2, <1>6, <1>7, SumBetween
<1>9. SumFunctionOnSet(w, Span) \in Nat
  BY <1>7, <1>8
<1> QED BY <1>1, <1>2, <1>3, <1>5, <1>7, <1>8, <1>9 DEF Integral

\* A rate lifts off when it is this much above the floor.
Lifted(rate, floor) == 100 * rate >= 115 * floor

Unmeasured(rates) ==
  rates[Len(Ladder)] = 0 \/ rates[1] = 0 \/ \E i \in 2..(PlateauPts + 1) : rates[i] = 0

\* What disp_summary makes of a ladder, case by case.
SummaryOf(d, rates) ==
  LET top == Plateau(rates)
      floor == rates[Len(Ladder)]
  IN /\ Unmeasured(rates) => d.status = "unknown" /\ d.thr = Zero /\ d.gain = Zero /\ d.span = Zero
     /\ ~Unmeasured(rates) => d.thr = Whole(top) /\ d.gain = <<top, floor>>
     /\ ~Unmeasured(rates) /\ ~Lifted(top, floor) => d.span = Zero
     /\ ~Unmeasured(rates) /\ ~Lifted(top, floor) /\ ~Lifted(rates[1], floor) => d.status = "none"
     /\ ~Unmeasured(rates) /\ (Lifted(top, floor) \/ Lifted(rates[1], floor)) =>
          d.status = "measured" /\ d.caps = <<d.span>>
     /\ ~Unmeasured(rates) /\ Lifted(top, floor) =>
          \E w, most : Integral(rates, w, most) /\ d.span = <<SumFunctionOnSet(w, Span), most>>

LEMMA DispatchIs ==
  ASSUME NEW rates \in [1..Len(Ladder) -> Nat], NEW d, d = Dispatch(rates)
  PROVE  SummaryOf(d, rates)
<1>1. PICK top, floor : top = Plateau(rates) /\ floor = rates[Len(Ladder)]
  OBVIOUS
<1>2. top \in Nat /\ floor \in Nat
  BY <1>1, PlateauIs, LadderIs
<1>3. PICK won : won = [i \in Span |-> Min({Max({rates[i] - floor, 0}), top - floor})]
  OBVIOUS
<1>4. PICK span : span = IF Lifted(top, floor) THEN <<SumFunctionOnSet(won, Span), top - floor>> ELSE Zero
  OBVIOUS
<1>5. d = IF Unmeasured(rates)
          THEN [status |-> "unknown", thr |-> Zero, gain |-> Zero, span |-> Zero, caps |-> <<>>]
          ELSE IF ~Lifted(top, floor) /\ ~Lifted(rates[1], floor)
          THEN [status |-> "none", thr |-> Whole(top), gain |-> <<top, floor>>,
                span |-> Zero, caps |-> <<>>]
          ELSE [status |-> "measured", thr |-> Whole(top), gain |-> <<top, floor>>,
                span |-> span, caps |-> <<span>>]
  BY <1>1, <1>3, <1>4 DEF Dispatch, Lifted, Unmeasured
<1>6. ASSUME ~Unmeasured(rates), Lifted(top, floor)
      PROVE  \E w, most : Integral(rates, w, most) /\ span = <<SumFunctionOnSet(w, Span), most>>
  <2>1. floor # 0
    BY <1>1, <1>6 DEF Unmeasured
  <2>2. top > floor
    BY <1>2, <1>6, <2>1 DEF Lifted
  <2>3. PICK w, most : Integral(rates, w, most)
    BY <1>1, <2>2, IntegralIs
  <2>4. most = top - floor /\ most \in Nat
    BY <1>1, <2>3 DEF Integral
  <2>5. ASSUME NEW i \in Span PROVE Min({Max({rates[i] - floor, 0}), top - floor}) = Won(rates, i)
    <3>1. PICK over \in Int : over = rates[i] - floor
      BY <1>1, LadderIs
    <3>2. PICK q \in Int : q = Max({over, 0}) /\ q = IF over <= 0 THEN 0 ELSE over
      BY <3>1, GreatestOfTwo
    <3>3. Min({q, most}) = IF q <= most THEN q ELSE most
      <4>1. most \in Int /\ q \in Int
        BY <2>4
      <4> QED BY ONLY <4>1, LeastOfTwo
    <3>4. Won(rates, i) = IF over <= 0 THEN 0 ELSE IF over <= most THEN over ELSE most
      BY <1>1, <2>4, <3>1 DEF Won
    <3>5. (IF q <= most THEN q ELSE most) = Won(rates, i)
      BY <2>4, <3>2, <3>4
    <3> QED BY <2>4, <3>1, <3>2, <3>3, <3>5
  <2>6. won = w
    BY <1>3, <2>3, <2>5 DEF Integral
  <2> QED BY <1>4, <1>6, <2>3, <2>4, <2>6
<1>7. ~Lifted(top, floor) => span = Zero
  BY <1>4
<1>8. CASE Unmeasured(rates)
  BY <1>5, <1>8 DEF SummaryOf
<1>9. CASE ~Unmeasured(rates) /\ ~Lifted(top, floor) /\ ~Lifted(rates[1], floor)
  BY <1>1, <1>5, <1>9 DEF SummaryOf
<1>10. CASE ~Unmeasured(rates) /\ (Lifted(top, floor) \/ Lifted(rates[1], floor))
  <2>1. d = [status |-> "measured", thr |-> Whole(top), gain |-> <<top, floor>>,
             span |-> span, caps |-> <<span>>]
    BY <1>5, <1>10
  <2>2. d.status = "measured" /\ d.thr = Whole(top) /\ d.gain = <<top, floor>> /\ d.span = span
        /\ d.caps = <<span>>
    BY <2>1
  <2> QED BY <1>1, <1>6, <1>7, <1>10, <2>2 DEF SummaryOf
<1> QED BY <1>8, <1>9, <1>10

LEMMA DispatchType ==
  ASSUME NEW rates \in [1..Len(Ladder) -> Nat], NEW d, d = Dispatch(rates)
  PROVE  d.thr \in Fractions /\ d.gain \in Fractions /\ d.span \in Fractions
<1>1. SummaryOf(d, rates)
  BY DispatchIs
<1>2. CASE Unmeasured(rates)
  BY <1>1, <1>2, SimpleFractions DEF SummaryOf
<1>3. CASE ~Unmeasured(rates)
  <2>1. PICK top, floor : top = Plateau(rates) /\ floor = rates[Len(Ladder)]
    OBVIOUS
  <2>2. top \in Nat /\ floor \in Nat /\ floor # 0
    BY <1>3, <2>1, PlateauIs, LadderIs DEF Unmeasured
  <2>3. d.thr \in Fractions /\ d.gain \in Fractions
    <3>1. d.thr = Whole(top) /\ d.gain = <<top, floor>>
      BY <1>1, <1>3, <2>1 DEF SummaryOf
    <3> QED BY <2>2, <3>1, SimpleFractions, NewFraction
  <2>4. CASE ~Lifted(top, floor)
    BY <1>1, <1>3, <2>1, <2>3, <2>4, SimpleFractions DEF SummaryOf
  <2>5. CASE Lifted(top, floor)
    <3>1. PICK w, most : Integral(rates, w, most) /\ d.span = <<SumFunctionOnSet(w, Span), most>>
      BY <1>1, <1>3, <2>1, <2>5 DEF SummaryOf
    <3> QED BY <2>3, <3>1, NewFraction DEF Integral
  <2> QED BY <2>4, <2>5
<1> QED BY <1>2, <1>3

LEMMA PlusPositive ==
  ASSUME NEW x \in Fractions, NEW y \in Fractions, Positive(x) \/ Positive(y)
  PROVE  Positive(Plus(x, y))
<1>1. PICK a, b, c, d : a = x[1] /\ b = x[2] /\ c = y[1] /\ d = y[2]
  OBVIOUS
<1>2. a \in Nat /\ b \in Nat \ {0} /\ c \in Nat /\ d \in Nat \ {0} /\ (a # 0 \/ c # 0)
  BY <1>1, FractionIs DEF Positive
<1>3. a * d \in Nat /\ c * b \in Nat /\ (a # 0 => a * d # 0) /\ (c # 0 => c * b # 0)
  BY <1>2, ProductOfTwo
<1>4. a * d + c * b > 0
  BY <1>2, <1>3
<1> QED BY <1>1, <1>4 DEF Plus, Positive

AllPositive(s, n) == \A i \in 1..n : Positive(s[i])

LEMMA SumType ==
  ASSUME NEW n \in Nat, NEW s, s \in [1..n -> Fractions]
  PROVE  SumOf(s) \in Fractions /\ (n > 0 /\ AllPositive(s, n) => Positive(SumOf(s)))
<1>1. PICK g \in [0..n -> Fractions] : Summed(g, s, n) /\ SumOf(s) = g[n]
  BY SumsOneByOne
<1>2. g[n] \in Fractions
  OBVIOUS
<1>3. ASSUME n > 0, AllPositive(s, n) PROVE Positive(g[n])
  <2>1. PICK j : j = n - 1
    OBVIOUS
  <2>2. j \in 0..n /\ n \in 1..n /\ j = n - 1
    BY <1>3, <2>1
  <2>3. g[n] = Plus(g[j], s[n]) /\ Positive(s[n]) /\ g[j] \in Fractions /\ s[n] \in Fractions
    BY <1>1, <1>3, <2>2 DEF Summed, AllPositive
  <2> QED BY <2>3, PlusPositive
<1> QED BY <1>1, <1>2, <1>3

LEMMA KeptType ==
  ASSUME NEW n \in Nat, NEW s, s \in [1..n -> Fractions]
  PROVE  PositiveOnes(s) \in Seq(Fractions)
<1>1. PICK g \in [0..n -> Seq(Fractions)] : Kept(g, s, n) /\ PositiveOnes(s) = g[n]
  BY KeepsOneByOne
<1> QED BY <1>1

LEMMA AverageType ==
  ASSUME NEW n \in Nat, NEW s, s \in [1..n -> Fractions]
  PROVE  Average(s) \in Fractions
<1>1. PICK p, k : p = PositiveOnes(s) /\ k = Len(p)
  OBVIOUS
<1>2. p \in Seq(Fractions)
  BY <1>1, KeptType
<1>3. k \in Nat /\ p \in [1..k -> Fractions] /\ (p # <<>> => k > 0)
  BY <1>1, <1>2, LenProperties, EmptySeq
<1>4. SumOf(p) \in Fractions
  BY <1>3, SumType
<1>5. CASE p = <<>>
  BY <1>1, <1>5, SimpleFractions DEF Average
<1>6. CASE p # <<>>
  <2>1. Whole(k) \in Fractions /\ Positive(Whole(k))
    BY <1>3, <1>6, SimpleFractions
  <2>2. Average(s) = Over(SumOf(p), Whole(k))
    BY <1>1, <1>6 DEF Average
  <2> QED BY <1>4, <2>1, <2>2, OverType
<1> QED BY <1>5, <1>6

\* What a row says of the worker it is made of.
LEMMA ClockType ==
  ASSUME NEW w, WorkerOK(w), setup \in Setups
  PROVE  Clock(w).mhz \in Nat /\ Clock(w).src \in 0..3
<1>1. setup.given \in Nat /\ setup.rated \in Nat
  BY ResultsAssumption
<1>2. w.seen \in Nat /\ w.lat \in Nat
  BY DEF WorkerOK
<1> QED BY <1>1, <1>2 DEF Clock

MadeOf(r, w) ==
  /\ r.mhz = Whole(Clock(w).mhz) /\ r.src = Clock(w).src
  /\ r.lat = Whole(w.lat) /\ r.thr = Whole(w.thr)
  /\ r.near = Whole(w.near) /\ r.far = Whole(w.far)
  /\ r.disp = Dispatch(w.ladder)

LEMMA SummarizeIs ==
  ASSUME NEW w, WorkerOK(w), setup \in Setups, NEW cpu, NEW r, r = Summarize(w, cpu)
  PROVE  MadeOf(r, w) /\ RowOf(r, 1)
<1>1. PICK b : b = [cpu |-> cpu, mhz |-> Whole(Clock(w).mhz), src |-> Clock(w).src,
                    lat |-> Whole(w.lat), thr |-> Whole(w.thr),
                    near |-> Whole(w.near), far |-> Whole(w.far),
                    disp |-> Dispatch(w.ladder), ilp |-> Zero, mlp |-> Zero, score |-> <<>>]
  OBVIOUS
<1>2. r = [b EXCEPT !.ilp = Ratio(b.thr, b.lat), !.mlp = Ratio(b.near, b.far),
                    !.score = Geomean(Terms(b, 1))]
  BY <1>1 DEF Summarize, Derived
<1>3. PICK i, m, s : i = Ratio(b.thr, b.lat) /\ m = Ratio(b.near, b.far) /\ s = Geomean(Terms(b, 1))
  OBVIOUS
<1>4. /\ r.mhz = b.mhz /\ r.src = b.src /\ r.lat = b.lat /\ r.thr = b.thr /\ r.near = b.near
      /\ r.far = b.far /\ r.disp = b.disp /\ r.ilp = i /\ r.mlp = m /\ r.score = s
  BY <1>1, <1>2, <1>3
<1>5. MadeOf(r, w)
  BY <1>1, <1>4 DEF MadeOf
<1>6. Terms(r, 1) = Terms(b, 1)
  BY <1>4 DEF Terms
<1>7. MeasuredRow(r)
  <2>1. /\ w.lat \in Nat /\ w.thr \in Nat /\ w.near \in Nat /\ w.far \in Nat
        /\ w.lat > 0 /\ w.thr > 0 /\ w.ladder \in [1..Len(Ladder) -> Nat]
    BY DEF WorkerOK
  <2>2. Clock(w).mhz \in Nat
    BY ClockType
  <2>3. PICK d : d = Dispatch(w.ladder)
    OBVIOUS
  <2>4. d.thr \in Fractions /\ d.span \in Fractions
    BY <2>1, <2>3, DispatchType
  <2> QED BY <1>5, <2>1, <2>2, <2>3, <2>4, SimpleFractions DEF MeasuredRow, MadeOf
<1> QED BY <1>3, <1>4, <1>5, <1>6, <1>7 DEF RowOf

\* The numbers of a row that is not worked out from others are whole.
Wholes == {Whole(n) : n \in Nat}

WholeRow(r) ==
  /\ r.mhz \in Wholes /\ r.lat \in Wholes /\ r.thr \in Wholes
  /\ r.near \in Wholes /\ r.far \in Wholes
  /\ r.src \in 0..3

LEMMA MadeWhole ==
  ASSUME NEW w, WorkerOK(w), setup \in Setups, NEW r, MadeOf(r, w)
  PROVE  WholeRow(r)
BY ClockType DEF WorkerOK, MadeOf, WholeRow, Wholes

\* A column of the rows.
LEMMA ColumnIs ==
  ASSUME NEW n \in Nat, NEW rows, DOMAIN rows = 1..n, NEW field, NEW S,
         \A i \in 1..n : rows[i][field] \in S
  PROVE  /\ Column(rows, field) \in [1..n -> S]
         /\ \A i \in 1..n : Column(rows, field)[i] = rows[i][field]
BY DEF Column

RowsThere(rows, n) == DOMAIN rows = 1..n /\ Len(rows) = n /\ \A i \in 1..n : MeasuredRow(rows[i])

AddedUp(t, rows) ==
  /\ \A field \in {"mhz", "near", "far"} : t[field] = Average(Column(rows, field))
  /\ \A field \in {"lat", "thr"} : t[field] = SumOf(Column(rows, field))
  /\ t.src = Max({rows[i].src : i \in DOMAIN rows})
  /\ t.disp = AggregateDispatch(Column(rows, "disp"))

LEMMA AggregateIs ==
  ASSUME NEW n \in Nat, n > 0, NEW rows, RowsThere(rows, n), NEW t, t = Aggregate(rows)
  PROVE  AddedUp(t, rows) /\ RowOf(t, n)
<1>1. PICK b : b = [cpu |-> -1, mhz |-> Average(Column(rows, "mhz")),
                    src |-> Max({rows[i].src : i \in DOMAIN rows}),
                    lat |-> SumOf(Column(rows, "lat")), thr |-> SumOf(Column(rows, "thr")),
                    near |-> Average(Column(rows, "near")), far |-> Average(Column(rows, "far")),
                    disp |-> AggregateDispatch(Column(rows, "disp")),
                    ilp |-> Zero, mlp |-> Zero, score |-> <<>>]
  OBVIOUS
<1>2. t = [b EXCEPT !.ilp = Ratio(b.thr, b.lat), !.mlp = Ratio(b.near, b.far),
                    !.score = Geomean(Terms(b, n))]
  BY <1>1 DEF Aggregate, Derived, RowsThere
<1>3. PICK i, m, s : i = Ratio(b.thr, b.lat) /\ m = Ratio(b.near, b.far) /\ s = Geomean(Terms(b, n))
  OBVIOUS
<1>4. /\ t.mhz = b.mhz /\ t.src = b.src /\ t.lat = b.lat /\ t.thr = b.thr /\ t.near = b.near
      /\ t.far = b.far /\ t.disp = b.disp /\ t.ilp = i /\ t.mlp = m /\ t.score = s
  BY <1>1, <1>2, <1>3
<1>5. AddedUp(t, rows)
  BY <1>1, <1>4 DEF AddedUp
<1>6. Terms(t, n) = Terms(b, n)
  BY <1>4 DEF Terms
<1>7. /\ DOMAIN rows = 1..n
      /\ \A k \in 1..n :
           /\ rows[k].mhz \in Fractions /\ rows[k].lat \in Fractions /\ rows[k].thr \in Fractions
           /\ rows[k].near \in Fractions /\ rows[k].far \in Fractions
           /\ rows[k].disp.thr \in Fractions /\ rows[k].disp.span \in Fractions
           /\ Positive(rows[k].lat) /\ Positive(rows[k].thr)
  BY DEF RowsThere, MeasuredRow
<1>8. t.mhz \in Fractions /\ t.near \in Fractions /\ t.far \in Fractions
  <2>1. /\ Column(rows, "mhz") \in [1..n -> Fractions]
        /\ Column(rows, "near") \in [1..n -> Fractions]
        /\ Column(rows, "far") \in [1..n -> Fractions]
    BY <1>7 DEF Column
  <2> QED BY <1>1, <1>4, <2>1, AverageType
<1>9. t.lat \in Fractions /\ t.thr \in Fractions /\ Positive(t.lat) /\ Positive(t.thr)
  <2>1. PICK x, y : x = Column(rows, "lat") /\ y = Column(rows, "thr")
    OBVIOUS
  <2>2. x \in [1..n -> Fractions] /\ y \in [1..n -> Fractions]
        /\ AllPositive(x, n) /\ AllPositive(y, n)
    BY <1>7, <2>1 DEF Column, AllPositive
  <2> QED BY <1>1, <1>4, <2>1, <2>2, SumType
<1>10. t.disp.thr \in Fractions /\ t.disp.span \in Fractions
  <2>1. PICK ds : ds = Column(rows, "disp")
    OBVIOUS
  <2>2. ds = [k \in 1..n |-> rows[k].disp]
    BY <1>7, <2>1 DEF Column
  <2>3. DOMAIN ds = 1..n /\ Len(ds) = n /\ \A k \in 1..n : ds[k].thr \in Fractions /\ ds[k].span \in Fractions
    <3>1. PICK S : S = {rows[k].disp : k \in 1..n}
      OBVIOUS
    <3>2. ds \in [1..n -> S]
      BY <2>2, <3>1
    <3>3. ds \in Seq(S)
      BY <3>2, SeqDef
    <3> QED BY <1>7, <2>2, <3>2, <3>3, LenProperties
  <2>4. PICK p, q : p = Column(ds, "thr") /\ q = Column(ds, "span")
    OBVIOUS
  <2>5. p \in [1..n -> Fractions] /\ q \in [1..n -> Fractions]
    BY <2>3, <2>4 DEF Column
  <2>6. SumOf(p) \in Fractions /\ SumOf(q) \in Fractions
    BY <2>5, SumType
  <2>7. Over(SumOf(q), Whole(n)) \in Fractions
    BY <2>6, OverType, SimpleFractions
  <2>8. PICK d : d = AggregateDispatch(ds)
    OBVIOUS
  <2>9. d.thr = SumOf(p) /\ d.span = Over(SumOf(q), Whole(n))
    BY <2>3, <2>4, <2>8 DEF AggregateDispatch
  <2> QED BY <1>1, <1>4, <2>1, <2>6, <2>7, <2>8, <2>9
<1>11. MeasuredRow(t)
  BY <1>8, <1>9, <1>10 DEF MeasuredRow
<1> QED BY <1>3, <1>4, <1>5, <1>6, <1>11 DEF RowOf

\* The invariant: every row is one that was measured, and the total theirs.
ThreadsCounted ==
  /\ Rows(threads)
  /\ threads # <<>> =>
       /\ Len(threads) = setup.threads /\ RowsThere(threads, setup.threads)
       /\ AddedUp(total, threads) /\ RowOf(total, setup.threads)
       /\ \A i \in 1..setup.threads : WholeRow(threads[i])

CoresCounted ==
  /\ Rows(cores) /\ (\E S : made \in Seq(S)) /\ Len(made) = Len(cores)
  /\ \A i \in 1..Len(made) : WorkerOK(made[i]) /\ MadeOf(cores[i], made[i])
  /\ made # <<>> => Len(threads) = setup.threads

RowsInv ==
  /\ setup \in Setups
  /\ ThreadsCounted /\ CoresCounted
  /\ HonestUploadAccepted

LEMMA NoRows == Rows(<<>>) /\ <<>> \in Seq({}) /\ Len(<<>>) = 0
<1>1. <<>> \in Seq({}) /\ Len(<<>>) = 0
  BY EmptySeq
<1> QED BY <1>1 DEF Rows

LEMMA ResultsFirst == ResultsInit => RowsInv
<1> SUFFICES ASSUME ResultsInit PROVE RowsInv
  OBVIOUS
<1>1. setup \in Setups /\ threads = <<>> /\ cores = <<>> /\ made = <<>> /\ document = <<>>
  BY DEF ResultsInit
<1>2. ThreadsCounted
  BY <1>1, NoRows DEF ThreadsCounted
<1>3. CoresCounted
  BY <1>1, NoRows DEF CoresCounted
<1> QED BY <1>1, <1>2, <1>3 DEF RowsInv, HonestUploadAccepted

LEMMA ThreadsCollected ==
  ASSUME RowsInv, CollectThreads
  PROVE  RowsInv'
<1>1. setup \in Setups /\ threads = <<>>
  BY DEF RowsInv, CollectThreads
<1>2. PICK n : n = setup.threads
  OBVIOUS
<1>3. n \in Nat /\ n > 0
  BY <1>1, <1>2, ResultsAssumption DEF CollectThreads
<1>4. PICK ws \in [1..n -> ThreadWorkers] : threads' = [i \in DOMAIN ws |-> Summarize(ws[i], i)]
  BY <1>2 DEF CollectThreads
<1>5. PICK rows, S : rows = threads' /\ S = {Summarize(ws[i], i) : i \in 1..n}
  OBVIOUS
<1>6. rows \in [1..n -> S] /\ \A i \in 1..n : rows[i] = Summarize(ws[i], i)
  BY <1>4, <1>5
<1>7. rows \in Seq(S) /\ Len(rows) = n /\ DOMAIN rows = 1..n
  <2>1. rows \in Seq(S)
    BY <1>3, <1>6, SeqDef
  <2> QED BY <1>3, <1>6, <2>1, LenProperties
<1>8. ASSUME NEW i \in 1..n PROVE RowOf(rows[i], 1) /\ WholeRow(rows[i])
  <2>1. PICK w : w = ws[i]
    OBVIOUS
  <2>2. WorkerOK(w)
    BY <2>1, ResultsAssumption
  <2>3. rows[i] = Summarize(w, i)
    BY <1>6, <2>1
  <2>4. MadeOf(rows[i], w) /\ RowOf(rows[i], 1)
    BY <1>1, <2>2, <2>3, SummarizeIs
  <2> QED BY <1>1, <2>2, <2>4, MadeWhole
<1>9. Rows(rows)
  BY <1>7, <1>8 DEF Rows
<1>10. RowsThere(rows, n)
  BY <1>7, <1>8 DEF RowsThere, RowOf
<1>11. AddedUp(total', rows) /\ RowOf(total', n)
  <2>1. total' = Aggregate(rows)
    BY <1>5 DEF CollectThreads
  <2> QED BY <1>3, <1>10, <2>1, AggregateIs
<1>12. setup' = setup /\ cores' = cores /\ made' = made /\ document' = document
  BY DEF CollectThreads
<1>13. ThreadsCounted'
  BY <1>2, <1>5, <1>7, <1>8, <1>9, <1>10, <1>11, <1>12 DEF ThreadsCounted
<1>14. CoresCounted'
  <2>1. Rows(cores) /\ (\E T : made \in Seq(T)) /\ Len(made) = Len(cores)
        /\ (made # <<>> => Len(threads) = setup.threads)
    BY DEF RowsInv, CoresCounted
  <2>2. made = <<>>
    BY <1>1, <1>2, <1>3, <2>1, NoRows
  <2>3. Len(made) = 0
    BY <2>2, NoRows
  <2>4. \A i \in 1..Len(made') : FALSE
    BY <1>12, <2>3
  <2> QED BY <1>12, <2>1, <2>2, <2>4 DEF CoresCounted
<1> QED BY <1>12, <1>13, <1>14 DEF RowsInv, HonestUploadAccepted

LEMMA CoreCollected ==
  ASSUME RowsInv, CollectCore
  PROVE  RowsInv'
<1>1. setup \in Setups /\ Len(threads) = setup.threads
  BY DEF RowsInv, CollectCore
<1>2. PICK w \in CoreWorkers : cores' = Append(cores, Summarize(w, Len(cores))) /\ made' = Append(made, w)
  BY DEF CollectCore
<1>3. WorkerOK(w)
  BY ResultsAssumption
<1>4. PICK cpu, r : cpu = Len(cores) /\ r = Summarize(w, cpu)
  OBVIOUS
<1>5. MadeOf(r, w) /\ RowOf(r, 1)
  BY <1>1, <1>3, <1>4, SummarizeIs
<1>6. setup' = setup /\ threads' = threads /\ total' = total /\ document' = document
  BY DEF CollectCore
<1>7. PICK S, T : cores \in Seq(S) /\ made \in Seq(T)
  BY DEF RowsInv, CoresCounted, Rows
<1>8. PICK S2, T2, c, m, k :
        /\ S2 = S \cup {r} /\ T2 = T \cup {w} /\ c = cores' /\ m = made' /\ k = Len(cores)
  OBVIOUS
<1>9. cores \in Seq(S2) /\ made \in Seq(T2) /\ k \in Nat /\ Len(made) = k
  <2>1. S \subseteq S2 /\ T \subseteq T2
    BY <1>8
  <2>2. cores \in Seq(S2) /\ made \in Seq(T2)
    BY <1>7, <2>1, SeqMonotonic
  <2> QED BY <1>7, <1>8, <2>2, LenProperties DEF RowsInv, CoresCounted
<1>10. c \in Seq(S2) /\ Len(c) = k + 1 /\ c[k + 1] = r /\ \A i \in 1..k : c[i] = cores[i]
  <2>1. r \in S2 /\ c = Append(cores, r)
    BY <1>2, <1>4, <1>8
  <2> QED BY <1>8, <1>9, <2>1, AppendProperties
<1>11. m \in Seq(T2) /\ Len(m) = k + 1 /\ m[k + 1] = w /\ \A i \in 1..k : m[i] = made[i]
  <2>1. w \in T2 /\ m = Append(made, w)
    BY <1>2, <1>8
  <2> QED BY <1>8, <1>9, <2>1, AppendProperties
<1>12. ASSUME NEW i \in 1..(k + 1)
       PROVE  RowOf(c[i], 1) /\ WorkerOK(m[i]) /\ MadeOf(c[i], m[i])
  <2>1. CASE i = k + 1
    BY <1>3, <1>5, <1>10, <1>11, <2>1
  <2>2. CASE i # k + 1
    <3>1. i \in 1..k
      BY <1>9, <2>2
    <3>2. RowOf(cores[i], 1) /\ WorkerOK(made[i]) /\ MadeOf(cores[i], made[i])
      BY <1>8, <1>9, <3>1 DEF RowsInv, CoresCounted, Rows
    <3> QED BY <1>10, <1>11, <3>1, <3>2
  <2> QED BY <2>1, <2>2
<1>13. CoresCounted'
  <2>1. Rows(c)
    BY <1>10, <1>12 DEF Rows
  <2>2. \A i \in 1..Len(m) : WorkerOK(m[i]) /\ MadeOf(c[i], m[i])
    BY <1>11, <1>12
  <2>3. ASSUME NEW x, NEW y, MadeOf(x, y) PROVE MadeOf(x, y)'
    BY <1>6, <2>3 DEF MadeOf, Clock
  <2> QED BY <1>1, <1>6, <1>8, <1>10, <1>11, <2>1, <2>2, <2>3 DEF CoresCounted
<1>14. ThreadsCounted'
  BY <1>6 DEF ThreadsCounted, RowsInv
<1> QED BY <1>6, <1>13, <1>14 DEF RowsInv, HonestUploadAccepted

LEMMA DocumentEmitted ==
  ASSUME RowsInv, Emit
  PROVE  RowsInv'
<1>1. UNCHANGED <<setup, threads, cores, made, total>> /\ document' = Document
      /\ Len(threads) = setup.threads /\ Len(cores) = setup.cpus
  BY DEF Emit
<1>2. Accepted(Document)
  BY <1>1, DocumentAccepted DEF RowsInv, ThreadsCounted, CoresCounted
<1>3. HonestUploadAccepted'
  BY <1>1, <1>2 DEF HonestUploadAccepted, Accepted
<1>4. ThreadsCounted'
  BY <1>1 DEF RowsInv, ThreadsCounted
<1>5. CoresCounted'
  <2>1. ASSUME NEW x, NEW y, MadeOf(x, y) PROVE MadeOf(x, y)'
    BY <1>1, <2>1 DEF MadeOf, Clock
  <2> QED BY <1>1, <2>1 DEF RowsInv, CoresCounted
<1> QED BY <1>1, <1>3, <1>4, <1>5 DEF RowsInv

LEMMA ResultsStep ==
  ASSUME RowsInv, [ResultsNext]_results
  PROVE  RowsInv'
<1>1. CASE UNCHANGED results
  <2>1. UNCHANGED <<setup, threads, cores, made, total, document>>
    BY <1>1 DEF results
  <2>2. ASSUME NEW x, NEW y, MadeOf(x, y) PROVE MadeOf(x, y)'
    BY <2>1, <2>2 DEF MadeOf, Clock
  <2> QED BY <2>1, <2>2 DEF RowsInv, ThreadsCounted, CoresCounted, HonestUploadAccepted
<1> QED BY <1>1, ThreadsCollected, CoreCollected, DocumentEmitted DEF ResultsNext

\* The hub stores every document the benchmark writes, whatever of a run
\* failed or came out at zero (run_variant, json_result; validate,
\* check_consistency): the formulas on both sides agree.
THEOREM HonestIsAccepted == ResultsSpec => []HonestUploadAccepted
<1>1. RowsInv /\ [ResultsNext]_results => RowsInv'
  BY ResultsStep
<1>2. RowsInv => HonestUploadAccepted
  BY DEF RowsInv
<1> QED BY ResultsFirst, <1>1, <1>2, PTL DEF ResultsSpec

\* What the summary of a curve says: the parts of SpanReadsThePredictor.
LEMMA IdealReadsItsPeriod ==
  ASSUME NEW rates \in [1..Len(Ladder) -> Nat], NEW d, d = Dispatch(rates),
         NEW k \in Span, Ideal(rates, k)
  PROVE  Same(d.caps[1], Whole(k - 1))
<1>1. PICK L, A, F : L = Len(Ladder) /\ A = rates[1] /\ F = rates[L]
  OBVIOUS
<1>2. L \in Nat /\ k \in 2..(L - 1) /\ A \in Nat /\ F \in Nat
  BY <1>1, LadderIs DEF Span
<1>3. /\ \A i \in 1..k : rates[i] = A
      /\ \A i \in (k + 1)..L : rates[i] = F
      /\ F > 0 /\ A > F /\ Lifted(A, F)
  BY <1>1, <1>2 DEF Ideal, Lifted
<1>4. \A i \in 1..L : rates[i] = IF i <= k THEN A ELSE F
  BY <1>2, <1>3
<1>5. ~Unmeasured(rates)
  <2>1. \A i \in 2..(PlateauPts + 1) : i \in 1..L
    BY <1>1, LadderIs
  <2>2. \A i \in 1..L : rates[i] # 0
    BY <1>2, <1>3, <1>4
  <2> QED BY <1>1, <2>1, <2>2, LadderIs DEF Unmeasured
<1>6. Plateau(rates) = A
  <2>1. PICK m : PlateauAt(m, rates)
    BY PlateauIs
  <2>2. m \in 1..L /\ 2 \in 2..(PlateauPts + 1) /\ 2 \in 1..k
    BY <1>1, <1>2, <2>1, LadderIs DEF PlateauAt
  <2>3. rates[2] <= rates[m] /\ rates[2] = A /\ Plateau(rates) = rates[m]
    BY <1>3, <2>1, <2>2 DEF PlateauAt
  <2>4. rates[m] = A \/ rates[m] = F
    BY <1>4, <2>2
  <2> QED BY <1>2, <1>3, <2>3, <2>4
<1>7. SummaryOf(d, rates)
  BY DispatchIs
<1>8. PICK w, most : Integral(rates, w, most) /\ d.span = <<SumFunctionOnSet(w, Span), most>>
  BY <1>1, <1>3, <1>5, <1>6, <1>7 DEF SummaryOf
<1>9. d.caps[1] = d.span
  <2>1. d.caps = <<d.span>>
    BY <1>1, <1>3, <1>5, <1>6, <1>7 DEF SummaryOf
  <2> QED BY <2>1
<1>10. most \in Nat \ {0} /\ most = A - F /\ w = [i \in Span |-> Won(rates, i)] /\ w \in [Span -> 0..most]
  BY <1>1, <1>6, <1>8 DEF Integral
<1>11. ASSUME NEW i \in Span PROVE w[i] = IF i \in 2..k THEN most ELSE 0
  <2>1. i \in 1..L /\ i \in 2..(L - 1)
    BY <1>1, LadderIs DEF Span
  <2>2. rates[i] = IF i <= k THEN A ELSE F
    BY <1>4, <2>1
  <2>3. CASE i <= k
    <3>1. rates[i] - F = most /\ most > 0
      BY <1>2, <1>10, <2>2, <2>3
    <3>2. Won(rates, i) = most
      BY <1>1, <1>6, <1>10, <3>1 DEF Won
    <3>3. i \in 2..k
      BY <1>2, <2>1, <2>3
    <3> QED BY <1>10, <3>2, <3>3
  <2>4. CASE i > k
    <3>1. rates[i] - F <= 0
      BY <1>2, <2>2, <2>4, <2>1
    <3>2. Won(rates, i) = 0
      BY <1>1, <3>1 DEF Won
    <3>3. i \notin 2..k
      BY <1>2, <2>1, <2>4
    <3> QED BY <1>10, <3>2, <3>3
  <2> QED BY <1>2, <2>1, <2>3, <2>4
<1>12. SumFunctionOnSet(w, Span) = most * (k - 1)
  <2>1. PICK R : R = 2..k
    OBVIOUS
  <2>2. R \subseteq Span /\ EqualWithin(w, R, Span, most)
    <3>1. R \subseteq Span
      BY <1>1, <1>2, <2>1 DEF Span
    <3> QED BY <1>11, <2>1, <3>1 DEF EqualWithin
  <2>3. Cardinality(R) = k - 1
    <3>1. k \in Int /\ 2 \in Int /\ ~(2 > k) /\ k - 2 + 1 = k - 1
      BY <1>2
    <3>2. Cardinality(2..k) = k - 2 + 1
      BY <3>1, FS_Interval
    <3> QED BY <2>1, <3>1, <3>2
  <2>4. w \in [Span -> Int] /\ IsFiniteSet(Span) /\ most \in Int
    BY <1>10, SpanCounts DEF SpanIsFinite
  <2>5. SumFunctionOnSet(w, Span) = most * Cardinality(R)
    BY <2>2, <2>4, SumOfSome
  <2> QED BY <2>3, <2>5
<1>13. PICK q \in Nat : q = k - 1
  BY <1>2
<1>14. PICK p \in Nat : p = most * q /\ p * 1 = p /\ q * most = p
  BY <1>10, <1>13
<1>15. d.caps[1] = <<p, most>>
  BY <1>8, <1>9, <1>12, <1>13, <1>14
<1>16. Same(<<p, most>>, <<q, 1>>)
  BY <1>14 DEF Same, AtMost
<1> QED BY <1>13, <1>15, <1>16 DEF Whole

LEMMA DisturbedReadsLess ==
  ASSUME NEW rates \in [1..Len(Ladder) -> Nat], NEW quiet \in [1..Len(Ladder) -> Nat],
         NEW d, d = Dispatch(rates), NEW e, e = Dispatch(quiet), Disturbed(rates, quiet),
         d.status # "unknown"
  PROVE  AtMost(d.span, e.span)
<1>1. PICK L, F, top : L = Len(Ladder) /\ F = rates[L] /\ top = Plateau(rates)
  OBVIOUS
<1>2. /\ \A i \in Span : rates[i] <= quiet[i]
      /\ rates[1] = quiet[1] /\ quiet[L] = F /\ Plateau(quiet) = top
  BY <1>1 DEF Disturbed, Plateau
<1>3. SummaryOf(d, rates) /\ SummaryOf(e, quiet)
  BY DispatchIs
<1>4. ~Unmeasured(rates)
  BY <1>3 DEF SummaryOf
<1>5. ~Unmeasured(quiet)
  <2>1. ASSUME NEW i \in 2..(PlateauPts + 1) PROVE quiet[i] # 0
    <3>1. i \in Span /\ rates[i] \in Nat /\ quiet[i] \in Nat
      BY LadderIs
    <3>2. rates[i] # 0 /\ rates[i] <= quiet[i]
      BY <1>2, <1>4, <3>1 DEF Unmeasured
    <3> QED BY <3>1, <3>2
  <2> QED BY <1>1, <1>2, <1>4, <2>1 DEF Unmeasured
<1>6. CASE ~Lifted(top, F)
  <2>1. d.span = Zero /\ e.span = Zero
    BY <1>1, <1>2, <1>3, <1>4, <1>5, <1>6 DEF SummaryOf
  <2> QED BY <2>1 DEF AtMost, Zero
<1>7. CASE Lifted(top, F)
  <2>1. PICK w, most : Integral(rates, w, most) /\ d.span = <<SumFunctionOnSet(w, Span), most>>
    BY <1>1, <1>3, <1>4, <1>7 DEF SummaryOf
  <2>2. PICK v, most2 : Integral(quiet, v, most2) /\ e.span = <<SumFunctionOnSet(v, Span), most2>>
    BY <1>1, <1>2, <1>3, <1>5, <1>7 DEF SummaryOf
  <2>3. /\ most = top - F /\ most2 = top - F /\ most \in Nat
        /\ w = [i \in Span |-> Won(rates, i)] /\ v = [i \in Span |-> Won(quiet, i)]
        /\ w \in [Span -> Int] /\ v \in [Span -> Int]
    BY <1>1, <1>2, <2>1, <2>2 DEF Integral
  <2>4. ASSUME NEW i \in Span PROVE w[i] <= v[i]
    <3>1. PICK a \in Int, b \in Int : a = rates[i] - F /\ b = quiet[i] - F /\ a <= b
      <4>1. rates[i] \in Nat /\ quiet[i] \in Nat /\ F \in Nat /\ rates[i] <= quiet[i]
        BY <1>1, <1>2, LadderIs
      <4> QED BY <4>1
    <3>2. w[i] = (IF a <= 0 THEN 0 ELSE IF a <= most THEN a ELSE most)
      BY <1>1, <2>3, <3>1 DEF Won
    <3>3. v[i] = (IF b <= 0 THEN 0 ELSE IF b <= most THEN b ELSE most)
      BY <1>1, <1>2, <2>3, <3>1 DEF Won
    <3> QED BY <2>3, <3>1, <3>2, <3>3
  <2>5. /\ SumFunctionOnSet(w, Span) <= SumFunctionOnSet(v, Span)
    <3>1. Smaller(w, v, Span) /\ IsFiniteSet(Span)
      BY <2>4, SpanCounts DEF Smaller, SpanIsFinite
    <3> QED BY <2>3, <3>1, SumAtMost
  <2>6. PICK x \in Nat, y \in Nat : x = SumFunctionOnSet(w, Span) /\ y = SumFunctionOnSet(v, Span)
    BY <2>1, <2>2 DEF Integral
  <2>7. x * most <= y * most
    BY <2>3, <2>5, <2>6
  <2>8. d.span = <<x, most>> /\ e.span = <<y, most>>
    BY <2>1, <2>2, <2>3, <2>6
  <2> QED BY <2>7, <2>8 DEF AtMost
<1> QED BY <1>6, <1>7

LEMMA SpanWithinTheLadder ==
  ASSUME NEW rates \in [1..Len(Ladder) -> Nat], NEW d, d = Dispatch(rates), Positive(d.span)
  PROVE  AtMost(Whole(1), d.span) /\ AtMost(d.span, Whole(Cardinality(Span)))
<1>1. PICK L, F, top : L = Len(Ladder) /\ F = rates[L] /\ top = Plateau(rates)
  OBVIOUS
<1>2. SummaryOf(d, rates)
  BY DispatchIs
<1>3. ~Unmeasured(rates) /\ Lifted(top, F)
  BY <1>1, <1>2, SimpleFractions DEF SummaryOf
<1>4. PICK w, most : Integral(rates, w, most) /\ d.span = <<SumFunctionOnSet(w, Span), most>>
  BY <1>1, <1>2, <1>3 DEF SummaryOf
<1>5. /\ most = top - F /\ most \in Nat \ {0} /\ w = [i \in Span |-> Won(rates, i)]
      /\ w \in [Span -> 0..most]
  BY <1>1, <1>4 DEF Integral
<1>6. PICK x \in Nat : x = SumFunctionOnSet(w, Span)
  BY <1>4 DEF Integral
<1>7. PICK c \in Nat : c = Cardinality(Span) /\ x <= most * c
  <2>1. PICK c \in Nat : c = Len(Ladder) - 2 /\ c = Cardinality(Span)
    BY SpanCounts, LadderIs DEF SpanIsFinite
  <2>2. x <= most * c
    BY <1>4, <1>6, <2>1 DEF Integral
  <2> QED BY <2>1, <2>2
<1>8. most <= x
  <2>1. PICK m : PlateauAt(m, rates)
    BY PlateauIs
  <2>2. m \in Span /\ rates[m] = top
    BY <1>1, <2>1, LadderIs DEF PlateauAt
  <2>3. w[m] = most
    BY <1>1, <1>5, <2>2 DEF Won
  <2>4. PICK g : g = [i \in Span |-> IF i = m THEN most ELSE 0]
    OBVIOUS
  <2>5. g \in [Span -> Int] /\ w \in [Span -> Int] /\ \A i \in Span \ {m} : g[i] = 0
    BY <1>5, <2>4
  <2>6. Smaller(g, w, Span)
    <3>1. ASSUME NEW i \in Span PROVE g[i] <= w[i]
      <4>1. CASE i = m
        BY <1>5, <2>2, <2>3, <2>4, <4>1
      <4>2. CASE i # m
        BY <1>5, <2>4, <4>2
      <4> QED BY <4>1, <4>2
    <3> QED BY <3>1 DEF Smaller
  <2>7. IsFiniteSet(Span)
    BY SpanCounts DEF SpanIsFinite
  <2>8. SumFunctionOnSet(g, Span) = g[m]
    BY <2>2, <2>5, <2>7, SumOfOne
  <2>9. SumFunctionOnSet(g, Span) <= SumFunctionOnSet(w, Span)
    BY <2>5, <2>6, <2>7, SumAtMost
  <2> QED BY <1>6, <2>2, <2>4, <2>8, <2>9
<1>9. d.span = <<x, most>>
  BY <1>4, <1>6
<1>10. 1 * most <= x * 1 /\ x * 1 <= c * most
  BY <1>5, <1>7, <1>8
<1> QED BY <1>7, <1>9, <1>10 DEF AtMost, Whole

LEMMA ShownIsSent ==
  ASSUME NEW rates \in [1..Len(Ladder) -> Nat], NEW d, d = Dispatch(rates), NEW r, r.disp = d
  PROVE  /\ ShownCap(d) = "none" <=> Sent("cpu", r).prediction = "none"
         /\ ShownCap(d) = "-" <=> Sent("cpu", r).prediction = "unknown"
<1>1. Sent("cpu", r).prediction = d.status
  BY DEF Sent
<1>2. SummaryOf(d, rates)
  BY DispatchIs
<1>3. d.status = "unknown" \/ d.status = "none" \/ d.status = "measured"
  BY <1>2 DEF SummaryOf
<1>4. d.status = "none" => ShownCap(d) = "none"
  BY DEF ShownCap
<1>5. d.status = "unknown" => ShownCap(d) = "-"
  BY DEF ShownCap
<1>6. d.status = "measured" => ShownCap(d) \in {"below", "beyond", "within"}
  BY DEF ShownCap
<1> QED BY <1>1, <1>3, <1>4, <1>5, <1>6

LEMMA RowsReadThePredictor == RowsInv => SpanReadsThePredictor
<1> SUFFICES ASSUME RowsInv PROVE SpanReadsThePredictor
  OBVIOUS
<1>1. DOMAIN made = 1..Len(made)
  BY LenProperties DEF RowsInv, CoresCounted
<1>2. ASSUME NEW i \in DOMAIN made
      PROVE  made[i].ladder \in [1..Len(Ladder) -> Nat] /\ cores[i].disp = Dispatch(made[i].ladder)
  BY <1>1 DEF RowsInv, CoresCounted, WorkerOK, MadeOf
<1>3. SUFFICES ASSUME NEW i \in DOMAIN made, NEW d, d = cores[i].disp
               PROVE  /\ \A k \in Span : Ideal(made[i].ladder, k) => Same(d.caps[1], Whole(k - 1))
                      /\ \A j \in DOMAIN made :
                           Disturbed(made[i].ladder, made[j].ladder) =>
                             \/ d.status = "unknown"
                             \/ AtMost(d.span, cores[j].disp.span)
                      /\ Positive(d.span) =>
                           AtMost(Whole(1), d.span) /\ AtMost(d.span, Whole(Cardinality(Span)))
                      /\ ShownCap(d) = "none" <=> Sent("cpu", cores[i]).prediction = "none"
                      /\ ShownCap(d) = "-" <=> Sent("cpu", cores[i]).prediction = "unknown"
  BY DEF SpanReadsThePredictor
<1>4. PICK rates : rates = made[i].ladder
  OBVIOUS
<1>5. rates \in [1..Len(Ladder) -> Nat] /\ d = Dispatch(rates)
  BY <1>2, <1>3, <1>4
<1>6. ASSUME NEW k \in Span, Ideal(made[i].ladder, k) PROVE Same(d.caps[1], Whole(k - 1))
  BY <1>4, <1>5, <1>6, IdealReadsItsPeriod
<1>7. ASSUME NEW j \in DOMAIN made, Disturbed(made[i].ladder, made[j].ladder), d.status # "unknown"
      PROVE  AtMost(d.span, cores[j].disp.span)
  <2>1. PICK quiet, e : quiet = made[j].ladder /\ e = cores[j].disp
    OBVIOUS
  <2>2. quiet \in [1..Len(Ladder) -> Nat] /\ e = Dispatch(quiet)
    BY <1>2, <2>1
  <2>3. AtMost(d.span, e.span)
    BY <1>4, <1>5, <1>7, <2>1, <2>2, DisturbedReadsLess
  <2> QED BY <2>1, <2>3
<1>8. Positive(d.span) => AtMost(Whole(1), d.span) /\ AtMost(d.span, Whole(Cardinality(Span)))
  BY <1>5, SpanWithinTheLadder
<1>9. /\ ShownCap(d) = "none" <=> Sent("cpu", cores[i]).prediction = "none"
      /\ ShownCap(d) = "-" <=> Sent("cpu", cores[i]).prediction = "unknown"
  <2>1. PICK r : r = cores[i]
    OBVIOUS
  <2>2. r.disp = d
    BY <1>3, <2>1
  <2> QED BY <1>5, <2>1, <2>2, ShownIsSent
<1> QED BY <1>6, <1>7, <1>8, <1>9

\* The capacity a row shows is what the dispatch ladder measured says
\* (disp_summary): a core that predicts up to a period of the span reads that
\* period, and interference within the span never makes it read a larger one.
THEOREM SpanIsRight == ResultsSpec => []SpanReadsThePredictor
<1>1. RowsInv /\ [ResultsNext]_results => RowsInv'
  BY ResultsStep
<1> QED BY ResultsFirst, <1>1, RowsReadThePredictor, PTL DEF ResultsSpec

LEMMA WholeIs ==
  ASSUME NEW x \in Wholes
  PROVE  /\ x[1] \in Nat /\ x = Whole(x[1]) /\ x = <<x[1], 1>> /\ x[2] = 1
         /\ x \in Fractions /\ (Positive(x) <=> x[1] > 0)
BY NewFraction DEF Wholes, Whole, Positive

LEMMA WholePlus ==
  ASSUME NEW a \in Nat, NEW b \in Nat
  PROVE  Plus(Whole(a), Whole(b)) = Whole(a + b)
<1>1. a * 1 + b * 1 = a + b /\ 1 * 1 = 1
  OBVIOUS
<1> QED BY <1>1 DEF Plus, Whole

LEMMA WholeOver ==
  ASSUME NEW a \in Nat, NEW b \in Nat
  PROVE  Over(Whole(a), Whole(b)) = <<a, b>>
<1>1. a * 1 = a /\ 1 * b = b
  OBVIOUS
<1> QED BY <1>1 DEF Over, Whole

\* The sums of the first terms of a sequence of whole numbers.
Running(a, s, n) == a[0] = 0 /\ \A i \in 1..n : a[i] = a[i - 1] + s[i][1]

LEMMA WholeSums ==
  ASSUME NEW n \in Nat, NEW s, s \in [1..n -> Wholes]
  PROVE  \E a \in [0..n -> Nat] : Running(a, s, n) /\ SumOf(s) = Whole(a[n])
<1>1. s \in [1..n -> Fractions]
  BY WholeIs
<1>2. PICK g \in [0..n -> Fractions] : Summed(g, s, n) /\ SumOf(s) = g[n]
  BY <1>1, SumsOneByOne
<1> DEFINE S == {i \in 0..n : g[i] \in Wholes}
<1>3. 0 \in S
  <2>1. g[0] = <<0, 1>>
    BY <1>2 DEF Summed, Zero
  <2> QED BY <2>1 DEF Wholes, Whole
<1>4. ASSUME NEW j \in 0..(n - 1), j \in S PROVE j + 1 \in S
  <2>1. PICK i : i = j + 1
    OBVIOUS
  <2>2. i \in 1..n /\ i \in 0..n /\ j = i - 1
    BY <2>1
  <2>3. g[i] = Plus(g[j], s[i]) /\ g[j] \in Wholes /\ s[i] \in Wholes
    BY <1>2, <1>4, <2>2 DEF Summed
  <2>4. PICK p \in Nat, q \in Nat : g[j] = Whole(p) /\ s[i] = Whole(q)
    BY <2>3, WholeIs
  <2>5. g[i] = Whole(p + q)
    BY <2>3, <2>4, WholePlus
  <2>6. g[i] \in Wholes
    BY <2>4, <2>5 DEF Wholes
  <2> QED BY <2>1, <2>2, <2>6
<1> HIDE DEF S
<1>5. \A m \in 0..n : m \in S
  <2>1. \A i \in 0..(n - 1) : i \in S => i + 1 \in S
    BY <1>4
  <2>2. 0..n \subseteq S
    BY <1>3, <2>1, IntervalInduction
  <2> QED BY <2>2
<1>6. \A m \in 0..n : g[m] \in Wholes
  BY <1>5 DEF S
<1>7. PICK a : a = [i \in 0..n |-> g[i][1]]
  OBVIOUS
<1>8. a \in [0..n -> Nat] /\ \A i \in 0..n : a[i] = g[i][1] /\ g[i] = Whole(a[i])
  BY <1>6, <1>7, WholeIs
<1>9. ASSUME NEW i \in 1..n PROVE a[i] = a[i - 1] + s[i][1]
  <2>1. PICK j : j = i - 1
    OBVIOUS
  <2>2. j \in 0..n /\ i \in 0..n
    BY <2>1
  <2>3. g[i] = Plus(g[j], s[i])
    BY <1>2, <2>1 DEF Summed
  <2>4. PICK q \in Nat : q = s[i][1] /\ s[i] = Whole(q)
    BY WholeIs
  <2>5. PICK p \in Nat : p = a[j] /\ g[j] = Whole(p)
    BY <1>8, <2>2
  <2>6. g[i] = Whole(p + q)
    BY <2>3, <2>4, <2>5, WholePlus
  <2>7. a[i] = p + q
    BY <1>8, <2>2, <2>6 DEF Whole
  <2> QED BY <2>1, <2>4, <2>5, <2>7
<1>10. a[0] = 0
  <2>1. g[0] = <<0, 1>> /\ 0 \in 0..n
    BY <1>2 DEF Summed, Zero
  <2> QED BY <1>8, <2>1
<1>11. n \in 0..n
  OBVIOUS
<1> QED BY <1>2, <1>8, <1>9, <1>10, <1>11 DEF Running

\* Where the terms lie, their average does.
LEMMA AverageOfWholes ==
  ASSUME NEW n \in Nat, n > 0, NEW s, s \in [1..n -> Wholes], NEW total_ \in Nat, SumOf(s) = Whole(total_)
  PROVE  Between(Over(SumOf(s), Whole(n)), s)
<1>1. PICK a \in [0..n -> Nat] : Running(a, s, n) /\ SumOf(s) = Whole(a[n])
  BY WholeSums
<1>2. PICK f, g : f = [i \in 1..n |-> s[i][1]] /\ g = [i \in 1..n |-> 0 - s[i][1]]
  OBVIOUS
<1>3. \A i \in 1..n : f[i] = s[i][1] /\ g[i] = 0 - s[i][1] /\ f[i] \in Nat /\ g[i] \in Int /\ s[i] = Whole(f[i])
  BY <1>2, WholeIs
<1>0. 1 \in Int /\ n \in Int /\ 1 <= n
  OBVIOUS
<1>4. PICK u : Greatest(f, u, 1, n)
  <2>1. \A i \in 1..n : f[i] \in Int
    BY <1>3
  <2> QED BY <1>0, <2>1, GreatestExists
<1>5. PICK v : Greatest(g, v, 1, n)
  <2>1. \A i \in 1..n : g[i] \in Int
    BY <1>3
  <2> QED BY <1>0, <2>1, GreatestExists
<1>6. PICK hi, lo : hi = f[u] /\ lo = f[v]
  OBVIOUS
<1>7. u \in 1..n /\ v \in 1..n /\ hi \in Nat /\ lo \in Nat /\ \A i \in 1..n : lo <= f[i] /\ f[i] <= hi
  <2>1. u \in 1..n /\ v \in 1..n
    BY <1>4, <1>5 DEF Greatest
  <2>2. ASSUME NEW i \in 1..n PROVE lo <= f[i] /\ f[i] <= hi
    <3>1. f[i] <= hi /\ g[i] <= g[v]
      BY <1>4, <1>5, <1>6 DEF Greatest
    <3>2. g[i] = 0 - f[i] /\ g[v] = 0 - lo /\ f[i] \in Nat /\ lo \in Nat
      BY <1>3, <1>6, <2>1
    <3> QED BY <3>1, <3>2
  <2> QED BY <1>3, <1>6, <2>1, <2>2
<1> DEFINE S == {i \in 0..n : lo * i <= a[i] /\ a[i] <= hi * i}
<1>8. 0 \in S
  <2>1. a[0] = 0 /\ lo * 0 = 0 /\ hi * 0 = 0
    BY <1>1, <1>7 DEF Running
  <2> QED BY <2>1
<1>9. ASSUME NEW j \in 0..(n - 1), j \in S PROVE j + 1 \in S
  <2>1. PICK i : i = j + 1
    OBVIOUS
  <2>2. i \in 1..n /\ i \in 0..n /\ j = i - 1 /\ j \in 0..n /\ j \in Nat
    BY <2>1
  <2>3. PICK p \in Nat, q \in Nat, t \in Nat : p = a[j] /\ q = a[i] /\ t = f[i] /\ q = p + t
    <3>1. a[i] = a[j] + s[i][1]
      BY <1>1, <2>2 DEF Running
    <3>2. a[j] \in Nat /\ a[i] \in Nat /\ f[i] \in Nat /\ f[i] = s[i][1]
      BY <1>3, <2>2
    <3> QED BY <3>1, <3>2
  <2>4. lo <= t /\ t <= hi
    BY <1>7, <2>2, <2>3
  <2>5. lo * j <= p /\ p <= hi * j
    BY <1>9, <2>3
  <2>6. lo * i = lo * j + lo /\ hi * i = hi * j + hi
    BY <1>7, <2>1, <2>2
  <2>7. PICK x \in Nat, y \in Nat : x = lo * j /\ y = hi * j
    BY <1>7, <2>2, ProductOfTwo
  <2>8. lo * i <= q /\ q <= hi * i
    <3>1. x <= p /\ p <= y
      BY ONLY <2>5, <2>7
    <3>2. lo \in Int /\ hi \in Int
      BY <1>7
    <3>3. x + lo <= q /\ q <= y + hi
      BY ONLY <2>3, <2>4, <3>1, <3>2
    <3>4. lo * i = x + lo /\ hi * i = y + hi
      BY ONLY <2>6, <2>7
    <3> QED BY <3>3, <3>4
  <2> QED BY <2>1, <2>2, <2>3, <2>8
<1> HIDE DEF S
<1>10. n \in S
  <2>1. Climbs(S, n)
    BY <1>9 DEF Climbs
  <2> QED BY <1>8, <2>1, ClimbsToTop
<1>11. PICK k \in Nat : k = a[n] /\ lo * n <= k /\ k <= hi * n
  BY <1>10 DEF S
<1>12. Over(SumOf(s), Whole(n)) = <<k, n>>
  BY <1>1, <1>11, WholeOver
<1>13. s[v] = <<lo, 1>> /\ s[u] = <<hi, 1>>
  BY <1>3, <1>6, <1>7 DEF Whole
<1>14. AtMost(s[v], <<k, n>>) /\ AtMost(<<k, n>>, s[u])
  <2>1. k * 1 = k
    BY <1>11
  <2> QED BY <1>11, <1>13, <2>1 DEF AtMost
<1>15. DOMAIN s = 1..n
  OBVIOUS
<1> QED BY <1>7, <1>12, <1>14, <1>15 DEF Between

\* Of the ratios of two sequences' terms one is no more than that of the sums.
LEMMA RatioOfSums ==
  ASSUME NEW n \in Nat, n > 0, NEW s, s \in [1..n -> Wholes], NEW t, t \in [1..n -> Wholes],
         NEW x \in Nat, NEW y \in Nat, SumOf(s) = Whole(x), SumOf(t) = Whole(y)
  PROVE  \E i \in 1..n : s[i][1] * y <= x * t[i][1]
<1>1. PICK a \in [0..n -> Nat] : Running(a, s, n) /\ SumOf(s) = Whole(a[n])
  BY WholeSums
<1>2. PICK b \in [0..n -> Nat] : Running(b, t, n) /\ SumOf(t) = Whole(b[n])
  BY WholeSums
<1>3. a[n] = x /\ b[n] = y
  BY <1>1, <1>2 DEF Whole
<1>4. SUFFICES ASSUME \A i \in 1..n : ~(s[i][1] * y <= x * t[i][1]) PROVE FALSE
  OBVIOUS
<1> DEFINE S == {i \in 0..n : x * b[i] + i <= a[i] * y}
<1>5. 0 \in S
  <2>1. a[0] = 0 /\ b[0] = 0 /\ x * 0 = 0 /\ 0 * y = 0
    BY <1>1, <1>2 DEF Running
  <2> QED BY <2>1
<1>6. ASSUME NEW j \in 0..(n - 1), j \in S PROVE j + 1 \in S
  <2>1. PICK i : i = j + 1
    OBVIOUS
  <2>2. i \in 1..n /\ i \in 0..n /\ j = i - 1 /\ j \in 0..n /\ j \in Nat
    BY <2>1
  <2>3. PICK p \in Nat, q \in Nat : p = s[i][1] /\ q = t[i][1]
    BY <2>2, WholeIs
  <2>4. PICK u \in Nat, v \in Nat : u = a[j] /\ v = b[j] /\ a[i] = u + p /\ b[i] = v + q
    BY <1>1, <1>2, <2>2, <2>3 DEF Running
  <2>5. ~(p * y <= x * q)
    BY <1>4, <2>2, <2>3
  <2>6. x * v + j <= u * y
    BY <1>6, <2>4
  <2>7. PICK py \in Nat, xq \in Nat, xv \in Nat, uy \in Nat : py = p * y /\ xq = x * q /\ xv = x * v /\ uy = u * y
    BY <2>3, <2>4, ProductOfTwo
  <2>8. x * (v + q) = xv + xq /\ (u + p) * y = uy + py
    <3>1. x * (v + q) = x * v + x * q
      BY ProductOfSum
    <3>2. (u + p) * y = u * y + p * y
      BY ProductOfSum
    <3> QED BY <2>7, <3>1, <3>2
  <2>9. py >= xq + 1 /\ xv + j <= uy
    BY <2>5, <2>6, <2>7
  <2>10. xv + xq + i <= uy + py
    BY <2>1, <2>2, <2>7, <2>9
  <2>11. x * b[i] + i <= a[i] * y
    BY <2>4, <2>8, <2>10
  <2> QED BY <2>1, <2>2, <2>11
<1> HIDE DEF S
<1>7. n \in S
  <2>1. Climbs(S, n)
    BY <1>6 DEF Climbs
  <2> QED BY <1>5, <2>1, ClimbsToTop
<1>8. x * y + n <= x * y
  BY <1>3, <1>7 DEF S
<1>9. PICK z \in Nat : z = x * y
  BY ProductOfTwo
<1> QED BY <1>8, <1>9

\* What is kept of whole numbers are whole numbers; of positive ones, all.
LEMMA AllAreKept ==
  ASSUME NEW n \in Nat, NEW s, s \in [1..n -> Wholes], AllPositive(s, n)
  PROVE  PositiveOnes(s) = s
<1>1. PICK g \in [0..n -> Seq(Wholes)] : Kept(g, s, n) /\ PositiveOnes(s) = g[n]
  BY KeepsOneByOne
<1> DEFINE S == {i \in 0..n : Len(g[i]) = i /\ \A j \in 1..i : g[i][j] = s[j]}
<1>2. 0 \in S
  <2>1. g[0] = <<>> /\ Len(<<>>) = 0
    BY <1>1, EmptySeq DEF Kept
  <2> QED BY <2>1
<1>3. ASSUME NEW k \in 0..(n - 1), k \in S PROVE k + 1 \in S
  <2>1. PICK i : i = k + 1
    OBVIOUS
  <2>2. i \in 1..n /\ i \in 0..n /\ k = i - 1 /\ k \in 0..n /\ k \in Nat
    BY <2>1
  <2>3. PICK q, r, x : q = g[k] /\ r = g[i] /\ x = s[i]
    OBVIOUS
  <2>4. r = Append(q, x) /\ q \in Seq(Wholes) /\ x \in Wholes
    BY <1>1, <2>2, <2>3 DEF Kept, Keep, AllPositive
  <2>5. Len(q) = k /\ \A j \in 1..k : q[j] = s[j]
    BY <1>3, <2>3
  <2>6. Len(r) = k + 1 /\ r[k + 1] = x /\ \A j \in 1..k : r[j] = q[j]
    <3>1. Len(r) = Len(q) + 1 /\ r[Len(q) + 1] = x /\ \A j \in 1..Len(q) : r[j] = q[j]
      BY <2>4, AppendProperties
    <3> QED BY <2>5, <3>1
  <2>7. ASSUME NEW j \in 1..i PROVE r[j] = s[j]
    <3>1. CASE j = i
      BY <2>1, <2>3, <2>6, <3>1
    <3>2. CASE j # i
      <4>1. j \in 1..k
        BY <2>1, <2>2, <3>2
      <4> QED BY <2>5, <2>6, <4>1
    <3> QED BY <3>1, <3>2
  <2> QED BY <2>1, <2>2, <2>3, <2>6, <2>7
<1> HIDE DEF S
<1>4. n \in S
  <2>1. Climbs(S, n)
    BY <1>3 DEF Climbs
  <2> QED BY <1>2, <2>1, ClimbsToTop
<1>5. PICK r : r = g[n]
  OBVIOUS
<1>6. r \in Seq(Wholes) /\ Len(r) = n /\ \A j \in 1..n : r[j] = s[j]
  BY <1>4, <1>5 DEF S
<1>7. r \in [1..n -> Wholes]
  BY <1>6, LenProperties
<1>8. r = s
  BY <1>6, <1>7
<1> QED BY <1>1, <1>5, <1>8

LEMMA AverageIsWithin ==
  ASSUME NEW n \in Nat, NEW s, s \in [1..n -> Wholes], NEW p, p = PositiveOnes(s)
  PROVE  IF p = <<>> THEN ~Positive(Average(s)) ELSE Between(Average(s), p)
<1>1. PICK g \in [0..n -> Seq(Wholes)] : Kept(g, s, n) /\ PositiveOnes(s) = g[n]
  BY KeepsOneByOne
<1>2. PICK k : k = Len(p)
  OBVIOUS
<1>3. p \in Seq(Wholes) /\ k \in Nat /\ p \in [1..k -> Wholes] /\ (p # <<>> => k > 0)
  BY <1>1, <1>2, LenProperties, EmptySeq
<1>4. CASE p = <<>>
  BY <1>4, SimpleFractions DEF Average
<1>5. CASE p # <<>>
  <2>1. Average(s) = Over(SumOf(p), Whole(k))
    BY <1>2, <1>5 DEF Average
  <2>2. PICK a \in [0..k -> Nat] : Running(a, p, k) /\ SumOf(p) = Whole(a[k])
    BY <1>3, WholeSums
  <2>3. PICK x \in Nat : SumOf(p) = Whole(x)
    BY <1>3, <2>2
  <2>4. Between(Over(SumOf(p), Whole(k)), p)
    BY <1>3, <1>5, <2>3, AverageOfWholes
  <2> QED BY <1>5, <2>1, <2>4
<1> QED BY <1>4, <1>5

\* The ratios of two columns.
RatiosOf(q, s, t, n) == q \in [1..n -> Fractions] /\ \A i \in 1..n : q[i] = <<s[i][1], t[i][1]>>

\* The ratio of the sums lies within the ratios.
LEMMA RatioIsWithin ==
  ASSUME NEW n \in Nat, n > 0, NEW s, s \in [1..n -> Wholes], NEW t, t \in [1..n -> Wholes],
         NEW x \in Nat, NEW y \in Nat, SumOf(s) = Whole(x), SumOf(t) = Whole(y),
         NEW q, RatiosOf(q, s, t, n)
  PROVE  Between(<<x, y>>, q)
<1>0. q \in [1..n -> Fractions] /\ \A i \in 1..n : q[i] = <<s[i][1], t[i][1]>>
  BY DEF RatiosOf
<1>1. PICK i \in 1..n : s[i][1] * y <= x * t[i][1]
  BY RatioOfSums
<1>2. PICK j \in 1..n : t[j][1] * x <= y * s[j][1]
  BY RatioOfSums
<1>3. AtMost(q[i], <<x, y>>)
  BY <1>0, <1>1 DEF AtMost
<1>4. AtMost(<<x, y>>, q[j])
  <2>1. PICK a \in Nat, b \in Nat : a = s[j][1] /\ b = t[j][1]
    BY WholeIs
  <2>2. b * x = x * b /\ y * a = a * y
    BY <2>1
  <2>3. x * b <= a * y
    BY <1>2, <2>1, <2>2
  <2>4. q[j] = <<a, b>>
    BY <1>0, <2>1
  <2> QED BY <2>3, <2>4 DEF AtMost
<1>5. DOMAIN q = 1..n
  BY <1>0
<1> QED BY <1>3, <1>4, <1>5 DEF Between

WholeRows(rows, n) ==
  /\ DOMAIN rows = 1..n /\ Len(rows) = n
  /\ \A i \in 1..n : WholeRow(rows[i]) /\ RowOf(rows[i], 1)

LEMMA WholeColumn ==
  ASSUME NEW n \in Nat, NEW rows, WholeRows(rows, n), NEW field \in {"mhz", "lat", "thr", "near", "far"},
         NEW s, s = Column(rows, field)
  PROVE  s \in [1..n -> Wholes] /\ \A i \in 1..n : s[i] = rows[i][field]
<1>1. ASSUME NEW i \in 1..n PROVE rows[i][field] \in Wholes
  BY DEF WholeRows, WholeRow
<1>2. s = [i \in 1..n |-> rows[i][field]]
  BY DEF Column, WholeRows
<1> QED BY <1>1, <1>2

\* Instructions in parallel: the total's lies within the rows'.
LEMMA IlpIsWithin ==
  ASSUME NEW n \in Nat, n > 0, NEW rows, WholeRows(rows, n), NEW t, AddedUp(t, rows), RowOf(t, n)
  PROVE  Between(t.ilp, Column(rows, "ilp"))
<1>1. PICK s, l, q : s = Column(rows, "thr") /\ l = Column(rows, "lat") /\ q = Column(rows, "ilp")
  OBVIOUS
<1>2. /\ s \in [1..n -> Wholes] /\ \A i \in 1..n : s[i] = rows[i].thr
      /\ l \in [1..n -> Wholes] /\ \A i \in 1..n : l[i] = rows[i].lat
  <2>1. s \in [1..n -> Wholes] /\ \A i \in 1..n : s[i] = rows[i]["thr"]
    BY SMTT(30), <1>1, WholeColumn
  <2>2. l \in [1..n -> Wholes] /\ \A i \in 1..n : l[i] = rows[i]["lat"]
    BY SMTT(30), <1>1, WholeColumn
  <2> QED BY <2>1, <2>2
<1>3. PICK x \in Nat : SumOf(s) = Whole(x)
  <2>1. PICK a \in [0..n -> Nat] : Running(a, s, n) /\ SumOf(s) = Whole(a[n])
    BY <1>2, WholeSums
  <2> QED BY <2>1
<1>4. PICK y \in Nat : SumOf(l) = Whole(y)
  <2>1. PICK a \in [0..n -> Nat] : Running(a, l, n) /\ SumOf(l) = Whole(a[n])
    BY <1>2, WholeSums
  <2> QED BY <2>1
<1>5. t.thr = Whole(x) /\ t.lat = Whole(y)
  BY <1>1, <1>3, <1>4 DEF AddedUp
<1>6. t.ilp = <<x, y>>
  <2>1. t.ilp = Ratio(t.thr, t.lat) /\ Positive(t.lat)
    BY DEF RowOf, MeasuredRow
  <2> QED BY <1>5, <2>1, WholeOver DEF Ratio
<1>7. ASSUME NEW i \in 1..n PROVE q[i] = <<s[i][1], l[i][1]>> /\ q[i] \in Fractions
  <2>1. PICK r : r = rows[i]
    OBVIOUS
  <2>2. r.ilp = Ratio(r.thr, r.lat) /\ Positive(r.lat) /\ r.thr \in Fractions /\ r.lat \in Fractions
    BY <2>1 DEF WholeRows, RowOf, MeasuredRow
  <2>3. r.ilp = Over(s[i], l[i]) /\ r.ilp \in Fractions
    BY <1>2, <2>1, <2>2, OverType DEF Ratio
  <2>4. PICK a \in Nat, b \in Nat : a = s[i][1] /\ s[i] = Whole(a) /\ b = l[i][1] /\ l[i] = Whole(b)
    BY <1>2, WholeIs
  <2>5. r.ilp = <<a, b>>
    BY <2>3, <2>4, WholeOver
  <2>6. q[i] = r.ilp
    BY <1>1, <2>1 DEF Column, WholeRows
  <2> QED BY <2>3, <2>4, <2>5, <2>6
<1>8. q \in [1..n -> Fractions]
  <2>1. DOMAIN q = 1..n /\ q = [i \in 1..n |-> rows[i]["ilp"]]
    BY <1>1 DEF Column, WholeRows
  <2> QED BY <1>7, <2>1
<1>9. Between(<<x, y>>, q)
  <2>1. RatiosOf(q, s, l, n)
    BY <1>7, <1>8 DEF RatiosOf
  <2> QED BY <1>2, <1>3, <1>4, <2>1, RatioIsWithin
<1> QED BY <1>1, <1>6, <1>9

\* Loads in parallel likewise, where every row measured both latencies.
LEMMA MlpIsWithin ==
  ASSUME NEW n \in Nat, n > 0, NEW rows, WholeRows(rows, n), NEW t, AddedUp(t, rows), RowOf(t, n),
         \A i \in DOMAIN rows : Positive(rows[i].near) /\ Positive(rows[i].far)
  PROVE  Between(t.mlp, Column(rows, "mlp"))
<1>1. PICK s, l, q : s = Column(rows, "near") /\ l = Column(rows, "far") /\ q = Column(rows, "mlp")
  OBVIOUS
<1>2. /\ s \in [1..n -> Wholes] /\ \A i \in 1..n : s[i] = rows[i].near
      /\ l \in [1..n -> Wholes] /\ \A i \in 1..n : l[i] = rows[i].far
  <2>1. s \in [1..n -> Wholes] /\ \A i \in 1..n : s[i] = rows[i]["near"]
    BY SMTT(30), <1>1, WholeColumn
  <2>2. l \in [1..n -> Wholes] /\ \A i \in 1..n : l[i] = rows[i]["far"]
    BY SMTT(30), <1>1, WholeColumn
  <2> QED BY <2>1, <2>2
<1>3. PICK x \in Nat : SumOf(s) = Whole(x)
  <2>1. PICK a \in [0..n -> Nat] : Running(a, s, n) /\ SumOf(s) = Whole(a[n])
    BY <1>2, WholeSums
  <2> QED BY <2>1
<1>4. PICK y \in Nat : SumOf(l) = Whole(y)
  <2>1. PICK a \in [0..n -> Nat] : Running(a, l, n) /\ SumOf(l) = Whole(a[n])
    BY <1>2, WholeSums
  <2> QED BY <2>1
<1>5. AllPositive(s, n) /\ AllPositive(l, n)
  BY <1>2 DEF AllPositive, WholeRows
<1>6. y > 0
  <2>1. l \in [1..n -> Fractions]
    BY <1>2, WholeIs
  <2>2. Positive(SumOf(l))
    BY <1>5, <2>1, SumType
  <2> QED BY <1>4, <2>2, SimpleFractions
<1>7. t.near = <<x, n>> /\ t.far = <<y, n>>
  <2>1. t.near = Average(s) /\ t.far = Average(l)
    BY <1>1 DEF AddedUp
  <2>2. PositiveOnes(s) = s /\ PositiveOnes(l) = l
    BY <1>2, <1>5, AllAreKept
  <2>3. Len(s) = n /\ Len(l) = n /\ s # <<>> /\ l # <<>>
    <3>1. s \in Seq(Wholes) /\ l \in Seq(Wholes)
      BY <1>2, SeqDef
    <3>2. DOMAIN s = 1..n /\ DOMAIN l = 1..n
      BY <1>2
    <3>3. Len(s) = n /\ Len(l) = n
      BY <3>1, <3>2, LenProperties
    <3> QED BY <3>3, EmptySeq
  <2>4. Average(s) = Over(SumOf(s), Whole(n)) /\ Average(l) = Over(SumOf(l), Whole(n))
    BY <2>2, <2>3 DEF Average
  <2> QED BY <1>3, <1>4, <2>1, <2>4, WholeOver
<1>8. PICK u \in Nat, v \in Nat : u = x * n /\ v = n * y
  BY ProductOfTwo
<1>9. t.mlp = <<u, v>>
  <2>1. t.mlp = Ratio(t.near, t.far)
    BY DEF RowOf
  <2>2. Positive(t.far)
    BY <1>6, <1>7 DEF Positive
  <2>3. t.mlp = Over(<<x, n>>, <<y, n>>)
    BY <1>7, <2>1, <2>2 DEF Ratio
  <2> QED BY <1>8, <2>3 DEF Over
<1>10. ASSUME NEW i \in 1..n PROVE q[i] = <<s[i][1], l[i][1]>> /\ q[i] \in Fractions
  <2>1. PICK r : r = rows[i]
    OBVIOUS
  <2>2. r.mlp = Ratio(r.near, r.far) /\ Positive(r.far) /\ r.near \in Fractions /\ r.far \in Fractions
    BY <2>1 DEF WholeRows, RowOf, MeasuredRow
  <2>3. r.mlp = Over(s[i], l[i]) /\ r.mlp \in Fractions
    BY <1>2, <2>1, <2>2, OverType DEF Ratio
  <2>4. PICK a \in Nat, b \in Nat : a = s[i][1] /\ s[i] = Whole(a) /\ b = l[i][1] /\ l[i] = Whole(b)
    BY <1>2, WholeIs
  <2>5. r.mlp = <<a, b>>
    BY <2>3, <2>4, WholeOver
  <2>6. q[i] = r.mlp
    BY <1>1, <2>1 DEF Column, WholeRows
  <2> QED BY <2>3, <2>4, <2>5, <2>6
<1>11. q \in [1..n -> Fractions]
  <2>1. DOMAIN q = 1..n /\ q = [i \in 1..n |-> rows[i]["mlp"]]
    BY <1>1 DEF Column, WholeRows
  <2> QED BY <1>10, <2>1
<1>12. Between(<<x, y>>, q)
  <2>1. RatiosOf(q, s, l, n)
    BY <1>10, <1>11 DEF RatiosOf
  <2> QED BY <1>2, <1>3, <1>4, <2>1, RatioIsWithin
<1>13. ASSUME NEW a \in Nat, NEW b \in Nat
       PROVE  /\ AtMost(<<a, b>>, <<x, y>>) => AtMost(<<a, b>>, <<u, v>>)
              /\ AtMost(<<x, y>>, <<a, b>>) => AtMost(<<u, v>>, <<a, b>>)
  <2>1. PICK p \in Nat, r \in Nat : p = a * y /\ r = x * b
    BY ProductOfTwo
  <2>2. a * v = p * n /\ u * b = r * n
    <3>1. a * (n * y) = (a * y) * n
      OBVIOUS
    <3>2. (x * n) * b = (x * b) * n
      OBVIOUS
    <3> QED BY <1>8, <2>1, <3>1, <3>2
  <2>3. p <= r => p * n <= r * n
    BY <2>1
  <2>4. r <= p => r * n <= p * n
    BY <2>1
  <2> QED BY <2>1, <2>2, <2>3, <2>4 DEF AtMost
<1>14. Between(<<u, v>>, q)
  <2>1. PICK i \in DOMAIN q, j \in DOMAIN q : AtMost(q[i], <<x, y>>) /\ AtMost(<<x, y>>, q[j])
    BY <1>12 DEF Between
  <2>2. i \in 1..n /\ j \in 1..n
    BY <1>11
  <2>3. PICK a \in Nat, b \in Nat : q[i] = <<a, b>>
    BY <1>2, <1>10, <2>2, WholeIs
  <2>4. PICK c \in Nat, d \in Nat : q[j] = <<c, d>>
    BY <1>2, <1>10, <2>2, WholeIs
  <2>5. AtMost(q[i], <<u, v>>) /\ AtMost(<<u, v>>, q[j])
    BY <1>13, <2>1, <2>3, <2>4
  <2> QED BY <2>1, <2>5 DEF Between
<1> QED BY <1>1, <1>9, <1>14

LEMMA ClockNoBetterKnown ==
  ASSUME NEW n \in Nat, n > 0, NEW rows, WholeRows(rows, n), NEW t, AddedUp(t, rows), NEW i \in 1..n
  PROVE  rows[i].src <= t.src
<1>1. PICK f : f = [j \in 1..n |-> rows[j].src]
  OBVIOUS
<1>2. \A j \in 1..n : f[j] \in Int /\ f[j] = rows[j].src
  BY <1>1 DEF WholeRows, WholeRow
<1>3. 1 \in Int /\ n \in Int /\ 1 <= n
  OBVIOUS
<1>4. PICK m : Greatest(f, m, 1, n)
  <2>1. \A j \in 1..n : f[j] \in Int
    BY <1>2
  <2> QED BY <1>3, <2>1, GreatestExists
<1>5. PICK S : S = {rows[j].src : j \in DOMAIN rows}
  OBVIOUS
<1>6. S \in SUBSET Int /\ f[m] \in S /\ \A x \in S : x <= f[m]
  BY <1>2, <1>4, <1>5 DEF Greatest, WholeRows
<1>7. t.src = f[m]
  BY <1>5, <1>6, MaxIs DEF AddedUp
<1> QED BY <1>2, <1>4, <1>7 DEF Greatest

\* The range of the memory clock, as far as it was read.
Ranges == {<<>>} \cup (Nat \X Nat)

\* The range holds the reading.
Holds(range, mhz) == mhz > 0 => range # <<>> /\ range[1] <= mhz /\ mhz <= range[2]

LEMMA NoteIs ==
  ASSUME NEW range \in Ranges, NEW mhz \in Nat, NEW r, r = NoteDram(range, mhz)
  PROVE  r \in Ranges /\ Holds(r, mhz) /\ \A m \in Nat : Holds(range, m) => Holds(r, m)
<1>1. CASE mhz = 0
  BY <1>1 DEF NoteDram, Holds
<1>2. CASE mhz # 0 /\ range = <<>>
  <2>1. r = <<mhz, mhz>>
    BY <1>2 DEF NoteDram
  <2>2. \A m \in Nat : ~(m > 0 /\ Holds(range, m))
    BY <1>2 DEF Holds
  <2>3. r \in Nat \X Nat /\ r[1] = mhz /\ r[2] = mhz /\ r # <<>>
    BY <2>1
  <2>4. \A m \in Nat : m > 0 \/ Holds(r, m)
    BY DEF Holds
  <2> QED BY <2>2, <2>3, <2>4 DEF Holds, Ranges
<1>3. CASE mhz # 0 /\ range # <<>>
  <2>1. PICK a \in Nat, b \in Nat : range = <<a, b>>
    BY <1>3 DEF Ranges
  <2>2. PICK c \in Nat, d \in Nat : c = Min({a, mhz}) /\ c <= a /\ c <= mhz /\ d = Max({b, mhz}) /\ b <= d /\ mhz <= d
    <3>1. a \in Int /\ b \in Int /\ mhz \in Int
      BY <2>1
    <3>2. Min({a, mhz}) = (IF a <= mhz THEN a ELSE mhz)
      BY ONLY <3>1, LeastOfTwo
    <3>3. Max({b, mhz}) = (IF b <= mhz THEN mhz ELSE b)
      BY ONLY <3>1, GreatestOfTwo
    <3> QED BY <2>1, <3>2, <3>3
  <2>3. r = <<c, d>>
    BY <1>3, <2>1, <2>2 DEF NoteDram
  <2>4. r \in Nat \X Nat /\ r[1] = c /\ r[2] = d /\ r # <<>> /\ range[1] = a /\ range[2] = b
    BY <2>1, <2>3
  <2>5. \A m \in Nat : Holds(range, m) => Holds(r, m)
    BY <2>2, <2>4 DEF Holds
  <2> QED BY <2>2, <2>4, <2>5 DEF Holds, Ranges
<1> QED BY <1>1, <1>2, <1>3

LEMMA NotesOneByOne ==
  ASSUME NEW n \in Nat, NEW s, s \in [1..n -> Nat]
  PROVE  FoldLeft(NoteDram, <<>>, s) \in Ranges
<1> DEFINE T == 1..n
           Step(it, u) == IF u = {} THEN <<>> ELSE NoteDram(it[u \ {Max(u)}], s[Max(u)])
           it == CHOOSE it : it = [u \in SUBSET T |-> Step(it, u)]
<1>1. PICK V, v0 : V = Ranges /\ v0 = <<>>
  OBVIOUS
<1>2. v0 \in V /\ \A v \in V : \A i \in 1..n : NoteDram(v, s[i]) \in V
  BY <1>1, NoteIs DEF Ranges
<1>3. PICK F \in [1..n -> [V -> V]] : \A i \in 1..n : \A v \in V : F[i][v] = NoteDram(v, s[i])
  <2>1. [i \in 1..n |-> [v \in V |-> NoteDram(v, s[i])]] \in [1..n -> [V -> V]]
    BY <1>2
  <2> QED BY <2>1
<1>4. PICK h, g : Folded(h, g, F, v0, V, n)
  BY <1>2, <1>3, FoldInOrder
<1>5. FoldLeft(NoteDram, <<>>, s) = it[T]
  <2>1. DOMAIN s = T
    OBVIOUS
  <2> QED BY <2>1 DEF FoldLeft, MapThenFoldSet
<1>6. ASSUME NEW u \in SUBSET T PROVE h[u] = Step(h, u)
  <2>1. CASE u = {}
    BY <1>1, <1>4, <2>1 DEF Folded
  <2>2. CASE u # {}
    <3>1. Max(u) \in 1..n /\ h[u] = F[Max(u)][h[u \ {Max(u)}]] /\ h[u \ {Max(u)}] \in V
      BY <1>4, <2>2 DEF Folded
    <3> QED BY <1>3, <2>2, <3>1
  <2> QED BY <2>1, <2>2
<1>7. it = [u \in SUBSET T |-> Step(it, u)]
  <2>1. h = [u \in SUBSET T |-> Step(h, u)]
    <3> HIDE DEF Step
    <3> QED BY <1>4, <1>6 DEF Folded
  <2> HIDE DEF Step
  <2> QED BY <2>1
<1> HIDE DEF it
<1>8. Alike(it, h, n)
  <2>1. \A u \in SUBSET T : it[u] = Step(it, u)
    <3> HIDE DEF Step
    <3> QED BY <1>7
  <2> QED BY <1>6, <2>1 DEF Alike
<1>9. it[T] = h[T]
  BY <1>8, SameFold
<1>10. g \in [0..n -> V] /\ g[n] = h[T]
  BY <1>4 DEF Folded
<1> QED BY <1>1, <1>5, <1>9, <1>10

\* With the rows' invariant: the range holds what the cores read.
DramInv ==
  /\ dram \in Ranges
  /\ \A i \in 1..Len(made) : Holds(dram, made[i].dram)

LEMMA DramFirst == ResultsInit => DramInv
<1> SUFFICES ASSUME ResultsInit PROVE DramInv
  OBVIOUS
<1>1. made = <<>> /\ dram = <<>>
  BY DEF ResultsInit
<1>2. \A i \in 1..Len(made) : FALSE
  BY <1>1, NoRows
<1> QED BY <1>1, <1>2 DEF DramInv, Ranges

LEMMA DramStep ==
  ASSUME RowsInv, DramInv, [ResultsNext]_results
  PROVE  DramInv'
<1>1. CASE CollectThreads
  <2>1. setup \in Setups /\ threads = <<>>
    BY <1>1 DEF RowsInv, CollectThreads
  <2>2. PICK n : n = setup.threads
    OBVIOUS
  <2>3. n \in Nat /\ n > 0
    BY <1>1, <2>1, <2>2, ResultsAssumption DEF CollectThreads
  <2>4. PICK ws \in [1..n -> ThreadWorkers] : dram' = FoldLeft(NoteDram, <<>>, Column(ws, "dram"))
    BY <1>1, <2>2 DEF CollectThreads
  <2>5. PICK s : s = Column(ws, "dram")
    OBVIOUS
  <2>6. s \in [1..n -> Nat]
    BY <2>5, ResultsAssumption DEF Column, WorkerOK
  <2>7. dram' \in Ranges
    BY <2>3, <2>4, <2>5, <2>6, NotesOneByOne
  <2>8. made = <<>>
    BY <2>1, <2>2, <2>3, NoRows DEF RowsInv, CoresCounted
  <2>9. made' = <<>>
    BY <1>1, <2>8 DEF CollectThreads
  <2>10. \A i \in 1..Len(made') : FALSE
    BY <2>9, NoRows
  <2> QED BY <2>7, <2>10 DEF DramInv
<1>2. CASE CollectCore
  <2>1. PICK w \in CoreWorkers : made' = Append(made, w) /\ dram' = NoteDram(dram, w.dram)
    BY <1>2 DEF CollectCore
  <2>2. w.dram \in Nat /\ dram \in Ranges
    BY ResultsAssumption DEF WorkerOK, DramInv
  <2>3. dram' \in Ranges /\ Holds(dram', w.dram) /\ \A m \in Nat : Holds(dram, m) => Holds(dram', m)
    BY <2>1, <2>2, NoteIs
  <2>4. PICK S, T, k : made \in Seq(S) /\ T = S \cup {w} /\ k = Len(made)
    BY DEF RowsInv, CoresCounted
  <2>5. made \in Seq(T) /\ w \in T /\ k \in Nat
    <3>1. S \subseteq T
      BY <2>4
    <3> QED BY <2>4, <3>1, SeqMonotonic, LenProperties
  <2>6. PICK m : m = made'
    OBVIOUS
  <2>7. Len(m) = k + 1 /\ m[k + 1] = w /\ \A i \in 1..k : m[i] = made[i]
    BY <2>1, <2>4, <2>5, <2>6, AppendProperties
  <2>8. ASSUME NEW i \in 1..(k + 1) PROVE Holds(dram', m[i].dram)
    <3>1. CASE i = k + 1
      BY <2>3, <2>7, <3>1
    <3>2. CASE i # k + 1
      <4>1. i \in 1..k
        BY <2>5, <3>2
      <4>2. made[i].dram \in Nat /\ Holds(dram, made[i].dram)
        BY <2>4, <4>1 DEF RowsInv, CoresCounted, WorkerOK, DramInv
      <4> QED BY <2>3, <2>7, <4>1, <4>2
    <3> QED BY <3>1, <3>2
  <2> QED BY <2>3, <2>6, <2>7, <2>8 DEF DramInv
<1>3. CASE Emit
  BY <1>3 DEF Emit, DramInv
<1>4. CASE UNCHANGED results
  BY <1>4 DEF results, DramInv
<1> QED BY <1>1, <1>2, <1>3, <1>4 DEF ResultsNext

LEMMA RowsBoundTheTotal ==
  ASSUME RowsInv, DramInv
  PROVE  TotalWithinRows
<1>1. ASSUME threads # <<>>, NEW n, n = setup.threads
      PROVE  /\ n \in Nat /\ n > 0 /\ WholeRows(threads, n)
             /\ AddedUp(total, threads) /\ RowOf(total, n)
  <2>1. (\E S : threads \in Seq(S)) /\ Len(threads) = n
    BY <1>1 DEF RowsInv, ThreadsCounted, Rows
  <2>2. n \in Nat /\ n > 0 /\ DOMAIN threads = 1..n
    BY <1>1, <2>1, LenProperties, EmptySeq
  <2>3. \A i \in 1..n : WholeRow(threads[i]) /\ RowOf(threads[i], 1)
    BY <1>1, <2>1 DEF RowsInv, ThreadsCounted, Rows
  <2> QED BY <1>1, <2>1, <2>2, <2>3 DEF WholeRows, RowsInv, ThreadsCounted
<1>2. ASSUME threads # <<>>, NEW field \in {"mhz", "near", "far"},
             NEW p, p = PositiveOnes(Column(threads, field))
      PROVE  IF p = <<>> THEN ~Positive(total[field]) ELSE Between(total[field], p)
  <2>1. PICK n, s : n = setup.threads /\ s = Column(threads, field)
    OBVIOUS
  <2>2. n \in Nat /\ WholeRows(threads, n) /\ total[field] = Average(s)
    BY <1>1, <1>2, <2>1 DEF AddedUp
  <2>3. field \in {"mhz", "lat", "thr", "near", "far"}
    BY <1>2
  <2>4. s \in [1..n -> Wholes]
    BY <2>1, <2>2, <2>3, WholeColumn
  <2>5. p = PositiveOnes(s)
    BY <1>2, <2>1
  <2> QED BY <2>2, <2>4, <2>5, AverageIsWithin
<1>3. ASSUME threads # <<>>
      PROVE  /\ Between(total.ilp, Column(threads, "ilp"))
             /\ (\A i \in DOMAIN threads : Positive(threads[i].near) /\ Positive(threads[i].far))
                  => Between(total.mlp, Column(threads, "mlp"))
             /\ \A i \in DOMAIN threads : threads[i].src <= total.src
  <2>1. PICK n : n = setup.threads
    OBVIOUS
  <2>2. /\ n \in Nat /\ n > 0 /\ WholeRows(threads, n) /\ AddedUp(total, threads) /\ RowOf(total, n)
        /\ DOMAIN threads = 1..n
    BY <1>1, <1>3, <2>1 DEF WholeRows
  <2>3. Between(total.ilp, Column(threads, "ilp"))
    BY <2>2, IlpIsWithin
  <2>4. (\A i \in DOMAIN threads : Positive(threads[i].near) /\ Positive(threads[i].far))
          => Between(total.mlp, Column(threads, "mlp"))
    BY <2>2, MlpIsWithin
  <2>5. \A i \in DOMAIN threads : threads[i].src <= total.src
    BY <2>2, ClockNoBetterKnown
  <2> QED BY <2>3, <2>4, <2>5
<1>4. DOMAIN made = 1..Len(made)
  BY LenProperties DEF RowsInv, CoresCounted
<1>5. \A i \in DOMAIN made : made[i].dram > 0 => dram[1] <= made[i].dram /\ made[i].dram <= dram[2]
  BY <1>4 DEF DramInv, Holds
<1> QED BY <1>2, <1>3, <1>5 DEF TotalWithinRows

\* What the benchmark writes of all threads together lies within what it
\* writes of each (aggregate, note_dram), whichever of them failed to measure
\* a thing.
THEOREM TotalIsWithin == ResultsSpec => []TotalWithinRows
<1> DEFINE Inv == RowsInv /\ DramInv
<1>1. ResultsInit => Inv
  BY ResultsFirst, DramFirst
<1>2. Inv /\ [ResultsNext]_results => Inv'
  BY ResultsStep, DramStep
<1>3. Inv => TotalWithinRows
  BY RowsBoundTheTotal
<1> QED BY <1>1, <1>2, <1>3, PTL DEF ResultsSpec

=============================================================================
