---------------------------- MODULE Gates_proofs ----------------------------
(***************************************************************************)
(* What a request passes before a handler has it, for every size of it     *)
(* all: the challenge store is bounded and single-use, for every number of *)
(* threads, cap and lifetime; the limiter keeps what it promises for every *)
(* number of threads and keys, every limit and window and every wait for   *)
(* the lock; a keep-alive connection is framed for every size of the       *)
(* limits and of the bodies, any number of requests and however they are   *)
(* cut up on the wire.                                                     *)
(***************************************************************************)
EXTENDS Challenges, RateLimiter, Connection,
        SequenceTheorems, FiniteSetTheorems, Induction, TLAPS

-----------------------------------------------------------------------------
(* The challenge store. *)

\* A token never returns to the store: only fresh ones are issued.
Accounted ==
  /\ Tracked \subseteq issued
  /\ \A h \in Handlers : holding[h] \subseteq issued
  /\ \A h \in Handlers : doing[h] # "spending" => holding[h] = {}
  /\ \A t \in Tokens \ issued : accepted[t] = 0

ChallengesInv == ChallengesTypeOK /\ Bounded /\ Accounted /\ SpentOnce

LEMMA KeptRoom ==
  ASSUME ChallengesTypeOK, Bounded, NEW now \in Nat, NEW keep \in Kept(now)
  PROVE  /\ keep \subseteq Tracked
         /\ IsFiniteSet(keep)
         /\ Cardinality(keep) \in Nat
         /\ Cardinality(keep) < cap
<1>1. keep \subseteq Tracked
  BY DEF Kept, Purged
<1>2. IsFiniteSet(keep) /\ Cardinality(keep) \in Nat
  BY <1>1, FS_Subset, FS_CardinalityType DEF Bounded
<1>3. Cardinality(keep) < cap
  BY DEF Kept
<1> QED BY <1>1, <1>2, <1>3

LEMMA InitChallengesInv == ChallengesInit => ChallengesInv
<1> SUFFICES ASSUME ChallengesInit PROVE ChallengesInv
  OBVIOUS
<1>1. Tracked = {}
  BY DEF ChallengesInit, Tracked
<1>2. Bounded
  BY <1>1, FS_EmptySet, ChallengeAssumption DEF Bounded
<1>3. ChallengesTypeOK
  BY <1>1, ChallengeAssumption DEF ChallengesInit, ChallengesTypeOK
<1>4. Accounted /\ SpentOnce
  BY <1>1 DEF ChallengesInit, Accounted, SpentOnce
<1> QED BY <1>2, <1>3, <1>4 DEF ChallengesInv

LEMMA IssueStep ==
  ASSUME ChallengesInv, NEW h \in Handlers, Issue(h)
  PROVE  ChallengesInv'
<1> USE DEF ChallengesInv
<1>1. PICK new \in Tokens \ issued, keep \in Kept(stamp[h]) :
        /\ live' = [t \in keep \cup {new} |->
                      IF t = new THEN Expiry(stamp[h]) ELSE live[t]]
        /\ issued' = issued \cup {new}
  BY DEF Issue
<1>2. /\ keep \subseteq Tracked
      /\ IsFiniteSet(keep)
      /\ Cardinality(keep) \in Nat
      /\ Cardinality(keep) < cap
  BY KeptRoom DEF ChallengesTypeOK
<1>3. Tracked' = keep \cup {new}
  BY <1>1 DEF Tracked
<1>4. Bounded'
  <2>1. new \notin keep
    BY <1>2 DEF Accounted
  <2>2. IsFiniteSet(keep \cup {new}) /\ Cardinality(keep \cup {new}) = Cardinality(keep) + 1
    BY <1>2, <2>1, FS_AddElement
  <2> QED BY <1>2, <1>3, <2>2, ChallengeAssumption DEF Bounded
<1>5. ChallengesTypeOK'
  <2>1. Expiry(stamp[h]) \in Nat \ {0}
    BY ChallengeAssumption DEF ChallengesTypeOK, Expiry
  <2>2. live' \in [Tracked' -> Nat \ {0}] /\ Tracked' \subseteq Tokens
    BY <1>1, <1>2, <1>3, <2>1 DEF ChallengesTypeOK
  <2> QED BY <1>1, <2>2 DEF Issue, ChallengesTypeOK
<1>6. Accounted' /\ SpentOnce'
  BY <1>1, <1>2, <1>3 DEF Issue, ChallengesTypeOK, Accounted, SpentOnce
<1> QED BY <1>4, <1>5, <1>6

LEMMA PopStep ==
  ASSUME ChallengesInv, NEW h \in Handlers, NEW t \in Tokens, PopToken(h, t)
  PROVE  ChallengesInv'
<1> USE DEF ChallengesInv
<1>1. Tracked' = Tracked \ {t}
  BY DEF PopToken, Tracked
<1>2. Bounded'
  <2>1. IsFiniteSet(Tracked')
        /\ Cardinality(Tracked') <= Cardinality(Tracked)
        /\ Cardinality(Tracked) \in Nat /\ Cardinality(Tracked') \in Nat
    BY <1>1, FS_Subset, FS_CardinalityType DEF Bounded
  <2> QED BY <2>1, ChallengeAssumption DEF Bounded
<1>3. ChallengesTypeOK'
  BY <1>1 DEF PopToken, ChallengesTypeOK
<1>4. Accounted' /\ SpentOnce'
  BY <1>1 DEF PopToken, ChallengesTypeOK, Accounted, SpentOnce
<1> QED BY <1>2, <1>3, <1>4

LEMMA JudgeStep ==
  ASSUME ChallengesInv, NEW h \in Handlers, Judge(h)
  PROVE  ChallengesInv'
<1> USE DEF ChallengesInv
<1>1. Tracked' = Tracked
  BY DEF Judge, Tracked
<1>2. ChallengesTypeOK'
  BY <1>1 DEF Judge, ChallengesTypeOK
<1>3. Bounded'
  BY <1>1 DEF Bounded
<1>4. Accounted'
  BY <1>1 DEF Judge, ChallengesTypeOK, Accounted
<1>5. SpentOnce'
  BY <1>1 DEF Judge, ChallengesTypeOK, Accounted, SpentOnce
<1> QED BY <1>2, <1>3, <1>4, <1>5

LEMMA OtherStep ==
  ASSUME ChallengesInv, Tick \/ (\E h \in Handlers : ReadClock(h)) \/ UNCHANGED challenges
  PROVE  ChallengesInv'
<1> USE DEF ChallengesInv
<1>1. UNCHANGED <<live, holding, issued, accepted>>
  BY DEF Tick, ReadClock, challenges
<1>2. ChallengesTypeOK'
  BY <1>1, ChallengeAssumption DEF Tick, ReadClock, challenges, ChallengesTypeOK, Tracked
<1>3. Bounded' /\ SpentOnce'
  BY <1>1 DEF Bounded, SpentOnce, Tracked
<1>4. Accounted'
  BY <1>1 DEF Tick, ReadClock, challenges, Accounted, ChallengesTypeOK, Tracked
<1> QED BY <1>2, <1>3, <1>4

\* Types, the bound, and where a token can be: still to be issued, in the
\* store, in one thread's hands, or gone.
THEOREM ChallengesInductive == ChallengesSpec => []ChallengesInv
<1>1. ChallengesInit => ChallengesInv
  BY InitChallengesInv
<1>2. ChallengesInv /\ [ChallengesNext]_challenges => ChallengesInv'
  BY IssueStep, PopStep, JudgeStep, OtherStep DEF ChallengesNext
<1> QED BY <1>1, <1>2, PTL DEF ChallengesSpec

\* The store never holds more than `cap` challenges.
THEOREM StoreBounded == ChallengesSpec => []Bounded
<1>1. ChallengesInv => Bounded
  BY DEF ChallengesInv
<1> QED BY <1>1, ChallengesInductive, PTL

\* No challenge is accepted twice, whichever threads race for it.
THEOREM SingleUse == ChallengesSpec => []SpentOnce
<1>1. ChallengesInv => SpentOnce
  BY DEF ChallengesInv
<1> QED BY <1>1, ChallengesInductive, PTL

-----------------------------------------------------------------------------
(* The limiter. The deque of a key is the tail of the list of times it was *)
(* let through, each a little before (the time was read, then the lock     *)
(* waited for); and what the deque has dropped is far enough in the past.  *)

Skewed(then, now) == then <= now /\ now <= then + MaxSkew

Faithful(q, g, now) ==
  /\ Len(q) <= Len(g)
  /\ \A j \in 1..Len(q) : Skewed(q[j], g[Len(g) - Len(q) + j])
  /\ \A i \in 1..(Len(g) - Len(q)) : now - g[i] > Window - MaxSkew

InOrder(g, now) ==
  /\ \A i \in 1..Len(g) : g[i] <= now
  /\ \A i, j \in 1..Len(g) : i <= j => g[i] <= g[j]

WaitsBounded ==
  \A h \in Callers : asking[h] = "waiting" => Skewed(read[h], seconds)

DequesFaithful == \A k \in Keys : Faithful(HitsOf(k), grants[k], seconds)
GrantsInOrder == \A k \in Keys : InOrder(grants[k], seconds)

LInv ==
  /\ LimiterTypeOK
  /\ WaitsBounded
  /\ DequesFaithful
  /\ GrantsInOrder
  /\ WithinLimit

-----------------------------------------------------------------------------
(* The deque. *)

LEMMA LimitPositive == \A k : LimitOf(k) \in Nat \ {0}
BY LimiterAssumption DEF LimitOf

\* What popping leaves: the deque without its first d hits, every one of
\* which had expired, and a first hit that has not.
LEMMA TrimmedTail ==
  ASSUME NEW q \in Seq(Times), NEW t \in Times
  PROVE  \E d \in 0..Len(q) :
           /\ Trimmed(q, t) \in Seq(Times)
           /\ Len(Trimmed(q, t)) = Len(q) - d
           /\ \A j \in 1..(Len(q) - d) : Trimmed(q, t)[j] = q[d + j]
           /\ \A i \in 1..d : t - q[i] > Window
           /\ d < Len(q) => t - q[d + 1] <= Window
<1>0. Len(q) \in Nat /\ \A i \in 1..Len(q) : q[i] \in Int
  BY LimiterAssumption, ElementOfSeq, LenProperties DEF Times
<1>1. CASE Fresh(q, t) = {}
  <2>1. Trimmed(q, t) = <<>>
    BY <1>1 DEF Trimmed
  <2>2. \A i \in 1..Len(q) : t - q[i] > Window
    BY SMTT(30), <1>0, <1>1, LimiterAssumption DEF Fresh, Times
  <2> QED BY <1>0, <2>1, <2>2
<1>2. CASE Fresh(q, t) # {}
  <2> DEFINE f == CHOOSE i \in Fresh(q, t) : \A j \in Fresh(q, t) : i <= j
  <2>1. Fresh(q, t) \in SUBSET (1..Len(q))
    BY <1>0 DEF Fresh
  <2>2. f \in Fresh(q, t) /\ \A j \in Fresh(q, t) : f <= j
    BY <1>0, <1>2, <2>1, SmallestNumber
  <2>3. f \in 1..Len(q) /\ t - q[f] <= Window
    BY <2>2 DEF Fresh
  <2>4. Trimmed(q, t) = SubSeq(q, f, Len(q))
    BY <1>2 DEF Trimmed
  <2> HIDE DEF f
  <2>5. \A i \in 1..(f - 1) : t - q[i] > Window
    <3> SUFFICES ASSUME NEW i \in 1..(f - 1), t - q[i] <= Window PROVE FALSE
      BY <1>0, <2>3, LimiterAssumption DEF Times
    <3>1. i \in Fresh(q, t)
      BY <1>0, <2>3 DEF Fresh
    <3> QED BY <2>2, <2>3, <3>1
  <2>6. /\ SubSeq(q, f, Len(q)) \in Seq(Times)
        /\ Len(SubSeq(q, f, Len(q))) = Len(q) - (f - 1)
        /\ \A j \in 1..(Len(q) - (f - 1)) : SubSeq(q, f, Len(q))[j] = q[(f - 1) + j]
    BY <1>0, <2>3, SubSeqProperties
  <2>7. f - 1 \in 0..Len(q) /\ (f - 1) + 1 = f
    BY <1>0, <2>3
  <2> QED BY <2>3, <2>4, <2>5, <2>6, <2>7
<1> QED BY <1>1, <1>2

LEMMA TrimFaithful ==
  ASSUME NEW q \in Seq(Times), NEW g \in Seq(Times), NEW t \in Times, NEW now \in Times,
         Faithful(q, g, now), Skewed(t, now)
  PROVE  Faithful(Trimmed(q, t), g, now)
<1>1. PICK d \in 0..Len(q) :
        /\ Trimmed(q, t) \in Seq(Times)
        /\ Len(Trimmed(q, t)) = Len(q) - d
        /\ \A j \in 1..(Len(q) - d) : Trimmed(q, t)[j] = q[d + j]
        /\ \A i \in 1..d : t - q[i] > Window
  BY TrimmedTail
<1> DEFINE p == Trimmed(q, t)
<1>2. /\ Len(q) \in Nat /\ Len(g) \in Nat /\ Len(q) <= Len(g)
      /\ \A i \in 1..Len(q) : q[i] \in Nat
      /\ \A i \in 1..Len(g) : g[i] \in Nat
  BY SMTT(30), ElementOfSeq, LenProperties, LimiterAssumption DEF Faithful, Times
<1>3. Len(g) - Len(p) = (Len(g) - Len(q)) + d
  BY <1>1, <1>2
<1>4. ASSUME NEW j \in 1..Len(p) PROVE Skewed(p[j], g[Len(g) - Len(p) + j])
  <2>1. d + j \in 1..Len(q) /\ p[j] = q[d + j]
    BY <1>1, <1>2
  <2>2. Len(g) - Len(q) + (d + j) = Len(g) - Len(p) + j
    BY <1>1, <1>2
  <2> QED BY <2>1, <2>2 DEF Faithful
<1>5. ASSUME NEW i \in 1..(Len(g) - Len(p)) PROVE now - g[i] > Window - MaxSkew
  <2>1. CASE i <= Len(g) - Len(q)
    BY <1>2, <2>1 DEF Faithful
  <2>2. CASE i > Len(g) - Len(q)
    <3> DEFINE j == i - (Len(g) - Len(q))
    <3>1. j \in 1..d /\ j \in 1..Len(q) /\ Len(g) - Len(q) + j = i
      BY <1>1, <1>2, <1>3, <2>2
    <3>2. t - q[j] > Window /\ Skewed(q[j], g[i])
      BY <1>1, <3>1 DEF Faithful
    <3>3. q[j] \in Nat /\ g[i] \in Nat
      BY <1>2, <3>1
    <3>4. ASSUME NEW a \in Nat, NEW b \in Nat, t - a > Window, Skewed(a, b)
          PROVE  now - b > Window - MaxSkew
      BY <3>4, LimiterAssumption DEF Skewed, Times
    <3> QED BY <3>2, <3>3, <3>4
  <2> QED BY <1>1, <1>2, <2>1, <2>2
<1>6. Len(p) <= Len(g)
  BY <1>1, <1>2
<1> QED BY <1>4, <1>5, <1>6 DEF Faithful

\* A request let through is the last of the list and of the deque.
LEMMA HitFaithful ==
  ASSUME NEW q \in Seq(Times), NEW g \in Seq(Times), NEW t \in Times, NEW now \in Times,
         Faithful(q, g, now), Skewed(t, now)
  PROVE  Faithful(WithHit(q, t), Append(g, now), now)
<1> DEFINE p == Append(q, t)
           l == Append(g, now)
<1>1. /\ Len(q) \in Nat /\ Len(g) \in Nat /\ Len(q) <= Len(g)
      /\ Len(p) = Len(q) + 1 /\ Len(l) = Len(g) + 1
  BY LenProperties, AppendProperties DEF Faithful
<1>2. /\ \A i \in 1..Len(q) : p[i] = q[i]
      /\ \A i \in 1..Len(g) : l[i] = g[i]
      /\ p[Len(q) + 1] = t /\ l[Len(g) + 1] = now
  BY AppendProperties
<1> HIDE DEF p, l
<1>3. ASSUME NEW j \in 1..Len(p) PROVE Skewed(p[j], l[Len(l) - Len(p) + j])
  <2>1. Len(l) - Len(p) + j = Len(g) - Len(q) + j
    BY <1>1
  <2>2. CASE j = Len(q) + 1
    BY <1>1, <1>2, <2>1, <2>2
  <2>3. CASE j \in 1..Len(q)
    <3>1. Len(g) - Len(q) + j \in 1..Len(g)
      BY <1>1, <2>3
    <3> QED BY <1>2, <2>1, <2>3, <3>1 DEF Faithful
  <2> QED BY <1>1, <2>2, <2>3
<1>4. ASSUME NEW i \in 1..(Len(l) - Len(p)) PROVE now - l[i] > Window - MaxSkew
  <2>1. i \in 1..(Len(g) - Len(q)) /\ i \in 1..Len(g)
    BY <1>1
  <2> QED BY <1>2, <2>1 DEF Faithful
<1>5. Len(p) <= Len(l)
  BY <1>1
<1>6. WithHit(q, t) = p
  BY DEF WithHit, p
<1> QED BY <1>3, <1>4, <1>5, <1>6 DEF Faithful, l

LEMMA SecondFaithful ==
  ASSUME NEW q \in Seq(Times), NEW g \in Seq(Times), NEW now \in Times,
         Faithful(q, g, now)
  PROVE  Faithful(q, g, now + 1)
<1>1. /\ Len(q) \in Nat /\ Len(g) \in Nat
      /\ \A i \in 1..Len(g) : g[i] \in Nat
  BY ElementOfSeq, LenProperties, LimiterAssumption DEF Times
<1> QED BY <1>1, LimiterAssumption DEF Faithful, Times
-----------------------------------------------------------------------------
(* The list of times a key was let through. *)

Spread(g, limit) ==
  \A i \in 1..Len(g) : i + limit <= Len(g) => g[i + limit] - g[i] > Window - MaxSkew

LEMMA SpreadIsWithinLimit == WithinLimit <=> \A k \in Keys : Spread(grants[k], LimitOf(k))
BY DEF WithinLimit, Spread

\* With room in the deque, the request that is limit back has been dropped.
LEMMA HitSpread ==
  ASSUME NEW q \in Seq(Times), NEW g \in Seq(Times), NEW now \in Times,
         NEW limit \in Nat \ {0},
         Faithful(q, g, now), Spread(g, limit), Len(q) < limit
  PROVE  Spread(Append(g, now), limit)
<1> DEFINE l == Append(g, now)
<1>1. /\ Len(q) \in Nat /\ Len(g) \in Nat /\ Len(l) = Len(g) + 1
      /\ \A i \in 1..Len(g) : l[i] = g[i]
      /\ l[Len(g) + 1] = now
  BY LenProperties, AppendProperties
<1> HIDE DEF l
<1>2. ASSUME NEW i \in 1..Len(l), i + limit <= Len(l)
      PROVE  l[i + limit] - l[i] > Window - MaxSkew
  <2>1. i \in 1..Len(g) /\ l[i] = g[i]
    BY <1>1, <1>2
  <2>2. CASE i + limit <= Len(g)
    <3>1. i + limit \in 1..Len(g)
      BY <1>1, <2>2
    <3> QED BY <1>1, <2>1, <2>2, <3>1 DEF Spread
  <2>3. CASE i + limit = Len(g) + 1
    <3>1. i \in 1..(Len(g) - Len(q))
      BY <1>1, <2>1, <2>3
    <3> QED BY <1>1, <2>1, <2>3, <3>1 DEF Faithful
  <2> QED BY <1>1, <1>2, <2>2, <2>3
<1> QED BY <1>2 DEF Spread, l

LEMMA HitInOrder ==
  ASSUME NEW g \in Seq(Times), NEW now \in Times, InOrder(g, now)
  PROVE  InOrder(Append(g, now), now)
<1> DEFINE l == Append(g, now)
<1>1. /\ Len(g) \in Nat /\ Len(l) = Len(g) + 1
      /\ \A i \in 1..Len(g) : l[i] = g[i]
      /\ l[Len(g) + 1] = now
  BY LenProperties, AppendProperties
<1> HIDE DEF l
<1>2. ASSUME NEW i \in 1..Len(l) PROVE i \in 1..Len(g) \/ i = Len(g) + 1
  BY <1>1
<1>3. \A i \in 1..Len(l) : l[i] <= now
  BY <1>1, <1>2, LimiterAssumption DEF InOrder, Times
<1>4. ASSUME NEW i \in 1..Len(l), NEW j \in 1..Len(l), i <= j PROVE l[i] <= l[j]
  <2>1. CASE j = Len(g) + 1
    BY <1>1, <1>3, <2>1
  <2>2. CASE j \in 1..Len(g)
    <3>1. i \in 1..Len(g)
      BY <1>1, <1>4, <2>2
    <3> QED BY <1>1, <1>4, <2>2, <3>1 DEF InOrder
  <2> QED BY <1>2, <2>1, <2>2
<1> QED BY <1>3, <1>4 DEF InOrder, l

LEMMA SecondInOrder ==
  ASSUME NEW g \in Seq(Times), NEW now \in Times, InOrder(g, now)
  PROVE  InOrder(g, now + 1)
<1>1. Len(g) \in Nat /\ \A i \in 1..Len(g) : g[i] \in Nat
  BY ElementOfSeq, LenProperties, LimiterAssumption DEF Times
<1> QED BY <1>1, LimiterAssumption DEF InOrder, Times

-----------------------------------------------------------------------------
(* The table. *)

LEMMA HitsOfType == LimiterTypeOK => \A k \in Keys : HitsOf(k) \in Seq(Times)
BY DEF LimiterTypeOK, HitsOf

LEMMA SetHitsOf ==
  ASSUME LimiterTypeOK, NEW k \in Keys, NEW q \in Seq(Times), hits' = SetHits(k, q)
  PROVE  /\ TrackedKeys' \subseteq Keys /\ hits' \in [TrackedKeys' -> Seq(Times)]
         /\ \A j \in Keys : HitsOf(j)' = IF j = k THEN q ELSE HitsOf(j)
BY DEF LimiterTypeOK, SetHits, HitsOf, TrackedKeys

\* A purge takes empty deques only, and a key that is not tracked has one.
LEMMA PurgedHitsOf ==
  ASSUME LimiterTypeOK, NEW k \in Keys, NEW q \in Seq(Times),
         NEW dropped \in Purges(SetHits(k, q)),
         hits' = [j \in DOMAIN SetHits(k, q) \ dropped |-> SetHits(k, q)[j]]
  PROVE  /\ TrackedKeys' \subseteq Keys /\ hits' \in [TrackedKeys' -> Seq(Times)]
         /\ \A j \in Keys : HitsOf(j)' = IF j = k THEN q ELSE HitsOf(j)
<1> DEFINE table == SetHits(k, q)
<1>1. /\ DOMAIN table = TrackedKeys \cup {k}
      /\ \A j \in DOMAIN table : table[j] = (IF j = k THEN q ELSE HitsOf(j)) /\ table[j] \in Seq(Times)
  BY DEF SetHits, HitsOf, LimiterTypeOK, TrackedKeys
<1>2. \A j \in dropped : j \in DOMAIN table /\ table[j] = <<>>
  BY DEF Purges
<1> HIDE DEF table
<1>3. TrackedKeys' = DOMAIN table \ dropped /\ hits' = [j \in DOMAIN table \ dropped |-> table[j]]
  BY DEF TrackedKeys, table
<1>4. ASSUME NEW j \in Keys PROVE HitsOf(j)' = IF j = k THEN q ELSE HitsOf(j)
  <2>1. CASE j \in TrackedKeys'
    BY <1>1, <1>3, <2>1 DEF HitsOf
  <2>2. CASE j \notin TrackedKeys'
    <3>1. HitsOf(j)' = <<>>
      BY <2>2 DEF HitsOf
    <3>2. CASE j \in dropped
      BY <1>1, <1>2, <3>1, <3>2
    <3>3. CASE j \notin DOMAIN table
      BY <1>1, <3>1, <3>3 DEF HitsOf
    <3> QED BY <1>3, <2>2, <3>2, <3>3
  <2> QED BY <2>1, <2>2
<1> QED BY <1>1, <1>3, <1>4 DEF LimiterTypeOK
-----------------------------------------------------------------------------
(* The invariant. *)

LEMMA InitLInv == LimiterInit => LInv
<1> SUFFICES ASSUME LimiterInit PROVE LInv
  OBVIOUS
<1>1. LimiterTypeOK
  BY LimiterAssumption, EmptySeq DEF LimiterInit, LimiterTypeOK, TrackedKeys, Times
<1>2. \A k \in Keys : HitsOf(k) = <<>> /\ grants[k] = <<>>
  BY DEF LimiterInit, HitsOf, TrackedKeys
<1>3. DequesFaithful /\ GrantsInOrder /\ WithinLimit
  BY <1>2 DEF DequesFaithful, GrantsInOrder, WithinLimit, Faithful, InOrder
<1>4. WaitsBounded
  BY DEF LimiterInit, WaitsBounded
<1> QED BY <1>1, <1>3, <1>4 DEF LInv

LEMMA TimeType == LimiterTypeOK => seconds \in Times /\ \A k \in Keys : grants[k] \in Seq(Times)
BY DEF LimiterTypeOK

LEMMA SecondStep == LInv /\ SecondPasses => LInv'
<1> SUFFICES ASSUME LInv, SecondPasses PROVE LInv'
  OBVIOUS
<1> USE DEF LInv, SecondPasses
<1>1. LimiterTypeOK'
  BY LimiterAssumption DEF LimiterTypeOK, Times, TrackedKeys
<1>2. WaitsBounded'
  BY LimiterAssumption DEF WaitsBounded, Skewed, LimiterTypeOK, Times
<1>3. \A k \in Keys : HitsOf(k)' = HitsOf(k)
  BY DEF HitsOf, TrackedKeys
<1>4. DequesFaithful'
  BY <1>3, TimeType, HitsOfType, SecondFaithful DEF DequesFaithful
<1>5. GrantsInOrder'
  BY TimeType, SecondInOrder DEF GrantsInOrder
<1>6. WithinLimit'
  BY DEF WithinLimit
<1> QED BY <1>1, <1>2, <1>4, <1>5, <1>6

LEMMA ReadStep ==
  ASSUME LInv, NEW h \in Callers, NEW k \in Keys, ReadSecond(h, k)
  PROVE  LInv'
<1> USE DEF LInv, ReadSecond
<1>1. LimiterTypeOK'
  BY DEF LimiterTypeOK, TrackedKeys
<1>2. WaitsBounded'
  <2>1. Skewed(seconds, seconds)
    BY LimiterAssumption DEF Skewed, LimiterTypeOK, Times
  <2> QED BY <2>1 DEF WaitsBounded, LimiterTypeOK
<1>3. DequesFaithful' /\ GrantsInOrder' /\ WithinLimit'
  BY DEF DequesFaithful, GrantsInOrder, WithinLimit, HitsOf, TrackedKeys
<1> QED BY <1>1, <1>2, <1>3

\* What a request finds at the lock.
LEMMA AtTheLock ==
  ASSUME LInv, NEW h \in Callers, asking[h] = "waiting"
  PROVE  LET k == key[h]  q == Trimmed(HitsOf(k), read[h]) IN
         /\ k \in Keys /\ grants[k] \in Seq(Times)
         /\ read[h] \in Times /\ seconds \in Times /\ Skewed(read[h], seconds)
         /\ q \in Seq(Times)
         /\ Faithful(q, grants[k], seconds)
<1> DEFINE k == key[h]
<1>1. /\ k \in Keys /\ grants[k] \in Seq(Times) /\ HitsOf(k) \in Seq(Times)
      /\ read[h] \in Times /\ seconds \in Times
  BY HitsOfType DEF LInv, LimiterTypeOK
<1>2. Skewed(read[h], seconds) /\ Faithful(HitsOf(k), grants[k], seconds)
  BY <1>1 DEF LInv, WaitsBounded, DequesFaithful
<1> HIDE DEF k
<1>3. Trimmed(HitsOf(k), read[h]) \in Seq(Times)
  BY <1>1, TrimmedTail
<1>4. Faithful(Trimmed(HitsOf(k), read[h]), grants[k], seconds)
  BY <1>1, <1>2, TrimFaithful
<1> QED BY <1>1, <1>2, <1>3, <1>4 DEF k

LEMMA RefuseStep ==
  ASSUME LInv, NEW h \in Callers, Refuse(h)
  PROVE  LInv'
<1> DEFINE k == key[h]
           q == Trimmed(HitsOf(k), read[h])
<1>1. asking[h] = "waiting" /\ hits' = SetHits(k, q)
      /\ asking' = [asking EXCEPT ![h] = "idle"]
      /\ UNCHANGED <<seconds, key, read, grants>>
  BY DEF Refuse
<1>2. k \in Keys /\ q \in Seq(Times) /\ Faithful(q, grants[k], seconds)
  BY <1>1, AtTheLock
<1> HIDE DEF k, q
<1>3. /\ TrackedKeys' \subseteq Keys /\ hits' \in [TrackedKeys' -> Seq(Times)]
      /\ \A j \in Keys : HitsOf(j)' = IF j = k THEN q ELSE HitsOf(j)
  BY <1>1, <1>2, SetHitsOf DEF LInv
<1>4. LimiterTypeOK'
  BY <1>1, <1>3 DEF LInv, LimiterTypeOK
<1>5. DequesFaithful'
  BY <1>1, <1>2, <1>3 DEF LInv, DequesFaithful
<1>6. WaitsBounded' /\ GrantsInOrder' /\ WithinLimit'
  BY <1>1 DEF LInv, WaitsBounded, GrantsInOrder, WithinLimit, LimiterTypeOK
<1> QED BY <1>4, <1>5, <1>6 DEF LInv

LEMMA AllowStep ==
  ASSUME LInv, NEW h \in Callers, Allow(h)
  PROVE  LInv'
<1> DEFINE k == key[h]
           p == Trimmed(HitsOf(k), read[h])
           q == WithHit(p, read[h])
           g == Append(grants[k], seconds)
<1>1. PICK dropped \in Purges(SetHits(k, q)) :
        hits' = [j \in DOMAIN SetHits(k, q) \ dropped |-> SetHits(k, q)[j]]
  BY DEF Allow
<1>2. /\ asking[h] = "waiting" /\ Len(p) < LimitOf(k)
      /\ grants' = [grants EXCEPT ![k] = g]
      /\ asking' = [asking EXCEPT ![h] = "idle"]
      /\ UNCHANGED <<seconds, key, read>>
  BY DEF Allow
<1>3. /\ k \in Keys /\ grants[k] \in Seq(Times) /\ read[h] \in Times /\ seconds \in Times
      /\ Skewed(read[h], seconds)
      /\ p \in Seq(Times) /\ Faithful(p, grants[k], seconds)
  BY <1>2, AtTheLock
<1>4. /\ InOrder(grants[k], seconds) /\ Spread(grants[k], LimitOf(k))
  BY <1>3, SpreadIsWithinLimit DEF LInv, GrantsInOrder
<1> HIDE DEF k, p
<1>5. q \in Seq(Times) /\ Faithful(q, g, seconds)
  BY <1>3, HitFaithful, AppendProperties DEF WithHit
<1>6. g \in Seq(Times) /\ InOrder(g, seconds) /\ Spread(g, LimitOf(k))
  BY <1>2, <1>3, <1>4, HitInOrder, HitSpread, LimitPositive, AppendProperties
<1> HIDE DEF q, g
<1>7. /\ TrackedKeys' \subseteq Keys /\ hits' \in [TrackedKeys' -> Seq(Times)]
      /\ \A j \in Keys : HitsOf(j)' = IF j = k THEN q ELSE HitsOf(j)
  BY <1>1, <1>3, <1>5, PurgedHitsOf DEF LInv
<1>8. \A j \in Keys : grants'[j] = IF j = k THEN g ELSE grants[j]
  BY <1>2 DEF LInv, LimiterTypeOK
<1>9. LimiterTypeOK'
  BY <1>2, <1>6, <1>7 DEF LInv, LimiterTypeOK
<1>10. DequesFaithful'
  BY <1>2, <1>5, <1>7, <1>8 DEF LInv, DequesFaithful
<1>11. GrantsInOrder'
  BY <1>2, <1>6, <1>8 DEF LInv, GrantsInOrder
<1>12. WithinLimit'
  <2>1. \A j \in Keys : Spread(grants'[j], LimitOf(j))
    BY <1>6, <1>8, SpreadIsWithinLimit DEF LInv
  <2> QED BY <2>1 DEF WithinLimit, Spread
<1>13. WaitsBounded'
  BY <1>2 DEF LInv, WaitsBounded, LimiterTypeOK
<1> QED BY <1>9, <1>10, <1>11, <1>12, <1>13 DEF LInv

\* The deques, the lists and the waits keep their types and what relates them.
THEOREM LimiterInductive == LimiterSpec => []LInv
<1>1. LInv /\ [LimiterNext]_limiter => LInv'
  <2> SUFFICES ASSUME LInv, [LimiterNext]_limiter PROVE LInv'
    OBVIOUS
  <2>1. CASE LimiterNext
    BY <2>1, SecondStep, ReadStep, RefuseStep, AllowStep DEF LimiterNext
  <2>2. CASE UNCHANGED limiter
    BY <2>2 DEF limiter, LInv, LimiterTypeOK, TrackedKeys, WaitsBounded,
                DequesFaithful, GrantsInOrder, WithinLimit, HitsOf
  <2> QED BY <2>1, <2>2
<1> QED BY <1>1, InitLInv, PTL DEF LimiterSpec

-----------------------------------------------------------------------------

\* No window of a key takes more than its limit, give or take the wait for the
\* lock, however many threads ask at once.
THEOREM NeverOverLimit == LimiterSpec => []WithinLimit
<1>1. LInv => WithinLimit
  BY DEF LInv
<1> QED BY <1>1, LimiterInductive, PTL

\* At the lock with the deque full, the request that is LimitOf(k) back is
\* still in the deque, behind a first hit that has not expired.
LEMMA RefusalHasCause ==
  ASSUME LInv, NEW h \in Callers, Refuse(h)
  PROVE  LET k == key[h]  n == Len(grants[k]) IN
         /\ n >= LimitOf(k)
         /\ seconds - grants[k][n + 1 - LimitOf(k)] <= Window + MaxSkew
<1> DEFINE k == key[h]
           g == grants[k]
           q == HitsOf(k)
           p == Trimmed(q, read[h])
<1>1. asking[h] = "waiting" /\ Len(p) >= LimitOf(k)
  BY DEF Refuse
<1>2. /\ k \in Keys /\ g \in Seq(Times) /\ read[h] \in Times /\ seconds \in Times
      /\ Skewed(read[h], seconds)
      /\ p \in Seq(Times) /\ Faithful(p, g, seconds)
  BY <1>1, AtTheLock
<1>3. q \in Seq(Times) /\ InOrder(g, seconds)
  BY <1>2, HitsOfType DEF LInv, GrantsInOrder
<1>4. LimitOf(k) \in Nat \ {0}
  BY LimitPositive
<1> HIDE DEF k, g, q
<1>5. PICK d \in 0..Len(q) :
        /\ Len(p) = Len(q) - d
        /\ \A j \in 1..(Len(q) - d) : p[j] = q[d + j]
        /\ d < Len(q) => read[h] - q[d + 1] <= Window
  BY <1>2, <1>3, TrimmedTail
<1>6. Len(p) \in Nat /\ Len(q) \in Nat /\ Len(g) \in Nat /\ Len(p) <= Len(g)
  BY <1>2, <1>3, LenProperties DEF Faithful
<1>7. read[h] - p[1] <= Window
  BY <1>1, <1>4, <1>5, <1>6
<1> HIDE DEF p
<1> DEFINE first == Len(g) - Len(p) + 1
           limit == Len(g) + 1 - LimitOf(k)
<1>8. first \in 1..Len(g) /\ limit \in 1..Len(g) /\ first <= limit /\ 1 \in 1..Len(p)
  BY <1>1, <1>4, <1>6
<1>9. Skewed(p[1], g[first]) /\ g[first] <= g[limit]
  BY <1>2, <1>3, <1>8 DEF Faithful, InOrder
<1>10. p[1] \in Nat /\ g[first] \in Nat /\ g[limit] \in Nat
  <2>1. p[1] \in Times /\ g[first] \in Times /\ g[limit] \in Times
    BY <1>2, <1>8, ElementOfSeq
  <2> QED BY <2>1, LimiterAssumption DEF Times
<1> HIDE DEF first, limit
<1>11. seconds - g[limit] <= Window + MaxSkew
  <2>1. ASSUME NEW a \in Nat, NEW b \in Nat, NEW c \in Nat,
               read[h] - a <= Window, Skewed(a, b), b <= c
        PROVE  seconds - c <= Window + MaxSkew
    BY <1>2, <2>1, LimiterAssumption DEF Skewed, Times
  <2> QED BY <1>7, <1>9, <1>10, <2>1
<1> QED BY <1>1, <1>4, <1>6, <1>11 DEF k, g, limit

\* Nobody is turned away without LimitOf(key) requests let through shortly
\* before.
THEOREM RefusalsJust == LimiterSpec => RefusedForCause
<1> DEFINE Just ==
      \A h \in Callers :
        LET k == key[h]  n == Len(grants[k]) IN
        asking[h] = "waiting" /\ asking'[h] = "idle" /\ grants' = grants =>
          /\ n >= LimitOf(k)
          /\ seconds - grants[k][n + 1 - LimitOf(k)] <= Window + MaxSkew
<1>1. LInv /\ [LimiterNext]_limiter => [Just]_limiter
  <2> SUFFICES ASSUME LInv, LimiterNext, NEW h \in Callers,
                      asking[h] = "waiting", asking'[h] = "idle", grants' = grants
               PROVE  Refuse(h)
    BY RefusalHasCause
  <2>1. asking' # asking
    OBVIOUS
  <2>2. ASSUME NEW c \in Callers, NEW k \in Keys, ReadSecond(c, k) PROVE FALSE
    BY <2>2 DEF ReadSecond, LInv, LimiterTypeOK
  <2>3. ASSUME NEW c \in Callers, Refuse(c) PROVE Refuse(h)
    BY <2>3 DEF Refuse, LInv, LimiterTypeOK
  <2>4. ASSUME NEW c \in Callers, Allow(c) PROVE FALSE
    <3>1. asking[c] = "waiting" /\ grants' = [grants EXCEPT ![key[c]] = Append(@, seconds)]
      BY <2>4 DEF Allow
    <3>2. key[c] \in Keys /\ grants[key[c]] \in Seq(Times) /\ seconds \in Times
      BY DEF LInv, LimiterTypeOK
    <3>3. grants'[key[c]] = Append(grants[key[c]], seconds)
      BY <3>1, <3>2 DEF LInv, LimiterTypeOK
    <3>4. Len(grants'[key[c]]) = Len(grants[key[c]]) + 1 /\ Len(grants[key[c]]) \in Nat
      BY <3>2, <3>3, AppendProperties, LenProperties
    <3> QED BY <3>4
  <2> QED BY <2>1, <2>2, <2>3, <2>4 DEF LimiterNext, SecondPasses
<1> QED BY <1>1, LimiterInductive, PTL DEF LimiterSpec, RefusedForCause

-----------------------------------------------------------------------------
(***************************************************************************)
(* The connection. What is on the wire is one request after the other, in  *)
(* the order they were written, behind what is left of the body of the one *)
(* being served. How much that is follows from where the handler is: all   *)
(* of the body before it looked, what it still wants while it reads,       *)
(* nothing once it has answered. The exceptions are a connection that will *)
(* be closed, a client that has left, and a body that was answered unread. *)
(***************************************************************************)

Units == Heads \cup Bodies

\* Behind place p of the wire come b units of request n's body, and then the
\* next request; what has not arrived yet the client still has.
Follows(w, p, n, b, wr, un) ==
  /\ \A i \in 1..Len(w) : p < i /\ i <= p + b => w[i].kind = "body" /\ w[i].of = n
  /\ p + b < Len(w) => w[p + b + 1].kind = "head" /\ w[p + b + 1].of = n + 1
  /\ p + b >= Len(w) => n = wr /\ un = p + b - Len(w)

Stream(w, wr, un) ==
  \A p \in 1..Len(w) : w[p].kind = "head" =>
    Follows(w, p, w[p].of, BodyUnits(w[p].request), wr, un)

Rests == 0..(MaxLength + 1)

\* Nothing of the body gets in front of another request.
Spent(rest) == rest = 0 \/ close_connection \/ (gone /\ wire = <<>>)

Control(rest) ==
  /\ pc = "routed" => ~body_read /\ rest = BodyUnits(request)
  /\ pc \in Reading => want <= rest /\ (want = rest \/ close_connection)
  /\ pc \in {"reading", "swallowing", "parsed"} => body_read
  /\ pc = "parsed" => Spent(rest)
  /\ pc \in {"raised", "answering"} =>
       IF body_read THEN Spent(rest) ELSE rest = BodyUnits(request)
  /\ pc = "line" => rest = 0 \/ serving \in ignored \/ (gone /\ wire = <<>>)

\* With a request in hand.
Between == {"routed", "reading", "draining", "swallowing", "parsed", "raised", "answering"}

OnWire ==
  /\ unsent > 0 => written > 0
  /\ pc \in Between => serving \in Numbers
  /\ Stream(wire, written, unsent)
  /\ \E rest \in Rests : Follows(wire, 0, serving, rest, written, unsent) /\ Control(rest)

InStep ==
  ignored = {} =>
    /\ \A n \in 1..Len(answers) : answers[n] = n
    /\ gone \/ Len(answers) = IF pc \in {"line", "closed"} THEN serving ELSE serving - 1

Closing ==
  /\ close_connection => request.length = Garbled \/ request.length > MaxDrain
  /\ pc = "closed" /\ ~gone /\ ignored = {} => close_connection

CInv == TypeOK /\ OnWire /\ InStep /\ Closing

-----------------------------------------------------------------------------
(* Units and requests. *)

LEMMA UnitKinds ==
  \A u \in Units : /\ u.of \in Numbers
                   /\ \/ u.kind = "head" /\ u.request \in Requests
                      \/ u.kind = "body"
BY DEF Units, Heads, Bodies

LEMMA BodyUnitsType ==
  \A r \in Requests : /\ BodyUnits(r) \in Rests /\ BodyUnits(r) \in Nat
                      /\ r.length = Garbled \/ r.length \in Nat
                      /\ r.length # Garbled => BodyUnits(r) = r.length
BY ConnectionAssumption DEF Requests, BodyUnits, Rests, Garbled

LEMMA WireType ==
  ASSUME TypeOK
  PROVE  /\ wire \in Seq(Units) /\ Len(wire) \in Nat
         /\ \A i \in 1..Len(wire) : wire[i] \in Units
         /\ written \in Nat /\ unsent \in Nat /\ serving \in Nat
BY LenProperties, ElementOfSeq, ConnectionAssumption DEF TypeOK, Units

-----------------------------------------------------------------------------
(* Writing at the end of the wire. *)

LEMMA FollowsHead ==
  ASSUME NEW w \in Seq(Units), NEW p \in 0..Len(w), NEW n, NEW b \in Nat, NEW wr \in Nat,
         Follows(w, p, n, b, wr, 0),
         NEW u \in Units, u.kind = "head", u.of = wr + 1, NEW more
  PROVE  Follows(Append(w, u), p, n, b, wr + 1, more)
<1> DEFINE l == Append(w, u)
<1>1. Len(w) \in Nat /\ Len(l) = Len(w) + 1
      /\ (\A i \in 1..Len(w) : l[i] = w[i]) /\ l[Len(w) + 1] = u
  BY LenProperties, AppendProperties
<1> HIDE DEF l
<1>2. p + b <= Len(w)
  BY <1>1 DEF Follows
<1>3. \A i \in 1..Len(l) : p < i /\ i <= p + b => l[i].kind = "body" /\ l[i].of = n
  BY <1>1, <1>2 DEF Follows
<1>4. CASE p + b < Len(w)
  BY <1>1, <1>3, <1>4 DEF Follows, l
<1>5. CASE p + b = Len(w)
  <2>1. n = wr /\ l[p + b + 1] = u
    BY <1>1, <1>5 DEF Follows
  <2> QED BY <1>1, <1>3, <1>5, <2>1 DEF Follows, l
<1> QED BY <1>1, <1>2, <1>4, <1>5

LEMMA FollowsBody ==
  ASSUME NEW w \in Seq(Units), NEW p \in 0..Len(w), NEW n, NEW b \in Nat, NEW wr \in Nat,
         NEW un \in Nat \ {0}, Follows(w, p, n, b, wr, un),
         NEW u \in Units, u.kind = "body", u.of = wr
  PROVE  Follows(Append(w, u), p, n, b, wr, un - 1)
<1> DEFINE l == Append(w, u)
<1>1. Len(w) \in Nat /\ Len(l) = Len(w) + 1
      /\ (\A i \in 1..Len(w) : l[i] = w[i]) /\ l[Len(w) + 1] = u
  BY LenProperties, AppendProperties
<1> HIDE DEF l
<1>2. CASE p + b < Len(w)
  <2>1. \A i \in 1..Len(l) : p < i /\ i <= p + b => i \in 1..Len(w)
    BY <1>1, <1>2
  <2> QED BY <1>1, <1>2, <2>1 DEF Follows, l
<1>3. CASE p + b >= Len(w)
  <2>1. n = wr /\ un = p + b - Len(w) /\ p + b >= Len(l) /\ un - 1 = p + b - Len(l)
    <3>1. n = wr /\ un = p + b - Len(w)
      BY <1>3 DEF Follows
    <3> QED BY <1>1, <3>1
  <2>2. ASSUME NEW i \in 1..Len(l), p < i, i <= p + b
        PROVE  l[i].kind = "body" /\ l[i].of = n
    <3>1. CASE i \in 1..Len(w)
      BY <1>1, <2>2, <3>1 DEF Follows
    <3>2. CASE i = Len(w) + 1
      BY <1>1, <2>1, <3>2
    <3> QED BY <1>1, <3>1, <3>2
  <2> QED BY <1>1, <2>1, <2>2 DEF Follows, l
<1> QED BY <1>1, <1>2, <1>3

-----------------------------------------------------------------------------
(* Reading at its front. *)

LEMMA FollowsTail ==
  ASSUME NEW w \in Seq(Units), w # <<>>, NEW p \in 1..Len(w), NEW n, NEW b \in Nat,
         NEW wr, NEW un, Follows(w, p, n, b, wr, un)
  PROVE  Follows(Tail(w), p - 1, n, b, wr, un)
<1> DEFINE l == Tail(w)
<1>1. Len(w) \in Nat /\ Len(l) = Len(w) - 1 /\ \A i \in 1..Len(l) : l[i] = w[i + 1]
  BY LenProperties, HeadTailProperties
<1> HIDE DEF l
<1>2. ASSUME NEW i \in 1..Len(l), p - 1 < i, i <= p - 1 + b
      PROVE  l[i].kind = "body" /\ l[i].of = n
  <2>1. l[i] = w[i + 1] /\ i + 1 \in 1..Len(w) /\ p < i + 1 /\ i + 1 <= p + b
    BY <1>1, <1>2
  <2> QED BY <2>1 DEF Follows
<1>3. p - 1 + b < Len(l) => l[p - 1 + b + 1].kind = "head" /\ l[p - 1 + b + 1].of = n + 1
  <2> SUFFICES ASSUME p - 1 + b < Len(l)
               PROVE  l[p + b].kind = "head" /\ l[p + b].of = n + 1
    BY <1>1
  <2>1. l[p + b] = w[p + b + 1] /\ p + b < Len(w)
    BY <1>1
  <2> QED BY <2>1 DEF Follows
<1>4. p - 1 + b >= Len(l) => n = wr /\ un = p - 1 + b - Len(l)
  BY <1>1 DEF Follows
<1> QED BY <1>2, <1>3, <1>4 DEF Follows, l

\* One unit of what is left of a body.
LEMMA FollowsUnit ==
  ASSUME NEW w \in Seq(Units), w # <<>>, NEW n, NEW b \in Nat \ {0},
         NEW wr, NEW un, Follows(w, 0, n, b, wr, un)
  PROVE  Follows(Tail(w), 0, n, b - 1, wr, un)
<1> DEFINE l == Tail(w)
<1>1. Len(w) \in Nat /\ Len(l) = Len(w) - 1 /\ \A i \in 1..Len(l) : l[i] = w[i + 1]
  BY LenProperties, HeadTailProperties
<1> HIDE DEF l
<1>2. ASSUME NEW i \in 1..Len(l), 0 < i, i <= b - 1
      PROVE  l[i].kind = "body" /\ l[i].of = n
  <2>1. l[i] = w[i + 1] /\ i + 1 \in 1..Len(w) /\ 0 < i + 1 /\ i + 1 <= 0 + b
    BY <1>1, <1>2
  <2> QED BY <2>1 DEF Follows
<1>3. b - 1 < Len(l) => l[b - 1 + 1].kind = "head" /\ l[b - 1 + 1].of = n + 1
  <2> SUFFICES ASSUME b - 1 < Len(l)
               PROVE  l[b].kind = "head" /\ l[b].of = n + 1
    BY <1>1
  <2>1. l[b] = w[0 + b + 1] /\ 0 + b < Len(w)
    BY <1>1
  <2> QED BY <2>1 DEF Follows
<1>4. b - 1 >= Len(l) => n = wr /\ un = b - 1 - Len(l)
  BY <1>1 DEF Follows
<1> QED BY <1>2, <1>3, <1>4 DEF Follows, l

LEMMA StreamTail ==
  ASSUME NEW w \in Seq(Units), w # <<>>, NEW wr, NEW un, Stream(w, wr, un)
  PROVE  Stream(Tail(w), wr, un)
<1> DEFINE l == Tail(w)
<1>1. Len(w) \in Nat /\ Len(l) = Len(w) - 1 /\ \A i \in 1..Len(l) : l[i] = w[i + 1]
  BY LenProperties, HeadTailProperties
<1> SUFFICES ASSUME NEW p \in 1..Len(l), l[p].kind = "head"
             PROVE  Follows(l, p, l[p].of, BodyUnits(l[p].request), wr, un)
  BY DEF Stream
<1>2. p + 1 \in 1..Len(w) /\ l[p] = w[p + 1] /\ (p + 1) - 1 = p
  BY <1>1
<1>3. w[p + 1] \in Units
  BY <1>2, ElementOfSeq
<1>4. BodyUnits(w[p + 1].request) \in Nat
  BY <1>2, <1>3, UnitKinds, BodyUnitsType
<1>5. Follows(w, p + 1, w[p + 1].of, BodyUnits(w[p + 1].request), wr, un)
  BY <1>2 DEF Stream
<1> QED BY <1>2, <1>4, <1>5, FollowsTail
-----------------------------------------------------------------------------
(* The client's steps. *)

LEMMA WriteHeadStep ==
  ASSUME CInv, NEW r \in Requests, WriteHead(r)
  PROVE  CInv'
<1> DEFINE u == [kind |-> "head", of |-> written + 1, request |-> r]
<1>1. /\ ~gone /\ pc # "closed" /\ unsent = 0 /\ written < MaxRequests
      /\ written' = written + 1 /\ unsent' = BodyUnits(r) /\ wire' = Append(wire, u)
      /\ UNCHANGED <<gone, pc, serving, request, want, body_read, close_connection,
                     answers, ignored>>
  BY DEF WriteHead
<1>2. /\ wire \in Seq(Units) /\ Len(wire) \in Nat /\ written \in Nat
      /\ \A i \in 1..Len(wire) : wire[i] \in Units
  BY WireType DEF CInv
<1>3. u \in Units /\ u.kind = "head" /\ u.of = written + 1 /\ u.request = r
  BY <1>1, <1>2, ConnectionAssumption DEF Units, Heads, Numbers, CInv, TypeOK
<1>4. BodyUnits(r) \in Nat
  BY BodyUnitsType
<1> HIDE DEF u
<1>5. /\ wire' \in Seq(Units) /\ Len(wire') = Len(wire) + 1
      /\ (\A i \in 1..Len(wire) : wire'[i] = wire[i]) /\ wire'[Len(wire) + 1] = u
  BY <1>1, <1>2, <1>3, AppendProperties
<1>6. TypeOK'
  BY <1>1, <1>4, <1>5, ConnectionAssumption DEF CInv, TypeOK, Units
<1>7. Stream(wire', written', unsent')
  <2> SUFFICES ASSUME NEW p \in 1..Len(wire'), wire'[p].kind = "head"
               PROVE  Follows(wire', p, wire'[p].of, BodyUnits(wire'[p].request), written', unsent')
    BY DEF Stream
  <2>1. CASE p \in 1..Len(wire)
    <3>1. wire'[p] = wire[p] /\ wire[p] \in Units /\ wire[p].kind = "head"
      BY <1>2, <1>5, <2>1
    <3>2. BodyUnits(wire[p].request) \in Nat
      BY <3>1, UnitKinds, BodyUnitsType
    <3>3. Follows(wire, p, wire[p].of, BodyUnits(wire[p].request), written, 0)
      BY <1>1, <2>1, <3>1 DEF CInv, OnWire, Stream
    <3>4. p \in 0..Len(wire)
      BY <2>1
    <3> QED BY <1>1, <1>2, <1>3, <3>1, <3>2, <3>3, <3>4, FollowsHead
  <2>2. CASE p = Len(wire) + 1
    BY <1>1, <1>2, <1>3, <1>4, <1>5, <2>2 DEF Follows
  <2> QED BY <1>2, <1>5, <2>1, <2>2
<1>8. PICK rest \in Rests : Follows(wire, 0, serving, rest, written, unsent) /\ Control(rest)
  BY DEF CInv, OnWire
<1>9. Follows(wire', 0, serving', rest, written', unsent')
  <2>1. 0 \in 0..Len(wire) /\ rest \in Nat
    BY <1>2, ConnectionAssumption DEF Rests
  <2> QED BY <1>1, <1>2, <1>3, <1>8, <2>1, FollowsHead
<1>10. Control(rest)'
  BY <1>1, <1>8 DEF Control, Spent
<1>11. InStep' /\ Closing'
  BY <1>1 DEF CInv, InStep, Closing
<1>12. written' > 0
  BY <1>1, <1>2
<1> QED BY <1>1, <1>6, <1>7, <1>9, <1>10, <1>11, <1>12 DEF CInv, OnWire

LEMMA WriteBodyStep ==
  ASSUME CInv, WriteBody
  PROVE  CInv'
<1> DEFINE u == [kind |-> "body", of |-> written]
<1>1. /\ ~gone /\ pc # "closed" /\ unsent > 0
      /\ unsent' = unsent - 1 /\ wire' = Append(wire, u)
      /\ UNCHANGED <<written, gone, pc, serving, request, want, body_read,
                     close_connection, answers, ignored>>
  BY DEF WriteBody
<1>2. /\ wire \in Seq(Units) /\ Len(wire) \in Nat /\ written \in Nat /\ unsent \in Nat \ {0}
      /\ \A i \in 1..Len(wire) : wire[i] \in Units
  BY <1>1, WireType DEF CInv
<1>3. PICK rest \in Rests : Follows(wire, 0, serving, rest, written, unsent) /\ Control(rest)
  BY DEF CInv, OnWire
<1>4. written \in Numbers
  BY <1>1, <1>2, ConnectionAssumption DEF CInv, TypeOK, OnWire, Numbers
<1>5. u \in Units /\ u.kind = "body" /\ u.of = written
  BY <1>4 DEF Units, Bodies
<1> HIDE DEF u
<1>6. /\ wire' \in Seq(Units) /\ Len(wire') = Len(wire) + 1
      /\ (\A i \in 1..Len(wire) : wire'[i] = wire[i]) /\ wire'[Len(wire) + 1] = u
  BY <1>1, <1>2, <1>5, AppendProperties
<1>7. TypeOK'
  BY <1>1, <1>2, <1>6 DEF CInv, TypeOK, Units
<1>8. Stream(wire', written', unsent')
  <2> SUFFICES ASSUME NEW p \in 1..Len(wire'), wire'[p].kind = "head"
               PROVE  Follows(wire', p, wire'[p].of, BodyUnits(wire'[p].request), written', unsent')
    BY DEF Stream
  <2>1. p \in 1..Len(wire) /\ p \in 0..Len(wire)
    BY <1>2, <1>5, <1>6
  <2>2. wire'[p] = wire[p] /\ wire[p] \in Units /\ wire[p].kind = "head"
    BY <1>2, <1>6, <2>1
  <2>3. BodyUnits(wire[p].request) \in Nat
    BY <2>2, UnitKinds, BodyUnitsType
  <2>4. Follows(wire, p, wire[p].of, BodyUnits(wire[p].request), written, unsent)
    BY <2>1, <2>2 DEF CInv, OnWire, Stream
  <2> QED BY <1>1, <1>2, <1>5, <2>1, <2>2, <2>3, <2>4, FollowsBody
<1>9. Follows(wire', 0, serving', rest, written', unsent')
  <2>1. 0 \in 0..Len(wire) /\ rest \in Nat
    BY <1>2, ConnectionAssumption DEF Rests
  <2> QED BY <1>1, <1>2, <1>3, <1>5, <2>1, FollowsBody
<1>10. Control(rest)'
  BY <1>1, <1>3 DEF Control, Spent
<1>11. InStep' /\ Closing'
  BY <1>1 DEF CInv, InStep, Closing
<1>12. unsent' > 0 => written' > 0
  BY <1>1, <1>2, <1>4 DEF Numbers
<1> QED BY <1>1, <1>7, <1>8, <1>9, <1>10, <1>11, <1>12 DEF CInv, OnWire

LEMMA HangUpStep == CInv /\ HangUp => CInv'
<1> SUFFICES ASSUME CInv, HangUp PROVE CInv'
  OBVIOUS
<1>1. /\ gone' = TRUE
      /\ UNCHANGED <<written, unsent, wire, pc, serving, request, want, body_read,
                     close_connection, answers, ignored>>
  BY DEF HangUp
<1>2. TypeOK' /\ InStep' /\ Closing'
  BY <1>1 DEF CInv, TypeOK, InStep, Closing
<1>3. OnWire'
  <2>1. PICK rest \in Rests : Follows(wire, 0, serving, rest, written, unsent) /\ Control(rest)
    BY DEF CInv, OnWire
  <2>2. Control(rest)'
    BY <1>1, <2>1 DEF Control, Spent
  <2> QED BY <1>1, <2>1, <2>2 DEF CInv, OnWire
<1> QED BY <1>2, <1>3 DEF CInv

-----------------------------------------------------------------------------
(* The handler's steps off the wire. *)

LEMMA HandlerStep ==
  ASSUME CInv, TypeOK', Closing', UNCHANGED <<client, wire, serving, answers, ignored>>,
         pc \in Between, pc' \in Between,
         \A rest \in Rests : Control(rest) => Control(rest)'
  PROVE  CInv'
<1>1. PICK rest \in Rests : Follows(wire, 0, serving, rest, written, unsent) /\ Control(rest)
  BY DEF CInv, OnWire
<1>2. Control(rest)'
  BY <1>1
<1>3. OnWire'
  BY <1>1, <1>2 DEF CInv, OnWire, client
<1>4. InStep'
  BY DEF CInv, InStep, Between, client
<1> QED BY <1>3, <1>4 DEF CInv

\* What a drain wants is what there is, or the connection will be closed.
LEMMA DrainWants ==
  ASSUME TypeOK, NEW then, request.length \in Nat, Drain(request.length, then)
  PROVE  /\ want' \in Nat /\ close_connection' \in BOOLEAN /\ pc' = then
         /\ want' <= request.length
         /\ want' = request.length \/ close_connection'
         /\ close_connection' => close_connection \/ request.length > MaxDrain
         /\ close_connection => close_connection'
<1>1. /\ want' = IF request.length > MaxDrain THEN MaxDrain ELSE request.length
      /\ close_connection' = (close_connection \/ request.length > MaxDrain)
      /\ pc' = then
  BY DEF Drain
<1>2. close_connection \in BOOLEAN
  BY DEF TypeOK
<1>3. CASE request.length > MaxDrain
  <2>1. want' = MaxDrain /\ close_connection' = TRUE
    BY <1>1, <1>2, <1>3
  <2> QED BY <1>1, <1>3, <2>1, ConnectionAssumption
<1>4. CASE ~(request.length > MaxDrain)
  <2>1. want' = request.length /\ close_connection' = close_connection
    BY <1>1, <1>2, <1>4
  <2> QED BY <1>1, <1>2, <1>4, <2>1
<1> QED BY <1>3, <1>4

LEMMA RequestType ==
  ASSUME TypeOK
  PROVE  /\ request \in Requests /\ BodyUnits(request) \in Nat
         /\ request.length = Garbled \/ request.length \in Nat
         /\ request.length # Garbled => BodyUnits(request) = request.length
BY BodyUnitsType DEF TypeOK

LEMMA RoutedStep ==
  ASSUME CInv, AnswerAtOnce \/ RefuseEarly \/ FailEarly
  PROVE  CInv'
<1>1. /\ pc = "routed" /\ pc' \in {"answering", "raised"}
      /\ UNCHANGED <<client, wire, serving, request, want, body_read, close_connection,
                     answers, ignored>>
  BY DEF AnswerAtOnce, RefuseEarly, FailEarly
<1>2. TypeOK' /\ Closing'
  BY <1>1 DEF CInv, TypeOK, Closing, client
<1>3. \A rest \in Rests : Control(rest) => Control(rest)'
  BY <1>1 DEF Control, Reading, client
<1> QED BY <1>1, <1>2, <1>3, HandlerStep DEF Between

LEMMA CheckLengthStep ==
  ASSUME CInv, CheckLength
  PROVE  CInv'
<1>1. /\ pc = "routed" /\ UNCHANGED <<client, wire, serving, request, answers, ignored>>
      /\ TypeOK
  BY DEF CheckLength, CInv
<1>2. CASE request.length <= 0 /\ pc' = "raised" /\ UNCHANGED <<want, body_read, close_connection>>
  <2>1. TypeOK' /\ Closing'
    BY <1>1, <1>2 DEF CInv, TypeOK, Closing, client
  <2>2. \A rest \in Rests : Control(rest) => Control(rest)'
    BY <1>1, <1>2 DEF Control, Reading, client
  <2> QED BY <1>1, <1>2, <2>1, <2>2, HandlerStep DEF Between
<1>3. CASE request.length > Cap /\ Drain(request.length, "draining") /\ UNCHANGED body_read
  <2>1. request.length \in Nat /\ BodyUnits(request) = request.length
    BY <1>1, <1>3, RequestType, ConnectionAssumption DEF Cap, Garbled
  <2>2. /\ want' \in Nat /\ close_connection' \in BOOLEAN /\ pc' = "draining"
        /\ want' <= request.length
        /\ want' = request.length \/ close_connection'
        /\ close_connection' => close_connection \/ request.length > MaxDrain
    BY <1>1, <1>3, <2>1, DrainWants
  <2>3. TypeOK' /\ Closing'
    BY <1>1, <1>3, <2>2 DEF CInv, TypeOK, Closing, client, Reading
  <2>4. \A rest \in Rests : Control(rest) => Control(rest)'
    BY <1>1, <1>3, <2>1, <2>2 DEF Control, Reading, client
  <2> QED BY <1>1, <2>2, <2>3, <2>4, HandlerStep DEF Between
<1>4. CASE /\ request.length \in 1..Cap /\ body_read' = TRUE /\ want' = request.length
           /\ pc' = "reading" /\ UNCHANGED close_connection
  <2>1. request.length \in Nat /\ BodyUnits(request) = request.length
    BY <1>1, <1>4, RequestType, ConnectionAssumption DEF Cap, Garbled
  <2>2. TypeOK' /\ Closing'
    BY <1>1, <1>4, <2>1 DEF CInv, TypeOK, Closing, client, Reading
  <2>3. \A rest \in Rests : Control(rest) => Control(rest)'
    BY <1>1, <1>4, <2>1 DEF Control, Reading, client
  <2> QED BY <1>1, <1>4, <2>2, <2>3, HandlerStep DEF Between
<1> QED BY <1>2, <1>3, <1>4 DEF CheckLength

\* A read that is over has left nothing, or nothing that matters.
LEMMA OverIsSpent ==
  ASSUME TypeOK, NEW rest \in Rests, Control(rest), pc \in Reading, Complete
  PROVE  Spent(rest)
BY ConnectionAssumption DEF Control, Complete, Spent, Rests, TypeOK

LEMMA ReadOverStep ==
  ASSUME CInv, BodyHere \/ Drained \/ Swallowed
  PROVE  CInv'
<1>1. /\ pc \in Reading /\ Complete /\ pc' \in {"parsed", "answering", "raised"}
      /\ body_read' = TRUE /\ want' = 0
      /\ UNCHANGED <<client, wire, serving, request, close_connection, answers, ignored>>
  <2>1. CASE BodyHere
    <3>1. body_read = TRUE
      <4>1. pc = "reading" /\ body_read \in BOOLEAN
        BY <2>1 DEF BodyHere, CInv, TypeOK
      <4> QED BY <4>1 DEF CInv, OnWire, Control
    <3> QED BY <2>1, <3>1 DEF BodyHere, Reading
  <2>2. CASE Drained
    BY <2>2 DEF Drained, Reading
  <2>3. CASE Swallowed
    <3>1. body_read = TRUE
      <4>1. pc = "swallowing" /\ body_read \in BOOLEAN
        BY <2>3 DEF Swallowed, CInv, TypeOK
      <4> QED BY <4>1 DEF CInv, OnWire, Control
    <3> QED BY <2>3, <3>1 DEF Swallowed, Reading
  <2> QED BY <2>1, <2>2, <2>3
<1>2. TypeOK' /\ Closing'
  BY <1>1 DEF CInv, TypeOK, Closing, client, Reading
<1>3. ASSUME NEW rest \in Rests, Control(rest) PROVE Control(rest)'
  <2>1. Spent(rest)
    BY <1>1, <1>3, OverIsSpent DEF CInv
  <2>2. Spent(rest)'
    BY <1>1, <2>1 DEF Spent, client
  <2> QED BY <1>1, <2>2 DEF Control, Reading
<1> QED BY <1>1, <1>2, <1>3, HandlerStep DEF Between, Reading

LEMMA HandleStep == CInv /\ Handle => CInv'
<1> SUFFICES ASSUME CInv, Handle PROVE CInv'
  OBVIOUS
<1>1. /\ pc = "parsed" /\ pc' \in {"answering", "raised"}
      /\ UNCHANGED <<client, wire, serving, request, want, body_read, close_connection,
                     answers, ignored>>
  BY DEF Handle
<1>2. TypeOK' /\ Closing'
  BY <1>1 DEF CInv, TypeOK, Closing, client
<1>3. \A rest \in Rests : Control(rest) => Control(rest)'
  BY <1>1 DEF Control, Reading, Spent, client
<1> QED BY <1>1, <1>2, <1>3, HandlerStep DEF Between

LEMMA DrainUnreadStep ==
  ASSUME CInv, DrainUnread
  PROVE  CInv'
<1>1. /\ pc = "raised" /\ body_read' = TRUE /\ TypeOK /\ body_read \in BOOLEAN
      /\ UNCHANGED <<client, wire, serving, request, answers, ignored>>
  BY DEF DrainUnread, CInv, TypeOK
<1>2. CASE ~body_read /\ request.length > 0 /\ Drain(request.length, "swallowing")
  <2>1. request.length \in Nat /\ BodyUnits(request) = request.length
    BY <1>1, <1>2, RequestType DEF Garbled
  <2>2. /\ want' \in Nat /\ close_connection' \in BOOLEAN /\ pc' = "swallowing"
        /\ want' <= request.length
        /\ want' = request.length \/ close_connection'
        /\ close_connection' => close_connection \/ request.length > MaxDrain
    BY <1>1, <1>2, <2>1, DrainWants
  <2>3. TypeOK' /\ Closing'
    BY <1>1, <1>2, <2>2 DEF CInv, TypeOK, Closing, client, Reading
  <2>4. \A rest \in Rests : Control(rest) => Control(rest)'
    BY <1>1, <1>2, <2>1, <2>2 DEF Control, Reading, client
  <2> QED BY <1>1, <2>2, <2>3, <2>4, HandlerStep DEF Between
<1>3. CASE /\ body_read \/ request.length <= 0
           /\ close_connection' = (close_connection \/ (~body_read /\ request.length = Garbled))
           /\ pc' = "answering" /\ UNCHANGED want
  <2>1. close_connection' \in BOOLEAN /\ (close_connection => close_connection')
        /\ (close_connection' => close_connection \/ request.length = Garbled)
    BY <1>3 DEF CInv, TypeOK
  <2>2. TypeOK' /\ Closing'
    BY <1>1, <1>3, <2>1 DEF CInv, TypeOK, Closing, client
  <2>3. ASSUME NEW rest \in Rests, Control(rest) PROVE Control(rest)'
    <3>1. CASE body_read
      <4>1. Spent(rest)'
        BY <1>1, <2>1, <2>3, <3>1 DEF Control, Spent, client
      <4> QED BY <1>1, <1>3, <4>1 DEF Control, Reading
    <3>2. CASE ~body_read
      <4>1. rest = BodyUnits(request) /\ request.length <= 0
        BY <1>1, <1>3, <2>3, <3>2 DEF Control
      <4>2. CASE request.length = Garbled
        <5>1. close_connection'
          BY <1>3, <3>2, <4>2
        <5> QED BY <1>1, <1>3, <5>1 DEF Control, Reading, Spent
      <4>3. CASE request.length # Garbled
        <5>1. rest = 0
          BY <1>1, <4>1, <4>3, RequestType
        <5> QED BY <1>1, <1>3, <5>1 DEF Control, Reading, Spent
      <4> QED BY <4>2, <4>3
    <3> QED BY <3>1, <3>2
  <2> QED BY <1>1, <1>3, <2>2, <2>3, HandlerStep DEF Between
<1> QED BY <1>2, <1>3 DEF DrainUnread
-----------------------------------------------------------------------------
(* The handler's steps on the wire. *)

LEMMA FrontOfWire ==
  ASSUME TypeOK, wire # <<>>
  PROVE  /\ Len(wire) \in Nat \ {0} /\ Head(wire) = wire[1] /\ wire[1] \in Units
         /\ wire \in Seq(Units) /\ Tail(wire) \in Seq(Units)
BY WireType, HeadTailProperties, LenProperties

\* A request line comes up only when no body is in front of it.
LEMMA LineIsNext ==
  ASSUME TypeOK, wire # <<>>, NEW rest \in Rests,
         Follows(wire, 0, serving, rest, written, unsent)
  PROVE  /\ Head(wire).kind = "head" => rest = 0 /\ Head(wire).of = serving + 1
         /\ Head(wire).kind = "body" => rest > 0 /\ Head(wire).of = serving
<1>1. Len(wire) \in Nat \ {0} /\ Head(wire) = wire[1] /\ rest \in Nat
  BY FrontOfWire, ConnectionAssumption DEF Rests
<1>2. rest > 0 => wire[1].kind = "body" /\ wire[1].of = serving
  BY <1>1 DEF Follows
<1>3. rest = 0 => wire[1].kind = "head" /\ wire[1].of = serving + 1
  <2> SUFFICES ASSUME rest = 0 PROVE wire[0 + 0 + 1].kind = "head" /\ wire[0 + 0 + 1].of = serving + 1
    OBVIOUS
  <2>1. 0 + 0 < Len(wire)
    BY <1>1
  <2> QED BY <2>1 DEF Follows
<1> QED BY <1>1, <1>2, <1>3

LEMMA ReadLineStep ==
  ASSUME CInv, ReadLine
  PROVE  CInv'
<1>1. /\ pc = "line" /\ wire # <<>> /\ Head(wire).kind = "head"
      /\ serving' = Head(wire).of /\ request' = Head(wire).request /\ wire' = Tail(wire)
      /\ pc' = "routed" /\ body_read' = FALSE /\ close_connection' = FALSE
      /\ UNCHANGED <<client, want, answers, ignored>>
  BY DEF ReadLine
<1>2. PICK rest \in Rests : Follows(wire, 0, serving, rest, written, unsent) /\ Control(rest)
  BY DEF CInv, OnWire
<1>3. serving' = serving + 1 /\ serving \in Nat
  BY <1>1, <1>2, LineIsNext, WireType DEF CInv
<1>4. /\ Len(wire) \in Nat \ {0} /\ Head(wire) = wire[1] /\ wire[1] \in Units
      /\ wire \in Seq(Units) /\ Tail(wire) \in Seq(Units) /\ 1 \in 1..Len(wire)
  BY <1>1, FrontOfWire DEF CInv
<1>5. serving' \in Numbers /\ request' \in Requests
  BY <1>1, <1>4, UnitKinds
<1>6. TypeOK'
  <2>1. wire' \in Seq(Heads \cup Bodies)
    BY <1>1, <1>4 DEF Units
  <2>2. serving' \in 0..MaxRequests
    BY <1>5, ConnectionAssumption DEF Numbers
  <2> QED BY <1>1, <1>5, <2>1, <2>2 DEF CInv, TypeOK, client
<1>7. Stream(wire', written', unsent')
  BY <1>1, <1>4, StreamTail DEF CInv, OnWire, client
<1>8. PICK full \in Rests : full = BodyUnits(request') /\ full \in Nat
  BY <1>5, BodyUnitsType
<1>9. Follows(wire', 0, serving', full, written', unsent')
  <2>1. Follows(wire, 1, serving', full, written, unsent)
    BY <1>1, <1>4, <1>8 DEF CInv, OnWire, Stream
  <2>2. Follows(Tail(wire), 1 - 1, serving', full, written, unsent)
    BY <1>1, <1>4, <1>8, <2>1, FollowsTail
  <2> QED BY <1>1, <2>2 DEF client
<1>10. Control(full)'
  <2>1. full = BodyUnits(request)'
    BY <1>8 DEF BodyUnits
  <2> QED BY <1>1, <2>1 DEF Control, Reading
<1>11. OnWire'
  BY <1>1, <1>5, <1>7, <1>9, <1>10 DEF CInv, OnWire, client
<1>12. InStep'
  BY <1>1, <1>3 DEF CInv, InStep, client
<1>13. Closing'
  BY <1>1 DEF Closing
<1> QED BY <1>6, <1>11, <1>12, <1>13 DEF CInv

LEMMA MisreadStep ==
  ASSUME CInv, Misread
  PROVE  CInv'
<1>1. /\ pc = "line" /\ wire # <<>> /\ Head(wire).kind = "body"
      /\ wire' = Tail(wire) /\ pc' \in {"line", "closed"}
      /\ answers' = IF gone THEN answers ELSE Append(answers, 0)
      /\ UNCHANGED <<client, serving, request, want, body_read, close_connection, ignored>>
  BY DEF Misread
<1>2. PICK rest \in Rests : Follows(wire, 0, serving, rest, written, unsent) /\ Control(rest)
  BY DEF CInv, OnWire
<1>3. rest > 0 /\ rest \in Nat
  BY <1>1, <1>2, LineIsNext, ConnectionAssumption DEF CInv, Rests
<1>4. serving \in ignored
  BY <1>1, <1>2, <1>3 DEF Control
<1>5. wire \in Seq(Units) /\ Tail(wire) \in Seq(Units)
  BY <1>1, FrontOfWire DEF CInv
<1>6. TypeOK'
  <2>1. answers' \in Seq(0..MaxRequests)
    <3>1. answers \in Seq(0..MaxRequests) /\ 0 \in 0..MaxRequests
      BY ConnectionAssumption DEF CInv, TypeOK
    <3>2. Append(answers, 0) \in Seq(0..MaxRequests)
      BY <3>1, AppendProperties
    <3> QED BY <1>1, <3>1, <3>2
  <2> QED BY <1>1, <1>5, <2>1 DEF CInv, TypeOK, client, Units
<1>7. Stream(wire', written', unsent')
  BY <1>1, <1>5, StreamTail DEF CInv, OnWire, client
<1>8. rest - 1 \in Rests /\ Follows(wire', 0, serving', rest - 1, written', unsent')
  <2>1. rest - 1 \in Rests /\ rest \in Nat \ {0}
    BY <1>3, ConnectionAssumption DEF Rests
  <2>2. Follows(Tail(wire), 0, serving, rest - 1, written, unsent)
    BY <1>1, <1>2, <1>5, <2>1, FollowsUnit
  <2> QED BY <1>1, <2>1, <2>2 DEF client
<1>9. Control(rest - 1)'
  BY <1>1, <1>4 DEF Control, Reading
<1>10. OnWire'
  BY <1>1, <1>7, <1>8, <1>9 DEF CInv, OnWire, client, Between
<1>11. InStep' /\ Closing'
  BY <1>1, <1>4 DEF CInv, InStep, Closing, client
<1> QED BY <1>6, <1>10, <1>11 DEF CInv

LEMMA ReadUnitStep ==
  ASSUME CInv, ReadUnit
  PROVE  CInv'
<1>1. /\ pc \in Reading /\ want > 0 /\ wire # <<>>
      /\ wire' = Tail(wire) /\ want' = want - 1
      /\ UNCHANGED <<client, pc, serving, request, body_read, close_connection, answers, ignored>>
  BY DEF ReadUnit
<1>2. PICK rest \in Rests : Follows(wire, 0, serving, rest, written, unsent) /\ Control(rest)
  BY DEF CInv, OnWire
<1>3. want \in Nat \ {0} /\ rest \in Nat \ {0} /\ want <= rest /\ (want = rest \/ close_connection)
  BY <1>1, <1>2, ConnectionAssumption DEF CInv, TypeOK, Control, Rests
<1>4. wire \in Seq(Units) /\ Tail(wire) \in Seq(Units)
  BY <1>1, FrontOfWire DEF CInv
<1>5. TypeOK'
  BY <1>1, <1>3, <1>4 DEF CInv, TypeOK, client, Units
<1>6. Stream(wire', written', unsent')
  BY <1>1, <1>4, StreamTail DEF CInv, OnWire, client
<1>7. rest - 1 \in Rests /\ Follows(wire', 0, serving', rest - 1, written', unsent')
  <2>1. rest - 1 \in Rests
    BY <1>3, ConnectionAssumption DEF Rests
  <2>2. Follows(Tail(wire), 0, serving, rest - 1, written, unsent)
    BY <1>1, <1>2, <1>3, <1>4, FollowsUnit
  <2> QED BY <1>1, <2>1, <2>2 DEF client
<1>8. Control(rest - 1)'
  BY <1>1, <1>2, <1>3 DEF Control, Reading
<1>9. OnWire'
  BY <1>1, <1>6, <1>7, <1>8 DEF CInv, OnWire, client
<1>10. InStep' /\ Closing'
  BY <1>1 DEF CInv, InStep, Closing, client
<1> QED BY <1>5, <1>9, <1>10 DEF CInv

LEMMA EndOfStreamStep == CInv /\ EndOfStream => CInv'
<1> SUFFICES ASSUME CInv, EndOfStream PROVE CInv'
  OBVIOUS
<1>1. /\ pc = "line" /\ gone /\ pc' = "closed"
      /\ UNCHANGED <<client, wire, serving, request, want, body_read, close_connection,
                     answers, ignored>>
  BY DEF EndOfStream
<1>2. TypeOK' /\ InStep' /\ Closing'
  BY <1>1 DEF CInv, TypeOK, InStep, Closing, client
<1>3. \A rest \in Rests : Control(rest)'
  BY <1>1 DEF Control, Reading
<1> QED BY <1>1, <1>2, <1>3 DEF CInv, OnWire, client, Between

LEMMA AnswerStep ==
  ASSUME CInv, Answer
  PROVE  CInv'
<1>1. /\ pc = "answering"
      /\ answers' = IF gone THEN answers ELSE Append(answers, serving)
      /\ ignored' = IF body_read \/ BodyUnits(request) = 0 THEN ignored
                    ELSE ignored \cup {serving}
      /\ pc' = IF close_connection THEN "closed" ELSE "line"
      /\ UNCHANGED <<client, wire, serving, request, want, body_read, close_connection>>
  BY DEF Answer
<1>2. PICK rest \in Rests : Follows(wire, 0, serving, rest, written, unsent) /\ Control(rest)
  BY DEF CInv, OnWire
<1>3. answers \in Seq(0..MaxRequests) /\ Len(answers) \in Nat /\ serving \in 0..MaxRequests
  BY LenProperties DEF CInv, TypeOK
<1>4. answers' \in Seq(0..MaxRequests)
  BY <1>1, <1>3, AppendProperties
<1>5. serving \in Numbers /\ serving \in Nat
  BY <1>1, WireType DEF CInv, OnWire, Between
<1>6. TypeOK'
  BY <1>1, <1>4, <1>5 DEF CInv, TypeOK, client
<1>7. Control(rest)'
  <2> SUFFICES ASSUME ~close_connection, rest # 0, ~(gone /\ wire = <<>>)
               PROVE  serving \in ignored'
    BY <1>1 DEF Control, Reading, client
  <2>1. ~Spent(rest)
    BY DEF Spent
  <2>2. ~body_read /\ BodyUnits(request) # 0
    BY <1>1, <1>2, <2>1 DEF Control
  <2> QED BY <1>1, <2>2
<1>8. OnWire'
  BY <1>1, <1>2, <1>7 DEF CInv, OnWire, client, Between, Reading
<1>9. InStep'
  <2> SUFFICES ASSUME ignored' = {}
               PROVE  /\ \A n \in 1..Len(answers') : answers'[n] = n
                      /\ gone \/ Len(answers') = serving
    BY <1>1 DEF InStep, client
  <2>1. ignored = {}
    BY <1>1
  <2>2. (\A n \in 1..Len(answers) : answers[n] = n) /\ (gone \/ Len(answers) = serving - 1)
    BY <1>1, <2>1 DEF CInv, InStep
  <2>3. CASE gone
    BY <1>1, <2>2, <2>3
  <2>4. CASE ~gone
    <3>1. /\ Len(answers') = Len(answers) + 1 /\ answers'[Len(answers) + 1] = serving
          /\ \A n \in 1..Len(answers) : answers'[n] = answers[n]
      BY <1>1, <1>3, <2>4, AppendProperties
    <3>2. ASSUME NEW n \in 1..Len(answers') PROVE answers'[n] = n
      BY <1>3, <1>5, <2>2, <2>4, <3>1
    <3> QED BY <1>3, <1>5, <2>2, <2>4, <3>1, <3>2
  <2> QED BY <2>3, <2>4
<1>10. Closing'
  BY <1>1 DEF CInv, Closing, client
<1> QED BY <1>6, <1>8, <1>9, <1>10 DEF CInv

-----------------------------------------------------------------------------

LEMMA InitCInv == Init => CInv
<1> SUFFICES ASSUME Init PROVE CInv
  OBVIOUS
<1>1. TypeOK
  <2>1. [to |-> "plain", length |-> 0] \in Requests
    BY ConnectionAssumption DEF Requests, Kinds
  <2>2. <<>> \in Seq(Heads \cup Bodies) /\ <<>> \in Seq(0..MaxRequests)
    BY EmptySeq
  <2>3. request \in Requests
    BY <2>1 DEF Init
  <2>4. wire \in Seq(Heads \cup Bodies) /\ answers \in Seq(0..MaxRequests)
    BY <2>2 DEF Init
  <2>5. /\ written \in 0..MaxRequests /\ unsent \in Nat
        /\ serving \in 0..MaxRequests /\ want \in Nat
    BY ConnectionAssumption DEF Init
  <2>6. /\ gone \in BOOLEAN /\ body_read \in BOOLEAN /\ close_connection \in BOOLEAN
        /\ ignored \subseteq Numbers
    BY DEF Init
  <2> QED BY <2>3, <2>4, <2>5, <2>6 DEF Init, TypeOK
<1>2. Len(wire) = 0 /\ wire = <<>> /\ answers = <<>> /\ pc = "line"
      /\ serving = 0 /\ written = 0 /\ unsent = 0 /\ close_connection = FALSE
  BY DEF Init
<1>3. Stream(wire, written, unsent)
  BY <1>2 DEF Stream
<1>4. 0 \in Rests /\ Follows(wire, 0, serving, 0, written, unsent) /\ Control(0)
  BY <1>2, ConnectionAssumption DEF Follows, Control, Rests, Reading
<1>5. OnWire
  BY <1>2, <1>3, <1>4 DEF OnWire, Between, Reading
<1>6. InStep /\ Closing
  BY <1>2 DEF InStep, Closing
<1> QED BY <1>1, <1>5, <1>6 DEF CInv

LEMMA StepCInv == CInv /\ [Next]_vars => CInv'
<1> SUFFICES ASSUME CInv, [Next]_vars PROVE CInv'
  OBVIOUS
<1>1. CASE Server
  BY <1>1, ReadLineStep, MisreadStep, EndOfStreamStep, RoutedStep, CheckLengthStep, ReadUnitStep,
     ReadOverStep, HandleStep, DrainUnreadStep, AnswerStep DEF Server
<1>2. CASE UNCHANGED vars
  <2>1. \A rest \in Rests : Control(rest) => Control(rest)'
    BY <1>2 DEF vars, Control, Spent
  <2>2. OnWire'
    BY <1>2, <2>1 DEF vars, CInv, OnWire
  <2>3. TypeOK' /\ InStep' /\ Closing'
    BY <1>2 DEF vars, CInv, TypeOK, InStep, Closing
  <2> QED BY <2>2, <2>3 DEF CInv
<1> QED BY <1>1, <1>2, WriteHeadStep, WriteBodyStep, HangUpStep DEF Next

THEOREM ConnectionInductive == Spec => []CInv
BY InitCInv, StepCInv, PTL DEF Spec

\* The body of a request never gets in front of the next request, and no
\* request's bytes are read for another.
THEOREM BodiesStayPut == Spec => []Framed
<1>1. CInv => Framed
  <2> SUFFICES ASSUME CInv PROVE Framed
    OBVIOUS
  <2>1. PICK rest \in Rests : Follows(wire, 0, serving, rest, written, unsent) /\ Control(rest)
    BY DEF CInv, OnWire
  <2>2. ASSUME wire # <<>>
        PROVE  /\ Head(wire).kind \in {"head", "body"}
               /\ Head(wire).kind = "head" => rest = 0
               /\ Head(wire).kind = "body" => rest > 0 /\ Head(wire).of = serving
    <3>1. Head(wire).kind \in {"head", "body"}
      BY <2>2, FrontOfWire, UnitKinds DEF CInv
    <3> QED BY <2>1, <2>2, <3>1, LineIsNext DEF CInv
  <2>3. pc = "line" /\ wire # <<>> /\ Head(wire).kind = "body" => Head(wire).of \in ignored
    BY <2>1, <2>2 DEF Control
  <2>4. pc \in Reading /\ want > 0 /\ wire # <<>> => Head(wire).kind = "body" /\ Head(wire).of = serving
    BY <2>1, <2>2, ConnectionAssumption DEF Control, CInv, TypeOK, Rests
  <2> QED BY <2>3, <2>4 DEF Framed
<1> QED BY <1>1, ConnectionInductive, PTL

\* The n-th answer is the one to the n-th request.
THEOREM AnswersInOrder == Spec => []AnswersMatch
<1>1. CInv => AnswersMatch
  BY DEF CInv, InStep, AnswersMatch
<1> QED BY <1>1, ConnectionInductive, PTL

\* Nobody is hung up on who said how much he would write and kept within
\* what the hub is ready to swallow.
THEOREM WritersHeard == Spec => []NoHangUpOnWriter
<1>1. CInv => NoHangUpOnWriter
  BY DEF CInv, Closing, NoHangUpOnWriter
<1> QED BY <1>1, ConnectionInductive, PTL

=============================================================================
