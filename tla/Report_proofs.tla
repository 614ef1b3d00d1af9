---------------------------- MODULE Report_proofs ----------------------------
(***************************************************************************)
(* What a report says is so: proofs about the modules a run's numbers come *)
(* from, in the order in which the numbers are made.                       *)
(***************************************************************************)
EXTENDS Timing, Workload, BinaryDigest, Inventory, RunSetup, Placement,
        Induction, SequenceTheorems, TLAPS

-----------------------------------------------------------------------------
(***************************************************************************)
(* A rate (Timing). While the loop runs, the first reading was taken when  *)
(* the counted work and the delays had not been done yet, and the latest   *)
(* reading is of now.                                                      *)
(***************************************************************************)

InTheLoop ==
  LET took == iters * machine.cost + held IN
  step = "loop" =>
    /\ clock - took \in Nat
    /\ t0 = Reading(clock - took)
    /\ t = Reading(clock)
    /\ end = t0 + Seconds

RepsLeft == step # "done" => rep < Reps

RateInv == TimingTypeOK /\ InTheLoop /\ RepsLeft /\ BestIsTrue /\ OvershootBounded

LEMMA ModBounds ==
  ASSUME NEW x \in Nat, NEW d \in Nat \ {0}
  PROVE  /\ x % d \in 0..(d - 1)
         /\ x - (x % d) \in Nat
<1>1. x = d * (x \div d) + (x % d) /\ x % d \in 0..(d - 1)
  OBVIOUS
<1>2. x \div d \in Nat
  OBVIOUS
<1>3. d * (x \div d) \in Nat
  BY <1>2
<1> QED BY <1>1, <1>3

\* A reading is less than a tick behind the time it is of.
LEMMA ReadingBounds ==
  ASSUME TimingTypeOK, NEW x \in Nat
  PROVE  /\ Reading(x) \in Nat
         /\ Reading(x) <= x
         /\ x < Reading(x) + machine.tick
<1>1. machine.tick \in Nat \ {0}
  BY TimingAssumption DEF TimingTypeOK
<1>2. x % machine.tick \in 0..(machine.tick - 1) /\ x - (x % machine.tick) \in Nat
  BY <1>1, ModBounds
<1> QED BY <1>1, <1>2 DEF Reading

LEMMA MachineType ==
  ASSUME machine \in Machines
  PROVE  machine.cost \in Nat \ {0} /\ machine.first \in Nat /\ machine.tick \in Nat \ {0}
BY TimingAssumption

LEMMA ProductType ==
  ASSUME NEW x \in Nat, NEW y \in Nat
  PROVE  x * y \in Nat
OBVIOUS

\* A product of a number no smaller, with a factor that is not negative.
LEMMA ProductOrder ==
  ASSUME NEW x \in Int, NEW y \in Int, x <= y, NEW k \in Nat
  PROVE  x * k <= y * k
<1>1. (y - x) * k \in Nat
  BY ProductType
<1>2. (y - x) * k = y * k - x * k
  OBVIOUS
<1> QED BY <1>1, <1>2

LEMMA ProductCancel ==
  ASSUME NEW x \in Int, NEW y \in Int, NEW k \in Nat \ {0}, x * k <= y * k
  PROVE  x <= y
<1>1. SUFFICES ASSUME y + 1 <= x PROVE FALSE
  OBVIOUS
<1>2. (y + 1) * k <= x * k
  BY <1>1, ProductOrder
<1>3. (y + 1) * k = y * k + k
  OBVIOUS
<1> QED BY <1>2, <1>3

\* Of two rates the better one is above a bound when the other one is.
LEMMA BetterRate ==
  ASSUME NEW i \in Nat, NEW e \in Nat \ {0}, NEW j \in Nat, NEW d \in Nat \ {0},
         NEW c \in Nat, NEW b \in Int,
         j * e <= i * d, j * c >= d * b
  PROVE  i * c >= e * b
<1>1. (j * e) * c <= (i * d) * c
  BY ProductType, ProductOrder
<1>2. (d * b) * e <= (j * c) * e
  BY ProductType, ProductOrder
<1>3. (e * b) * d = (d * b) * e
  OBVIOUS
<1>4. (j * c) * e = (j * e) * c
  OBVIOUS
<1>5. (i * d) * c = (i * c) * d
  OBVIOUS
<1>6. (e * b) * d <= (i * c) * d
  BY <1>1, <1>2, <1>3, <1>4, <1>5
<1> QED BY <1>6, ProductType, ProductCancel

\* What was counted took the time between the two readings, to within a tick.
LEMMA CountedFromReadings ==
  ASSUME TimingTypeOK, InTheLoop
  PROVE  CountedIsTimed
<1> SUFFICES ASSUME step = "loop" PROVE CountedIsTimed
  BY DEF CountedIsTimed
<1> DEFINE took == iters * machine.cost + held
<1>1. took \in Nat /\ clock \in Nat /\ machine.tick \in Nat
  BY MachineType, ProductType DEF TimingTypeOK
<1>2. clock - took \in Nat /\ t0 = Reading(clock - took) /\ t = Reading(clock)
  BY DEF InTheLoop
<1>3. /\ t0 \in Nat /\ t0 <= clock - took /\ clock - took < t0 + machine.tick
      /\ t \in Nat /\ t <= clock /\ clock < t + machine.tick
  BY <1>1, <1>2, ReadingBounds
<1>4. t - t0 < took + machine.tick /\ took < t - t0 + machine.tick
  <2> HIDE DEF took
  <2> QED BY <1>1, <1>3
<1> QED BY <1>4 DEF CountedIsTimed

LEMMA NextBatchType ==
  ASSUME batch \in Nat \ {0}, NEW dt \in Int
  PROVE  NextBatch(dt) \in Nat \ {0}
<1>1. CASE dt < TargetBatch /\ batch < BatchCap
  BY <1>1 DEF NextBatch
<1>2. CASE ~(dt < TargetBatch /\ batch < BatchCap) /\ dt > MaxBatch /\ batch > 1
  <2>1. batch \div 2 \in Nat \ {0}
    BY <1>2
  <2> QED BY <1>2, <2>1 DEF NextBatch
<1>3. CASE ~(dt < TargetBatch /\ batch < BatchCap) /\ ~(dt > MaxBatch /\ batch > 1)
  BY <1>3 DEF NextBatch
<1> QED BY <1>1, <1>2, <1>3

LEMMA FirstState ==
  ASSUME TimingInit
  PROVE  RateInv
<1>1. TimingTypeOK
  <2>1. Reps \in Nat /\ MaxDelays \in Nat
    BY TimingAssumption
  <2>2. best \in [iters: Nat, elapsed: Nat \ {0}]
    BY DEF TimingInit
  <2>3. clean \in BOOLEAN
    BY DEF TimingInit
  <2> QED BY <2>1, <2>2, <2>3 DEF TimingInit, TimingTypeOK
<1>2. InTheLoop /\ RepsLeft /\ OvershootBounded
  <2>1. Reps \in Nat \ {0}
    BY TimingAssumption
  <2> QED BY <2>1 DEF TimingInit, InTheLoop, RepsLeft, OvershootBounded
<1>3. BestIsTrue
  BY MachineType DEF TimingInit, BestIsTrue
<1> QED BY <1>1, <1>2, <1>3 DEF RateInv

\* The steps outside the loop leave the best rate alone.
LEMMA BestKept ==
  ASSUME BestIsTrue, UNCHANGED <<machine, best, clean>>
  PROVE  BestIsTrue'
BY DEF BestIsTrue

LEMMA EnterStep ==
  ASSUME RateInv, Enter
  PROVE  RateInv'
<1> USE DEF RateInv, Enter
<1>1. Reading(clock) \in Nat
  BY ReadingBounds DEF TimingTypeOK
<1>2. TimingTypeOK'
  BY <1>1, TimingAssumption DEF TimingTypeOK
<1>3. InTheLoop' /\ RepsLeft' /\ OvershootBounded'
  BY DEF InTheLoop, RepsLeft, OvershootBounded
<1> QED BY <1>2, <1>3, BestKept

LEMMA SpinStep ==
  ASSUME RateInv, Spin
  PROVE  RateInv'
<1> USE DEF RateInv, Spin
<1>1. TimingTypeOK'
  BY MachineType DEF TimingTypeOK
<1>2. InTheLoop' /\ RepsLeft' /\ OvershootBounded'
  BY DEF InTheLoop, RepsLeft, OvershootBounded
<1> QED BY <1>1, <1>2, BestKept

LEMMA WarmStep ==
  ASSUME RateInv, Warm
  PROVE  RateInv'
<1> USE DEF RateInv, Warm
<1>1. TimingTypeOK'
  BY DEF TimingTypeOK
<1>2. InTheLoop' /\ RepsLeft' /\ OvershootBounded'
  BY DEF InTheLoop, RepsLeft, OvershootBounded
<1> QED BY <1>1, <1>2, BestKept

LEMMA BeginStep ==
  ASSUME RateInv, Begin
  PROVE  RateInv'
<1> USE DEF RateInv, Begin
<1>1. machine.tick \in Nat \ {0} /\ machine.cost \in Nat \ {0} /\ machine.first \in Nat
      /\ Seconds \in Nat
  BY MachineType, TimingAssumption DEF TimingTypeOK
<1>2. clock' \in Nat
  BY <1>1 DEF TimingTypeOK
<1>3. Reading(clock') \in Nat /\ machine' = machine
  BY <1>2, ReadingBounds
<1>4. TimingTypeOK'
  BY <1>1, <1>2, <1>3 DEF TimingTypeOK
<1>5. InTheLoop'
  <2>1. iters' * machine'.cost + held' = 0
    BY <1>1
  <2>2. clock' - 0 = clock'
    BY <1>2
  <2>3. t0' = Reading(clock') /\ t' = Reading(clock') /\ end' = t0' + Seconds
    OBVIOUS
  <2> QED BY <2>1, <2>2, <2>3, <1>2, <1>3 DEF InTheLoop, Reading
<1>6. OvershootBounded'
  BY <1>1 DEF OvershootBounded
<1>7. RepsLeft'
  BY DEF RepsLeft
<1> QED BY <1>4, <1>5, <1>6, <1>7, BestKept

\* One more batch: what it took is on the clock and in the count.
LEMMA BatchStep ==
  ASSUME RateInv, Batch
  PROVE  RateInv'
<1> USE DEF RateInv
<1>0. PICK delay \in Delays \cup {0} :
        /\ delay > 0 => delayed < MaxDelays
        /\ clock' = clock + batch * machine.cost + delay
        /\ held' = held + delay
        /\ delayed' = IF delay > 0 THEN delayed + 1 ELSE delayed
  BY DEF Batch
<1>1. /\ step = "loop" /\ iters' = iters + batch /\ t' = Reading(clock')
      /\ batch' = NextBatch(t' - t)
      /\ machine' = machine /\ step' = step /\ end' = end /\ t0' = t0
      /\ rep' = rep /\ best' = best /\ clean' = clean
  BY DEF Batch
<1>2. machine.tick \in Nat \ {0} /\ machine.cost \in Nat \ {0} /\ machine.first \in Nat
      /\ Seconds \in Nat /\ delay \in Nat /\ MaxDelays \in Nat
  BY MachineType, TimingAssumption DEF TimingTypeOK
<1>3. /\ clock \in Nat /\ batch \in Nat \ {0} /\ iters \in Nat /\ held \in Nat
      /\ delayed \in 0..MaxDelays /\ t \in Nat
  BY DEF TimingTypeOK
<1> DEFINE work == batch * machine.cost
           took == iters * machine.cost + held
<1>4. work \in Nat /\ took \in Nat
  BY <1>2, <1>3, ProductType
<1>5. clock' \in Nat
  BY <1>0, <1>2, <1>3, <1>4
<1>6. Reading(clock') \in Nat /\ Reading(clock') <= clock' /\ clock' < Reading(clock') + machine.tick
  BY <1>5, ReadingBounds
<1>7. t = Reading(clock) /\ t <= clock /\ clock < t + machine.tick
  BY <1>1, <1>3, ReadingBounds DEF InTheLoop
<1>8. TimingTypeOK'
  <2>1. batch' \in Nat \ {0}
    BY <1>1, <1>3, <1>6, NextBatchType
  <2>2. delayed' \in 0..MaxDelays /\ held' \in Nat /\ iters' \in Nat
    BY <1>0, <1>1, <1>2, <1>3
  <2> QED BY <1>1, <1>5, <1>6, <2>1, <2>2 DEF TimingTypeOK
<1>9. InTheLoop'
  <2>1. iters' * machine'.cost + held' = took + work + delay
    <3>1. (iters + batch) * machine.cost = iters * machine.cost + batch * machine.cost
      BY <1>2, <1>3
    <3>2. iters * machine.cost \in Nat
      BY <1>2, <1>3, ProductType
    <3> QED BY <1>0, <1>1, <1>2, <1>3, <1>4, <3>1, <3>2
  <2>2. clock' - (took + work + delay) = clock - took
    <3>1. clock' = clock + work + delay
      BY <1>0
    <3> HIDE DEF work, took
    <3> QED BY <3>1, <1>2, <1>3, <1>4
  <2>3. clock - took \in Nat /\ t0 = Reading(clock - took) /\ end = t0 + Seconds
    BY <1>1 DEF InTheLoop
  <2>4. machine'.tick = machine.tick
    BY <1>1
  <2> HIDE DEF took, work
  <2> QED BY <1>1, <2>1, <2>2, <2>3, <2>4 DEF InTheLoop, Reading
<1>10. OvershootBounded'
  <2>1. t' - t > work - machine.tick /\ t' - t \in Int
    <3>1. clock' = clock + work + delay
      BY <1>0
    <3> HIDE DEF work
    <3> QED BY <3>1, <1>1, <1>2, <1>3, <1>4, <1>6, <1>7
  <2> DEFINE dt == t' - t
             limit == 2 * (TargetBatch + machine.tick)
  <2>2. dt \in Int /\ limit \in Nat /\ TargetBatch \in Nat
    BY <1>2, <2>1, TimingAssumption
  <2>3. batch <= machine.first \/ batch = 1 \/ work < limit
    BY <1>1 DEF OvershootBounded
  <2>4. CASE dt < TargetBatch /\ batch < BatchCap
    <3>1. batch' = batch * 2
      BY <1>1, <2>4 DEF NextBatch
    <3>2. batch' * machine.cost = 2 * work
      BY <3>1, <1>2, <1>3
    <3>3. 2 * work < limit
      <4>1. work < TargetBatch + machine.tick
        BY <2>1, <2>2, <2>4, <1>2, <1>4
      <4> HIDE DEF work
      <4> QED BY <4>1, <1>2, <1>4, <2>2
    <3> QED BY <1>1, <3>2, <3>3 DEF OvershootBounded
  <2>5. CASE ~(dt < TargetBatch /\ batch < BatchCap) /\ dt > MaxBatch /\ batch > 1
    <3>1. batch' = batch \div 2
      BY <1>1, <2>5 DEF NextBatch
    <3>2. batch' <= batch /\ batch' \in Nat
      BY <3>1, <1>3
    <3>3. batch' * machine.cost <= work
      BY <3>2, <1>2, <1>3, ProductOrder
    <3>4. batch' <= machine.first \/ batch' * machine.cost < limit
      <4>1. batch # 1
        BY <2>5, <1>3
      <4>2. CASE batch <= machine.first
        BY <4>2, <3>2, <1>2, <1>3
      <4>3. CASE work < limit
        <5>1. batch' * machine.cost \in Nat
          BY <3>2, <1>2, ProductType
        <5> HIDE DEF work, limit
        <5> QED BY <5>1, <4>3, <3>3, <2>2, <1>4
      <4> QED BY <4>1, <4>2, <4>3, <2>3
    <3> QED BY <1>1, <3>4 DEF OvershootBounded
  <2>6. CASE ~(dt < TargetBatch /\ batch < BatchCap) /\ ~(dt > MaxBatch /\ batch > 1)
    <3>1. batch' = batch
      BY <1>1, <2>6 DEF NextBatch
    <3> QED BY <1>1, <2>3, <3>1 DEF OvershootBounded
  <2> QED BY <2>4, <2>5, <2>6
<1>11. RepsLeft'
  BY <1>1 DEF RepsLeft
<1> QED BY <1>1, <1>8, <1>9, <1>10, <1>11, BestKept

\* The end of a repetition: what was counted took what the clock showed, and
\* the best of the rates is still within the clock's resolution of the true one.
LEMMA FinishStep ==
  ASSUME RateInv, Finish
  PROVE  RateInv'
<1> USE DEF RateInv
<1>1. /\ step = "loop" /\ t >= end
      /\ best' = KeepBest(best, [iters |-> iters, elapsed |-> Elapsed])
      /\ rep' = rep + 1
      /\ step' = IF rep' < Reps THEN "begin" ELSE "done"
      /\ clean' = (clean \/ held = 0)
      /\ UNCHANGED <<machine, clock, end, t0, t, batch, iters, held, delayed>>
  BY DEF Finish
<1>2. machine.tick \in Nat \ {0} /\ machine.cost \in Nat \ {0} /\ Seconds \in Nat \ {0}
  BY MachineType, TimingAssumption DEF TimingTypeOK
<1>3. iters \in Nat /\ held \in Nat /\ t \in Nat /\ t0 \in Nat /\ end \in Nat /\ clean \in BOOLEAN
  BY DEF TimingTypeOK
<1> DEFINE c == machine.cost
           blur == machine.tick - 1
           limit == Seconds - blur
           e == t - t0
<1>4. e \in Nat \ {0} /\ e >= Seconds /\ Elapsed = e
  <2>1. end = t0 + Seconds
    BY <1>1 DEF InTheLoop
  <2> QED BY <1>1, <1>2, <1>3, <2>1 DEF Elapsed
<1>5. PICK oi \in Nat, oe \in Nat \ {0} : best = [iters |-> oi, elapsed |-> oe]
  BY DEF TimingTypeOK
<1>6. /\ iters * oe > oi * e => best' = [iters |-> iters, elapsed |-> e]
      /\ ~(iters * oe > oi * e) => best' = best
  BY <1>1, <1>4, <1>5 DEF KeepBest
<1>7. /\ iters * c <= e + blur
      /\ held = 0 => (iters * c) * Seconds >= e * limit
  <2>1. CountedIsTimed
    BY CountedFromReadings
  <2>2. /\ e < iters * c + held + machine.tick
        /\ iters * c + held < e + machine.tick
    BY <1>1, <2>1 DEF CountedIsTimed
  <2>3. iters * c \in Nat
    BY <1>2, <1>3, ProductType
  <2>4. iters * c <= e + blur
    BY <1>2, <1>3, <1>4, <2>2, <2>3
  <2>5. ASSUME held = 0 PROVE (iters * c) * Seconds >= e * limit
    <3>1. e - blur <= iters * c
      BY <1>2, <1>4, <2>2, <2>3, <2>5
    <3>2. (e - blur) * Seconds <= (iters * c) * Seconds
      BY <3>1, <1>2, <1>4, <2>3, ProductOrder
    <3>3. (e - blur) * Seconds = e * Seconds - blur * Seconds
      BY <1>2, <1>4
    <3>4. Seconds * blur <= e * blur
      BY <1>2, <1>4, ProductOrder
    <3>5. e * limit = e * Seconds - e * blur
      BY <1>2, <1>4
    <3> DEFINE p == e * Seconds  q == Seconds * blur  r == e * blur  w == (iters * c) * Seconds
    <3>6. p \in Nat /\ q \in Nat /\ r \in Nat /\ w \in Nat
      BY <1>2, <1>4, <2>3, ProductType
    <3>7. blur * Seconds = q
      BY <1>2
    <3>8. p - q <= w /\ q <= r /\ e * limit = p - r
      BY <3>2, <3>3, <3>4, <3>5, <3>7
    <3>9. p - r <= w
      <4> HIDE DEF p, q, r, w, limit, e
      <4> QED BY <3>6, <3>8
    <3> QED BY <3>8, <3>9
  <2> QED BY <2>4, <2>5
<1>8. /\ oi * c <= oe + blur
      /\ clean => (oi * c) * Seconds >= oe * limit
  BY <1>5 DEF BestIsTrue
<1>9. BestIsTrue'
  <2>1. c * Seconds \in Nat /\ limit \in Int /\ (iters * c) * Seconds = iters * (c * Seconds)
        /\ (oi * c) * Seconds = oi * (c * Seconds)
    BY <1>2, <1>3, <1>5, ProductType
  <2>2. iters * oe \in Nat /\ oi * e \in Nat
    BY <1>3, <1>4, <1>5, ProductType
  <2>3. machine' = machine
    BY <1>1
  <2>4. CASE iters * oe > oi * e
    <3>1. ASSUME clean' PROVE (iters * c) * Seconds >= e * limit
      <4>1. CASE held = 0
        BY <4>1, <1>7
      <4>2. CASE clean
        <5>1. oi * (c * Seconds) >= oe * limit
          BY <4>2, <1>8, <2>1
        <5>2. oi * e <= iters * oe
          BY <2>2, <2>4
        <5>3. iters * (c * Seconds) >= e * limit
          BY <5>1, <5>2, <2>1, <1>3, <1>4, <1>5, BetterRate
        <5> QED BY <5>3, <2>1
      <4> QED BY <3>1, <4>1, <4>2, <1>1
    <3>2. best'.iters = iters /\ best'.elapsed = e
      BY <1>6, <2>4
    <3> QED BY <3>1, <3>2, <2>3, <1>7 DEF BestIsTrue
  <2>5. CASE ~(iters * oe > oi * e)
    <3>1. ASSUME clean' PROVE (oi * c) * Seconds >= oe * limit
      <4>1. CASE clean
        BY <4>1, <1>8
      <4>2. CASE held = 0
        <5>1. iters * (c * Seconds) >= e * limit
          BY <4>2, <1>7, <2>1
        <5>2. iters * oe <= oi * e
          BY <2>2, <2>5
        <5>3. oi * (c * Seconds) >= oe * limit
          BY <5>1, <5>2, <2>1, <1>3, <1>4, <1>5, BetterRate
        <5> QED BY <5>3, <2>1
      <4> QED BY <3>1, <4>1, <4>2, <1>1
    <3>2. best'.iters = oi /\ best'.elapsed = oe
      BY <1>5, <1>6, <2>5
    <3> QED BY <3>1, <3>2, <2>3, <1>8 DEF BestIsTrue
  <2> QED BY <2>4, <2>5
<1>10. TimingTypeOK'
  <2>1. best' \in [iters: Nat, elapsed: Nat \ {0}]
    BY <1>3, <1>4, <1>5, <1>6
  <2>2. rep' \in 0..Reps /\ step' \in {"begin", "done"}
    <3>1. rep < Reps
      BY <1>1 DEF RepsLeft
    <3>2. Reps \in Nat
      BY TimingAssumption
    <3> QED BY <1>1, <3>1, <3>2 DEF TimingTypeOK
  <2>3. clean' \in BOOLEAN
    BY <1>1, <1>3
  <2> QED BY <1>1, <2>1, <2>2, <2>3 DEF TimingTypeOK
<1>11. InTheLoop' /\ RepsLeft' /\ OvershootBounded'
  <2>1. step' # "loop" /\ (step' # "done" => rep' < Reps)
    BY <1>1
  <2> QED BY <2>1 DEF InTheLoop, RepsLeft, OvershootBounded
<1> QED BY <1>9, <1>10, <1>11

LEMMA RateNext ==
  ASSUME RateInv, [TimingNext]_timing
  PROVE  RateInv'
<1>1. CASE UNCHANGED timing
  <2> USE DEF RateInv, timing
  <2>1. TimingTypeOK'
    BY <1>1 DEF TimingTypeOK
  <2>2. InTheLoop' /\ RepsLeft' /\ OvershootBounded'
    BY <1>1 DEF InTheLoop, RepsLeft, OvershootBounded, Reading
  <2> QED BY <1>1, <2>1, <2>2, BestKept
<1> QED BY <1>1, EnterStep, SpinStep, WarmStep, BeginStep, BatchStep, FinishStep DEF TimingNext

\* Whatever the machine, its clock and what else runs on it: what is reported
\* is what was done, to within the clock's resolution, and the overshoot is
\* bounded (run_timed and keep_best_rate).
THEOREM RateIsHonest == TimingSpec => []RateHonest
<1>1. TimingInit => RateInv
  BY FirstState
<1>2. RateInv /\ [TimingNext]_timing => RateInv'
  BY RateNext
<1>3. RateInv => RateHonest
  BY CountedFromReadings DEF RateInv, RateHonest
<1> QED BY <1>1, <1>2, <1>3, PTL DEF TimingSpec

-----------------------------------------------------------------------------
(***************************************************************************)
(* The digest (BinaryDigest). What the compression function was given,     *)
(* what is in the buffer and what is still to be taken are, one after the  *)
(* other, what was read of the file, and then its padded message.          *)
(***************************************************************************)

\* Bytes of a file or of a length.
Bytes == (0..255) \cup UNION {{LengthField(n)[i] : i \in 1..LenSize} : n \in Nat}

Digests == Seq(Bytes) \cup {NoDigest}

Zeros(n) == [i \in 1..n |-> 0]
ZerosNeeded(n) == (2 * Block - LenSize - 1 - (n % Block)) % Block

Message == hashed \o buf \o rest

DigestTypeOK ==
  /\ running \in Seq(Bytes) /\ binary \in Seq(Bytes) /\ file \in Seq(Bytes)
  /\ hashed \in Seq(Bytes) /\ buf \in Seq(Bytes) /\ rest \in Seq(Bytes)
  /\ exe \in BOOLEAN /\ failed \in BOOLEAN
  /\ at \in 0..Len(file)
  /\ hashing \in {"idle", "read", "zeros", "length", "over"}
  /\ hex \in Digests /\ sent \in Seq(Digests)

WholeBlocks == Len(buf) < Block /\ \E k \in Nat : Len(hashed) = Block * k

MessageInv ==
  /\ hashing = "idle" => hashed = <<>> /\ buf = <<>> /\ at = 0 /\ ~failed
  /\ hashing = "read" => Message = SubSeq(file, 1, at)
  /\ hashing = "zeros" =>
       \E z \in 0..ZerosNeeded(Len(file)) : Message = file \o <<128>> \o Zeros(z)
  /\ hashing = "length" => Message = Padded(file)
  /\ hashing \in {"zeros", "length"} => ~failed /\ at = Len(file)
  /\ hashing # "over" => hex = NoDigest /\ sent = <<>>
  /\ hashing \in {"idle", "over"} => rest = <<>>
  /\ hashing # "idle" /\ exe => file = running

DigestInv == DigestTypeOK /\ WholeBlocks /\ MessageInv /\ DigestNamesTheBinary

LEMMA SizesType ==
  /\ Block \in Nat \ {0} /\ LenSize \in Nat /\ LenSize < Block /\ LenSize > 0
  /\ Chunk \in Nat \ {0}
BY DigestAssumption

LEMMA Quotient ==
  ASSUME NEW x \in Nat
  PROVE  \E k \in Nat : x = Block * k + (x % Block) /\ x % Block \in 0..(Block - 1)
<1>1. Block \in Nat \ {0}
  BY SizesType
<1>2. x = Block * (x \div Block) + (x % Block) /\ x % Block \in 0..(Block - 1)
  BY <1>1
<1>3. x \div Block \in Nat
  BY <1>1
<1> QED BY <1>2, <1>3

\* How far apart two multiples of the block size can be.
LEMMA NearMultiples ==
  ASSUME NEW j \in Int, NEW k \in Int, NEW d \in Int,
         Block * j = Block * k + d, -Block < d, d < 2 * Block
  PROVE  d = 0 \/ d = Block
<1>1. Block \in Nat \ {0}
  BY SizesType
<1>2. (j - k) * Block = d
  BY <1>1
<1>3. CASE j - k <= -1
  <2>1. (j - k) * Block <= (-1) * Block
    BY <1>1, <1>3, ProductOrder
  <2> QED BY <1>1, <1>2, <2>1
<1>4. CASE j - k >= 2
  <2>1. 2 * Block <= (j - k) * Block
    BY <1>1, <1>4, ProductOrder
  <2> QED BY <1>1, <1>2, <2>1
<1>5. CASE j - k = 0
  BY <1>1, <1>2, <1>5
<1>6. CASE j - k = 1
  BY <1>1, <1>2, <1>6
<1> QED BY <1>3, <1>4, <1>5, <1>6

LEMMA ZerosNeededValue ==
  ASSUME NEW n \in Nat
  PROVE  \E s \in {Block, 2 * Block} :
           /\ ZerosNeeded(n) = s - LenSize - 1 - (n % Block)
           /\ ZerosNeeded(n) \in 0..(Block - 1)
<1>1. Block \in Nat \ {0} /\ LenSize \in Nat /\ LenSize < Block /\ LenSize > 0
  BY SizesType
<1>2. n % Block \in 0..(Block - 1)
  BY Quotient
<1> DEFINE v == 2 * Block - LenSize - 1 - (n % Block)
<1>3. v \in 0..(2 * Block - 1)
  BY <1>1, <1>2
<1>4. ZerosNeeded(n) = v % Block
  BY DEF ZerosNeeded
<1>5. PICK k \in Nat : v = Block * k + (v % Block) /\ v % Block \in 0..(Block - 1)
  BY <1>3, Quotient
<1> DEFINE w == v % Block
<1>8. v = Block * k + w /\ w \in 0..(Block - 1)
  BY <1>5
<1>6. v - w = 0 \/ v - w = Block
  <2>1. Block * k = Block * 0 + (v - w)
    <3>1. Block * k \in Nat
      BY <1>1
    <3> HIDE DEF v, w
    <3> QED BY <3>1, <1>1, <1>3, <1>8
  <2>2. v - w \in Int /\ -Block < v - w /\ v - w < 2 * Block
    <3> HIDE DEF v, w
    <3> QED BY <1>1, <1>3, <1>8
  <2> HIDE DEF v, w
  <2> QED BY <2>1, <2>2, NearMultiples
<1>7. w = 2 * Block - LenSize - 1 - (n % Block) \/ w = Block - LenSize - 1 - (n % Block)
  <2>1. w \in Int
    BY <1>5
  <2>2. v = 2 * Block - LenSize - 1 - (n % Block)
    OBVIOUS
  <2> HIDE DEF v, w
  <2> QED BY <1>1, <1>2, <1>3, <1>6, <2>1, <2>2
<1> QED BY <1>4, <1>5, <1>7

\* Zeros are added just until the length fits.
LEMMA RoomForTheLength ==
  ASSUME NEW n \in Nat, NEW z \in 0..ZerosNeeded(n), NEW l \in 0..(Block - 1), NEW k \in Nat,
         Block * k + l = n + 1 + z
  PROVE  l = Block - LenSize <=> z = ZerosNeeded(n)
<1>1. Block \in Nat \ {0} /\ LenSize \in Nat /\ LenSize < Block /\ LenSize > 0
  BY SizesType
<1>2. PICK q \in Nat : n = Block * q + (n % Block) /\ n % Block \in 0..(Block - 1)
  BY Quotient
<1>3. PICK s \in {Block, 2 * Block} :
        /\ ZerosNeeded(n) = s - LenSize - 1 - (n % Block)
        /\ ZerosNeeded(n) \in 0..(Block - 1)
  BY ZerosNeededValue
<1> DEFINE r == n % Block
           d == r + 1 + z - l
<1>4. d = 0 \/ d = Block
  <2>1. d \in Int /\ -Block < d /\ d < 2 * Block
    BY <1>1, <1>2, <1>3
  <2>2. Block * k \in Nat /\ Block * q \in Nat
    BY <1>1
  <2>3. Block * k = Block * q + d
    BY <1>1, <1>2, <1>3, <2>2
  <2> HIDE DEF d
  <2> QED BY <2>1, <2>3, NearMultiples
<1>5. r + 1 + z = l \/ r + 1 + z = l + Block
  BY <1>1, <1>2, <1>3, <1>4
<1>6. z \in Nat /\ z < Block /\ r \in Nat /\ r < Block
  BY <1>1, <1>2, <1>3
<1> HIDE DEF r
<1>7. ZerosNeeded(n) = s - LenSize - 1 - r
  BY <1>3 DEF r
<1> QED BY <1>1, <1>3, <1>5, <1>6, <1>7

LEMMA ByteSequences ==
  /\ Binaries \subseteq Seq(Bytes)
  /\ <<0>> \in Seq(Bytes) /\ <<128>> \in Seq(Bytes) /\ <<>> \in Seq(Bytes)
  /\ \A n \in Nat : Zeros(n) \in Seq(Bytes) /\ Len(Zeros(n)) = n
  /\ \A n \in Nat : LengthField(n) \in Seq(Bytes) /\ Len(LengthField(n)) = LenSize
<1>1. 0..255 \subseteq Bytes /\ 0 \in Bytes /\ 128 \in Bytes
  BY DEF Bytes
<1>2. Binaries \subseteq Seq(Bytes)
  BY <1>1, DigestAssumption, SeqMonotonic
<1>3. <<0>> \in Seq(Bytes) /\ <<128>> \in Seq(Bytes) /\ <<>> \in Seq(Bytes)
  BY <1>1
<1>4. ASSUME NEW n \in Nat PROVE Zeros(n) \in Seq(Bytes) /\ Len(Zeros(n)) = n
  BY <1>1 DEF Zeros
<1>5. ASSUME NEW n \in Nat PROVE LengthField(n) \in Seq(Bytes) /\ Len(LengthField(n)) = LenSize
  <2>1. \A i \in 1..LenSize : LengthField(n)[i] \in Bytes
    BY SMTT(30) DEF Bytes
  <2>2. LengthField(n) = [i \in 1..LenSize |-> LengthField(n)[i]]
    BY DEF LengthField
  <2>3. LengthField(n) \in [1..LenSize -> Bytes]
    BY <2>1, <2>2
  <2>4. LenSize \in Nat
    BY SizesType
  <2> QED BY <2>3, <2>4
<1> QED BY <1>2, <1>3, <1>4, <1>5

LEMMA JoinBytes ==
  \A r, s, u \in Seq(Bytes) : (r \o s) \o u = r \o (s \o u)
BY ConcatAssociative

LEMMA OneMoreZero ==
  ASSUME NEW n \in Nat
  PROVE  Zeros(n) \o <<0>> = Zeros(n + 1)
<1>1. Zeros(n) \in Seq(Bytes) /\ Zeros(n + 1) \in Seq(Bytes) /\ <<0>> \in Seq(Bytes)
      /\ Len(Zeros(n)) = n /\ Len(Zeros(n + 1)) = n + 1
  BY ByteSequences
<1>2. Zeros(n) \o <<0>> \in Seq(Bytes) /\ Len(Zeros(n) \o <<0>>) = n + 1
      /\ \A i \in 1..(n + 1) : (Zeros(n) \o <<0>>)[i] = IF i <= n THEN Zeros(n)[i] ELSE <<0>>[i - n]
  BY <1>1, ConcatProperties
<1>3. ASSUME NEW i \in 1..(n + 1) PROVE (Zeros(n) \o <<0>>)[i] = Zeros(n + 1)[i]
  BY <1>2 DEF Zeros
<1> QED BY <1>1, <1>2, <1>3, SeqEqual

\* A padded message is whole blocks.
LEMMA PaddedFills ==
  ASSUME NEW bytes \in Seq(Bytes)
  PROVE  /\ Padded(bytes) \in Seq(Bytes)
         /\ \E k \in Nat : Len(Padded(bytes)) = Block * k
<1> DEFINE n == Len(bytes)
           z == ZerosNeeded(n)
           front == bytes \o <<128>> \o Zeros(z)
<1>1. Block \in Nat \ {0} /\ LenSize \in Nat
  BY SizesType
<1>2. n \in Nat
  OBVIOUS
<1>3. PICK s \in {Block, 2 * Block} :
        z = s - LenSize - 1 - (n % Block) /\ z \in 0..(Block - 1)
  BY <1>2, ZerosNeededValue
<1>4. z \in Nat
  BY <1>1, <1>3
<1>5. bytes \o <<128>> \in Seq(Bytes) /\ Len(bytes \o <<128>>) = n + 1
  BY ByteSequences, ConcatProperties
<1>6. front \in Seq(Bytes) /\ Len(front) = n + 1 + z
  <2>1. Zeros(z) \in Seq(Bytes) /\ Len(Zeros(z)) = z
    BY <1>4, ByteSequences
  <2> HIDE DEF z, n
  <2> QED BY <1>5, <2>1, ConcatProperties
<1>7. Padded(bytes) = front \o LengthField(n)
  BY DEF Padded, ZerosNeeded, Zeros
<1>8. Padded(bytes) \in Seq(Bytes) /\ Len(Padded(bytes)) = n + 1 + z + LenSize
  BY <1>2, <1>6, <1>7, ByteSequences, ConcatProperties
<1>9. PICK q \in Nat : n = Block * q + (n % Block) /\ n % Block \in 0..(Block - 1)
  BY <1>2, Quotient
<1>10. Len(Padded(bytes)) = Block * q + s
  <2> DEFINE m == n % Block
  <2>1. n = Block * q + m /\ z = s - LenSize - 1 - m /\ m \in Nat
    BY <1>3, <1>9
  <2>2. Block * q \in Nat
    BY <1>1
  <2> HIDE DEF m, n, z
  <2> QED BY <1>1, <1>8, <2>1, <2>2
<1>11. s = Block * 1 \/ s = Block * 2
  BY <1>1
<1>12. Block * q + s = Block * (q + 1) \/ Block * q + s = Block * (q + 2)
  BY <1>1, <1>11
<1> QED BY <1>8, <1>10, <1>12

\* sha256_update moves bytes from what is still to be taken into the buffer,
\* and a full buffer into what was hashed: none is lost, none goes first.
LEMMA TakeKeepsTheMessage ==
  ASSUME DigestTypeOK, WholeBlocks, Take
  PROVE  /\ hashed' \in Seq(Bytes) /\ buf' \in Seq(Bytes) /\ rest' \in Seq(Bytes)
         /\ WholeBlocks'
         /\ Message' = Message
<1> DEFINE take == IF Block - Len(buf) > Len(rest) THEN Len(rest) ELSE Block - Len(buf)
           some == SubSeq(rest, 1, take)
           later == SubSeq(rest, take + 1, Len(rest))
           now == buf \o some
<1>1. Block \in Nat \ {0}
  BY SizesType
<1>2. hashed \in Seq(Bytes) /\ buf \in Seq(Bytes) /\ rest \in Seq(Bytes)
  BY DEF DigestTypeOK
<1>3. Len(buf) \in Nat /\ Len(rest) \in Nat /\ Len(buf) < Block
  BY <1>2, LenProperties DEF WholeBlocks
<1>4. take \in 0..Len(rest) /\ take <= Block - Len(buf)
  BY <1>1, <1>3
<1>5. \A i \in 1..Len(rest) : rest[i] \in Bytes
  BY <1>2, ElementOfSeq
<1>6. some \in Seq(Bytes) /\ Len(some) = take
  <2> HIDE DEF take
  <2>1. \A i \in 1..take : rest[i] \in Bytes
    BY <1>3, <1>4, <1>5
  <2>2. take \in Int
    BY <1>4
  <2>3. Len(SubSeq(rest, 1, take)) = (IF 1 <= take THEN take - 1 + 1 ELSE 0)
        /\ SubSeq(rest, 1, take) \in Seq(Bytes)
    BY <2>1, <2>2, SubSeqProperties
  <2> QED BY <2>3, <1>4, <1>3
<1>7. later \in Seq(Bytes)
  <2> HIDE DEF take
  <2>1. \A i \in (take + 1)..Len(rest) : rest[i] \in Bytes
    BY <1>3, <1>4, <1>5
  <2>2. take + 1 \in Int /\ Len(rest) \in Int
    BY <1>3, <1>4
  <2> QED BY <2>1, <2>2, SubSeqProperties
<1>8. some \o later = rest
  <2> HIDE DEF take
  <2>1. 1 \in 1..(Len(rest) + 1) /\ take \in (1 - 1)..Len(rest) /\ Len(rest) \in take..Len(rest)
    BY <1>3, <1>4
  <2>2. SubSeq(rest, 1, take) \o SubSeq(rest, take + 1, Len(rest)) = SubSeq(rest, 1, Len(rest))
    BY <1>2, <2>1, ConcatAdjacentSubSeq
  <2> QED BY <2>2, <1>2, SubSeqFull
<1>9. now \in Seq(Bytes) /\ Len(now) = Len(buf) + take
  <2> HIDE DEF take, some
  <2> QED BY <1>2, <1>6, ConcatProperties
<1>10. /\ rest' = later
       /\ Len(now) = Block => hashed' = hashed \o now /\ buf' = <<>>
       /\ Len(now) # Block => hashed' = hashed /\ buf' = now
  BY DEF Take
<1>11. hashed \o now \in Seq(Bytes) /\ Len(hashed \o now) = Len(hashed) + Len(now)
  <2> HIDE DEF now
  <2> QED BY <1>2, <1>9, ConcatProperties
<1>12. PICK k \in Nat : Len(hashed) = Block * k
  BY DEF WholeBlocks
<1>13. hashed \o now \o later = Message
  <2> HIDE DEF now, some, later
  <2>1. hashed \o now = hashed \o buf \o some
    <3>1. some \in Seq(Bytes) /\ hashed \in Seq(Bytes) /\ buf \in Seq(Bytes) /\ now = buf \o some
      BY <1>2, <1>6 DEF now
    <3>2. (hashed \o buf) \o some = hashed \o (buf \o some)
      BY ONLY <3>1, JoinBytes
    <3> QED BY ONLY <3>1, <3>2
  <2>2. hashed \o buf \in Seq(Bytes)
    BY <1>2, ConcatProperties
  <2>3. (hashed \o buf \o some) \o later = (hashed \o buf) \o (some \o later)
    BY <1>6, <1>7, <2>2, JoinBytes
  <2> QED BY <2>1, <2>3, <1>8 DEF Message
<1> HIDE DEF take, some, later, now
<1>14. CASE Len(now) = Block
  <2>1. hashed' = hashed \o now /\ buf' = <<>> /\ Len(<<>>) = 0
    BY <1>10, <1>14
  <2>2. Len(hashed') = Block * (k + 1)
    BY <2>1, <1>1, <1>11, <1>12, <1>14
  <2>3. Message' = Message
    BY <2>1, <1>10, <1>11, <1>13, ConcatEmptySeq DEF Message
  <2>4. buf' \in Seq(Bytes) /\ hashed' \in Seq(Bytes) /\ rest' \in Seq(Bytes)
    BY <2>1, <1>7, <1>10, <1>11, ByteSequences
  <2>5. Len(buf') < Block /\ k + 1 \in Nat
    BY <2>1, <1>1
  <2> QED BY <2>2, <2>3, <2>4, <2>5 DEF WholeBlocks
<1>15. CASE Len(now) # Block
  <2>1. hashed' = hashed /\ buf' = now
    BY <1>10, <1>15
  <2>2. Len(now) < Block
    BY <1>1, <1>3, <1>4, <1>9, <1>15
  <2> QED BY <2>1, <2>2, <1>2, <1>7, <1>9, <1>10, <1>12, <1>13 DEF WholeBlocks, Message
<1> QED BY <1>14, <1>15

LEMMA DigestFirst ==
  ASSUME DigestInit
  PROVE  DigestInv
<1>1. running \in Seq(Bytes) /\ <<>> \in Seq(Bytes) /\ Len(<<>>) = 0 /\ Block \in Nat \ {0}
  BY ByteSequences, SizesType DEF DigestInit
<1>2. DigestTypeOK
  <2>1. exe \in BOOLEAN /\ failed \in BOOLEAN
    BY DEF DigestInit
  <2>2. at \in 0..Len(file)
    BY <1>1 DEF DigestInit
  <2>3. hex \in Digests /\ sent \in Seq(Digests)
    BY DEF DigestInit, Digests
  <2> QED BY <1>1, <2>1, <2>2, <2>3 DEF DigestInit, DigestTypeOK
<1>3. WholeBlocks
  <2>1. Len(hashed) = Block * 0 /\ Len(buf) < Block
    BY <1>1 DEF DigestInit
  <2> QED BY <2>1 DEF WholeBlocks
<1>4. MessageInv /\ DigestNamesTheBinary
  BY DEF DigestInit, MessageInv, DigestNamesTheBinary
<1> QED BY <1>2, <1>3, <1>4 DEF DigestInv

\* Before the digest is taken there is nothing to say of it.
LEMMA NoDigestYet ==
  ASSUME hex' = NoDigest, sent' = <<>>
  PROVE  DigestNamesTheBinary'
BY DEF DigestNamesTheBinary

LEMMA OpenStep ==
  ASSUME DigestInv, OpenBinary
  PROVE  DigestInv'
<1> USE DEF DigestInv, OpenBinary, hash
<1>1. file' \in {running, binary} /\ file' \in Seq(Bytes) /\ at = 0 /\ Len(file') \in Nat
  BY LenProperties DEF DigestTypeOK, MessageInv
<1>2. DigestTypeOK'
  BY <1>1 DEF DigestTypeOK
<1>3. WholeBlocks'
  BY DEF WholeBlocks
<1>4. hashed = <<>> /\ buf = <<>> /\ rest = <<>> /\ hex = NoDigest /\ sent = <<>>
  BY DEF MessageInv
<1>5. MessageInv'
  <2>1. <<>> \o <<>> \o <<>> = <<>>
    BY ConcatEmptySeq, ByteSequences
  <2>2. SubSeq(file', 1, 0) = <<>>
    BY SubSeqEmpty
  <2>3. Message' = SubSeq(file', 1, at')
    BY <1>1, <1>4, <2>1, <2>2 DEF Message
  <2>4. exe' => file' = running'
    OBVIOUS
  <2> QED BY <1>4, <2>3, <2>4 DEF MessageInv
<1> QED BY <1>2, <1>3, <1>4, <1>5, NoDigestYet

LEMMA ReadStep ==
  ASSUME DigestInv, ReadChunk
  PROVE  DigestInv'
<1> USE DEF DigestInv
<1>1. PICK n \in 1..Chunk :
        /\ at + n <= Len(file)
        /\ failed' = (failed \/ (n < Chunk /\ at + n < Len(file)))
        /\ rest' = SubSeq(file, at + 1, at + n)
        /\ at' = at + n
  BY DEF ReadChunk
<1>2. /\ hashing = "read" /\ rest = <<>>
      /\ UNCHANGED <<running, exe, binary, file, hashed, buf, hashing, hex, sent>>
  BY DEF ReadChunk
<1>3. n \in Nat /\ Len(file) \in Nat /\ at \in Nat /\ at <= Len(file) /\ file \in Seq(Bytes)
  BY SizesType, LenProperties DEF DigestTypeOK
<1>4. rest' \in Seq(Bytes)
  <2>1. \A i \in 1..Len(file) : file[i] \in Bytes
    BY <1>3, ElementOfSeq
  <2>2. \A i \in (at + 1)..(at + n) : file[i] \in Bytes
    BY <1>1, <1>3, <2>1
  <2> QED BY <1>1, <1>3, <2>2, SubSeqProperties
<1>5. failed' \in BOOLEAN /\ at' \in 0..Len(file')
  <2>1. failed' \in BOOLEAN
    BY <1>1
  <2>2. at' \in 0..Len(file')
    BY <1>1, <1>2, <1>3
  <2> QED BY <2>1, <2>2
<1>6. DigestTypeOK'
  BY <1>2, <1>4, <1>5 DEF DigestTypeOK
<1>7. WholeBlocks'
  BY <1>2 DEF WholeBlocks
<1>8. Message' = SubSeq(file, 1, at + n)
  <2>1. hashed \o buf = SubSeq(file, 1, at)
    <3>1. hashed \o buf \in Seq(Bytes)
      BY ConcatProperties DEF DigestTypeOK
    <3>2. Message = hashed \o buf
      BY <1>2, <3>1, ConcatEmptySeq DEF Message
    <3> QED BY <1>2, <3>2 DEF MessageInv
  <2>2. 1 \in 1..(Len(file) + 1) /\ at \in (1 - 1)..Len(file) /\ at + n \in at..Len(file)
    BY <1>1, <1>3
  <2>3. SubSeq(file, 1, at) \o SubSeq(file, at + 1, at + n) = SubSeq(file, 1, at + n)
    BY <1>3, <2>2, ConcatAdjacentSubSeq
  <2> QED BY <1>1, <1>2, <2>1, <2>3 DEF Message
<1>9. hex = NoDigest /\ sent = <<>> /\ (exe => file = running)
  BY <1>2 DEF MessageInv
<1>10. MessageInv'
  BY <1>1, <1>2, <1>8, <1>9 DEF MessageInv
<1> QED BY <1>2, <1>6, <1>7, <1>9, <1>10, NoDigestYet

LEMMA TakeStep ==
  ASSUME DigestInv, Take
  PROVE  DigestInv'
<1> USE DEF DigestInv
<1>1. UNCHANGED <<running, exe, binary, file, at, failed, hashing, hex, sent>> /\ rest # <<>>
  BY DEF Take
<1>2. /\ hashed' \in Seq(Bytes) /\ buf' \in Seq(Bytes) /\ rest' \in Seq(Bytes)
      /\ WholeBlocks' /\ Message' = Message
  BY TakeKeepsTheMessage
<1>3. DigestTypeOK'
  BY <1>1, <1>2 DEF DigestTypeOK
<1>4. hashing \notin {"idle", "over"}
  BY <1>1 DEF MessageInv
<1>5. MessageInv'
  <2>1. Padded(file)' = Padded(file)
    BY <1>1 DEF Padded, LengthField
  <2> QED BY <1>1, <1>2, <1>4 DEF MessageInv
<1>6. hex' = NoDigest /\ sent' = <<>>
  BY <1>1, <1>4 DEF MessageInv
<1> QED BY <1>2, <1>3, <1>5, <1>6, NoDigestYet

LEMMA EndStep ==
  ASSUME DigestInv, EndOfFile
  PROVE  DigestInv'
<1> USE DEF DigestInv
<1>1. /\ hashing = "read" /\ rest = <<>>
      /\ failed' = (failed \/ at < Len(file))
      /\ failed' => hashing' = "over" /\ rest' = rest
      /\ ~failed' => hashing' = "zeros" /\ rest' = <<128>>
      /\ UNCHANGED <<running, exe, binary, file, at, hashed, buf, hex, sent>>
  BY DEF EndOfFile
<1>2. failed' \in BOOLEAN
  BY <1>1
<1>3. DigestTypeOK'
  BY <1>1, <1>2, ByteSequences DEF DigestTypeOK
<1>4. WholeBlocks'
  BY <1>1 DEF WholeBlocks
<1>5. hex = NoDigest /\ sent = <<>> /\ (exe => file = running)
  BY <1>1 DEF MessageInv
<1>6. CASE failed'
  <2>1. MessageInv'
    BY <1>1, <1>5, <1>6 DEF MessageInv
  <2> QED BY <1>1, <1>3, <1>4, <1>5, <2>1, NoDigestYet
<1>7. CASE ~failed'
  <2>1. at = Len(file) /\ file \in Seq(Bytes) /\ Len(file) \in Nat
    <3>1. at \in 0..Len(file) /\ file \in Seq(Bytes) /\ Len(file) \in Nat
      BY LenProperties DEF DigestTypeOK
    <3>2. ~(at < Len(file))
      BY <1>1, <1>7
    <3> QED BY <3>1, <3>2
  <2>2. hashed \o buf = file
    <3>1. hashed \o buf \in Seq(Bytes)
      BY ConcatProperties DEF DigestTypeOK
    <3>2. Message = hashed \o buf
      BY <1>1, <3>1, ConcatEmptySeq DEF Message
    <3>3. Message = SubSeq(file, 1, Len(file))
      BY <1>1, <2>1 DEF MessageInv
    <3> QED BY <2>1, <3>2, <3>3, SubSeqFull
  <2>3. Message' = file \o <<128>> \o Zeros(0)
    <3>1. Message' = file \o <<128>>
      BY <1>1, <1>7, <2>2 DEF Message
    <3>2. file \o <<128>> \in Seq(Bytes)
      BY <2>1, ByteSequences, ConcatProperties
    <3>3. Zeros(0) = <<>>
      BY ByteSequences, EmptySeq
    <3> QED BY <3>1, <3>2, <3>3, ConcatEmptySeq
  <2>4. 0 \in 0..ZerosNeeded(Len(file))
    <3>1. ZerosNeeded(Len(file)) \in 0..(Block - 1)
      BY <2>1, ZerosNeededValue
    <3> QED BY <3>1
  <2>5. hashing' = "zeros" /\ file' = file /\ ~failed' /\ at' = Len(file')
    BY <1>1, <1>7, <2>1
  <2>6. MessageInv'
    BY <1>1, <1>5, <2>3, <2>4, <2>5 DEF MessageInv
  <2> QED BY <1>1, <1>3, <1>4, <1>5, <2>6, NoDigestYet
<1> QED BY <1>6, <1>7

LEMMA PadStep ==
  ASSUME DigestInv, Pad
  PROVE  DigestInv'
<1> USE DEF DigestInv
<1>1. /\ hashing = "zeros" /\ rest = <<>>
      /\ Len(buf) # Block - LenSize => rest' = <<0>> /\ hashing' = hashing
      /\ Len(buf) = Block - LenSize => rest' = LengthField(at) /\ hashing' = "length"
      /\ UNCHANGED <<running, exe, binary, file, at, failed, hashed, buf, hex, sent>>
  BY DEF Pad
<1>2. /\ hex = NoDigest /\ sent = <<>> /\ (exe => file = running)
      /\ ~failed /\ at = Len(file)
  BY <1>1 DEF MessageInv
<1>3. file \in Seq(Bytes) /\ hashed \in Seq(Bytes) /\ buf \in Seq(Bytes)
      /\ Len(file) \in Nat /\ Len(buf) \in Nat /\ Len(hashed) \in Nat
  BY LenProperties DEF DigestTypeOK
<1>4. PICK z \in 0..ZerosNeeded(Len(file)) : Message = file \o <<128>> \o Zeros(z)
  BY <1>1 DEF MessageInv
<1>5. z \in Nat /\ ZerosNeeded(Len(file)) \in Nat /\ z <= ZerosNeeded(Len(file))
  <2>1. ZerosNeeded(Len(file)) \in 0..(Block - 1)
    BY <1>3, ZerosNeededValue
  <2> QED BY <2>1
<1>6. hashed \o buf \in Seq(Bytes) /\ Len(hashed \o buf) = Len(hashed) + Len(buf)
  BY <1>3, ConcatProperties
<1>7. hashed \o buf = file \o <<128>> \o Zeros(z)
  <2>1. Message = hashed \o buf
    BY <1>1, <1>6, ConcatEmptySeq DEF Message
  <2> QED BY <2>1, <1>4
<1>8. file \o <<128>> \in Seq(Bytes) /\ Len(file \o <<128>>) = Len(file) + 1
  BY <1>3, ByteSequences, ConcatProperties
<1>9. Zeros(z) \in Seq(Bytes) /\ Len(Zeros(z)) = z
  BY <1>5, ByteSequences
<1>10. Len(file \o <<128>> \o Zeros(z)) = Len(file) + 1 + z
  BY <1>8, <1>9, ConcatProperties
<1>11. PICK k \in Nat : Len(hashed) = Block * k
  BY DEF WholeBlocks
<1>12. Len(buf) = Block - LenSize <=> z = ZerosNeeded(Len(file))
  <2>1. Len(buf) \in 0..(Block - 1)
    BY <1>3, SizesType DEF WholeBlocks
  <2>2. Block * k + Len(buf) = Len(file) + 1 + z
    BY <1>6, <1>7, <1>10, <1>11
  <2> QED BY <1>3, <2>1, <2>2, RoomForTheLength
<1>13. DigestTypeOK' /\ WholeBlocks'
  <2>1. rest' \in Seq(Bytes)
    BY <1>1, <1>2, <1>3, ByteSequences
  <2>2. DigestTypeOK'
    BY <1>1, <2>1 DEF DigestTypeOK
  <2> QED BY <1>1, <2>2 DEF WholeBlocks
<1>14. CASE Len(buf) # Block - LenSize
  <2>1. z + 1 \in 0..ZerosNeeded(Len(file))
    BY <1>5, <1>12, <1>14
  <2>2. Message' = file \o <<128>> \o Zeros(z + 1)
    <3>1. Message' = (file \o <<128>> \o Zeros(z)) \o <<0>>
      BY <1>1, <1>7, <1>14 DEF Message
    <3>2. (file \o <<128>> \o Zeros(z)) \o <<0>> = (file \o <<128>>) \o (Zeros(z) \o <<0>>)
      <4>1. <<0>> \in Seq(Bytes)
        BY ByteSequences
      <4> QED BY SMTT(30), <1>8, <1>9, <4>1, JoinBytes
    <3> QED BY <3>1, <3>2, <1>5, OneMoreZero
  <2>3. MessageInv'
    BY <1>1, <1>2, <1>14, <2>1, <2>2 DEF MessageInv
  <2> QED BY <1>1, <1>2, <1>13, <2>3, NoDigestYet
<1>15. CASE Len(buf) = Block - LenSize
  <2>1. Message' = Padded(file)
    <3>1. Message' = (file \o <<128>> \o Zeros(z)) \o LengthField(Len(file))
      BY <1>1, <1>2, <1>7, <1>15 DEF Message
    <3>2. z = (2 * Block - LenSize - 1 - (Len(file) % Block)) % Block
      BY <1>12, <1>15 DEF ZerosNeeded
    <3> QED BY <3>1, <3>2 DEF Padded, Zeros
  <2>2. MessageInv'
    <3>1. Padded(file') = Padded(file)
      BY <1>1
    <3> QED BY <1>1, <1>2, <1>15, <2>1, <3>1 DEF MessageInv
  <2> QED BY <1>1, <1>2, <1>13, <2>2, NoDigestYet
<1> QED BY <1>14, <1>15

\* A padded message is whole blocks, so the buffer is empty at the end.
LEMMA FinaliseStep ==
  ASSUME DigestInv, Finalise
  PROVE  DigestInv'
<1> USE DEF DigestInv
<1>1. /\ hashing = "length" /\ rest = <<>> /\ hex' = hashed /\ hashing' = "over"
      /\ UNCHANGED <<running, exe, binary, file, at, failed, hashed, buf, rest, sent>>
  BY DEF Finalise, hash
<1>2. sent = <<>> /\ (exe => file = running) /\ ~failed /\ Message = Padded(file)
  BY <1>1 DEF MessageInv
<1>3. file \in Seq(Bytes) /\ hashed \in Seq(Bytes) /\ buf \in Seq(Bytes)
      /\ Len(buf) \in Nat /\ Len(hashed) \in Nat
  BY LenProperties DEF DigestTypeOK
<1>4. DigestTypeOK' /\ WholeBlocks'
  BY <1>1 DEF DigestTypeOK, WholeBlocks, Digests
<1>5. hashed \o buf = Padded(file) /\ Len(hashed \o buf) = Len(hashed) + Len(buf)
  <2>1. hashed \o buf \in Seq(Bytes) /\ Len(hashed \o buf) = Len(hashed) + Len(buf)
    BY <1>3, ConcatProperties
  <2>2. Message = hashed \o buf
    BY <1>1, <2>1, ConcatEmptySeq DEF Message
  <2> QED BY <1>2, <2>1, <2>2
<1>6. Len(buf) = 0
  <2>1. PICK k \in Nat : Len(hashed) = Block * k
    BY DEF WholeBlocks
  <2>2. PICK j \in Nat : Len(Padded(file)) = Block * j
    BY <1>3, PaddedFills
  <2>3. Block \in Nat \ {0} /\ Len(buf) < Block
    BY SizesType DEF WholeBlocks
  <2>4. Block * j = Block * k + Len(buf)
    BY <1>5, <2>1, <2>2
  <2>5. Len(buf) = 0 \/ Len(buf) = Block
    <3>1. Len(buf) \in Int /\ -Block < Len(buf) /\ Len(buf) < 2 * Block
      BY <1>3, <2>3
    <3>2. j \in Int /\ k \in Int
      OBVIOUS
    <3> QED BY <2>4, <3>1, <3>2, NearMultiples
  <2> QED BY <2>3, <2>5
<1>7. hashed = Padded(file)
  <2>1. buf = <<>>
    BY <1>3, <1>6, EmptySeq
  <2> QED BY <2>1, <1>3, <1>5, ConcatEmptySeq
<1>8. DigestNamesTheBinary'
  <2>1. Padded(file') = Padded(file)
    BY <1>1
  <2> QED BY <1>1, <1>2, <1>7, <2>1 DEF DigestNamesTheBinary
<1>9. MessageInv'
  BY <1>1, <1>2 DEF MessageInv
<1> QED BY <1>4, <1>8, <1>9

LEMMA SendStep ==
  ASSUME DigestInv, SendDigest
  PROVE  DigestInv'
<1> USE DEF DigestInv
<1>1. /\ hashing = "over" /\ sent' = Append(sent, hex)
      /\ UNCHANGED <<running, exe, binary, file, at, failed, hashed, buf, rest, hashing, hex>>
  BY DEF SendDigest, hash
<1>2. DigestTypeOK' /\ WholeBlocks'
  <2>1. sent' \in Seq(Digests)
    BY <1>1, AppendProperties DEF DigestTypeOK
  <2> QED BY <1>1, <2>1 DEF DigestTypeOK, WholeBlocks
<1>3. MessageInv'
  BY <1>1 DEF MessageInv
<1>4. DigestNamesTheBinary'
  <2>1. \A i \in DOMAIN sent' : sent'[i] = hex
    <3>1. sent' \in Seq(Digests) /\ DOMAIN sent' = 1..(Len(sent) + 1) /\ DOMAIN sent = 1..Len(sent)
          /\ Len(sent) \in Nat
          /\ sent'[Len(sent) + 1] = hex /\ \A i \in 1..Len(sent) : sent'[i] = sent[i]
      BY <1>1, AppendProperties, LenProperties DEF DigestTypeOK
    <3>2. \A i \in 1..Len(sent) : sent[i] = hex
      BY <3>1 DEF DigestNamesTheBinary
    <3> QED BY <3>1, <3>2
  <2>2. Padded(file') = Padded(file)
    BY <1>1
  <2> QED BY <1>1, <2>1, <2>2 DEF DigestNamesTheBinary
<1> QED BY <1>2, <1>3, <1>4

LEMMA ReplaceStep ==
  ASSUME DigestInv, ReplaceBinary
  PROVE  DigestInv'
<1> USE DEF DigestInv
<1>1. /\ binary' \in Binaries
      /\ UNCHANGED <<running, exe, file, at, failed, hashed, buf, rest, hashing, hex, sent>>
  BY DEF ReplaceBinary, hash
<1>2. DigestTypeOK'
  BY <1>1, ByteSequences DEF DigestTypeOK
<1>3. Padded(file') = Padded(file) /\ Message' = Message
  BY <1>1 DEF Message
<1>4. WholeBlocks' /\ MessageInv' /\ DigestNamesTheBinary'
  BY <1>1, <1>3 DEF WholeBlocks, MessageInv, DigestNamesTheBinary
<1> QED BY <1>2, <1>4

LEMMA DigestNextInv ==
  ASSUME DigestInv, [DigestNext]_digest
  PROVE  DigestInv'
<1>1. CASE UNCHANGED digest
  <2> USE DEF DigestInv
  <2>1. UNCHANGED <<running, exe, binary, file, at, failed, hashed, buf, rest, hashing, hex, sent>>
    BY <1>1 DEF digest, hash
  <2>2. Padded(file') = Padded(file) /\ Message' = Message
    BY <2>1 DEF Message
  <2>3. DigestTypeOK' /\ WholeBlocks'
    BY <2>1 DEF DigestTypeOK, WholeBlocks
  <2>4. MessageInv' /\ DigestNamesTheBinary'
    BY <2>1, <2>2 DEF MessageInv, DigestNamesTheBinary
  <2> QED BY <2>3, <2>4
<1> QED BY <1>1, OpenStep, ReadStep, TakeStep, EndStep, PadStep, FinaliseStep, SendStep,
          ReplaceStep DEF DigestNext

\* Whatever the file, its size and the sizes of the chunks it is read in, the
\* digest every document carries is of the padded message of the whole file
\* (binary_sha256 and sha256.c).
THEOREM DigestIsOfTheBinary == DigestSpec => []DigestNamesTheBinary
<1>1. DigestInit => DigestInv
  BY DigestFirst
<1>2. DigestInv /\ [DigestNext]_digest => DigestInv'
  BY DigestNextInv
<1>3. DigestInv => DigestNamesTheBinary
  BY DEF DigestInv
<1> QED BY <1>1, <1>2, <1>3, PTL DEF DigestSpec

-----------------------------------------------------------------------------
(***************************************************************************)
(* Pinning (Placement). CPUs are numbered group by group, so the CPUs of   *)
(* the groups before a place's own and its number within it make the flat  *)
(* number of the place, and Split takes that number apart again.           *)
(***************************************************************************)

LEMMA SweepType ==
  ASSUME sweep \in Sweeps
  PROVE  /\ sweep.groups \in Seq(Nat) /\ sweep.list \in Seq(Nat)
         /\ Len(sweep.groups) \in Nat /\ DOMAIN sweep.groups = 1..Len(sweep.groups)
         /\ \A g \in 1..Len(sweep.groups) : sweep.groups[g] \in Nat
         /\ Len(sweep.list) \in Nat \ {0} /\ DOMAIN sweep.list = 1..Len(sweep.list)
         /\ \A i \in 1..Len(sweep.list) : sweep.list[i] \in Nat
         /\ sweep.threads \in Nat
<1>1. sweep.groups \in Seq(Nat) /\ sweep.list \in Seq(Nat) /\ sweep.threads \in Nat
      /\ sweep.list # <<>>
  BY PlacementAssumption
<1> QED BY <1>1, LenProperties, ElementOfSeq, EmptySeq

LEMMA CpusBeforeSteps ==
  ASSUME sweep \in Sweeps
  PROVE  /\ CpusBefore(1) = 0
         /\ \A g \in 1..Len(sweep.groups) :
              /\ CpusBefore(g) \in Int
              /\ CpusBefore(g + 1) = CpusBefore(g) + sweep.groups[g]
<1> DEFINE n == Len(sweep.groups)
<1>1. n \in Nat /\ sweep.groups \in [1..n -> Int] /\ IsFiniteSet(1..n)
  <2>1. sweep.groups \in Seq(Nat) /\ n \in Nat
    BY SweepType
  <2>2. sweep.groups \in [1..n -> Nat]
    BY <2>1, LenProperties
  <2>3. sweep.groups \in [1..n -> Int]
    BY <2>2
  <2> QED BY SMTT(30), <2>1, <2>3, FS_Interval
<1>2. PICK h : IsSum(h, sweep.groups, 1..n)
  BY <1>1, SumOverSet
<1>3. \A g : CpusBefore(g) = SumFunctionOnSet(sweep.groups, 1..(g - 1))
  BY DEF CpusBefore, SumFunctionOnSet
<1>4. /\ h \in [SUBSET (1..n) -> Int] /\ h[{}] = 0
      /\ \A T \in SUBSET (1..n) : \A x \in T : h[T] = sweep.groups[x] + h[T \ {x}]
      /\ \A T \in SUBSET (1..n) : SumFunctionOnSet(sweep.groups, T) = h[T]
  BY <1>2 DEF IsSum, SumAnyhow
<1> HIDE DEF n
<1>5. CpusBefore(1) = 0
  <2>1. 1..(1 - 1) = {} /\ {} \in SUBSET (1..n)
    OBVIOUS
  <2> QED BY <1>3, <1>4, <2>1
<1>6. ASSUME NEW g \in 1..n
      PROVE  CpusBefore(g) \in Int /\ CpusBefore(g + 1) = CpusBefore(g) + sweep.groups[g]
  <2> DEFINE T == 1..((g + 1) - 1)
             U == 1..(g - 1)
  <2>1. \A i \in T : i \in 1..n
    BY <1>1
  <2>2. T \in SUBSET (1..n) /\ U \in SUBSET (1..n) /\ g \in T /\ T \ {g} = U
    BY <1>1, <2>1
  <2>3. CpusBefore(g + 1) = h[T] /\ CpusBefore(g) = h[U]
    <3>1. CpusBefore(g + 1) = SumFunctionOnSet(sweep.groups, T) /\ CpusBefore(g) = SumFunctionOnSet(sweep.groups, U)
      BY <1>3
    <3> HIDE DEF T, U
    <3> QED BY <3>1, <1>4, <2>2
  <2> HIDE DEF T, U
  <2>4. h[T] = sweep.groups[g] + h[U] /\ h[U] \in Int /\ sweep.groups[g] \in Int
    BY <1>1, <1>4, <2>2
  <2> QED BY <2>3, <2>4
<1> QED BY <1>5, <1>6 DEF n

\* The first n places of a group.
RowOf(g, n) == {<<g, k>> : k \in 0..(n - 1)}

LEMMA RowOfCount ==
  ASSUME NEW g, NEW n \in Nat
  PROVE  IsFiniteSet(RowOf(g, n)) /\ Cardinality(RowOf(g, n)) = n
<1> DEFINE D == 0..(n - 1)
           f == [k \in D |-> <<g, k>>]
<1>1. IsFiniteSet(D) /\ Cardinality(D) = n
  BY FS_Interval
<1>2. f \in Bijection(D, RowOf(g, n))
  BY DEF Bijection, Injection, Surjection, IsInjective, RowOf
<1>3. ExistsBijection(D, RowOf(g, n))
  BY <1>2 DEF ExistsBijection
<1> HIDE DEF D
<1> QED BY <1>1, <1>3, FS_Bijection

\* The places of the groups before g.
PlacesBefore(g) == {q \in Places : q[1] < g}

LEMMA PlacesBeforeCount ==
  ASSUME sweep \in Sweeps, NEW g \in 1..Len(sweep.groups)
  PROVE  IsFiniteSet(PlacesBefore(g)) /\ Cardinality(PlacesBefore(g)) = CpusBefore(g)
<1> DEFINE n == Len(sweep.groups)
           S == {i \in 1..n : IsFiniteSet(PlacesBefore(i)) /\ Cardinality(PlacesBefore(i)) = CpusBefore(i)}
<1>1. n \in Nat /\ DOMAIN sweep.groups = 1..n /\ \A i \in 1..n : sweep.groups[i] \in Nat
  BY SweepType
<1>2. ASSUME NEW q \in Places PROVE q[1] \in 1..n /\ q = <<q[1], q[2]>> /\ q[2] \in 0..(sweep.groups[q[1]] - 1)
  BY <1>1 DEF Places
<1>3. 1 \in S
  <2>1. PlacesBefore(1) = {}
    BY <1>2 DEF PlacesBefore
  <2>2. 1 \in 1..n
    BY <1>1
  <2> QED BY <2>1, <2>2, FS_EmptySet, CpusBeforeSteps
<1>4. ASSUME NEW i \in 1..(n - 1), i \in S PROVE i + 1 \in S
  <2> DEFINE R == RowOf(i, sweep.groups[i])
             P == PlacesBefore(i)
  <2>1. sweep.groups[i] \in Nat /\ i \in 1..n /\ i + 1 \in 1..n
    BY <1>1
  <2>2. PlacesBefore(i + 1) = P \cup R
    <3>1. ASSUME NEW q \in PlacesBefore(i + 1) PROVE q \in P \cup R
      <4>1. q \in Places /\ q[1] < i + 1 /\ q[1] \in 1..n
        BY <1>2 DEF PlacesBefore
      <4>2. CASE q[1] < i
        BY <4>1, <4>2 DEF PlacesBefore
      <4>3. CASE q[1] = i
        BY <1>2, <4>1, <4>3 DEF RowOf
      <4> QED BY <4>1, <4>2, <4>3
    <3>2. ASSUME NEW q \in P PROVE q \in PlacesBefore(i + 1)
      BY <1>2 DEF PlacesBefore
    <3>3. ASSUME NEW q \in R PROVE q \in PlacesBefore(i + 1)
      <4>1. PICK k \in 0..(sweep.groups[i] - 1) : q = <<i, k>>
        BY DEF RowOf
      <4>2. q \in Places
        BY <1>1, <2>1, <4>1 DEF Places
      <4> QED BY <4>1, <4>2 DEF PlacesBefore
    <3> QED BY <3>1, <3>2, <3>3
  <2>3. P \cap R = {}
    BY DEF PlacesBefore, RowOf
  <2>4. IsFiniteSet(R) /\ Cardinality(R) = sweep.groups[i] /\ IsFiniteSet(P) /\ Cardinality(P) = CpusBefore(i)
    BY <1>4, <2>1, RowOfCount
  <2> HIDE DEF R, P
  <2>5. IsFiniteSet(P \cup R) /\ Cardinality(P \cup R) = Cardinality(P) + Cardinality(R) - Cardinality({})
    BY <2>3, <2>4, FS_Union
  <2>6. Cardinality({}) = 0
    BY FS_EmptySet
  <2>7. CpusBefore(i + 1) = CpusBefore(i) + sweep.groups[i] /\ CpusBefore(i) \in Int
    BY <2>1, CpusBeforeSteps
  <2>8. Cardinality(P \cup R) = CpusBefore(i + 1)
    BY <2>1, <2>4, <2>5, <2>6, <2>7
  <2> QED BY <2>1, <2>2, <2>5, <2>8
<1> HIDE DEF S
<1>5. 1..n \subseteq S
  <2>1. \A i \in 1..(n - 1) : i \in S => i + 1 \in S
    BY <1>4
  <2>2. 1 \in Int /\ n \in Int
    BY <1>1
  <2> HIDE DEF n
  <2> QED BY SMTT(30), <1>3, <2>1, <2>2, IntervalInduction
<1> QED BY <1>5 DEF S

\* A place's flat number is how many come before it.
LEMMA FlatNumber ==
  ASSUME sweep \in Sweeps, NEW g \in 1..Len(sweep.groups), NEW k \in 0..(sweep.groups[g] - 1)
  PROVE  IsCpu(<<g, k>>, CpusBefore(g) + k)
<1> DEFINE P == PlacesBefore(g)
           R == RowOf(g, k)
           B == {q \in Places : q[1] < g \/ (q[1] = g /\ q[2] < k)}
<1>1. DOMAIN sweep.groups = 1..Len(sweep.groups) /\ sweep.groups[g] \in Nat
  BY SweepType
<1>2. ASSUME NEW q \in Places PROVE q = <<q[1], q[2]>> /\ q[2] \in Nat
  BY SMTT(30), SweepType DEF Places
<1>3. B = P \cup R
  <2>1. ASSUME NEW q \in B PROVE q \in P \cup R
    BY <1>2 DEF PlacesBefore, RowOf
  <2>2. ASSUME NEW q \in R PROVE q \in B
    BY <1>1 DEF RowOf, Places
  <2> QED BY <2>1, <2>2 DEF PlacesBefore
<1>4. P \cap R = {}
  BY DEF PlacesBefore, RowOf
<1>5. IsFiniteSet(R) /\ Cardinality(R) = k /\ IsFiniteSet(P) /\ Cardinality(P) = CpusBefore(g)
  BY <1>1, RowOfCount, PlacesBeforeCount
<1>6. Cardinality(B) = CpusBefore(g) + k
  <2> HIDE DEF B, P, R
  <2>1. Cardinality(P \cup R) = Cardinality(P) + Cardinality(R) - Cardinality({})
    BY <1>4, <1>5, FS_Union
  <2>2. Cardinality({}) = 0
    BY FS_EmptySet
  <2>3. CpusBefore(g) \in Int
    BY CpusBeforeSteps
  <2> QED BY <1>1, <1>3, <1>5, <2>1, <2>2, <2>3
<1> QED BY <1>6 DEF IsCpu

LEMMA WorkerAsked ==
  ASSUME sweep \in Sweeps, NEW i \in 1..Len(Workers), Workers[i].ask >= 0
  PROVE  Workers[i].ask \in Nat /\ Workers[i].name = Workers[i].ask
<1> DEFINE n == sweep.threads
           m == Len(sweep.list)
<1>1. n \in Nat /\ m \in Nat \ {0} /\ sweep.list \in Seq(Nat) /\ DOMAIN sweep.list = 1..m
      /\ \A j \in 1..m : sweep.list[j] \in Nat
  BY SweepType
<1>2. CASE n > 0
  <2> DEFINE num(j) == IF sweep.pin THEN sweep.list[1 + ((j - 1) % m)] ELSE -1
  <2>1. Workers = [j \in 1..n |-> [ask |-> num(j), name |-> num(j)]]
    BY <1>2 DEF Workers
  <2>2. i \in 1..n
    BY <1>1, <2>1
  <2>3. Workers[i].ask = num(i) /\ Workers[i].name = num(i)
    <3> HIDE DEF num
    <3> QED BY <2>1, <2>2
  <2>4. 1 + ((i - 1) % m) \in 1..m
    <3> HIDE DEF m
    <3> QED BY <1>1, <2>2
  <2>5. num(i) \in Nat
    BY <1>1, <2>3, <2>4
  <2> QED BY <2>3, <2>5
<1>3. CASE ~(n > 0)
  <2>1. Workers = [j \in DOMAIN sweep.list |->
          [ask |-> IF sweep.pin THEN sweep.list[j] ELSE -1, name |-> sweep.list[j]]]
    BY <1>3 DEF Workers
  <2>2. i \in 1..m
    BY <1>1, <2>1
  <2>3. Workers[i].ask = (IF sweep.pin THEN sweep.list[i] ELSE -1) /\ Workers[i].name = sweep.list[i]
    BY <1>1, <2>1, <2>2
  <2> QED BY <1>1, <2>2, <2>3
<1> QED BY <1>2, <1>3

\* plat_win_split, and the flat number it came from.
LEMMA SplitPlace ==
  ASSUME sweep \in Sweeps, NEW num \in Nat, NEW p \in Split(num)
  PROVE  p \in Places /\ IsCpu(p, num)
<1>1. PICK g \in 1..Len(sweep.groups) :
        /\ num < CpusBefore(g + 1) /\ num >= CpusBefore(g)
        /\ p = <<g, num - CpusBefore(g)>>
  BY SweepType DEF Split
<1>2. CpusBefore(g) \in Int /\ CpusBefore(g + 1) = CpusBefore(g) + sweep.groups[g]
      /\ sweep.groups[g] \in Nat
  BY SweepType, CpusBeforeSteps
<1> DEFINE k == num - CpusBefore(g)
<1>3. k \in 0..(sweep.groups[g] - 1) /\ CpusBefore(g) + k = num
  BY <1>1, <1>2
<1>4. IsCpu(<<g, k>>, CpusBefore(g) + k)
  <2> HIDE DEF k
  <2> QED BY <1>3, FlatNumber
<1>5. IsCpu(p, num)
  BY <1>1, <1>3, <1>4
<1>6. p \in Places
  BY <1>1, <1>3, SweepType DEF Places
<1> QED BY <1>5, <1>6

\* plat_current_cpu undoes it.
LEMMA FlattenedBack ==
  ASSUME sweep \in Sweeps, sweep.system # "other", NEW p \in Places, NEW num, IsCpu(p, num)
  PROVE  Flattened(p) = num
<1>1. PICK g \in 1..Len(sweep.groups) : \E k \in 0..(sweep.groups[g] - 1) : p = <<g, k>>
  BY SweepType DEF Places
<1>2. PICK k \in 0..(sweep.groups[g] - 1) : p = <<g, k>>
  BY <1>1
<1>3. IsCpu(p, CpusBefore(g) + k)
  BY <1>2, FlatNumber
<1>4. num = CpusBefore(g) + k
  BY <1>3 DEF IsCpu
<1>5. p[1] = g /\ p[2] = k
  BY <1>2
<1> QED BY <1>4, <1>5 DEF Flattened

\* A worker that is bound may run nowhere but on the CPU its row will name.
BoundToItsCpu ==
  LET num == Workers[row + 1].name IN
  doing \in {"look", "measure"} /\ bound =>
    affinity = {place} /\ place \in Places /\ IsCpu(place, num) /\ sweep.system # "other"

MeasuredThere ==
  doing = "measure" =>
    /\ bound => ran = {place} /\ seen = Workers[row + 1].name

PlacementInv ==
  /\ sweep \in Sweeps /\ row \in Nat
  /\ doing \in {"pin", "look", "measure"} => row < Len(Workers)
  /\ doing = "pin" => ~bound
  /\ \E S : rows \in Seq(S)
  /\ BoundToItsCpu /\ MeasuredThere /\ PinnedWhereAsked

LEMMA SweepFixed ==
  ASSUME sweep' = sweep
  PROVE  /\ Workers' = Workers
         /\ \A p, num : IsCpu(p, num)' <=> IsCpu(p, num)
BY DEF Workers, IsCpu, Places

\* The rows that are done stay what they are.
LEMMA RowsKept ==
  ASSUME PinnedWhereAsked, sweep' = sweep, rows' = rows
  PROVE  PinnedWhereAsked'
BY SweepFixed DEF PinnedWhereAsked, IsCpu, Places

LEMMA PlacementStep ==
  ASSUME PlacementInv, [PlacementNext]_placement
  PROVE  PlacementInv'
<1> USE DEF PlacementInv
<1>1. sweep' = sweep
  BY DEF PlacementNext, Create, PinTaken, PinRefused, Look, Migrate, Report, placement
<1>2. Workers' = Workers /\ \A p, num : IsCpu(p, num)' <=> IsCpu(p, num)
  BY <1>1, SweepFixed
<1>3. CASE Create
  <2>1. BoundToItsCpu' /\ MeasuredThere'
    BY <1>3 DEF Create, BoundToItsCpu, MeasuredThere
  <2>2. PinnedWhereAsked'
    BY <1>3, RowsKept DEF Create
  <2> QED BY <1>3, <1>2, <2>1, <2>2 DEF Create
<1>4. CASE PinTaken
  <2>1. PICK p \in Split(Workers[row + 1].ask) : affinity' = {p} /\ place' = p
    BY <1>4 DEF PinTaken
  <2>2. /\ doing = "pin" /\ doing' = "look" /\ sweep.system # "other"
        /\ UNCHANGED <<row, seen, ran, rows>>
    BY <1>4 DEF PinTaken
  <2>3. Workers[row + 1].ask >= 0
    BY <2>1 DEF Split
  <2>4. row + 1 \in 1..Len(Workers)
    <3>1. Len(Workers) \in Nat
      <4>1. \E n \in Nat : DOMAIN Workers = 1..n
        BY SweepType DEF Workers
      <4> QED BY <4>1, SweepType DEF Workers
    <3> QED BY <2>2, <3>1
  <2>5. Workers[row + 1].ask \in Nat /\ Workers[row + 1].name = Workers[row + 1].ask
    BY <2>3, <2>4, WorkerAsked
  <2>6. p \in Places /\ IsCpu(p, Workers[row + 1].name)
    BY <2>1, <2>2, <2>5, SplitPlace
  <2>7. BoundToItsCpu'
    BY <1>1, <1>2, <2>1, <2>2, <2>6, SweepFixed DEF BoundToItsCpu, IsCpu, Places
  <2>8. PinnedWhereAsked'
    BY <1>1, <2>2, RowsKept
  <2> QED BY <1>1, <1>2, <2>2, <2>7, <2>8 DEF MeasuredThere
<1>5. CASE PinRefused
  <2>1. BoundToItsCpu' /\ MeasuredThere'
    BY <1>5 DEF PinRefused, BoundToItsCpu, MeasuredThere
  <2>2. PinnedWhereAsked'
    BY <1>5, RowsKept DEF PinRefused
  <2> QED BY <1>5, <1>2, <2>1, <2>2 DEF PinRefused
<1>6. CASE Look
  <2>1. BoundToItsCpu'
    BY <1>1, <1>2, <1>6, SweepFixed DEF Look, BoundToItsCpu, IsCpu, Places
  <2>2. MeasuredThere'
    <3>1. doing = "look" /\ seen' = Flattened(place) /\ ran' = {place}
          /\ UNCHANGED <<sweep, row, place, bound>>
      BY <1>6 DEF Look
    <3>2. bound => Flattened(place) = Workers[row + 1].name
      BY <3>1, FlattenedBack DEF BoundToItsCpu
    <3> QED BY <1>2, <3>1, <3>2 DEF MeasuredThere
  <2>3. PinnedWhereAsked'
    BY <1>6, RowsKept DEF Look
  <2> QED BY <1>6, <1>2, <2>1, <2>2, <2>3 DEF Look
<1>7. CASE Migrate
  <2>1. ~bound
    BY <1>7 DEF Migrate, BoundToItsCpu
  <2>2. BoundToItsCpu' /\ MeasuredThere'
    BY <1>7, <2>1 DEF Migrate, BoundToItsCpu, MeasuredThere
  <2>3. PinnedWhereAsked'
    BY <1>7, RowsKept DEF Migrate
  <2> QED BY <1>7, <1>2, <2>2, <2>3 DEF Migrate
<1>8. CASE Report
  <2> DEFINE r == [cpu |-> Workers[row + 1].name, bound |-> bound, seen |-> seen, ran |-> ran]
  <2>1. /\ rows' = Append(rows, r) /\ row' = row + 1 /\ doing = "measure"
        /\ doing' = IF row + 1 = Len(Workers) THEN "swept" ELSE "create"
    BY <1>8 DEF Report
  <2>2. r.bound => r.seen = r.cpu /\ \A p \in r.ran : IsCpu(p, r.cpu)
    BY <2>1 DEF BoundToItsCpu, MeasuredThere
  <2>3. PICK S : rows \in Seq(S)
    OBVIOUS
  <2> HIDE DEF r
  <2>4. rows \in Seq(S \cup {r}) /\ r \in S \cup {r}
    BY <2>3, SeqMonotonic
  <2>5. /\ rows' \in Seq(S \cup {r}) /\ Len(rows) \in Nat
        /\ DOMAIN rows' = 1..(Len(rows) + 1) /\ DOMAIN rows = 1..Len(rows)
        /\ rows'[Len(rows) + 1] = r /\ \A i \in 1..Len(rows) : rows'[i] = rows[i]
    BY <2>1, <2>4, AppendProperties, LenProperties
  <2>6. ASSUME NEW i \in DOMAIN rows', rows'[i].bound
        PROVE  rows'[i].seen = rows'[i].cpu /\ \A p \in rows'[i].ran : IsCpu(p, rows'[i].cpu)
    <3>1. CASE i = Len(rows) + 1
      BY <2>2, <2>5, <2>6, <3>1
    <3>2. CASE i # Len(rows) + 1
      <4>1. i \in DOMAIN rows /\ rows'[i] = rows[i]
        BY <2>5, <3>2
      <4> QED BY <2>6, <4>1 DEF PinnedWhereAsked
    <3> QED BY <3>1, <3>2
  <2>7. PinnedWhereAsked'
    BY <1>1, <2>6 DEF PinnedWhereAsked, IsCpu, Places
  <2>8. BoundToItsCpu' /\ MeasuredThere'
    BY <2>1 DEF BoundToItsCpu, MeasuredThere
  <2>9. doing' \notin {"pin", "look", "measure"} /\ row' \in Nat
    BY <2>1
  <2> QED BY <1>1, <2>5, <2>7, <2>8, <2>9
<1>9. CASE UNCHANGED placement
  <2>1. UNCHANGED <<sweep, row, affinity, place, bound, seen, ran, rows, doing>>
    BY <1>9 DEF placement
  <2>2. BoundToItsCpu' /\ MeasuredThere'
    BY <2>1, <1>2 DEF BoundToItsCpu, MeasuredThere, IsCpu, Places
  <2>3. PinnedWhereAsked'
    BY <2>1, RowsKept
  <2> QED BY <1>2, <2>1, <2>2, <2>3
<1> QED BY <1>3, <1>4, <1>5, <1>6, <1>7, <1>8, <1>9 DEF PlacementNext

\* Whatever the groups, the CPUs the process is left and the list it was
\* given: a row whose pin took effect is of the CPU it names (plat_pin_self,
\* plat_win_split and the workers).
THEOREM RowsAreOfTheirCpu == PlacementSpec => []PinnedWhereAsked
<1>1. PlacementInit => PlacementInv
  <2> SUFFICES ASSUME PlacementInit PROVE PlacementInv
    OBVIOUS
  <2>1. rows \in Seq({})
    BY DEF PlacementInit
  <2> QED BY <2>1 DEF PlacementInit, PlacementInv, BoundToItsCpu, MeasuredThere, PinnedWhereAsked
<1>2. PlacementInv /\ [PlacementNext]_placement => PlacementInv'
  BY PlacementStep
<1>3. PlacementInv => PinnedWhereAsked
  BY DEF PlacementInv
<1> QED BY <1>1, <1>2, <1>3, PTL DEF PlacementSpec

-----------------------------------------------------------------------------
(***************************************************************************)
(* What was measured (Workload). A chase's order names every node of its   *)
(* way once, a way that is linked is linked in that order, and a kernel    *)
(* has come as far along it as it has been asked for units of work.        *)
(***************************************************************************)

LEMMA Remainder ==
  ASSUME NEW P \in Nat \ {0}, NEW k \in Int, NEW r \in 0..(P - 1)
  PROVE  (P * k + r) % P = r /\ (P * k + r) \div P = k
<1> DEFINE x == P * k + r
           q == x \div P
           s == x % P
<1>1. x \in Int
  OBVIOUS
<1>2. x = P * q + s /\ s \in 0..(P - 1) /\ q \in Int
  <2> HIDE DEF x
  <2> QED BY <1>1
<1>3. P * q + s = P * k + r
  BY <1>2
<1> HIDE DEF q, s, x
<1>4. (q - k) * P = r - s
  BY <1>2, <1>3
<1>5. ASSUME q - k <= -1 PROVE FALSE
  <2>1. (q - k) * P <= (-1) * P
    BY <1>2, <1>5, ProductOrder
  <2> QED BY <1>2, <1>4, <2>1
<1>6. ASSUME q - k >= 1 PROVE FALSE
  <2>1. 1 * P <= (q - k) * P
    BY <1>2, <1>6, ProductOrder
  <2> QED BY <1>2, <1>4, <2>1
<1>7. q = k
  BY <1>2, <1>5, <1>6
<1>8. s = r
  BY <1>2, <1>4, <1>7
<1> QED BY <1>7, <1>8 DEF q, s, x

LEMMA DivMod ==
  ASSUME NEW P \in Nat \ {0}, NEW x \in Nat
  PROVE  x % P \in 0..(P - 1) /\ x \div P \in Nat /\ x = P * (x \div P) + (x % P)
OBVIOUS

LEMMA ModAdd ==
  ASSUME NEW P \in Nat \ {0}, NEW x \in Nat, NEW n \in Nat
  PROVE  ((x % P) + n) % P = (x + n) % P
<1> DEFINE q == x \div P
           s == x % P
           m == (s + n) \div P
           u == (s + n) % P
<1>1. s \in 0..(P - 1) /\ q \in Nat /\ x = P * q + s
  BY DivMod
<1> HIDE DEF q, s
<1>2. s + n \in Nat
  BY <1>1
<1>3. u \in 0..(P - 1) /\ m \in Nat /\ s + n = P * m + u
  <2> DEFINE y == s + n
  <2>1. y \in Nat
    BY <1>2
  <2> HIDE DEF y
  <2>2. y % P \in 0..(P - 1) /\ y \div P \in Nat /\ y = P * (y \div P) + (y % P)
    BY <2>1, DivMod
  <2> QED BY <2>2 DEF y
<1> HIDE DEF m, u
<1> DEFINE k == q + m
<1>4. x + n = P * k + u
  <2>1. P * k = P * q + P * m
    BY <1>1, <1>3
  <2> QED BY <1>1, <1>3, <2>1
<1>5. (P * k + u) % P = u
  <2>1. k \in Int
    BY <1>1, <1>3
  <2> HIDE DEF k
  <2> QED BY <1>3, <2>1, Remainder
<1> QED BY <1>4, <1>5 DEF u, s

\* The way a node belongs to, and its place among the way's nodes.
LEMMA NodeOfWay ==
  ASSUME NEW W \in Nat \ {0}, NEW v \in 0..(W - 1), NEW w \in 0..(W - 1),
         NEW a \in Nat, NEW b \in Nat, a * W + v = b * W + w
  PROVE  a = b /\ v = w
<1>1. (W * a + v) % W = v /\ (W * a + v) \div W = a
  BY Remainder
<1>2. (W * b + w) % W = w /\ (W * b + w) \div W = b
  BY Remainder
<1> QED BY <1>1, <1>2

LEMMA LaneSum ==
  ASSUME NEW f \in [Lanes -> Int]
  PROVE  /\ MapThenSumSet(LAMBDA l : f[l], Lanes) = SumFunctionOnSet(f, Lanes)
         /\ IsFiniteSet(Lanes) /\ Cardinality(Lanes) = LaneCount /\ 0 \in Lanes
<1>1. IsFiniteSet(Lanes) /\ Cardinality(Lanes) = LaneCount /\ 0 \in Lanes
  BY FS_Interval, WorkloadAssumption DEF Lanes
<1>2. MapThenSumSet(LAMBDA l : f[l], Lanes) = SumFunctionOnSet(f, Lanes)
  BY DEF MapThenSumSet, SumFunctionOnSet, FoldFunctionOnSet, MapThenFoldSet
<1> QED BY <1>1, <1>2

\* A load goes on from where the loads before it came to.
LEMMA FollowSteps ==
  ASSUME link \in [Node -> Node], NEW x \in Node, NEW n \in Nat
  PROVE  Follow(x, 0) = x /\ Follow(x, n) \in Node /\ Follow(x, n + 1) = link[Follow(x, n)]
<1> DEFINE m == n + 1
<1>0. m \in Nat /\ m \in 1..m /\ m - 1 = n /\ n \in Nat
  OBVIOUS
<1> HIDE DEF m
<1>1. PICK l : l = link
  OBVIOUS
<1> DEFINE F == [i \in 1..m |-> l]
<1>2. F \in [1..m -> [Node -> Node]] /\ \A i \in 1..m : F[i] = l
  BY <1>1
<1> HIDE DEF F
<1>3. PICK h, c :
        /\ h \in [SUBSET (1..m) -> Node]
        /\ Choice(c, 1..m) /\ Largest(c, 1..m) /\ Fold(h, F, x, c, 1..m)
  BY <1>0, <1>2, LeftFold
<1>4. ASSUME NEW k \in 0..m PROVE Applied(h, l, x, k)
  <2>1. ASSUME NEW T \in SUBSET (1..k)
        PROVE  h[T] = IF T = {} THEN x ELSE l[h[T \ {Max(T)}]]
    <3>1. T \in SUBSET (1..m)
      <4>1. \A i \in 1..k : i \in 1..m
        BY <1>0
      <4> QED BY <4>1
    <3>2. CASE T = {}
      BY <1>3, <3>1, <3>2 DEF Fold
    <3>3. CASE T # {}
      <4>1. c[T] = Max(T) /\ c[T] \in 1..m
        BY <1>3, <3>1, <3>3 DEF Largest, Choice
      <4>2. h[T] = F[c[T]][h[T \ {c[T]}]]
        BY <1>3, <3>1, <3>3 DEF Fold
      <4> QED BY <1>2, <3>3, <4>1, <4>2
    <3> QED BY <3>2, <3>3
  <2> QED BY <2>1 DEF Applied
<1>5. ASSUME NEW k \in 0..m PROVE Follow(x, k) = h[1..k]
  <2>1. k \in Nat
    BY <1>0
  <2>2. FoldLeft(LAMBDA p, i : l[p], x, [i \in 1..k |-> i]) = h[1..k]
    BY <1>4, <2>1, AppliedIsThis
  <2>3. Follow(x, k) = FoldLeft(LAMBDA p, i : l[p], x, [i \in 1..k |-> i])
    BY <1>1 DEF Follow
  <2> QED BY <2>2, <2>3
<1>6. h[{}] = x /\ h[1..m] = F[m][h[1..(m - 1)]]
  <2>1. Largest(c, 1..m) /\ Fold(h, F, x, c, 1..m)
    BY <1>3
  <2>2. h[{}] = x /\ \A i \in 1..m : h[1..i] = F[i][h[1..(i - 1)]]
    BY <1>0, <2>1, FoldSteps
  <2> QED BY <1>0, <2>2
<1>7. Follow(x, 0) = x
  <2>1. 0 \in 0..m /\ 1..0 = {}
    BY <1>0
  <2> QED BY <1>5, <1>6, <2>1
<1>8. Follow(x, n) = h[1..n] /\ h[1..n] \in Node
  <2>1. n \in 0..m /\ 1..n \in SUBSET (1..m)
    <3>1. n \in 0..m /\ \A i \in 1..n : i \in 1..m
      BY <1>0
    <3> QED BY <3>1
  <2> QED BY <1>3, <1>5, <2>1
<1>9. Follow(x, m) = h[1..m]
  BY <1>0, <1>5
<1>10. Follow(x, m) = link[Follow(x, n)]
  BY <1>0, <1>1, <1>2, <1>6, <1>8, <1>9
<1> QED BY <1>7, <1>8, <1>10 DEF m

\* The nodes of way w, each once.
OnceEach(o, P, W, w) ==
  /\ o \in [0..(P - 1) -> Node]
  /\ \A a, b \in 0..(P - 1) : o[a] = o[b] => a = b
  /\ \A a \in 0..(P - 1) : \E b \in 0..(P - 1) : o[a] = b * W + w

\* Its nodes are linked one after the other, the last to the first.
Along(l, o, P) ==
  o \in [0..(P - 1) -> Node] /\ \A a \in 0..(P - 1) : l[o[a]] = o[(a + 1) % P]

LEMMA Wraps ==
  ASSUME NEW P \in Nat \ {0}, NEW a \in 0..(P - 1)
  PROVE  a % P = a /\ (P + a) % P = a /\ (a + P) % P = a
<1>1. PICK k \in Int : k = 0
  OBVIOUS
<1>2. (P * k + a) % P = a
  BY Remainder
<1>3. PICK j \in Int : j = 1
  OBVIOUS
<1>4. (P * j + a) % P = a
  BY Remainder
<1>5. P * k = 0 /\ P * j = P
  BY <1>1, <1>3
<1>6. P * k + a = a /\ P * j + a = P + a /\ P + a = a + P
  BY <1>5
<1> QED BY <1>2, <1>4, <1>6

LEMMA GoesAround ==
  ASSUME link \in [Node -> Node], NEW P \in Nat \ {0}, NEW o,
         Along(link, o, P), NEW a \in 0..(P - 1), NEW n \in Nat
  PROVE  Follow(o[a], n) = o[(a + n) % P]
<1> DEFINE x == o[a]
           S == {k \in Nat : Follow(x, k) = o[(a + k) % P]}
<1>1. x \in Node
  BY DEF Along
<1> HIDE DEF x
<1>2. 0 \in S
  <2>1. (a + 0) % P = a
    BY Wraps
  <2>2. Follow(x, 0) = x
    BY <1>1, FollowSteps
  <2> QED BY <2>1, <2>2 DEF x
<1>3. ASSUME NEW k \in Nat, k \in S PROVE k + 1 \in S
  <2> DEFINE b == (a + k) % P
  <2>1. b \in 0..(P - 1)
    OBVIOUS
  <2>2. (b + 1) % P = (a + (k + 1)) % P
    <3>1. a + k \in Nat /\ (a + k) + 1 = a + (k + 1)
      OBVIOUS
    <3> DEFINE y == a + k
    <3>2. ((y % P) + 1) % P = (y + 1) % P
      <4>1. y \in Nat
        BY <3>1
      <4> HIDE DEF y
      <4> QED BY <4>1, ModAdd
    <3> QED BY <3>1, <3>2
  <2>3. Follow(x, k) = o[b]
    BY <1>3
  <2> HIDE DEF b
  <2>4. Follow(x, k + 1) = link[o[b]]
    BY <1>1, <2>3, FollowSteps
  <2>5. link[o[b]] = o[(b + 1) % P]
    BY <2>1 DEF Along
  <2> QED BY <2>2, <2>4, <2>5
<1> HIDE DEF S
<1>4. Nat \subseteq S
  BY <1>2, <1>3, NatSetInduction
<1> QED BY <1>4 DEF S, x

\* Once around, from wherever on the way the chase is.
LEMMA OnceAround ==
  ASSUME link \in [Node -> Node], NEW P \in Nat \ {0}, NEW o,
         Along(link, o, P), NEW a \in 0..(P - 1)
  PROVE  /\ Follow(o[a], P) = o[a]
         /\ {Follow(o[a], n) : n \in 0..(P - 1)} = {o[b] : b \in 0..(P - 1)}
<1>1. (a + P) % P = a
  BY Wraps
<1>2. Follow(o[a], P) = o[a]
  BY <1>1, GoesAround
<1>3. ASSUME NEW n \in 0..(P - 1)
      PROVE  \E b \in 0..(P - 1) : Follow(o[a], n) = o[b]
  <2>1. (a + n) % P \in 0..(P - 1)
    OBVIOUS
  <2>2. n \in Nat
    OBVIOUS
  <2>3. Follow(o[a], n) = o[(a + n) % P]
    BY <2>2, GoesAround
  <2> QED BY <2>1, <2>3
<1>4. ASSUME NEW b \in 0..(P - 1)
      PROVE  \E n \in 0..(P - 1) : Follow(o[a], n) = o[b]
  <2>1. CASE a <= b
    <3>1. b - a \in 0..(P - 1) /\ a + (b - a) = b
      BY <2>1
    <3>2. b % P = b
      BY Wraps
    <3> DEFINE n == b - a
    <3>3. n \in Nat /\ a + n = b
      BY <3>1
    <3>4. Follow(o[a], n) = o[(a + n) % P]
      <4> HIDE DEF n
      <4> QED BY <3>3, GoesAround
    <3> QED BY <3>1, <3>2, <3>3, <3>4
  <2>2. CASE a > b
    <3> DEFINE n == P + b - a
    <3>1. n \in 0..(P - 1) /\ a + n = P + b
      BY <2>2
    <3>2. (P + b) % P = b
      BY Wraps
    <3> HIDE DEF n
    <3>3. Follow(o[a], n) = o[(a + n) % P]
      BY <3>1, GoesAround
    <3> QED BY <3>1, <3>2, <3>3
  <2> QED BY <2>1, <2>2
<1>5. {Follow(o[a], n) : n \in 0..(P - 1)} = {o[b] : b \in 0..(P - 1)}
  BY SMTT(30), <1>3, <1>4
<1> QED BY <1>2, <1>5

LEMMA NodesOfAWay ==
  ASSUME NEW P \in Nat \ {0}, NEW W \in Nat, NEW w, NEW o, OnceEach(o, P, W, w)
  PROVE  Cardinality({o[b] : b \in 0..(P - 1)}) = P
<1> DEFINE D == 0..(P - 1)
           R == {o[b] : b \in D}
<1>1. IsFiniteSet(D) /\ Cardinality(D) = P
  BY FS_Interval
<1>2. o \in Bijection(D, R)
  BY DEF OnceEach, Bijection, Injection, Surjection, IsInjective
<1>3. ExistsBijection(D, R)
  BY <1>2 DEF ExistsBijection
<1>4. Cardinality(R) = P
  <2> HIDE DEF D, R
  <2> QED BY <1>1, <1>3, FS_Bijection
<1> QED BY <1>4

LEMMA WaysApart ==
  ASSUME NEW P \in Nat \ {0}, NEW W \in Nat \ {0},
         NEW v \in 0..(W - 1), NEW w \in 0..(W - 1), NEW o, NEW q,
         OnceEach(o, P, W, v), OnceEach(q, P, W, w),
         NEW a \in 0..(P - 1), NEW b \in 0..(P - 1), o[a] = q[b]
  PROVE  v = w
<1>1. PICK i \in 0..(P - 1) : o[a] = i * W + v
  BY DEF OnceEach
<1>2. PICK j \in 0..(P - 1) : q[b] = j * W + w
  BY DEF OnceEach
<1> DEFINE x == i * W + v
           y == j * W + w
<1>3. x = y
  <2>1. o[a] = x /\ q[b] = y
    BY <1>1, <1>2
  <2> HIDE DEF x, y
  <2> QED BY <2>1
<1> QED BY <1>3, NodeOfWay

LEMMA CountedFromZero ==
  ASSUME NEW n \in Nat
  PROVE  IsFiniteSet(0..(n - 1)) /\ Cardinality(0..(n - 1)) = n
BY FS_Interval

AllOnce(q, P, W) == \A w \in 1..W : OnceEach(q[w], P, W, w - 1)

AllNodes(q, P, W) == UNION {{q[w][b] : b \in 0..(P - 1)} : w \in 1..W}

LEMMA NodesOfAllWays ==
  ASSUME NEW P \in Nat \ {0}, NEW W \in Nat \ {0}, NEW q, AllOnce(q, P, W)
  PROVE  Cardinality(AllNodes(q, P, W)) = P * W
<1> DEFINE N == P * W
           D == 0..(N - 1)
           way(m) == (m % W) + 1
           nth(m) == m \div W
           f == [m \in D |-> q[way(m)][nth(m)]]
           U == UNION {{q[w][b] : b \in 0..(P - 1)} : w \in 1..W}
<1>1. N \in Nat /\ IsFiniteSet(D) /\ Cardinality(D) = N
  <2>1. N \in Nat
    OBVIOUS
  <2> HIDE DEF N
  <2> QED BY <2>1, CountedFromZero
<1>2. ASSUME NEW m \in D
      PROVE  m \in Nat /\ way(m) \in 1..W /\ nth(m) \in 0..(P - 1) /\ m = W * nth(m) + (way(m) - 1)
  <2>1. m \in Nat /\ m < P * W
    BY <1>1
  <2>2. m % W \in 0..(W - 1) /\ nth(m) \in Nat /\ m = W * nth(m) + (m % W)
    BY <2>1, DivMod
  <2>3. nth(m) < P
    <3> DEFINE k == nth(m)
               r == m % W
    <3>1. k \in Nat /\ r \in 0..(W - 1) /\ W * k + r < P * W
      BY <2>1, <2>2
    <3> HIDE DEF k, r
    <3>2. ASSUME k >= P PROVE FALSE
      <4>1. P * W <= k * W
        BY <3>1, <3>2, ProductOrder
      <4>2. k * W = W * k
        BY <3>1
      <4> QED BY <3>1, <4>1, <4>2
    <3> QED BY <3>1, <3>2 DEF k
  <2> QED BY <2>1, <2>2, <2>3
<1>3. ASSUME NEW m \in D PROVE f[m] = q[way(m)][nth(m)] /\ f[m] \in U
  <2>1. f[m] = q[way(m)][nth(m)]
    OBVIOUS
  <2>2. way(m) \in 1..W /\ nth(m) \in 0..(P - 1)
    BY <1>2
  <2> HIDE DEF way, nth, f, D
  <2>3. f[m] \in {q[way(m)][b] : b \in 0..(P - 1)}
    BY <2>1, <2>2
  <2> QED BY <2>1, <2>2, <2>3
<1> HIDE DEF N
<1>4. ASSUME NEW m \in D, NEW k \in D, f[m] = f[k] PROVE m = k
  <2>1. /\ way(m) - 1 \in 0..(W - 1) /\ way(k) - 1 \in 0..(W - 1)
        /\ way(m) \in 1..W /\ way(k) \in 1..W
        /\ nth(m) \in 0..(P - 1) /\ nth(k) \in 0..(P - 1)
    BY <1>2
  <2>2. m = W * nth(m) + (way(m) - 1) /\ k = W * nth(k) + (way(k) - 1)
    BY <1>2
  <2>3. q[way(m)][nth(m)] = q[way(k)][nth(k)]
    BY <1>3, <1>4
  <2> HIDE DEF way, nth, f, D, U
  <2>4. OnceEach(q[way(m)], P, W, way(m) - 1) /\ OnceEach(q[way(k)], P, W, way(k) - 1)
    BY <2>1 DEF AllOnce
  <2>5. way(m) - 1 = way(k) - 1
    BY SMTT(30), <2>1, <2>3, <2>4, WaysApart
  <2>6. way(m) = way(k)
    BY <2>1, <2>5
  <2>7. nth(m) = nth(k)
    BY <2>1, <2>3, <2>4, <2>6 DEF OnceEach
  <2> QED BY <2>2, <2>6, <2>7
<1>5. ASSUME NEW u \in U PROVE \E m \in D : f[m] = u
  <2>1. PICK w \in 1..W, b \in 0..(P - 1) : u = q[w][b]
    OBVIOUS
  <2> DEFINE m == W * b + (w - 1)
  <2>2. w - 1 \in 0..(W - 1) /\ b \in Int
    OBVIOUS
  <2>3. m % W = w - 1 /\ m \div W = b
    BY ZenonT(30), <2>2, Remainder
  <2>4. m \in D
    <3>1. b * W <= (P - 1) * W
      BY ProductOrder
    <3>2. b * W \in Nat /\ b * W = W * b /\ (P - 1) * W = P * W - W
      OBVIOUS
    <3> QED BY <3>1, <3>2 DEF N
  <2> HIDE DEF m
  <2>5. way(m) = w /\ nth(m) = b
    BY <2>3
  <2> QED BY <1>3, <2>1, <2>4, <2>5
<1> HIDE DEF D, U, way, nth
<1>6. f \in Bijection(D, U)
  <2>1. f \in [D -> U]
    BY <1>3
  <2> HIDE DEF f
  <2> QED BY <1>4, <1>5, <2>1 DEF Bijection, Injection, Surjection, IsInjective
<1>7. ExistsBijection(D, U)
  BY <1>6 DEF ExistsBijection
<1>8. Cardinality(U) = N
  BY <1>1, <1>7, FS_Bijection
<1> QED BY <1>8 DEF U, N, AllNodes

LEMMA WaySizes ==
  ASSUME NEW k
  PROVE  /\ WaysOf(k) \in Nat \ {0} /\ PerWay(k) \in Nat
         /\ PerWay(k) * WaysOf(k) <= Nodes
         /\ PerWay(k) * WaysOf(k) > Nodes - WaysOf(k)
<1> DEFINE W == WaysOf(k)
<1>1. W \in Nat \ {0} /\ Nodes \in Nat
  BY WorkloadAssumption DEF WaysOf
<1> HIDE DEF W
<1> DEFINE P == Nodes \div W
           r == Nodes % W
<1>2. r \in 0..(W - 1) /\ P \in Nat /\ Nodes = W * P + r
  BY <1>1, DivMod
<1> HIDE DEF P, r
<1>3. P * W = W * P /\ P * W \in Nat
  BY <1>1, <1>2
<1>4. P * W <= Nodes /\ P * W > Nodes - W
  BY <1>1, <1>2, <1>3
<1>5. PerWay(k) = P
  BY DEF PerWay, P, W
<1> QED BY <1>1, <1>2, <1>4, <1>5 DEF W

LEMMA OwnNodesOnce ==
  ASSUME NumbersFit, NEW k, PerWay(k) >= 1, NEW w \in 0..(WaysOf(k) - 1)
  PROVE  OnceEach(OwnNodes(k, w), PerWay(k), WaysOf(k), w)
<1> DEFINE P == PerWay(k)
           W == WaysOf(k)
           o == [i \in 0..(P - 1) |-> i * W + w]
<1>1. W \in Nat \ {0} /\ P \in Nat \ {0} /\ P * W <= Nodes /\ Nodes \in Nat /\ w \in 0..(W - 1)
  BY WaySizes, WorkloadAssumption
<1>2. OwnNodes(k, w) = [i \in 0..(P - 1) |-> o[i] % OrderNumbers]
  BY DEF OwnNodes
<1> HIDE DEF P, W
<1>3. ASSUME NEW i \in 0..(P - 1) PROVE o[i] = i * W + w /\ o[i] \in Node
  <2>1. i * W <= (P - 1) * W
    BY <1>1, ProductOrder
  <2>2. i * W \in Nat /\ (P - 1) * W = P * W - W /\ P * W \in Nat
    BY <1>1
  <2>3. i * W + w \in 0..(Nodes - 1)
    BY <1>1, <2>1, <2>2
  <2> QED BY <2>3 DEF Node
<1>4. ASSUME NEW i \in 0..(P - 1), NEW j \in 0..(P - 1), o[i] = o[j] PROVE i = j
  <2>1. i * W + w = j * W + w
    BY <1>3, <1>4
  <2> QED BY <1>1, <2>1, NodeOfWay
<1>5. o \in [0..(P - 1) -> Node]
  BY <1>3
<1>6. OnceEach(o, P, W, w)
  <2> HIDE DEF o
  <2> QED BY <1>3, <1>4, <1>5 DEF OnceEach
<1>7. \A i \in 0..(P - 1) : o[i] % OrderNumbers = o[i]
  <2>1. \A x \in Node : x % OrderNumbers = x
    BY WorkloadAssumption DEF Node, NumbersFit
  <2> HIDE DEF o
  <2> QED BY <1>5, <2>1
<1>8. OwnNodes(k, w) = o
  <2>1. o = [i \in 0..(P - 1) |-> o[i]]
    OBVIOUS
  <2> HIDE DEF o
  <2> QED BY <1>2, <1>7, <2>1
<1> QED BY <1>6, <1>8 DEF P, W

\* A turn of the shuffle.
LEMMA SwapKeeps ==
  ASSUME NEW P \in Nat \ {0}, NEW W, NEW w, NEW o, OnceEach(o, P, W, w),
         NEW i \in 0..(P - 1), NEW j \in 0..(P - 1), NEW p,
         p = [a \in 0..(P - 1) |-> IF a = j THEN o[i] ELSE IF a = i THEN o[j] ELSE o[a]]
  PROVE  OnceEach(p, P, W, w)
<1> DEFINE s(a) == IF a = j THEN i ELSE IF a = i THEN j ELSE a
<1>1. ASSUME NEW a \in 0..(P - 1) PROVE s(a) \in 0..(P - 1) /\ p[a] = o[s(a)]
  OBVIOUS
<1>2. \A a, b \in 0..(P - 1) : s(a) = s(b) => a = b
  OBVIOUS
<1>3. DOMAIN p = 0..(P - 1)
  OBVIOUS
<1>4. p = [a \in 0..(P - 1) |-> p[a]]
  OBVIOUS
<1> HIDE DEF s
<1>5. \A a \in 0..(P - 1) : p[a] \in Node /\ \E b \in 0..(P - 1) : p[a] = b * W + w
  BY ZenonT(30), <1>1 DEF OnceEach
<1>6. \A a, b \in 0..(P - 1) : p[a] = p[b] => a = b
  BY <1>1, <1>2 DEF OnceEach
<1>7. p \in [0..(P - 1) -> Node]
  BY <1>4, <1>5
<1> QED BY <1>5, <1>6, <1>7 DEF OnceEach

LEMMA MaxOfOne ==
  ASSUME NEW a \in Int
  PROVE  Max({a}) = a
BY DEF Max

\* The chase is linked through a way whose order is done.
Relinked(l, o, P) ==
  [x \in Node |-> IF x \in Range(o) THEN o[(LastPlace(o, x) + 1) % P] ELSE l[x]]

LEMMA LinkedThrough ==
  ASSUME NEW P \in Nat \ {0}, NEW W \in Nat \ {0}, NEW w \in 0..(W - 1), NEW o, OnceEach(o, P, W, w),
         NEW l \in [Node -> Node]
  PROVE  /\ Relinked(l, o, P) \in [Node -> Node]
         /\ Along(Relinked(l, o, P), o, P)
         /\ \A v \in 0..(W - 1) : \A q :
              v # w /\ OnceEach(q, P, W, v) /\ Along(l, q, P) => Along(Relinked(l, o, P), q, P)
<1> DEFINE R == Relinked(l, o, P)
           lastOf(x) == LastPlace(o, x)
<1>1. DOMAIN o = 0..(P - 1) /\ \A a \in 0..(P - 1) : o[a] \in Node /\ o[a] \in Range(o)
  BY DEF OnceEach, Range
<1>3. ASSUME NEW a \in 0..(P - 1) PROVE lastOf(o[a]) = a
  <2>1. {i \in DOMAIN o : o[i] = o[a]} = {a}
    BY <1>1 DEF OnceEach
  <2> QED BY <2>1, MaxOfOne DEF LastPlace
<1>2. ASSUME NEW x \in Range(o) PROVE \E a \in 0..(P - 1) : o[a] = x /\ lastOf(x) = a
  <2>1. PICK a \in 0..(P - 1) : o[a] = x
    BY <1>1 DEF Range
  <2> HIDE DEF lastOf
  <2> QED BY <1>3, <2>1
<1>4. \A x \in Node : R[x] = IF x \in Range(o) THEN o[(lastOf(x) + 1) % P] ELSE l[x]
  BY DEF Relinked
<1>5. ASSUME NEW x \in Node PROVE R[x] \in Node
  <2> HIDE DEF lastOf
  <2>1. CASE x \in Range(o)
    <3>1. PICK a \in 0..(P - 1) : lastOf(x) = a
      BY <1>2, <2>1
    <3>2. (a + 1) % P \in 0..(P - 1)
      OBVIOUS
    <3>3. R[x] = o[(a + 1) % P]
      BY <1>4, <2>1, <3>1
    <3> HIDE DEF R
    <3> QED BY <1>1, <3>2, <3>3
  <2>2. CASE x \notin Range(o)
    BY <1>4, <2>2
  <2> QED BY <2>1, <2>2
<1>6. R \in [Node -> Node]
  <2>1. R = [x \in Node |-> R[x]]
    BY DEF Relinked
  <2> HIDE DEF R
  <2> QED BY <1>5, <2>1
<1> HIDE DEF R, lastOf
<1>7. Along(R, o, P)
  <2>1. o \in [0..(P - 1) -> Node]
    BY DEF OnceEach
  <2>2. ASSUME NEW a \in 0..(P - 1) PROVE R[o[a]] = o[(a + 1) % P]
    BY <1>1, <1>3, <1>4
  <2> QED BY <2>1, <2>2 DEF Along
<1>8. ASSUME NEW v \in 0..(W - 1), NEW q, v # w, OnceEach(q, P, W, v), Along(l, q, P)
      PROVE  Along(R, q, P)
  <2>1. q \in [0..(P - 1) -> Node]
    BY <1>8 DEF OnceEach
  <2>2. ASSUME NEW b \in 0..(P - 1) PROVE R[q[b]] = q[(b + 1) % P]
    <3>1. q[b] \in Node /\ l[q[b]] = q[(b + 1) % P]
      BY <1>8, <2>1 DEF Along
    <3>2. q[b] \notin Range(o)
      <4>1. SUFFICES ASSUME q[b] \in Range(o) PROVE FALSE
        OBVIOUS
      <4>2. PICK a \in 0..(P - 1) : o[a] = q[b]
        BY <1>2, <4>1
      <4> QED BY <1>8, <4>2, WaysApart
    <3> QED BY <1>4, <3>1, <3>2
  <2> QED BY <2>1, <2>2 DEF Along
<1> QED BY <1>6, <1>7, <1>8 DEF R

Kernels == {"", "building", "mem_bw", "disp", "mem_lat", "mem_mlp"} \cup Compute

Counters ==
  /\ kernel \in Kernels /\ units \in Nat
  /\ kernel = "building" => chase \in {"mem_lat", "mem_mlp"}
  /\ NumbersFit => link \in [Node -> Node]
  /\ steps \in [Lanes -> Int] /\ written \in [0..(Words - 1) -> Int]

LanesStepped ==
  kernel \in Compute => \A l \in Lanes : steps[l] = units * StepsOf(kernel, l)

WordsSwept ==
  kernel = "mem_bw" => \A i \in 0..(Words - 1) : written[i] = units

CallsMade ==
  kernel = "disp" =>
    /\ mask + 1 \in Nat \ {0} /\ pos = units % (mask + 1)
    /\ \E S : called \in Seq(S)
    /\ Len(called) = units
    /\ \A i \in 1..units : called[i] = pattern[(i - 1) % (mask + 1)]

\* The ways before the last are linked, and this one is being shuffled; or all
\* are and the kernel follows them.
WaysBuilt ==
  LET P == PerWay(chase)  W == WaysOf(chase) IN
  NumbersFit /\ kernel \in {"building", "mem_lat", "mem_mlp"} =>
    /\ chase \in {"mem_lat", "mem_mlp"} /\ P >= 2
    /\ \E S : order \in Seq(S)
    /\ Len(order) \in 1..W /\ left \in 0..(P - 1)
    /\ kernel = "building" => units = 0 /\ Len(cur) = Len(order) - 1
    /\ kernel # "building" => kernel = chase /\ Len(order) = W /\ Len(cur) = W
    /\ cur \in Seq(Node)
    /\ \A w \in 1..Len(order) : OnceEach(order[w], P, W, w - 1)
    /\ \A w \in 1..Len(cur) : Along(link, order[w], P) /\ cur[w] = order[w][units % P]

WorkInv == Counters /\ LanesStepped /\ WordsSwept /\ CallsMade /\ WaysBuilt

LEMMA OpsExecuted ==
  ASSUME Counters, LanesStepped, kernel \in Compute
  PROVE  OpsPerStep(kernel) * MapThenSumSet(LAMBDA l : steps[l], Lanes) = units * OpsCounted(kernel)
<1> DEFINE sum == SumFunctionOnSet(steps, Lanes)
           L == LaneCount
<1>1. units \in Nat /\ L \in Nat /\ steps \in [Lanes -> Int]
  BY WorkloadAssumption DEF Counters
<1>2. /\ MapThenSumSet(LAMBDA l : steps[l], Lanes) = sum
      /\ IsFiniteSet(Lanes) /\ Cardinality(Lanes) = L /\ 0 \in Lanes
  BY <1>1, LaneSum
<1>3. \A l \in Lanes : steps[l] = units * StepsOf(kernel, l)
  BY DEF LanesStepped
<1>4. kernel = "int_lat" => sum = units * L
  <2>1. SUFFICES ASSUME kernel = "int_lat" PROVE sum = units * L
    OBVIOUS
  <2>2. steps[0] = units * L /\ \A l \in Lanes \ {0} : steps[l] = 0
    BY <1>1, <1>2, <1>3, <2>1 DEF StepsOf
  <2> QED BY <1>1, <1>2, <2>2, SumOfOne
<1>5. kernel = "fp_lat" => sum = units
  <2>1. SUFFICES ASSUME kernel = "fp_lat" PROVE sum = units
    OBVIOUS
  <2>2. steps[0] = units /\ \A l \in Lanes \ {0} : steps[l] = 0
    BY <1>1, <1>2, <1>3, <2>1 DEF StepsOf
  <2> QED BY <1>1, <1>2, <2>2, SumOfOne
<1>6. kernel \in {"int_thr", "mul_thr", "fp_thr"} => sum = units * L
  <2>1. SUFFICES ASSUME kernel \in {"int_thr", "mul_thr", "fp_thr"} PROVE sum = units * L
    OBVIOUS
  <2>2. \A l \in Lanes : steps[l] = units
    BY <1>1, <1>3, <2>1 DEF StepsOf
  <2>3. sum = units * Cardinality(Lanes)
    BY <1>1, <1>2, <2>2, SumOfEqual
  <2> QED BY <1>2, <2>3
<1> HIDE DEF sum, L
<1>7. \A k \in Nat : k * (units * L) = units * (k * L)
  BY <1>1
<1>8. OpsPerStep(kernel) * sum = units * OpsCounted(kernel)
  <2>1. CASE kernel = "int_lat"
    BY <1>4, <1>7, <2>1 DEF OpsPerStep, OpsCounted, L
  <2>2. CASE kernel = "fp_lat"
    BY <1>1, <1>5, <2>2 DEF OpsPerStep, OpsCounted
  <2>3. CASE kernel = "int_thr"
    BY <1>6, <1>7, <2>3 DEF OpsPerStep, OpsCounted, L
  <2>4. CASE kernel = "mul_thr"
    BY <1>6, <1>7, <2>4 DEF OpsPerStep, OpsCounted, L
  <2>5. CASE kernel = "fp_thr"
    BY <1>6, <1>7, <2>5 DEF OpsPerStep, OpsCounted, L
  <2> QED BY <2>1, <2>2, <2>3, <2>4, <2>5 DEF Compute
<1> QED BY <1>2, <1>8

LEMMA CountedIsDone ==
  ASSUME WorkInv
  PROVE  WorkIsWhatIsCounted
<1> USE DEF WorkInv
<1>1. kernel \in Compute =>
        OpsPerStep(kernel) * MapThenSumSet(LAMBDA l : steps[l], Lanes) = units * OpsCounted(kernel)
  BY OpsExecuted
<1>2. kernel = "mem_bw" => \A i \in DOMAIN written : written[i] = units
  BY DEF Counters, WordsSwept
<1>3. NumbersFit /\ kernel \in {"mem_lat", "mem_mlp"} =>
        \A w \in DOMAIN cur : cur[w] = order[w][units % PerWay(kernel)]
  <2>1. SUFFICES ASSUME NumbersFit, kernel \in {"mem_lat", "mem_mlp"}, NEW w \in DOMAIN cur
                 PROVE  cur[w] = order[w][units % PerWay(kernel)]
    OBVIOUS
  <2>2. kernel = chase /\ cur \in Seq(Node)
        /\ \A v \in 1..Len(cur) : cur[v] = order[v][units % PerWay(chase)]
    BY <2>1 DEF WaysBuilt
  <2>3. w \in 1..Len(cur)
    BY <2>1, <2>2, LenProperties
  <2> QED BY <2>2, <2>3
<1>4. kernel = "disp" =>
        /\ Len(called) = units
        /\ \A i \in DOMAIN called : called[i] = pattern[(i - 1) % (mask + 1)]
  <2>1. SUFFICES ASSUME kernel = "disp"
                 PROVE  /\ Len(called) = units
                        /\ \A i \in DOMAIN called : called[i] = pattern[(i - 1) % (mask + 1)]
    OBVIOUS
  <2>2. PICK S : called \in Seq(S)
    BY <2>1 DEF CallsMade
  <2>3. DOMAIN called = 1..Len(called)
    BY <2>2, LenProperties
  <2>4. Len(called) = units /\ \A i \in 1..units : called[i] = pattern[(i - 1) % (mask + 1)]
    BY <2>1 DEF CallsMade
  <2> QED BY <2>3, <2>4
<1> QED BY <1>1, <1>2, <1>3, <1>4 DEF WorkIsWhatIsCounted

LEMMA ChasesCovered ==
  ASSUME WorkInv
  PROVE  ChasesCoverTheBuffer
<1> DEFINE P == PerWay(kernel)
           W == WaysOf(kernel)
           Cycle(w) == {Follow(cur[w], n) : n \in 0..(P - 1)}
           WayNodes(w) == {order[w][b] : b \in 0..(P - 1)}
<1>1. SUFFICES ASSUME NumbersFit, kernel \in {"mem_lat", "mem_mlp"}
               PROVE  /\ \A w \in DOMAIN cur : Follow(cur[w], P) = cur[w] /\ Cardinality(Cycle(w)) = P
                      /\ \A v, w \in DOMAIN cur : v # w => Cycle(v) \cap Cycle(w) = {}
                      /\ Cardinality(UNION {Cycle(w) : w \in DOMAIN cur}) > Nodes - Len(cur)
  BY DEF ChasesCoverTheBuffer
<1>2. /\ P \in Nat /\ W \in Nat \ {0} /\ P * W > Nodes - W
  BY WaySizes
<1>3. /\ kernel = chase /\ P >= 2 /\ Len(cur) = W /\ cur \in Seq(Node) /\ Len(order) = W
      /\ \A w \in 1..Len(order) : OnceEach(order[w], P, W, w - 1)
      /\ \A w \in 1..Len(cur) : Along(link, order[w], P) /\ cur[w] = order[w][units % P]
  BY <1>1 DEF WorkInv, WaysBuilt
<1>4. units \in Nat /\ link \in [Node -> Node]
  BY <1>1 DEF WorkInv, Counters
<1> HIDE DEF P, W
<1>5. DOMAIN cur = 1..W /\ P \in Nat \ {0} /\ units % P \in 0..(P - 1)
  BY <1>2, <1>3, <1>4, LenProperties
<1>6. ASSUME NEW w \in 1..W
      PROVE  Follow(cur[w], P) = cur[w] /\ Cycle(w) = WayNodes(w)
  <2>1. PICK o, a : o = order[w] /\ a = units % P
    OBVIOUS
  <2>2. Along(link, o, P) /\ cur[w] = o[a] /\ a \in 0..(P - 1)
    BY <1>3, <1>5, <2>1
  <2>3. /\ Follow(o[a], P) = o[a]
        /\ {Follow(o[a], n) : n \in 0..(P - 1)} = {o[b] : b \in 0..(P - 1)}
    BY <1>4, <1>5, <2>2, OnceAround
  <2> QED BY <2>1, <2>2, <2>3
<1>7. ASSUME NEW w \in 1..W
      PROVE  Cardinality(WayNodes(w)) = P
  <2>1. OnceEach(order[w], P, W, w - 1)
    BY <1>3
  <2> QED BY <1>2, <1>5, <2>1, NodesOfAWay
<1>8. ASSUME NEW v \in 1..W, NEW w \in 1..W, v # w
      PROVE  WayNodes(v) \cap WayNodes(w) = {}
  <2>1. SUFFICES ASSUME NEW a \in 0..(P - 1), NEW b \in 0..(P - 1), order[v][a] = order[w][b]
                 PROVE  FALSE
    OBVIOUS
  <2>2. OnceEach(order[v], P, W, v - 1) /\ OnceEach(order[w], P, W, w - 1)
        /\ v - 1 \in 0..(W - 1) /\ w - 1 \in 0..(W - 1)
    BY <1>2, <1>3
  <2>3. v - 1 = w - 1
    BY SMTT(30), <1>2, <1>5, <2>1, <2>2, WaysApart
  <2> QED BY <1>2, <1>8, <2>3
<1>9. Cardinality(UNION {WayNodes(w) : w \in 1..W}) = P * W
  <2>1. PICK q : q = order
    OBVIOUS
  <2>2. AllOnce(q, P, W)
    BY <1>3, <2>1 DEF AllOnce
  <2>3. Cardinality(AllNodes(q, P, W)) = P * W
    BY <1>2, <1>5, <2>2, NodesOfAllWays
  <2>4. AllNodes(q, P, W) = UNION {WayNodes(w) : w \in 1..W}
    BY <2>1 DEF AllNodes
  <2> QED BY <2>3, <2>4
<1>10. {Cycle(w) : w \in DOMAIN cur} = {WayNodes(w) : w \in 1..W}
  <2> HIDE DEF Cycle, WayNodes
  <2> QED BY <1>5, <1>6
<1> HIDE DEF Cycle, WayNodes
<1> QED BY <1>2, <1>3, <1>5, <1>6, <1>7, <1>8, <1>9, <1>10

LEMMA WorkFirst == WorkloadInit => WorkInv
<1> SUFFICES ASSUME WorkloadInit PROVE WorkInv
  OBVIOUS
<1>1. Counters
  <2>1. kernel \in Kernels /\ units \in Nat
    BY DEF WorkloadInit, Kernels
  <2>6. kernel # "building"
    <3> DEFINE before == kernel
    <3>1. before = ""
      BY DEF WorkloadInit
    <3> QED BY <3>1
  <2>2. link \in [Node -> Node]
    BY DEF WorkloadInit
  <2>3. steps = [l \in Lanes |-> 0] /\ written = [i \in 0..(Words - 1) |-> 0]
    BY DEF WorkloadInit
  <2>4. steps \in [Lanes -> Int]
    BY <2>3
  <2>5. written \in [0..(Words - 1) -> Int]
    BY <2>3
  <2> QED BY <2>1, <2>2, <2>4, <2>5, <2>6 DEF Counters
<1> QED BY <1>1 DEF WorkloadInit, WorkInv, LanesStepped, WordsSwept, CallsMade, WaysBuilt, Compute

LEMMA StartWork ==
  ASSUME WorkInv, StartCompute \/ StartSweep \/ StartDispatch
  PROVE  WorkInv'
<1> USE DEF WorkInv
<1>1. CASE StartCompute
  <2>1. kernel' \in Compute /\ units' = 0 /\ link' = link /\ written' = written
        /\ steps' = [l \in Lanes |-> 0]
    BY <1>1 DEF StartCompute
  <2>2. LanesStepped'
    <3>1. StepsOf(kernel, 0)' \in Int /\ \A l \in Lanes : StepsOf(kernel, l)' \in Int
      BY <2>1, WorkloadAssumption DEF StepsOf, Compute
    <3> QED BY <2>1, <3>1 DEF LanesStepped
  <2>3. Counters'
    <3>1. steps' \in [Lanes -> Int]
      BY <2>1
    <3>2. kernel' \in Kernels /\ kernel' # "building"
      BY <2>1 DEF Kernels, Compute
    <3>3. NumbersFit => link' \in [Node -> Node]
      BY <2>1 DEF Counters
    <3>4. units' \in Nat /\ written' \in [0..(Words - 1) -> Int]
      BY <2>1 DEF Counters
    <3> QED BY <3>1, <3>2, <3>3, <3>4 DEF Counters
  <2>4. WordsSwept' /\ CallsMade' /\ WaysBuilt'
    BY <2>1 DEF WordsSwept, CallsMade, WaysBuilt, Compute
  <2> QED BY <2>2, <2>3, <2>4
<1>2. CASE StartSweep
  <2>1. kernel' = "mem_bw" /\ units' = 0 /\ link' = link /\ steps' = steps
        /\ written' = [i \in 0..(Words - 1) |-> 0]
    BY <1>2 DEF StartSweep, Counters
  <2>2. Counters'
    <3>1. written' \in [0..(Words - 1) -> Int]
      BY <2>1
    <3> QED BY <2>1, <3>1 DEF Counters, Kernels
  <2>3. WordsSwept'
    BY <2>1 DEF WordsSwept
  <2>4. LanesStepped' /\ CallsMade' /\ WaysBuilt'
    BY <2>1 DEF LanesStepped, CallsMade, WaysBuilt, Compute
  <2> QED BY <2>2, <2>3, <2>4
<1>3. CASE StartDispatch
  <2>1. kernel' = "disp" /\ units' = 0 /\ pos' = 0 /\ called' = <<>>
        /\ UNCHANGED <<link, steps, written>>
    BY <1>3 DEF StartDispatch
  <2>2. PICK period \in Periods : mask' = period - 1
    BY <1>3 DEF StartDispatch
  <2>3. mask' + 1 \in Nat \ {0} /\ mask' + 1 - 1 = mask'
    BY <2>2, WorkloadAssumption
  <2>4. CallsMade'
    <3>1. 0 % (mask' + 1) = 0
      BY <2>3
    <3>2. called' \in Seq({}) /\ Len(called') = 0 /\ 1..0 = {}
      BY <2>1
    <3> QED BY <2>1, <2>3, <3>1, <3>2 DEF CallsMade
  <2> QED BY <2>1, <2>4 DEF Counters, Kernels, LanesStepped, WordsSwept, WaysBuilt, Compute
<1> QED BY <1>1, <1>2, <1>3

LEMMA ChaseStarts ==
  ASSUME WorkInv, NumbersFit, NEW k \in {"mem_lat", "mem_mlp"}, StartChase(k)
  PROVE  WorkInv'
<1> USE DEF WorkInv
<1> DEFINE o == OwnNodes(k, 0)
           P == PerWay(k)
           W == WaysOf(k)
<1>1. /\ P >= 2 /\ kernel' = "building" /\ chase' = k /\ units' = 0
      /\ order' = <<o>> /\ left' = P - 1 /\ cur' = <<>>
      /\ UNCHANGED <<link, steps, written>>
  BY DEF StartChase
<1>2. W \in Nat \ {0} /\ P \in Nat
  BY WaySizes
<1>3. OnceEach(o, P, W, 0)
  BY <1>1, <1>2, OwnNodesOnce
<1>4. PerWay(chase)' = P /\ WaysOf(chase)' = W
  BY <1>1 DEF PerWay, WaysOf
<1> HIDE DEF o, P, W
<1>5. order' \in Seq({o}) /\ Len(order') = 1 /\ order'[1] = o
  BY <1>1
<1>6. cur' \in Seq(Node) /\ Len(cur') = 0
  BY <1>1
<1>7. WaysBuilt'
  <2>1. (\E S : order' \in Seq(S)) /\ Len(order') \in 1..W /\ left' \in 0..(P - 1)
    <3>1. \E S : order' \in Seq(S)
      BY <1>5
    <3> QED BY <1>1, <1>2, <1>5, <3>1
  <2>2. \A w \in 1..Len(order') : OnceEach(order'[w], P, W, w - 1)
    <3>1. \A w \in 1..Len(order') : w = 1 /\ w - 1 = 0
      BY <1>5
    <3>2. OnceEach(order'[1], P, W, 0)
      BY <1>3, <1>5
    <3> QED BY <3>1, <3>2
  <2>3. 1..Len(cur') = {} /\ Len(cur') = Len(order') - 1
    BY <1>5, <1>6
  <2> QED BY <1>1, <1>4, <1>6, <2>1, <2>2, <2>3 DEF WaysBuilt
<1>8. Counters'
  BY <1>1 DEF Counters, Kernels
<1> QED BY <1>1, <1>7, <1>8 DEF LanesStepped, WordsSwept, CallsMade, Compute

LEMMA ShuffleStep ==
  ASSUME WorkInv, NumbersFit, Swap
  PROVE  WorkInv'
<1> USE DEF WorkInv
<1> DEFINE P == PerWay(chase)
           W == WaysOf(chase)
           n == Len(order)
           o == order[n]
<1>1. kernel = "building" /\ left > 0 /\ left' = left - 1
      /\ UNCHANGED <<kernel, chase, units, steps, written, link, cur>>
  BY DEF Swap
<1>2. PICK j \in 0..left :
        order' = [order EXCEPT ![Len(order)][left] = order[Len(order)][j],
                               ![Len(order)][j] = order[Len(order)][left]]
  BY DEF Swap
<1>3. /\ chase \in {"mem_lat", "mem_mlp"} /\ P >= 2
      /\ n \in 1..W /\ left \in 0..(P - 1)
      /\ units = 0 /\ Len(cur) = n - 1 /\ cur \in Seq(Node)
      /\ \A w \in 1..n : OnceEach(order[w], P, W, w - 1)
      /\ \A w \in 1..Len(cur) : Along(link, order[w], P) /\ cur[w] = order[w][units % P]
  BY <1>1 DEF WaysBuilt
<1>4. PICK S : order \in Seq(S)
  BY <1>1 DEF WaysBuilt
<1>5. W \in Nat \ {0} /\ P \in Nat \ {0} /\ DOMAIN order = 1..n /\ n \in Nat
  BY <1>3, <1>4, WaySizes, LenProperties
<1>6. PerWay(chase)' = P /\ WaysOf(chase)' = W
  BY <1>1 DEF PerWay, WaysOf
<1> DEFINE p == [a \in 0..(P - 1) |-> IF a = j THEN o[left] ELSE IF a = left THEN o[j] ELSE o[a]]
<1>7. OnceEach(p, P, W, n - 1)
  <2>1. OnceEach(o, P, W, n - 1) /\ j \in 0..(P - 1) /\ left \in 0..(P - 1)
    BY <1>3, <1>5
  <2> HIDE DEF P, W, o, n
  <2>2. p = [a \in 0..(P - 1) |-> IF a = j THEN o[left] ELSE IF a = left THEN o[j] ELSE o[a]]
    OBVIOUS
  <2> HIDE DEF p
  <2> QED BY <1>5, <2>1, <2>2, SwapKeeps
<1>8. DOMAIN order' = 1..n /\ order'[n] = p /\ \A w \in 1..n : w # n => order'[w] = order[w]
  <2>1. DOMAIN o = 0..(P - 1) /\ o = [a \in 0..(P - 1) |-> o[a]]
    <3>1. OnceEach(o, P, W, n - 1)
      BY <1>3, <1>5
    <3> HIDE DEF o, P, W, n
    <3> QED BY <3>1 DEF OnceEach
  <2>2. order' = [order EXCEPT ![n] = [[o EXCEPT ![left] = o[j]] EXCEPT ![j] = o[left]]]
    BY <1>2
  <2>3. n \in 1..n
    BY <1>3, <1>5
  <2>4. p = [[o EXCEPT ![left] = o[j]] EXCEPT ![j] = o[left]]
    <3> HIDE DEF P, n, o
    <3> QED BY <2>1
  <2> HIDE DEF p, o, P, n
  <2> QED BY <1>5, <2>2, <2>3, <2>4
<1> HIDE DEF p
<1>9. order' \in Seq({order'[w] : w \in 1..n}) /\ Len(order') = n
  <2> DEFINE T == {order'[w] : w \in 1..n}
  <2>0. order' = [w \in 1..n |-> order'[w]]
    <3>1. order' = [order EXCEPT ![n] = [[o EXCEPT ![left] = o[j]] EXCEPT ![j] = o[left]]]
      BY <1>2
    <3> HIDE DEF n
    <3> QED BY <1>8, <1>5, <3>1
  <2>1. order' \in [1..n -> T]
    <3>1. \A w \in 1..n : order'[w] \in T
      OBVIOUS
    <3> HIDE DEF T, n
    <3> QED BY <2>0, <3>1
  <2>2. order' \in Seq(T)
    <3> HIDE DEF T, n
    <3> QED BY <1>5, <2>1, SeqDef
  <2>3. Len(order') = n
    <3> HIDE DEF T, n
    <3> QED BY <1>5, <1>8, <2>2, LenProperties
  <2> QED BY <2>2, <2>3
<1> HIDE DEF P, W, n, o
<1>10. \A w \in 1..n : OnceEach(order'[w], P, W, w - 1)
  BY <1>3, <1>7, <1>8
<1>11. \A w \in 1..Len(cur') : Along(link', order'[w], P) /\ cur'[w] = order'[w][units' % P]
  <2>1. \A w \in 1..Len(cur) : w \in 1..n /\ w # n
    BY <1>3, <1>5
  <2> QED BY <1>1, <1>3, <1>8, <2>1
<1>12. WaysBuilt'
  <2>1. left' \in 0..(P - 1)
    BY <1>1, <1>3, <1>5
  <2>2. \E T : order' \in Seq(T)
    BY <1>9
  <2> QED BY <1>1, <1>3, <1>6, <1>9, <1>10, <1>11, <2>1, <2>2 DEF WaysBuilt
<1>13. Counters'
  BY <1>1 DEF Counters
<1> QED BY <1>1, <1>12, <1>13 DEF LanesStepped, WordsSwept, CallsMade, Compute

LEMMA LinkStep ==
  ASSUME WorkInv, NumbersFit, LinkWay
  PROVE  WorkInv'
<1> USE DEF WorkInv
<1> DEFINE P == PerWay(chase)
           W == WaysOf(chase)
           n == Len(order)
           o == order[n]
<1>1. kernel = "building" /\ left = 0 /\ UNCHANGED <<chase, units, steps, written>>
  BY DEF LinkWay
<1>2. /\ chase \in {"mem_lat", "mem_mlp"} /\ P >= 2
      /\ n \in 1..W /\ left \in 0..(P - 1)
      /\ units = 0 /\ Len(cur) = n - 1 /\ cur \in Seq(Node)
      /\ \A w \in 1..n : OnceEach(order[w], P, W, w - 1)
      /\ \A w \in 1..Len(cur) : Along(link, order[w], P) /\ cur[w] = order[w][units % P]
  BY <1>1 DEF WaysBuilt
<1>3. PICK S : order \in Seq(S)
  BY <1>1 DEF WaysBuilt
<1>4. W \in Nat \ {0} /\ P \in Nat \ {0} /\ DOMAIN order = 1..n /\ n \in Nat /\ n \in 1..n
  BY <1>2, <1>3, WaySizes, LenProperties
<1>5. PerWay(chase)' = P /\ WaysOf(chase)' = W
  BY <1>1 DEF PerWay, WaysOf
<1>6. link' = Relinked(link, o, P) /\ cur' = Append(cur, o[0])
  BY DEF LinkWay, Last, Relinked
<1>7. /\ n < W => /\ order' = Append(order, OwnNodes(chase, n)) /\ left' = P - 1
                  /\ kernel' = "building"
      /\ ~(n < W) => kernel' = chase /\ order' = order /\ left' = left
  BY <1>1 DEF LinkWay
<1>8. OnceEach(o, P, W, n - 1) /\ n - 1 \in 0..(W - 1) /\ link \in [Node -> Node]
  BY <1>2, <1>4 DEF Counters
<1> HIDE DEF P, W, n, o
<1>9. /\ link' \in [Node -> Node] /\ Along(link', o, P)
      /\ \A v \in 0..(W - 1) : \A q :
           v # n - 1 /\ OnceEach(q, P, W, v) /\ Along(link, q, P) => Along(link', q, P)
  BY <1>4, <1>6, <1>8, LinkedThrough
<1>10. \A w \in 1..n : Along(link', order[w], P)
  <2>1. ASSUME NEW w \in 1..n, w # n PROVE Along(link', order[w], P)
    <3>1. w \in 1..Len(cur) /\ w - 1 \in 0..(W - 1) /\ w - 1 # n - 1
      BY <1>2, <1>4, <2>1
    <3>2. OnceEach(order[w], P, W, w - 1) /\ Along(link, order[w], P)
      BY <1>2, <3>1
    <3> QED BY <1>9, <3>1, <3>2
  <2> QED BY <1>9, <2>1 DEF o
<1>11. /\ cur' \in Seq(Node) /\ Len(cur') = n /\ cur'[n] = o[0]
       /\ \A w \in 1..(n - 1) : cur'[w] = cur[w]
  <2>1. o[0] \in Node
    BY <1>4, <1>8 DEF OnceEach
  <2>2. /\ cur' \in Seq(Node) /\ Len(cur') = Len(cur) + 1 /\ cur'[Len(cur) + 1] = o[0]
        /\ \A w \in 1..Len(cur) : cur'[w] = cur[w]
    BY <1>2, <1>6, <2>1, AppendProperties
  <2>3. Len(cur) = n - 1 /\ n - 1 + 1 = n
    BY <1>2, <1>4
  <2> QED BY <2>2, <2>3
<1>12. \A w \in 1..n : cur'[w] = order[w][0]
  <2>1. ASSUME NEW w \in 1..n, w # n PROVE cur'[w] = order[w][0]
    <3>1. w \in 1..Len(cur) /\ w \in 1..(n - 1)
      BY <1>2, <1>4, <2>1
    <3>2. units % P = 0
      BY <1>2, <1>4
    <3> QED BY <1>2, <1>11, <3>1, <3>2
  <2> QED BY <1>11, <2>1 DEF o
<1>13. units' = 0 /\ 0 % P = 0
  BY <1>1, <1>2, <1>4
<1>14. ASSUME n < W PROVE WaysBuilt'
  <2> DEFINE x == OwnNodes(chase, n)
             T == S \cup {x}
  <2>1. OnceEach(x, P, W, n)
    <3>1. n \in 0..(WaysOf(chase) - 1) /\ PerWay(chase) >= 1
      BY <1>2, <1>4, <1>14 DEF P, W
    <3> QED BY <3>1, OwnNodesOnce DEF P, W
  <2> HIDE DEF x
  <2>2. order \in Seq(T) /\ x \in T
    BY <1>3, SeqMonotonic
  <2> HIDE DEF T
  <2>3. /\ order' \in Seq(T) /\ Len(order') = n + 1 /\ order'[n + 1] = x
        /\ \A w \in 1..n : order'[w] = order[w]
    BY <1>7, <1>14, <2>2, AppendProperties DEF x, n
  <2>4. \A w \in 1..(n + 1) : OnceEach(order'[w], P, W, w - 1)
    <3>1. OnceEach(order'[n + 1], P, W, (n + 1) - 1)
      <4>1. (n + 1) - 1 = n
        BY <1>4
      <4> QED BY <2>1, <2>3, <4>1
    <3>2. \A w \in 1..(n + 1) : w \in 1..n \/ w = n + 1
      BY <1>4
    <3> QED BY <1>2, <2>3, <3>1, <3>2
  <2>5. \E R : order' \in Seq(R)
    BY <2>3
  <2>6. n + 1 \in 1..W /\ left' \in 0..(P - 1) /\ n = n + 1 - 1 /\ kernel' = "building"
    BY <1>2, <1>4, <1>7, <1>14
  <2>7. \A w \in 1..n : Along(link', order'[w], P) /\ cur'[w] = order'[w][units' % P]
    BY <1>10, <1>12, <1>13, <2>3
  <2> QED BY <1>1, <1>2, <1>5, <1>11, <1>13, <2>3, <2>4, <2>5, <2>6, <2>7 DEF WaysBuilt
<1>15. ASSUME ~(n < W) PROVE WaysBuilt'
  <2>1. n = W /\ kernel' = chase /\ order' = order /\ left' = left
    BY <1>2, <1>4, <1>7, <1>15
  <2>2. \A w \in 1..n : Along(link', order'[w], P) /\ cur'[w] = order'[w][units' % P]
    BY <1>10, <1>12, <1>13, <2>1
  <2>3. \A w \in 1..n : OnceEach(order'[w], P, W, w - 1)
    BY <1>2, <2>1
  <2>4. Len(order') = n /\ \E R : order' \in Seq(R)
    BY <1>3, <2>1 DEF n
  <2> QED BY <1>1, <1>2, <1>5, <1>11, <2>1, <2>2, <2>3, <2>4 DEF WaysBuilt
<1>16. Counters'
  BY <1>1, <1>2, <1>7, <1>9 DEF Counters, Kernels
<1>17. kernel' \in {"building", "mem_lat", "mem_mlp"}
  BY <1>2, <1>7
<1> QED BY <1>14, <1>15, <1>16, <1>17 DEF LanesStepped, WordsSwept, CallsMade, Compute

\* Where an order cannot number the nodes, nothing is said of the chases.
LEMMA UnnumberedStep ==
  ASSUME WorkInv, ~NumbersFit,
         \/ \E k \in {"mem_lat", "mem_mlp"} : StartChase(k)
         \/ Swap
         \/ LinkWay
         \/ \E n \in Nat : RunChase(n) /\ units' = units + n /\ UNCHANGED <<kernel, chase>>
  PROVE  WorkInv'
<1>1. UNCHANGED <<steps, written>> /\ units' \in Nat
  BY DEF WorkInv, Counters, StartChase, Swap, LinkWay, RunChase
<1>2. /\ kernel' \in {"building", "mem_lat", "mem_mlp"}
      /\ kernel' = "building" => chase' \in {"mem_lat", "mem_mlp"}
  BY DEF WorkInv, Counters, StartChase, Swap, LinkWay, RunChase
<1>3. Counters'
  BY <1>1, <1>2 DEF WorkInv, Counters, Kernels, NumbersFit
<1> QED BY <1>2, <1>3 DEF WorkInv, LanesStepped, WordsSwept, CallsMade, WaysBuilt, NumbersFit, Compute

\* A batch of n more units.
LEMMA BatchOfCompute ==
  ASSUME WorkInv, NEW n \in Nat, RunCompute(n), units' = units + n, UNCHANGED <<kernel, chase>>
  PROVE  WorkInv'
<1> USE DEF WorkInv
<1>1. /\ kernel \in Compute /\ kernel' = kernel /\ units' = units + n /\ units \in Nat
      /\ steps' = [l \in Lanes |-> steps[l] + n * StepsOf(kernel, l)]
      /\ written' = written /\ link' = link
  BY DEF RunCompute, Counters
<1>2. ASSUME NEW l \in Lanes PROVE steps'[l] = units' * StepsOf(kernel', l) /\ steps'[l] \in Int
  <2> DEFINE k == StepsOf(kernel, l)
  <2>1. k \in Int
    BY WorkloadAssumption DEF StepsOf
  <2>2. steps'[l] = units * k + n * k
    BY <1>1 DEF LanesStepped
  <2>3. StepsOf(kernel', l) = k
    BY <1>1 DEF StepsOf
  <2> HIDE DEF k
  <2>4. units * k + n * k = (units + n) * k /\ (units + n) * k \in Int
    BY <1>1, <2>1
  <2> QED BY <1>1, <2>2, <2>3, <2>4
<1>3. LanesStepped'
  <2>1. \A l \in Lanes : steps'[l] = units' * StepsOf(kernel', l)
    BY <1>2
  <2> QED BY <2>1 DEF LanesStepped, StepsOf
<1>4. steps' \in [Lanes -> Int]
  BY <1>1, <1>2
<1>5. Counters'
  BY <1>1, <1>4 DEF Counters
<1> QED BY <1>1, <1>3, <1>5 DEF WordsSwept, CallsMade, WaysBuilt, Compute

LEMMA BatchOfSweep ==
  ASSUME WorkInv, NEW n \in Nat, RunSweep(n), units' = units + n, UNCHANGED <<kernel, chase>>
  PROVE  WorkInv'
<1> USE DEF WorkInv
<1>1. /\ kernel = "mem_bw" /\ kernel' = kernel /\ units' = units + n /\ units \in Nat
      /\ steps' = steps /\ link' = link
      /\ written \in [0..(Words - 1) -> Int] /\ \A i \in 0..(Words - 1) : written[i] = units
  BY DEF RunSweep, Counters, WordsSwept
<1>2. written' = [i \in 0..(Words - 1) |->
                    IF 4 * (i \div 4) + 3 < Words THEN written[i] + n ELSE written[i]]
  BY <1>1 DEF RunSweep
<1>3. ASSUME NEW i \in 0..(Words - 1) PROVE written'[i] = units + n
  <2>1. Words \in Nat /\ Words % 4 = 0
    BY WorkloadAssumption
  <2>2. 4 * (i \div 4) + 3 < Words
    BY <2>1
  <2> QED BY <1>1, <1>2, <2>2
<1>4. written' \in [0..(Words - 1) -> Int]
  <2>1. units + n \in Int
    BY <1>1
  <2>2. written' = [i \in 0..(Words - 1) |-> written'[i]]
    BY <1>2
  <2> QED BY <1>3, <2>1, <2>2
<1>5. WordsSwept'
  BY <1>1, <1>3 DEF WordsSwept
<1>6. Counters'
  BY <1>1, <1>4 DEF Counters
<1> QED BY <1>1, <1>5, <1>6 DEF LanesStepped, CallsMade, WaysBuilt, Compute

LEMMA BatchOfLoads ==
  ASSUME WorkInv, NumbersFit, NEW n \in Nat, RunChase(n), units' = units + n, UNCHANGED <<kernel, chase>>
  PROVE  WorkInv'
<1> USE DEF WorkInv
<1> DEFINE P == PerWay(chase)
           W == WaysOf(chase)
<1>1. /\ kernel \in {"mem_lat", "mem_mlp"} /\ kernel' = kernel /\ chase' = chase
      /\ units' = units + n /\ units \in Nat
      /\ cur' = [w \in DOMAIN cur |-> Follow(cur[w], n)]
      /\ UNCHANGED <<steps, written, order, left, link>>
      /\ link \in [Node -> Node]
  BY DEF RunChase, Counters
<1>2. /\ kernel = chase /\ P >= 2 /\ Len(order) = W /\ Len(cur) = W /\ cur \in Seq(Node)
      /\ (\E S : order \in Seq(S)) /\ left \in 0..(P - 1) /\ W \in 1..W
      /\ \A w \in 1..W : OnceEach(order[w], P, W, w - 1)
      /\ \A w \in 1..W : Along(link, order[w], P) /\ cur[w] = order[w][units % P]
  BY <1>1 DEF WaysBuilt
<1>3. W \in Nat \ {0} /\ P \in Nat \ {0} /\ DOMAIN cur = 1..W
  BY <1>2, WaySizes, LenProperties
<1>4. PerWay(chase)' = P /\ WaysOf(chase)' = W
  BY <1>1 DEF PerWay, WaysOf
<1> HIDE DEF P, W
<1>5. ASSUME NEW w \in 1..W
      PROVE  cur'[w] = order[w][(units + n) % P] /\ cur'[w] \in Node
  <2>1. PICK o, a : o = order[w] /\ a = units % P
    OBVIOUS
  <2>2. Along(link, o, P) /\ cur[w] = o[a] /\ a \in 0..(P - 1)
    BY <1>1, <1>2, <1>3, <2>1
  <2>3. Follow(o[a], n) = o[(a + n) % P]
    BY <1>1, <1>3, <2>2, GoesAround
  <2>4. (a + n) % P = (units + n) % P
    BY <1>1, <1>3, <2>1, ModAdd
  <2>5. cur'[w] = Follow(o[a], n)
    BY <1>1, <1>3, <2>2
  <2>6. (units + n) % P \in 0..(P - 1)
    BY <1>1, <1>3
  <2>7. o[(units + n) % P] \in Node
    BY <2>2, <2>6 DEF Along
  <2> QED BY <2>1, <2>3, <2>4, <2>5, <2>7
<1>6. cur' \in Seq(Node) /\ Len(cur') = W
  <2>1. cur' \in [1..W -> Node]
    <3>1. cur' = [w \in 1..W |-> cur'[w]]
      BY <1>1, <1>3
    <3>2. \A w \in 1..W : cur'[w] \in Node
      BY <1>5
    <3> QED BY <3>1, <3>2
  <2>2. W \in Nat /\ DOMAIN cur' = 1..W
    BY <1>3, <2>1
  <2>3. cur' \in Seq(Node)
    BY <2>1, <2>2, SeqDef
  <2> QED BY <2>2, <2>3, LenProperties
<1>7. WaysBuilt'
  <2>1. \A w \in 1..W : cur'[w] = order'[w][units' % P] /\ Along(link', order'[w], P)
    BY <1>1, <1>2, <1>5
  <2>2. Len(order') = W /\ \E S : order' \in Seq(S)
    BY <1>1, <1>2
  <2> QED BY <1>1, <1>2, <1>4, <1>6, <2>1, <2>2 DEF WaysBuilt
<1>8. Counters'
  BY <1>1 DEF Counters
<1> QED BY <1>1, <1>7, <1>8 DEF LanesStepped, WordsSwept, CallsMade, Compute

LEMMA BatchOfCalls ==
  ASSUME WorkInv, NEW n \in Nat, RunDispatch(n), units' = units + n, UNCHANGED <<kernel, chase>>
  PROVE  WorkInv'
<1> USE DEF WorkInv
<1> DEFINE M == mask + 1
           more == [i \in 1..n |-> pattern[(pos + i - 1) % M]]
<1>1. /\ kernel = "disp" /\ kernel' = kernel /\ units' = units + n /\ units \in Nat
      /\ called' = called \o more /\ pos' = (pos + n) % M
      /\ UNCHANGED <<steps, written, link, pattern, mask>>
  BY DEF RunDispatch, Counters
<1>2. /\ M \in Nat \ {0} /\ pos = units % M /\ Len(called) = units
      /\ \A i \in 1..units : called[i] = pattern[(i - 1) % M]
  BY <1>1 DEF CallsMade
<1>3. PICK S : called \in Seq(S)
  BY <1>1 DEF CallsMade
<1>4. DOMAIN more = 1..n /\ \A i \in 1..n : more[i] = pattern[(pos + i - 1) % M]
  OBVIOUS
<1> DEFINE T == S \cup {more[i] : i \in 1..n}
<1>5. more \in Seq(T) /\ Len(more) = n
  <2>1. more \in [1..n -> T]
    OBVIOUS
  <2> HIDE DEF more, T
  <2>2. more \in Seq(T)
    BY <2>1, SeqDef
  <2> QED BY <1>4, <2>2, LenProperties
<1>6. called \in Seq(T)
  <2>1. S \subseteq T
    OBVIOUS
  <2> HIDE DEF T
  <2> QED BY <1>3, <2>1, SeqMonotonic
<1> HIDE DEF more, T, M
<1>7. /\ called' \in Seq(T) /\ Len(called') = units + n
      /\ \A i \in 1..(units + n) : called'[i] = IF i <= units THEN called[i] ELSE more[i - units]
  BY <1>1, <1>2, <1>5, <1>6, ConcatProperties
<1>8. ASSUME NEW i \in 1..(units + n) PROVE called'[i] = pattern[(i - 1) % M]
  <2>0. units \in Nat /\ i \in Nat
    BY <1>1
  <2>1. CASE i <= units
    BY <2>0, <1>2, <1>7, <2>1
  <2>2. CASE i > units
    <3> DEFINE k == i - units - 1
    <3>1. k \in Nat /\ i - units \in 1..n /\ pos \in Nat /\ units + k = i - 1
          /\ i - units - 1 = k /\ pos + (i - units) - 1 = pos + k
      BY <1>1, <1>2, <2>2
    <3> DEFINE j == i - units
    <3>2. called'[i] = pattern[(pos + j - 1) % M]
      <4>1. called'[i] = more[j]
        BY <2>0, <1>7, <2>2
      <4>2. j \in 1..n
        BY <3>1
      <4> HIDE DEF j
      <4> QED BY <1>4, <4>1, <4>2
    <3> HIDE DEF k
    <3>3. (pos + k) % M = (units + k) % M
      BY <1>1, <1>2, <3>1, ModAdd
    <3> QED BY <3>1, <3>2, <3>3
  <2> QED BY <2>0, <2>1, <2>2
<1>9. (pos + n) % M = (units + n) % M
  BY <1>1, <1>2, ModAdd
<1>10. CallsMade'
  <2>1. mask' + 1 = M /\ pos' = units' % M /\ Len(called') = units'
    BY <1>1, <1>7, <1>9 DEF M
  <2>2. \E R : called' \in Seq(R)
    BY <1>7
  <2>3. \A i \in 1..units' : called'[i] = pattern'[(i - 1) % M]
    BY <1>1, <1>8
  <2> QED BY <1>2, <2>1, <2>2, <2>3 DEF CallsMade
<1>11. Counters'
  BY <1>1 DEF Counters
<1> QED BY <1>1, <1>10, <1>11 DEF LanesStepped, WordsSwept, WaysBuilt, Compute

LEMMA WorkStep ==
  ASSUME WorkInv, [WorkloadNext]_workload
  PROVE  WorkInv'
<1>1. CASE UNCHANGED workload
  <2>1. UNCHANGED <<kernel, units, steps, written, chase, order, left, link, cur, pattern, mask, pos, called>>
    BY <1>1 DEF workload, ctx
  <2> QED BY <2>1 DEF WorkInv, Counters, LanesStepped, WordsSwept, CallsMade, WaysBuilt, PerWay, WaysOf, StepsOf
<1>2. CASE Start
  BY <1>2, StartWork, ChaseStarts, UnnumberedStep DEF Start
<1>3. CASE RunBatch
  <2>1. PICK n \in Batches :
          /\ units' = units + n
          /\ RunCompute(n) \/ RunSweep(n) \/ RunChase(n) \/ RunDispatch(n)
          /\ UNCHANGED <<kernel, chase>>
    BY <1>3 DEF RunBatch
  <2>2. n \in Nat
    BY WorkloadAssumption
  <2> QED BY <2>1, <2>2, BatchOfCompute, BatchOfSweep, BatchOfLoads, BatchOfCalls, UnnumberedStep
<1>4. CASE Swap \/ LinkWay
  BY <1>4, ShuffleStep, LinkStep, UnnumberedStep
<1> QED BY <1>1, <1>2, <1>3, <1>4 DEF WorkloadNext

\* Whatever the clock makes of the batches and whatever the generator draws,
\* what the driver counts of a kernel is what the kernel did (kernels.c,
\* build_chases).
THEOREM WorkIsCounted == WorkloadSpec => []WorkIsWhatIsCounted
<1>1. WorkInv /\ [WorkloadNext]_workload => WorkInv'
  BY WorkStep
<1> QED BY WorkFirst, <1>1, CountedIsDone, PTL DEF WorkloadSpec

\* And a chase goes through every node it was given, however it was shuffled,
\* in a buffer of any size up to that of as many nodes as the order, an array
\* of uint32_t, can number (build_chases, mem_kernel_lat, mem_kernel_mlp).
THEOREM ChasesGoRound == WorkloadSpec => []ChasesCoverTheBuffer
<1>1. WorkInv /\ [WorkloadNext]_workload => WorkInv'
  BY WorkStep
<1> QED BY WorkFirst, <1>1, ChasesCovered, PTL DEF WorkloadSpec

-----------------------------------------------------------------------------
(***************************************************************************)
(* The names (Inventory). A list of names is cut at its separators: where  *)
(* two cuts have none between them, there is a name.                       *)
(***************************************************************************)

Separators(list) == {i \in DOMAIN list : list[i] = Separator}
Cuts(list) == {0, Len(list) + 1} \cup Separators(list)
Adjacent(C, a, b) == a \in C /\ b \in C /\ a < b /\ \A c \in C : ~(a < c /\ c < b)

LEMMA ElementsAre ==
  ASSUME NEW list, list # <<>>, NEW e
  PROVE  e \in Elements(list) <=> \E a, b : Adjacent(Cuts(list), a, b) /\ e = SubSeq(list, a + 1, b - 1)
<1> DEFINE cuts == {0, Len(list) + 1} \cup {i \in DOMAIN list : list[i] = Separator}
           gaps == {p \in cuts \X cuts : p[1] < p[2] /\ \A c \in cuts : ~(p[1] < c /\ c < p[2])}
<1>1. Elements(list) = {SubSeq(list, p[1] + 1, p[2] - 1) : p \in gaps}
  BY DEF Elements
<1>2. cuts = Cuts(list)
  BY DEF Cuts, Separators
<1>3. ASSUME NEW a, NEW b PROVE <<a, b>> \in gaps <=> Adjacent(Cuts(list), a, b)
  <2> HIDE DEF cuts
  <2> QED BY <1>2 DEF Adjacent
<1>4. ASSUME NEW p \in gaps PROVE p = <<p[1], p[2]>>
  OBVIOUS
<1> HIDE DEF gaps
<1>5. ASSUME e \in Elements(list)
      PROVE  \E a, b : Adjacent(Cuts(list), a, b) /\ e = SubSeq(list, a + 1, b - 1)
  <2>1. PICK p \in gaps : e = SubSeq(list, p[1] + 1, p[2] - 1)
    BY <1>1, <1>5
  <2>2. PICK a, b : a = p[1] /\ b = p[2]
    OBVIOUS
  <2>3. <<a, b>> \in gaps
    BY <1>4, <2>2
  <2> QED BY <1>3, <2>1, <2>2, <2>3
<1>6. ASSUME NEW a, NEW b, Adjacent(Cuts(list), a, b), e = SubSeq(list, a + 1, b - 1)
      PROVE  e \in Elements(list)
  <2>1. PICK p : p = <<a, b>>
    OBVIOUS
  <2>2. p \in gaps /\ p[1] = a /\ p[2] = b
    BY <1>3, <1>6, <2>1
  <2> QED BY <1>1, <1>6, <2>2
<1> QED BY <1>5, <1>6

\* A list with another name behind it.
Longer(J, list, name) ==
  /\ Len(J) = Len(list) + 1 + Len(name) /\ DOMAIN J = 1..Len(J)
  /\ \A i \in 1..Len(list) : J[i] = list[i]
  /\ J[Len(list) + 1] = Separator
  /\ \A i \in 1..Len(name) : J[Len(list) + 1 + i] = name[i]

LEMMA JoinedIsLonger ==
  ASSUME NEW T, Separator \in T, NEW list \in Seq(T), NEW name \in Seq(T),
         NEW J, J = list \o <<Separator>> \o name
  PROVE  J \in Seq(T) /\ Longer(J, list, name)
<1>1. PICK tl, n, m : tl = <<Separator>> /\ n = Len(list) /\ m = Len(name)
  OBVIOUS
<1>2. tl \in Seq(T) /\ Len(tl) = 1 /\ tl[1] = Separator
  BY <1>1
<1>3. n \in Nat /\ m \in Nat
  BY <1>1, LenProperties
<1>4. PICK u : u = list \o tl
  OBVIOUS
<1>5. u \in Seq(T) /\ Len(u) = n + 1
      /\ \A i \in 1..(n + 1) : u[i] = IF i <= n THEN list[i] ELSE tl[i - n]
  BY <1>1, <1>2, <1>4, ConcatProperties
<1>6. (\A i \in 1..n : u[i] = list[i]) /\ u[n + 1] = Separator
  <2>1. \A i \in 1..n : i \in 1..(n + 1) /\ i <= n
    BY ONLY <1>3
  <2>2. n + 1 \in 1..(n + 1) /\ ~(n + 1 <= n) /\ (n + 1) - n = 1
    BY ONLY <1>3
  <2>3. \A i \in 1..n : u[i] = list[i]
    BY <1>5, <2>1
  <2>4. u[n + 1] = tl[(n + 1) - n]
    BY <1>5, <2>2
  <2> QED BY <1>2, <2>2, <2>3, <2>4
<1>7. J \in Seq(T) /\ Len(J) = n + 1 + m
      /\ \A i \in 1..(n + 1 + m) : J[i] = IF i <= n + 1 THEN u[i] ELSE name[i - (n + 1)]
  <2>1. J = u \o name
    BY <1>1, <1>4
  <2> QED BY <1>1, <1>5, <2>1, ConcatProperties
<1>8. DOMAIN J = 1..Len(J)
  BY <1>7, LenProperties
<1>9. (\A i \in 1..n : J[i] = list[i]) /\ J[n + 1] = Separator
  BY <1>3, <1>6, <1>7
<1>10. ASSUME NEW i \in 1..m PROVE J[n + 1 + i] = name[i]
  <2>1. PICK k : k = n + 1 + i
    OBVIOUS
  <2>2. k \in 1..(n + 1 + m) /\ ~(k <= n + 1) /\ k - (n + 1) = i
    BY <1>3, <2>1
  <2> QED BY <1>7, <2>1, <2>2
<1> QED BY <1>1, <1>7, <1>8, <1>9, <1>10 DEF Longer

\* It has one cut more, at its end.
LEMMA OneCutMore ==
  ASSUME NEW T, NEW list \in Seq(T), NEW name \in Seq(T), \A i \in 1..Len(name) : name[i] # Separator,
         NEW J, Longer(J, list, name), NEW n, n = Len(list)
  PROVE  /\ Separators(J) = Separators(list) \cup {n + 1}
         /\ Separators(list) \subseteq 1..n /\ Cuts(list) \subseteq 0..(n + 1)
         /\ 0 \in Cuts(list) /\ n + 1 \in Cuts(list)
         /\ Cuts(J) = Cuts(list) \cup {Len(J) + 1}
         /\ n + 1 < Len(J) + 1 /\ n \in Nat /\ Len(J) \in Nat
<1>1. PICK m, l : m = Len(name) /\ l = Len(J)
  OBVIOUS
<1>2. n \in Nat /\ m \in Nat /\ l = n + 1 + m /\ DOMAIN list = 1..n /\ DOMAIN J = 1..l
  BY <1>1, LenProperties DEF Longer
<1>3. Separators(list) \subseteq 1..n
  BY <1>2 DEF Separators
<1>4. ASSUME NEW i \in 1..l PROVE i \in Separators(J) <=> i \in Separators(list) \cup {n + 1}
  <2>1. CASE i <= n
    <3>1. i \in 1..n /\ i # n + 1 /\ J[i] = list[i]
      BY <1>2, <2>1 DEF Longer
    <3> QED BY <1>2, <3>1 DEF Separators
  <2>2. CASE i = n + 1
    BY <1>2, <2>2 DEF Longer, Separators
  <2>3. CASE i > n + 1
    <3>1. PICK k : k = i - (n + 1)
      OBVIOUS
    <3>2. k \in 1..m /\ i = n + 1 + k /\ i \notin 1..n /\ i # n + 1
      BY <1>2, <2>3, <3>1
    <3>3. J[i] # Separator
      BY <1>1, <3>2 DEF Longer
    <3> QED BY <1>3, <3>2, <3>3 DEF Separators
  <2> QED BY <1>2, <2>1, <2>2, <2>3
<1>5. Separators(J) \subseteq 1..l /\ Separators(list) \cup {n + 1} \subseteq 1..l
  BY <1>2, <1>3 DEF Separators
<1>6. Separators(J) = Separators(list) \cup {n + 1}
  BY <1>4, <1>5
<1>7. Cuts(list) = {0, n + 1} \cup Separators(list) /\ Cuts(J) = {0, l + 1} \cup Separators(J)
  BY <1>1 DEF Cuts
<1>8. Cuts(J) = Cuts(list) \cup {l + 1}
  BY <1>6, <1>7
<1>9. Cuts(list) \subseteq 0..(n + 1) /\ 0 \in Cuts(list) /\ n + 1 \in Cuts(list)
  BY <1>2, <1>3, <1>7
<1> QED BY <1>1, <1>2, <1>3, <1>6, <1>8, <1>9

\* What lies between two cuts does so in either.
LEMMA SamePiece ==
  ASSUME NEW T, NEW list \in Seq(T), NEW J \in Seq(T), NEW n \in Nat, n = Len(list),
         \A i \in 1..n : J[i] = list[i], NEW a \in 0..(n + 1), NEW b \in 0..(n + 1), n <= Len(J)
  PROVE  SubSeq(J, a + 1, b - 1) = SubSeq(list, a + 1, b - 1)
<1>1. PICK f, tl : f = a + 1 /\ tl = b - 1
  OBVIOUS
<1>2. f \in Int /\ tl \in Int /\ f >= 1 /\ tl <= n
  BY <1>1
<1>3. \A i \in f..tl : i \in 1..n
  BY <1>2
<1>4. \A i \in f..tl : J[i] = list[i] /\ list[i] \in T
  BY <1>3, LenProperties
<1>5. PICK x, y : x = SubSeq(J, f, tl) /\ y = SubSeq(list, f, tl)
  OBVIOUS
<1>6. x \in Seq(T) /\ Len(x) = (IF f <= tl THEN tl - f + 1 ELSE 0)
      /\ \A i \in 1..(tl - f + 1) : x[i] = J[f + i - 1]
  BY <1>2, <1>4, <1>5, SubSeqProperties
<1>7. y \in Seq(T) /\ Len(y) = (IF f <= tl THEN tl - f + 1 ELSE 0)
      /\ \A i \in 1..(tl - f + 1) : y[i] = list[f + i - 1]
  BY <1>2, <1>4, <1>5, SubSeqProperties
<1>8. ASSUME NEW i \in 1..Len(x) PROVE x[i] = y[i]
  <2>1. PICK k : k = f + i - 1
    OBVIOUS
  <2>2. i \in 1..(tl - f + 1) /\ k \in f..tl
    BY <1>2, <1>6, <2>1
  <2> QED BY <1>4, <1>6, <1>7, <2>1, <2>2
<1>9. x = y
  BY <1>6, <1>7, <1>8, SeqEqual
<1> QED BY <1>1, <1>5, <1>9

\* The added name is the last of the list, and the others stay what they were.
LEMMA ElementsOfLonger ==
  ASSUME NEW T, NEW list \in Seq(T), list # <<>>, NEW name \in Seq(T),
         \A i \in 1..Len(name) : name[i] # Separator, NEW J \in Seq(T), J # <<>>, Longer(J, list, name)
  PROVE  Elements(J) = Elements(list) \cup {name}
<1>1. PICK n, l : n = Len(list) /\ l = Len(J)
  OBVIOUS
<1>2. PICK C, D : C = Cuts(list) /\ D = Cuts(J)
  OBVIOUS
<1>3. /\ C \subseteq 0..(n + 1) /\ n + 1 \in C /\ D = C \cup {l + 1}
      /\ n + 1 < l + 1 /\ n \in Nat /\ l \in Nat
  BY <1>1, <1>2, OneCutMore
<1>4. ASSUME NEW a, NEW b PROVE Adjacent(D, a, b) <=> Adjacent(C, a, b) \/ (a = n + 1 /\ b = l + 1)
  <2>1. ASSUME Adjacent(D, a, b) PROVE Adjacent(C, a, b) \/ (a = n + 1 /\ b = l + 1)
    <3>1. CASE b = l + 1
      <4>1. a \in C
        BY <1>3, <2>1, <3>1 DEF Adjacent
      <4>2. a \in 0..(n + 1) /\ ~(a < n + 1)
        BY <1>3, <2>1, <3>1, <4>1 DEF Adjacent
      <4> QED BY <1>3, <3>1, <4>2
    <3>2. CASE b # l + 1
      <4>1. b \in C /\ b \in 0..(n + 1)
        BY <1>3, <2>1, <3>2 DEF Adjacent
      <4>2. a # l + 1
        BY <1>3, <2>1, <4>1 DEF Adjacent
      <4> QED BY <1>3, <2>1, <4>1, <4>2 DEF Adjacent
    <3> QED BY <3>1, <3>2
  <2>2. ASSUME Adjacent(C, a, b) PROVE Adjacent(D, a, b)
    <3>1. a \in 0..(n + 1) /\ b \in 0..(n + 1)
      BY <1>3, <2>2 DEF Adjacent
    <3>2. ~(a < l + 1 /\ l + 1 < b)
      BY <1>3, <3>1
    <3> QED BY <1>3, <2>2, <3>2 DEF Adjacent
  <2>3. ASSUME a = n + 1, b = l + 1 PROVE Adjacent(D, a, b)
    <3>1. ASSUME NEW c \in D PROVE ~(a < c /\ c < b)
      <4>1. CASE c = l + 1
        BY <1>3, <2>3, <4>1
      <4>2. CASE c \in C
        BY <1>3, <2>3, <4>2
      <4> QED BY <1>3, <4>1, <4>2
    <3> QED BY <1>3, <2>3, <3>1 DEF Adjacent
  <2> QED BY <2>1, <2>2, <2>3
<1>5. ASSUME NEW a, NEW b, Adjacent(C, a, b)
      PROVE  SubSeq(J, a + 1, b - 1) = SubSeq(list, a + 1, b - 1)
  <2>1. a \in 0..(n + 1) /\ b \in 0..(n + 1)
    BY <1>3, <1>5 DEF Adjacent
  <2>2. \A i \in 1..n : J[i] = list[i]
    BY <1>1 DEF Longer
  <2>3. n <= Len(J)
    BY <1>1, <1>3
  <2>4. list \in Seq(T) /\ J \in Seq(T) /\ n \in Nat /\ n = Len(list)
    BY <1>1, <1>3
  <2> QED BY ONLY <2>1, <2>2, <2>3, <2>4, SamePiece
<1>6. SubSeq(J, n + 2, l) = name
  <2>1. PICK m, x, f : m = Len(name) /\ x = SubSeq(J, f, l) /\ f = n + 2
    OBVIOUS
  <2>2. m \in Nat /\ l = n + 1 + m /\ f \in Int /\ DOMAIN J = 1..l
    BY <1>1, <1>3, <2>1, LenProperties DEF Longer
  <2>3. \A i \in f..l : i \in 1..l
    BY <1>3, <2>1
  <2>4. \A i \in f..l : J[i] \in T
    BY <1>1, <2>3, LenProperties
  <2>5. x \in Seq(T) /\ Len(x) = (IF f <= l THEN l - f + 1 ELSE 0)
        /\ \A i \in 1..(l - f + 1) : x[i] = J[f + i - 1]
    BY <1>3, <2>1, <2>2, <2>4, SubSeqProperties
  <2>6. Len(x) = m /\ l - f + 1 = m
    BY <1>3, <2>1, <2>2, <2>5
  <2>7. ASSUME NEW i \in 1..Len(x) PROVE x[i] = name[i]
    <3>1. PICK k : k = f + i - 1
      OBVIOUS
    <3>2. i \in 1..m /\ k = n + 1 + i
      BY <1>3, <2>1, <2>2, <2>6, <3>1
    <3>3. x[i] = J[k] /\ J[k] = name[i]
      BY <1>1, <2>1, <2>5, <2>6, <3>1, <3>2 DEF Longer
    <3> QED BY <3>3
  <2>8. x = name
    BY <2>1, <2>5, <2>6, <2>7, SeqEqual
  <2> QED BY <2>1, <2>8
<1>7. ASSUME NEW e PROVE e \in Elements(J) <=> e \in Elements(list) \/ e = name
  <2>1. e \in Elements(J) <=> \E a, b : Adjacent(D, a, b) /\ e = SubSeq(J, a + 1, b - 1)
    BY <1>2, ElementsAre
  <2>2. e \in Elements(list) <=> \E a, b : Adjacent(C, a, b) /\ e = SubSeq(list, a + 1, b - 1)
    BY <1>2, ElementsAre
  <2>3. (n + 1) + 1 = n + 2 /\ (l + 1) - 1 = l
    BY <1>3
  <2>4. e = name <=> e = SubSeq(J, (n + 1) + 1, (l + 1) - 1)
    BY <1>6, <2>3
  <2>5. ASSUME e \in Elements(J) PROVE e \in Elements(list) \/ e = name
    <3>1. PICK a, b : Adjacent(D, a, b) /\ e = SubSeq(J, a + 1, b - 1)
      BY <2>1, <2>5
    <3>2. CASE Adjacent(C, a, b)
      BY <1>5, <2>2, <3>1, <3>2
    <3>3. CASE a = n + 1 /\ b = l + 1
      BY <2>4, <3>1, <3>3
    <3> QED BY <1>4, <3>1, <3>2, <3>3
  <2>6. ASSUME e \in Elements(list) PROVE e \in Elements(J)
    <3>1. PICK a, b : Adjacent(C, a, b) /\ e = SubSeq(list, a + 1, b - 1)
      BY <2>2, <2>6
    <3>2. Adjacent(D, a, b) /\ e = SubSeq(J, a + 1, b - 1)
      BY <1>4, <1>5, <3>1
    <3> QED BY <2>1, <3>2
  <2>7. ASSUME e = name PROVE e \in Elements(J)
    BY <1>4, <2>1, <2>4, <2>7
  <2> QED BY <2>5, <2>6, <2>7
<1> QED BY <1>7

\* A name alone is a list of one.
LEMMA ElementsOfOne ==
  ASSUME NEW T, NEW name \in Seq(T), name # <<>>, \A i \in 1..Len(name) : name[i] # Separator
  PROVE  Elements(name) = {name} /\ Separators(name) = {}
<1>1. PICK m, C : m = Len(name) /\ C = Cuts(name)
  OBVIOUS
<1>2. m \in Nat /\ DOMAIN name = 1..m
  BY <1>1, LenProperties
<1>3. Separators(name) = {}
  BY <1>1, <1>2 DEF Separators
<1>4. C = {0, m + 1}
  BY <1>1, <1>3 DEF Cuts
<1>5. ASSUME NEW a, NEW b PROVE Adjacent(C, a, b) <=> a = 0 /\ b = m + 1
  BY <1>2, <1>4 DEF Adjacent
<1>6. SubSeq(name, 1, m) = name
  BY <1>1, SubSeqFull
<1>7. 0 + 1 = 1 /\ (m + 1) - 1 = m
  BY <1>2
<1>8. ASSUME NEW e PROVE e \in Elements(name) <=> e = name
  <2>1. e \in Elements(name) <=> \E a, b : Adjacent(C, a, b) /\ e = SubSeq(name, a + 1, b - 1)
    BY <1>1, ElementsAre
  <2>2. e = name <=> e = SubSeq(name, 0 + 1, (m + 1) - 1)
    BY <1>6, <1>7
  <2> QED BY <1>5, <2>1, <2>2
<1> QED BY <1>3, <1>8

\* A list that names what is in S, each once, and nothing else.
Names(list, S) ==
  /\ IsFiniteSet(S) /\ Elements(list) = S
  /\ list # <<>> => Cardinality(Separators(list)) + 1 = Cardinality(S)

\* The list as the code keeps it: as long as it did not run out of room.
Keeps(list, S) ==
  /\ \E T : Separator \in T /\ list \in Seq(T)
  /\ Len(list) <= NameSpace
  /\ Len(list) < NameSpace => Names(list, S)
  /\ list = <<>> <=> S = {}

LEMMA NothingKept == Keeps(<<>>, {})
<1>1. PICK T : T = {Separator}
  OBVIOUS
<1>2. Separator \in T /\ <<>> \in Seq(T) /\ Len(<<>>) = 0 /\ Elements(<<>>) = {}
  BY <1>1, EmptySeq DEF Elements
<1>3. Names(<<>>, {})
  BY <1>2, FS_EmptySet DEF Names
<1>4. 0 <= NameSpace
  BY InventoryAssumption
<1> QED BY <1>2, <1>3, <1>4 DEF Keeps

\* A name as a sequence of tokens.
LEMMA NameIs ==
  ASSUME NEW name, IsName(name)
  PROVE  /\ name \in Seq(ToSet(name)) /\ name # <<>>
         /\ \A i \in 1..Len(name) : name[i] # Separator
<1>1. name \in Seq(ToSet(name)) /\ name # <<>> /\ Separator \notin ToSet(name)
  BY DEF IsName, IsSeq
<1>2. \A i \in 1..Len(name) : name[i] \in ToSet(name)
  BY <1>1, LenProperties
<1> QED BY <1>1, <1>2

\* With one name more, if there is room.
LEMMA OneNameMore ==
  ASSUME NEW list, NEW S, NEW T, Separator \in T, list \in Seq(T), Names(list, S),
         list = <<>> <=> S = {}, NEW name \in Seq(T), name # <<>>,
         \A i \in 1..Len(name) : name[i] # Separator, name \notin S,
         NEW J, J = Joined(list, name)
  PROVE  J \in Seq(T) /\ J # <<>> /\ Len(J) > Len(list) /\ Names(J, S \cup {name})
<1>1. IsFiniteSet(S \cup {name}) /\ Cardinality(S \cup {name}) = Cardinality(S) + 1
  BY FS_AddElement DEF Names
<1>2. CASE list = <<>>
  <2>1. J = name /\ S \cup {name} = {name} /\ Len(list) = 0
    BY <1>2, EmptySeq DEF Joined
  <2>2. Elements(J) = {name} /\ Separators(J) = {}
    BY <2>1, ElementsOfOne
  <2>3. Cardinality({}) = 0 /\ Cardinality({name}) = 1
    BY FS_EmptySet, FS_Singleton
  <2>4. Len(J) > 0
    BY <2>1, LenProperties, EmptySeq
  <2> QED BY <1>1, <2>1, <2>2, <2>3, <2>4 DEF Names
<1>3. CASE list # <<>>
  <2>1. J = list \o <<Separator>> \o name
    BY <1>3 DEF Joined
  <2>2. J \in Seq(T) /\ Longer(J, list, name)
    BY <2>1, JoinedIsLonger
  <2>3. PICK n : n = Len(list)
    OBVIOUS
  <2>4. /\ Separators(J) = Separators(list) \cup {n + 1}
        /\ Separators(list) \subseteq 1..n
        /\ n + 1 < Len(J) + 1 /\ n \in Nat /\ Len(J) \in Nat
    <3>1. list \in Seq(T) /\ name \in Seq(T) /\ \A i \in 1..Len(name) : name[i] # Separator
      OBVIOUS
    <3> QED BY ONLY <2>2, <2>3, <3>1, OneCutMore
  <2>5. J # <<>> /\ Len(J) > n
    BY <2>4, EmptySeq
  <2>6. Elements(J) = S \cup {name}
    BY <1>3, <2>2, <2>5, ElementsOfLonger DEF Names
  <2>7. IsFiniteSet(Separators(list))
    <3>1. IsFiniteSet(1..n)
      BY <2>4, FS_Interval
    <3> QED BY <2>4, <3>1, FS_Subset
  <2>8. n + 1 \notin Separators(list)
    BY <2>4
  <2>9. Cardinality(Separators(J)) = Cardinality(Separators(list)) + 1
    BY <2>4, <2>7, <2>8, FS_AddElement
  <2>10. Cardinality(Separators(J)) + 1 = Cardinality(S \cup {name})
    BY <1>1, <1>3, <2>9 DEF Names
  <2> QED BY <1>1, <2>2, <2>3, <2>5, <2>6, <2>10 DEF Names
<1> QED BY <1>2, <1>3

LEMMA AddedIsKept ==
  ASSUME NEW list, NEW S, Keeps(list, S), NEW name, IsName(name), NEW r, r = Added(list, name)
  PROVE  Keeps(r, S \cup {name})
<1>1. PICK U : Separator \in U /\ list \in Seq(U)
  BY DEF Keeps
<1>2. PICK T : T = U \cup ToSet(name)
  OBVIOUS
<1>3. Separator \in T /\ list \in Seq(T) /\ name \in Seq(T) /\ name # <<>>
      /\ \A i \in 1..Len(name) : name[i] # Separator
  <2>1. U \subseteq T /\ ToSet(name) \subseteq T
    BY <1>2
  <2> QED BY <1>1, <2>1, NameIs, SeqMonotonic
<1>4. PICK n : n = Len(list)
  OBVIOUS
<1>5. n \in Nat /\ n <= NameSpace /\ NameSpace \in Nat \ {0}
  BY <1>3, <1>4, LenProperties, InventoryAssumption DEF Keeps
<1>6. CASE n = NameSpace
  <2>1. r = list
    BY <1>4, <1>5, <1>6 DEF Added
  <2>2. list # <<>>
    BY <1>4, <1>5, <1>6, EmptySeq
  <2>3. Len(r) = NameSpace /\ ~(NameSpace < NameSpace) /\ NameSpace <= NameSpace
    <3>1. NameSpace \in Int
      BY <1>5
    <3>2. ~(NameSpace < NameSpace) /\ NameSpace <= NameSpace
      BY ONLY <3>1
    <3> QED BY <1>4, <1>6, <2>1, <3>2
  <2>4. r # <<>> /\ S \cup {name} # {}
    BY <2>1, <2>2
  <2> QED BY <1>3, <2>1, <2>3, <2>4 DEF Keeps
<1>7. CASE n < NameSpace /\ name \in S
  <2>1. Elements(list) = S
    BY <1>4, <1>7 DEF Keeps, Names
  <2>2. r = list /\ S \cup {name} = S
    BY <1>7, <2>1 DEF Added
  <2> QED BY <2>2
<1>8. CASE n < NameSpace /\ name \notin S
  <2>1. Names(list, S) /\ (list = <<>> <=> S = {})
    BY <1>4, <1>8 DEF Keeps
  <2>2. PICK J : J = Joined(list, name)
    OBVIOUS
  <2>3. J \in Seq(T) /\ J # <<>> /\ Len(J) > n /\ Names(J, S \cup {name})
    BY <1>3, <1>4, <1>8, <2>1, <2>2, OneNameMore
  <2>4. PICK l \in Nat : l = Len(J) /\ l > 0
    BY <1>5, <2>3, LenProperties
  <2>5. PICK m : m = Min({NameSpace, l})
    OBVIOUS
  <2>6. m = IF NameSpace <= l THEN NameSpace ELSE l
    <3>1. NameSpace \in Int /\ l \in Int
      BY <1>5
    <3> QED BY ONLY <2>5, <3>1, LeastOfTwo
  <2>7. r = SubSeq(J, 1, m)
    <3>1. ~(name = <<>> \/ name \in Elements(list) \/ Len(list) + 1 > NameSpace)
      BY <1>3, <1>4, <1>5, <1>8, <2>1 DEF Names
    <3> QED BY <2>2, <2>4, <2>5, <3>1 DEF Added
  <2>8. CASE l < NameSpace
    <3>1. r = J
      BY <1>5, <2>3, <2>4, <2>6, <2>7, <2>8, SubSeqFull
    <3>2. Len(r) <= NameSpace
      BY <1>5, <2>4, <2>8, <3>1
    <3>3. r # <<>> /\ S \cup {name} # {}
      BY <2>3, <3>1
    <3> QED BY <1>3, <2>3, <3>1, <3>2, <3>3 DEF Keeps
  <2>9. CASE l >= NameSpace
    <3>1. m = NameSpace /\ m \in Nat \ {0} /\ m <= l
      BY <1>5, <2>4, <2>6, <2>9
    <3>2. \A i \in 1..m : J[i] \in T
      BY <2>3, <2>4, <3>1, LenProperties
    <3>3. 1 \in Int /\ m \in Int /\ 1 <= m /\ m - 1 + 1 = m
      BY <3>1
    <3>4. r \in Seq(T) /\ Len(r) = m
      BY <2>7, <3>2, <3>3, SubSeqProperties
    <3>5. r # <<>>
      BY <3>1, <3>4, EmptySeq
    <3> QED BY <1>3, <1>5, <3>1, <3>4, <3>5 DEF Keeps
  <2> QED BY <1>5, <2>4, <2>8, <2>9
<1> QED BY <1>5, <1>6, <1>7, <1>8

\* Every core has a name.
LEMMA MidrNameIs ==
  ASSUME NEW pair, Separator \notin {pair.impl, pair.part}
  PROVE  IsName(MidrName(pair))
<1>1. Separator \notin {"impl", "part"} /\ ArmLtd \in DOMAIN Implementers
      /\ \A i \in DOMAIN Implementers : /\ Implementers[i].vendor # Separator
                                        /\ \A p \in DOMAIN Implementers[i].parts : IsName(Implementers[i].parts[p])
  BY InventoryAssumption DEF Range
<1>2. CASE pair.impl \notin DOMAIN Implementers
  <2>1. PICK s : s = <<"impl", pair.impl, "part", pair.part>>
    OBVIOUS
  <2>2. s # <<>> /\ ToSet(s) = {"impl", pair.impl, "part", pair.part} /\ s \in Seq(ToSet(s))
    BY <2>1 DEF ToSet
  <2> QED BY <1>1, <1>2, <2>1, <2>2 DEF MidrName, IsName, IsSeq
<1>3. CASE pair.impl \in DOMAIN Implementers
  <2>1. PICK v : v = Implementers[pair.impl]
    OBVIOUS
  <2>2. v.vendor # Separator /\ \A p \in DOMAIN v.parts : IsName(v.parts[p])
    BY <1>1, <1>3, <2>1
  <2>3. CASE pair.part \notin DOMAIN v.parts
    <3>1. PICK s : s = <<v.vendor, "part", pair.part>>
      OBVIOUS
    <3>2. s # <<>> /\ ToSet(s) = {v.vendor, "part", pair.part} /\ s \in Seq(ToSet(s))
      BY <3>1 DEF ToSet
    <3> QED BY <1>1, <1>3, <2>1, <2>2, <2>3, <3>1, <3>2 DEF MidrName, IsName, IsSeq
  <2>4. CASE pair.part \in DOMAIN v.parts
    <3>1. PICK p : p = v.parts[pair.part]
      OBVIOUS
    <3>2. IsName(p)
      BY <2>2, <2>4, <3>1
    <3>3. PICK s, tl : tl = <<v.vendor>> /\ s = tl \o p
      OBVIOUS
    <3>4. IsName(s)
      <4>1. PICK T : T = {v.vendor} \cup ToSet(p)
        OBVIOUS
      <4>2. p \in Seq(T) /\ tl \in Seq(T) /\ Len(tl) = 1 /\ Separator \notin T
        <5>1. p \in Seq(ToSet(p)) /\ Separator \notin ToSet(p)
          BY <3>2 DEF IsName, IsSeq
        <5>2. ToSet(p) \subseteq T /\ v.vendor \in T
          BY <4>1
        <5> QED BY <2>2, <3>3, <4>1, <5>1, <5>2, SeqMonotonic
      <4>3. s \in Seq(T) /\ Len(s) = 1 + Len(p) /\ Len(p) \in Nat
        BY <3>3, <4>2, ConcatProperties, LenProperties
      <4>4. s # <<>>
        BY <4>3, EmptySeq
      <4>5. DOMAIN s = 1..Len(s) /\ \A i \in 1..Len(s) : s[i] \in T
        BY <4>3, LenProperties
      <4>6. ToSet(s) \subseteq T
        BY <4>5 DEF ToSet
      <4>7. s \in [1..Len(s) -> ToSet(s)]
        <5>1. s \in [1..Len(s) -> T]
          BY <4>3, LenProperties
        <5> QED BY <5>1 DEF ToSet
      <4>8. s \in Seq(ToSet(s))
        BY <4>3, <4>7, SeqDef
      <4> QED BY <4>2, <4>4, <4>6, <4>8 DEF IsName, IsSeq
    <3>5. MidrName(pair) = p \/ MidrName(pair) = s
      BY <1>3, <2>1, <2>4, <3>1, <3>3 DEF MidrName
    <3> QED BY <3>2, <3>4, <3>5
  <2> QED BY <2>3, <2>4
<1> QED BY <1>2, <1>3

\* What the lines up to the n-th say.
LinesSaying(key, n) == {i \in Values(key) : i <= n}
BrandsBy(n) == {host.cpuinfo[i].val : i \in LinesSaying("model name", n)} \ Generic
PartsBy(n) ==
  {MidrName(PairAt(i)) :
     i \in {i \in LinesSaying("CPU part", n) : \E j \in Values("CPU implementer") : j < i}}
RegistersBy(n) ==
  {MidrName(host.midr[CpusRead[k]]) : k \in {k \in 1..n : CpusRead[k] \in DOMAIN host.midr}}

Latest(j, n) ==
  j \in LinesSaying("CPU implementer", n) /\ \A k \in LinesSaying("CPU implementer", n) : k <= j

ImplIsLatest ==
  IF LinesSaying("CPU implementer", chunk) = {} THEN impl = ""
  ELSE \E j : Latest(j, chunk) /\ impl = host.cpuinfo[j].val[1]

Fallback == IF ~host.arm THEN {} ELSE IF PartNames # {} THEN PartNames ELSE RegisterNames

\* At each stage the lists hold what was read so far.
NamesInv ==
  /\ host \in Hosts /\ chunk \in 0..Len(host.cpuinfo)
  /\ stage \in {"cpuinfo", "sysfs", "describe", "named"}
  /\ ~continuation <=> chunk = 0 \/ host.cpuinfo[chunk].ends
  /\ Keeps(models, BrandsBy(chunk))
  /\ platform = <<>> <=> LinesSaying("Hardware", chunk) = {}
  /\ host.arm => ImplIsLatest
  /\ stage = "cpuinfo" => cpu = 0 /\ Keeps(midrs, IF host.arm THEN PartsBy(chunk) ELSE {})
  /\ stage # "cpuinfo" => chunk = Len(host.cpuinfo)
  /\ stage = "sysfs" => /\ host.arm /\ PartNames = {} /\ cpu \in 0..Len(CpusRead)
                        /\ Keeps(midrs, RegistersBy(cpu))
  /\ stage \in {"describe", "named"} => Keeps(midrs, Fallback)
  /\ stage = "named" =>
       described = [cores |-> IF models = <<>> THEN midrs ELSE models,
                    board |-> IF host.board = <<>> THEN platform ELSE host.board]

\* Without a list, the CPUs asked for are the first so many.
LEMMA FirstCpus ==
  ASSUME host \in Hosts
  PROVE  Min({host.online, MaxCpus}) \in Nat
<1>1. host.online \in Nat /\ MaxCpus \in Nat
  BY InventoryAssumption DEF HostOK
<1>2. CASE host.online <= MaxCpus
  <2>1. Min({host.online, MaxCpus}) = host.online
    BY ONLY <1>1, <1>2, MinIs
  <2> QED BY <1>1, <2>1
<1>3. CASE MaxCpus <= host.online
  <2>1. Min({host.online, MaxCpus}) = MaxCpus
    BY ONLY <1>1, <1>3, MinIs
  <2> QED BY <1>1, <2>1
<1> QED BY <1>1, <1>2, <1>3

LEMMA HostSizes ==
  ASSUME host \in Hosts
  PROVE  /\ host.arm \in BOOLEAN
         /\ Len(host.cpuinfo) \in Nat /\ DOMAIN host.cpuinfo = 1..Len(host.cpuinfo)
         /\ Len(CpusRead) \in Nat /\ DOMAIN CpusRead = 1..Len(CpusRead)
<1>1. HostOK(host)
  BY InventoryAssumption
<1>2. host.cpuinfo \in Seq(ToSet(host.cpuinfo))
  BY <1>1 DEF HostOK, IsSeq
<1>3. CpusRead \in Seq(ToSet(CpusRead))
  <2>1. CASE host.present # <<>>
    <3>1. CpusRead = host.present
      BY <2>1 DEF CpusRead
    <3> QED BY <1>1, <3>1 DEF HostOK, IsSeq
  <2>2. CASE host.present = <<>>
    <3>1. PICK n \in Nat : n = Min({host.online, MaxCpus})
      BY FirstCpus
    <3>2. CpusRead = [k \in 1..n |-> k - 1]
      BY <2>2, <3>1 DEF CpusRead
    <3>3. CpusRead \in [1..n -> ToSet(CpusRead)]
      BY <3>2 DEF ToSet
    <3> QED BY <3>1, <3>3, SeqDef
  <2> QED BY <2>1, <2>2
<1> QED BY <1>1, <1>2, <1>3, LenProperties DEF HostOK

LEMMA HostLine ==
  ASSUME host \in Hosts, NEW i \in 1..Len(host.cpuinfo), NEW c, c = host.cpuinfo[i]
  PROVE  /\ c.ends \in BOOLEAN
         /\ c.key \in {"model name", "Hardware"} => IsName(c.val)
         /\ c.key \in {"CPU implementer", "CPU part"} => c.val[1] \notin {"", Separator}
<1>1. HostOK(host)
  BY InventoryAssumption
<1>2. c \in ToSet(host.cpuinfo)
  BY HostSizes DEF ToSet
<1> QED BY <1>1, <1>2 DEF HostOK

LEMMA HostRegister ==
  ASSUME host \in Hosts
  PROVE  /\ \A id \in DOMAIN host.midr : Separator \notin {host.midr[id].impl, host.midr[id].part}
         /\ RegisterNames = {MidrName(host.midr[id]) : id \in DOMAIN host.midr \cap ToSet(CpusRead)}
<1>1. HostOK(host)
  BY InventoryAssumption
<1>2. CASE host.present # <<>>
  <2>1. DOMAIN host.midr \subseteq ToSet(CpusRead)
    BY <1>1, <1>2 DEF HostOK, CpusRead
  <2> QED BY <1>1, <1>2, <2>1 DEF HostOK, RegisterNames
<1>3. CASE host.present = <<>>
  <2>1. PICK n \in Nat : n = Min({host.online, MaxCpus})
    BY FirstCpus
  <2>2. CpusRead = [k \in 1..n |-> k - 1]
    BY <1>3, <2>1 DEF CpusRead
  <2>3. {k - 1 : k \in 1..n} = 0..(n - 1)
    <3>1. \A j \in 0..(n - 1) : j + 1 \in 1..n /\ (j + 1) - 1 = j
      BY <2>1
    <3> QED BY <2>1, <3>1
  <2>4. ToSet(CpusRead) = 0..(n - 1)
    BY <2>2, <2>3 DEF ToSet
  <2> QED BY <1>1, <1>3, <2>1, <2>4 DEF HostOK, RegisterNames
<1> QED BY <1>2, <1>3

LEMMA ValuesAre ==
  ASSUME host \in Hosts, NEW key, NEW i \in Values(key)
  PROVE  i \in 1..Len(host.cpuinfo) /\ i \in Int /\ host.cpuinfo[i].key = key
<1>1. i \in DOMAIN host.cpuinfo /\ host.cpuinfo[i].key = key
  BY DEF Values, Lines
<1> QED BY <1>1, HostSizes

\* The first line is after none.
LEMMA NoLines ==
  ASSUME host \in Hosts
  PROVE  /\ \A key : LinesSaying(key, 0) = {}
         /\ BrandsBy(0) = {} /\ PartsBy(0) = {} /\ RegistersBy(0) = {}
<1>1. \A key : LinesSaying(key, 0) = {}
  BY ValuesAre DEF LinesSaying
<1>2. LinesSaying("model name", 0) = {} /\ LinesSaying("CPU part", 0) = {}
  BY <1>1
<1>3. BrandsBy(0) = {} /\ PartsBy(0) = {}
  BY <1>2 DEF BrandsBy, PartsBy
<1>4. 1..0 = {}
  OBVIOUS
<1>5. RegistersBy(0) = {}
  BY <1>4 DEF RegistersBy
<1> QED BY <1>1, <1>3, <1>5

\* What chunk i adds to what the first n said.
ChunkAdds(n, i) ==
  /\ \A key : LinesSaying(key, i) = LinesSaying(key, n) \cup (IF i \in Values(key) THEN {i} ELSE {})
  /\ BrandsBy(i) = BrandsBy(n) \cup
       (IF i \in Values("model name") /\ host.cpuinfo[i].val \notin Generic
        THEN {host.cpuinfo[i].val} ELSE {})
  /\ PartsBy(i) = PartsBy(n) \cup
       (IF i \in Values("CPU part") /\ LinesSaying("CPU implementer", n) # {}
        THEN {MidrName(PairAt(i))} ELSE {})

LEMMA OneChunkMore ==
  ASSUME host \in Hosts, NEW n \in Nat, NEW i, i = n + 1, i \in 1..Len(host.cpuinfo)
  PROVE  ChunkAdds(n, i)
<1>1. ASSUME NEW key
      PROVE  LinesSaying(key, i) = LinesSaying(key, n) \cup (IF i \in Values(key) THEN {i} ELSE {})
  <2>1. \A j \in Values(key) : j \in Int
    BY ValuesAre
  <2> QED BY <2>1 DEF LinesSaying
<1>2. BrandsBy(i) = BrandsBy(n) \cup
        (IF i \in Values("model name") /\ host.cpuinfo[i].val \notin Generic
         THEN {host.cpuinfo[i].val} ELSE {})
  <2>1. PICK A, B, V : /\ A = LinesSaying("model name", n) /\ B = LinesSaying("model name", i)
                       /\ V = Values("model name")
    OBVIOUS
  <2>2. B = A \cup (IF i \in V THEN {i} ELSE {})
    BY <1>1, <2>1
  <2>3. BrandsBy(i) = {host.cpuinfo[j].val : j \in B} \ Generic
        /\ BrandsBy(n) = {host.cpuinfo[j].val : j \in A} \ Generic
    BY <2>1 DEF BrandsBy
  <2>4. CASE i \in V
    <3>1. B = A \cup {i}
      BY <2>2, <2>4
    <3>2. {host.cpuinfo[j].val : j \in B} = {host.cpuinfo[j].val : j \in A} \cup {host.cpuinfo[i].val}
      BY <3>1
    <3>3. BrandsBy(i) = BrandsBy(n) \cup ({host.cpuinfo[i].val} \ Generic)
      BY <2>3, <3>2
    <3>4. {host.cpuinfo[i].val} \ Generic =
            IF host.cpuinfo[i].val \notin Generic THEN {host.cpuinfo[i].val} ELSE {}
      OBVIOUS
    <3> QED BY <2>1, <2>4, <3>3, <3>4
  <2>5. CASE i \notin V
    BY <2>1, <2>2, <2>3, <2>5
  <2> QED BY <2>4, <2>5
<1>3. (\E j \in Values("CPU implementer") : j < i) <=> LinesSaying("CPU implementer", n) # {}
  <2>1. \A j \in Values("CPU implementer") : j \in Int
    BY ValuesAre
  <2>2. n \in Nat /\ i = n + 1
    OBVIOUS
  <2>3. \A j \in Int : j < i <=> j <= n
    BY ONLY <2>2
  <2>4. \A j \in Values("CPU implementer") : j < i <=> j <= n
    BY <2>1, <2>3
  <2> QED BY <2>4 DEF LinesSaying
<1>4. PartsBy(i) = PartsBy(n) \cup
        (IF i \in Values("CPU part") /\ LinesSaying("CPU implementer", n) # {}
         THEN {MidrName(PairAt(i))} ELSE {})
  <2>1. PICK A, B, V, I : /\ A = LinesSaying("CPU part", n) /\ B = LinesSaying("CPU part", i)
                          /\ V = Values("CPU part") /\ I = Values("CPU implementer")
    OBVIOUS
  <2>2. B = A \cup (IF i \in V THEN {i} ELSE {})
    BY <1>1, <2>1
  <2>3. PICK P, Q : P = {j \in A : \E k \in I : k < j} /\ Q = {j \in B : \E k \in I : k < j}
    OBVIOUS
  <2>4. PartsBy(n) = {MidrName(PairAt(j)) : j \in P} /\ PartsBy(i) = {MidrName(PairAt(j)) : j \in Q}
    BY <2>1, <2>3 DEF PartsBy
  <2>5. Q = P \cup (IF i \in V /\ LinesSaying("CPU implementer", n) # {} THEN {i} ELSE {})
    <3>1. (\E k \in I : k < i) <=> LinesSaying("CPU implementer", n) # {}
      BY <1>3, <2>1
    <3>2. CASE i \in V
      <4>1. B = A \cup {i}
        BY <2>2, <3>2
      <4> QED BY <2>3, <3>1, <3>2, <4>1
    <3>3. CASE i \notin V
      BY <2>2, <2>3, <3>3
    <3> QED BY <3>2, <3>3
  <2>6. CASE i \in V /\ LinesSaying("CPU implementer", n) # {}
    <3>1. Q = P \cup {i}
      BY <2>5, <2>6
    <3>2. {MidrName(PairAt(j)) : j \in Q} = {MidrName(PairAt(j)) : j \in P} \cup {MidrName(PairAt(i))}
      BY <3>1
    <3> QED BY <2>1, <2>4, <2>6, <3>2
  <2>7. CASE ~(i \in V /\ LinesSaying("CPU implementer", n) # {})
    BY <2>1, <2>4, <2>5, <2>7
  <2> QED BY <2>6, <2>7
<1> QED BY ONLY <1>1, <1>2, <1>4 DEF ChunkAdds

\* One register more.
LEMMA OneRegisterMore ==
  ASSUME NEW n \in Nat, NEW k, k = n + 1
  PROVE  RegistersBy(k) = RegistersBy(n) \cup
           (IF CpusRead[k] \in DOMAIN host.midr THEN {MidrName(host.midr[CpusRead[k]])} ELSE {})
<1>1. PICK P, Q : /\ P = {j \in 1..n : CpusRead[j] \in DOMAIN host.midr}
                  /\ Q = {j \in 1..k : CpusRead[j] \in DOMAIN host.midr}
  OBVIOUS
<1>2. 1..k = (1..n) \cup {k}
  OBVIOUS
<1>3. Q = P \cup (IF CpusRead[k] \in DOMAIN host.midr THEN {k} ELSE {})
  BY <1>1, <1>2
<1>4. /\ RegistersBy(n) = {MidrName(host.midr[CpusRead[j]]) : j \in P}
      /\ RegistersBy(k) = {MidrName(host.midr[CpusRead[j]]) : j \in Q}
  BY <1>1 DEF RegistersBy
<1>5. CASE CpusRead[k] \in DOMAIN host.midr
  <2>1. Q = P \cup {k}
    BY <1>3, <1>5
  <2> QED BY <1>4, <1>5, <2>1
<1>6. CASE CpusRead[k] \notin DOMAIN host.midr
  BY <1>3, <1>4, <1>6
<1> QED BY <1>5, <1>6

\* When everything was read, it is what the properties call it.
LEMMA AllLines ==
  ASSUME host \in Hosts, NEW n, n = Len(host.cpuinfo), NEW k, k = Len(CpusRead)
  PROVE  /\ \A key : LinesSaying(key, n) = Values(key)
         /\ BrandsBy(n) = BrandNames /\ PartsBy(n) = PartNames /\ RegistersBy(k) = RegisterNames
<1>1. ASSUME NEW key PROVE LinesSaying(key, n) = Values(key)
  <2>1. \A i \in Values(key) : i <= n
    BY ValuesAre, HostSizes
  <2> QED BY <2>1 DEF LinesSaying
<1>2. LinesSaying("model name", n) = Values("model name") /\ LinesSaying("CPU part", n) = Values("CPU part")
  BY <1>1
<1>3. BrandsBy(n) = BrandNames /\ PartsBy(n) = PartNames
  BY <1>2 DEF BrandsBy, BrandNames, PartsBy, PartNames
<1>4. RegistersBy(k) = RegisterNames
  <2>1. ToSet(CpusRead) = {CpusRead[j] : j \in 1..k}
    BY HostSizes DEF ToSet
  <2>2. RegisterNames = {MidrName(host.midr[id]) : id \in DOMAIN host.midr \cap ToSet(CpusRead)}
    BY HostRegister
  <2> QED BY <2>1, <2>2 DEF RegistersBy
<1> QED BY <1>1, <1>3, <1>4

LEMMA NamesFirst == InventoryInit => NamesInv
<1> SUFFICES ASSUME InventoryInit PROVE NamesInv
  OBVIOUS
<1>1. /\ host \in Hosts /\ chunk = 0 /\ continuation = FALSE /\ impl = "" /\ models = <<>> /\ midrs = <<>>
      /\ platform = <<>> /\ cpu = 0 /\ stage = "cpuinfo"
  BY DEF InventoryInit
<1>2. /\ \A key : LinesSaying(key, 0) = {}
      /\ BrandsBy(0) = {} /\ PartsBy(0) = {}
  BY <1>1, NoLines
<1>3. chunk \in 0..Len(host.cpuinfo)
  <2>1. PICK l : l = Len(host.cpuinfo)
    OBVIOUS
  <2>2. l \in Nat
    BY <1>1, <2>1, HostSizes
  <2>3. 0 \in 0..l
    BY ONLY <2>2
  <2> QED BY <1>1, <2>1, <2>3
<1>4. Keeps(models, BrandsBy(chunk)) /\ Keeps(midrs, IF host.arm THEN PartsBy(chunk) ELSE {})
  BY <1>1, <1>2, NothingKept
<1>5. ImplIsLatest /\ LinesSaying("Hardware", chunk) = {}
  BY <1>1, <1>2 DEF ImplIsLatest
<1> QED BY <1>1, <1>3, <1>4, <1>5 DEF NamesInv

\* A chunk says a key where a line begins that has it.
LEMMA ChunkSays ==
  ASSUME NamesInv, NEW i, i = chunk + 1, i \in 1..Len(host.cpuinfo), NEW key
  PROVE  (~continuation /\ host.cpuinfo[i].key = key) <=> i \in Values(key)
<1>1. host \in Hosts /\ chunk \in 0..Len(host.cpuinfo)
      /\ (~continuation <=> chunk = 0 \/ host.cpuinfo[chunk].ends)
  BY DEF NamesInv
<1>2. Len(host.cpuinfo) \in Nat /\ DOMAIN host.cpuinfo = 1..Len(host.cpuinfo)
  BY <1>1, HostSizes
<1>3. i \in DOMAIN host.cpuinfo /\ (i = 1 <=> chunk = 0) /\ i - 1 = chunk
  BY <1>1, <1>2
<1>4. i \in Lines <=> ~continuation
  BY <1>1, <1>3 DEF Lines
<1> QED BY <1>4 DEF Values

\* The implementer kept is the one the property means.
LEMMA PairIs ==
  ASSUME host \in Hosts, NEW n \in Nat, NEW i, i = n + 1, NEW j, Latest(j, n)
  PROVE  PairAt(i) = [impl |-> host.cpuinfo[j].val[1], part |-> host.cpuinfo[i].val[1]]
<1>1. PICK S : S = {k \in Values("CPU implementer") : k < i}
  OBVIOUS
<1>2. \A k \in Values("CPU implementer") : k \in Int
  BY ValuesAre
<1>3. S = LinesSaying("CPU implementer", n)
  <2>1. \A k \in Int : k < i <=> k <= n
    OBVIOUS
  <2>2. \A k \in Values("CPU implementer") : k < i <=> k <= n
    BY <1>2, <2>1
  <2> QED BY <1>1, <2>2 DEF LinesSaying
<1>4. S \in SUBSET Int /\ j \in S /\ \A k \in S : k <= j
  BY <1>1, <1>2, <1>3 DEF Latest
<1>5. Max(S) = j
  BY <1>4, MaxIs
<1> QED BY <1>1, <1>5 DEF PairAt

LEMMA ReadCpuinfoStep ==
  ASSUME NamesInv, ReadCpuinfo
  PROVE  NamesInv'
<1>1. PICK n, i : n = chunk /\ i = chunk + 1
  OBVIOUS
<1>2. /\ host \in Hosts /\ stage = "cpuinfo" /\ n \in Nat /\ i = n + 1 /\ i \in 1..Len(host.cpuinfo)
      /\ chunk' = i /\ host' = host /\ cpu' = cpu /\ stage' = stage /\ described' = described
  <2>1. /\ host \in Hosts /\ stage = "cpuinfo" /\ chunk \in 0..Len(host.cpuinfo) /\ chunk < Len(host.cpuinfo)
        /\ chunk' = chunk + 1 /\ host' = host /\ cpu' = cpu /\ stage' = stage /\ described' = described
    BY DEF NamesInv, ReadCpuinfo
  <2>2. Len(host.cpuinfo) \in Nat
    BY <2>1, HostSizes
  <2> QED BY <1>1, <2>1, <2>2
<1>3. PICK c : c = host.cpuinfo[i]
  OBVIOUS
<1>4. /\ c.ends \in BOOLEAN
      /\ c.key \in {"model name", "Hardware"} => IsName(c.val)
      /\ c.key \in {"CPU implementer", "CPU part"} => c.val[1] \notin {"", Separator}
  BY <1>2, <1>3, HostLine
<1>5. \A key : (~continuation /\ c.key = key) <=> i \in Values(key)
  BY <1>1, <1>2, <1>3, ChunkSays
<1>6. /\ models' = IF i \in Values("model name") /\ c.val \notin Generic THEN Added(models, c.val) ELSE models
      /\ platform' = IF i \in Values("Hardware") /\ platform = <<>> THEN c.val ELSE platform
      /\ impl' = IF host.arm /\ i \in Values("CPU implementer") THEN c.val[1] ELSE impl
      /\ midrs' = IF host.arm /\ i \in Values("CPU part") /\ impl # ""
                  THEN Added(midrs, MidrName([impl |-> impl, part |-> c.val[1]])) ELSE midrs
      /\ continuation' = ~c.ends
  BY <1>1, <1>3, <1>5 DEF ReadCpuinfo
<1>7. \A key : i \in Values(key) => c.key = key
  BY <1>3 DEF Values
<1>8. /\ \A key : LinesSaying(key, i) = LinesSaying(key, n) \cup (IF i \in Values(key) THEN {i} ELSE {})
      /\ BrandsBy(i) = BrandsBy(n) \cup
           (IF i \in Values("model name") /\ c.val \notin Generic THEN {c.val} ELSE {})
      /\ PartsBy(i) = PartsBy(n) \cup
           (IF i \in Values("CPU part") /\ LinesSaying("CPU implementer", n) # {}
            THEN {MidrName(PairAt(i))} ELSE {})
  <2>1. host \in Hosts /\ n \in Nat /\ i = n + 1 /\ i \in 1..Len(host.cpuinfo)
    BY <1>2
  <2>2. ChunkAdds(n, i)
    BY ONLY <2>1, OneChunkMore
  <2> QED BY ONLY <1>3, <2>2 DEF ChunkAdds
<1>9. Keeps(models', BrandsBy(i))
  <2>1. Keeps(models, BrandsBy(n))
    BY <1>1 DEF NamesInv
  <2>2. CASE i \in Values("model name") /\ c.val \notin Generic
    <3>1. IsName(c.val)
      BY <1>4, <1>7, <2>2
    <3>2. models' = Added(models, c.val) /\ BrandsBy(i) = BrandsBy(n) \cup {c.val}
      BY <1>6, <1>8, <2>2
    <3> QED BY <2>1, <3>1, <3>2, AddedIsKept
  <2>3. CASE ~(i \in Values("model name") /\ c.val \notin Generic)
    <3>1. models' = models /\ BrandsBy(i) = BrandsBy(n)
      BY <1>6, <1>8, <2>3
    <3> QED BY <2>1, <3>1
  <2> QED BY <2>2, <2>3
<1>10. platform' = <<>> <=> LinesSaying("Hardware", i) = {}
  <2>1. platform = <<>> <=> LinesSaying("Hardware", n) = {}
    BY <1>1 DEF NamesInv
  <2>2. LinesSaying("Hardware", i) = LinesSaying("Hardware", n) \cup (IF i \in Values("Hardware") THEN {i} ELSE {})
    BY <1>8
  <2>3. i \in Values("Hardware") => c.val # <<>>
    BY <1>4, <1>7 DEF IsName
  <2> QED BY <1>6, <2>1, <2>2, <2>3
<1>11. ASSUME host.arm
       PROVE  IF LinesSaying("CPU implementer", i) = {} THEN impl' = ""
              ELSE \E j : Latest(j, i) /\ impl' = host.cpuinfo[j].val[1]
  <2>1. PICK A, B : A = LinesSaying("CPU implementer", n) /\ B = LinesSaying("CPU implementer", i)
    OBVIOUS
  <2>2. B = A \cup (IF i \in Values("CPU implementer") THEN {i} ELSE {})
    BY <1>8, <2>1
  <2>3. \A k \in A : k \in Int /\ k <= n
    BY <1>2, <2>1, ValuesAre DEF LinesSaying
  <2>4. CASE i \in Values("CPU implementer")
    <3>1. impl' = host.cpuinfo[i].val[1]
      BY <1>3, <1>6, <1>11, <2>4
    <3>2. B = A \cup {i}
      BY <2>2, <2>4
    <3>3. \A k \in A : k <= i
      BY <1>2, <2>3
    <3>4. i \in B /\ \A k \in B : k <= i
      BY <1>2, <3>2, <3>3
    <3> QED BY <2>1, <3>1, <3>4 DEF Latest
  <2>5. CASE i \notin Values("CPU implementer")
    <3>1. impl' = impl /\ B = A
      BY <1>6, <2>2, <2>5
    <3>2. IF A = {} THEN impl = "" ELSE \E j : Latest(j, n) /\ impl = host.cpuinfo[j].val[1]
      BY <1>1, <1>11, <2>1 DEF NamesInv, ImplIsLatest
    <3>3. \A j : Latest(j, n) <=> Latest(j, i)
      BY <2>1, <3>1 DEF Latest
    <3> QED BY <2>1, <3>1, <3>2, <3>3
  <2> QED BY <2>4, <2>5
<1>12. Keeps(midrs', IF host.arm THEN PartsBy(i) ELSE {})
  <2>1. Keeps(midrs, IF host.arm THEN PartsBy(n) ELSE {})
    BY <1>1, <1>2 DEF NamesInv
  <2>2. CASE ~host.arm
    BY <1>6, <2>1, <2>2
  <2>3. CASE host.arm
    <3>1. IF LinesSaying("CPU implementer", n) = {} THEN impl = ""
          ELSE \E j : Latest(j, n) /\ impl = host.cpuinfo[j].val[1]
      BY <1>1, <2>3 DEF NamesInv, ImplIsLatest
    <3>2. CASE i \in Values("CPU part") /\ LinesSaying("CPU implementer", n) # {}
      <4>1. PICK j : Latest(j, n) /\ impl = host.cpuinfo[j].val[1]
        BY <3>1, <3>2
      <4>2. j \in Values("CPU implementer")
        BY <4>1 DEF Latest, LinesSaying
      <4>3. host.cpuinfo[j].key = "CPU implementer" /\ j \in 1..Len(host.cpuinfo)
        BY <1>2, <4>2, ValuesAre
      <4>4. impl \notin {"", Separator}
        <5>1. PICK d : d = host.cpuinfo[j]
          OBVIOUS
        <5>2. d.key \in {"CPU implementer", "CPU part"} => d.val[1] \notin {"", Separator}
          BY <1>2, <4>3, <5>1, HostLine
        <5> QED BY <4>1, <4>3, <5>1, <5>2
      <4>5. PairAt(i) = [impl |-> impl, part |-> c.val[1]]
        BY <1>2, <1>3, <4>1, PairIs
      <4>6. c.val[1] # Separator
        BY <1>4, <1>7, <3>2
      <4>7. PICK pair : pair = PairAt(i)
        OBVIOUS
      <4>8. Separator \notin {pair.impl, pair.part}
        <5>1. pair.impl = impl /\ pair.part = c.val[1]
          BY <4>5, <4>7
        <5> QED BY <4>4, <4>6, <5>1
      <4>9. IsName(MidrName(pair))
        BY <4>8, MidrNameIs
      <4>10. midrs' = Added(midrs, MidrName(pair)) /\ PartsBy(i) = PartsBy(n) \cup {MidrName(pair)}
        BY <1>6, <1>8, <2>3, <3>2, <4>4, <4>5, <4>7
      <4>11. Keeps(midrs, PartsBy(n))
        BY <2>1, <2>3
      <4>12. Keeps(midrs', PartsBy(i))
        BY <4>9, <4>10, <4>11, AddedIsKept
      <4> QED BY <2>3, <4>12
    <3>3. CASE ~(i \in Values("CPU part") /\ LinesSaying("CPU implementer", n) # {})
      <4>1. PartsBy(i) = PartsBy(n)
        BY <1>8, <3>3
      <4>2. midrs' = midrs
        BY <1>6, <3>1, <3>3
      <4> QED BY <2>1, <2>3, <4>1, <4>2
    <3> QED BY <3>2, <3>3
  <2> QED BY <2>2, <2>3
<1>13. /\ BrandsBy(chunk)' = BrandsBy(i) /\ PartsBy(chunk)' = PartsBy(i)
       /\ LinesSaying("Hardware", chunk)' = LinesSaying("Hardware", i)
  BY <1>2 DEF BrandsBy, PartsBy, PairAt, LinesSaying, Values, Lines
<1>14. ImplIsLatest' <=> IF LinesSaying("CPU implementer", i) = {} THEN impl' = ""
                         ELSE \E j : Latest(j, i) /\ impl' = host.cpuinfo[j].val[1]
  BY <1>2 DEF ImplIsLatest, Latest, LinesSaying, Values, Lines
<1>15. ~continuation' <=> chunk' = 0 \/ host'.cpuinfo[chunk'].ends
  <2>1. continuation' = ~c.ends /\ chunk' = i /\ host'.cpuinfo[chunk'] = c /\ i # 0
    <3>1. i # 0
      BY <1>2
    <3>2. chunk' = i /\ host'.cpuinfo[i] = c
      BY <1>2, <1>3
    <3> QED BY <1>6, <3>1, <3>2
  <2>2. CASE c.ends
    BY <2>1, <2>2
  <2>3. CASE ~c.ends
    BY <2>1, <2>3
  <2> QED BY <2>2, <2>3
<1>16. cpu = 0
  BY <1>2 DEF NamesInv
<1>17. chunk' \in 0..Len(host'.cpuinfo)
  BY <1>2, HostSizes
<1> QED BY <1>2, <1>9, <1>10, <1>11, <1>12, <1>13, <1>14, <1>15, <1>16, <1>17 DEF NamesInv

\* Where the other steps leave what they do not touch.
NamesRest ==
  UNCHANGED <<host, chunk, continuation, impl, models, platform>>

LEMMA RestStays ==
  ASSUME NamesInv, NamesRest
  PROVE  /\ host' \in Hosts /\ chunk' \in 0..Len(host'.cpuinfo)
         /\ ~continuation' <=> chunk' = 0 \/ host'.cpuinfo[chunk'].ends
         /\ Keeps(models', BrandsBy(chunk)')
         /\ platform' = <<>> <=> LinesSaying("Hardware", chunk)' = {}
         /\ host'.arm => ImplIsLatest'
         /\ \A n : RegistersBy(n)' = RegistersBy(n)
         /\ \A n : PartsBy(n)' = PartsBy(n)
         /\ PartNames' = PartNames /\ Fallback' = Fallback
<1>1. UNCHANGED <<host, chunk, continuation, impl, models, platform>>
  BY DEF NamesRest
<1>2. /\ BrandsBy(chunk)' = BrandsBy(chunk) /\ LinesSaying("Hardware", chunk)' = LinesSaying("Hardware", chunk)
      /\ ImplIsLatest' = ImplIsLatest /\ \A n : RegistersBy(n)' = RegistersBy(n)
      /\ \A n : PartsBy(n)' = PartsBy(n)
  BY <1>1 DEF BrandsBy, PartsBy, PairAt, LinesSaying, Values, Lines, ImplIsLatest, Latest, RegistersBy, CpusRead
<1>3. PartNames' = PartNames /\ RegisterNames' = RegisterNames
  BY <1>1 DEF PartNames, PairAt, Values, Lines, RegisterNames
<1>4. Fallback' = Fallback
  BY <1>1, <1>3 DEF Fallback
<1> QED BY <1>1, <1>2, <1>3, <1>4 DEF NamesInv

LEMMA OtherNamesStep ==
  ASSUME NamesInv, CpuinfoOver \/ ReadRegister \/ RegistersOver \/ Describe \/ UNCHANGED inventory
  PROVE  NamesInv'
<1>0. NamesRest
  BY DEF CpuinfoOver, ReadRegister, RegistersOver, Describe, inventory, NamesRest
<1>1. /\ host' \in Hosts /\ chunk' \in 0..Len(host'.cpuinfo)
      /\ ~continuation' <=> chunk' = 0 \/ host'.cpuinfo[chunk'].ends
      /\ Keeps(models', BrandsBy(chunk)')
      /\ platform' = <<>> <=> LinesSaying("Hardware", chunk)' = {}
      /\ host'.arm => ImplIsLatest'
      /\ \A n : RegistersBy(n)' = RegistersBy(n)
      /\ \A n : PartsBy(n)' = PartsBy(n)
      /\ PartNames' = PartNames /\ Fallback' = Fallback
  BY <1>0, RestStays
<1>2. host \in Hosts /\ host' = host /\ chunk' = chunk /\ models' = models /\ platform' = platform
  BY <1>0 DEF NamesRest, NamesInv
<1>3. CASE CpuinfoOver
  <2>1. /\ stage = "cpuinfo" /\ chunk = Len(host.cpuinfo) /\ cpu = 0
        /\ Keeps(midrs, IF host.arm THEN PartsBy(chunk) ELSE {})
        /\ midrs' = midrs /\ cpu' = cpu
        /\ stage' = IF host.arm /\ midrs = <<>> THEN "sysfs" ELSE "describe"
    BY <1>3 DEF NamesInv, CpuinfoOver
  <2>2. PartsBy(chunk) = PartNames /\ RegistersBy(0) = {}
    BY <1>2, <2>1, AllLines, NoLines
  <2>3. CASE host.arm /\ midrs = <<>>
    <3>1. PartNames = {} /\ Keeps(midrs, RegistersBy(0))
      BY <2>1, <2>2, <2>3 DEF Keeps
    <3>2. 0 \in 0..Len(CpusRead)
      BY <1>2, HostSizes
    <3> QED BY <1>1, <1>2, <2>1, <2>3, <3>1, <3>2 DEF NamesInv
  <2>4. CASE ~(host.arm /\ midrs = <<>>)
    <3>1. Keeps(midrs, Fallback)
      <4>1. CASE host.arm
        <5>1. Keeps(midrs, PartNames) /\ midrs # <<>>
          BY <2>1, <2>2, <2>4, <4>1
        <5>2. PartNames # {}
          BY <5>1 DEF Keeps
        <5> QED BY <4>1, <5>1, <5>2 DEF Fallback
      <4>2. CASE ~host.arm
        BY <2>1, <4>2 DEF Fallback
      <4> QED BY <4>1, <4>2
    <3> QED BY <1>1, <1>2, <2>1, <2>4, <3>1 DEF NamesInv
  <2> QED BY <2>3, <2>4
<1>4. CASE ReadRegister
  <2>1. PICK k, id : k = cpu + 1 /\ id = CpusRead[k]
    OBVIOUS
  <2>2. /\ stage = "sysfs" /\ host.arm /\ PartNames = {} /\ cpu \in 0..Len(CpusRead)
        /\ Keeps(midrs, RegistersBy(cpu)) /\ chunk = Len(host.cpuinfo)
        /\ cpu < Len(CpusRead) /\ cpu' = k /\ stage' = stage
        /\ midrs' = IF id \in DOMAIN host.midr THEN Added(midrs, MidrName(host.midr[id])) ELSE midrs
    BY <1>4, <2>1 DEF NamesInv, ReadRegister
  <2>3. Len(CpusRead) \in Nat /\ \A j \in DOMAIN host.midr : Separator \notin {host.midr[j].impl, host.midr[j].part}
    BY <1>2, HostSizes, HostRegister
  <2>4. cpu \in Nat /\ k \in 0..Len(CpusRead)
    BY <2>1, <2>2, <2>3
  <2>5. RegistersBy(k) = RegistersBy(cpu) \cup
          (IF id \in DOMAIN host.midr THEN {MidrName(host.midr[id])} ELSE {})
    BY <2>1, <2>4, OneRegisterMore
  <2>6. Keeps(midrs', RegistersBy(k))
    <3>1. CASE id \in DOMAIN host.midr
      <4>1. IsName(MidrName(host.midr[id]))
        BY <2>3, <3>1, MidrNameIs
      <4>2. midrs' = Added(midrs, MidrName(host.midr[id])) /\ RegistersBy(k) = RegistersBy(cpu) \cup {MidrName(host.midr[id])}
        BY <2>2, <2>5, <3>1
      <4> QED BY <2>2, <4>1, <4>2, AddedIsKept
    <3>2. CASE id \notin DOMAIN host.midr
      <4>1. midrs' = midrs /\ RegistersBy(k) = RegistersBy(cpu)
        BY <2>2, <2>5, <3>2
      <4> QED BY <2>2, <4>1
    <3> QED BY <3>1, <3>2
  <2>7. RegistersBy(cpu)' = RegistersBy(k) /\ CpusRead' = CpusRead
    BY <1>2, <2>2 DEF RegistersBy, CpusRead
  <2> QED BY <1>1, <1>2, <2>2, <2>4, <2>6, <2>7 DEF NamesInv
<1>5. CASE RegistersOver
  <2>1. /\ stage = "sysfs" /\ host.arm /\ PartNames = {} /\ cpu = Len(CpusRead)
        /\ Keeps(midrs, RegistersBy(cpu)) /\ chunk = Len(host.cpuinfo)
        /\ midrs' = midrs /\ stage' = "describe"
    BY <1>5 DEF NamesInv, RegistersOver
  <2>2. RegistersBy(cpu) = RegisterNames
    BY <1>2, <2>1, AllLines
  <2>3. Keeps(midrs, Fallback)
    BY <2>1, <2>2 DEF Fallback
  <2> QED BY <1>1, <1>2, <2>1, <2>3 DEF NamesInv
<1>6. CASE Describe
  <2>1. /\ stage = "describe" /\ Keeps(midrs, Fallback) /\ chunk = Len(host.cpuinfo)
        /\ midrs' = midrs /\ stage' = "named"
        /\ described' = [cores |-> IF models = <<>> THEN midrs ELSE models,
                         board |-> IF host.board = <<>> THEN platform ELSE host.board]
    BY <1>6 DEF NamesInv, Describe
  <2> QED BY <1>1, <1>2, <2>1 DEF NamesInv
<1>7. CASE UNCHANGED inventory
  <2>1. /\ midrs' = midrs /\ stage' = stage /\ cpu' = cpu /\ described' = described
        /\ PartsBy(chunk)' = PartsBy(chunk) /\ RegistersBy(cpu)' = RegistersBy(cpu)
        /\ CpusRead' = CpusRead
    BY <1>2, <1>7 DEF inventory, PartsBy, PairAt, LinesSaying, Values, Lines, RegistersBy, CpusRead
  <2> QED BY <1>1, <1>2, <2>1 DEF NamesInv
<1> QED BY <1>3, <1>4, <1>5, <1>6, <1>7

LEMMA NamesAreComplete == NamesInv => NamesEveryCore
<1> SUFFICES ASSUME NamesInv, stage = "named" PROVE NamesEveryCore
  BY DEF NamesEveryCore
<1>1. /\ host \in Hosts /\ chunk = Len(host.cpuinfo) /\ Keeps(models, BrandsBy(chunk)) /\ Keeps(midrs, Fallback)
      /\ platform = <<>> <=> LinesSaying("Hardware", chunk) = {}
      /\ described = [cores |-> IF models = <<>> THEN midrs ELSE models,
                      board |-> IF host.board = <<>> THEN platform ELSE host.board]
  BY DEF NamesInv
<1>2. BrandsBy(chunk) = BrandNames /\ LinesSaying("Hardware", chunk) = Values("Hardware")
  BY <1>1, AllLines
<1>3. PICK list, expected : list = described.cores /\ expected = IF BrandNames # {} THEN BrandNames ELSE Fallback
  OBVIOUS
<1>4. Keeps(list, expected)
  <2>1. list = IF models = <<>> THEN midrs ELSE models
    BY <1>1, <1>3
  <2>2. models = <<>> <=> BrandNames = {}
    BY <1>1, <1>2 DEF Keeps
  <2> QED BY <1>1, <1>2, <1>3, <2>1, <2>2
<1>5. Len(list) < NameSpace =>
        /\ Elements(list) = expected
        /\ list # <<>> => Cardinality({i \in DOMAIN list : list[i] = Separator}) + 1 = Cardinality(expected)
  BY <1>4 DEF Keeps, Names, Separators
<1>6. described.board = <<>> <=> host.board = <<>> /\ Values("Hardware") = {}
  BY <1>1, <1>2
<1> QED BY <1>3, <1>5, <1>6 DEF NamesEveryCore, Fallback

\* The list names every kind of core once and no other (models_add, midr_name
\* and what calls them), for every machine and however fgets cuts its lines,
\* as long as it did not run out of room; where the list of CPUs present cannot
\* be read, of the cores numbered below the count of CPUs online.
THEOREM CoresAreNamed == InventorySpec => []NamesEveryCore
<1>1. InventoryInit => NamesInv
  BY NamesFirst
<1>2. NamesInv /\ [InventoryNext]_inventory => NamesInv'
  BY ReadCpuinfoStep, OtherNamesStep DEF InventoryNext
<1>3. NamesInv => NamesEveryCore
  BY NamesAreComplete
<1> QED BY <1>1, <1>2, <1>3, PTL DEF InventorySpec

-----------------------------------------------------------------------------
(***************************************************************************)
(* The working sets (RunSetup). What was not asked for explicitly is the   *)
(* default; four times a thread's share of the cache, rounded down twice,  *)
(* is still twice of it.                                                   *)
(***************************************************************************)

LEMMA MemorySizes ==
  /\ Megabyte \in Nat /\ ChaseMin \in Nat /\ DefaultSet \in Nat
  /\ 0 < ChaseMin /\ ChaseMin + 4096 <= Megabyte /\ 4 * 4096 <= Megabyte /\ Megabyte <= DefaultSet
BY SMT DEF Megabyte, ChaseMin, DefaultSet

LEMMA BytesAre ==
  ASSUME NEW c, c.n \in Nat
  PROVE  BytesOf(c) \in Nat
BY MemorySizes DEF BytesOf

\* There is a largest cache, or none.
LEMMA LlcIsNat ==
  ASSUME SiteOK(site)
  PROVE  DetectLlc \in Nat
<1>1. IsFiniteSet(site.caches) /\ \A c \in site.caches : BytesOf(c) \in Nat
  BY BytesAre DEF SiteOK
<1>2. PICK S, B : S = site.caches /\ B = {0} \cup {BytesOf(c) : c \in S}
  OBVIOUS
<1>3. PICK n \in Nat : ExistsBijection(1..n, S)
  BY <1>1, <1>2, FS_NatBijection
<1>4. PICK g : (\A i \in 1..n : g[i] \in S) /\ (\A c \in S : \E i \in 1..n : g[i] = c)
  BY <1>3 DEF ExistsBijection, Bijection, Injection, Surjection
<1>5. PICK h : h = [i \in 0..n |-> IF i = 0 THEN 0 ELSE BytesOf(g[i])]
  OBVIOUS
<1>6. \A i \in 0..n : h[i] \in Nat /\ h[i] \in B
  <2>1. h[0] = 0 /\ \A i \in 1..n : h[i] = BytesOf(g[i])
    BY <1>5
  <2> QED BY <1>1, <1>2, <1>4, <2>1
<1>7. \A x \in B : \E i \in 0..n : x = h[i]
  <2>1. h[0] = 0 /\ \A i \in 1..n : h[i] = BytesOf(g[i])
    BY <1>5
  <2> QED BY <1>2, <1>4, <2>1
<1>8. PICK m : Greatest(h, m, 0, n)
  <2>1. 0 \in Int /\ n \in Int /\ 0 <= n /\ \A i \in 0..n : h[i] \in Int
    BY <1>6
  <2> QED BY ONLY <2>1, GreatestExists
<1>9. m \in 0..n /\ \A j \in 0..n : h[j] <= h[m]
  BY <1>8 DEF Greatest
<1>10. B \in SUBSET Int /\ h[m] \in B /\ (\A x \in B : x <= h[m]) /\ h[m] \in Nat
  <2>1. B \in SUBSET Int
    BY <1>6, <1>7
  <2> QED BY <1>6, <1>7, <1>9, <2>1
<1>11. Max(B) = h[m]
  BY ONLY <1>10, MaxIs
<1> QED BY <1>2, <1>10, <1>11 DEF DetectLlc

\* Four times the cache, dealt out to the threads and rounded down to pages, is
\* twice the cache or more.
LEMMA ShareIsEnough ==
  ASSUME NEW l \in Nat, NEW T \in Nat \ {0}, NEW q, q = (l * 4) \div T,
         NEW m \in Nat, 2 * m >= q + 1
  PROVE  m * T >= 2 * l
<1>1. PICK a \in Nat : a = l * 4
  OBVIOUS
<1>2. q \in Nat /\ a = T * q + (a % T) /\ a % T \in 0..(T - 1)
  BY <1>1
<1>3. PICK p : p = T * q
  OBVIOUS
<1>4. p \in Nat /\ a < p + T
  BY <1>2, <1>3, ProductOfTwo
<1>5. PICK k \in Nat : 2 * m = (q + 1) + k
  <2>1. 2 * m - (q + 1) \in Nat
    BY <1>2
  <2>2. 2 * m = (q + 1) + (2 * m - (q + 1))
    BY <1>2
  <2> QED BY <2>1, <2>2
<1>6. PICK r : r = q + 1
  OBVIOUS
<1>7. r \in Nat /\ T * r = p + T
  BY <1>2, <1>3, <1>6, ProductOfSum
<1>8. T * (r + k) = T * r + T * k /\ T * k \in Nat
  BY <1>7, ProductOfSum, ProductOfTwo
<1>9. T * (m + m) = T * m + T * m
  BY ProductOfSum
<1>10. m + m = r + k
  BY <1>5, <1>6, <1>7
<1>11. PICK x : x = T * m
  OBVIOUS
<1>12. x \in Nat /\ x + x >= p + T
  BY <1>7, <1>8, <1>9, <1>10, <1>11, <1>4, ProductOfTwo
<1>13. m * T = x
  BY <1>11
<1> QED BY <1>1, <1>4, <1>12, <1>13

LEMMA RoundedDown ==
  ASSUME NEW b \in Nat, NEW w, w = b - (b % 4096)
  PROVE  w \in Nat /\ w % 4096 = 0 /\ w > b - 4096 /\ w <= b
<1>1. w \in Nat
  OBVIOUS
<1>2. w % 4096 = 0
  OBVIOUS
<1>3. b % 4096 \in 0..4095
  OBVIOUS
<1>4. w > b - 4096 /\ w <= b
  BY <1>3
<1> QED BY <1>1, <1>2, <1>4

\* Whole pages.
LEMMA PagesAre ==
  ASSUME NEW n \in Nat, NEW w, w = WholePages(AtLeastAMegabyte(n))
  PROVE  /\ w \in Nat /\ (w % Page) = 0 /\ (w = 0 \/ w >= ChaseMin)
         /\ n >= Megabyte => w >= ChaseMin /\ w > n - Page
<1>1. PICK b : b = AtLeastAMegabyte(n)
  OBVIOUS
<1>2. b \in Nat /\ (b = 0 \/ b >= Megabyte) /\ b >= n
  <2>1. CASE n = 0
    BY <1>1, <2>1 DEF AtLeastAMegabyte
  <2>2. CASE n > 0
    <3>1. b = Max({n, Megabyte})
      BY <1>1, <2>2 DEF AtLeastAMegabyte
    <3>2. n \in Int /\ Megabyte \in Int
      BY MemorySizes
    <3>3. Max({n, Megabyte}) = IF n <= Megabyte THEN Megabyte ELSE n
      BY ONLY <3>2, GreatestOfTwo
    <3> QED BY <2>2, <3>1, <3>3, MemorySizes
  <2> QED BY <2>1, <2>2
<1>3. w = b - (b % 4096)
  BY <1>1 DEF WholePages, Page
<1>4. w \in Nat /\ w % 4096 = 0 /\ w > b - 4096 /\ w <= b
  <2>1. b \in Nat
    BY <1>2
  <2> QED BY ONLY <1>3, <2>1, RoundedDown
<1>5. w = 0 \/ w >= ChaseMin
  <2>1. CASE b = 0
    BY <1>4, <2>1
  <2>2. CASE b >= Megabyte
    BY <1>2, <1>4, <2>2, MemorySizes
  <2> QED BY <1>2, <2>1, <2>2
<1>6. n >= Megabyte => w >= ChaseMin /\ w > n - 4096
  BY <1>2, <1>4, MemorySizes
<1> QED BY <1>4, <1>5, <1>6 DEF Page

\* What the locals of main say about the working sets.
Given(r) ==
  /\ {"threads", "perthread", "total", "explicit"} \subseteq DOMAIN r
  /\ r.threads \in Int /\ r.perthread \in Nat /\ r.total \in Nat /\ r.explicit \in BOOLEAN
  /\ ~r.explicit => r.perthread = DefaultSet /\ r.total = 0

SetupInv ==
  /\ \E c \in Commands : argv = c[1] /\ site = c[2]
  /\ argi \in Nat /\ argi <= Len(argv)
  /\ Given(main)
  /\ phase \in {"list", "size", "ready"} => main.threads \in Nat \ {0}
  /\ SizedForDram

LEMMA CommandIs ==
  ASSUME \E c \in Commands : argv = c[1] /\ site = c[2]
  PROVE  /\ SiteOK(site) /\ Len(argv) \in Nat
         /\ \A i \in 1..Len(argv) : WordOK(argv[i])
<1>1. SiteOK(site) /\ argv \in Seq(ToSet(argv)) /\ \A w \in ToSet(argv) : WordOK(w)
  BY SetupAssumption
<1>2. Len(argv) \in Nat /\ DOMAIN argv = 1..Len(argv)
  BY <1>1, LenProperties
<1> QED BY <1>1, <1>2 DEF ToSet

LEMMA SetupFirst == SetupInit => SetupInv
<1> SUFFICES ASSUME SetupInit PROVE SetupInv
  OBVIOUS
<1>1. /\ \E c \in Commands : argv = c[1] /\ site = c[2]
      /\ argi = 0 /\ phase = "options"
  BY DEF SetupInit
<1>2. SiteOK(site) /\ Len(argv) \in Nat
  BY <1>1, CommandIs
<1>3. Given(main)
  <2>1. main = [threads |-> site.cpus, cpus |-> <<>>, percore |-> FALSE, full |-> FALSE,
                sweep |-> FALSE, pin |-> TRUE, reps |-> 3, perthread |-> DefaultSet, total |-> 0,
                explicit |-> FALSE, sel |-> <<Head(Variants)>>, submit |-> FALSE, hub |-> "",
                status |-> -1]
    BY DEF SetupInit
  <2>2. /\ {"threads", "perthread", "total", "explicit"} \subseteq DOMAIN main
        /\ main.threads = site.cpus /\ main.perthread = DefaultSet /\ main.total = 0 /\ main.explicit = FALSE
    BY <2>1
  <2>3. site.cpus \in Int /\ DefaultSet \in Nat
    BY <1>2, MemorySizes DEF SiteOK
  <2>4. ~main.explicit => main.perthread = DefaultSet /\ main.total = 0
    BY <2>2
  <2>5. main.threads \in Int /\ main.perthread \in Nat /\ main.total \in Nat
    BY <2>2, <2>3
  <2>6. main.explicit \in BOOLEAN
    BY ONLY <2>2
  <2> QED BY <2>2, <2>4, <2>5, <2>6 DEF Given
<1> QED BY <1>1, <1>2, <1>3 DEF SetupInv, SizedForDram

\* No option but those for memory says anything of the working sets, and these
\* say that it was asked for.
LEMMA TakenIsGiven ==
  ASSUME Given(main), WordOK(Word), Word.opt \in Options
  PROVE  Given(Taken)
<1>1. CASE Word.opt \in {"--mem-per-thread", "--mem", "--no-mem"}
  <2>1. Word.num \in Nat \/ Word.opt = "--no-mem"
    BY <1>1 DEF WordOK
  <2>2. CASE Word.opt = "--mem-per-thread"
    <3>1. Taken = [main EXCEPT !.perthread = Word.num, !.explicit = TRUE] /\ Word.num \in Nat
      BY <2>1, <2>2 DEF Taken
    <3> QED BY <3>1 DEF Given
  <2>3. CASE Word.opt = "--mem"
    <3>1. Taken = [main EXCEPT !.total = Word.num, !.explicit = TRUE] /\ Word.num \in Nat
      BY <2>1, <2>3 DEF Taken
    <3> QED BY <3>1 DEF Given
  <2>4. CASE Word.opt = "--no-mem"
    <3>1. Taken = [main EXCEPT !.perthread = 0, !.total = 0, !.explicit = TRUE]
      BY <2>4 DEF Taken
    <3> QED BY <3>1 DEF Given
  <2> QED BY <1>1, <2>2, <2>3, <2>4
<1>2. CASE Word.opt = "--threads"
  <2>1. Taken = [main EXCEPT !.threads = Word.num] /\ Word.num \in Int
    BY <1>2 DEF Taken, WordOK
  <2> QED BY <2>1 DEF Given
<1>3. CASE Word.opt \in Options \ {"--mem-per-thread", "--mem", "--no-mem", "--threads"}
  <2>1. /\ DOMAIN Taken = DOMAIN main
        /\ Taken.threads = main.threads /\ Taken.perthread = main.perthread
        /\ Taken.total = main.total /\ Taken.explicit = main.explicit
    BY <1>3 DEF Taken, Options, Given
  <2> QED BY <2>1 DEF Given
<1> QED BY <1>1, <1>2, <1>3

LEMMA SizeMemoryStep ==
  ASSUME SetupInv, SizeMemory
  PROVE  SetupInv'
<1>1. PICK l, T : l = DetectLlc /\ T = main.threads
  OBVIOUS
<1>2. PICK s : s = Sizes(l)
  OBVIOUS
<1>3. PICK mt, pc : mt = WholePages(AtLeastAMegabyte(s.mt)) /\ pc = WholePages(AtLeastAMegabyte(s.pc))
  OBVIOUS
<1>4. /\ phase = "size" /\ phase' = "ready" /\ argv' = argv /\ site' = site /\ argi' = argi /\ main' = main
      /\ mem' = [mt |-> mt, pc |-> pc]
      /\ warned' = IF main.percore THEN Small(pc, 1) ELSE Small(mt, T)
  BY <1>1, <1>2, <1>3 DEF SizeMemory
<1>5. /\ \E c \in Commands : argv = c[1] /\ site = c[2]
      /\ argi \in Nat /\ argi <= Len(argv) /\ Given(main) /\ T \in Nat \ {0}
  BY <1>1, <1>4 DEF SetupInv
<1>6. l \in Nat
  BY <1>1, <1>5, CommandIs, LlcIsNat
<1>7. PICK q : q = (l * 4) \div T
  OBVIOUS
<1>8. q \in Nat /\ 4 * l \in Nat /\ l * 4 = 4 * l
  BY <1>5, <1>6, <1>7
<1>9. main.total \in Nat /\ main.perthread \in Nat /\ main.explicit \in BOOLEAN
      /\ (~main.explicit => main.perthread = DefaultSet /\ main.total = 0)
  BY <1>5 DEF Given
<1>10. s.mt \in Nat /\ s.pc \in Nat
       /\ (~main.explicit => s.mt >= DefaultSet /\ s.mt >= q /\ s.pc >= DefaultSet /\ s.pc >= 4 * l)
  <2>1. CASE main.total > 0
    <3>1. s = [mt |-> main.total \div T, pc |-> main.total]
      BY <1>1, <1>2, <2>1 DEF Sizes
    <3>2. main.total \div T \in Nat
      BY <1>5, <1>9
    <3> QED BY <1>9, <2>1, <3>1, <3>2
  <2>2. CASE main.total = 0 /\ main.explicit
    <3>1. s = [mt |-> main.perthread, pc |-> main.perthread]
      BY <1>1, <1>2, <2>2 DEF Sizes
    <3> QED BY <1>9, <2>2, <3>1
  <2>3. CASE main.total = 0 /\ ~main.explicit
    <3>1. PICK d, f : d = main.perthread /\ f = 4 * l
      OBVIOUS
    <3>2. d \in Int /\ q \in Int /\ f \in Int
      BY <1>8, <1>9, <3>1
    <3>3. s = [mt |-> Max({d, q}), pc |-> Max({d, f})]
      <4>1. ~(main.total > 0) /\ ~main.explicit
        BY <2>3
      <4>2. Sizes(l) = [mt |-> Max({main.perthread, (l * 4) \div main.threads}),
                        pc |-> Max({main.perthread, l * 4})]
        BY ONLY <4>1 DEF Sizes
      <4>3. l * 4 = f
        BY <1>8, <3>1
      <4> QED BY <1>1, <1>2, <1>7, <3>1, <4>2, <4>3
    <3>4. Max({d, q}) = (IF d <= q THEN q ELSE d) /\ Max({d, f}) = (IF d <= f THEN f ELSE d)
      BY ONLY <3>2, GreatestOfTwo
    <3> QED BY <1>8, <1>9, <2>3, <3>1, <3>3, <3>4, MemorySizes
  <2> QED BY <1>9, <2>1, <2>2, <2>3
<1>11. /\ mt \in Nat /\ (mt % Page) = 0 /\ (mt = 0 \/ mt >= ChaseMin)
       /\ pc \in Nat /\ (pc % Page) = 0 /\ (pc = 0 \/ pc >= ChaseMin)
       /\ s.mt >= Megabyte => mt >= ChaseMin /\ mt > s.mt - Page
       /\ s.pc >= Megabyte => pc >= ChaseMin /\ pc > s.pc - Page
  BY <1>3, <1>10, PagesAre
<1>12. ASSUME ~main.explicit
       PROVE  mt >= ChaseMin /\ pc >= ChaseMin /\ mt * T >= 2 * l /\ pc >= 2 * l /\ ~warned'
  <2>1. mt >= ChaseMin /\ pc >= ChaseMin /\ mt > s.mt - 4096 /\ pc > s.pc - 4096
    BY <1>10, <1>11, <1>12, MemorySizes DEF Page
  <2>2. 2 * mt >= q + 1 /\ pc >= 2 * l
    BY <1>6, <1>8, <1>10, <1>11, <1>12, <2>1, MemorySizes
  <2>3. mt * T >= 2 * l
    BY <1>5, <1>6, <1>7, <1>11, <2>2, ShareIsEnough
  <2>4. ~(mt * T < l * 2) /\ ~(pc * 1 < l * 2)
    <3>1. PICK x : x = mt * T
      OBVIOUS
    <3>2. x \in Nat
      BY <1>5, <1>11, <3>1, ProductOfTwo
    <3> QED BY <1>6, <1>11, <2>2, <2>3, <3>1, <3>2
  <2>5. ~warned'
    <3>1. warned' = FALSE \/ (warned' <=> Small(pc, 1)) \/ (warned' <=> Small(mt, T))
      BY <1>4
    <3>2. ~Small(pc, 1) /\ ~Small(mt, T)
      BY <1>1, <2>4 DEF Small
    <3> QED BY <3>1, <3>2
  <2> QED BY <2>1, <2>2, <2>3, <2>5
<1>13. DetectLlc' = l
  BY <1>1, <1>4 DEF DetectLlc
<1>14. SizedForDram'
  <2>1. mem'.mt = mt /\ mem'.pc = pc /\ main'.threads = T /\ main'.explicit = main.explicit
    BY <1>1, <1>4
  <2>2. \A n \in {mt, pc} : (n % Page) = 0 /\ (n = 0 \/ n >= ChaseMin)
    BY <1>11
  <2> QED BY <1>12, <1>13, <2>1, <2>2 DEF SizedForDram
<1> QED BY <1>1, <1>4, <1>5, <1>14 DEF SetupInv, Given

LEMMA OtherSetupStep ==
  ASSUME SetupInv, TakeOption \/ RefuseOption \/ ShowAndStop \/ Settle \/ Unsettled \/ ListCpus
                   \/ UNCHANGED runsetup
  PROVE  SetupInv'
<1>1. /\ \E c \in Commands : argv = c[1] /\ site = c[2]
      /\ argi \in Nat /\ argi <= Len(argv) /\ Given(main)
      /\ phase \in {"list", "size", "ready"} => main.threads \in Nat \ {0}
  BY DEF SetupInv
<1>2. Len(argv) \in Nat /\ \A i \in 1..Len(argv) : WordOK(argv[i])
  BY <1>1, CommandIs
<1>3. CASE TakeOption
  <2>1. /\ phase = "options" /\ argi < Len(argv) /\ Word.opt # "show" /\ ~Refused
        /\ main' = Taken /\ argv' = argv /\ site' = site /\ phase' = phase
        /\ argi' = IF Word.opt = "--submit" /\ HasUrl THEN argi + 2 ELSE argi + 1
    BY <1>3 DEF TakeOption
  <2>2. WordOK(Word)
    <3>1. PICK n, k : n = Len(argv) /\ k = argi + 1
      OBVIOUS
    <3>2. k \in 1..n
      BY <1>1, <1>2, <2>1, <3>1
    <3> QED BY <1>2, <3>1, <3>2 DEF Word
  <2>3. Word.opt \in Options
    BY <2>1, <2>2 DEF WordOK, Refused
  <2>4. Given(main')
    BY <1>1, <2>1, <2>2, <2>3, TakenIsGiven
  <2>5. argi' \in Nat /\ argi' <= Len(argv)
    <3>1. PICK n : n = Len(argv)
      OBVIOUS
    <3>2. n \in Nat /\ argi < n /\ (HasUrl => argi + 1 < n)
      BY <1>2, <2>1, <3>1 DEF HasUrl
    <3> QED BY <1>1, <2>1, <3>1, <3>2
  <2> QED BY <1>1, <2>1, <2>4, <2>5 DEF SetupInv, SizedForDram, Given
<1>4. CASE RefuseOption \/ ShowAndStop \/ Unsettled
  <2>1. PICK status : main' = [main EXCEPT !.status = status]
    BY <1>4 DEF RefuseOption, ShowAndStop, Unsettled, Exit
  <2>2. phase' = "exit" /\ argv' = argv /\ site' = site /\ argi' = argi
    BY <1>4 DEF RefuseOption, ShowAndStop, Unsettled, Exit
  <2>3. Given(main')
    BY <1>1, <2>1 DEF Given
  <2> QED BY <1>1, <2>2, <2>3 DEF SetupInv, SizedForDram, Given
<1>5. CASE Settle
  <2>1. PICK th, reps, hub, pin :
          /\ th = Max({1, main.threads})
          /\ main' = [main EXCEPT !.threads = th, !.reps = reps, !.hub = hub, !.pin = pin]
    BY <1>5 DEF Settle
  <2>2. phase' = "list" /\ argv' = argv /\ site' = site /\ argi' = argi
    BY <1>5 DEF Settle
  <2>3. th \in Nat \ {0}
    <3>1. PICK k : k = main.threads
      OBVIOUS
    <3>2. 1 \in Int /\ k \in Int
      BY <1>1, <3>1 DEF Given
    <3>3. Max({1, k}) = IF 1 <= k THEN k ELSE 1
      BY ONLY <3>2, GreatestOfTwo
    <3> QED BY <2>1, <3>1, <3>2, <3>3
  <2>4. Given(main') /\ main'.threads = th
    BY <1>1, <2>1, <2>3 DEF Given
  <2> QED BY <1>1, <2>2, <2>3, <2>4 DEF SetupInv, SizedForDram, Given
<1>6. CASE ListCpus
  <2>1. PICK cpus_ : main' = [main EXCEPT !.cpus = cpus_]
    BY <1>6 DEF ListCpus
  <2>2. phase = "list" /\ phase' = "size" /\ argv' = argv /\ site' = site /\ argi' = argi
    BY <1>6 DEF ListCpus
  <2>3. Given(main') /\ main'.threads = main.threads
    BY <1>1, <2>1 DEF Given
  <2> QED BY <1>1, <2>2, <2>3 DEF SetupInv, SizedForDram, Given
<1>7. CASE UNCHANGED runsetup
  BY <1>7 DEF runsetup, SetupInv, Given, SizedForDram, DetectLlc
<1> QED BY <1>3, <1>4, <1>5, <1>6, <1>7

\* The default working sets are twice the cache or more, whatever cache a
\* machine has and whatever number of threads (main, detect_llc_bytes,
\* warn_if_working_set_small); any size is whole pages and holds the chases.
THEOREM DefaultsReachDram == SetupSpec => []SizedForDram
<1>1. SetupInv /\ [SetupNext]_runsetup => SetupInv'
  BY SizeMemoryStep, OtherSetupStep DEF SetupNext
<1>2. SetupInv => SizedForDram
  BY DEF SetupInv
<1> QED BY SetupFirst, <1>1, <1>2, PTL DEF SetupSpec

-----------------------------------------------------------------------------
(***************************************************************************)
(* The command line (RunSetup). What a list says from one of its items on  *)
(* is the item and what it says from the next, so that the claim is proved *)
(* from the end of the list to its beginning.                              *)
(***************************************************************************)

LEMMA CommaIsNoDash == Comma # Dash
BY DEF Comma, Dash

\* What a list says from p on, where x is what it says behind the item at p.
Said(spec, p, x) ==
  IF p > Len(spec) THEN <<>>
  ELSE IF ~Reads(spec, p) THEN Bad
  ELSE IF \/ NumberOf[spec[p]] < 0 \/ NumberOf[spec[LastNumber(spec, p)]] < NumberOf[spec[p]] \/ x = Bad
          \/ (NumberOf[spec[LastNumber(spec, p)]] - NumberOf[spec[p]] + 1) + Len(x) > ListSize
          \/ NumberOf[spec[LastNumber(spec, p)]] = LongMax /\ NeverEnds
       THEN Bad
       ELSE Through(NumberOf[spec[p]], NumberOf[spec[LastNumber(spec, p)]]) \o x

GoesOn(spec, p) == p <= Len(spec) /\ Reads(spec, p)
NextItem(spec, p) == LastNumber(spec, p) + 2

Parses(f, spec) == \A p \in 1..(Len(spec) + 2) : f[p] = Said(spec, p, f[NextItem(spec, p)])

\* A list of n tokens.
Long(spec, n) == Len(spec) = n

LEMMA ItemIsFurther ==
  ASSUME NEW spec, NEW n \in Nat, Long(spec, n), NEW p \in 1..(n + 2), GoesOn(spec, p)
  PROVE  /\ LastNumber(spec, p) \in Nat /\ p <= LastNumber(spec, p) /\ LastNumber(spec, p) <= n
         /\ NextItem(spec, p) \in Nat /\ p < NextItem(spec, p) /\ NextItem(spec, p) <= n + 2
<1>1. PICK z : z = LastNumber(spec, p)
  OBVIOUS
<1>2. (z = p \/ z = p + 2) /\ z <= n /\ NextItem(spec, p) = z + 2
  BY <1>1 DEF GoesOn, NextItem, LastNumber, Reads, Long
<1>3. p \in Nat /\ 1 <= p
  OBVIOUS
<1> QED BY <1>1, <1>2, <1>3

LEMMA NumbersAre ==
  ASSUME NEW x \in Digits
  PROVE  NumberOf[x] \in Int /\ x # Comma /\ x # Dash
BY SetupAssumption DEF NumbersOK, Digits

\* What is left of a long in an int.
LEMMA AsIntIs ==
  ASSUME NEW v \in Int
  PROVE  /\ AsInt(v) \in Int /\ AsInt(v) # IntMax + 1
         /\ 0 <= v /\ v <= IntMax => AsInt(v) = v
<1>1. PICK M, P : M = IntMax + 1 /\ P = 2 * (IntMax + 1)
  OBVIOUS
<1>2. M \in Nat \ {0} /\ P \in Nat \ {0} /\ P = M + M /\ IntMax = M - 1
  BY <1>1, SetupAssumption DEF NumbersOK
<1>3. PICK x : x = v + M
  OBVIOUS
<1>4. x \in Int /\ AsInt(v) = (x % P) - M
  <2>1. v + IntMax + 1 = x
    BY <1>1, <1>2, <1>3
  <2> QED BY <1>1, <1>2, <1>3, <2>1 DEF AsInt
<1>5. x % P \in 0..(P - 1)
  BY <1>2, <1>4
<1>6. AsInt(v) \in Int /\ AsInt(v) # M
  BY <1>2, <1>4, <1>5
<1>7. ASSUME 0 <= v, v <= IntMax PROVE AsInt(v) = v
  <2>1. x \in 0..(P - 1)
    BY <1>2, <1>3, <1>7
  <2>2. (P * 0 + x) % P = x
    BY <1>2, <2>1, Remainder
  <2>3. P * 0 + x = x
    BY <1>2, <1>4
  <2>4. x % P = x
    BY <2>2, <2>3
  <2> QED BY <1>2, <1>3, <1>4, <2>4
<1> QED BY <1>1, <1>6, <1>7

LEMMA ThroughIs ==
  ASSUME NEW a \in Int, NEW b \in Int, a <= b
  PROVE  /\ Through(a, b) \in Seq(Int) /\ Len(Through(a, b)) = b - a + 1
         /\ \A k \in 1..(b - a + 1) : Through(a, b)[k] = AsInt(a + k - 1)
<1>1. PICK c : c = b - a + 1
  OBVIOUS
<1>2. c \in Nat /\ Through(a, b) = [k \in 1..c |-> AsInt(a + k - 1)]
  BY <1>1 DEF Through
<1>3. \A k \in 1..c : AsInt(a + k - 1) \in Int
  <2>1. \A k \in 1..c : a + k - 1 \in Int
    OBVIOUS
  <2> QED BY <2>1, AsIntIs
<1>4. Through(a, b) \in Seq(Int) /\ Len(Through(a, b)) = c
  BY <1>2, <1>3, SeqDef, LenProperties
<1> QED BY <1>1, <1>2, <1>4

LEMMA BadIs == Bad \in Seq(Int)
BY SetupAssumption DEF Bad, NumbersOK

LEMMA SaidType ==
  ASSUME NEW spec, Len(spec) \in Nat, NEW p \in 1..(Len(spec) + 2), NEW x \in Seq(Int)
  PROVE  Said(spec, p, x) \in Seq(Int)
<1>1. CASE ~GoesOn(spec, p)
  BY <1>1, BadIs, EmptySeq DEF Said, GoesOn
<1>2. CASE GoesOn(spec, p)
  <2>1. PICK a, b : a = NumberOf[spec[p]] /\ b = NumberOf[spec[LastNumber(spec, p)]]
    OBVIOUS
  <2>2. a \in Int /\ b \in Int
    BY <1>2, <2>1, NumbersAre DEF GoesOn, Reads
  <2>3. CASE a <= b
    <3>1. Through(a, b) \o x \in Seq(Int)
      BY <2>2, <2>3, ThroughIs, ConcatProperties
    <3> QED BY <3>1, <2>1, BadIs, EmptySeq DEF Said
  <2>4. CASE b < a
    BY <2>4, <2>1, BadIs, EmptySeq DEF Said
  <2> QED BY <2>2, <2>3, <2>4
<1> QED BY <1>1, <1>2

LEMMA ListIsParsed ==
  ASSUME NEW spec, Len(spec) \in Nat
  PROVE  \E f : ParseCpuList(spec) = f[1] /\ Parses(f, spec)
<1> DEFINE n == Len(spec) + 2
           Step(f, p) == Said(spec, p, f[NextItem(spec, p)])
           w == CHOOSE f : f = [p \in 1..n |-> Step(f, p)]
           next == [p \in 1..n |-> IF GoesOn(spec, p) THEN NextItem(spec, p) ELSE n + 1]
           G == [p \in 1..n |-> [x \in Seq(Int) |-> Said(spec, p, x)]]
<1>1. n \in Nat
  OBVIOUS
<1>2. ParseCpuList(spec) = w[1]
  BY DEF ParseCpuList, Said, NextItem
<1>3. next \in [1..n -> Nat] /\ \A p \in 1..n : p < next[p]
  <2>1. ASSUME NEW p \in 1..n PROVE next[p] \in Nat /\ p < next[p]
    <3>1. CASE GoesOn(spec, p)
      <4>1. PICK l, q : l = Len(spec) /\ q = p
        OBVIOUS
      <4>2. l \in Nat /\ q \in 1..(l + 2) /\ GoesOn(spec, q) /\ Long(spec, l)
        BY <3>1, <4>1 DEF Long
      <4>3. NextItem(spec, q) \in Nat /\ q < NextItem(spec, q)
        BY <4>1, <4>2, ItemIsFurther
      <4> QED BY <3>1, <4>1, <4>3
    <3>2. CASE ~GoesOn(spec, p)
      BY <1>1, <3>2
    <3> QED BY <3>1, <3>2
  <2> QED BY <2>1
<1>4. G \in [1..n -> [Seq(Int) -> Seq(Int)]]
  BY SaidType
<1>5. \A p \in 1..n : \A x \in Seq(Int) : G[p][x] = Said(spec, p, x)
  OBVIOUS
<1>6. \A p \in 1..n : next[p] = IF GoesOn(spec, p) THEN NextItem(spec, p) ELSE n + 1
  OBVIOUS
<1>7. \A f : \A p \in 1..n : Step(f, p) = Said(spec, p, f[NextItem(spec, p)])
  OBVIOUS
<1>8. n = Len(spec) + 2
  OBVIOUS
<1> HIDE DEF n, next, G, Step
<1>9. PICK f : f \in [1..n -> Seq(Int)] /\ Backward(f, G, next, <<>>, 1, n)
  <2>1. PICK V, v0, k, H, g : /\ V = Seq(Int) /\ v0 = <<>> /\ k = n /\ H = next /\ g = G
    OBVIOUS
  <2>2. v0 \in V /\ k \in Nat /\ g \in [1..k -> [V -> V]] /\ H \in [1..k -> Nat]
    BY <1>1, <1>3, <1>4, <2>1, EmptySeq
  <2>3. \A i \in 1..k : i < H[i]
    BY <1>3, <2>1
  <2>4. \E f : f \in [1..k -> V] /\ Backward(f, g, H, v0, 1, k)
    BY <2>2, <2>3, BackwardRecursion
  <2> QED BY <2>1, <2>4
<1>10. ASSUME NEW p \in 1..n PROVE f[p] = Step(f, p)
  <2>1. f[p] = G[p][IF next[p] <= n THEN f[next[p]] ELSE <<>>]
    BY <1>9 DEF Backward
  <2>2. next[p] \in Nat /\ p < next[p]
    BY <1>3
  <2>3. (IF next[p] <= n THEN f[next[p]] ELSE <<>>) \in Seq(Int)
    <3>1. next[p] <= n => next[p] \in 1..n
      BY <1>1, <2>2
    <3> QED BY <1>9, <3>1, EmptySeq
  <2>4. PICK x \in Seq(Int) : x = IF next[p] <= n THEN f[next[p]] ELSE <<>>
    BY <2>3
  <2>5. f[p] = Said(spec, p, x)
    BY <1>5, <2>1, <2>4
  <2>6. CASE GoesOn(spec, p)
    <3>1. next[p] = NextItem(spec, p)
      BY <1>6, <2>6
    <3>2. NextItem(spec, p) <= n
      <4>1. PICK l : l = Len(spec)
        OBVIOUS
      <4>2. l \in Nat /\ Long(spec, l) /\ p \in 1..(l + 2) /\ n = l + 2
        BY <1>8, <4>1 DEF Long
      <4> QED BY <2>6, <4>2, ItemIsFurther
    <3> QED BY <1>7, <2>4, <2>5, <3>1, <3>2
  <2>7. CASE ~GoesOn(spec, p)
    <3>1. \A y : Said(spec, p, y) = IF p > Len(spec) THEN <<>> ELSE Bad
      BY <1>8, <2>7 DEF GoesOn, Said
    <3> QED BY <1>7, <2>5, <3>1
  <2> QED BY <2>6, <2>7
<1>11. f = [p \in 1..n |-> Step(f, p)]
  BY <1>9, <1>10
<1>12. w = [p \in 1..n |-> Step(w, p)]
  BY <1>11
<1> HIDE DEF w
<1>13. Parses(w, spec)
  <2>1. ASSUME NEW p \in 1..n PROVE w[p] = Step(w, p)
    BY <1>12
  <2> QED BY <1>7, <1>8, <2>1 DEF Parses
<1> QED BY <1>2, <1>13

\* Whose item is read: its numbers in order, and none that is negative.
GoodItem(spec, p) ==
  /\ Reads(spec, p)
  /\ 0 <= NumberOf[spec[p]] /\ NumberOf[spec[p]] <= NumberOf[spec[LastNumber(spec, p)]]

LEMMA CommaIsBehind ==
  ASSUME NEW spec, NEW n \in Nat, Long(spec, n), NEW p \in 1..n, Reads(spec, p)
  PROVE  /\ NextComma(spec, p) = LastNumber(spec, p) + 1
         /\ \A c \in p..LastNumber(spec, p) : spec[c] # Comma
<1>1. PICK z : z = LastNumber(spec, p)
  OBVIOUS
<1>2. /\ n \in Nat /\ p \in 1..n /\ z \in Nat /\ p <= z /\ z <= n
      /\ spec[p] \in Digits /\ spec[z] \in Digits /\ (z = n \/ spec[z + 1] = Comma)
      /\ z = p \/ (z = p + 2 /\ spec[p + 1] = Dash)
  <2>1. z = p \/ (z = p + 2 /\ p < n /\ spec[p + 1] = Dash)
    BY <1>1 DEF LastNumber, IsRange, Long
  <2>2. spec[p] \in Digits /\ z <= n /\ spec[z] \in Digits /\ (z = n \/ spec[z + 1] = Comma)
    BY <1>1 DEF Reads, Long
  <2>3. p \in Nat /\ p <= n
    BY <1>1
  <2> QED BY <1>1, <2>1, <2>2, <2>3
<1>3. \A c \in p..z : spec[c] # Comma
  <2> SUFFICES ASSUME NEW c \in p..z PROVE spec[c] # Comma
    OBVIOUS
  <2>1. c = p \/ c = z \/ c = p + 1
    BY <1>2
  <2>2. c = p + 1 => c = z \/ z = p \/ spec[c] = Dash
    BY <1>2
  <2>3. z = p => c = p
    BY <1>2
  <2> QED BY <1>2, <2>1, <2>2, <2>3, NumbersAre, CommaIsNoDash
<1>4. PICK S : S = {c \in p..n : spec[c] = Comma} \cup {n + 1}
  OBVIOUS
<1>5. PICK m : m = z + 1
  OBVIOUS
<1>6. S \in SUBSET Int /\ m \in S /\ \A c \in S : m <= c
  <2>1. S \in SUBSET Int
    BY <1>2, <1>4
  <2>2. m \in S
    <3>1. CASE z = n
      BY <1>4, <1>5, <3>1
    <3>2. CASE z # n
      BY <1>2, <1>4, <1>5, <3>2
    <3> QED BY <3>1, <3>2
  <2>3. ASSUME NEW c \in S PROVE m <= c
    <3>1. CASE c = n + 1
      BY <1>2, <1>5, <3>1
    <3>2. CASE c # n + 1
      <4>1. c \in p..n /\ spec[c] = Comma
        BY <1>4, <3>2
      <4>2. c \notin p..z
        BY <1>3, <4>1
      <4> QED BY <1>2, <1>5, <4>1, <4>2
    <3> QED BY <3>1, <3>2
  <2> QED BY <2>1, <2>2, <2>3
<1>7. Min(S) = m
  BY ONLY <1>6, MinIs
<1> QED BY <1>1, <1>3, <1>4, <1>5, <1>7 DEF NextComma, Long

LEMMA ItemIsThere ==
  ASSUME NEW spec, spec \in Seq(ToSet(spec)), NEW n \in Nat, Long(spec, n), NEW p \in 1..n, GoodItem(spec, p)
  PROVE  /\ IsItem(ItemAt(spec, p))
         /\ CountOf(ItemAt(spec, p)) = NumberOf[spec[LastNumber(spec, p)]] - NumberOf[spec[p]] + 1
<1>2. PICK z, item : z = LastNumber(spec, p) /\ item = ItemAt(spec, p)
  OBVIOUS
<1>3. /\ n \in Nat /\ p \in 1..n /\ z <= n /\ z \in Nat /\ p <= z
      /\ z = p \/ (z = p + 2 /\ spec[p + 1] = Dash)
  <2>1. z = p \/ (z = p + 2 /\ p < n /\ spec[p + 1] = Dash)
    BY <1>2 DEF LastNumber, IsRange, Long
  <2>2. z <= n
    BY <1>2 DEF GoodItem, Reads, Long
  <2>3. p \in Nat /\ p <= n
    OBVIOUS
  <2> QED BY <2>1, <2>2, <2>3
<1>4. item = SubSeq(spec, p, z)
  <2>1. NextComma(spec, p) = z + 1
    BY <1>2, CommaIsBehind DEF GoodItem
  <2>2. (z + 1) - 1 = z
    BY <1>3
  <2> QED BY <1>2, <2>1, <2>2 DEF ItemAt
<1>5. item = [k \in 1..(z - p + 1) |-> spec[p + k - 1]] /\ Len(item) = z - p + 1
  <2>1. PICK T : T = ToSet(spec)
    OBVIOUS
  <2>2. spec \in Seq(T) /\ n = Len(spec)
    BY <1>2, <2>1 DEF Long
  <2>3. \A k \in p..z : spec[k] \in T
    <3>1. \A k \in 1..n : spec[k] \in T
      BY ONLY <2>2, ElementOfSeq
    <3> QED BY <1>3, <3>1
  <2>4. Len(SubSeq(spec, p, z)) = z - p + 1
    BY <1>3, <2>2, <2>3, SubSeqProperties
  <2>5. SubSeq(spec, p, z) = [k \in 1..(z - p + 1) |-> spec[p + k - 1]]
    BY <1>3, <2>2, <2>3, <2>4
  <2> QED BY <1>4, <2>4, <2>5
<1>6. item[1] = spec[p] /\ item[z - p + 1] = spec[z] /\ (z = p + 2 => item[2] = spec[p + 1])
  <2>1. PICK l : l = z - p + 1
    OBVIOUS
  <2>2. l \in Nat /\ 1 \in 1..l /\ l \in 1..l /\ (z = p + 2 => 2 \in 1..l) /\ p + l - 1 = z
    BY <1>3, <2>1
  <2>3. item = [k \in 1..l |-> spec[p + k - 1]]
    BY <1>5, <2>1
  <2>4. item[1] = spec[p + 1 - 1] /\ item[l] = spec[p + l - 1] /\ (z = p + 2 => item[2] = spec[p + 2 - 1])
    BY <2>2, <2>3
  <2>5. p + 1 - 1 = p /\ p + 2 - 1 = p + 1
    BY <1>3
  <2> QED BY <2>1, <2>2, <2>4, <2>5
<1>7. PICK l : l = Len(item)
  OBVIOUS
<1>8. (l = 1 \/ (l = 3 /\ item[2] = Dash)) /\ item[1] = spec[p] /\ item[l] = spec[z]
  <2>1. l = z - p + 1
    BY <1>5, <1>7
  <2>2. z = p => l = 1
    BY <1>3, <2>1
  <2>3. z = p + 2 => l = 3
    BY <1>3, <2>1
  <2> QED BY <1>3, <1>6, <2>1, <2>2, <2>3
<1>9. /\ spec[p] \in Digits /\ spec[z] \in Digits
      /\ 0 <= NumberOf[spec[p]] /\ NumberOf[spec[p]] <= NumberOf[spec[z]]
  BY <1>2 DEF GoodItem, Reads, Long
<1>10. IsItem(item)
  BY <1>7, <1>8, <1>9 DEF IsItem
<1>11. CountOf(item) = NumberOf[spec[z]] - NumberOf[spec[p]] + 1
  BY <1>7, <1>8 DEF CountOf
<1> QED BY <1>2, <1>10, <1>11

Begins(spec, p) == p \in Starts(spec) \/ p = Len(spec) + 1 \/ p = Len(spec) + 2

\* Behind an item the next begins, or the list ends.
LEMMA NextBegins ==
  ASSUME NEW spec, NEW n \in Nat, Long(spec, n), NEW p \in 1..n, Reads(spec, p)
  PROVE  /\ Begins(spec, NextItem(spec, p))
         /\ \A s \in Starts(spec) : p < s => NextItem(spec, p) <= s
<1>1. PICK z : z = LastNumber(spec, p)
  OBVIOUS
<1>2. /\ n \in Nat /\ p \in 1..n /\ z \in Nat /\ p <= z /\ z <= n
      /\ z = n \/ spec[z + 1] = Comma
  <2>1. GoesOn(spec, p) /\ p \in 1..(n + 2)
    BY DEF GoesOn, Long
  <2>2. z \in Nat /\ p <= z /\ z <= n
    BY <1>1, <2>1, ItemIsFurther
  <2>3. z = n \/ spec[z + 1] = Comma
    BY <1>1 DEF Reads, Long
  <2> QED BY <2>2, <2>3
<1>3. Begins(spec, z + 2)
  <2>1. CASE z = n \/ z = n - 1
    BY <1>1, <1>2, <2>1 DEF Begins, Long
  <2>2. CASE ~(z = n \/ z = n - 1)
    <3>1. PICK s : s = z + 2
      OBVIOUS
    <3>2. s \in 1..n /\ s - 1 = z + 1
      BY <1>2, <2>2, <3>1
    <3>3. spec[s - 1] = Comma
      BY <1>2, <2>2, <3>2
    <3> QED BY <1>1, <3>1, <3>2, <3>3 DEF Begins, Starts, Long
  <2> QED BY <2>1, <2>2
<1>4. ASSUME NEW s \in Starts(spec), p < s PROVE z + 2 <= s
  <2>1. s \in 1..n /\ (s = 1 \/ spec[s - 1] = Comma)
    BY <1>1 DEF Starts, Long
  <2>2. PICK c : c = s - 1
    OBVIOUS
  <2>3. s # 1 /\ c \in Int /\ p <= c /\ spec[c] = Comma
    BY <1>2, <1>4, <2>1, <2>2
  <2>4. c \notin p..z
    BY <1>1, <2>3, CommaIsBehind
  <2> QED BY <1>2, <2>1, <2>2, <2>3, <2>4
<1> QED BY <1>1, <1>3, <1>4 DEF NextItem

\* What is an item is read as one.
LEMMA ItemIsRead ==
  ASSUME NEW spec, spec \in Seq(ToSet(spec)), NEW n \in Nat, Long(spec, n), NEW p \in 1..n,
         IsItem(ItemAt(spec, p))
  PROVE  GoodItem(spec, p)
<1>1. PICK S, c, e, item : /\ S = {d \in p..n : spec[d] = Comma} \cup {n + 1}
                           /\ c = NextComma(spec, p) /\ e = c - 1 /\ item = ItemAt(spec, p)
  OBVIOUS
<1>2. c \in S
  <2>1. S \in SUBSET Int /\ n + 1 \in S /\ \A d \in S : p <= d
    BY <1>1
  <2>2. c = Min(S)
    BY <1>1 DEF NextComma, Long
  <2>3. \E m \in S : \A d \in S : m <= d
    BY ONLY <2>1, LeastOf, p \in 1..n, n \in Nat
  <2>4. PICK m \in S : \A d \in S : m <= d
    BY <2>3
  <2>5. Min(S) = m
    BY ONLY <2>1, <2>4, MinIs
  <2> QED BY <2>2, <2>4, <2>5
<1>3. c \in p..(n + 1) /\ (c = n + 1 \/ spec[c] = Comma) /\ n \in Nat /\ p \in 1..n /\ e \in (p - 1)..n /\ c = e + 1
  BY <1>1, <1>2
<1>4. item = SubSeq(spec, p, e)
  BY <1>1 DEF ItemAt
<1>5. Len(item) = (IF p <= e THEN e - p + 1 ELSE 0) /\ \A k \in 1..(e - p + 1) : item[k] = spec[p + k - 1]
  <2>1. PICK T : T = ToSet(spec)
    OBVIOUS
  <2>2. spec \in Seq(T) /\ n = Len(spec)
    BY <2>1 DEF Long
  <2>3. \A k \in p..e : spec[k] \in T
    <3>1. \A k \in 1..n : spec[k] \in T
      BY ONLY <2>2, ElementOfSeq
    <3> QED BY <1>3, <3>1
  <2>4. Len(SubSeq(spec, p, e)) = IF p <= e THEN e - p + 1 ELSE 0
    BY <1>3, <2>2, <2>3, SubSeqProperties
  <2>5. SubSeq(spec, p, e) = [k \in 1..(e - p + 1) |-> spec[p + k - 1]]
    BY <1>3, <2>2, <2>3, <2>4
  <2> QED BY <1>4, <2>4, <2>5
<1>6. PICK z : z = Len(item)
  OBVIOUS
<1>7. /\ (z = 1 \/ (z = 3 /\ item[2] = Dash)) /\ item[1] \in Digits /\ item[z] \in Digits
      /\ 0 <= NumberOf[item[1]] /\ NumberOf[item[1]] <= NumberOf[item[z]]
  BY <1>1, <1>6 DEF IsItem
<1>8. z = e - p + 1 /\ p <= e
  BY <1>3, <1>5, <1>6, <1>7
<1>9. item[1] = spec[p] /\ item[z] = spec[e] /\ (z = 3 => item[2] = spec[p + 1])
  <2>1. 1 \in 1..z /\ z \in 1..z /\ (z = 3 => 2 \in 1..z)
    BY <1>7
  <2>2. item[1] = spec[p + 1 - 1] /\ item[z] = spec[p + z - 1] /\ (z = 3 => item[2] = spec[p + 2 - 1])
    BY <1>5, <1>8, <2>1
  <2>3. p + 1 - 1 = p /\ p + z - 1 = e /\ p + 2 - 1 = p + 1
    BY <1>3, <1>8
  <2> QED BY <2>2, <2>3
<1>10. LastNumber(spec, p) = e
  <2>1. CASE z = 1
    <3>1. e = p /\ c = p + 1
      BY <1>3, <1>8, <2>1
    <3>2. ~IsRange(spec, p)
      BY <1>3, <3>1, CommaIsNoDash DEF IsRange, Long
    <3> QED BY <3>1, <3>2 DEF LastNumber
  <2>2. CASE z = 3
    <3>1. e = p + 2 /\ p < n
      BY <1>3, <1>8, <2>2
    <3>2. IsRange(spec, p)
      BY <1>7, <1>9, <2>2, <3>1 DEF IsRange, Long
    <3> QED BY <3>1, <3>2 DEF LastNumber
  <2> QED BY <1>7, <2>1, <2>2
<1>11. Reads(spec, p)
  <2>1. e = n \/ spec[e + 1] = Comma
    BY <1>3
  <2> QED BY <1>3, <1>7, <1>9, <1>10, <2>1 DEF Reads, Long
<1> QED BY <1>7, <1>9, <1>10, <1>11 DEF GoodItem

LEMMA StartsAre ==
  ASSUME NEW spec, Len(spec) \in Nat
  PROVE  /\ IsFiniteSet(Starts(spec)) /\ Starts(spec) \in SUBSET Nat
         /\ \A s \in Starts(spec) : s \in 1..Len(spec)
<1>1. IsFiniteSet(1..Len(spec))
  BY FS_Interval
<1>2. Starts(spec) \in SUBSET (1..Len(spec))
  BY DEF Starts
<1> QED BY <1>1, <1>2, FS_Subset

\* The CPUs that a list of ints names are ints.
LEMMA NamedIsInt ==
  ASSUME NEW spec, spec \in Seq(ToSet(spec)), NamesInts(spec),
         NEW s \in Starts(spec), IsItem(ItemAt(spec, s)), NEW k \in 1..CountOf(ItemAt(spec, s))
  PROVE  AsInt(NumberOf[spec[s]] + k - 1) = NumberOf[spec[s]] + k - 1
<1>1. PICK n, z, a, b : /\ n = Len(spec) /\ z = LastNumber(spec, s)
                        /\ a = NumberOf[spec[s]] /\ b = NumberOf[spec[z]]
  OBVIOUS
<1>2. n \in Nat /\ Long(spec, n) /\ DOMAIN spec = 1..n
  BY <1>1, LenProperties DEF Long
<1>3. s \in 1..n
  BY <1>1, <1>2, StartsAre
<1>4. GoodItem(spec, s)
  BY <1>2, <1>3, ItemIsRead
<1>5. a \in Int /\ b \in Int /\ 0 <= a /\ a <= b
  BY <1>1, <1>4, NumbersAre DEF GoodItem, Reads
<1>6. b <= IntMax
  <2>1. GoesOn(spec, s) /\ s \in 1..(n + 2)
    BY <1>1, <1>2, <1>3, <1>4 DEF GoesOn, GoodItem
  <2>2. z \in Nat /\ s <= z /\ z <= n
    BY <1>1, <1>2, <2>1, ItemIsFurther
  <2>3. z \in 1..n /\ spec[z] \in Digits
    BY <1>1, <1>2, <1>3, <1>4, <2>2 DEF GoodItem, Reads
  <2> QED BY <1>1, <1>2, <2>3 DEF NamesInts
<1>7. CountOf(ItemAt(spec, s)) = b - a + 1
  BY <1>1, <1>2, <1>3, <1>4, ItemIsThere
<1>8. PICK v : v = a + k - 1
  OBVIOUS
<1>9. v \in Int /\ 0 <= v /\ v <= IntMax
  BY <1>5, <1>6, <1>7, <1>8, SetupAssumption DEF NumbersOK
<1> QED BY <1>1, <1>8, <1>9, AsIntIs

\* The items that begin at p or behind it, and before s.
Between(spec, p, s) == {r \in Starts(spec) : p <= r /\ r < s}

\* How many CPUs each item names: 0 if it is none.
Counts(spec) == [s \in Starts(spec) |-> IF IsItem(ItemAt(spec, s)) THEN CountOf(ItemAt(spec, s)) ELSE 0]

\* Adds(h, spec): h sums the counts of any of the items.
Adds(h, spec) == IsSum(h, Counts(spec), Starts(spec))

ItemMeans(list, spec, h, p, s) ==
  /\ IsItem(ItemAt(spec, s))
  /\ h[Between(spec, p, s)] \in Nat /\ h[Between(spec, p, s)] + Counts(spec)[s] <= Len(list)
  /\ \A k \in 1..Counts(spec)[s] : list[h[Between(spec, p, s)] + k] = AsInt(NumberOf[spec[s]] + k - 1)

\* list is what the items from p on say.
MeansFrom(list, spec, h, p) ==
  /\ list \in Seq(Int) /\ Len(list) <= ListSize
  /\ Len(list) = h[Between(spec, p, Len(spec) + 1)]
  /\ \A s \in Starts(spec) : p <= s => ItemMeans(list, spec, h, p, s)

LEMMA NumberIsInt ==
  ASSUME NEW spec, NEW s, IsItem(ItemAt(spec, s))
  PROVE  CountOf(ItemAt(spec, s)) \in Nat
<1>1. PICK item, z : item = ItemAt(spec, s) /\ z = Len(item)
  OBVIOUS
<1>2. /\ item[1] \in Digits /\ item[z] \in Digits
      /\ NumberOf[item[1]] <= NumberOf[item[z]]
  BY <1>1 DEF IsItem
<1>3. PICK a, b : a = NumberOf[item[1]] /\ b = NumberOf[item[z]]
  OBVIOUS
<1>4. a \in Int /\ b \in Int /\ a <= b
  BY <1>2, <1>3, NumbersAre
<1>5. CountOf(item) = b - a + 1
  BY <1>1, <1>3 DEF CountOf
<1> QED BY <1>1, <1>4, <1>5

LEMMA SumOfCounts ==
  ASSUME NEW spec, Len(spec) \in Nat
  PROVE  /\ Counts(spec) \in [Starts(spec) -> Nat]
         /\ \E h : Adds(h, spec)
<1>1. PICK S, f : S = Starts(spec) /\ f = Counts(spec)
  OBVIOUS
<1>2. f \in [S -> Nat]
  BY <1>1, NumberIsInt DEF Counts
<1>3. f \in [S -> Int] /\ IsFiniteSet(S)
  BY <1>1, <1>2, StartsAre
<1>4. \E h : IsSum(h, f, S)
  BY ONLY <1>3, SumOverSet
<1> QED BY <1>1, <1>2, <1>4 DEF Adds

\* The first of the items is added.
LEMMA FirstItemAdded ==
  ASSUME NEW spec, Len(spec) \in Nat, NEW h, Adds(h, spec), NEW p \in Starts(spec), NEW q,
         \A s \in Starts(spec) : p < s => q <= s, q \in Nat, p < q,
         NEW s \in Nat, p < s
  PROVE  /\ h[Between(spec, p, s)] = Counts(spec)[p] + h[Between(spec, q, s)]
         /\ h[Between(spec, p, s)] \in Int /\ h[Between(spec, q, s)] \in Int
<1>1. PICK S, T, U : S = Starts(spec) /\ T = Between(spec, p, s) /\ U = Between(spec, q, s)
  OBVIOUS
<1>2. T \in SUBSET S /\ U \in SUBSET S /\ p \in T
  BY <1>1, StartsAre DEF Between
<1>3. U = T \ {p}
  BY <1>1, StartsAre DEF Between
<1>4. h \in [SUBSET S -> Int] /\ h[T] = Counts(spec)[p] + h[T \ {p}]
  BY <1>1, <1>2 DEF Adds, IsSum, SumAnyhow
<1> QED BY <1>1, <1>2, <1>3, <1>4

LEMMA NoItems ==
  ASSUME NEW spec, Len(spec) \in Nat, NEW h, Adds(h, spec), NEW p \in Nat, NEW s \in Nat, s <= p
  PROVE  h[Between(spec, p, s)] = 0
<1>1. Between(spec, p, s) = {}
  BY StartsAre DEF Between
<1> QED BY <1>1 DEF Adds, IsSum, SumAnyhow

\* What front and then back has where.
Spliced(list, front, back) ==
  /\ list \in Seq(Int) /\ Len(list) = Len(front) + Len(back)
  /\ \A k \in 1..Len(front) : list[k] = front[k]
  /\ \A k \in 1..Len(back) : list[Len(front) + k] = back[k]

LEMMA SplicedIs ==
  ASSUME NEW front \in Seq(Int), NEW back \in Seq(Int)
  PROVE  Spliced(front \o back, front, back)
<1>1. PICK l, m, list : l = Len(front) /\ m = Len(back) /\ list = front \o back
  OBVIOUS
<1>2. l \in Nat /\ m \in Nat
  BY <1>1, LenProperties
<1>3. /\ list \in Seq(Int) /\ Len(list) = l + m
      /\ \A k \in 1..(l + m) : list[k] = IF k <= l THEN front[k] ELSE back[k - l]
  BY <1>1, ConcatProperties
<1>4. \A k \in 1..l : list[k] = front[k]
  BY <1>2, <1>3
<1>5. ASSUME NEW k \in 1..m PROVE list[l + k] = back[k]
  <2>1. PICK j : j = l + k
    OBVIOUS
  <2>2. j \in 1..(l + m) /\ ~(j <= l) /\ j - l = k
    BY <1>2, <2>1
  <2> QED BY <1>3, <2>1, <2>2
<1> QED BY <1>1, <1>3, <1>4, <1>5 DEF Spliced

\* An item and then what the rest of the list means.
LEMMA ListStep ==
  ASSUME NEW spec, spec \in Seq(ToSet(spec)), NEW h, Adds(h, spec),
         NEW p \in Starts(spec), GoodItem(spec, p),
         NEW a, a = NumberOf[spec[p]], NEW b, b = NumberOf[spec[LastNumber(spec, p)]],
         NEW back, MeansFrom(back, spec, h, NextItem(spec, p)),
         (b - a + 1) + Len(back) <= ListSize
  PROVE  MeansFrom(Through(a, b) \o back, spec, h, p)
<1>1. PICK n, q, c, front, list : /\ n = Len(spec) /\ q = NextItem(spec, p) /\ c = b - a + 1
                              /\ front = Through(a, b) /\ list = front \o back
  OBVIOUS
<1>2. n \in Nat /\ Long(spec, n)
  BY <1>1, LenProperties DEF Long
<1>3. p \in 1..n /\ p \in Nat /\ IsItem(ItemAt(spec, p))
  <2>1. p \in 1..n
    BY <1>1, <1>2, StartsAre
  <2> QED BY <1>2, <2>1, ItemIsThere
<1>4. a \in Int /\ b \in Int /\ 0 <= a /\ a <= b
  BY NumbersAre DEF GoodItem, Reads
<1>5. c \in Nat /\ Counts(spec)[p] = c
  <2>1. CountOf(ItemAt(spec, p)) = c
    BY <1>1, <1>2, <1>3, ItemIsThere
  <2>2. Counts(spec)[p] = c
    BY <1>3, <2>1 DEF Counts
  <2>3. c = b - a + 1
    BY <1>1
  <2>4. c \in Nat
    BY ONLY <1>4, <2>3
  <2> QED BY <2>2, <2>4
<1>6. q \in Nat /\ p < q /\ \A s \in Starts(spec) : p < s => q <= s
  <2>1. Reads(spec, p) /\ GoesOn(spec, p) /\ p \in 1..(n + 2)
    BY <1>1, <1>2, <1>3 DEF GoodItem, GoesOn
  <2>2. q \in Nat /\ p < q
    BY <1>1, <1>2, <2>1, ItemIsFurther
  <2>3. \A s \in Starts(spec) : p < s => q <= s
    BY <1>1, <1>2, <1>3, <2>1, NextBegins
  <2> QED BY <2>2, <2>3
<1>7. /\ front \in Seq(Int) /\ Len(front) = c
      /\ \A k \in 1..c : front[k] = AsInt(a + k - 1)
  BY <1>1, <1>4, ThroughIs
<1>8. PICK m : m = Len(back)
  OBVIOUS
<1>9. /\ back \in Seq(Int) /\ m \in Nat /\ m = h[Between(spec, q, n + 1)] /\ c + m <= ListSize
      /\ \A s \in Starts(spec) : q <= s => ItemMeans(back, spec, h, q, s)
  BY <1>1, <1>8, LenProperties DEF MeansFrom
<1>10. /\ list \in Seq(Int) /\ Len(list) = c + m
       /\ \A k \in 1..c : list[k] = front[k]
       /\ \A k \in 1..m : list[c + k] = back[k]
  <2>1. Spliced(list, front, back)
    BY <1>1, <1>7, <1>9, SplicedIs
  <2> QED BY <1>7, <1>8, <2>1 DEF Spliced
<1>11. ASSUME NEW s \in Nat, p < s
       PROVE  /\ h[Between(spec, p, s)] = c + h[Between(spec, q, s)]
              /\ h[Between(spec, p, s)] \in Int /\ h[Between(spec, q, s)] \in Int
  <2>1. Len(spec) \in Nat
    BY <1>1, <1>2
  <2> QED BY <1>5, <1>6, <1>11, <2>1, FirstItemAdded
<1>12. h[Between(spec, p, n + 1)] = c + m
  <2>1. PICK e : e = n + 1
    OBVIOUS
  <2>2. e \in Nat /\ p < e
    BY <1>2, <1>3, <2>1
  <2> QED BY <1>9, <1>11, <2>1, <2>2
<1>13. ItemMeans(list, spec, h, p, p)
  <2>1. h[Between(spec, p, p)] = 0
    BY <1>1, <1>2, <1>3, NoItems
  <2>2. ASSUME NEW k \in 1..c PROVE list[0 + k] = AsInt(NumberOf[spec[p]] + k - 1)
    <3>1. 0 + k = k
      BY <1>5
    <3> QED BY <1>7, <1>10, <3>1
  <2>3. 0 + c <= Len(list)
    BY <1>5, <1>9, <1>10
  <2> QED BY <1>3, <1>5, <2>1, <2>2, <2>3 DEF ItemMeans
<1>14. ASSUME NEW s \in Starts(spec), p < s PROVE ItemMeans(list, spec, h, p, s)
  <2>1. ItemMeans(back, spec, h, q, s) /\ s \in Nat
    BY <1>1, <1>2, <1>6, <1>9, <1>14, StartsAre
  <2>2. PICK H, B, d : H = h[Between(spec, q, s)] /\ B = h[Between(spec, p, s)] /\ d = Counts(spec)[s]
    OBVIOUS
  <2>3. /\ IsItem(ItemAt(spec, s)) /\ H \in Nat /\ H + d <= m
        /\ \A k \in 1..d : back[H + k] = AsInt(NumberOf[spec[s]] + k - 1)
    BY <1>8, <2>1, <2>2 DEF ItemMeans
  <2>4. B = c + H
    BY <1>11, <1>14, <2>1, <2>2
  <2>5. d \in Nat
    <3>1. Counts(spec) \in [Starts(spec) -> Nat]
      BY <1>1, <1>2, SumOfCounts
    <3> QED BY <2>2, <3>1
  <2>6. ASSUME NEW k \in 1..d PROVE list[B + k] = AsInt(NumberOf[spec[s]] + k - 1)
    <3>1. PICK j : j = H + k
      OBVIOUS
    <3>2. j \in 1..m /\ B + k = c + j
      BY <1>5, <1>9, <2>3, <2>4, <2>5, <3>1
    <3> QED BY <1>10, <2>3, <3>1, <3>2
  <2>7. B \in Nat /\ B + d <= Len(list)
    BY <1>5, <1>9, <1>10, <2>3, <2>4, <2>5
  <2> QED BY <2>2, <2>3, <2>6, <2>7 DEF ItemMeans
<1>15. ASSUME NEW s \in Starts(spec), p <= s PROVE ItemMeans(list, spec, h, p, s)
  <2>1. s \in Nat
    BY <1>1, <1>2, StartsAre
  <2> QED BY <1>3, <1>13, <1>14, <1>15, <2>1
<1> QED BY <1>1, <1>9, <1>10, <1>12, <1>15 DEF MeansFrom

\* What is parsed from p on is refused, or is what the items from there on say.
Right(f, spec, h, p) == f[p] = Bad \/ MeansFrom(f[p], spec, h, p)

\* Nothing begins behind the end.
LEMMA NothingLeft ==
  ASSUME NEW spec, Len(spec) \in Nat, NEW h, Adds(h, spec), NEW f, Parses(f, spec),
         NEW p \in 1..(Len(spec) + 2), p > Len(spec)
  PROVE  Right(f, spec, h, p)
<1>1. PICK n, e : n = Len(spec) /\ e = n + 1
  OBVIOUS
<1>2. n \in Nat /\ e \in Nat /\ p \in Nat /\ e <= p
  BY <1>1
<1>3. f[p] = <<>>
  BY DEF Parses, Said
<1>4. h[Between(spec, p, e)] = 0
  BY <1>1, <1>2, NoItems
<1>5. \A s \in Starts(spec) : ~(p <= s)
  BY <1>1, <1>2, StartsAre
<1>6. <<>> \in Seq(Int) /\ Len(<<>>) = 0 /\ 0 <= ListSize
  BY SetupAssumption
<1> QED BY <1>1, <1>3, <1>4, <1>5, <1>6 DEF Right, MeansFrom

LEMMA RightStep ==
  ASSUME NEW spec, spec \in Seq(ToSet(spec)), NEW h, Adds(h, spec), NEW f, Parses(f, spec),
         NEW p \in Starts(spec),
         \A r \in (p + 1)..(Len(spec) + 2) : Begins(spec, r) => Right(f, spec, h, r)
  PROVE  Right(f, spec, h, p)
<1>1. PICK n, q, a, b, c, m : /\ n = Len(spec) /\ q = NextItem(spec, p)
                              /\ a = NumberOf[spec[p]] /\ b = NumberOf[spec[LastNumber(spec, p)]]
                              /\ c = b - a + 1 /\ m = Len(f[q])
  OBVIOUS
<1>2. n \in Nat /\ Long(spec, n)
  BY <1>1, LenProperties DEF Long
<1>3. p \in 1..n /\ p \in Nat
  <2>1. p \in 1..n
    BY <1>1, <1>2, StartsAre
  <2> QED BY <1>2, <2>1
<1>4. f[p] = Said(spec, p, f[q])
  <2>1. p \in 1..(n + 2)
    BY <1>2, <1>3
  <2> QED BY <1>1, <2>1 DEF Parses
<1>5. CASE ~Reads(spec, p)
  <2>1. ~(p > n)
    BY <1>2, <1>3
  <2> QED BY <1>1, <1>4, <1>5, <2>1 DEF Said, Right
<1>6. CASE Reads(spec, p)
  <2>1. a \in Int /\ b \in Int /\ ~(p > n)
    BY <1>1, <1>2, <1>3, <1>6, NumbersAre DEF Reads
  <2>2. CASE a < 0 \/ b < a \/ f[q] = Bad \/ c + m > ListSize \/ (b = LongMax /\ NeverEnds)
    BY <1>1, <1>4, <1>6, <2>1, <2>2 DEF Said, Right
  <2>3. CASE ~(a < 0 \/ b < a \/ f[q] = Bad \/ c + m > ListSize \/ (b = LongMax /\ NeverEnds))
    <3>1. f[p] = Through(a, b) \o f[q]
      BY <1>1, <1>4, <1>6, <2>1, <2>3 DEF Said
    <3>2. q \in (p + 1)..(n + 2) /\ Begins(spec, q)
      <4>1. GoesOn(spec, p) /\ p \in 1..(n + 2)
        BY <1>1, <1>2, <1>3, <1>6 DEF GoesOn
      <4>2. q \in Nat /\ p < q /\ q <= n + 2
        BY <1>1, <1>2, <4>1, ItemIsFurther
      <4>3. Begins(spec, q)
        BY <1>1, <1>2, <1>3, <1>6, NextBegins
      <4> QED BY <1>2, <1>3, <4>2, <4>3
    <3>3. MeansFrom(f[q], spec, h, q)
      BY <1>1, <2>3, <3>2 DEF Right
    <3>4. PICK back : back = f[q]
      OBVIOUS
    <3>5. m \in Nat /\ c \in Int /\ ListSize \in Nat
      <4>1. m = Len(back) /\ back \in Seq(Int)
        BY <1>1, <3>3, <3>4 DEF MeansFrom
      <4>2. m \in Nat
        BY <4>1, LenProperties
      <4> QED BY <1>1, <2>1, <4>2, SetupAssumption
    <3>6. c + m <= ListSize /\ 0 <= a /\ a <= b
      BY <2>1, <2>3, <3>5
    <3>7. GoodItem(spec, p)
      BY <1>1, <1>6, <3>6 DEF GoodItem
    <3>8. MeansFrom(Through(a, b) \o back, spec, h, p)
      BY <1>1, <3>3, <3>4, <3>6, <3>7, ListStep
    <3> QED BY <3>1, <3>4, <3>8 DEF Right
  <2> QED BY <2>2, <2>3
<1> QED BY <1>5, <1>6

\* What holds at p if it holds behind p, holds everywhere.
LEMMA DownFromTheEnd ==
  ASSUME NEW n \in Nat, NEW R, \A p \in 1..n : (\A r \in (p + 1)..n : r \in R) => p \in R
  PROVE  \A p \in 1..n : p \in R
<1>1. PICK S : S = {m \in 0..n : \A r \in (n - m + 1)..n : r \in R}
  OBVIOUS
<1>2. 0 \in S
  <2>1. (n - 0 + 1)..n = {} /\ 0 \in 0..n
    OBVIOUS
  <2> QED BY <1>1, <2>1
<1>3. ASSUME NEW m \in 0..(n - 1), m \in S PROVE m + 1 \in S
  <2>1. PICK p, k : k = m + 1 /\ p = n - m
    OBVIOUS
  <2>2. p \in 1..n /\ p + 1 = n - m + 1 /\ k \in 0..n /\ n - k + 1 = p
    BY <2>1
  <2>3. \A r \in (p + 1)..n : r \in R
    BY <1>1, <1>3, <2>2
  <2>4. \A r \in p..n : r = p \/ r \in (p + 1)..n
    BY <2>2
  <2> QED BY <1>1, <2>1, <2>2, <2>3, <2>4
<1>4. 0..n \subseteq S
  BY ONLY <1>2, <1>3, IntervalInduction, n \in Nat
<1>5. n \in S /\ n - n + 1 = 1
  BY <1>4
<1> QED BY <1>1, <1>5

\* From the end of the list to its beginning.
LEMMA AllIsRight ==
  ASSUME NEW spec, spec \in Seq(ToSet(spec)), NEW h, Adds(h, spec), NEW f, Parses(f, spec)
  PROVE  Right(f, spec, h, 1)
<1>1. PICK n : n = Len(spec) + 2
  OBVIOUS
<1>2. n \in Nat /\ Len(spec) \in Nat /\ 1 \in 1..n
  BY <1>1, LenProperties
<1>3. PICK R : R = {r \in 1..n : Begins(spec, r) => Right(f, spec, h, r)}
  OBVIOUS
<1>4. ASSUME NEW p \in 1..n, \A r \in (p + 1)..n : r \in R PROVE p \in R
  <2> SUFFICES ASSUME Begins(spec, p) PROVE Right(f, spec, h, p)
    BY <1>3
  <2>1. CASE p > Len(spec)
    BY <1>1, <1>2, <2>1, NothingLeft
  <2>2. CASE ~(p > Len(spec))
    <3>1. p \in Starts(spec)
      BY <1>1, <1>2, <2>2 DEF Begins
    <3>2. \A r \in (p + 1)..(Len(spec) + 2) : Begins(spec, r) => Right(f, spec, h, r)
      BY <1>1, <1>3, <1>4
    <3> QED BY <3>1, <3>2, RightStep
  <2> QED BY <2>1, <2>2
<1>5. \A p \in 1..n : p \in R
  BY ONLY <1>2, <1>4, DownFromTheEnd
<1>6. Begins(spec, 1)
  BY <1>1, <1>2 DEF Begins, Starts
<1> QED BY <1>2, <1>3, <1>5, <1>6

\* A list that is not refused is what the text says, where it says ints.
LEMMA ParsedMeans ==
  ASSUME NEW spec, spec \in Seq(ToSet(spec)), NEW list, list = ParseCpuList(spec), list # Bad
  PROVE  list \in Seq(Int) /\ Len(list) <= ListSize /\ (NamesInts(spec) => Means(spec, list))
<1>1. Len(spec) \in Nat
  BY LenProperties
<1>2. PICK f : ParseCpuList(spec) = f[1] /\ Parses(f, spec)
  BY <1>1, ListIsParsed
<1>3. PICK h : Adds(h, spec)
  BY <1>1, SumOfCounts
<1>4. MeansFrom(list, spec, h, 1)
  BY <1>2, <1>3, AllIsRight DEF Right
<1>5. \A s \in Starts(spec) : s \in Nat /\ 1 <= s /\ ItemMeans(list, spec, h, 1, s)
  BY <1>1, <1>4, StartsAre DEF MeansFrom
<1>6. Counts(spec) = [s \in Starts(spec) |-> CountOf(ItemAt(spec, s))]
  BY <1>5 DEF ItemMeans, Counts
<1>7. PICK counts : counts = [s \in Starts(spec) |-> CountOf(ItemAt(spec, s))]
  OBVIOUS
<1>8. ASSUME NEW s PROVE SumFunctionOnSet(counts, {r \in Starts(spec) : r < s}) = h[Between(spec, 1, s)]
  <2>1. Between(spec, 1, s) = {r \in Starts(spec) : r < s}
    BY <1>5 DEF Between
  <2>2. Between(spec, 1, s) \in SUBSET Starts(spec)
    BY DEF Between
  <2>3. SumFunctionOnSet(counts, Between(spec, 1, s)) = h[Between(spec, 1, s)]
    BY <1>3, <1>6, <1>7, <2>2 DEF Adds, IsSum
  <2> QED BY <2>1, <2>3
<1>9. ASSUME NamesInts(spec), NEW s \in Starts(spec), NEW k \in 1..counts[s]
      PROVE  list[SumFunctionOnSet(counts, {r \in Starts(spec) : r < s}) + k] = NumberOf[spec[s]] + k - 1
  <2>1. list[h[Between(spec, 1, s)] + k] = AsInt(NumberOf[spec[s]] + k - 1)
    BY <1>5, <1>6, <1>7, <1>9 DEF ItemMeans
  <2>2. IsItem(ItemAt(spec, s)) /\ k \in 1..CountOf(ItemAt(spec, s))
    BY <1>5, <1>7, <1>9 DEF ItemMeans
  <2>3. AsInt(NumberOf[spec[s]] + k - 1) = NumberOf[spec[s]] + k - 1
    BY <1>9, <2>2, NamedIsInt
  <2> QED BY <1>8, <2>1, <2>3
<1>10. Len(list) = SumFunctionOnSet(counts, {r \in Starts(spec) : r < Len(spec) + 1})
  <2>1. Len(list) = h[Between(spec, 1, Len(spec) + 1)]
    BY <1>4 DEF MeansFrom
  <2> QED BY <1>8, <2>1
<1>11. \A s \in Starts(spec) : IsItem(ItemAt(spec, s))
  BY <1>5 DEF ItemMeans
<1>12. NamesInts(spec) => Means(spec, list)
  BY <1>7, <1>9, <1>10, <1>11 DEF Means
<1> QED BY <1>4, <1>12 DEF MeansFrom

\* What --variants selects is carried by the binary, and fits its table.
Carried(sel) == /\ sel \in Seq(ToSet(Variants)) /\ Len(sel) <= Len(Variants)

LEMMA VariantsAre ==
  /\ Variants \in Seq(ToSet(Variants)) /\ Len(Variants) \in Nat /\ 1 <= Len(Variants)
  /\ \A i \in 1..Len(Variants) : Variants[i] \in ToSet(Variants)
  /\ Head(Variants) \in ToSet(Variants) /\ DOMAIN Variants = 1..Len(Variants)
<1>1. PICK v, n : v = Variants /\ n = Len(v)
  OBVIOUS
<1>2. v \in Seq(STRING) /\ v # <<>>
  BY <1>1, SetupAssumption
<1>3. n \in Nat /\ n # 0 /\ DOMAIN v = 1..n /\ v \in [1..n -> STRING]
  BY <1>1, <1>2, LenProperties, EmptySeq
<1>4. \A i \in 1..n : v[i] \in ToSet(v)
  BY <1>3 DEF ToSet
<1>5. v \in [1..n -> ToSet(v)]
  BY <1>3, <1>4
<1>6. v \in Seq(ToSet(v))
  BY <1>3, <1>5, SeqDef
<1>7. Head(v) = v[1] /\ 1 \in 1..n
  BY <1>2, <1>3, HeadTailProperties
<1> QED BY <1>1, <1>3, <1>4, <1>6, <1>7

LEMMA DistinctAreCarried == Carried(FoldLeft(KeepDistinct, <<>>, Variants))
<1> DEFINE n == Len(Variants)
           T == 1..n
           Step(it, u) == IF u = {} THEN <<>> ELSE KeepDistinct(it[u \ {Max(u)}], Variants[Max(u)])
           it == CHOOSE it : it = [u \in SUBSET T |-> Step(it, u)]
           A == ToSet(Variants)
<1>0. n \in Nat /\ \A i \in 1..n : Variants[i] \in A
  BY VariantsAre
<1>1. PICK V, v0 : V = Seq(A) /\ v0 = <<>>
  OBVIOUS
<1>2. v0 \in V /\ \A v \in V : \A i \in 1..n : KeepDistinct(v, Variants[i]) \in V
  BY <1>0, <1>1, EmptySeq, AppendProperties DEF KeepDistinct
<1>3. PICK F \in [1..n -> [V -> V]] : \A i \in 1..n : \A v \in V : F[i][v] = KeepDistinct(v, Variants[i])
  <2>1. [i \in 1..n |-> [v \in V |-> KeepDistinct(v, Variants[i])]] \in [1..n -> [V -> V]]
    BY <1>2
  <2> QED BY <2>1
<1>4. PICK h, g : Folded(h, g, F, v0, V, n)
  BY <1>0, <1>2, <1>3, FoldInOrder
<1>5. FoldLeft(KeepDistinct, <<>>, Variants) = it[T]
  <2>1. DOMAIN Variants = T
    BY VariantsAre
  <2> QED BY <2>1 DEF FoldLeft, MapThenFoldSet
<1>6. ASSUME NEW u \in SUBSET T PROVE h[u] = Step(h, u)
  <2>1. CASE u = {}
    BY <1>1, <1>4, <2>1 DEF Folded
  <2>2. CASE u # {}
    <3>1. Max(u) \in 1..n /\ h[u] = F[Max(u)][h[u \ {Max(u)}]] /\ h[u \ {Max(u)}] \in V
      BY <1>4, <2>2 DEF Folded
    <3> QED BY <1>3, <2>2, <3>1
  <2> QED BY <2>1, <2>2
<1>7. it = [u \in SUBSET T |-> Step(it, u)]
  <2>1. h = [u \in SUBSET T |-> Step(h, u)]
    <3> HIDE DEF Step
    <3> QED BY <1>4, <1>6 DEF Folded
  <2> HIDE DEF Step
  <2> QED BY <2>1
<1> HIDE DEF it
<1>8. Alike(it, h, n)
  <2>1. \A u \in SUBSET T : it[u] = Step(it, u)
    <3> HIDE DEF Step
    <3> QED BY <1>7
  <2> QED BY <1>6, <2>1 DEF Alike
<1>9. it[T] = h[T]
  BY <1>0, <1>8, SameFold
<1>10. g \in [0..n -> V] /\ g[0] = <<>> /\ g[n] = h[T]
  BY <1>1, <1>4 DEF Folded
<1>11. PICK S : S = {i \in 0..n : Len(g[i]) <= i}
  OBVIOUS
<1>12. 0 \in S
  BY <1>0, <1>10, <1>11
<1>13. ASSUME NEW j \in 0..(n - 1), j \in S PROVE j + 1 \in S
  <2>1. PICK i : i = j + 1
    OBVIOUS
  <2>2. i \in 1..n /\ i - 1 = j /\ j \in 0..n /\ i \in 0..n /\ j \in Nat
    BY <1>0, <2>1
  <2>3. PICK x, v : x = g[j] /\ v = Variants[i]
    OBVIOUS
  <2>4. x \in Seq(A) /\ v \in A /\ Len(x) <= j
    BY <1>0, <1>1, <1>10, <1>11, <1>13, <2>2, <2>3
  <2>5. g[i] = KeepDistinct(x, v)
    BY <1>1, <1>3, <1>4, <2>2, <2>3, <2>4 DEF Folded
  <2>6. Len(x) \in Nat /\ Len(Append(x, v)) = Len(x) + 1
    BY <2>4, LenProperties, AppendProperties
  <2>7. Len(g[i]) <= i
    BY <2>1, <2>2, <2>4, <2>5, <2>6 DEF KeepDistinct
  <2> QED BY <1>11, <2>1, <2>2, <2>7
<1>14. n \in S
  <2>1. 0 \in Int /\ n \in Int
    BY <1>0
  <2>2. 0..n \subseteq S
    BY ONLY <1>12, <1>13, <2>1, IntervalInduction
  <2> QED BY <1>0, <2>2
<1>15. g[n] \in Seq(A) /\ Len(g[n]) <= n
  <2>1. n \in 0..n
    BY <1>0
  <2> QED BY <1>1, <1>10, <1>11, <1>14, <2>1
<1> QED BY <1>5, <1>9, <1>10, <1>15 DEF Carried

LEMMA SelectedAreCarried ==
  ASSUME NEW names, names \in Seq(ToSet(names))
  PROVE  Carried(SelectVariants(names))
<1>1. CASE names = <<"distinct">>
  BY <1>1, DistinctAreCarried DEF SelectVariants
<1>2. CASE names # <<"distinct">> /\ names = <<"all">>
  BY <1>2, VariantsAre DEF SelectVariants, Carried
<1>3. CASE ~(names = <<"distinct">>) /\ ~(names = <<"all">>)
  <2>1. PICK n, A : n = ToSet(names) /\ A = ToSet(Variants)
    OBVIOUS
  <2>2. n \subseteq A => names \in Seq(A)
    BY <2>1, SeqMonotonic
  <2>3. <<>> \in Seq(A) /\ Len(<<>>) <= Len(Variants)
    BY VariantsAre
  <2>4. SelectVariants(names) = names \/ SelectVariants(names) = <<>>
    BY <1>3 DEF SelectVariants
  <2>5. CASE Len(names) <= Len(Variants) /\ n \subseteq A
    <3>1. SelectVariants(names) = names
      BY <1>3, <2>1, <2>5 DEF SelectVariants
    <3> QED BY <2>1, <2>2, <2>5, <3>1 DEF Carried
  <2>6. CASE ~(Len(names) <= Len(Variants) /\ n \subseteq A)
    <3>1. SelectVariants(names) = <<>>
      BY <1>3, <2>1, <2>6 DEF SelectVariants
    <3> QED BY <2>1, <2>3, <3>1 DEF Carried
  <2> QED BY <2>5, <2>6
<1> QED BY <1>1, <1>2, <1>3

\* The word at i is the last of the first n that has one of these options.
LastAt(opts, i, n) == i \in 1..n /\ argv[i].opt \in opts /\ \A j \in (i + 1)..n : argv[j].opt \notin opts
NoneOf(opts, n) == \A i \in 1..n : argv[i].opt \notin opts

Kinds == {"--variant", "--variants"}

\* The list is that of the last --cpus read, or where there is none, none
\* before ListCpus and then the default.
CpusAsked ==
  /\ \A i \in 1..argi : LastAt({"--cpus"}, i, argi) =>
       main.cpus = ParseCpuList(argv[i].text) /\ main.cpus # <<>> /\ main.cpus # Bad
  /\ NoneOf({"--cpus"}, argi) =>
       main.cpus = IF phase \in {"options", "list"} THEN <<>> ELSE DefaultList

KindsAsked ==
  /\ Carried(main.sel) /\ main.sel # <<>>
  /\ \A i \in 1..argi : LastAt(Kinds, i, argi) /\ argv[i].opt = "--variant" => main.sel = argv[i].text

\* What is not refused behind the options.
Usable ==
  /\ argi = Len(argv)
  /\ main.sweep => Len(main.sel) = 1 /\ ~main.submit
  /\ main.submit => main.hub \in WebUrls

AskedInv ==
  /\ {"cpus", "sel", "sweep", "submit", "hub", "percore", "full", "threads"} \subseteq DOMAIN main
  /\ phase # "exit" => CpusAsked /\ KindsAsked
  /\ phase \in {"list", "size", "ready"} => Usable


LEMMA AskedFirst == SetupInit => AskedInv
<1> SUFFICES ASSUME SetupInit PROVE AskedInv
  OBVIOUS
<1>1. /\ main = [threads |-> site.cpus, cpus |-> <<>>, percore |-> FALSE, full |-> FALSE,
                 sweep |-> FALSE, pin |-> TRUE, reps |-> 3, perthread |-> DefaultSet, total |-> 0,
                 explicit |-> FALSE, sel |-> <<Head(Variants)>>, submit |-> FALSE, hub |-> "",
                 status |-> -1]
      /\ argi = 0 /\ phase = "options"
  BY DEF SetupInit
<1>2. /\ {"cpus", "sel", "sweep", "submit", "hub", "percore", "full", "threads"} \subseteq DOMAIN main
      /\ main.cpus = <<>> /\ main.sel = <<Head(Variants)>>
  BY <1>1
<1>3. 1..argi = {}
  <2>1. argi = 0
    BY <1>1
  <2>2. 1..0 = {}
    OBVIOUS
  <2> QED BY <2>1, <2>2
<1>4. CpusAsked
  BY <1>1, <1>2, <1>3 DEF CpusAsked
<1>5. Carried(main.sel) /\ main.sel # <<>>
  <2>1. PICK v, s, A : v = Head(Variants) /\ s = <<v>> /\ A = ToSet(Variants)
    OBVIOUS
  <2>2. v \in A
    BY <2>1, VariantsAre
  <2>3. s \in Seq(A) /\ Len(s) = 1
    BY <2>1, <2>2
  <2>4. s # <<>>
    BY <2>1
  <2> QED BY <1>2, <2>1, <2>3, <2>4, VariantsAre DEF Carried
<1>6. KindsAsked
  BY <1>3, <1>5 DEF KindsAsked
<1> QED BY <1>1, <1>2, <1>4, <1>6 DEF AskedInv

\* One word more, and another behind it where that is none of these options.
LEMMA WordsMore ==
  ASSUME NEW opts, NEW n \in Nat, NEW k, k = n + 1, NEW m,
         m = k \/ (m = k + 1 /\ argv[m].opt \notin opts)
  PROVE  /\ \A i \in 1..m : LastAt(opts, i, m) =>
              IF argv[k].opt \in opts THEN i = k ELSE i \in 1..n /\ LastAt(opts, i, n)
         /\ NoneOf(opts, m) => argv[k].opt \notin opts /\ NoneOf(opts, n)
<1>1. k \in 1..m /\ m \in Nat /\ k \in Nat /\ \A i \in 1..n : i \in 1..m
  OBVIOUS
<1>2. ASSUME NEW i \in 1..m, LastAt(opts, i, m)
      PROVE  IF argv[k].opt \in opts THEN i = k ELSE i \in 1..n /\ LastAt(opts, i, n)
  <2>1. argv[i].opt \in opts /\ \A j \in (i + 1)..m : argv[j].opt \notin opts
    BY <1>2 DEF LastAt
  <2>2. i \in 1..n \/ i = k
    <3>1. i \in 1..n \/ i = k \/ (i = m /\ m = k + 1)
      BY <1>1, <1>2
    <3> QED BY <2>1, <3>1
  <2>3. CASE argv[k].opt \in opts
    <3>1. i \in 1..n => k \in (i + 1)..m
      BY <1>1
    <3> QED BY <2>1, <2>2, <2>3, <3>1
  <2>4. CASE argv[k].opt \notin opts
    <3>1. i \in 1..n
      BY <2>1, <2>2, <2>4
    <3>2. \A j \in (i + 1)..n : j \in (i + 1)..m
      BY <1>1, <3>1
    <3> QED BY <2>1, <2>4, <3>1, <3>2 DEF LastAt
  <2> QED BY <2>3, <2>4
<1>3. NoneOf(opts, m) => argv[k].opt \notin opts /\ NoneOf(opts, n)
  BY <1>1 DEF NoneOf
<1> QED BY <1>2, <1>3

\* What the options do to the list and the variants.
LEMMA TakenAsked ==
  ASSUME Word.opt \in Options,
         {"cpus", "sel", "sweep", "submit", "hub", "percore", "full", "threads"} \subseteq DOMAIN main
  PROVE  /\ DOMAIN Taken = DOMAIN main
         /\ Taken.cpus = IF Word.opt = "--cpus" THEN ParseCpuList(Word.text) ELSE main.cpus
         /\ Word.opt = "--variant" => Taken.sel = Word.text
         /\ Word.opt = "--variants" => Taken.sel = SelectVariants(Word.text)
         /\ Word.opt \notin Kinds => Taken.sel = main.sel
<1>1. CASE Word.opt = "--cpus"
  <2>1. Taken = [main EXCEPT !.cpus = ParseCpuList(Word.text)]
    BY <1>1 DEF Taken
  <2> QED BY <1>1, <2>1 DEF Kinds
<1>2. CASE Word.opt = "--variant"
  <2>1. Taken = [main EXCEPT !.sel = Word.text]
    BY <1>2 DEF Taken
  <2> QED BY <1>2, <2>1 DEF Kinds
<1>3. CASE Word.opt = "--variants"
  <2>1. Taken = [main EXCEPT !.sel = SelectVariants(Word.text)]
    BY <1>3 DEF Taken
  <2> QED BY <1>3, <2>1 DEF Kinds
<1>4. CASE Word.opt \in Options \ {"--cpus", "--variant", "--variants"}
  <2>1. /\ DOMAIN Taken = DOMAIN main
        /\ Taken.cpus = main.cpus /\ Taken.sel = main.sel
    BY <1>4 DEF Taken, Options
  <2> QED BY <1>4, <2>1 DEF Kinds
<1> QED BY <1>1, <1>2, <1>3, <1>4

\* One name that is known is carried.
LEMMA OneIsCarried ==
  ASSUME NEW names, names \in Seq(ToSet(names)), Len(names) = 1, names[1] \in ToSet(Variants)
  PROVE  Carried(names) /\ names # <<>>
<1>1. PICK A, n : A = ToSet(Variants) /\ n = names[1]
  OBVIOUS
<1>2. names = <<n>>
  BY <1>1
<1>3. <<n>> \in Seq(A) /\ Len(<<n>>) = 1 /\ <<n>> # <<>>
  BY <1>1
<1> QED BY <1>1, <1>2, <1>3, VariantsAre DEF Carried

LEMMA AskedTake ==
  ASSUME SetupInv, AskedInv, TakeOption
  PROVE  AskedInv'
<1>1. PICK k, w : k = argi + 1 /\ w = Word
  OBVIOUS
<1>2. /\ phase = "options" /\ argi < Len(argv) /\ w.opt # "show" /\ ~Refused
      /\ main' = Taken /\ argv' = argv /\ site' = site /\ phase' = "options"
      /\ argi' = k \/ (argi' = k + 1 /\ argv[k + 1].opt = "word")
  <2>1. /\ phase = "options" /\ argi < Len(argv) /\ w.opt # "show" /\ ~Refused
        /\ main' = Taken /\ argv' = argv /\ site' = site /\ phase' = "options"
        /\ argi' = IF Word.opt = "--submit" /\ HasUrl THEN argi + 2 ELSE argi + 1
    BY <1>1 DEF TakeOption
  <2>2. argi \in Nat
    BY DEF SetupInv
  <2>3. k + 1 = argi + 2
    BY <1>1, <2>2
  <2>4. HasUrl => argv[argi + 2].opt = "word"
    BY DEF HasUrl
  <2> QED BY <1>1, <2>1, <2>3, <2>4
<1>3. w = argv[k] /\ argi \in Nat /\ WordOK(w)
  <2>1. argi \in Nat /\ \E c \in Commands : argv = c[1] /\ site = c[2]
    BY DEF SetupInv
  <2>2. PICK n : n = Len(argv)
    OBVIOUS
  <2>3. n \in Nat /\ \A i \in 1..n : WordOK(argv[i])
    BY <2>1, <2>2, CommandIs
  <2>4. k \in 1..n
    BY <1>1, <1>2, <2>1, <2>2, <2>3
  <2> QED BY <1>1, <2>1, <2>3, <2>4 DEF Word
<1>4. w.opt \in Options
  BY <1>1, <1>2, <1>3 DEF WordOK, Refused
<1>5. /\ DOMAIN main' = DOMAIN main
      /\ main'.cpus = IF w.opt = "--cpus" THEN ParseCpuList(w.text) ELSE main.cpus
      /\ w.opt = "--variant" => main'.sel = w.text
      /\ w.opt = "--variants" => main'.sel = SelectVariants(w.text)
      /\ w.opt \notin Kinds => main'.sel = main.sel
  BY <1>1, <1>2, <1>4, TakenAsked DEF AskedInv
<1>6. CpusAsked /\ KindsAsked
  BY <1>2 DEF AskedInv
<1>7. PICK m : m = argi'
  OBVIOUS
<1>8. ASSUME NEW opts, "word" \notin opts
      PROVE  /\ \A i \in 1..m : LastAt(opts, i, m) =>
                  IF w.opt \in opts THEN i = k ELSE i \in 1..argi /\ LastAt(opts, i, argi)
             /\ NoneOf(opts, m) => w.opt \notin opts /\ NoneOf(opts, argi)
  <2>1. m = k \/ (m = k + 1 /\ argv[m].opt \notin opts)
    BY <1>2, <1>7, <1>8
  <2>2. PICK n : n = argi
    OBVIOUS
  <2>3. n \in Nat /\ k = n + 1
    BY <1>1, <1>3, <2>2
  <2> QED BY <1>3, <2>1, <2>2, <2>3, WordsMore
<1>9. \A opts, i : LastAt(opts, i, argi)' = LastAt(opts, i, m) /\ NoneOf(opts, argi)' = NoneOf(opts, m)
  BY <1>2, <1>7 DEF LastAt, NoneOf
<1>10. CpusAsked'
  <2>1. ASSUME NEW i \in 1..m, LastAt({"--cpus"}, i, m)
        PROVE  main'.cpus = ParseCpuList(argv[i].text) /\ main'.cpus # <<>> /\ main'.cpus # Bad
    <3>1. CASE w.opt = "--cpus"
      <4>1. ParseCpuList(w.text) \notin {<<>>, Bad}
        BY <1>1, <1>2, <3>1 DEF Refused
      <4>2. i = k
        BY <1>8, <2>1, <3>1
      <4> QED BY <1>3, <1>5, <3>1, <4>1, <4>2
    <3>2. CASE w.opt # "--cpus"
      <4>1. i \in 1..argi /\ LastAt({"--cpus"}, i, argi)
        BY <1>8, <2>1, <3>2
      <4> QED BY <1>5, <1>6, <3>2, <4>1 DEF CpusAsked
    <3> QED BY <3>1, <3>2
  <2>2. ASSUME NoneOf({"--cpus"}, m) PROVE main'.cpus = <<>>
    <3>1. w.opt # "--cpus" /\ NoneOf({"--cpus"}, argi)
      BY <1>8, <2>2
    <3> QED BY <1>2, <1>5, <1>6, <3>1 DEF CpusAsked
  <2> QED BY <1>2, <1>7, <1>9, <2>1, <2>2 DEF CpusAsked
<1>11. KindsAsked'
  <2>1. w.text \in Seq(ToSet(w.text)) /\ (w.opt = "--variant" => Len(w.text) = 1)
    BY <1>3 DEF WordOK
  <2>2. Carried(main'.sel) /\ main'.sel # <<>>
    <3>1. CASE w.opt = "--variant"
      <4>1. w.text[1] \in ToSet(Variants)
        BY <1>1, <1>2, <3>1 DEF Refused
      <4> QED BY <1>5, <2>1, <3>1, <4>1, OneIsCarried
    <3>2. CASE w.opt = "--variants"
      <4>1. SelectVariants(w.text) # <<>>
        BY <1>1, <1>2, <3>2 DEF Refused
      <4> QED BY <1>5, <2>1, <3>2, <4>1, SelectedAreCarried
    <3>3. CASE w.opt \notin Kinds
      BY <1>5, <1>6, <3>3 DEF KindsAsked
    <3> QED BY <3>1, <3>2, <3>3 DEF Kinds
  <2>3. ASSUME NEW i \in 1..m, LastAt(Kinds, i, m), argv[i].opt = "--variant"
        PROVE  main'.sel = argv[i].text
    <3>1. "word" \notin Kinds
      BY DEF Kinds
    <3>2. CASE w.opt \in Kinds
      <4>1. i = k
        BY <1>8, <2>3, <3>1, <3>2
      <4> QED BY <1>3, <1>5, <2>3, <4>1
    <3>3. CASE w.opt \notin Kinds
      <4>1. i \in 1..argi /\ LastAt(Kinds, i, argi)
        BY <1>8, <2>3, <3>1, <3>3
      <4> QED BY <1>5, <1>6, <2>3, <3>3, <4>1 DEF KindsAsked
    <3> QED BY <3>2, <3>3
  <2>4. Carried(main.sel)' = Carried(main'.sel)
    BY DEF Carried
  <2> QED BY <1>2, <1>7, <1>9, <2>2, <2>3, <2>4 DEF KindsAsked
<1> QED BY <1>2, <1>5, <1>10, <1>11 DEF AskedInv


\* The words that were read stay as they are, and so does what they asked for.
LEMMA AskedStays ==
  ASSUME AskedInv, UNCHANGED <<argv, site, argi>>, phase # "exit", phase' # "exit",
         main'.sel = main.sel, main'.cpus = main.cpus,
         NoneOf({"--cpus"}, argi) => main'.cpus = (IF phase \in {"options", "list"} THEN <<>> ELSE DefaultList)'
  PROVE  CpusAsked' /\ KindsAsked'
<1>1. CpusAsked /\ KindsAsked /\ argi' = argi /\ argv' = argv
  BY DEF AskedInv
<1>2. \A opts, i : LastAt(opts, i, argi)' = LastAt(opts, i, argi) /\ NoneOf(opts, argi)' = NoneOf(opts, argi)
  BY <1>1 DEF LastAt, NoneOf
<1>3. CpusAsked'
  BY <1>1, <1>2 DEF CpusAsked
<1>4. Carried(main.sel)' = Carried(main.sel)
  BY DEF Carried
<1>5. KindsAsked'
  BY <1>1, <1>2, <1>4 DEF KindsAsked
<1> QED BY <1>3, <1>5

LEMMA AskedSettle ==
  ASSUME SetupInv, AskedInv, Settle
  PROVE  AskedInv'
<1>1. PICK th, reps, hub, pin :
        main' = [main EXCEPT !.threads = th, !.reps = reps, !.hub = hub, !.pin = pin]
        /\ hub = IF main.submit THEN Hub ELSE main.hub
  BY DEF Settle
<1>2. /\ phase = "options" /\ phase' = "list" /\ argv' = argv /\ site' = site /\ argi' = argi
      /\ argi = Len(argv) /\ ~Unusable
  BY DEF Settle
<1>3. {"cpus", "sel", "sweep", "submit", "hub", "percore", "full", "threads"} \subseteq DOMAIN main
  BY DEF AskedInv
<1>4. /\ DOMAIN main' = DOMAIN main /\ main'.hub = hub
      /\ main'.sel = main.sel /\ main'.cpus = main.cpus /\ main'.sweep = main.sweep /\ main'.submit = main.submit
  BY <1>1, <1>3
<1>5. CpusAsked /\ KindsAsked
  BY <1>2 DEF AskedInv
<1>6. NoneOf({"--cpus"}, argi) => main'.cpus = (IF phase \in {"options", "list"} THEN <<>> ELSE DefaultList)'
  BY <1>2, <1>4, <1>5 DEF CpusAsked
<1>7. CpusAsked' /\ KindsAsked'
  BY <1>2, <1>4, <1>6, AskedStays
<1>8. Usable'
  <2>1. Len(main.sel) \in Nat /\ Len(main.sel) # 0
    BY <1>5, LenProperties, EmptySeq DEF KindsAsked, Carried
  <2>2. main.sweep => Len(main.sel) = 1 /\ ~main.submit
    <3>1. PICK l : l = Len(main.sel)
      OBVIOUS
    <3>2. (main.sweep => ~(l > 1)) /\ (main.sweep => ~main.submit)
      BY <1>2, <3>1 DEF Unusable
    <3>3. ~(l > 1) => l = 1
      <4>1. l \in Nat /\ l # 0
        BY <2>1, <3>1
      <4> QED BY ONLY <4>1
    <3> QED BY <3>1, <3>2, <3>3
  <2>3. main.submit => Hub \in WebUrls
    BY <1>2 DEF Unusable
  <2> QED BY <1>1, <1>2, <1>4, <2>2, <2>3 DEF Usable
<1> QED BY <1>2, <1>3, <1>4, <1>7, <1>8 DEF AskedInv

LEMMA AskedList ==
  ASSUME SetupInv, AskedInv, ListCpus
  PROVE  AskedInv'
<1>1. PICK list : main' = [main EXCEPT !.cpus = list] /\ list = IF main.cpus = <<>> THEN DefaultList ELSE main.cpus
  BY DEF ListCpus
<1>2. phase = "list" /\ phase' = "size" /\ argv' = argv /\ site' = site /\ argi' = argi
  BY DEF ListCpus
<1>3. {"cpus", "sel", "sweep", "submit", "hub", "percore", "full", "threads"} \subseteq DOMAIN main
  BY DEF AskedInv
<1>4. /\ DOMAIN main' = DOMAIN main /\ main'.cpus = list /\ main'.sel = main.sel
      /\ main'.sweep = main.sweep /\ main'.submit = main.submit /\ main'.hub = main.hub
      /\ main'.percore = main.percore /\ main'.full = main.full /\ main'.threads = main.threads
  BY <1>1, <1>3
<1>5. CpusAsked /\ KindsAsked /\ Usable
  BY <1>2 DEF AskedInv
<1>6. DefaultList' = DefaultList
  BY <1>2, <1>4 DEF DefaultList
<1>7. \A opts, i : LastAt(opts, i, argi)' = LastAt(opts, i, argi) /\ NoneOf(opts, argi)' = NoneOf(opts, argi)
  BY <1>2 DEF LastAt, NoneOf
<1>8. CpusAsked'
  <2>1. ASSUME NEW i \in 1..argi, LastAt({"--cpus"}, i, argi)
        PROVE  main'.cpus = ParseCpuList(argv[i].text) /\ main'.cpus # <<>> /\ main'.cpus # Bad
    BY <1>1, <1>4, <1>5, <2>1 DEF CpusAsked
  <2>2. ASSUME NoneOf({"--cpus"}, argi) PROVE main'.cpus = DefaultList
    BY <1>1, <1>2, <1>4, <1>5, <2>2 DEF CpusAsked
  <2> QED BY <1>2, <1>6, <1>7, <2>1, <2>2 DEF CpusAsked
<1>9. KindsAsked'
  <2>1. Carried(main.sel)' = Carried(main.sel)
    BY <1>4 DEF Carried
  <2> QED BY <1>2, <1>4, <1>5, <1>7, <2>1 DEF KindsAsked
<1>10. Usable'
  BY <1>2, <1>4, <1>5 DEF Usable
<1> QED BY <1>2, <1>3, <1>4, <1>8, <1>9, <1>10 DEF AskedInv

LEMMA AskedOther ==
  ASSUME SetupInv, AskedInv, RefuseOption \/ ShowAndStop \/ Unsettled \/ SizeMemory \/ UNCHANGED runsetup
  PROVE  AskedInv'
<1>1. CASE RefuseOption \/ ShowAndStop \/ Unsettled
  <2>1. PICK status : main' = [main EXCEPT !.status = status]
    BY <1>1 DEF RefuseOption, ShowAndStop, Unsettled, Exit
  <2>2. phase' = "exit"
    BY <1>1 DEF RefuseOption, ShowAndStop, Unsettled, Exit
  <2> QED BY <2>1, <2>2 DEF AskedInv
<1>2. CASE SizeMemory
  <2>1. phase = "size" /\ phase' = "ready" /\ argv' = argv /\ site' = site /\ argi' = argi /\ main' = main
    BY <1>2 DEF SizeMemory
  <2>2. CpusAsked /\ KindsAsked /\ Usable
    BY <2>1 DEF AskedInv
  <2>3. DefaultList' = DefaultList
    BY <2>1 DEF DefaultList
  <2>4. CpusAsked' /\ KindsAsked'
    BY <2>1, <2>2, <2>3, AskedStays DEF CpusAsked
  <2>5. Usable'
    BY <2>1, <2>2 DEF Usable
  <2> QED BY <2>1, <2>4, <2>5 DEF AskedInv
<1>3. CASE UNCHANGED runsetup
  <2>1. phase' = phase /\ argv' = argv /\ site' = site /\ argi' = argi /\ main' = main
    BY <1>3 DEF runsetup
  <2> QED BY <2>1 DEF AskedInv, CpusAsked, KindsAsked, Usable, Carried, LastAt, NoneOf, DefaultList
<1> QED BY <1>1, <1>2, <1>3

\* The last word that has one of these options, where there is one.
LEMMA LastIs ==
  ASSUME NEW opts, NEW n \in Nat, DOMAIN argv = 1..n
  PROVE  \/ NoneOf(opts, n) /\ LastOf(opts) = <<>>
         \/ \E i \in 1..n : LastAt(opts, i, n) /\ LastOf(opts) = <<argv[i]>>
<1>1. PICK W : W = {i \in DOMAIN argv : argv[i].opt \in opts}
  OBVIOUS
<1>2. CASE W = {}
  BY <1>1, <1>2 DEF LastOf, NoneOf
<1>3. CASE W # {}
  <2>1. W \in SUBSET (1..n)
    BY <1>1
  <2>2. PICK i : i = Max(W)
    OBVIOUS
  <2>3. i \in W /\ \A j \in W : j <= i
    BY <1>3, <2>1, <2>2, MaxIsLargest
  <2>4. LastAt(opts, i, n)
    <3>1. i \in 1..n /\ argv[i].opt \in opts
      BY <1>1, <2>3
    <3>2. ASSUME NEW j \in (i + 1)..n PROVE argv[j].opt \notin opts
      <4>1. j \in 1..n /\ ~(j <= i)
        BY <3>1
      <4> QED BY <1>1, <2>3, <4>1
    <3> QED BY <3>1, <3>2 DEF LastAt
  <2>5. LastOf(opts) = <<argv[i]>> /\ i \in 1..n
    BY <1>1, <1>3, <2>1, <2>2, <2>3 DEF LastOf
  <2> QED BY <2>4, <2>5
<1> QED BY <1>2, <1>3

LEMMA DefaultIsShort ==
  ASSUME SiteOK(site), main.threads \in Nat \ {0}
  PROVE  Len(DefaultList) \in 1..ListSize
<1>1. PICK want, m, l : /\ want = IF main.percore \/ main.full \/ main.sweep THEN site.cpus ELSE main.threads
                        /\ l = ListSize /\ m = Min({want, l})
  OBVIOUS
<1>2. want \in Nat \ {0} /\ l \in Nat \ {0}
  BY <1>1, SetupAssumption DEF SiteOK
<1>3. m = IF want <= l THEN want ELSE l
  <2>1. want \in Int /\ l \in Int
    BY <1>2
  <2>2. Min({want, l}) = IF want <= l THEN want ELSE l
    BY ONLY <2>1, LeastOfTwo
  <2> QED BY <1>1, <2>2
<1>4. m \in Nat /\ m \in 1..l
  BY <1>2, <1>3
<1>5. DefaultList = [i \in 1..m |-> i - 1]
  BY <1>1 DEF DefaultList
<1>6. Len(DefaultList) = m
  BY <1>4, <1>5
<1> QED BY <1>1, <1>4, <1>6

LEMMA RunIsAsked ==
  ASSUME SetupInv, AskedInv
  PROVE  RunAsAsked
<1> SUFFICES ASSUME phase = "ready" PROVE RunAsAsked
  BY DEF RunAsAsked
<1>1. PICK n : n = Len(argv)
  OBVIOUS
<1>2. /\ \E c \in Commands : argv = c[1] /\ site = c[2]
      /\ main.threads \in Nat \ {0}
  BY DEF SetupInv
<1>3. SiteOK(site) /\ n \in Nat /\ DOMAIN argv = 1..n /\ \A i \in 1..n : WordOK(argv[i])
  <2>1. SiteOK(site) /\ n \in Nat /\ \A i \in 1..n : WordOK(argv[i])
    BY <1>1, <1>2, CommandIs
  <2>2. argv \in Seq(ToSet(argv))
    BY <1>2, SetupAssumption
  <2> QED BY <1>1, <2>1, <2>2, LenProperties
<1>4. CpusAsked /\ KindsAsked /\ Usable /\ argi = n
  BY <1>1 DEF AskedInv, Usable
<1>5. PICK lists, kinds : lists = LastOf({"--cpus"}) /\ kinds = LastOf(Kinds)
  OBVIOUS
<1>6. /\ IF lists # <<>> THEN NamesInts(lists[1].text) => Means(lists[1].text, main.cpus)
         ELSE main.cpus = DefaultList
      /\ Len(main.cpus) \in 1..ListSize
  <2>1. CASE NoneOf({"--cpus"}, n) /\ lists = <<>>
    <3>1. main.cpus = DefaultList
      BY <1>4, <2>1 DEF CpusAsked
    <3> QED BY <1>2, <1>3, <2>1, <3>1, DefaultIsShort
  <2>2. ASSUME NEW i \in 1..n, LastAt({"--cpus"}, i, n), lists = <<argv[i]>>
        PROVE  /\ NamesInts(lists[1].text) => Means(lists[1].text, main.cpus)
               /\ Len(main.cpus) \in 1..ListSize
    <3>1. PICK spec, list : spec = argv[i].text /\ list = main.cpus
      OBVIOUS
    <3>2. list = ParseCpuList(spec) /\ list # <<>> /\ list # Bad
      BY <1>4, <2>2, <3>1 DEF CpusAsked
    <3>3. spec \in Seq(ToSet(spec))
      BY <1>3, <3>1 DEF WordOK
    <3>4. list \in Seq(Int) /\ Len(list) <= ListSize /\ (NamesInts(spec) => Means(spec, list))
      BY <3>2, <3>3, ParsedMeans
    <3>5. Len(list) \in Nat /\ Len(list) # 0 /\ ListSize \in Nat
      BY <3>2, <3>4, LenProperties, EmptySeq, SetupAssumption
    <3> QED BY <2>2, <3>1, <3>4, <3>5
  <2>3. ASSUME NEW x PROVE <<x>> # <<>>
    OBVIOUS
  <2> QED BY <1>3, <1>5, <2>1, <2>2, <2>3, LastIs
<1>7. kinds # <<>> /\ kinds[1].opt = "--variant" => main.sel = kinds[1].text
  <2>1. CASE kinds = <<>>
    BY <2>1
  <2>2. ASSUME NEW i \in 1..n, LastAt(Kinds, i, n), kinds = <<argv[i]>>, kinds[1].opt = "--variant"
        PROVE  main.sel = kinds[1].text
    BY <1>4, <2>2 DEF KindsAsked
  <2> QED BY <1>3, <1>5, <2>1, <2>2, LastIs
<1>8. ToSet(main.sel) \subseteq ToSet(Variants) /\ Len(main.sel) \in 1..Len(Variants)
  <2>1. PICK s, A, m : s = main.sel /\ A = ToSet(Variants) /\ m = Len(Variants)
    OBVIOUS
  <2>2. s \in Seq(A) /\ s # <<>> /\ Len(s) <= m /\ m \in Nat
    BY <1>4, <2>1, VariantsAre DEF KindsAsked, Carried
  <2>3. Len(s) \in Nat /\ Len(s) # 0 /\ DOMAIN s = 1..Len(s) /\ \A i \in 1..Len(s) : s[i] \in A
    BY <2>2, LenProperties, EmptySeq, ElementOfSeq
  <2>4. ToSet(s) \subseteq A
    BY <2>3 DEF ToSet
  <2> QED BY <2>1, <2>2, <2>3, <2>4
<1>9. DefaultList = [i \in 1..Min({ListSize, IF main.percore \/ main.full \/ main.sweep
                                              THEN site.cpus ELSE main.threads}) |-> i - 1]
  <2>1. \A a, b : {a, b} = {b, a}
    OBVIOUS
  <2> QED BY <2>1 DEF DefaultList
<1>10. main.threads >= 1
  BY <1>2
<1> QED BY <1>4, <1>5, <1>6, <1>7, <1>8, <1>9, <1>10 DEF RunAsAsked, Usable, Kinds

\* A run that begins is the one its command line describes: its CPUs are those
\* that a list of ints names, its variants those asked for last, and nothing it
\* could not upload is measured (main, parse_cpu_list, select_variants).
THEOREM RunsAsAsked == SetupSpec => []RunAsAsked
<1>1. SetupInit => SetupInv /\ AskedInv
  BY SetupFirst, AskedFirst
<1>2. SetupInv /\ AskedInv /\ [SetupNext]_runsetup => (SetupInv /\ AskedInv)'
  BY SizeMemoryStep, OtherSetupStep, AskedTake, AskedSettle, AskedList, AskedOther DEF SetupNext
<1>3. SetupInv /\ AskedInv => RunAsAsked
  BY RunIsAsked
<1> QED BY <1>1, <1>2, <1>3, PTL DEF SetupSpec

-----------------------------------------------------------------------------
(***************************************************************************)
(* The other direction: a list that means something, and does not name     *)
(* more CPUs than there is room for, is not refused.                       *)
(***************************************************************************)

\* Each CPU that the items from p on name is in one of them.
Covered(spec, h, p) ==
  \A k \in 1..h[Between(spec, p, Len(spec) + 1)] :
    \E s \in Starts(spec) : p <= s /\ k - h[Between(spec, p, s)] \in 1..Counts(spec)[s]

\* What is there from p on is items, of ints, with room for their CPUs.
Fits(spec, h, p) ==
  /\ NamesInts(spec)
  /\ \A s \in Starts(spec) : p <= s => IsItem(ItemAt(spec, s))
  /\ h[Between(spec, p, Len(spec) + 1)] <= ListSize

\* Taken from p on, and each CPU from an item.
ReadWhole(f, spec, h, p) == f[p] # Bad /\ MeansFrom(f[p], spec, h, p) /\ Covered(spec, h, p)

LEMMA WholeStep ==
  ASSUME NEW spec, spec \in Seq(ToSet(spec)), NEW h, Adds(h, spec), NEW f, Parses(f, spec),
         NEW p \in Starts(spec), Fits(spec, h, p),
         \A r \in (p + 1)..(Len(spec) + 2) : Begins(spec, r) /\ Fits(spec, h, r) => ReadWhole(f, spec, h, r)
  PROVE  ReadWhole(f, spec, h, p)
<1>1. PICK n, q, a, b, c, back : /\ n = Len(spec) /\ q = NextItem(spec, p)
                                 /\ a = NumberOf[spec[p]] /\ b = NumberOf[spec[LastNumber(spec, p)]]
                                 /\ c = b - a + 1 /\ back = f[q]
  OBVIOUS
<1>2. n \in Nat /\ Long(spec, n) /\ Len(spec) \in Nat
  BY <1>1, LenProperties DEF Long
<1>3. p \in 1..n /\ p \in Nat
  <2>1. p \in 1..n
    BY <1>1, <1>2, StartsAre
  <2> QED BY <1>2, <2>1
<1>4. IsItem(ItemAt(spec, p)) /\ GoodItem(spec, p) /\ Reads(spec, p)
  <2>1. IsItem(ItemAt(spec, p))
    BY <1>3 DEF Fits
  <2> QED BY <1>2, <1>3, <2>1, ItemIsRead DEF GoodItem
<1>5. a \in Int /\ b \in Int /\ 0 <= a /\ a <= b /\ c \in Nat /\ 1 <= c
  <2>1. a \in Int /\ b \in Int /\ 0 <= a /\ a <= b
    BY <1>1, <1>4, NumbersAre DEF GoodItem, Reads
  <2> QED BY <1>1, <2>1
<1>6. Counts(spec)[p] = c
  <2>1. CountOf(ItemAt(spec, p)) = c
    BY <1>1, <1>2, <1>3, <1>4, ItemIsThere
  <2> QED BY <1>4, <2>1 DEF Counts
<1>7. q \in (p + 1)..(n + 2) /\ q \in Nat /\ p < q /\ Begins(spec, q) /\ \A s \in Starts(spec) : p < s => q <= s
  <2>1. GoesOn(spec, p) /\ p \in 1..(n + 2)
    BY <1>1, <1>2, <1>3, <1>4 DEF GoesOn
  <2>2. q \in Nat /\ p < q /\ q <= n + 2
    BY <1>1, <1>2, <2>1, ItemIsFurther
  <2>3. Begins(spec, q) /\ \A s \in Starts(spec) : p < s => q <= s
    BY <1>1, <1>2, <1>3, <1>4, NextBegins
  <2> QED BY <1>2, <1>3, <2>2, <2>3
<1>8. ASSUME NEW s \in Nat, p < s
      PROVE  /\ h[Between(spec, p, s)] = c + h[Between(spec, q, s)]
             /\ h[Between(spec, p, s)] \in Int /\ h[Between(spec, q, s)] \in Int
  BY <1>2, <1>6, <1>7, <1>8, FirstItemAdded
<1>9. PICK e, B, H : e = n + 1 /\ B = h[Between(spec, p, e)] /\ H = h[Between(spec, q, e)]
  OBVIOUS
<1>10. B = c + H /\ B \in Int /\ H \in Int /\ B <= ListSize
  <2>1. e \in Nat /\ p < e
    BY <1>2, <1>3, <1>9
  <2> QED BY <1>1, <1>8, <1>9, <2>1 DEF Fits
<1>11. Fits(spec, h, q)
  <2>1. H <= ListSize
    BY <1>5, <1>10, SetupAssumption
  <2>2. \A s \in Starts(spec) : q <= s => p <= s
    BY <1>2, <1>3, <1>7, StartsAre
  <2> QED BY <1>1, <1>9, <2>1, <2>2 DEF Fits
<1>12. back # Bad /\ MeansFrom(back, spec, h, q) /\ Covered(spec, h, q)
  BY <1>1, <1>7, <1>11 DEF ReadWhole
<1>13. back \in Seq(Int) /\ Len(back) = H
  BY <1>1, <1>9, <1>12 DEF MeansFrom
<1>14. PICK m : m = Len(back)
  OBVIOUS
<1>15. m = H /\ m \in Nat /\ c + m <= ListSize
  BY <1>10, <1>13, <1>14, LenProperties
<1>16. f[p] = Through(a, b) \o back
  <2>1. p \in 1..(n + 2) /\ ~(p > n)
    BY <1>2, <1>3
  <2>2. f[p] = Said(spec, p, back)
    BY <1>1, <2>1 DEF Parses
  <2>3. ~(a < 0) /\ ~(b < a) /\ ~(c + m > ListSize) /\ b # LongMax
    <3>1. b < LongMax
      <4>1. LastNumber(spec, p) \in 1..n /\ spec[LastNumber(spec, p)] \in Digits
        <5>1. GoesOn(spec, p) /\ p \in 1..(n + 2)
          BY <1>1, <1>2, <1>3, <1>4 DEF GoesOn
        <5>2. LastNumber(spec, p) \in Nat /\ p <= LastNumber(spec, p) /\ LastNumber(spec, p) <= n
          BY <1>1, <1>2, <5>1, ItemIsFurther
        <5> QED BY <1>2, <1>3, <1>4, <5>2 DEF Reads
      <4>2. DOMAIN spec = 1..n
        BY <1>1, LenProperties
      <4> QED BY <1>1, <4>1, <4>2 DEF Fits, NamesInts
    <3> QED BY <1>5, <1>15, <3>1, SetupAssumption DEF NumbersOK
  <2> QED BY <1>1, <1>4, <1>12, <1>14, <2>1, <2>2, <2>3 DEF Said
<1>17. MeansFrom(f[p], spec, h, p)
  BY <1>1, <1>4, <1>12, <1>14, <1>15, <1>16, ListStep
<1>18. f[p] # Bad
  <2>1. ItemMeans(f[p], spec, h, p, p)
    BY <1>3, <1>17 DEF MeansFrom
  <2>2. h[Between(spec, p, p)] = 0
    BY <1>2, <1>3, NoItems
  <2>3. PICK list : list = f[p]
    OBVIOUS
  <2>4. \A k \in 1..c : list[0 + k] = AsInt(a + k - 1)
    BY <1>1, <1>6, <2>1, <2>2, <2>3 DEF ItemMeans
  <2>5. list[0 + 1] = AsInt(a + 1 - 1)
    BY <1>5, <2>4
  <2>6. list[1] # IntMax + 1
    <3>1. 0 + 1 = 1 /\ a + 1 - 1 \in Int
      BY <1>5
    <3> QED BY <2>5, <3>1, AsIntIs
  <2> QED BY <2>3, <2>6 DEF Bad
<1>19. ASSUME NEW k \in 1..B
       PROVE  \E s \in Starts(spec) : p <= s /\ k - h[Between(spec, p, s)] \in 1..Counts(spec)[s]
  <2>1. CASE k <= c
    <3>1. h[Between(spec, p, p)] = 0
      BY <1>2, <1>3, NoItems
    <3>2. p <= p /\ k - 0 \in 1..c
      BY <1>3, <1>5, <1>10, <2>1
    <3> QED BY <1>6, <3>1, <3>2
  <2>2. CASE ~(k <= c)
    <3>1. PICK j : j = k - c
      OBVIOUS
    <3>2. j \in 1..H
      BY <1>5, <1>10, <2>2, <3>1
    <3>3. \A i \in 1..H : \E s \in Starts(spec) : q <= s /\ i - h[Between(spec, q, s)] \in 1..Counts(spec)[s]
      BY <1>1, <1>9, <1>12 DEF Covered
    <3>4. PICK s \in Starts(spec) : q <= s /\ j - h[Between(spec, q, s)] \in 1..Counts(spec)[s]
      BY <3>2, <3>3
    <3>5. s \in Nat /\ p < s /\ p <= s
      BY <1>2, <1>3, <1>7, <3>4, StartsAre
    <3>6. PICK D, E : D = h[Between(spec, p, s)] /\ E = h[Between(spec, q, s)]
      OBVIOUS
    <3>7. D = c + E /\ D \in Int /\ E \in Int
      BY <1>8, <3>5, <3>6
    <3>8. k - D = j - E
      BY <1>5, <1>10, <3>1, <3>2, <3>7
    <3> QED BY <3>4, <3>5, <3>6, <3>8
  <2> QED BY <2>1, <2>2
<1>20. Covered(spec, h, p)
  BY <1>1, <1>9, <1>19 DEF Covered
<1> QED BY <1>17, <1>18, <1>20 DEF ReadWhole

LEMMA AllIsRead ==
  ASSUME NEW spec, spec \in Seq(ToSet(spec)), NEW h, Adds(h, spec), NEW f, Parses(f, spec), Fits(spec, h, 1)
  PROVE  ReadWhole(f, spec, h, 1)
<1>1. PICK n, e : n = Len(spec) + 2 /\ e = Len(spec) + 1
  OBVIOUS
<1>2. n \in Nat /\ Len(spec) \in Nat /\ e \in Nat /\ n = e + 1 /\ 1 <= e
  BY <1>1, LenProperties
<1>3. PICK R : R = {r \in 1..n : Begins(spec, r) /\ Fits(spec, h, r) => ReadWhole(f, spec, h, r)}
  OBVIOUS
<1>4. ASSUME NEW p \in 1..n, \A r \in (p + 1)..n : r \in R PROVE p \in R
  <2> SUFFICES ASSUME Begins(spec, p), Fits(spec, h, p) PROVE ReadWhole(f, spec, h, p)
    BY <1>3
  <2>1. CASE p >= e
    <3>1. p \in 1..(Len(spec) + 2) /\ p > Len(spec) /\ p \in Nat /\ e <= p
      BY <1>1, <1>2, <2>1
    <3>2. f[p] = <<>> /\ f[p] # Bad
      <4>1. f[p] = <<>>
        BY <3>1 DEF Parses, Said
      <4>2. Bad # <<>>
        BY DEF Bad
      <4> QED BY <4>1, <4>2
    <3>3. MeansFrom(f[p], spec, h, p)
      BY <1>2, <3>1, <3>2, NothingLeft DEF Right
    <3>4. h[Between(spec, p, e)] = 0
      BY <1>2, <3>1, NoItems
    <3>5. Covered(spec, h, p)
      BY <1>1, <3>4 DEF Covered
    <3> QED BY <3>2, <3>3, <3>5 DEF ReadWhole
  <2>2. CASE ~(p >= e)
    <3>1. p \in Starts(spec)
      BY <1>1, <1>2, <2>2 DEF Begins
    <3>2. \A r \in (p + 1)..(Len(spec) + 2) : Begins(spec, r) /\ Fits(spec, h, r) => ReadWhole(f, spec, h, r)
      BY <1>1, <1>3, <1>4
    <3> QED BY <3>1, <3>2, WholeStep
  <2> QED BY <2>1, <2>2
<1>5. \A p \in 1..n : p \in R
  BY ONLY <1>2, <1>4, DownFromTheEnd
<1>6. 1 \in R
  BY <1>2, <1>5
<1>7. Begins(spec, 1)
  <2>1. Len(spec) = 0 => 1 = Len(spec) + 1
    OBVIOUS
  <2>2. Len(spec) # 0 => 1 \in Starts(spec)
    BY <1>2 DEF Starts
  <2> QED BY <1>2, <2>1, <2>2 DEF Begins
<1> QED BY <1>3, <1>6, <1>7

\* Two lists that mean the same are the same, place by place.
LEMMA CoveredIs ==
  ASSUME NEW spec, Len(spec) \in Nat, NEW h, Adds(h, spec), Covered(spec, h, 1),
         NEW list, MeansFrom(list, spec, h, 1), NEW other, MeansFrom(other, spec, h, 1)
  PROVE  list = other
<1>1. PICK l : l = h[Between(spec, 1, Len(spec) + 1)]
  OBVIOUS
<1>2. list \in Seq(Int) /\ Len(list) = l /\ other \in Seq(Int) /\ Len(other) = l
  BY <1>1 DEF MeansFrom
<1>3. l \in Nat
  BY <1>2, LenProperties
<1>4. ASSUME NEW k \in 1..l PROVE list[k] = other[k]
  <2>1. PICK s \in Starts(spec) : 1 <= s /\ k - h[Between(spec, 1, s)] \in 1..Counts(spec)[s]
    BY <1>1 DEF Covered
  <2>2. ItemMeans(list, spec, h, 1, s) /\ ItemMeans(other, spec, h, 1, s)
    BY <2>1 DEF MeansFrom
  <2>3. PICK H, d, j, x : H = h[Between(spec, 1, s)] /\ d = Counts(spec)[s] /\ j = k - H /\ x = NumberOf[spec[s]]
    OBVIOUS
  <2>4. /\ H \in Nat /\ j \in 1..d
        /\ \A i \in 1..d : list[H + i] = AsInt(x + i - 1)
        /\ \A i \in 1..d : other[H + i] = AsInt(x + i - 1)
    BY <2>1, <2>2, <2>3 DEF ItemMeans
  <2>5. H + j = k
    BY <1>3, <2>3, <2>4
  <2> QED BY <2>4, <2>5
<1>5. \A s \in Seq(Int) : s = [k \in 1..Len(s) |-> s[k]]
  BY LenProperties
<1> QED BY <1>2, <1>4, <1>5

\* The parser takes every --cpus list of ints that means something and has
\* room, and what it takes is the one list of CPUs that the text means
\* (parse_cpu_list). What it makes of a greater number is another CPU.
THEOREM WhatIsMeantIsTaken ==
  ASSUME NEW spec, spec \in Seq(ToSet(spec)), NEW list, list \in Seq(Int),
         Len(list) <= ListSize, NamesInts(spec), Means(spec, list)
  PROVE  ParseCpuList(spec) = list /\ list # Bad
<1>1. Len(spec) \in Nat
  BY LenProperties
<1>2. PICK f : ParseCpuList(spec) = f[1] /\ Parses(f, spec)
  BY <1>1, ListIsParsed
<1>3. PICK h : Adds(h, spec)
  BY <1>1, SumOfCounts
<1>4. PICK counts : counts = [s \in Starts(spec) |-> CountOf(ItemAt(spec, s))]
  OBVIOUS
<1>5. \A s \in Starts(spec) : IsItem(ItemAt(spec, s))
  BY DEF Means
<1>6. Counts(spec) = counts
  BY <1>4, <1>5 DEF Counts
<1>7. ASSUME NEW s PROVE SumFunctionOnSet(counts, {r \in Starts(spec) : r < s}) = h[Between(spec, 1, s)]
  <2>1. Between(spec, 1, s) = {r \in Starts(spec) : r < s}
    BY <1>1, StartsAre DEF Between
  <2>2. Between(spec, 1, s) \in SUBSET Starts(spec)
    BY DEF Between
  <2>3. SumFunctionOnSet(counts, Between(spec, 1, s)) = h[Between(spec, 1, s)]
    BY <1>3, <1>6, <2>2 DEF Adds, IsSum
  <2> QED BY <2>1, <2>3
<1>8. Len(list) = h[Between(spec, 1, Len(spec) + 1)]
  <2>1. Len(list) = SumFunctionOnSet(counts, {r \in Starts(spec) : r < Len(spec) + 1})
    BY <1>4 DEF Means
  <2> QED BY <1>7, <2>1
<1>9. Fits(spec, h, 1)
  BY <1>5, <1>8 DEF Fits
<1>10. MeansFrom(f[1], spec, h, 1) /\ Covered(spec, h, 1) /\ f[1] # Bad
  BY <1>2, <1>3, <1>9, AllIsRead DEF ReadWhole
<1>11. ASSUME NEW s \in Starts(spec) PROVE ItemMeans(list, spec, h, 1, s)
  <2>1. s \in Nat /\ 1 <= s
    BY <1>1, StartsAre
  <2>2. ItemMeans(f[1], spec, h, 1, s) /\ Len(f[1]) = Len(list)
    BY <1>8, <1>10, <2>1 DEF MeansFrom
  <2>3. \A k \in 1..counts[s] : list[SumFunctionOnSet(counts, {r \in Starts(spec) : r < s}) + k]
                                = NumberOf[spec[s]] + k - 1
    BY <1>4 DEF Means
  <2>4. \A k \in 1..counts[s] : list[h[Between(spec, 1, s)] + k] = AsInt(NumberOf[spec[s]] + k - 1)
    <3>1. \A k \in 1..counts[s] : AsInt(NumberOf[spec[s]] + k - 1) = NumberOf[spec[s]] + k - 1
      BY <1>4, <1>5, NamedIsInt
    <3> QED BY <1>7, <2>3, <3>1
  <2> QED BY <1>6, <2>2, <2>4 DEF ItemMeans
<1>12. MeansFrom(list, spec, h, 1)
  BY <1>8, <1>11 DEF MeansFrom
<1> QED BY <1>1, <1>2, <1>3, <1>10, <1>12, CoveredIs

\* A --cpus list that could be run on: one of ints that means something, names
\* a CPU, and has room.
Runnable(spec) ==
  NamesInts(spec) /\ \E list \in Seq(Int) : Means(spec, list) /\ list # <<>> /\ Len(list) <= ListSize

RefusedAsNonsense == RefuseOption /\ Word.opt = "--cpus" => ~Runnable(Word.text)

\* No list that could be run on is refused, wherever on the command line it
\* stands (main's turn for --cpus, parse_cpu_list).
THEOREM NothingMeantIsRefused == SetupSpec => [][RefusedAsNonsense]_runsetup
<1>1. SetupInv /\ [SetupNext]_runsetup => SetupInv'
  BY SizeMemoryStep, OtherSetupStep DEF SetupNext
<1>2. SetupInv => RefusedAsNonsense
  <2> SUFFICES ASSUME SetupInv, RefuseOption, Word.opt = "--cpus" PROVE ~Runnable(Word.text)
    BY DEF RefusedAsNonsense
  <2>1. PICK k, n, spec : k = argi + 1 /\ n = Len(argv) /\ spec = Word.text
    OBVIOUS
  <2>2. argi < Len(argv) /\ Refused
    BY DEF RefuseOption
  <2>3. spec \in Seq(ToSet(spec))
    <3>1. /\ \E c \in Commands : argv = c[1] /\ site = c[2]
          /\ argi \in Nat
      BY DEF SetupInv
    <3>2. n \in Nat /\ \A i \in 1..n : WordOK(argv[i])
      BY <2>1, <3>1, CommandIs
    <3>3. k \in 1..n /\ Word = argv[k]
      BY <2>1, <2>2, <3>1, <3>2 DEF Word
    <3> QED BY <2>1, <3>2, <3>3 DEF WordOK
  <2>4. ParseCpuList(spec) \in {<<>>, Bad}
    BY <2>1, <2>2 DEF Refused
  <2>5. ASSUME NamesInts(spec), NEW list \in Seq(Int), Means(spec, list), list # <<>>,
               Len(list) <= ListSize
        PROVE  FALSE
    BY <2>3, <2>4, <2>5, WhatIsMeantIsTaken
  <2> QED BY <2>1, <2>5 DEF Runnable
<1> QED BY SetupFirst, <1>1, <1>2, PTL DEF SetupSpec

=============================================================================
