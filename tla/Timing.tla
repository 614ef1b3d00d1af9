-------------------------------- MODULE Timing --------------------------------
(***************************************************************************)
(* How one rate is measured (bench/src/bench.c, run_timed and the reps     *)
(* around it): the kernel runs in batches whose size follows the time the  *)
(* last one took, until the clock passes the end; the best repetition is   *)
(* kept.                                                                   *)
(*                                                                         *)
(* Time is in milliseconds. `clock` is the true time; now_sec() shows it   *)
(* in steps of `tick`. A machine takes `cost` for one iteration, and other *)
(* work on it may hold a batch up by one of Delays. What the model leaves  *)
(* out is what the kernel computes.                                        *)
(***************************************************************************)
EXTENDS Integers

CONSTANTS Machines,     \* records [cost, first, tick]: an iteration's time,
                        \* batch_init, and the clock's resolution
          Seconds,      \* the measured time of a repetition
          Warmup,       \* the warm-up before the first
          TargetBatch,  \* TARGET_BATCH_SEC
          MaxBatch,     \* MAX_BATCH_SEC
          BatchCap,     \* 2^30
          Reps,
          Delays,       \* how long something else may hold a batch up
          MaxDelays     \* batches held up in a behaviour (a bound)

ASSUME TimingAssumption ==
  /\ \A m \in Machines :
       m.cost \in Nat \ {0} /\ m.first \in Nat /\ m.tick \in Nat \ {0}
  /\ Seconds \in Nat \ {0}   \* main raises it to 50 ms
  /\ Warmup \in Nat
  /\ TargetBatch \in Nat /\ MaxBatch \in Nat /\ BatchCap \in Nat \ {0}
  /\ Reps \in Nat \ {0}
  /\ Delays \subseteq Nat /\ MaxDelays \in Nat

VARIABLES machine,
          step,     \* "idle", "warm", "begin", "loop" or "done"
          clock,    \* true time
          end,      \* t_end, of the warm-up or of the measurement
          t0, t,    \* the first and the latest reading of a measurement
          batch, iters,
          rep,
          best,     \* the best rate so far: iterations in elapsed time
          held,     \* history: delays of this repetition, and batches delayed
          delayed,
          clean     \* history: a repetition went by undisturbed

timing == <<machine, step, clock, end, t0, t, batch, iters, rep, best, held,
            delayed, clean>>

\* now_sec at a true time.
Reading(time) == time - (time % machine.tick)

TimingTypeOK ==
  /\ machine \in Machines
  /\ step \in {"idle", "warm", "begin", "loop", "done"}
  /\ clock \in Nat /\ end \in Nat /\ t0 \in Nat /\ t \in Nat
  /\ batch \in Nat \ {0} /\ iters \in Nat
  /\ rep \in 0..Reps
  /\ best \in [iters: Nat, elapsed: Nat \ {0}]
  /\ held \in Nat /\ delayed \in 0..MaxDelays
  /\ clean \in BOOLEAN

TimingInit ==
  /\ machine \in Machines
  /\ step = "idle"
  /\ clock = 0 /\ end = 0
  /\ t0 = 0 /\ t = 0 /\ batch = 1 /\ iters = 0
  /\ rep = 0
  /\ best = [iters |-> 0, elapsed |-> 1]
  /\ held = 0 /\ delayed = 0 /\ clean = FALSE

\* A worker comes to the warm-up of a measurement.
Enter ==
  /\ step = "idle"
  /\ step' = "warm" /\ end' = Reading(clock) + Warmup
  /\ UNCHANGED <<machine, clock, t0, t, batch, iters, rep, best, held, delayed,
                 clean>>

\* warmup_spin, mem_warmup: spin while the clock has not passed t_end. A
\* warm-up of 0 does not spin at all.
Spin ==
  /\ step = "warm" /\ Reading(clock) < end
  /\ clock' = clock + machine.cost
  /\ UNCHANGED <<machine, step, end, t0, t, batch, iters, rep, best, held,
                 delayed, clean>>

Warm ==
  /\ step = "warm" /\ Reading(clock) >= end
  /\ step' = "begin"
  /\ UNCHANGED <<machine, clock, end, t0, t, batch, iters, rep, best, held,
                 delayed, clean>>

\* run_timed, up to its loop. Between two repetitions the thread waited at a
\* barrier: the measurement may start anywhere between two steps of the clock.
Begin ==
  /\ step = "begin"
  /\ step' = "loop"
  /\ \E waited \in {0, machine.tick - 1} : clock' = clock + waited
  /\ t0' = Reading(clock') /\ t' = t0'
  /\ end' = t0' + Seconds
  /\ batch' = IF machine.first = 0 THEN 1 ELSE machine.first
  /\ iters' = 0 /\ held' = 0
  /\ UNCHANGED <<machine, rep, best, delayed, clean>>

\* Mutant: a batch of one is halved like any other.
HalveToNothing(dt) ==
  IF dt < TargetBatch /\ batch < BatchCap THEN batch * 2
  ELSE IF dt > MaxBatch THEN batch \div 2
  ELSE batch

\* The size of the batch after one that was seen to take dt.
NextBatch(dt) ==
  IF dt < TargetBatch /\ batch < BatchCap THEN batch * 2
  ELSE IF dt > MaxBatch /\ batch > 1 THEN batch \div 2
  ELSE batch

\* Mutant: the last batch is timed but not counted.
BatchUncounted ==
  /\ step = "loop" /\ t < end
  /\ \E delay \in Delays \cup {0} :
       /\ delay > 0 => delayed < MaxDelays
       /\ clock' = clock + batch * machine.cost + delay
       /\ held' = held + delay
       /\ delayed' = IF delay > 0 THEN delayed + 1 ELSE delayed
  /\ t' = Reading(clock')
  /\ iters' = IF t' < end THEN iters + batch ELSE iters
  /\ batch' = NextBatch(t' - t)
  /\ UNCHANGED <<machine, step, end, t0, rep, best, clean>>

\* One turn of run_timed's loop.
Batch ==
  /\ step = "loop" /\ t < end
  /\ \E delay \in Delays \cup {0} :
       /\ delay > 0 => delayed < MaxDelays
       /\ clock' = clock + batch * machine.cost + delay
       /\ held' = held + delay
       /\ delayed' = IF delay > 0 THEN delayed + 1 ELSE delayed
  /\ iters' = iters + batch
  /\ t' = Reading(clock')
  /\ batch' = NextBatch(t' - t)
  /\ UNCHANGED <<machine, step, end, t0, rep, best, clean>>

\* keep_best_rate: the larger of two rates.
KeepBest(old, new) ==
  IF new.iters * old.elapsed > old.iters * new.elapsed THEN new ELSE old

\* elapsed_out: what the clock showed, or the time asked for if that is none.
Elapsed == IF t > t0 THEN t - t0 ELSE Seconds

\* The end of run_timed, and the caller's keep_best_rate.
Finish ==
  /\ step = "loop" /\ t >= end
  /\ best' = KeepBest(best, [iters |-> iters, elapsed |-> Elapsed])
  /\ rep' = rep + 1
  /\ step' = IF rep' < Reps THEN "begin" ELSE "done"
  /\ clean' = (clean \/ held = 0)
  /\ UNCHANGED <<machine, clock, end, t0, t, batch, iters, held, delayed>>

TimingNext == Enter \/ Spin \/ Warm \/ Begin \/ Batch \/ Finish

TimingSpec == TimingInit /\ [][TimingNext]_timing /\ WF_timing(TimingNext)

-----------------------------------------------------------------------------

\* "Iteration count and elapsed time both include the final batch, so the
\* reported rate is exact regardless of overshoot": whatever the batches were
\* and whenever the loop ended, what is counted took the time that is reported,
\* to within one step of the clock.
CountedIsTimed ==
  step = "loop" =>
    LET took == iters * machine.cost + held IN
    t - t0 < took + machine.tick /\ took < t - t0 + machine.tick

\* "interference can only ever make a run slower": the rate that is kept is
\* never better than the machine's by more than the clock's resolution, and
\* one undisturbed repetition is enough for it to be no worse by more.
BestIsTrue ==
  LET work == best.iters * machine.cost  blur == machine.tick - 1 IN
  /\ work <= best.elapsed + blur
  /\ clean => work * Seconds >= best.elapsed * (Seconds - blur)

\* The loop overshoots by what it has in hand, which is bounded: a batch was
\* asked for as the first, or takes less than twice the target (and the steps
\* of the clock, which may have hidden that it took longer).
OvershootBounded ==
  step = "loop" =>
    \/ batch <= machine.first
    \/ batch = 1
    \/ batch * machine.cost < 2 * (TargetBatch + machine.tick)

\* What a measurement reports is what the machine did.
RateHonest == CountedIsTimed /\ BestIsTrue /\ OvershootBounded

\* Every measurement that is begun ends, even where the clock stands still for
\* longer than a batch takes: batches only ever move the true time on.
TimerEnds == step = "warm" ~> step = "done"

=============================================================================
