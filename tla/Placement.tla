------------------------------ MODULE Placement ------------------------------
(***************************************************************************)
(* Where a measurement runs and which CPU its row names                    *)
(* (bench/src/platform.h, pinning; bench/src/bench.c, collect_threads and  *)
(* collect_per_core). Workers do not share what is modelled here, so they  *)
(* are taken one after the other.                                          *)
(*                                                                         *)
(* A place is a pair <<group, number>>, as Windows numbers CPUs; elsewhere *)
(* there is one group. The program numbers them flat, in that order.       *)
(***************************************************************************)
EXTENDS Integers, FiniteSetsExt, SequencesExt

CONSTANT Sweeps  \* records [system, groups, allowed, list, threads, pin]:
                 \* "linux", "windows" or "other"; CPUs of each group; the
                 \* places a cgroup or a job leaves the process; the CPU list;
                 \* threads, or 0 for the per-core sweep; config.pin

ASSUME PlacementAssumption ==
  \A s \in Sweeps :
    /\ s.groups \in Seq(Nat) /\ s.list \in Seq(Nat)
    /\ s.threads \in Nat /\ s.list # <<>>   \* main ends the run without a CPU

VARIABLES sweep,
          row,       \* workers that are done
          affinity,  \* where this one may run
          place,     \* where it runs
          bound,     \* plat_pin_self's answer was 0
          seen,      \* cpu_observed
          ran,       \* where it was while it measured
          rows,      \* what summarize was given, and what was true
          doing      \* "create", "pin", "look", "measure" or "swept"

placement == <<sweep, row, affinity, place, bound, seen, ran, rows, doing>>

Places == UNION {{<<g, n>> : n \in 0..(sweep.groups[g] - 1)} : g \in DOMAIN sweep.groups}

\* The workers of the run: the CPU each is told to pin to, or -1, and the CPU
\* its row will name.
Workers ==
  IF sweep.threads > 0
  THEN [i \in 1..sweep.threads |->
          LET cpu == IF sweep.pin THEN sweep.list[1 + ((i - 1) % Len(sweep.list))] ELSE -1
          IN [ask |-> cpu, name |-> cpu]]
  ELSE [i \in DOMAIN sweep.list |->
          [ask |-> IF sweep.pin THEN sweep.list[i] ELSE -1, name |-> sweep.list[i]]]

PlacementInit ==
  /\ sweep \in Sweeps
  /\ row = 0 /\ affinity = {} /\ place = <<>> /\ bound = FALSE
  /\ seen = -1 /\ ran = {} /\ rows = <<>> /\ doing = "create"

-----------------------------------------------------------------------------

\* The CPUs of the groups before g.
CpusBefore(g) == FoldFunctionOnSet(+, 0, sweep.groups, 1..(g - 1))

\* Mutant: the index is not brought down by the groups that were passed.
SplitUnreduced(cpu) ==
  LET roomy == {g \in DOMAIN sweep.groups : cpu >= 0 /\ cpu < sweep.groups[g]}
  IN {<<g, cpu>> : g \in {g \in roomy : \A h \in roomy : g <= h}}

\* plat_win_split: the set of the one place, or {} where it returns -1.
Split(cpu) ==
  {<<g, cpu - CpusBefore(g)>> : g \in {g \in DOMAIN sweep.groups :
     cpu >= 0 /\ cpu < CpusBefore(g + 1) /\ cpu >= CpusBefore(g)}}

\* plat_current_cpu
Flattened(p) == IF sweep.system = "other" THEN -1 ELSE CpusBefore(p[1]) + p[2]

\* A worker starts where the process may run.
Create ==
  /\ doing = "create" /\ row < Len(Workers)
  /\ affinity' = sweep.allowed
  /\ place' \in sweep.allowed
  /\ bound' = FALSE /\ seen' = -1 /\ ran' = {}
  /\ doing' = "pin"
  /\ UNCHANGED <<sweep, row, rows>>

\* plat_pin_self took effect: the thread is moved there.
PinTaken ==
  /\ doing = "pin" /\ sweep.system # "other"
  /\ \E p \in Split(Workers[row + 1].ask) \cap sweep.allowed :
       affinity' = {p} /\ place' = p
  /\ bound' = TRUE
  /\ doing' = "look"
  /\ UNCHANGED <<sweep, row, seen, ran, rows>>

\* It did not, and worker() does not look at the answer.
PinRefused ==
  /\ doing = "pin"
  /\ sweep.system = "other" \/ Split(Workers[row + 1].ask) \cap sweep.allowed = {}
  /\ doing' = "look"
  /\ UNCHANGED <<sweep, row, affinity, place, bound, seen, ran, rows>>

Look ==
  /\ doing = "look"
  /\ seen' = Flattened(place)
  /\ ran' = {place}
  /\ doing' = "measure"
  /\ UNCHANGED <<sweep, row, affinity, place, bound, rows>>

\* The scheduler moves a thread within its affinity whenever it likes.
Migrate ==
  /\ doing \in {"look", "measure"}
  /\ place' \in affinity \ {place}
  /\ ran' = IF doing = "measure" THEN ran \cup {place'} ELSE ran
  /\ UNCHANGED <<sweep, row, affinity, bound, seen, rows, doing>>

\* summarize(&w, cpu), once the worker is joined
Report ==
  /\ doing = "measure"
  /\ rows' = Append(rows, [cpu |-> Workers[row + 1].name, bound |-> bound, seen |-> seen, ran |-> ran])
  /\ row' = row + 1
  /\ doing' = IF row + 1 = Len(Workers) THEN "swept" ELSE "create"
  /\ UNCHANGED <<sweep, affinity, place, bound, seen, ran>>

PlacementNext == Create \/ PinTaken \/ PinRefused \/ Look \/ Migrate \/ Report

PlacementSpec == PlacementInit /\ [][PlacementNext]_placement

-----------------------------------------------------------------------------

\* The place a flat number means: as many come before it.
IsCpu(p, cpu) ==
  cpu = Cardinality({q \in Places : q[1] < p[1] \/ (q[1] = p[1] /\ q[2] < p[2])})

\* A row whose pin took effect is of the CPU it names: it was measured there
\* and nowhere else, and the CPU observed, flattened back from its processor
\* group, is the one that was asked for.
PinnedWhereAsked ==
  \A i \in DOMAIN rows : LET r == rows[i] IN
    r.bound => r.seen = r.cpu /\ \A p \in r.ran : IsCpu(p, r.cpu)

=============================================================================
