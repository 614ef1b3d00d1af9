----------------------------- MODULE WorkerSuite -----------------------------
(***************************************************************************)
(* One benchmark run of bench.c: run_workers creates the worker threads,   *)
(* every worker goes through the same schedule of timed repetitions, and   *)
(* run_workers joins them and tears the barrier down.                      *)
(*                                                                         *)
(* Each repetition is entered through phase_begin (or phase_begin_mem):    *)
(* line up, warm up, line up again, measure. The barrier is the one of     *)
(* module Rendezvous, which the shim of module PlatBarrier implements. A   *)
(* run of one thread passes no barrier (w->bar is NULL); a barrier for one *)
(* thread never blocks, so the two are the same here.                      *)
(*                                                                         *)
(* Times and rates are left out: what matters is who measures when, and    *)
(* what a worker's buffer holds when a kernel runs over it.                *)
(***************************************************************************)
EXTENDS Integers, Sequences

CONSTANTS N,        \* --threads
          Reps,     \* --reps
          Compute,  \* the ALU and FP phases before the dispatch ladder (5)
          Points,   \* DISP_LADDER_N, or DISP_SWEEP_N when Sweep
          Sweep,    \* --disp-sweep: only the selector-period sweep
          Memory    \* mem_bytes: "none" (0), "small" (below
                    \* CHASE_WAYS * 65536) or "full"

ASSUME SuiteAssumption ==
  /\ N \in Nat \ {0}
  /\ Reps \in Nat
  /\ Compute \in Nat
  /\ Points \in Nat \ {0}
  /\ Sweep \in BOOLEAN
  /\ Memory \in {"none", "small", "full"}

VARIABLES main,        \* where run_workers is
          created,     \* threads pthread_create has returned 0 for
          joined,      \* threads pthread_join has returned for
          pc,          \* where each worker is
          pos,         \* the entry of the schedule it is at
          buf,         \* what its buffer holds
          ready,       \* what its `continue` tests: nothing it needs is missing
          arrivals, departures

workerVars == <<pc, pos, buf, ready>>
mainVars == <<main, created, joined>>
vars == <<main, created, joined, pc, pos, buf, ready, arrivals, departures>>

Threads == 1..N

-----------------------------------------------------------------------------
(* The schedule. *)

\* reps < 1 counts as 1.
reps == IF Reps > 0 THEN Reps ELSE 1

SuitePhases ==
  [i \in 1..Compute |-> "compute"] \o [i \in 1..Points |-> "dispatch"]
    \o <<"mem_bw", "mem_lat", "mem_mlp">>

\* INT-lat as a clock reading, then every period twice: dependent calls and
\* independent ones.
SweepPhases == <<"compute">> \o [i \in 1..2 * Points |-> "dispatch"]

Phases == IF Sweep THEN SweepPhases ELSE SuitePhases

Entries == Len(Phases) * reps

Phase(p) == ((p - 1) \div reps) + 1
Kind(p) == Phases[Phase(p)]
Rep(p) == (p - 1) % reps

\* The first dispatch entry, before which the index table is allocated.
IsFirstDispatch(p) ==
  Kind(p) = "dispatch" /\ (p = 1 \/ Kind(p - 1) # "dispatch")

\* The first repetition warms up; in the ladder only the first point does.
WarmsUp(p) ==
  /\ Rep(p) = 0
  /\ Kind(p) = "dispatch" /\ ~Sweep => IsFirstDispatch(p)

Barrier == INSTANCE Rendezvous WITH Crossings <- 2 * Entries

-----------------------------------------------------------------------------

Contents == {"none", "data", "chain", "chains"}

TypeOK ==
  /\ main \in {"creating", "joining", "returned", "failed", "exited"}
  /\ created \in 0..N
  /\ joined \in 0..N
  /\ pc \in [Threads -> {"absent", "start", "setup", "gather", "gathering",
                         "warming", "linedup", "measuring", "done"}]
  /\ pos \in [Threads -> 1..Entries + 1]
  /\ buf \in [Threads -> Contents]
  /\ ready \in [Threads -> BOOLEAN]
  /\ arrivals \in [Threads -> 0..2 * Entries]
  /\ departures \in [Threads -> 0..2 * Entries]

Init ==
  /\ main = "creating"
  /\ created = 0
  /\ joined = 0
  /\ pc = [t \in Threads |-> "absent"]
  /\ pos = [t \in Threads |-> 1]
  /\ buf = [t \in Threads |-> "none"]
  /\ ready = [t \in Threads |-> TRUE]
  /\ Barrier!BarrierInit

-----------------------------------------------------------------------------
(* run_workers *)

\* plat_barrier_init or calloc fails before any thread exists: return -1.
SetupFails ==
  /\ main = "creating" /\ created = 0
  /\ main' = "failed"
  /\ UNCHANGED <<created, joined, workerVars, arrivals, departures>>

CreateThread ==
  /\ main = "creating" /\ created < N
  /\ created' = created + 1
  /\ pc' = [pc EXCEPT ![created + 1] = "start"]
  /\ UNCHANGED <<main, joined, pos, buf, ready, arrivals, departures>>

\* Mutant: a failed pthread_create returns -1 at once.
CreateFailsAndReturns ==
  /\ main = "creating" /\ created < N
  /\ main' = "failed"
  /\ UNCHANGED <<created, joined, workerVars, arrivals, departures>>

\* pthread_create fails: exit(1), and with it every worker is gone.
CreateFails ==
  /\ main = "creating" /\ created < N
  /\ main' = "exited"
  /\ UNCHANGED <<created, joined, workerVars, arrivals, departures>>

StartJoining ==
  /\ main = "creating" /\ created = N
  /\ main' = "joining"
  /\ UNCHANGED <<created, joined, workerVars, arrivals, departures>>

Join ==
  /\ main = "joining" /\ joined < N
  /\ pc[joined + 1] = "done"
  /\ joined' = joined + 1
  /\ UNCHANGED <<main, created, workerVars, arrivals, departures>>

\* free(ths), plat_barrier_destroy, return 0.
Destroy ==
  /\ main = "joining" /\ joined = N
  /\ main' = "returned"
  /\ UNCHANGED <<created, joined, workerVars, arrivals, departures>>

Main == SetupFails \/ CreateThread \/ CreateFails \/ StartJoining \/ Join \/ Destroy

-----------------------------------------------------------------------------
(* worker *)

Running == main # "exited"

\* mem_ok: big enough for CHASE_WAYS chains, and allocated.
MemOK(t) == Memory = "full" /\ buf[t] # "none"

\* Pin, allocate the buffer (which may fail) and fault it in.
Start(t) ==
  /\ pc[t] = "start"
  /\ \E got \in BOOLEAN :
       buf' = [buf EXCEPT ![t] = IF got /\ Memory # "none" THEN "data" ELSE "none"]
  /\ pc' = [pc EXCEPT ![t] = "setup"]
  /\ UNCHANGED <<mainVars, pos, ready, arrivals, departures>>

\* build_chases over t's buffer: links all of it, or fails (its malloc) before
\* touching any of it.
BuildChases(t, shape) ==
  \E built \in IF MemOK(t) THEN BOOLEAN ELSE {FALSE} :
    /\ ready' = [ready EXCEPT ![t] = built]
    /\ buf' = IF built THEN [buf EXCEPT ![t] = shape] ELSE buf

\* What a worker does before the first repetition of a phase: the index
\* table's malloc, mem_ok, the pointer chases. The barrier is ahead.
Setup(t) ==
  /\ pc[t] = "setup"
  /\ pc' = [pc EXCEPT ![t] = "gather"]
  /\ CASE Kind(pos[t]) = "compute" ->
            ready' = [ready EXCEPT ![t] = TRUE] /\ UNCHANGED buf
       [] IsFirstDispatch(pos[t]) ->
            /\ \E got \in BOOLEAN : ready' = [ready EXCEPT ![t] = got]
            /\ UNCHANGED buf
       [] Kind(pos[t]) = "mem_bw" ->
            ready' = [ready EXCEPT ![t] = MemOK(t)] /\ UNCHANGED buf
       [] Kind(pos[t]) = "mem_lat" /\ Rep(pos[t]) = 0 -> BuildChases(t, "chain")
       [] Kind(pos[t]) = "mem_mlp" /\ Rep(pos[t]) = 0 -> BuildChases(t, "chains")
       [] OTHER -> UNCHANGED <<ready, buf>>
  /\ UNCHANGED <<mainVars, pos, arrivals, departures>>

\* The end of a repetition; after the last one the buffer is freed and the
\* thread returns.
Advance(t) ==
  /\ pos' = [pos EXCEPT ![t] = @ + 1]
  /\ IF pos[t] < Entries
     THEN pc' = [pc EXCEPT ![t] = "setup"] /\ UNCHANGED buf
     ELSE /\ pc' = [pc EXCEPT ![t] = "done"]
          /\ buf' = [buf EXCEPT ![t] = "none"]

\* Mutant: `if (!idx) continue;` before phase_begin instead of after it.
GatherIfReady(t) ==
  /\ pc[t] = "gather"
  /\ IF ready[t]
     THEN /\ Barrier!Arrive(t)
          /\ pc' = [pc EXCEPT ![t] = "gathering"]
          /\ UNCHANGED <<pos, buf>>
     ELSE Advance(t) /\ UNCHANGED <<arrivals, departures>>
  /\ UNCHANGED <<mainVars, ready>>

\* phase_begin, the first wsync: arrive.
Gather(t) ==
  /\ pc[t] = "gather"
  /\ Barrier!Arrive(t)
  /\ pc' = [pc EXCEPT ![t] = "gathering"]
  /\ UNCHANGED <<mainVars, pos, buf, ready>>

\* phase_begin, the first wsync: return, and start warming up.
Gathered(t) ==
  /\ pc[t] = "gathering"
  /\ Barrier!Depart(t)
  /\ pc' = [pc EXCEPT ![t] = "warming"]
  /\ UNCHANGED <<mainVars, pos, buf, ready>>

\* Mutant: the memory phases' warm-up always sweeps read+write.
MemWarmupWrites(t) ==
  IF buf[t] # "none" /\ Kind(pos[t]) \in {"mem_bw", "mem_lat", "mem_mlp"} /\ WarmsUp(pos[t])
  THEN buf' = [buf EXCEPT ![t] = "data"]
  ELSE UNCHANGED buf

\* warmup_spin touches no buffer. mem_warmup sweeps it read+write before the
\* bandwidth phase and read-only once a chase is in it.
MemWarmup(t) ==
  IF buf[t] # "none" /\ Kind(pos[t]) = "mem_bw" /\ WarmsUp(pos[t])
  THEN buf' = [buf EXCEPT ![t] = "data"]
  ELSE UNCHANGED buf

\* Mutant: phase_begin without its second wsync.
WarmUpAndGo(t) ==
  /\ pc[t] = "warming"
  /\ MemWarmup(t)
  /\ pc' = [pc EXCEPT ![t] = "measuring"]
  /\ UNCHANGED <<mainVars, pos, ready, arrivals, departures>>

\* phase_begin: the warm-up is over; the second wsync: arrive.
WarmUp(t) ==
  /\ pc[t] = "warming"
  /\ MemWarmup(t)
  /\ Barrier!Arrive(t)
  /\ pc' = [pc EXCEPT ![t] = "linedup"]
  /\ UNCHANGED <<mainVars, pos, ready>>

\* phase_begin, the second wsync: return. A worker that lacks what the phase
\* needs skips the measurement (`continue`).
Release(t) ==
  /\ pc[t] = "linedup"
  /\ Barrier!Depart(t)
  /\ IF ready[t]
     THEN pc' = [pc EXCEPT ![t] = "measuring"] /\ UNCHANGED <<pos, buf>>
     ELSE Advance(t)
  /\ UNCHANGED <<mainVars, ready>>

\* run_timed returns and the result is kept.
Measure(t) ==
  /\ pc[t] = "measuring"
  /\ Advance(t)
  /\ UNCHANGED <<mainVars, ready, arrivals, departures>>

Worker(t) ==
  /\ Running
  /\ \/ Start(t)
     \/ Setup(t)
     \/ Gather(t)
     \/ Gathered(t)
     \/ WarmUp(t)
     \/ Release(t)
     \/ Measure(t)

Next == Main \/ \E t \in Threads : Worker(t)

Spec == Init /\ [][Next]_vars

\* The threads and the main thread are scheduled; nothing in run_workers or
\* worker waits but for the barrier and for pthread_join.
FairSpec ==
  /\ Spec
  /\ WF_vars(Main)
  /\ \A t \in Threads : WF_vars(Worker(t))

-----------------------------------------------------------------------------

\* platform.h: the barrier releases "every worker into a timed phase at the
\* same instant, so that a throughput number reflects N threads running
\* together". While t measures, everyone else is measuring, about to measure
\* or done measuring the same repetition: nobody still warms up for it and
\* nobody already warms up for the next.
MeasuredTogether ==
  \A t, u \in Threads : pc[t] = "measuring" =>
    \/ pos[u] = pos[t] /\ pc[u] \in {"linedup", "measuring"}
    \/ pos[u] = pos[t] + 1 /\ pc[u] \in {"setup", "gather", "gathering", "done"}

\* bench.c, mem_warmup: once a pointer chase has been built into the buffer
\* nothing may overwrite its links before the chase ran. A latency kernel
\* runs over exactly the chains its phase built.
ChaseIntact ==
  \A t \in Threads : pc[t] = "measuring" =>
    /\ Kind(pos[t]) = "mem_lat" => buf[t] = "chain"
    /\ Kind(pos[t]) = "mem_mlp" => buf[t] = "chains"

\* bench.c, run_workers: returning, well or badly, gives the caller's worker
\* array and the barrier back; no worker may be left using them.
QuietReturn ==
  main \in {"returned", "failed"} =>
    \A t \in Threads : pc[t] \in {"absent", "done"} /\ Barrier!Outside(t)

\* bench.c, phase_begin: every thread must call it the same number of times
\* "or the barrier deadlocks". Whatever allocations fail, the run ends.
RunEnds == <>(main \in {"returned", "failed", "exited"})

=============================================================================
