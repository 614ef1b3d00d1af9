------------------------------- MODULE Workload -------------------------------
(***************************************************************************)
(* What a measurement runs: the kernels (bench/src/kernels.c), called in   *)
(* batches whose sizes only the clock decides, and the pointer chases the  *)
(* memory kernels follow (bench.c, build_chases).                          *)
(*                                                                         *)
(* A word or a node is its number, and a lane's value the number of steps  *)
(* it has taken: what the operations compute is left out, where they are   *)
(* applied is kept.                                                        *)
(***************************************************************************)
EXTENDS Integers, SequencesExt

CONSTANTS LaneCount,   \* LANES
          Ways,        \* CHASE_WAYS
          Nodes,       \* 64-byte nodes in the buffer
          OrderNumbers,  \* how many numbers a uint32_t holds: 2^32
          Words,       \* nqwords
          Periods,     \* selector periods, powers of two
          Selectors,   \* the leaves a call may be dispatched to
          Batches,     \* batch sizes
          MaxUnits     \* the most units of work modelled (a bound)

ASSUME WorkloadAssumption ==
  /\ LaneCount \in Nat \ {0} /\ Ways \in Nat \ {0} /\ Nodes \in Nat
  /\ OrderNumbers \in Nat \ {0}
  /\ Words \in Nat /\ Words % 4 = 0   \* buffers are whole pages
  /\ Periods \subseteq Nat \ {0} /\ Batches \subseteq Nat \ {0} /\ MaxUnits \in Nat

Compute == {"int_lat", "int_thr", "mul_thr", "fp_lat", "fp_thr"}

VARIABLES kernel,    \* the kernel being measured, "" before the first
          units,     \* units of work asked of it so far
          steps,     \* per lane: how often it was stepped
          written,   \* per word of the buffer: how often the sweep passed it
          chase,     \* the kernel build_chases builds for
          order,     \* the orders its ways are shuffled into, as far as done
          left,      \* build_chases' i: what is left to shuffle of the last
          link,      \* the chase: the node a node points to
          cur,       \* chase_ctx_t: where each way is
          pattern, mask, pos,   \* disp_ctx_t
          called     \* history: the selectors of the calls made

ctx == <<steps, written, chase, order, left, link, cur, pattern, mask, pos, called>>
workload == <<kernel, units, ctx>>

Lanes == 0..(LaneCount - 1)
Node == 0..(Nodes - 1)

WorkloadInit ==
  /\ kernel = "" /\ units = 0
  /\ steps = [l \in Lanes |-> 0]
  /\ written = [i \in 0..(Words - 1) |-> 0]
  /\ chase = "" /\ order = <<>> /\ left = 0
  /\ link = [i \in Node |-> i] /\ cur = <<>>
  /\ pattern = <<0>> /\ mask = 0 /\ pos = 0 /\ called = <<>>

-----------------------------------------------------------------------------
(* The arithmetic kernels. *)

\* Mutant: INT-lat takes one step in an iteration.
OneStepLatency(k, lane) ==
  CASE k \in {"int_lat", "fp_lat"} -> IF lane = 0 THEN 1 ELSE 0
    [] OTHER -> 1

\* Steps of a lane in one iteration: the latency kernels have one chain.
StepsOf(k, lane) ==
  CASE k = "int_lat" -> IF lane = 0 THEN LaneCount ELSE 0
    [] k = "fp_lat"  -> IF lane = 0 THEN 1 ELSE 0
    [] OTHER -> 1

OpsPerStep(k) == CASE k \in {"int_lat", "int_thr"} -> 4
                   [] k = "mul_thr" -> 1
                   [] k \in {"fp_lat", "fp_thr"} -> 2

\* What the worker multiplies the iterations by to report a rate.
OpsCounted(k) == IF k = "fp_lat" THEN OpsPerStep(k) ELSE OpsPerStep(k) * LaneCount

StartCompute ==
  /\ kernel' \in Compute /\ units' = 0
  /\ steps' = [l \in Lanes |-> 0]
  /\ UNCHANGED <<written, chase, order, left, link, cur, pattern, mask, pos, called>>

RunCompute(n) ==
  /\ kernel \in Compute
  /\ steps' = [l \in Lanes |-> steps[l] + n * StepsOf(kernel, l)]
  /\ UNCHANGED <<written, order, left, link, cur, pattern, mask, pos, called>>

-----------------------------------------------------------------------------
(* The bandwidth sweep. *)

StartSweep ==
  /\ kernel' = "mem_bw" /\ units' = 0
  /\ written' = [i \in DOMAIN written |-> 0]
  /\ UNCHANGED <<steps, chase, order, left, link, cur, pattern, mask, pos, called>>

\* Four words at a time, as long as four are left.
RunSweep(n) ==
  /\ kernel = "mem_bw"
  /\ written' = [i \in DOMAIN written |->
                   IF 4 * (i \div 4) + 3 < Words THEN written[i] + n ELSE written[i]]
  /\ UNCHANGED <<steps, order, left, link, cur, pattern, mask, pos, called>>

-----------------------------------------------------------------------------
(* The pointer chases. *)

\* The ways of the chase the kernel k follows.
WaysOf(k) == IF k = "mem_lat" THEN 1 ELSE Ways
PerWay(k) == Nodes \div WaysOf(k)

\* Mutant: the ways are not interleaved but shifted against each other.
ShiftedNodes(k, w) == [i \in 0..(PerWay(k) - 1) |-> i + w]

\* The nodes of way w, in their first order: every WaysOf(k)-th. The order is
\* an array of uint32_t.
OwnNodes(k, w) == [i \in 0..(PerWay(k) - 1) |-> (i * WaysOf(k) + w) % OrderNumbers]

\* No node's number is cut: buffers of up to 2^32 nodes, 256 GiB a thread.
NumbersFit == Nodes <= OrderNumbers

\* build_chases: no chase with fewer than two nodes a way.
StartChase(k) ==
  /\ PerWay(k) >= 2
  /\ kernel' = "building" /\ chase' = k /\ units' = 0
  /\ order' = <<OwnNodes(k, 0)>> /\ left' = PerWay(k) - 1 /\ cur' = <<>>
  /\ UNCHANGED <<steps, written, link, pattern, mask, pos, called>>

\* One turn of the shuffle, with one draw of the generator.
Swap ==
  /\ kernel = "building" /\ left > 0
  /\ \E j \in 0..left :
       order' = [order EXCEPT ![Len(order)][left] = order[Len(order)][j],
                              ![Len(order)][j] = order[Len(order)][left]]
  /\ left' = left - 1
  /\ UNCHANGED <<kernel, chase, units, steps, written, link, cur, pattern, mask, pos, called>>

\* Where a node stands last in an order: its later link replaces an earlier.
LastPlace(o, x) == Max({i \in DOMAIN o : o[i] = x})

\* A way is in order: its nodes are linked one after the other, and the next
\* way or the kernel begins.
LinkWay ==
  /\ kernel = "building" /\ left = 0
  /\ LET o == Last(order)  per == PerWay(chase) IN
     /\ link' = [x \in Node |->
                   IF x \in Range(o) THEN o[(LastPlace(o, x) + 1) % per] ELSE link[x]]
     /\ cur' = Append(cur, o[0])
  /\ IF Len(order) < WaysOf(chase)
     THEN /\ order' = Append(order, OwnNodes(chase, Len(order)))
          /\ left' = PerWay(chase) - 1
          /\ UNCHANGED kernel
     ELSE kernel' = chase /\ UNCHANGED <<order, left>>
  /\ UNCHANGED <<chase, units, steps, written, pattern, mask, pos, called>>

\* Where a chase is after n loads.
Follow(x, n) == FoldLeft(LAMBDA p, i : link[p], x, [i \in 1..n |-> i])

\* mem_kernel_lat follows one way, mem_kernel_mlp all of them in lockstep.
RunChase(n) ==
  /\ kernel \in {"mem_lat", "mem_mlp"}
  /\ cur' = [w \in DOMAIN cur |-> Follow(cur[w], n)]
  /\ UNCHANGED <<steps, written, order, left, link, pattern, mask, pos, called>>

-----------------------------------------------------------------------------
(* Indirect dispatch. *)

\* A ladder point: the prefix of the selectors that is one period long. The
\* selectors are drawn once for all the points.
StartDispatch ==
  /\ kernel' = "disp" /\ units' = 0
  /\ \E period \in Periods : \E p \in [0..(period - 1) -> Selectors] :
       pattern' = p /\ mask' = period - 1
  /\ pos' = 0 /\ called' = <<>>
  /\ UNCHANGED <<chase, steps, written, order, left, link, cur>>

\* n calls; x & mask is x % (mask + 1) where mask + 1 is a power of two.
RunDispatch(n) ==
  /\ kernel = "disp"
  /\ called' = called \o [i \in 1..n |-> pattern[(pos + i - 1) % (mask + 1)]]
  /\ pos' = (pos + n) % (mask + 1)
  /\ UNCHANGED <<steps, written, order, left, link, cur, pattern, mask>>

-----------------------------------------------------------------------------

Start == StartCompute \/ StartSweep \/ StartChase("mem_lat") \/ StartChase("mem_mlp")
         \/ StartDispatch

\* run_timed hands the kernel another batch.
RunBatch ==
  \E n \in Batches :
    /\ units + n <= MaxUnits
    /\ units' = units + n
    /\ RunCompute(n) \/ RunSweep(n) \/ RunChase(n) \/ RunDispatch(n)
    /\ UNCHANGED <<kernel, chase>>

\* The kernels are measured one after the other; which comes first does not
\* matter to any of them, so here each is measured first.
WorkloadNext == (kernel = "" /\ Start) \/ Swap \/ LinkWay \/ RunBatch

WorkloadSpec == WorkloadInit /\ [][WorkloadNext]_workload

-----------------------------------------------------------------------------

\* "Each way is one full cycle over its nodes, so a chase can never collapse
\* into a short cached loop", and the two memory phases "present the same
\* cache footprint": in a buffer whose nodes an order can number, whatever the
\* generator drew, each way's chase comes back to where it is only after every
\* node of the way, no two ways share a node, and together they leave out fewer
\* nodes than there are ways.
ChasesCoverTheBuffer ==
  NumbersFit /\ kernel \in {"mem_lat", "mem_mlp"} =>
    LET per == PerWay(kernel)
        Cycle(w) == {Follow(cur[w], n) : n \in 0..(per - 1)}
    IN /\ \A w \in DOMAIN cur : Follow(cur[w], per) = cur[w] /\ Cardinality(Cycle(w)) = per
       /\ \A v, w \in DOMAIN cur : v # w => Cycle(v) \cap Cycle(w) = {}
       /\ Cardinality(UNION {Cycle(w) : w \in DOMAIN cur}) > Nodes - Len(cur)

\* bench.c, build_chases, of every buffer: "Each way is one full cycle over its
\* nodes, so a chase can never collapse into a short cached loop".
ChasesNeverCollapse ==
  kernel \in {"mem_lat", "mem_mlp"} =>
    \A w \in DOMAIN cur :
      Cardinality({Follow(cur[w], n) : n \in 0..(PerWay(kernel) - 1)}) = PerWay(kernel)

\* What the driver counts is what was done, however the units were split into
\* batches: the operations a rate is made of were all executed, as many in an
\* iteration of INT-lat as of INT-thr; every word of the buffer was swept once
\* a pass; each way moved on by one node of its order a hop, where an order can
\* number the nodes; and the calls went through the selectors' period again and
\* again from its start.
WorkIsWhatIsCounted ==
  /\ kernel \in Compute =>
       /\ OpsPerStep(kernel) * MapThenSumSet(LAMBDA l : steps[l], Lanes) = units * OpsCounted(kernel)
  /\ kernel = "mem_bw" => \A i \in DOMAIN written : written[i] = units
  /\ NumbersFit /\ kernel \in {"mem_lat", "mem_mlp"} =>
       \A w \in DOMAIN cur : cur[w] = order[w][units % PerWay(kernel)]
  /\ kernel = "disp" =>
       /\ Len(called) = units
       /\ \A i \in DOMAIN called : called[i] = pattern[(i - 1) % (mask + 1)]

=============================================================================
