-------------------------- MODULE WorkerSuite_proofs --------------------------
(***************************************************************************)
(* The phase discipline of the workers, for every number of threads,       *)
(* repetitions and phases and whatever allocations fail.                   *)
(***************************************************************************)
EXTENDS WorkerSuite, TLAPS

\* How often a worker at an entry of the schedule has called the barrier, and
\* how often the call has returned: twice for each entry behind it, plus what
\* it has done of this one. This holds because no path through an entry skips
\* phase_begin.
CallsInv ==
  \A t \in Threads : LET base == 2 * (pos[t] - 1) IN
    /\ pc[t] \in {"absent", "start", "setup", "gather", "done"} =>
         arrivals[t] = base /\ departures[t] = base
    /\ pc[t] \in {"absent", "start"} => pos[t] = 1
    /\ pc[t] = "gathering" => arrivals[t] = base + 1 /\ departures[t] = base
    /\ pc[t] = "warming" => arrivals[t] = base + 1 /\ departures[t] = base + 1
    /\ pc[t] = "linedup" => arrivals[t] = base + 2 /\ departures[t] = base + 1
    /\ pc[t] = "measuring" => arrivals[t] = base + 2 /\ departures[t] = base + 2

AlignInv == TypeOK /\ CallsInv /\ Barrier!NobodyEarly

\* How far run_workers is, and what that says of the workers.
MainInv ==
  /\ \A t \in Threads : t > created => pc[t] = "absent"
  /\ \A t \in Threads : t <= joined => pc[t] = "done"
  /\ main = "failed" => created = 0
  /\ main = "returned" => joined = N

Inv == AlignInv /\ MainInv

LEMMA RepsType == reps \in Nat \ {0}
BY SuiteAssumption DEF reps

LEMMA EntriesType == Entries \in Nat
<1>1. Phases \in Seq({"compute", "dispatch", "mem_bw", "mem_lat", "mem_mlp"})
  <2> DEFINE K == {"compute", "dispatch", "mem_bw", "mem_lat", "mem_mlp"}
  <2>1. [i \in 1..Compute |-> "compute"] \in Seq(K)
    BY SuiteAssumption
  <2>2. [i \in 1..Points |-> "dispatch"] \in Seq(K)
    BY SuiteAssumption
  <2>3. [i \in 1..2 * Points |-> "dispatch"] \in Seq(K)
    BY SuiteAssumption
  <2>4. <<"mem_bw", "mem_lat", "mem_mlp">> \in Seq(K) /\ <<"compute">> \in Seq(K)
    OBVIOUS
  <2>5. SuitePhases \in Seq(K) /\ SweepPhases \in Seq(K)
    BY <2>1, <2>2, <2>3, <2>4 DEF SuitePhases, SweepPhases
  <2> QED BY <2>5 DEF Phases
<1>2. Len(Phases) \in Nat
  BY <1>1
<1> QED BY <1>2, RepsType DEF Entries

\* A step of worker t other than its start and setup, as what it does to the
\* counters: used by every invariant below.
LEMMA AdvanceStep ==
  ASSUME TypeOK, NEW t \in Threads, Advance(t)
  PROVE  /\ pos' = [pos EXCEPT ![t] = pos[t] + 1]
         /\ \E next \in {"setup", "done"} : pc' = [pc EXCEPT ![t] = next]
         /\ buf' \in [Threads -> Contents]
<1>1. CASE pos[t] < Entries
  BY <1>1 DEF Advance, TypeOK
<1>2. CASE ~(pos[t] < Entries)
  BY <1>2 DEF Advance, TypeOK, Contents
<1> QED BY <1>1, <1>2

LEMMA SetupStep ==
  ASSUME TypeOK, NEW t \in Threads, Setup(t)
  PROVE  /\ pc[t] = "setup"
         /\ pc' = [pc EXCEPT ![t] = "gather"]
         /\ buf' \in [Threads -> Contents]
         /\ ready' \in [Threads -> BOOLEAN]
         /\ UNCHANGED <<main, created, joined, pos, arrivals, departures>>
<1> USE DEF TypeOK, Contents
<1>1. ASSUME NEW shape \in Contents, BuildChases(t, shape)
      PROVE  buf' \in [Threads -> Contents] /\ ready' \in [Threads -> BOOLEAN]
  BY <1>1 DEF BuildChases
<1>2. MemOK(t) \in BOOLEAN
  BY DEF MemOK
<1>3. /\ buf' \in [Threads -> Contents]
      /\ ready' \in [Threads -> BOOLEAN]
  BY <1>1, <1>2 DEF Setup
<1> QED BY <1>3 DEF Setup, mainVars

LEMMA InitInv == Init => Inv
<1> SUFFICES ASSUME Init PROVE Inv
  OBVIOUS
<1> USE SuiteAssumption, EntriesType DEF Init, Barrier!BarrierInit, Threads
<1>1. TypeOK
  BY DEF TypeOK, Contents
<1>2. CallsInv
  BY DEF CallsInv
<1>3. Barrier!NobodyEarly
  BY DEF Barrier!NobodyEarly
<1>4. MainInv
  BY DEF MainInv
<1> QED BY <1>1, <1>2, <1>3, <1>4 DEF Inv, AlignInv

LEMMA MainStep == Inv /\ Main => Inv'
<1> SUFFICES ASSUME Inv, Main PROVE Inv'
  OBVIOUS
<1> USE SuiteAssumption DEF Inv, AlignInv, TypeOK, MainInv, workerVars, Threads
<1>1. UNCHANGED <<pos, buf, ready, arrivals, departures>>
  BY DEF Main, SetupFails, CreateThread, CreateFails, StartJoining, Join, Destroy
<1>2. Barrier!NobodyEarly'
  BY <1>1 DEF Barrier!NobodyEarly
<1>3. CASE CreateThread
  <2>1. TypeOK' /\ MainInv'
    BY <1>1, <1>3 DEF CreateThread
  <2>2. CallsInv'
    BY <1>1, <1>3 DEF CreateThread, CallsInv
  <2> QED BY <1>2, <2>1, <2>2
<1>4. CASE SetupFails \/ CreateFails \/ StartJoining \/ Join \/ Destroy
  <2>1. UNCHANGED pc
    BY <1>4 DEF SetupFails, CreateFails, StartJoining, Join, Destroy
  <2>2. TypeOK' /\ MainInv'
    <3>1. CASE SetupFails \/ CreateFails \/ StartJoining
      BY <1>1, <3>1, <2>1 DEF SetupFails, CreateFails, StartJoining
    <3>2. CASE Join
      <4>1. TypeOK'
        BY <1>1, <3>2, <2>1 DEF Join
      <4>2. MainInv'
        BY <1>1, <3>2, <2>1 DEF Join
      <4> QED BY <4>1, <4>2
    <3>3. CASE Destroy
      BY <1>1, <3>3, <2>1 DEF Destroy
    <3> QED BY <1>4, <3>1, <3>2, <3>3
  <2>3. CallsInv'
    BY <1>1, <2>1 DEF CallsInv
  <2> QED BY <1>2, <2>2, <2>3
<1> QED BY <1>3, <1>4 DEF Main

\* What a worker's step may change: its own control, never the main thread's,
\* and a worker that is absent or done takes no step.
LEMMA WorkerFrame ==
  ASSUME Inv, NEW t \in Threads, Worker(t)
  PROVE  /\ UNCHANGED mainVars
         /\ pc[t] \notin {"absent", "done"}
         /\ \E at \in {"setup", "gather", "gathering", "warming", "linedup",
                       "measuring", "done"} : pc' = [pc EXCEPT ![t] = at]
<1> USE DEF Inv, AlignInv, mainVars
<1>1. CASE Setup(t)
  BY <1>1, SetupStep
<1>2. CASE Start(t)
  BY <1>2 DEF Start
<1>3. CASE Gather(t) \/ Gathered(t) \/ WarmUp(t)
  BY <1>3 DEF Gather, Gathered, WarmUp
<1>4. CASE Release(t)
  BY <1>4, AdvanceStep DEF Release
<1>5. CASE Measure(t)
  BY <1>5, AdvanceStep DEF Measure
<1> QED BY <1>1, <1>2, <1>3, <1>4, <1>5 DEF Worker

LEMMA WorkerMainInv ==
  ASSUME Inv, NEW t \in Threads, Worker(t)
  PROVE  MainInv'
<1>1. t <= created /\ ~(t <= joined)
  BY WorkerFrame, SuiteAssumption DEF Inv, AlignInv, TypeOK, MainInv, Threads
<1>2. UNCHANGED <<main, created, joined>>
  BY WorkerFrame DEF mainVars
<1>3. \A u \in Threads \ {t} : pc'[u] = pc[u]
  BY WorkerFrame DEF Inv, AlignInv, TypeOK
<1>4. ASSUME NEW u \in Threads
      PROVE  /\ u > created' => pc'[u] = "absent"
             /\ u <= joined' => pc'[u] = "done"
  <2>1. CASE u = t
    BY <1>1, <1>2, <2>1 DEF Inv, AlignInv, TypeOK, Threads
  <2>2. CASE u # t
    BY <1>2, <1>3, <2>2 DEF Inv, MainInv
  <2> QED BY <2>1, <2>2
<1> QED BY <1>2, <1>4 DEF Inv, MainInv

LEMMA WorkerTypeOK ==
  ASSUME Inv, NEW t \in Threads, Worker(t)
  PROVE  TypeOK'
<1> USE EntriesType DEF Inv, AlignInv
<1>1. pc' \in [Threads -> {"absent", "start", "setup", "gather", "gathering",
                           "warming", "linedup", "measuring", "done"}]
  BY WorkerFrame DEF TypeOK
<1>2. main' = main /\ created' = created /\ joined' = joined
  BY WorkerFrame DEF mainVars
<1>3. /\ buf' \in [Threads -> Contents]
      /\ ready' \in [Threads -> BOOLEAN]
  <2>1. CASE Setup(t)
    BY <2>1, SetupStep
  <2>2. CASE Start(t)
    BY <2>2 DEF Start, TypeOK, Contents
  <2>3. CASE Gather(t) \/ Gathered(t)
    BY <2>3 DEF Gather, Gathered, TypeOK
  <2>4. CASE WarmUp(t)
    BY <2>4 DEF WarmUp, MemWarmup, TypeOK, Contents
  <2>5. CASE Release(t)
    BY <2>5, AdvanceStep DEF Release, TypeOK
  <2>6. CASE Measure(t)
    BY <2>6, AdvanceStep DEF Measure, TypeOK
  <2> QED BY <2>1, <2>2, <2>3, <2>4, <2>5, <2>6 DEF Worker
<1>4. /\ arrivals' \in [Threads -> 0..2 * Entries]
      /\ departures' \in [Threads -> 0..2 * Entries]
  <2>1. CASE Setup(t)
    BY <2>1, SetupStep DEF TypeOK
  <2>2. CASE Start(t) \/ Measure(t)
    BY <2>2 DEF Start, Measure, TypeOK
  <2>3. CASE Gather(t) \/ WarmUp(t)
    BY <2>3 DEF Gather, WarmUp, Barrier!Arrive, TypeOK
  <2>4. CASE Gathered(t) \/ Release(t)
    <3>1. departures[t] + 1 = arrivals[t]
      BY <2>4 DEF Gathered, Release, CallsInv, TypeOK
    <3> QED BY <2>4, <3>1 DEF Gathered, Release, Barrier!Depart, TypeOK
  <2> QED BY <2>1, <2>2, <2>3, <2>4 DEF Worker
<1>5. pos' \in [Threads -> 1..Entries + 1]
  <2>1. CASE Setup(t)
    BY <2>1, SetupStep DEF TypeOK
  <2>2. CASE Start(t) \/ Gather(t) \/ Gathered(t) \/ WarmUp(t)
    BY <2>2 DEF Start, Gather, Gathered, WarmUp, TypeOK
  <2>3. CASE Release(t) \/ Measure(t)
    <3>1. arrivals[t] = 2 * pos[t]
      BY <2>3 DEF Release, Measure, CallsInv, TypeOK
    <3>2. pos[t] + 1 \in 1..Entries + 1
      BY <3>1 DEF TypeOK
    <3> QED BY <2>3, <3>2, AdvanceStep DEF Release, Measure, TypeOK
  <2> QED BY <2>1, <2>2, <2>3 DEF Worker
<1> QED BY <1>1, <1>2, <1>3, <1>4, <1>5 DEF TypeOK

LEMMA WorkerCallsInv ==
  ASSUME Inv, NEW t \in Threads, Worker(t)
  PROVE  CallsInv'
<1> USE DEF Inv, AlignInv, CallsInv
<1>1. CASE Setup(t)
  BY <1>1, SetupStep DEF TypeOK
<1>2. CASE Start(t)
  BY <1>2 DEF Start, TypeOK
<1>3. CASE Gather(t)
  BY <1>3 DEF Gather, Barrier!Arrive, TypeOK
<1>4. CASE Gathered(t)
  BY <1>4 DEF Gathered, Barrier!Depart, TypeOK
<1>5. CASE WarmUp(t)
  BY <1>5 DEF WarmUp, Barrier!Arrive, TypeOK
<1>6. CASE Release(t)
  <2>1. CASE ready[t]
    BY <1>6, <2>1 DEF Release, Barrier!Depart, TypeOK
  <2>2. CASE ~ready[t]
    BY <1>6, <2>2, AdvanceStep DEF Release, Barrier!Depart, TypeOK
  <2> QED BY <2>1, <2>2
<1>7. CASE Measure(t)
  BY <1>7, AdvanceStep DEF Measure, TypeOK
<1> QED BY <1>1, <1>2, <1>3, <1>4, <1>5, <1>6, <1>7 DEF Worker

\* The barrier's promise survives every worker step: calls only start, and a
\* call returns only when everyone has made the matching one.
LEMMA WorkerNobodyEarly ==
  ASSUME Inv, NEW t \in Threads, Worker(t)
  PROVE  Barrier!NobodyEarly'
<1> USE DEF Inv, AlignInv, TypeOK, Barrier!NobodyEarly
<1>1. CASE Setup(t)
  BY <1>1, SetupStep
<1>2. CASE Start(t) \/ Measure(t)
  BY <1>2 DEF Start, Measure
<1>3. CASE Gather(t) \/ WarmUp(t)
  BY <1>3 DEF Gather, WarmUp, Barrier!Arrive
<1>4. CASE Gathered(t) \/ Release(t)
  <2>1. departures[t] + 1 = arrivals[t]
    BY <1>4 DEF Gathered, Release, CallsInv
  <2> QED BY <1>4, <2>1 DEF Gathered, Release, Barrier!Depart, Barrier!Complete
<1> QED BY <1>1, <1>2, <1>3, <1>4 DEF Worker

\* The inductive invariant of the run: the types, the number of barrier calls
\* each control point stands for, the barrier's promise and main's progress.
THEOREM Inductive == Spec => []Inv
<1>1. Init => Inv
  BY InitInv
<1>2. Inv /\ [Next]_vars => Inv'
  <2> SUFFICES ASSUME Inv, [Next]_vars PROVE Inv'
    OBVIOUS
  <2>1. CASE Main
    BY <2>1, MainStep
  <2>2. ASSUME NEW t \in Threads, Worker(t) PROVE Inv'
    BY <2>2, WorkerTypeOK, WorkerCallsInv, WorkerNobodyEarly, WorkerMainInv
       DEF Inv, AlignInv
  <2>3. CASE UNCHANGED vars
    BY <2>3 DEF vars, Inv, AlignInv, TypeOK, CallsInv, MainInv, Barrier!NobodyEarly
  <2> QED BY <2>1, <2>2, <2>3 DEF Next
<1> QED BY <1>1, <1>2, PTL DEF Spec

\* While a worker measures, every other worker is measuring, about to or done
\* measuring the same repetition; nobody is warming up.
THEOREM PhasesAligned == Spec => []MeasuredTogether
<1>1. Inv => MeasuredTogether
  <2> SUFFICES ASSUME Inv, NEW t \in Threads, NEW u \in Threads, pc[t] = "measuring"
               PROVE  \/ pos[u] = pos[t] /\ pc[u] \in {"linedup", "measuring"}
                      \/ /\ pos[u] = pos[t] + 1
                         /\ pc[u] \in {"setup", "gather", "gathering", "done"}
    BY DEF MeasuredTogether
  <2>1. /\ pos[t] \in Nat \ {0}
        /\ pos[u] \in Nat \ {0}
        /\ arrivals[u] \in Nat
        /\ departures[u] \in Nat
    BY EntriesType DEF Inv, AlignInv, TypeOK
  <2>2. arrivals[t] = 2 * pos[t] /\ departures[t] = 2 * pos[t]
    BY <2>1 DEF Inv, AlignInv, CallsInv
  <2>3. 2 * pos[t] <= arrivals[u] /\ departures[u] <= 2 * pos[t]
    BY <2>2 DEF Inv, AlignInv, Barrier!NobodyEarly
  <2>4. pc[u] \in {"absent", "start", "setup", "gather", "gathering",
                   "warming", "linedup", "measuring", "done"}
    BY DEF Inv, AlignInv, TypeOK
  <2>5. CASE pc[u] \in {"linedup", "measuring"}
    BY <2>1, <2>3, <2>5 DEF Inv, AlignInv, CallsInv
  <2>6. CASE pc[u] \in {"setup", "gather", "gathering", "done"}
    BY <2>1, <2>3, <2>6 DEF Inv, AlignInv, CallsInv
  <2>7. CASE pc[u] = "warming"
    BY <2>1, <2>3, <2>7 DEF Inv, AlignInv, CallsInv
  <2>8. CASE pc[u] \in {"absent", "start"}
    BY <2>1, <2>3, <2>8 DEF Inv, AlignInv, CallsInv
  <2> QED BY <2>4, <2>5, <2>6, <2>7, <2>8
<1> QED BY <1>1, Inductive, PTL

\* When run_workers has returned, no worker still runs or is inside the
\* barrier that has been destroyed.
THEOREM ReturnsQuiet == Spec => []QuietReturn
<1>1. Inv => QuietReturn
  BY SuiteAssumption DEF Inv, AlignInv, TypeOK, MainInv, CallsInv, QuietReturn,
     Barrier!Outside, Threads
<1> QED BY <1>1, Inductive, PTL

-----------------------------------------------------------------------------
(* The pointer chases. *)

\* From the first repetition's setup to the end of a phase of this kind, a
\* worker that is ready has its chase in the buffer.
Linked(t, kind, shape) ==
  /\ \/ pc[t] \in {"gather", "gathering", "warming", "linedup", "measuring"}
     \/ pc[t] = "setup" /\ Rep(pos[t]) # 0
  /\ Kind(pos[t]) = kind
  /\ ready[t]
  => buf[t] = shape

ChaseInv ==
  \A t \in Threads : Linked(t, "mem_lat", "chain") /\ Linked(t, "mem_mlp", "chains")

\* A repetition that is not the first of its phase follows one of the same
\* phase.
LEMMA SamePhase ==
  ASSUME NEW p \in Nat \ {0}, Rep(p + 1) # 0
  PROVE  Kind(p + 1) = Kind(p)
<1>1. reps \in Nat \ {0}
  BY RepsType
<1> DEFINE q == p \div reps
           m == p % reps
<1> HIDE DEF q, m
<1>2. q \in Nat /\ m \in 1..reps - 1 /\ p = reps * q + m
  BY <1>1 DEF Rep, q, m
<1>3. p - 1 = reps * q + (m - 1) /\ m - 1 \in 0..reps - 1
  BY <1>1, <1>2
<1>4. (p - 1) \div reps = q
  BY <1>1, <1>2, <1>3
<1>5. Phase(p + 1) = Phase(p)
  BY <1>4, (p + 1) - 1 = p DEF Phase, q
<1> QED BY <1>5 DEF Kind

\* The end of a repetition leaves the chase in place for the next one.
LEMMA AdvanceLinked ==
  ASSUME Inv, NEW t \in Threads, pc[t] \in {"linedup", "measuring"}, Advance(t),
         NEW kind, NEW shape, Linked(t, kind, shape), UNCHANGED ready
  PROVE  Linked(t, kind, shape)'
<1>1. CASE pos[t] < Entries
  <2>1. pc'[t] = "setup" /\ pos'[t] = pos[t] + 1 /\ buf' = buf
    BY <1>1 DEF Advance, Inv, AlignInv, TypeOK
  <2>2. Rep(pos[t] + 1) # 0 => Kind(pos[t] + 1) = Kind(pos[t])
    BY SamePhase, EntriesType DEF Inv, AlignInv, TypeOK
  <2> QED BY <2>1, <2>2 DEF Linked, Kind, Phase, Rep
<1>2. CASE ~(pos[t] < Entries)
  BY <1>2 DEF Advance, Inv, AlignInv, TypeOK, Linked
<1> QED BY <1>1, <1>2

LEMMA SetupLinked ==
  ASSUME Inv, NEW t \in Threads, Setup(t), ChaseInv
  PROVE  Linked(t, "mem_lat", "chain")' /\ Linked(t, "mem_mlp", "chains")'
<1> USE DEF Inv, AlignInv, TypeOK
<1>1. pos' = pos /\ pc[t] = "setup" /\ pc' = [pc EXCEPT ![t] = "gather"]
  BY SetupStep
<1>2. ASSUME Kind(pos[t]) = "mem_lat", ready'[t] PROVE buf'[t] = "chain"
  <2>1. CASE Rep(pos[t]) = 0
    BY <1>2, <2>1 DEF Setup, BuildChases, IsFirstDispatch
  <2>2. CASE Rep(pos[t]) # 0
    <3>1. UNCHANGED <<ready, buf>>
      BY <1>2, <2>2 DEF Setup, IsFirstDispatch
    <3> QED BY <1>1, <1>2, <2>2, <3>1 DEF ChaseInv, Linked
  <2> QED BY <2>1, <2>2
<1>3. ASSUME Kind(pos[t]) = "mem_mlp", ready'[t] PROVE buf'[t] = "chains"
  <2>1. CASE Rep(pos[t]) = 0
    BY <1>3, <2>1 DEF Setup, BuildChases, IsFirstDispatch
  <2>2. CASE Rep(pos[t]) # 0
    <3>1. UNCHANGED <<ready, buf>>
      BY <1>3, <2>2 DEF Setup, IsFirstDispatch
    <3> QED BY <1>1, <1>3, <2>2, <3>1 DEF ChaseInv, Linked
  <2> QED BY <2>1, <2>2
<1> QED BY <1>1, <1>2, <1>3 DEF Linked, Kind, Phase

\* Only a worker that has what its phase needs measures.
ReadyInv == \A t \in Threads : pc[t] = "measuring" => ready[t]

LEMMA MeasuresReady == Spec => []ReadyInv
<1>1. Init => ReadyInv
  BY DEF Init, ReadyInv
<1>2. Inv /\ ReadyInv /\ [Next]_vars => ReadyInv'
  <2> SUFFICES ASSUME Inv, ReadyInv, [Next]_vars PROVE ReadyInv'
    OBVIOUS
  <2> USE DEF Inv, AlignInv, TypeOK, ReadyInv
  <2>1. CASE Main
    BY <2>1 DEF Main, SetupFails, CreateThread, CreateFails, StartJoining, Join,
       Destroy, workerVars
  <2>2. ASSUME NEW t \in Threads, Worker(t) PROVE ReadyInv'
    <3>1. CASE Setup(t)
      BY ZenonT(30), <3>1, SetupStep DEF Setup, BuildChases
    <3>2. CASE Start(t) \/ Gather(t) \/ Gathered(t) \/ WarmUp(t)
      BY <3>2 DEF Start, Gather, Gathered, WarmUp
    <3>3. CASE Release(t) \/ Measure(t)
      BY <3>3 DEF Release, Measure, Advance
    <3> QED BY <2>2, <3>1, <3>2, <3>3 DEF Worker
  <2>3. CASE UNCHANGED vars
    BY <2>3 DEF vars
  <2> QED BY <2>1, <2>2, <2>3 DEF Next
<1> QED BY <1>1, <1>2, Inductive, PTL DEF Spec

\* A latency kernel only ever follows the chains its own phase built: nothing
\* between building and measuring writes the buffer.
THEOREM ChaseSurvives == Spec => []ChaseIntact
<1>1. Init => ChaseInv
  BY DEF Init, ChaseInv, Linked
<1>2. Inv /\ ChaseInv /\ [Next]_vars => ChaseInv'
  <2> SUFFICES ASSUME Inv, ChaseInv, [Next]_vars PROVE ChaseInv'
    OBVIOUS
  <2> USE DEF Inv, AlignInv, TypeOK
  <2>1. CASE Main
    <3>1. CASE CreateThread
      BY <3>1 DEF CreateThread, ChaseInv, Linked, Kind, Phase, Rep
    <3>2. CASE SetupFails \/ CreateFails \/ StartJoining \/ Join \/ Destroy
      <4>1. UNCHANGED <<pc, pos, buf, ready>>
        BY <3>2 DEF SetupFails, CreateFails, StartJoining, Join, Destroy, workerVars
      <4> QED BY <4>1 DEF ChaseInv, Linked, Kind, Phase, Rep
    <3> QED BY <2>1, <3>1, <3>2 DEF Main
  <2>2. ASSUME NEW t \in Threads, Worker(t) PROVE ChaseInv'
    <3>1. \A u \in Threads \ {t} : /\ pc'[u] = pc[u]
                                   /\ pos'[u] = pos[u]
                                   /\ buf'[u] = buf[u]
                                   /\ ready'[u] = ready[u]
      <4>1. CASE Setup(t)
        <5>1. UNCHANGED pos /\ pc' = [pc EXCEPT ![t] = "gather"]
          BY <4>1, SetupStep
        <5>2. (ready' = ready \/ \E b : ready' = [ready EXCEPT ![t] = b])
              /\ (buf' = buf \/ \E c : buf' = [buf EXCEPT ![t] = c])
          BY Zenon, <4>1 DEF Setup, BuildChases
        <5> QED BY <5>1, <5>2
      <4>2. CASE Start(t)
        BY <4>2 DEF Start
      <4>3. CASE Gather(t) \/ Gathered(t)
        BY <4>3 DEF Gather, Gathered
      <4>4. CASE WarmUp(t)
        BY <4>4 DEF WarmUp, MemWarmup
      <4>5. CASE Release(t) \/ Measure(t)
        BY <4>5 DEF Release, Measure, Advance
      <4> QED BY <2>2, <4>1, <4>2, <4>3, <4>4, <4>5 DEF Worker
    <3>2. Linked(t, "mem_lat", "chain") /\ Linked(t, "mem_mlp", "chains")
      BY DEF ChaseInv
    <3>3. Linked(t, "mem_lat", "chain")' /\ Linked(t, "mem_mlp", "chains")'
      <4>1. CASE Setup(t)
        BY <4>1, SetupLinked
      <4>2. CASE Start(t)
        <5>1. pos[t] = 1
          BY <4>2 DEF Start, CallsInv
        <5>2. Rep(1) = 0
          BY RepsType DEF Rep
        <5> QED BY <4>2, <5>1, <5>2 DEF Start, Linked, Rep
      <4>3. CASE Gather(t) \/ Gathered(t)
        BY <3>2, <4>3 DEF Gather, Gathered, Linked, Kind, Phase, Rep
      <4>4. CASE WarmUp(t)
        BY <3>2, <4>4 DEF WarmUp, MemWarmup, Linked, Kind, Phase, Rep
      <4>5. CASE Release(t)
        <5>1. CASE ready[t]
          BY <3>2, <4>5, <5>1 DEF Release, Linked, Kind, Phase, Rep
        <5>2. CASE ~ready[t]
          BY <3>2, <4>5, <5>2, AdvanceLinked DEF Release
        <5> QED BY <5>1, <5>2
      <4>6. CASE Measure(t)
        BY <3>2, <4>6, AdvanceLinked DEF Measure
      <4> QED BY <2>2, <4>1, <4>2, <4>3, <4>4, <4>5, <4>6 DEF Worker
    <3>4. ASSUME NEW u \in Threads \ {t}
          PROVE  Linked(u, "mem_lat", "chain")' /\ Linked(u, "mem_mlp", "chains")'
      <4>1. Linked(u, "mem_lat", "chain") /\ Linked(u, "mem_mlp", "chains")
        BY DEF ChaseInv
      <4> QED BY <3>1, <4>1 DEF Linked, Kind, Phase, Rep
    <3> QED BY <3>3, <3>4 DEF ChaseInv
  <2>3. CASE UNCHANGED vars
    BY <2>3 DEF vars, ChaseInv, Linked, Kind, Phase, Rep
  <2> QED BY <2>1, <2>2, <2>3 DEF Next
<1>3. ChaseInv /\ ReadyInv => ChaseIntact
  BY DEF ChaseInv, ReadyInv, ChaseIntact, Linked
<1> QED BY <1>1, <1>2, <1>3, Inductive, MeasuresReady, PTL DEF Spec

=============================================================================
