-------------------------- MODULE PlatBarrier_proofs --------------------------
(***************************************************************************)
(* The shim is correct for every finite set of threads, every number of    *)
(* calls and every width of the generation counter that has two values.    *)
(***************************************************************************)
EXTENDS PlatBarrier, FiniteSetTheorems, TLAPS

\* An unsigned with at least two values tells a generation from the next one.
LEMMA GenerationMoves ==
  ASSUME NEW g \in 0..MaxGeneration
  PROVE  NextGeneration(g) \in 0..MaxGeneration /\ NextGeneration(g) # g
BY ShimAssumption DEF NextGeneration

LEMMA LimitType == limit \in Nat \ {0}
<1>1. limit \in Nat
  BY ShimAssumption, FS_CardinalityType DEF limit
<1>2. limit # 0
  BY ShimAssumption, FS_EmptySet DEF limit
<1> QED BY <1>1, <1>2

\* waiting + 1 = limit is seen by the only thread that has not arrived.
LEMMA LastArrival ==
  ASSUME TypeOK, NEW opened \in 0..Crossings, CrossingInv(opened),
         NEW t \in Threads, pc[t] = "entered", waiting + 1 = limit
  PROVE  \A u \in Threads \ {t} : arrivals[u] = opened + 1
<1> DEFINE S == ArrivedAfter(opened)
<1>1. S \subseteq Threads /\ IsFiniteSet(S) /\ IsFiniteSet(S \cup {t})
  BY ShimAssumption, FS_Subset, FS_AddElement DEF ArrivedAfter
<1>2. t \notin S
  BY DEF ArrivedAfter, CrossingInv, TypeOK
<1>3. Cardinality(S \cup {t}) = Cardinality(S) + 1
  BY <1>1, <1>2, FS_AddElement
<1>4. Cardinality(S) = waiting
  BY DEF CrossingInv
<1>5. Cardinality(S \cup {t}) = Cardinality(Threads)
  BY <1>3, <1>4 DEF limit
<1>6. S \cup {t} = Threads
  BY <1>1, <1>5, ShimAssumption, FS_Subset
<1> QED BY <1>6 DEF ArrivedAfter

\* An arrival below the limit adds one thread to those waiting.
LEMMA EarlyArrival ==
  ASSUME TypeOK, NEW opened \in 0..Crossings, CrossingInv(opened),
         NEW t \in Threads, Sleep(t)
  PROVE  waiting' = Cardinality(ArrivedAfter(opened)') /\ waiting' < limit
<1> DEFINE S == ArrivedAfter(opened)
<1>1. IsFiniteSet(S)
  BY ShimAssumption, FS_Subset DEF ArrivedAfter
<1>2. t \notin S
  BY DEF ArrivedAfter, CrossingInv, TypeOK, Sleep
<1>3. ArrivedAfter(opened)' = S \cup {t}
  <2>1. arrivals[t] = opened
    BY DEF CrossingInv, Sleep, TypeOK
  <2>2. \A u \in Threads : arrivals'[u] = IF u = t THEN opened + 1 ELSE arrivals[u]
    BY <2>1 DEF TypeOK, Sleep
  <2> QED BY <2>2 DEF ArrivedAfter
<1>4. Cardinality(S \cup {t}) = Cardinality(S) + 1
  BY <1>1, <1>2, FS_AddElement
<1>5. waiting' = Cardinality(S) + 1
  BY DEF Sleep, CrossingInv
<1>6. waiting' < limit
  BY LimitType DEF Sleep, CrossingInv, TypeOK
<1> QED BY <1>3, <1>4, <1>5, <1>6

LEMMA InitIInv == Init => IInv
<1> SUFFICES ASSUME Init PROVE IInv
  OBVIOUS
<1>1. TypeOK
  BY ShimAssumption DEF Init, TypeOK
<1>2. MutexInv
  BY ShimAssumption DEF Init, MutexInv
<1>3. CrossingInv(0)
  <2>1. ArrivedAfter(0) = {}
    BY DEF Init, ArrivedAfter
  <2>2. waiting = Cardinality(ArrivedAfter(0)) /\ waiting < limit
    BY <2>1, FS_EmptySet, LimitType DEF Init
  <2> QED BY <2>2, ShimAssumption DEF Init, CrossingInv, Inside
<1>4. 0 \in 0..Crossings
  BY ShimAssumption
<1> QED BY <1>1, <1>2, <1>3, <1>4 DEF IInv

LEMMA NextTypeOK == IInv /\ [Next]_vars => TypeOK'
<1> SUFFICES ASSUME IInv, [Next]_vars PROVE TypeOK'
  OBVIOUS
<1> USE ShimAssumption DEF IInv, TypeOK, Inside
<1>1. ASSUME NEW t \in Threads, Enter(t) PROVE TypeOK'
  BY <1>1 DEF Enter
<1>2. ASSUME NEW t \in Threads, Open(t) PROVE TypeOK'
  <2>1. arrivals[t] + 1 \in 0..Crossings
    BY <1>2 DEF Open, CrossingInv
  <2> QED BY <1>2, <2>1, GenerationMoves DEF Open
<1>3. ASSUME NEW t \in Threads, Sleep(t) PROVE TypeOK'
  <2>1. arrivals[t] + 1 \in 0..Crossings
    BY <1>3 DEF Sleep, CrossingInv
  <2> QED BY <1>3, <2>1 DEF Sleep
<1>4. ASSUME NEW t \in Threads, Reacquire(t) PROVE TypeOK'
  BY <1>4 DEF Reacquire
<1>5. ASSUME NEW t \in Threads, SleepAgain(t) PROVE TypeOK'
  BY <1>5 DEF SleepAgain
<1>6. ASSUME NEW t \in Threads, Opened(t) PROVE TypeOK'
  BY <1>6 DEF Opened
<1>7. ASSUME NEW t \in Threads, Return(t) PROVE TypeOK'
  <2>1. departures[t] + 1 \in 0..Crossings
    BY <1>7 DEF Return, CrossingInv
  <2> QED BY <1>7, <2>1 DEF Return
<1>8. ASSUME NEW t \in Threads, WakeSpuriously(t) PROVE TypeOK'
  BY <1>8 DEF WakeSpuriously
<1>9. CASE UNCHANGED vars
  BY <1>9 DEF vars
<1> QED BY <1>1, <1>2, <1>3, <1>4, <1>5, <1>6, <1>7, <1>8, <1>9 DEF Next, Step

LEMMA NextMutexInv == IInv /\ [Next]_vars => MutexInv'
<1> SUFFICES ASSUME IInv, [Next]_vars PROVE MutexInv'
  OBVIOUS
<1> USE ShimAssumption DEF IInv, TypeOK, MutexInv
<1>1. ASSUME NEW t \in Threads, Enter(t) PROVE MutexInv'
  BY <1>1 DEF Enter
<1>2. ASSUME NEW t \in Threads, Open(t) PROVE MutexInv'
  BY <1>2 DEF Open
<1>3. ASSUME NEW t \in Threads, Sleep(t) PROVE MutexInv'
  BY <1>3 DEF Sleep
<1>4. ASSUME NEW t \in Threads, Reacquire(t) PROVE MutexInv'
  BY <1>4 DEF Reacquire
<1>5. ASSUME NEW t \in Threads, SleepAgain(t) PROVE MutexInv'
  BY <1>5 DEF SleepAgain
<1>6. ASSUME NEW t \in Threads, Opened(t) PROVE MutexInv'
  BY <1>6 DEF Opened
<1>7. ASSUME NEW t \in Threads, Return(t) PROVE MutexInv'
  BY <1>7 DEF Return
<1>8. ASSUME NEW t \in Threads, WakeSpuriously(t) PROVE MutexInv'
  BY <1>8 DEF WakeSpuriously
<1>9. CASE UNCHANGED vars
  BY <1>9 DEF vars
<1> QED BY <1>1, <1>2, <1>3, <1>4, <1>5, <1>6, <1>7, <1>8, <1>9 DEF Next, Step

\* A step that changes no arrival and not the generation keeps the crossing.
LEMMA SameCrossing ==
  ASSUME IInv, NEW opened \in 0..Crossings, CrossingInv(opened),
         UNCHANGED <<waiting, generation, arrivals>>
  PROVE  waiting' = Cardinality(ArrivedAfter(opened)') /\ waiting' < limit
BY DEF CrossingInv, ArrivedAfter

LEMMA NextCrossingInv ==
  ASSUME IInv, NEW opened \in 0..Crossings, CrossingInv(opened), [Next]_vars
  PROVE  \E o \in 0..Crossings : CrossingInv(o)'
<1> USE ShimAssumption DEF IInv, TypeOK, Inside
<1>1. ASSUME NEW t \in Threads, Enter(t) PROVE CrossingInv(opened)'
  BY <1>1, SameCrossing DEF Enter, CrossingInv
<1>2. ASSUME NEW t \in Threads, Open(t)
      PROVE  opened + 1 \in 0..Crossings /\ CrossingInv(opened + 1)'
  <2>1. \A u \in Threads \ {t} : arrivals[u] = opened + 1
    BY <1>2, LastArrival DEF Open
  <2>2. arrivals[t] = opened /\ departures[t] = opened /\ opened < Crossings
    BY <1>2 DEF Open, CrossingInv
  <2>3. \A u \in Threads : arrivals'[u] = opened + 1
    BY <1>2, <2>1, <2>2 DEF Open
  <2>4. ArrivedAfter(opened + 1)' = {}
    BY <2>3 DEF ArrivedAfter
  <2>5. waiting' = Cardinality(ArrivedAfter(opened + 1)') /\ waiting' < limit
    BY <1>2, <2>4, FS_EmptySet, LimitType DEF Open
  <2>6. \A u \in Threads \ {t} :
          /\ pc[u] \in Inside
          /\ departures[u] = opened
          /\ mine[u] = generation
    BY <2>1 DEF CrossingInv
  <2>7. \A u \in Threads : pc'[u] = IF u = t THEN "leaving"
                                    ELSE IF pc[u] = "asleep" THEN "woken" ELSE pc[u]
    BY <1>2 DEF Open
  <2>8. /\ generation' = NextGeneration(generation)
        /\ mine' = mine
        /\ departures' = departures
    BY <1>2 DEF Open
  <2>9. ASSUME NEW u \in Threads
        PROVE  /\ pc'[u] \in {"woken", "retest", "leaving"}
               /\ departures'[u] + 1 = arrivals'[u]
               /\ pc'[u] \in Inside => generation' = NextGeneration(mine'[u])
    BY <2>2, <2>3, <2>6, <2>7, <2>8
  <2> QED BY <2>2, <2>3, <2>5, <2>9 DEF CrossingInv
<1>3. ASSUME NEW t \in Threads, Sleep(t) PROVE CrossingInv(opened)'
  <2>1. waiting' = Cardinality(ArrivedAfter(opened)') /\ waiting' < limit
    BY <1>3, EarlyArrival
  <2>2. arrivals[t] = opened /\ departures[t] = opened /\ mine[t] = generation
    BY <1>3 DEF Sleep, CrossingInv
  <2>3. \A u \in Threads : /\ arrivals'[u] = IF u = t THEN opened + 1 ELSE arrivals[u]
                           /\ pc'[u] = IF u = t THEN "asleep" ELSE pc[u]
    BY <1>3, <2>2 DEF Sleep
  <2>4. UNCHANGED <<departures, mine, generation>>
    BY <1>3 DEF Sleep
  <2> QED BY <2>1, <2>2, <2>3, <2>4 DEF CrossingInv
<1>4. ASSUME NEW t \in Threads, Reacquire(t) PROVE CrossingInv(opened)'
  BY <1>4, SameCrossing DEF Reacquire, CrossingInv
<1>5. ASSUME NEW t \in Threads, SleepAgain(t) PROVE CrossingInv(opened)'
  BY <1>5, SameCrossing, GenerationMoves DEF SleepAgain, CrossingInv
<1>6. ASSUME NEW t \in Threads, Opened(t) PROVE CrossingInv(opened)'
  BY <1>6, SameCrossing DEF Opened, CrossingInv
<1>7. ASSUME NEW t \in Threads, Return(t) PROVE CrossingInv(opened)'
  BY <1>7, SameCrossing DEF Return, CrossingInv
<1>8. ASSUME NEW t \in Threads, WakeSpuriously(t) PROVE CrossingInv(opened)'
  BY <1>8, SameCrossing DEF WakeSpuriously, CrossingInv
<1>9. CASE UNCHANGED vars
  BY <1>9, SameCrossing DEF vars, CrossingInv
<1> QED BY <1>1, <1>2, <1>3, <1>4, <1>5, <1>6, <1>7, <1>8, <1>9 DEF Next, Step

\* The inductive invariant: what the shim's counters say about who has called
\* it and who has returned, in every state of every run.
THEOREM Inductive == Spec => []IInv
<1>1. Init => IInv
  BY InitIInv
<1>2. IInv /\ [Next]_vars => IInv'
  BY NextTypeOK, NextMutexInv, NextCrossingInv DEF IInv
<1> QED BY <1>1, <1>2, PTL DEF Spec

\* The mutex, the counters and the generation keep their types; in
\* particular the generation survives its wrap-around.
THEOREM TypeCorrect == Spec => []TypeOK
<1>1. IInv => TypeOK
  BY DEF IInv
<1> QED BY <1>1, Inductive, PTL

\* No call of plat_barrier_wait returns before every thread has made the
\* matching call, whatever the spurious wake-ups and however often the
\* generation wraps.
THEOREM ReleasesTogether == Spec => []NobodyEarly
<1>1. IInv => NobodyEarly
  <2> SUFFICES ASSUME TypeOK, NEW opened \in 0..Crossings, CrossingInv(opened),
                      NEW t \in Threads, NEW u \in Threads
               PROVE  departures[t] <= arrivals[u]
    BY DEF IInv, NobodyEarly, Promise!NobodyEarly
  <2>1. departures[t] <= opened
    BY DEF TypeOK, CrossingInv, Inside
  <2>2. opened <= arrivals[u]
    BY DEF TypeOK, CrossingInv
  <2> QED BY <2>1, <2>2 DEF TypeOK
<1> QED BY <1>1, Inductive, PTL

\* A thread asleep on the condition variable waits for a crossing that some
\* other thread has yet to reach: the broadcast it needs is still to come.
THEOREM WakesAll == Spec => []NoLostWakeup
<1>1. IInv => NoLostWakeup
  <2> SUFFICES ASSUME TypeOK, NEW opened \in 0..Crossings, CrossingInv(opened),
                      NEW t \in Threads, pc[t] = "asleep"
               PROVE  /\ mine[t] = generation
                      /\ \E u \in Threads : arrivals[u] < arrivals[t]
    BY DEF IInv, NoLostWakeup
  <2>1. arrivals[t] = opened + 1 /\ mine[t] = generation
    BY DEF CrossingInv, Inside
  <2>2. ArrivedAfter(opened) # Threads
    BY LimitType DEF CrossingInv, limit
  <2>3. PICK u \in Threads : arrivals[u] # opened + 1
    BY <2>2 DEF ArrivedAfter
  <2>4. arrivals[u] = opened
    BY <2>3 DEF CrossingInv
  <2> QED BY <2>1, <2>4
<1> QED BY <1>1, Inductive, PTL

\* The shim implements the safety of the rendezvous that the benchmark's
\* workers are written against: every step of it is an arrival, a departure
\* or invisible.
THEOREM ImplementsRendezvous == Spec => Promise!RendezvousSafety
<1>1. Init => Promise!BarrierInit
  BY DEF Init, Promise!BarrierInit
<1>2. IInv /\ [Next]_vars => [Promise!BarrierNext]_(Promise!barrierVars)
  <2> SUFFICES ASSUME TypeOK, NEW opened \in 0..Crossings, CrossingInv(opened),
                      [Next]_vars
               PROVE  Promise!BarrierNext \/ UNCHANGED <<arrivals, departures>>
    BY DEF IInv, Promise!barrierVars
  <2> USE DEF TypeOK, CrossingInv, Promise!Outside
  <2>1. ASSUME NEW t \in Threads, Open(t) \/ Sleep(t) PROVE Promise!Arrive(t)
    BY <2>1 DEF Open, Sleep, Promise!Arrive
  <2>2. ASSUME NEW t \in Threads, Return(t) PROVE Promise!Depart(t)
    BY <2>2 DEF Return, Promise!Depart, Promise!Complete
  <2>3. ASSUME NEW t \in Threads,
               Enter(t) \/ Reacquire(t) \/ SleepAgain(t) \/ Opened(t) \/ WakeSpuriously(t)
        PROVE  UNCHANGED <<arrivals, departures>>
    BY <2>3 DEF Enter, Reacquire, SleepAgain, Opened, WakeSpuriously
  <2>4. CASE UNCHANGED vars
    BY <2>4 DEF vars
  <2> QED BY <2>1, <2>2, <2>3, <2>4 DEF Next, Step, Promise!BarrierNext
<1> QED BY <1>1, <1>2, Inductive, PTL DEF Spec, Promise!RendezvousSafety

=============================================================================
