----------------------------- MODULE PlatBarrier -----------------------------
(***************************************************************************)
(* The barrier shim of bench/src/platform.h: a mutex, a condition variable *)
(* and a generation counter (plat_barrier_init, plat_barrier_wait).        *)
(*                                                                         *)
(* One action per stretch of plat_barrier_wait between two points where    *)
(* another thread can run: taking the mutex, the arrival under it, waking, *)
(* taking it again, testing the generation, returning. pthread_cond_wait   *)
(* may wake with nobody having signalled; the number of such wake-ups is   *)
(* bounded by MaxSpurious. The generation is a C unsigned that wraps after *)
(* MaxGeneration. arrivals and departures are history: they count calls    *)
(* started (the moment ++waiting runs) and returned.                       *)
(***************************************************************************)
EXTENDS Naturals, FiniteSets

CONSTANTS Threads,        \* b->limit is their number
          Crossings,      \* calls each thread makes (a bound)
          MaxGeneration,  \* UINT_MAX: the generation after it is 0
          MaxSpurious,    \* spurious wake-ups in a behaviour (a bound)
          NoThread        \* the mutex is free

ASSUME ShimAssumption ==
  /\ IsFiniteSet(Threads)
  /\ Threads # {}
  /\ Crossings \in Nat
  /\ MaxGeneration \in Nat \ {0}
  /\ MaxSpurious \in Nat
  /\ NoThread \notin Threads

VARIABLES mu,          \* b->mu: who holds it
          waiting,     \* b->waiting
          generation,  \* b->generation
          pc,          \* where each thread is in plat_barrier_wait
          mine,        \* the generation it read on entry
          spurious,    \* spurious wake-ups so far
          arrivals, departures

vars == <<mu, waiting, generation, pc, mine, spurious, arrivals, departures>>

limit == Cardinality(Threads)

\* b->generation++, an unsigned that wraps.
NextGeneration(g) == IF g = MaxGeneration THEN 0 ELSE g + 1

Inside == {"asleep", "woken", "retest"}

TypeOK ==
  /\ mu \in Threads \cup {NoThread}
  /\ waiting \in Nat
  /\ generation \in 0..MaxGeneration
  /\ pc \in [Threads -> Inside \cup {"out", "entered", "leaving"}]
  /\ mine \in [Threads -> 0..MaxGeneration]
  /\ spurious \in 0..MaxSpurious
  /\ arrivals \in [Threads -> 0..Crossings]
  /\ departures \in [Threads -> 0..Crossings]

Init ==
  /\ mu = NoThread
  /\ waiting = 0
  /\ generation = 0
  /\ pc = [t \in Threads |-> "out"]
  /\ mine = [t \in Threads |-> 0]
  /\ spurious = 0
  /\ arrivals = [t \in Threads |-> 0]
  /\ departures = [t \in Threads |-> 0]

\* pthread_mutex_lock on entry; mine is read with the mutex held.
Enter(t) ==
  /\ pc[t] = "out"
  /\ arrivals[t] < Crossings
  /\ mu = NoThread
  /\ mu' = t
  /\ mine' = [mine EXCEPT ![t] = generation]
  /\ pc' = [pc EXCEPT ![t] = "entered"]
  /\ UNCHANGED <<waiting, generation, spurious, arrivals, departures>>

\* Mutant: the last arrival forgets to broadcast.
OpenSilently(t) ==
  /\ pc[t] = "entered"
  /\ waiting + 1 = limit
  /\ waiting' = 0
  /\ generation' = NextGeneration(generation)
  /\ pc' = [pc EXCEPT ![t] = "leaving"]
  /\ arrivals' = [arrivals EXCEPT ![t] = @ + 1]
  /\ UNCHANGED <<mu, mine, spurious, departures>>

\* ++waiting reaches the limit: reset the count, start a new generation and
\* wake everyone who sleeps. The mutex is still held.
Open(t) ==
  /\ pc[t] = "entered"
  /\ waiting + 1 = limit
  /\ waiting' = 0
  /\ generation' = NextGeneration(generation)
  /\ pc' = [u \in Threads |-> CASE u = t -> "leaving"
                                [] pc[u] = "asleep" -> "woken"
                                [] OTHER -> pc[u]]
  /\ arrivals' = [arrivals EXCEPT ![t] = @ + 1]
  /\ UNCHANGED <<mu, mine, spurious, departures>>

\* ++waiting stays below the limit. The loop's first test of the generation
\* is true (the mutex was never released), so the thread sleeps, which
\* releases the mutex.
Sleep(t) ==
  /\ pc[t] = "entered"
  /\ waiting + 1 # limit
  /\ waiting' = waiting + 1
  /\ pc' = [pc EXCEPT ![t] = "asleep"]
  /\ mu' = NoThread
  /\ arrivals' = [arrivals EXCEPT ![t] = @ + 1]
  /\ UNCHANGED <<generation, mine, spurious, departures>>

\* The condition variable wakes t although nobody signalled it.
WakeSpuriously(t) ==
  /\ pc[t] = "asleep"
  /\ spurious < MaxSpurious
  /\ spurious' = spurious + 1
  /\ pc' = [pc EXCEPT ![t] = "woken"]
  /\ UNCHANGED <<mu, waiting, generation, mine, arrivals, departures>>

\* A woken thread must hold the mutex again before pthread_cond_wait returns.
Reacquire(t) ==
  /\ pc[t] = "woken"
  /\ mu = NoThread
  /\ mu' = t
  /\ pc' = [pc EXCEPT ![t] = "retest"]
  /\ UNCHANGED <<waiting, generation, mine, spurious, arrivals, departures>>

\* while (mine == b->generation): not this thread's opening, sleep again.
SleepAgain(t) ==
  /\ pc[t] = "retest"
  /\ mine[t] = generation
  /\ pc' = [pc EXCEPT ![t] = "asleep"]
  /\ mu' = NoThread
  /\ UNCHANGED <<waiting, generation, mine, spurious, arrivals, departures>>

\* Mutant: a bare wait, whoever wakes leaves.
OpenedAnyway(t) ==
  /\ pc[t] = "retest"
  /\ pc' = [pc EXCEPT ![t] = "leaving"]
  /\ UNCHANGED <<mu, waiting, generation, mine, spurious, arrivals, departures>>

\* The generation moved on: the loop ends with the mutex held.
Opened(t) ==
  /\ pc[t] = "retest"
  /\ mine[t] # generation
  /\ pc' = [pc EXCEPT ![t] = "leaving"]
  /\ UNCHANGED <<mu, waiting, generation, mine, spurious, arrivals, departures>>

\* pthread_mutex_unlock and return.
Return(t) ==
  /\ pc[t] = "leaving"
  /\ mu' = NoThread
  /\ pc' = [pc EXCEPT ![t] = "out"]
  /\ departures' = [departures EXCEPT ![t] = @ + 1]
  /\ UNCHANGED <<waiting, generation, mine, spurious, arrivals>>

\* What thread t does by itself, the spurious wake-ups apart.
Step(t) ==
  \/ Enter(t)
  \/ Open(t)
  \/ Sleep(t)
  \/ Reacquire(t)
  \/ SleepAgain(t)
  \/ Opened(t)
  \/ Return(t)

Next == \E t \in Threads : Step(t) \/ WakeSpuriously(t)

Spec == Init /\ [][Next]_vars

\* Threads are scheduled, and each makes all its calls.
FairSpec == Spec /\ \A t \in Threads : WF_vars(Step(t))

-----------------------------------------------------------------------------

\* The promise the shim implements.
Promise == INSTANCE Rendezvous

RendezvousSpec == Promise!RendezvousSpec

\* platform.h: the barrier must release the workers together. No call returns
\* before every thread has made the matching call.
NobodyEarly == Promise!NobodyEarly

\* platform.h: a woken thread must be able to tell its own opening from a
\* later one. A thread sleeps only while its own crossing is incomplete: one
\* still asleep after its barrier opened would never be woken again.
NoLostWakeup ==
  \A t \in Threads : pc[t] = "asleep" =>
    /\ mine[t] = generation
    /\ \E u \in Threads : arrivals[u] < arrivals[t]

\* Every call of every thread returns.
AllCross == <>(\A t \in Threads : departures[t] = Crossings)

-----------------------------------------------------------------------------

\* The threads that have arrived at the crossing that is not complete yet,
\* when `opened` crossings are.
ArrivedAfter(opened) == {t \in Threads : arrivals[t] = opened + 1}

\* Relates the shim's counters to the history, for the number of openings so
\* far: every thread is in that crossing or the next one, waiting counts the
\* ones in the next, and a waiter's generation is current or one behind.
CrossingInv(opened) ==
  /\ waiting = Cardinality(ArrivedAfter(opened))
  /\ waiting < limit
  /\ \A t \in Threads :
       /\ arrivals[t] \in {opened, opened + 1}
       /\ pc[t] \in {"out", "entered"} =>
            arrivals[t] = opened /\ departures[t] = opened
       /\ pc[t] = "entered" =>
            mine[t] = generation /\ arrivals[t] < Crossings
       /\ pc[t] \in Inside \cup {"leaving"} => departures[t] + 1 = arrivals[t]
       /\ pc[t] = "leaving" => arrivals[t] = opened
       /\ pc[t] = "asleep" => arrivals[t] = opened + 1
       /\ pc[t] \in Inside /\ arrivals[t] = opened + 1 => mine[t] = generation
       /\ pc[t] \in Inside /\ arrivals[t] = opened =>
            generation = NextGeneration(mine[t])

\* Only the holder of the mutex is in a stretch of code that needs it.
MutexInv ==
  \A t \in Threads : pc[t] \in {"entered", "retest", "leaving"} <=> mu = t

IInv ==
  /\ TypeOK
  /\ MutexInv
  /\ \E opened \in 0..Crossings : CrossingInv(opened)

=============================================================================
