----------------------------- MODULE Rendezvous -----------------------------
(***************************************************************************)
(* What a reusable thread barrier promises, whoever implements it.         *)
(*                                                                         *)
(* bench.c synchronises its worker threads with one barrier per run. On    *)
(* platforms with POSIX barriers that is pthread_barrier_wait, an external *)
(* library; elsewhere it is the shim of platform.h (module PlatBarrier).   *)
(* The workers (module WorkerSuite) rely on nothing but this module.       *)
(*                                                                         *)
(* A call of the barrier is two moments: the caller arrives, and later it  *)
(* departs. A crossing is complete when every thread has arrived at it.    *)
(***************************************************************************)
EXTENDS Naturals

CONSTANTS Threads,   \* the threads the barrier was initialised for
          Crossings  \* how often each thread calls the barrier (a bound)

VARIABLES arrivals,   \* arrivals[t]: how many calls thread t has started
          departures  \* departures[t]: how many of them have returned

barrierVars == <<arrivals, departures>>

RendezvousTypeOK ==
  /\ arrivals \in [Threads -> 0..Crossings]
  /\ departures \in [Threads -> 0..Crossings]

BarrierInit ==
  /\ arrivals = [t \in Threads |-> 0]
  /\ departures = [t \in Threads |-> 0]

Outside(t) == arrivals[t] = departures[t]

\* Thread t calls the barrier.
Arrive(t) ==
  /\ Outside(t)
  /\ arrivals[t] < Crossings
  /\ arrivals' = [arrivals EXCEPT ![t] = @ + 1]
  /\ UNCHANGED departures

\* Everyone has arrived at the crossing that t is in.
Complete(t) == \A u \in Threads : arrivals[t] <= arrivals[u]

\* The call of thread t returns.
Depart(t) ==
  /\ ~Outside(t)
  /\ Complete(t)
  /\ departures' = [departures EXCEPT ![t] = @ + 1]
  /\ UNCHANGED arrivals

BarrierNext == \E t \in Threads : Arrive(t) \/ Depart(t)

\* The promise without its liveness.
RendezvousSafety == BarrierInit /\ [][BarrierNext]_barrierVars

\* Callers arrive when they please; a barrier whose crossing is complete lets
\* every caller go.
RendezvousSpec ==
  /\ RendezvousSafety
  /\ \A t \in Threads : WF_barrierVars(Depart(t))

-----------------------------------------------------------------------------

\* No call returns before every thread has made the matching call, and no
\* thread runs ahead of one that is still inside an earlier crossing.
NobodyEarly == \A t, u \in Threads : departures[t] <= arrivals[u]

=============================================================================
