------------------------------- MODULE MC_Gates -------------------------------
(***************************************************************************)
(* The two stores the hub's request threads share in memory, each on its   *)
(* own: a behaviour is of one of them, and they have no lock, clock        *)
(* reading or datum in common. Three threads around a store of two         *)
(* challenges; two threads whose clock readings reach the limiter's lock   *)
(* in either order, with an address and an account around their limits.    *)
(***************************************************************************)
EXTENDS Challenges, RateLimiter, TLC

GateSymmetry == Permutations(Tokens)

VARIABLE gate

GatesInit == gate \in {"challenges", "limiter"} /\ ChallengesInit /\ LimiterInit

GatesNext ==
  \/ gate = "challenges" /\ ChallengesNext        /\ UNCHANGED <<gate, limiter>>
  \/ gate = "limiter"    /\ LimiterNext /\ UNCHANGED <<gate, challenges>>

GatesSpec == GatesInit /\ [][GatesNext]_<<gate, challenges, limiter>>

=============================================================================
