------------------------------ MODULE Challenges ------------------------------
(***************************************************************************)
(* The registration challenges of the hub (web/server.py, class            *)
(* Challenges): issued by the server, spent once, forgotten after `ttl`.   *)
(*                                                                         *)
(* Handler threads share the store under a lock, but issue() reads the     *)
(* clock before taking it and spend() reads the clock after letting it go, *)
(* so each is two steps here and the clock may move between them.          *)
(***************************************************************************)
EXTENDS Integers, FiniteSets

CONSTANTS Handlers,  \* request threads
          Tokens,    \* the random tokens; each is drawn once
          ttl,       \* seconds a challenge lives
          cap,       \* MAX_CHALLENGES
          MaxTime    \* the clock stops here (a bound)

ASSUME ChallengeAssumption ==
  /\ IsFiniteSet(Tokens)
  /\ ttl \in Nat \ {0}
  /\ cap \in Nat \ {0}
  /\ MaxTime \in Nat

VARIABLES clock,     \* time.monotonic()
          live,      \* token -> when it expires
          doing,        \* "idle", "issuing" or "spending"
          stamp,     \* the time an issuing thread read, or the expiry popped
          holding,   \* the token a spending thread popped
          issued,    \* history: tokens drawn so far
          accepted   \* history: how often spend() said yes to each token

challenges == <<clock, live, doing, stamp, holding, issued, accepted>>

Tracked == DOMAIN live

ChallengesTypeOK ==
  /\ clock \in 0..MaxTime
  /\ Tracked \subseteq Tokens
  /\ live \in [Tracked -> Nat \ {0}]
  /\ doing \in [Handlers -> {"idle", "issuing", "spending"}]
  /\ stamp \in [Handlers -> Nat]
  /\ holding \in [Handlers -> SUBSET Tokens]
  /\ issued \subseteq Tokens
  /\ accepted \in [Tokens -> Nat]

ChallengesInit ==
  /\ clock = 0
  /\ live = [t \in {} |-> 0]
  /\ doing = [h \in Handlers |-> "idle"]
  /\ stamp = [h \in Handlers |-> 0]
  /\ holding = [h \in Handlers |-> {}]
  /\ issued = {}
  /\ accepted = [t \in Tokens |-> 0]

Tick ==
  /\ clock < MaxTime
  /\ clock' = clock + 1
  /\ UNCHANGED <<live, doing, stamp, holding, issued, accepted>>

\* issue: now = time.monotonic(), before the lock.
ReadClock(h) ==
  /\ doing[h] = "idle"
  /\ stamp' = [stamp EXCEPT ![h] = clock]
  /\ doing' = [doing EXCEPT ![h] = "issuing"]
  /\ UNCHANGED <<clock, live, holding, issued, accepted>>

\* The tokens a full store may keep to make room for one more: the expired go
\* first, and if it is still full the oldest, until one place is free.
Purged(now) == {t \in Tracked : live[t] > now}

\* Mutant: the loop that makes room stops one early.
KeptOffByOne(now) ==
  IF Cardinality(Tracked) < cap THEN {Tracked}
  ELSE {keep \in SUBSET Purged(now) :
          /\ Cardinality(keep) <= cap
          /\ keep # Purged(now) => Cardinality(keep) = cap
          /\ \A gone \in Purged(now) \ keep, t \in keep : live[gone] <= live[t]}

Kept(now) ==
  IF Cardinality(Tracked) < cap THEN {Tracked}
  ELSE {keep \in SUBSET Purged(now) :
          /\ Cardinality(keep) < cap
          /\ keep # Purged(now) => Cardinality(keep) = cap - 1
          /\ \A gone \in Purged(now) \ keep, t \in keep : live[gone] <= live[t]}

Expiry(now) == now + ttl

\* issue: the part under the lock.
Issue(h) ==
  /\ doing[h] = "issuing"
  /\ \E new \in Tokens \ issued, keep \in Kept(stamp[h]) :
       /\ live' = [t \in keep \cup {new} |->
                     IF t = new THEN Expiry(stamp[h]) ELSE live[t]]
       /\ issued' = issued \cup {new}
  /\ doing' = [doing EXCEPT ![h] = "idle"]
  /\ UNCHANGED <<clock, stamp, holding, accepted>>

\* Mutant: spend looks the token up and leaves it there.
PeekToken(h, t) ==
  /\ doing[h] = "idle" /\ t \in Tracked
  /\ stamp' = [stamp EXCEPT ![h] = live[t]]
  /\ holding' = [holding EXCEPT ![h] = {t}]
  /\ doing' = [doing EXCEPT ![h] = "spending"]
  /\ UNCHANGED <<clock, live, issued, accepted>>

\* spend: pop, under the lock. A token that is not there is refused at once,
\* which changes nothing.
PopToken(h, t) ==
  /\ doing[h] = "idle" /\ t \in Tracked
  /\ stamp' = [stamp EXCEPT ![h] = live[t]]
  /\ holding' = [holding EXCEPT ![h] = {t}]
  /\ live' = [u \in Tracked \ {t} |-> live[u]]
  /\ doing' = [doing EXCEPT ![h] = "spending"]
  /\ UNCHANGED <<clock, issued, accepted>>

\* spend: the verdict, after the lock.
Judge(h) ==
  /\ doing[h] = "spending"
  /\ accepted' = [t \in Tokens |->
                    IF t \in holding[h] /\ stamp[h] > clock
                    THEN accepted[t] + 1 ELSE accepted[t]]
  /\ holding' = [holding EXCEPT ![h] = {}]
  /\ doing' = [doing EXCEPT ![h] = "idle"]
  /\ UNCHANGED <<clock, live, stamp, issued>>

ChallengesNext ==
  \/ Tick
  \/ \E h \in Handlers :
       \/ ReadClock(h)
       \/ Issue(h)
       \/ \E t \in Tokens : PopToken(h, t)
       \/ Judge(h)

ChallengesSpec == ChallengesInit /\ [][ChallengesNext]_challenges

-----------------------------------------------------------------------------

\* MAX_CHALLENGES bounds "the memory a challenge flood can take": however many
\* threads issue at once and however late their clock readings are.
Bounded == IsFiniteSet(Tracked) /\ Cardinality(Tracked) <= cap

\* "single-use, so one solved puzzle is one account": however many requests
\* present one token at once, at most one of them is told yes, and a token
\* some request has taken is no longer there for another.
SpentOnce ==
  /\ \A t \in Tokens : accepted[t] <= 1
  /\ \A t \in Tracked : accepted[t] = 0
  /\ \A h \in Handlers : \A t \in holding[h] : t \notin Tracked /\ accepted[t] = 0
  /\ \A h, g \in Handlers : h # g => holding[h] \cap holding[g] = {}

=============================================================================
