----------------------------- MODULE RateLimiter -----------------------------
(***************************************************************************)
(* The sliding-window limiter of the hub (web/server.py, class             *)
(* RateLimiter): at most LimitOf(key) requests of one key in any Window.   *)
(*                                                                         *)
(* allow() reads the clock before it takes the lock, so requests reach the *)
(* lock out of order of the times they read. MaxSkew bounds how long a     *)
(* request may wait for the lock; nothing in the code does, and what the   *)
(* limiter promises weakens by exactly that much. A limit of 0 disables    *)
(* the limiter and is left out.                                            *)
(***************************************************************************)
EXTENDS Integers, Sequences, FiniteSets

CONSTANTS Callers,  \* request threads
          Keys,      \* client addresses and accounts
          Accounts,  \* the keys that are signed-in accounts
          Limit,     \* self.limit
          Factor,    \* ACCOUNT_RATE_FACTOR
          Window,    \* self.window
          KeyCap,    \* 10000: tracked keys before empty ones are purged
          Batch,     \* 5000: purged at once
          MaxSkew,   \* how long a request waits for the lock (a bound)
          LastSecond, \* the clock stops here (a bound)
          MaxHits    \* requests of one key that are let through (a bound)

ASSUME LimiterAssumption ==
  /\ Keys # {} /\ Accounts \subseteq Keys
  /\ Limit \in Nat \ {0} /\ Factor \in Nat \ {0} /\ Window \in Nat
  /\ KeyCap \in Nat /\ Batch \in Nat
  /\ MaxSkew \in Nat /\ LastSecond \in Nat /\ MaxHits \in Nat

VARIABLES seconds, \* time.monotonic()
          hits,    \* key -> the deque of times, oldest first
          asking,  \* "idle" or "waiting" (for the lock)
          key, read,  \* what a waiting request is about and the time it read
          grants   \* history: when each key was let through

limiter == <<seconds, hits, asking, key, read, grants>>

TrackedKeys == DOMAIN hits
LimitOf(k) == IF k \in Accounts THEN Factor * Limit ELSE Limit

Times == 0..LastSecond

LimiterTypeOK ==
  /\ seconds \in Times
  /\ TrackedKeys \subseteq Keys
  /\ hits \in [TrackedKeys -> Seq(Times)]
  /\ asking \in [Callers -> {"idle", "waiting"}]
  /\ key \in [Callers -> Keys]
  /\ read \in [Callers -> Times]
  /\ grants \in [Keys -> Seq(Times)]

LimiterInit ==
  /\ seconds = 0
  /\ hits = [k \in {} |-> <<>>]
  /\ asking = [h \in Callers |-> "idle"]
  /\ key = [h \in Callers |-> CHOOSE k \in Keys : TRUE]
  /\ read = [h \in Callers |-> 0]
  /\ grants = [k \in Keys |-> <<>>]

SecondPasses ==
  /\ seconds < LastSecond
  /\ \A h \in Callers : asking[h] = "waiting" => seconds < read[h] + MaxSkew
  /\ seconds' = seconds + 1
  /\ UNCHANGED <<hits, asking, key, read, grants>>

\* allow: now = time.monotonic(), before the lock.
ReadSecond(h, k) ==
  /\ asking[h] = "idle"
  /\ asking' = [asking EXCEPT ![h] = "waiting"]
  /\ key' = [key EXCEPT ![h] = k]
  /\ read' = [read EXCEPT ![h] = seconds]
  /\ UNCHANGED <<seconds, hits, grants>>

\* Mutant: a hit exactly Window old is dropped too.
FreshExclusive(q, t) == {i \in 1..Len(q) : t - q[i] < Window}

Fresh(q, t) == {i \in 1..Len(q) : t - q[i] <= Window}

\* popleft while the head has expired: what is left starts at the first hit
\* that has not, whatever is behind it.
Trimmed(q, t) ==
  IF Fresh(q, t) = {} THEN <<>>
  ELSE SubSeq(q, CHOOSE i \in Fresh(q, t) : \A j \in Fresh(q, t) : i <= j, Len(q))

\* self.hits[key]: a defaultdict.
HitsOf(k) == IF k \in TrackedKeys THEN hits[k] ELSE <<>>

SetHits(k, q) == [j \in TrackedKeys \cup {k} |-> IF j = k THEN q ELSE hits[j]]

\* The empty deques a purge takes: up to Batch of them, over KeyCap keys.
Purges(table) ==
  LET empty == {j \in DOMAIN table : table[j] = <<>>} IN
  IF Cardinality(DOMAIN table) > KeyCap
  THEN {gone \in SUBSET empty :
          /\ Cardinality(gone) <= Batch
          /\ Cardinality(gone) < Batch => gone = empty}
  ELSE {{}}

WithHit(q, t) == Append(q, t)

\* Mutant: a request that is refused counts as a hit all the same.
RefuseAndCount(h) ==
  LET k == key[h]  q == Trimmed(HitsOf(k), read[h]) IN
  /\ asking[h] = "waiting"
  /\ Len(q) >= LimitOf(k)
  /\ hits' = SetHits(k, WithHit(q, read[h]))
  /\ asking' = [asking EXCEPT ![h] = "idle"]
  /\ UNCHANGED <<seconds, key, read, grants>>

\* allow, under the lock: the window is full, return False.
Refuse(h) ==
  LET k == key[h]  q == Trimmed(HitsOf(k), read[h]) IN
  /\ asking[h] = "waiting"
  /\ Len(q) >= LimitOf(k)
  /\ hits' = SetHits(k, q)
  /\ asking' = [asking EXCEPT ![h] = "idle"]
  /\ UNCHANGED <<seconds, key, read, grants>>

\* allow, under the lock: append, purge, return True.
Allow(h) ==
  LET k == key[h]  q == Trimmed(HitsOf(k), read[h]) IN
  /\ asking[h] = "waiting"
  /\ Len(q) < LimitOf(k)
  /\ Len(grants[k]) < MaxHits
  /\ LET table == SetHits(k, WithHit(q, read[h])) IN
     \E gone \in Purges(table) :
       hits' = [j \in DOMAIN table \ gone |-> table[j]]
  /\ grants' = [grants EXCEPT ![k] = Append(@, seconds)]
  /\ asking' = [asking EXCEPT ![h] = "idle"]
  /\ UNCHANGED <<seconds, key, read>>

LimiterNext ==
  \/ SecondPasses
  \/ \E h \in Callers :
       \/ \E k \in Keys : ReadSecond(h, k)
       \/ Refuse(h)
       \/ Allow(h)

LimiterSpec == LimiterInit /\ [][LimiterNext]_limiter

-----------------------------------------------------------------------------

\* No key is let through more than LimitOf(key) times in a Window, give or
\* take the time a request waited for the lock: one request more is further
\* from the first than Window - MaxSkew.
WithinLimit ==
  \A k \in Keys : \A i \in 1..Len(grants[k]) :
    i + LimitOf(k) <= Len(grants[k]) =>
      grants[k][i + LimitOf(k)] - grants[k][i] > Window - MaxSkew

\* Nobody is refused who kept to the limit: behind a refusal there are
\* LimitOf(key) requests that were let through within Window (and the wait).
RefusedForCause ==
  [][\A h \in Callers :
       LET k == key[h]  n == Len(grants[k]) IN
       asking[h] = "waiting" /\ asking'[h] = "idle" /\ grants' = grants =>
         /\ n >= LimitOf(k)
         /\ seconds - grants[k][n + 1 - LimitOf(k)] <= Window + MaxSkew]_limiter

\* server.py:1377, "bound memory on a busy host": a request that finds more
\* than KeyCap keys tracked leaves none behind that have been quiet for a
\* Window, or has at least forgotten a Batch of them.
MemoryBounded ==
  [][\A h \in Callers :
       /\ asking[h] = "waiting" /\ asking'[h] = "idle" /\ grants' # grants
       /\ Cardinality(TrackedKeys') > KeyCap
       => \/ \A k \in TrackedKeys' : Fresh(hits'[k], read[h]) # {}
          \/ Cardinality(TrackedKeys \ TrackedKeys') >= Batch]_limiter

=============================================================================
