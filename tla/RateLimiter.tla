----------------------------- MODULE RateLimiter ------------------------------
(***************************************************************************)
(* One shard of the token-bucket rate limiter (rate_limit.rs), behind its  *)
(* lock: free allowances, payment verification attempts and redirects.     *)
(* Credit is fixed point, TOKEN units a request; a unit of time refills    *)
(* per_second units.  Idle full buckets are swept, live ones never are.    *)
(***************************************************************************)
EXTENDS Integers, FiniteSets

CONSTANTS
  ClientKeys,         \* canonical client keys of the shard
  TOKEN,              \* 10^9
  burst, per_second,  \* Limit
  IDLE,               \* sweep period and minimum idle time
  CLIENTS_PER_SHARD,
  MaxTime             \* bound: the last tick

ASSUME LimitConstants ==
  /\ {TOKEN, burst, per_second, IDLE, CLIENTS_PER_SHARD} \subseteq Nat \ {0}
  /\ MaxTime \in Nat

VARIABLES
  now,      \* monotonic clock, read under the lock
  buckets,  \* clients with a bucket
  credit,   \* credit of each bucket
  updated,  \* and when it was computed
  swept,    \* time of the last sweep
  since,    \* history: start of the window being observed
  admitted, \* history: requests of each client admitted since then
  promise   \* history: when a refused client was told to come back, or Never

limiter == <<now, buckets, credit, updated, swept, since, admitted, promise>>

Never == MaxTime + TOKEN + 1
capacity == burst * TOKEN
Least(a, b) == IF a <= b THEN a ELSE b

LimiterInit ==
  /\ now = 0
  /\ buckets = {}
  /\ credit = [c \in ClientKeys |-> capacity]
  /\ updated = [c \in ClientKeys |-> 0]
  /\ swept = 0
  /\ since = 0
  /\ admitted = [c \in ClientKeys |-> 0]
  /\ promise = [c \in ClientKeys |-> Never]

Tick ==
  /\ now < MaxTime
  /\ now' = now + 1
  /\ UNCHANGED <<buckets, credit, updated, swept, since, admitted, promise>>

\* A window of observation may start at any time.
Observe ==
  /\ since' = now
  /\ admitted' = [c \in ClientKeys |-> 0]
  /\ UNCHANGED <<now, buckets, credit, updated, swept, promise>>

refilled(c) == Least(credit[c] + (now - updated[c]) * per_second, capacity)

\* Mutant: idle buckets are swept whether they are full or not.
RetainedBusy ==
  {c \in buckets : now - swept < IDLE \/ now - updated[c] < IDLE}

\* Once per IDLE, buckets idle that long and full again are dropped.
RetainedBuckets ==
  {c \in buckets : \/ now - swept < IDLE
                   \/ now - updated[c] < IDLE
                   \/ refilled(c) < capacity}

\* A client has a bucket, or there is room for one.
HasRoom(c) == c \in RetainedBuckets \/ Cardinality(RetainedBuckets) < CLIENTS_PER_SHARD

\* Credit the client's bucket has once it is refilled, or new and full.
Available(c) == IF c \in RetainedBuckets THEN refilled(c) ELSE capacity

\* Mutant: the wait is rounded down.
WaitFloor(missing) == missing \div per_second

\* The wait is rounded up.
Wait(missing) == (missing + per_second - 1) \div per_second

Sweep == swept' = IF now - swept >= IDLE THEN now ELSE swept

Admit(c) ==
  /\ HasRoom(c) /\ Available(c) >= TOKEN
  /\ Sweep
  /\ buckets' = RetainedBuckets \union {c}
  /\ credit' = [credit EXCEPT ![c] = Available(c) - TOKEN]
  /\ updated' = [updated EXCEPT ![c] = now]
  /\ admitted' = [admitted EXCEPT ![c] = @ + 1]
  /\ promise' = [promise EXCEPT ![c] = Never]
  /\ UNCHANGED <<now, since>>

Refuse(c) ==
  /\ HasRoom(c) /\ Available(c) < TOKEN
  /\ Sweep
  /\ buckets' = RetainedBuckets \union {c}
  /\ credit' = [credit EXCEPT ![c] = Available(c)]
  /\ updated' = [updated EXCEPT ![c] = now]
  /\ promise' = [promise EXCEPT ![c] = now + Wait(TOKEN - Available(c))]
  /\ UNCHANGED <<now, since, admitted>>

\* The shard is full: no bucket is evicted for a new client.
RefuseFull(c) ==
  /\ ~HasRoom(c)
  /\ Sweep
  /\ buckets' = RetainedBuckets
  /\ UNCHANGED <<now, credit, updated, since, admitted, promise>>

LimiterNext == Tick \/ Observe \/ \E c \in ClientKeys : Admit(c) \/ Refuse(c) \/ RefuseFull(c)

LimiterSpec == LimiterInit /\ [][LimiterNext]_limiter

-----------------------------------------------------------------------------
(* Correctness.                                                             *)

\* Credit stays within the burst, clocks in the past, the shard in its bound.
LimiterTypeOK ==
  /\ now \in 0 .. MaxTime
  /\ buckets \subseteq ClientKeys /\ Cardinality(buckets) <= CLIENTS_PER_SHARD
  /\ credit \in [ClientKeys -> 0 .. capacity]
  /\ updated \in [ClientKeys -> 0 .. now]
  /\ swept \in 0 .. now /\ since \in 0 .. now
  /\ admitted \in [ClientKeys -> Nat]
  /\ promise \in [ClientKeys -> Nat]

\* Over any window of time a client is admitted at most its burst plus what
\* the window refills, whatever is swept, refused or full in between.
AllowanceBound ==
  \A c \in ClientKeys :
    admitted[c] * TOKEN <= capacity + (now - since) * per_second

\* A client that waits as long as it was told (the Retry-After it is sent) is
\* not refused for want of credit.
PromiseKept == [][\A c \in ClientKeys : Refuse(c) => now < promise[c]]_limiter
===============================================================================
