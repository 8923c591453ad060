----------------------------- MODULE RateLimiter -----------------------------
(***************************************************************************)
(* RateLimiter.hpp: RateLimiter::aquire called by the sessions of several  *)
(* connection threads, with Bucket::aquire inlined.  Durations are counted *)
(* in ticks: a token costs Cost ticks (1 / _rate) and a full bucket is     *)
(* worth Burst ticks (_burst_size / _rate), so tokens, _zero_time and now  *)
(* are all times; rounding of the doubles is left out.                     *)
(***************************************************************************)
EXTENDS Integers, Sequences, SharedMutex

CONSTANTS
    Keys,       \* address and request type
    Cost,
    Burst,
    MaxClock    \* bound: the clock stops here

ASSUME LimiterAssumption ==
    /\ Cost \in Nat \ {0}
    /\ Burst \in Nat
    /\ MaxClock \in Nat

VARIABLES
    clock,               \* steady_clock
    _key_to_bucket_mu,
    _key_to_bucket,      \* keys that have a bucket
    _zero_time,          \* of each key's bucket
    pc,
    key,                 \* argument of the thread's call
    now,                 \* time the thread passes to Bucket::aquire
    zero_time_old,
    log,                 \* history: times at which each key was granted
    made                 \* history: how often a bucket was put in the map

threadVars == <<pc, key, now, zero_time_old>>
bucketVars == <<_key_to_bucket, _zero_time, made>>
limiterVars == <<clock, _key_to_bucket_mu, bucketVars, threadVars, log>>

Times == 0 .. MaxClock

LimiterInit ==
    /\ clock \in Times
    /\ _key_to_bucket_mu = Unlocked
    /\ _key_to_bucket = {}
    /\ _zero_time = [k \in Keys |-> 0]
    /\ pc = [t \in Threads |-> "idle"]
    /\ key \in [Threads -> Keys]
    /\ now = [t \in Threads |-> 0]
    /\ zero_time_old = [t \in Threads |-> 0]
    /\ log = [k \in Keys |-> <<>>]
    /\ made = [k \in Keys |-> 0]

Goto(t, label) == pc' = [pc EXCEPT ![t] = label]

Tick ==
    /\ clock < MaxClock
    /\ clock' = clock + 1
    /\ UNCHANGED <<_key_to_bucket_mu, bucketVars, threadVars, log>>

Call(t) ==
    /\ pc[t] = "idle"
    /\ \E k \in Keys : key' = [key EXCEPT ![t] = k]
    /\ Goto(t, "lock")
    /\ UNCHANGED <<clock, _key_to_bucket_mu, bucketVars, now, zero_time_old,
                   log>>

-----------------------------------------------------------------------------
(* RateLimiter::aquire                                                     *)

\* Mutant: the lookup runs without the lock.
Lock_NotTaken(t) ==
    /\ pc[t] = "lock"
    /\ Goto(t, "find")
    /\ UNCHANGED <<clock, _key_to_bucket_mu, bucketVars, key, now,
                   zero_time_old, log>>

Lock(t) ==
    /\ pc[t] = "lock"
    /\ CanLockUpgrade(_key_to_bucket_mu)
    /\ _key_to_bucket_mu' = LockUpgrade(_key_to_bucket_mu, t)
    /\ Goto(t, "find")
    /\ UNCHANGED <<clock, bucketVars, key, now, zero_time_old, log>>

\* now() is evaluated here, before Bucket::aquire loads _zero_time.
Find(t) ==
    /\ pc[t] = "find"
    /\ IF key[t] \in _key_to_bucket
       THEN now' = [now EXCEPT ![t] = clock] /\ Goto(t, "load")
       ELSE Goto(t, "upgrade") /\ UNCHANGED now
    /\ UNCHANGED <<clock, _key_to_bucket_mu, bucketVars, key, zero_time_old,
                   log>>

Upgrade(t) ==
    /\ pc[t] = "upgrade"
    /\ CanUpgradeToUnique(_key_to_bucket_mu)
    /\ _key_to_bucket_mu' = UpgradeToUnique(_key_to_bucket_mu, t)
    /\ Goto(t, "insert")
    /\ UNCHANGED <<clock, bucketVars, key, now, zero_time_old, log>>

\* A new bucket starts at time zero and the call is granted without a token,
\* now; leaving the block turns the exclusive lock back into the upgrade lock.
Insert(t) ==
    /\ pc[t] = "insert"
    /\ _key_to_bucket' = _key_to_bucket \cup {key[t]}
    /\ _zero_time' = [_zero_time EXCEPT ![key[t]] = 0]
    /\ log' = [log EXCEPT ![key[t]] = Append(@, clock)]
    /\ made' = [made EXCEPT ![key[t]] = @ + 1]
    /\ _key_to_bucket_mu' = UniqueToUpgrade(_key_to_bucket_mu, t)
    /\ Goto(t, "unlock")
    /\ UNCHANGED <<clock, key, now, zero_time_old>>

\* Mutant: the upgrade lock is leaked.
Unlock_Forgotten(t) ==
    /\ pc[t] = "unlock"
    /\ Goto(t, "idle")
    /\ UNCHANGED <<clock, _key_to_bucket_mu, bucketVars, key, now,
                   zero_time_old, log>>

\* The locals of the call go out of scope.
Unlock(t) ==
    /\ pc[t] = "unlock"
    /\ _key_to_bucket_mu' = UnlockUpgrade(_key_to_bucket_mu)
    /\ now' = [now EXCEPT ![t] = 0]
    /\ zero_time_old' = [zero_time_old EXCEPT ![t] = 0]
    /\ Goto(t, "idle")
    /\ UNCHANGED <<clock, bucketVars, key, log>>

-----------------------------------------------------------------------------
(* Bucket::aquire                                                          *)

Load(t) ==
    /\ pc[t] = "load"
    /\ zero_time_old' = [zero_time_old EXCEPT ![t] = _zero_time[key[t]]]
    /\ Goto(t, "test")
    /\ UNCHANGED <<clock, _key_to_bucket_mu, bucketVars, key, now, log>>

\* Mutant: the bucket has no size.
Tokens_Uncapped(t) == now[t] - zero_time_old[t]

Tokens(t) ==
    LET saved == now[t] - zero_time_old[t]
    IN  IF saved < Burst THEN saved ELSE Burst

zero_time_new(t) == now[t] - (Tokens(t) - Cost)

\* Mutants: a last whole token is not given out; nobody is refused.
Test_KeepsLastToken(t) ==
    /\ pc[t] = "test"
    /\ IF Tokens(t) <= Cost
       THEN Goto(t, "unlock")
       ELSE Goto(t, "cas")
    /\ UNCHANGED <<clock, _key_to_bucket_mu, bucketVars, key, now,
                   zero_time_old, log>>

Test_NeverRefuses(t) ==
    /\ pc[t] = "test"
    /\ Goto(t, "cas")
    /\ UNCHANGED <<clock, _key_to_bucket_mu, bucketVars, key, now,
                   zero_time_old, log>>

Test(t) ==
    /\ pc[t] = "test"
    /\ IF Tokens(t) < Cost
       THEN Goto(t, "unlock")
       ELSE Goto(t, "cas")
    /\ UNCHANGED <<clock, _key_to_bucket_mu, bucketVars, key, now,
                   zero_time_old, log>>

Cas(t) ==
    /\ pc[t] = "cas"
    /\ _zero_time[key[t]] = zero_time_old[t]
    /\ _zero_time' = [_zero_time EXCEPT ![key[t]] = zero_time_new(t)]
    /\ log' = [log EXCEPT ![key[t]] = Append(@, now[t])]
    /\ Goto(t, "unlock")
    /\ UNCHANGED <<clock, _key_to_bucket_mu, _key_to_bucket, made, key, now,
                   zero_time_old>>

\* compare_exchange_weak may fail without cause; it then loads _zero_time.
CasFails(t) ==
    /\ pc[t] = "cas"
    /\ zero_time_old' = [zero_time_old EXCEPT ![t] = _zero_time[key[t]]]
    /\ Goto(t, "test")
    /\ UNCHANGED <<clock, _key_to_bucket_mu, bucketVars, key, now, log>>

Step(t) ==
    \/ Lock(t) \/ Find(t) \/ Upgrade(t) \/ Insert(t) \/ Unlock(t)
    \/ Load(t) \/ Test(t) \/ Cas(t) \/ CasFails(t)

LimiterNext == Tick \/ \E t \in Threads : Call(t) \/ Step(t)

LimiterSpec == LimiterInit /\ [][LimiterNext]_limiterVars

\* A thread inside aquire is scheduled; a mutex that keeps becoming free is
\* won in the end, and a weak exchange does not fail for ever.
Fairness ==
    \A t \in Threads :
        /\ WF_limiterVars(Step(t))
        /\ SF_limiterVars(Lock(t))
        /\ SF_limiterVars(Cas(t))

LimiterFairSpec == LimiterSpec /\ Fairness

-----------------------------------------------------------------------------
(* Properties                                                              *)

Inside == {"find", "upgrade", "insert", "load", "test", "cas", "unlock"}

\* Every variable has its type; no bucket is ahead of the clock, so nobody
\* can be made to wait for more than a full refill.
LimiterTypeOK ==
    /\ clock \in Times
    /\ _key_to_bucket_mu \in SharedMutexState
    /\ _key_to_bucket \subseteq Keys
    /\ _zero_time \in [Keys -> Times]
    /\ \A k \in Keys : _zero_time[k] <= clock
    /\ pc \in [Threads -> Inside \cup {"idle", "lock"}]
    /\ key \in [Threads -> Keys]
    /\ now \in [Threads -> Times]
    /\ zero_time_old \in [Threads -> Times]
    /\ log \in [Keys -> Seq(Times)]
    /\ made \in [Keys -> Nat]

\* A key's first call is granted without a token.
FreeTokens(i) == IF i = 1 THEN 1 ELSE 0

\* In no window between two grants of a key are there more grants than its
\* burst and the rate allow, and one more where the window starts with the
\* key's first call, however the calls of the threads interleave.
WindowBound ==
    \A k \in Keys : \A i, j \in DOMAIN log[k] :
        i <= j => (j - i + 1 - FreeTokens(i)) * Cost
                     <= Burst + log[k][j] - log[k][i]

\* A key's bucket is made once: a second one would start full and hand out
\* the burst again.
OneBucketPerKey == \A k \in Keys : made[k] <= 1

\* Between its reading of the clock and its decision.
Deciding == {"load", "test", "cas"}

AskedBy(t) == IF pc[t] \in Deciding THEN <<key[t], now[t]>> ELSE <<>>
Asked == [t \in Threads |-> AskedBy(t)]

\* The buckets, the lock and the exchange loop together do what the sliding
\* window promises: a call is granted exactly when it fits at the time it read.
Window == INSTANCE WindowLimiter WITH known <- _key_to_bucket, asked <- Asked
ImplementsWindowLimiter == Window!Spec

\* A session is never left waiting in aquire.
CallReturns == \A t \in Threads : pc[t] = "lock" ~> pc[t] = "idle"
=============================================================================
