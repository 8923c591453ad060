----------------------------- MODULE SharedMutex -----------------------------
(***************************************************************************)
(* boost::shared_mutex as Wallet and RateLimiter use it: shared owners     *)
(* (shared_lock), at most one upgrade owner beside them (upgrade_lock),    *)
(* and the upgrade owner turned exclusive (upgrade_to_unique_lock).        *)
(*                                                                         *)
(* unlock_upgrade_and_lock waits for the shared owners to leave but does   *)
(* not keep new ones out, so an upgrade may wait for ever under readers.   *)
(* An operator maps a state of the mutex to the next; its Can... guard     *)
(* says when the call returns.                                             *)
(***************************************************************************)
CONSTANTS
    Threads,     \* threads that take the mutex
    Nobody       \* owner of an upgrade or exclusive lock nobody holds

ASSUME NobodyAssumption == Nobody \notin Threads

SharedMutexState ==
    [shared : SUBSET Threads,
     upgrade : Threads \cup {Nobody},
     exclusive : Threads \cup {Nobody}]

Unlocked == [shared |-> {}, upgrade |-> Nobody, exclusive |-> Nobody]

CanLockShared(mu)  == mu.exclusive = Nobody
LockShared(mu, t)  == [mu EXCEPT !.shared = @ \cup {t}]
UnlockShared(mu, t) == [mu EXCEPT !.shared = @ \ {t}]

CanLockUpgrade(mu)  == mu.exclusive = Nobody /\ mu.upgrade = Nobody
LockUpgrade(mu, t)  == [mu EXCEPT !.upgrade = t]
UnlockUpgrade(mu)   == [mu EXCEPT !.upgrade = Nobody]

CanUpgradeToUnique(mu)   == mu.shared = {}
UpgradeToUnique(mu, t)   == [mu EXCEPT !.upgrade = Nobody, !.exclusive = t]
UniqueToUpgrade(mu, t)   == [mu EXCEPT !.upgrade = t, !.exclusive = Nobody]

\* No two owners that exclude one another.
Excludes(mu) ==
    mu.exclusive # Nobody => mu.shared = {} /\ mu.upgrade = Nobody
=============================================================================
