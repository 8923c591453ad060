---------------------------- MODULE WindowLimiter ----------------------------
(***************************************************************************)
(* What the rate limiter promises, without buckets, locks or atomics.  The *)
(* first call for a key is granted for free.  After that a call that asks  *)
(* at time t is granted exactly when every window that ends at t would     *)
(* still hold no more grants, the free one not counted, than the burst and *)
(* the rate allow.  Time is counted so that one token takes Cost ticks to  *)
(* come back (Cost is 1 / rate) and a full bucket is worth Burst ticks     *)
(* (Burst is burst_size / rate).                                           *)
(***************************************************************************)
EXTENDS Integers, Sequences

CONSTANTS Threads, Keys, Cost, Burst, MaxClock

VARIABLES
    clock,     \* steady_clock
    known,     \* keys that have called
    log,       \* per key: the times at which it was granted
    asked      \* per thread: key and time of a call not yet decided, or <<>>

vars == <<clock, known, log, asked>>

\* Granting key k at time t keeps every window [log[k][i], t] within Burst,
\* and the window since the clock's zero within the rate; log[k][1] is free.
Fits(k, t) ==
    LET n == Len(log[k])
    IN  /\ Cost <= Burst
        /\ n * Cost <= t
        /\ \A i \in 2 .. n : (n - i + 2) * Cost <= Burst + t - log[k][i]

Init ==
    /\ clock \in 0 .. MaxClock
    /\ known = {}
    /\ log = [k \in Keys |-> <<>>]
    /\ asked = [c \in Threads |-> <<>>]

Tick ==
    /\ clock < MaxClock
    /\ clock' = clock + 1
    /\ UNCHANGED <<known, log, asked>>

FirstCall(k) ==
    /\ k \notin known
    /\ known' = known \cup {k}
    /\ log' = [log EXCEPT ![k] = Append(@, clock)]
    /\ UNCHANGED <<clock, asked>>

Ask(c, k) ==
    /\ k \in known
    /\ asked[c] = <<>>
    /\ asked' = [asked EXCEPT ![c] = <<k, clock>>]
    /\ UNCHANGED <<clock, known, log>>

Grant(c, k, t) ==
    /\ asked[c] = <<k, t>>
    /\ Fits(k, t)
    /\ log' = [log EXCEPT ![k] = Append(@, t)]
    /\ asked' = [asked EXCEPT ![c] = <<>>]
    /\ UNCHANGED <<clock, known>>

Refuse(c, k, t) ==
    /\ asked[c] = <<k, t>>
    /\ ~Fits(k, t)
    /\ asked' = [asked EXCEPT ![c] = <<>>]
    /\ UNCHANGED <<clock, known, log>>

Next ==
    \/ Tick
    \/ \E k \in Keys : FirstCall(k)
    \/ \E c \in Threads, k \in Keys :
         Ask(c, k) \/ \E t \in 0 .. clock : Grant(c, k, t) \/ Refuse(c, k, t)

Spec == Init /\ [][Next]_vars
=============================================================================
