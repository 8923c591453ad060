------------------------- MODULE Connection_proofs --------------------------
(***************************************************************************)
(* Machine-checked proofs about what a miner's connection goes through:    *)
(* the rate limiter that admits its request, for any number of threads and *)
(* keys, any burst and any cost of a token, and the session that answers   *)
(* it, for any number of connections, validator threads and lanes.         *)
(***************************************************************************)
EXTENDS RateLimiter, Session, SequenceTheorems, TLAPS

-----------------------------------------------------------------------------
(* The rate limiter                                                        *)

\* The upgrade lock, and its exclusive form while a bucket is inserted,
\* keeps all but one thread out of aquire.
LockHeld ==
    /\ _key_to_bucket_mu.shared = {}
    /\ \A t \in Threads : pc[t] \in Inside \ {"insert"} =>
          _key_to_bucket_mu.upgrade = t
    /\ \A t \in Threads : pc[t] = "insert" => _key_to_bucket_mu.exclusive = t
    /\ _key_to_bucket_mu.exclusive # Nobody => _key_to_bucket_mu.upgrade = Nobody

\* What the holder of the lock has looked up and read is still true.
LocalsCurrent ==
    /\ \A t \in Threads : pc[t] \in {"upgrade", "insert"} => key[t] \notin _key_to_bucket
    /\ \A t \in Threads : pc[t] \in Deciding => key[t] \in _key_to_bucket
    /\ \A t \in Threads : pc[t] \in Deciding => now[t] <= clock
    /\ \A t \in Threads : pc[t] \in {"test", "cas"} =>
          zero_time_old[t] = _zero_time[key[t]]
    /\ \A t \in Threads : pc[t] = "cas" => Cost <= Tokens(t)

\* Ticks it takes to earn m tokens.
Owed(m) == m * Cost

\* z is the least zero time that explains the grants at the times in s.
Exact(s, z) ==
    LET n == Len(s)
    IN  /\ Owed(n) <= z
        /\ \A i \in 1 .. n : s[i] - Burst + Owed(n - i + 1) <= z
        /\ \/ z = Owed(n)
           \/ \E i \in 1 .. n : z = s[i] - Burst + Owed(n - i + 1)

\* The grants a token paid for: all but the first.
Paid(s) == [i \in 1 .. Len(s) - 1 |-> s[i + 1]]

ZeroTimeExact(k) == Exact(Paid(log[k]), _zero_time[k])

\* WindowBound for the paid grants of one key.
Bounded(s) ==
    \A i, j \in DOMAIN s : i <= j => Owed(j - i + 1) <= Burst + s[j] - s[i]

\* Window!Fits for the paid grants of one key: one more at time x is within
\* bounds.
Room(s, x) ==
    LET n == Len(s)
    IN  /\ Cost <= Burst
        /\ Owed(n + 1) <= x
        /\ \A i \in 1 .. n : Owed(n - i + 2) <= Burst + x - s[i]

NewKeysUntouched ==
    \A k \in Keys : IF k \in _key_to_bucket
                    THEN made[k] = 1 /\ log[k] # <<>>
                    ELSE made[k] = 0 /\ log[k] = <<>> /\ _zero_time[k] = 0

\* Nothing was granted, and no deciding call read the clock, before the free
\* grant.
Began(s, x) == s[1] <= x

FirstIsEarliest ==
    /\ \A k \in _key_to_bucket : Began(log[k], clock)
    /\ \A k \in _key_to_bucket : \A i \in DOMAIN log[k] : Began(log[k], log[k][i])
    /\ \A t \in Threads : pc[t] \in Deciding => Began(log[key[t]], now[t])

LimiterInv ==
    /\ LimiterTypeOK
    /\ LockHeld
    /\ LocalsCurrent
    /\ \A k \in Keys : ZeroTimeExact(k) /\ Bounded(Paid(log[k]))
    /\ NewKeysUntouched
    /\ FirstIsEarliest

-----------------------------------------------------------------------------
(* Arithmetic of windows, for any sequence of grant times.                 *)

LEMMA OwedStep ==
    /\ Owed(0) = 0 /\ Owed(1) = Cost
    /\ \A m \in Int : Owed(m) \in Int /\ Owed(m + 1) = Owed(m) + Cost
BY LimiterAssumption DEF Owed

\* The exact zero time says precisely whether one more grant has room.
LEMMA ExactRoom ==
    ASSUME NEW s \in Seq(Nat), NEW z \in Nat, NEW x \in Nat, Exact(s, z)
    PROVE  Room(s, x) <=> Cost <= Burst /\ z + Cost <= x
<1> DEFINE n == Len(s)
<1>0. Cost \in Int /\ Burst \in Int /\ x \in Int /\ z \in Int
  BY LimiterAssumption
<1>1. n \in Nat /\ Cost \in Nat /\ Burst \in Nat /\ \A i \in 1 .. n : s[i] \in Nat
  BY LimiterAssumption
<1>2. Owed(n) \in Int /\ Owed(n + 1) = Owed(n) + Cost
  BY <1>1, OwedStep
<1>3. ASSUME NEW i \in 1 .. n
      PROVE  Owed(n - i + 1) \in Int /\ Owed(n - i + 2) = Owed(n - i + 1) + Cost
  <2>1. n - i + 1 \in Int /\ n - i + 2 = (n - i + 1) + 1
    BY <1>1
  <2> QED BY <2>1, OwedStep
<1>4. ASSUME Cost <= Burst, z + Cost <= x PROVE Room(s, x)
  <2>1. Owed(n + 1) <= x
    BY <1>1, <1>2, <1>4 DEF Exact
  <2>2. ASSUME NEW i \in 1 .. n PROVE Owed(n - i + 2) <= Burst + x - s[i]
    <3>1. s[i] - Burst + Owed(n - i + 1) <= z
      BY DEF Exact
    <3>2. s[i] \in Nat /\ Owed(n - i + 1) \in Int
      BY <1>1, <1>3
    <3> DEFINE o == Owed(n - i + 1)
    <3> DEFINE e == s[i]
    <3>4. e - Burst + o <= z /\ e \in Int /\ o \in Int
      BY <3>1, <3>2
    <3> HIDE DEF o, e
    <3>5. o + Cost <= Burst + x - e
      BY <1>0, <1>4, <3>4
    <3>3. Owed(n - i + 1) + Cost <= Burst + x - s[i]
      BY <3>5 DEF o, e
    <3> QED BY <1>3, <3>3
  <2> QED BY <1>4, <2>1, <2>2 DEF Room
<1>5. ASSUME Room(s, x) PROVE Cost <= Burst /\ z + Cost <= x
  <2>1. CASE z = Owed(n)
    BY <1>1, <1>2, <1>5, <2>1 DEF Room
  <2>2. ASSUME NEW i \in 1 .. n, z = s[i] - Burst + Owed(n - i + 1)
        PROVE  Cost <= Burst /\ z + Cost <= x
    <3>1. Owed(n - i + 2) <= Burst + x - s[i] /\ Cost <= Burst
      BY <1>5 DEF Room
    <3>2. s[i] \in Nat /\ Owed(n - i + 1) \in Int
      BY <1>1, <1>3
    <3>3. Owed(n - i + 1) + Cost <= Burst + x - s[i]
      BY <1>3, <3>1
    <3> DEFINE o == Owed(n - i + 1)
    <3> DEFINE e == s[i]
    <3>4. z = e - Burst + o /\ o + Cost <= Burst + x - e /\ e \in Int /\ o \in Int
      BY <2>2, <3>2, <3>3, SMTT(30)
    <3> HIDE DEF o, e
    <3>5. z + Cost <= x
      BY <1>0, <3>4
    <3> QED BY <3>1, <3>5
  <2> QED BY <2>1, <2>2 DEF Exact
<1> QED BY <1>4, <1>5

\* A grant at x moves the exact zero time to the greater of z and x - Burst,
\* plus one token.
LEMMA ExactAppend ==
    ASSUME NEW s \in Seq(Nat), NEW z \in Nat, NEW x \in Nat, NEW y \in Nat,
           Exact(s, z), z + Cost <= y, x - Burst + Cost <= y,
           y = z + Cost \/ y = x - Burst + Cost
    PROVE  Exact(Append(s, x), y)
<1> DEFINE n == Len(s)
<1> DEFINE r == Append(s, x)
<1>1. n \in Nat /\ Cost \in Nat /\ Burst \in Nat /\ \A i \in 1 .. n : s[i] \in Nat
  BY LimiterAssumption
<1>2. /\ Len(r) = n + 1
      /\ \A i \in 1 .. n : r[i] = s[i]
      /\ r[n + 1] = x
  BY AppendProperties
<1>3. Owed(n) \in Int /\ Owed(n + 1) = Owed(n) + Cost
  BY <1>1, OwedStep
<1>4. ASSUME NEW i \in 1 .. n
      PROVE  /\ Owed(n - i + 1) \in Int
             /\ Owed((n + 1) - i + 1) = Owed(n - i + 1) + Cost
  <2>1. n - i + 1 \in Int /\ (n + 1) - i + 1 = (n - i + 1) + 1
    BY <1>1
  <2> QED BY <2>1, OwedStep
<1>5. Owed((n + 1) - (n + 1) + 1) = Cost
  <2>1. (n + 1) - (n + 1) + 1 = 1
    BY <1>1
  <2> QED BY <2>1, OwedStep
<1> HIDE DEF r, n
<1>6. Owed(n + 1) <= y
  BY <1>1, <1>3 DEF Exact, n
<1>7. ASSUME NEW i \in 1 .. n + 1 PROVE r[i] - Burst + Owed((n + 1) - i + 1) <= y
  <2>1. CASE i = n + 1
    BY <1>1, <1>2, <1>5, <2>1
  <2>2. CASE i \in 1 .. n
    <3>1. s[i] - Burst + Owed(n - i + 1) <= z
      BY <2>2 DEF Exact, n
    <3>2. s[i] \in Nat /\ Owed(n - i + 1) \in Int /\ r[i] = s[i]
      BY <1>1, <1>2, <1>4, <2>2
    <3> DEFINE o == Owed(n - i + 1)
    <3> DEFINE e == s[i]
    <3>4. e - Burst + o <= z /\ e \in Int /\ o \in Int
      BY <3>1, <3>2
    <3> HIDE DEF o, e
    <3>5. e - Burst + (o + Cost) <= y
      BY <3>4, LimiterAssumption
    <3>3. s[i] - Burst + (Owed(n - i + 1) + Cost) <= y
      BY <3>5 DEF o, e
    <3>6. Owed((n + 1) - i + 1) = Owed(n - i + 1) + Cost /\ r[i] = s[i]
      BY <1>4, <2>2, <3>2
    <3> QED BY <3>3, <3>6
  <2> QED BY <1>1, <2>1, <2>2
<1>8. \/ y = Owed(n + 1)
      \/ \E i \in 1 .. n + 1 : y = r[i] - Burst + Owed((n + 1) - i + 1)
  <2>1. CASE y = x - Burst + Cost
    BY <1>1, <1>2, <1>5, <2>1
  <2>2. CASE y = z + Cost /\ z = Owed(n)
    BY <1>1, <1>3, <2>2
  <2>3. ASSUME NEW i \in 1 .. n, y = z + Cost, z = s[i] - Burst + Owed(n - i + 1)
        PROVE  \E h \in 1 .. n + 1 : y = r[h] - Burst + Owed((n + 1) - h + 1)
    <3>1. s[i] \in Nat /\ Owed(n - i + 1) \in Int /\ r[i] = s[i] /\ i \in 1 .. n + 1
      BY <1>1, <1>2, <1>4
    <3> DEFINE o == Owed(n - i + 1)
    <3> DEFINE e == s[i]
    <3>4. y = z + Cost /\ z = e - Burst + o /\ e \in Int /\ o \in Int
      BY <2>3, <3>1
    <3> HIDE DEF o, e
    <3>5. y = e - Burst + (o + Cost)
      BY <3>4, LimiterAssumption
    <3>2. y = s[i] - Burst + (Owed(n - i + 1) + Cost)
      BY <3>5 DEF o, e
    <3>3. y = r[i] - Burst + Owed((n + 1) - i + 1)
      BY <1>4, <3>1, <3>2
    <3> QED BY <3>1, <3>3
  <2> QED BY <2>1, <2>2, <2>3 DEF Exact, n
<1> QED BY <1>2, <1>6, <1>7, <1>8 DEF Exact, r

\* A grant that has room keeps every window within its bound.
LEMMA BoundedAppend ==
    ASSUME NEW s \in Seq(Nat), NEW x \in Nat, Bounded(s), Room(s, x)
    PROVE  Bounded(Append(s, x))
<1> DEFINE n == Len(s)
<1> DEFINE r == Append(s, x)
<1>1. n \in Nat /\ Cost \in Nat /\ Burst \in Nat
  BY LimiterAssumption
<1>2. /\ r \in Seq(Nat) /\ Len(r) = n + 1
      /\ \A i \in 1 .. n : r[i] = s[i]
      /\ r[n + 1] = x
      /\ DOMAIN s = 1 .. n
  BY AppendProperties, LenProperties
<1>3. DOMAIN r = 1 .. n + 1
  BY <1>2, LenProperties
<1> HIDE DEF r, n
<1> SUFFICES ASSUME NEW i \in 1 .. n + 1, NEW j \in 1 .. n + 1, i <= j
             PROVE  Owed(j - i + 1) <= Burst + r[j] - r[i]
  BY <1>3 DEF Bounded, r
<1>4. CASE j \in 1 .. n
  <2>1. i \in 1 .. n
    BY <1>1, <1>4
  <2> QED BY <1>2, <1>4, <2>1 DEF Bounded
<1>5. CASE j = n + 1 /\ i \in 1 .. n
  <2>1. j - i + 1 = n - i + 2
    BY <1>1, <1>5
  <2> QED BY <1>2, <1>5, <2>1 DEF Room, n
<1>6. CASE j = n + 1 /\ i = n + 1
  <2>1. j - i + 1 = 1 /\ r[j] - r[i] = 0 /\ Burst + r[j] - r[i] = Burst
    BY <1>1, <1>2, <1>6
  <2> QED BY <2>1, OwedStep DEF Room
<1> QED BY <1>1, <1>4, <1>5, <1>6

\* The paid grants of a sequence that begins with a free one.
LEMMA PaidProperties ==
    ASSUME NEW s \in Seq(Nat), s # <<>>, NEW x \in Nat
    PROVE  /\ Paid(s) \in Seq(Nat)
           /\ Len(Paid(s)) = Len(s) - 1
           /\ \A i \in 1 .. Len(s) - 1 : Paid(s)[i] = s[i + 1]
           /\ Paid(Append(s, x)) = Append(Paid(s), x)
<1> DEFINE n == Len(s)
<1>1. n \in Nat \ {0} /\ \A i \in 1 .. n : s[i] \in Nat
  BY EmptySeq, LenProperties
<1>2. /\ Len(Append(s, x)) = n + 1
      /\ \A i \in 1 .. n : Append(s, x)[i] = s[i]
      /\ Append(s, x)[n + 1] = x
  BY AppendProperties
<1>3. n - 1 \in Nat /\ \A i \in 1 .. n - 1 : i + 1 \in 1 .. n
  BY <1>1
<1> HIDE DEF n
<1>4. Paid(s) = [i \in 1 .. n - 1 |-> s[i + 1]]
  BY DEF Paid, n
<1>5. Paid(s) \in Seq(Nat) /\ Len(Paid(s)) = n - 1
  <2>1. Paid(s) \in [1 .. n - 1 -> Nat]
    BY <1>1, <1>3, <1>4
  <2> QED BY <1>3, <2>1, SeqDef, LenProperties
<1>6. Paid(Append(s, x)) = Append(Paid(s), x)
  <2>1. Paid(Append(s, x)) = [i \in 1 .. n |-> Append(s, x)[i + 1]]
    BY <1>1, <1>2 DEF Paid
  <2>2. /\ Append(Paid(s), x) \in Seq(Nat)
        /\ Len(Append(Paid(s), x)) = n
        /\ \A i \in 1 .. n - 1 : Append(Paid(s), x)[i] = s[i + 1]
        /\ Append(Paid(s), x)[n] = x
    BY <1>1, <1>3, <1>4, <1>5, AppendProperties
  <2>3. Append(Paid(s), x) = [i \in 1 .. n |-> Append(Paid(s), x)[i]]
    BY <2>2, LenProperties
  <2>4. ASSUME NEW i \in 1 .. n PROVE Append(s, x)[i + 1] = Append(Paid(s), x)[i]
    <3>1. CASE i = n
      BY <1>2, <2>2, <3>1
    <3>2. CASE i \in 1 .. n - 1
      BY <1>2, <1>3, <2>2, <3>2
    <3>3. n \in Int
      BY <1>1
    <3>4. i = n \/ i \in 1 .. n - 1
      BY ONLY <3>3, i \in 1 .. n
    <3> QED BY <3>1, <3>2, <3>4
  <2> QED BY <2>1, <2>3, <2>4
<1> QED BY <1>4, <1>5, <1>6 DEF n

\* The bound on all grants of a key, from the one on the paid grants.
LEMMA BoundedAll ==
    ASSUME NEW s \in Seq(Nat), s # <<>>, Bounded(Paid(s)),
           \A h \in 1 .. Len(s) : Began(s, s[h]),
           NEW i \in 1 .. Len(s), NEW j \in 1 .. Len(s), i <= j
    PROVE  Owed(j - i + 1 - FreeTokens(i)) <= Burst + s[j] - s[i]
<1> DEFINE n == Len(s)
<1>1. n \in Nat \ {0} /\ s[i] \in Nat /\ s[j] \in Nat /\ Burst \in Nat
  BY EmptySeq, LenProperties, LimiterAssumption
<1>2. Paid(s) \in Seq(Nat) /\ Len(Paid(s)) = n - 1
      /\ \A h \in 1 .. n - 1 : Paid(s)[h] = s[h + 1]
  BY PaidProperties
<1>3. DOMAIN Paid(s) = 1 .. n - 1
  BY <1>2, LenProperties
<1>4. CASE i # 1
  <2>1. i - 1 \in 1 .. n - 1 /\ j - 1 \in 1 .. n - 1 /\ i - 1 <= j - 1
        /\ (j - 1) - (i - 1) + 1 = j - i + 1 - 0
        /\ (i - 1) + 1 = i /\ (j - 1) + 1 = j
    BY <1>1, <1>4
  <2>2. Owed((j - 1) - (i - 1) + 1) <= Burst + Paid(s)[j - 1] - Paid(s)[i - 1]
    BY <1>3, <2>1 DEF Bounded
  <2> QED BY <1>2, <1>4, <2>1, <2>2 DEF FreeTokens
<1>5. CASE i = 1 /\ j = 1
  <2>1. j - i + 1 - FreeTokens(i) = 0 /\ Burst + s[j] - s[i] = Burst
    BY <1>1, <1>5 DEF FreeTokens
  <2> QED BY <1>1, <2>1, OwedStep
<1>6. CASE i = 1 /\ j # 1
  <2>1. 1 \in 1 .. n - 1 /\ j - 1 \in 1 .. n - 1 /\ 1 <= j - 1 /\ 2 \in 1 .. n
        /\ (j - 1) - 1 + 1 = j - i + 1 - 1
        /\ (j - 1) + 1 = j /\ 1 + 1 = 2
    BY <1>1, <1>6
  <2>2. Owed((j - 1) - 1 + 1) <= Burst + Paid(s)[j - 1] - Paid(s)[1]
    BY <1>3, <2>1 DEF Bounded
  <2>3. Paid(s)[j - 1] = s[j] /\ Paid(s)[1] = s[2]
    BY <1>2, <2>1
  <2>4. s[i] <= s[2] /\ s[2] \in Nat
    BY <1>6, <2>1 DEF Began
  <2>5. Owed(j - i + 1 - 1) <= Burst + s[j] - s[2] /\ Owed(j - i + 1 - 1) \in Int
    BY <2>1, <2>2, <2>3, OwedStep
  <2>7. \A owed, bound, first, next, last \in Int :
           owed <= bound + last - next /\ first <= next => owed <= bound + last - first
    BY SMT
  <2>9. Nat \subseteq Int
    OBVIOUS
  <2>8. Burst \in Int /\ s[i] \in Int /\ s[2] \in Int /\ s[j] \in Int
    BY <1>1, <2>4, <2>9, Zenon
  <2>6. Owed(j - i + 1 - 1) <= Burst + s[j] - s[i]
    BY <2>4, <2>5, <2>7, <2>8, Zenon
  <2> QED BY <1>6, <2>6 DEF FreeTokens
<1> QED BY <1>4, <1>5, <1>6

-----------------------------------------------------------------------------
LEMMA InitLimiterInv == LimiterInit => LimiterInv
<1> SUFFICES ASSUME LimiterInit PROVE LimiterInv
  OBVIOUS
<1> USE LimiterAssumption, NobodyAssumption DEF LimiterInit
<1>1. LimiterTypeOK
  <2>1. log \in [Keys -> Seq(Times)]
    OBVIOUS
  <2>2. _key_to_bucket_mu \in SharedMutexState
    BY DEF SharedMutexState, Unlocked
  <2> QED BY <2>1, <2>2 DEF LimiterTypeOK, Times
<1>2. LockHeld /\ LocalsCurrent
  BY DEF LockHeld, LocalsCurrent, Unlocked, Inside, Deciding
<1>3. ASSUME NEW k \in Keys PROVE ZeroTimeExact(k) /\ Bounded(Paid(log[k]))
  <2>1. Paid(<<>>) = <<>>
    BY DEF Paid
  <2>2. log[k] = <<>> /\ _zero_time[k] = 0
    OBVIOUS
  <2>3. Len(<<>>) = 0 /\ DOMAIN <<>> = {}
    OBVIOUS
  <2>4. Exact(<<>>, 0)
    BY <2>3, OwedStep DEF Exact
  <2>5. Bounded(<<>>)
    BY <2>3 DEF Bounded
  <2> QED BY <2>1, <2>2, <2>4, <2>5 DEF ZeroTimeExact
<1>4. NewKeysUntouched /\ FirstIsEarliest
  BY DEF NewKeysUntouched, FirstIsEarliest, Deciding
<1> QED BY <1>1, <1>2, <1>3, <1>4 DEF LimiterInv

\* Only one thread is inside aquire.
LEMMA Alone ==
    ASSUME LimiterInv, NEW t \in Threads, NEW u \in Threads,
           pc[t] \in Inside, pc[u] \in Inside
    PROVE  t = u
BY NobodyAssumption DEF LimiterInv, LockHeld, LimiterTypeOK, SharedMutexState, Inside

\* Fits and Tokens say the same: the bucket has a token at time now exactly
\* when one more grant keeps every window within its bound.
LEMMA FitsIffToken ==
    ASSUME LimiterInv, NEW t \in Threads, pc[t] \in {"test", "cas"}
    PROVE  /\ Window!Fits(key[t], now[t]) <=> Cost <= Tokens(t)
           /\ Window!Fits(key[t], now[t]) <=> Room(Paid(log[key[t]]), now[t])
<1> DEFINE k == key[t]
<1> DEFINE n == Len(log[k])
<1>1. /\ k \in Keys
      /\ now[t] \in Nat
      /\ zero_time_old[t] = _zero_time[k]
      /\ _zero_time[k] \in Nat
      /\ log[k] \in Seq(Nat)
      /\ log[k] # <<>>
  BY LimiterAssumption
  DEF LimiterInv, LimiterTypeOK, LocalsCurrent, NewKeysUntouched, Deciding, Times
<1>2. Exact(Paid(log[k]), _zero_time[k])
  BY <1>1 DEF LimiterInv, ZeroTimeExact
<1>5. /\ Paid(log[k]) \in Seq(Nat) /\ Len(Paid(log[k])) = n - 1
      /\ \A i \in 1 .. n - 1 : Paid(log[k])[i] = log[k][i + 1]
  BY <1>1, PaidProperties
<1>6. n \in Nat
  BY <1>1, LenProperties
<1>7. Window!Fits(k, now[t]) <=>
        /\ Cost <= Burst
        /\ Owed(n) <= now[t]
        /\ \A i \in 2 .. n : Owed(n - i + 2) <= Burst + now[t] - log[k][i]
  BY DEF Window!Fits, Owed
<1>8. Room(Paid(log[k]), now[t]) <=>
        /\ Cost <= Burst
        /\ Owed((n - 1) + 1) <= now[t]
        /\ \A i \in 1 .. n - 1 :
              Owed((n - 1) - i + 2) <= Burst + now[t] - log[k][i + 1]
  BY <1>5 DEF Room
<1> HIDE DEF n
<1>9. (n - 1) + 1 = n
  BY <1>6
<1>10. (\A i \in 2 .. n : Owed(n - i + 2) <= Burst + now[t] - log[k][i])
         <=> (\A i \in 1 .. n - 1 :
                 Owed((n - 1) - i + 2) <= Burst + now[t] - log[k][i + 1])
  <2>1. ASSUME NEW i \in 2 .. n
        PROVE  i - 1 \in 1 .. n - 1 /\ (i - 1) + 1 = i /\ (n - 1) - (i - 1) + 2 = n - i + 2
    BY <1>6
  <2>2. ASSUME NEW i \in 1 .. n - 1
        PROVE  i + 1 \in 2 .. n /\ n - (i + 1) + 2 = (n - 1) - i + 2
    BY <1>6
  <2> QED BY <2>1, <2>2
<1>3. Window!Fits(k, now[t]) <=> Room(Paid(log[k]), now[t])
  BY <1>7, <1>8, <1>9, <1>10
<1> HIDE DEF k
<1>4. (Cost <= Tokens(t)) <=> Cost <= Burst /\ _zero_time[k] + Cost <= now[t]
  <2>1. \A z, x, b, c \in Int :
          c <= (IF x - z < b THEN x - z ELSE b) <=> c <= b /\ z + c <= x
    BY SMT
  <2>2. _zero_time[k] \in Int /\ now[t] \in Int /\ Burst \in Int /\ Cost \in Int
    BY <1>1, LimiterAssumption
  <2>3. Tokens(t) = IF now[t] - _zero_time[k] < Burst THEN now[t] - _zero_time[k] ELSE Burst
    BY <1>1 DEF Tokens, k
  <2> DEFINE saved == now[t] - _zero_time[k]
  <2>4. Cost <= (IF saved < Burst THEN saved ELSE Burst)
           <=> Cost <= Burst /\ _zero_time[k] + Cost <= now[t]
    BY <2>1, <2>2, Zenon
  <2> QED BY <2>3, <2>4
<1> QED BY <1>1, <1>2, <1>3, <1>4, <1>5, ExactRoom DEF k

-----------------------------------------------------------------------------
LEMMA MutexTypes ==
    ASSUME NEW mu \in SharedMutexState, NEW t \in Threads
    PROVE  /\ LockUpgrade(mu, t) \in SharedMutexState
           /\ UnlockUpgrade(mu) \in SharedMutexState
           /\ UpgradeToUnique(mu, t) \in SharedMutexState
           /\ UniqueToUpgrade(mu, t) \in SharedMutexState
<1> USE DEF SharedMutexState
<1>1. LockUpgrade(mu, t) \in SharedMutexState
  BY DEF LockUpgrade
<1>2. UnlockUpgrade(mu) \in SharedMutexState
  BY DEF UnlockUpgrade
<1>3. UpgradeToUnique(mu, t) \in SharedMutexState
  BY DEF UpgradeToUnique
<1>4. UniqueToUpgrade(mu, t) \in SharedMutexState
  BY DEF UniqueToUpgrade
<1> QED BY <1>1, <1>2, <1>3, <1>4

\* Steps that leave the buckets alone keep what is known about them.
LEMMA BucketsUntouched ==
    ASSUME LimiterInv, UNCHANGED <<bucketVars, log>>
    PROVE  /\ \A k \in Keys : ZeroTimeExact(k)' /\ Bounded(Paid(log'[k]))
           /\ NewKeysUntouched'
BY DEF LimiterInv, bucketVars, ZeroTimeExact, NewKeysUntouched

\* Getting in and out of aquire, and looking the key up.
LEMMA LockStep ==
    ASSUME LimiterInv, NEW t \in Threads,
           Call(t) \/ Lock(t) \/ Find(t) \/ Upgrade(t) \/ Unlock(t)
    PROVE  LimiterInv'
<1> USE LimiterAssumption, NobodyAssumption DEF threadVars, bucketVars
<1>1. UNCHANGED <<bucketVars, log, clock>>
  BY DEF Call, Lock, Find, Upgrade, Unlock
<1>2. /\ LimiterTypeOK /\ LockHeld /\ LocalsCurrent
      /\ pc \in [Threads -> Inside \cup {"idle", "lock"}]
      /\ \A u \in Threads : pc[t] \in Inside /\ pc[u] \in Inside => t = u
  BY Alone DEF LimiterInv, LimiterTypeOK
<1>8. FirstIsEarliest
  BY DEF LimiterInv
<1>3. CASE Call(t)
  <2>1. PICK k \in Keys : key' = [key EXCEPT ![t] = k]
    BY <1>3 DEF Call
  <2>2. LimiterTypeOK'
    BY <1>1, <1>2, <1>3, <2>1 DEF Call, Goto, LimiterTypeOK
  <2>3. LockHeld' /\ LocalsCurrent'
    BY <1>2, <1>3, <2>1, <1>1
    DEF Call, Goto, LimiterTypeOK, LockHeld, LocalsCurrent, Tokens, Inside, Deciding
  <2>4. FirstIsEarliest'
    BY <1>1, <1>2, <1>8, <1>3, <2>1 DEF Call, Goto, LimiterTypeOK, FirstIsEarliest, Deciding
  <2> QED BY <1>1, <2>2, <2>3, <2>4, BucketsUntouched DEF LimiterInv
<1>4. CASE Lock(t)
  <2>1. LimiterTypeOK'
    BY <1>1, <1>2, <1>4, MutexTypes DEF Lock, Goto, LimiterTypeOK, Inside
  <2>2. LockHeld'
    BY <1>2, <1>4
    DEF Lock, Goto, LimiterTypeOK, LockHeld, Inside, SharedMutexState, LockUpgrade, CanLockUpgrade
  <2>3. LocalsCurrent'
    BY <1>1, <1>2, <1>4 DEF Lock, Goto, LimiterTypeOK, LocalsCurrent, Tokens, Deciding
  <2>4. FirstIsEarliest'
    <3>1. \A u \in Threads : pc'[u] \in Deciding =>
             pc[u] \in Deciding /\ key'[u] = key[u] /\ now'[u] = now[u]
      BY <1>2, <1>4 DEF Lock, Goto, Deciding
    <3>2. UNCHANGED <<_key_to_bucket, log, clock>> /\ FirstIsEarliest
      BY <1>1, <1>8
    <3> QED BY <3>1, <3>2 DEF FirstIsEarliest
  <2> QED BY <1>1, <2>1, <2>2, <2>3, <2>4, BucketsUntouched DEF LimiterInv
<1>5. CASE Find(t)
  <2>1. LimiterTypeOK'
    <3>1. now' \in [Threads -> Times] /\ pc' \in [Threads -> Inside \cup {"idle", "lock"}]
      BY <1>2, <1>5 DEF Find, Goto, LimiterTypeOK, Inside
    <3>2. UNCHANGED <<_key_to_bucket_mu, key, zero_time_old>>
      BY <1>5 DEF Find
    <3> QED BY <1>1, <1>2, <3>1, <3>2 DEF LimiterTypeOK
  <2>2. LockHeld'
    BY <1>2, <1>5 DEF Find, Goto, LimiterTypeOK, LockHeld, Inside
  <2>3. \A u \in Threads \ {t} : pc[u] \notin Inside /\ pc'[u] = pc[u]
    BY <1>2, <1>5 DEF Find, Goto, Inside
  <2>4. \A u \in Threads : pc'[u] \in Inside =>
          /\ u = t /\ pc'[t] \in {"load", "upgrade"}
          /\ key'[t] = key[t]
          /\ pc'[t] = "load" => now'[t] = clock /\ key[t] \in _key_to_bucket
          /\ pc'[t] = "upgrade" => key[t] \notin _key_to_bucket
    BY <1>2, <1>5, <2>3 DEF Find, Goto, LimiterTypeOK, Inside
  <2>5. LocalsCurrent'
    <3>1. _key_to_bucket' = _key_to_bucket /\ clock' = clock /\ clock \in Int
      BY <1>1, <1>2 DEF LimiterTypeOK, Times
    <3>2. \A u \in Threads : pc'[u] \notin {"insert", "test", "cas"}
      BY <2>4 DEF Inside
    <3> QED BY <2>4, <3>1, <3>2 DEF LocalsCurrent, Deciding, Inside
  <2>6. FirstIsEarliest'
    BY <1>1, <1>2, <1>8, <2>4 DEF FirstIsEarliest, Deciding, Inside
  <2> QED BY <1>1, <2>1, <2>2, <2>5, <2>6, BucketsUntouched DEF LimiterInv
<1>6. CASE Upgrade(t)
  <2>1. LimiterTypeOK'
    BY <1>1, <1>2, <1>6, MutexTypes DEF Upgrade, Goto, LimiterTypeOK, Inside
  <2>2. \A u \in Threads \ {t} : pc[u] \notin Inside /\ pc'[u] = pc[u]
    BY <1>2, <1>6 DEF Upgrade, Goto, Inside
  <2>3. LockHeld'
    BY <1>2, <1>6, <2>2 DEF Upgrade, Goto, LimiterTypeOK, LockHeld, Inside, SharedMutexState,
       UpgradeToUnique
  <2>4. LocalsCurrent'
    BY <1>1, <1>2, <1>6, <2>2 DEF Upgrade, Goto, LimiterTypeOK, LocalsCurrent, Deciding, Inside
  <2>5. FirstIsEarliest'
    BY <1>1, <1>2, <1>8, <1>6, <2>2 DEF Upgrade, Goto, LimiterTypeOK, FirstIsEarliest, Deciding, Inside
  <2> QED BY <1>1, <2>1, <2>3, <2>4, <2>5, BucketsUntouched DEF LimiterInv
<1>7. CASE Unlock(t)
  <2>1. LimiterTypeOK'
    BY <1>1, <1>2, <1>7, MutexTypes DEF Unlock, Goto, LimiterTypeOK, Times
  <2>2. \A u \in Threads \ {t} : pc[u] \notin Inside /\ pc'[u] = pc[u]
    BY <1>2, <1>7 DEF Unlock, Goto, Inside
  <2>3. LockHeld'
    BY <1>2, <1>7, <2>2 DEF Unlock, Goto, LimiterTypeOK, LockHeld, Inside, SharedMutexState,
       UnlockUpgrade
  <2>4. LocalsCurrent'
    BY <1>1, <1>2, <1>7, <2>2 DEF Unlock, Goto, LimiterTypeOK, LocalsCurrent, Deciding, Inside
  <2>5. FirstIsEarliest'
    BY <1>1, <1>2, <1>8, <1>7, <2>2 DEF Unlock, Goto, LimiterTypeOK, FirstIsEarliest, Deciding, Inside
  <2> QED BY <1>1, <2>1, <2>3, <2>4, <2>5, BucketsUntouched DEF LimiterInv
<1> QED BY <1>3, <1>4, <1>5, <1>6, <1>7

\* Reading _zero_time, deciding, and a failed exchange.
LEMMA DecideStep ==
    ASSUME LimiterInv, NEW t \in Threads, Load(t) \/ Test(t) \/ CasFails(t)
    PROVE  LimiterInv'
<1> USE LimiterAssumption DEF bucketVars
<1>1. UNCHANGED <<bucketVars, log, clock, _key_to_bucket_mu, key, now>>
  BY DEF Load, Test, CasFails
<1>2. /\ LimiterTypeOK /\ LockHeld /\ LocalsCurrent /\ FirstIsEarliest
      /\ pc \in [Threads -> Inside \cup {"idle", "lock"}]
      /\ pc[t] \in Deciding
      /\ \A u \in Threads : pc[t] \in Inside /\ pc[u] \in Inside => t = u
  BY Alone DEF LimiterInv, LimiterTypeOK, Load, Test, CasFails, Deciding
<1>3. PICK label \in {"test", "cas", "unlock"} :
        /\ Goto(t, label)
        /\ label # "unlock" => key[t] \in _key_to_bucket
        /\ label = "test" => zero_time_old' = [zero_time_old EXCEPT ![t] = _zero_time[key[t]]]
        /\ label = "cas" => Cost <= Tokens(t) /\ zero_time_old' = zero_time_old
                           /\ zero_time_old[t] = _zero_time[key[t]]
        /\ label = "unlock" => zero_time_old' = zero_time_old
  <2>1. CASE Load(t)
    BY <1>2, <2>1 DEF Load, LocalsCurrent, Deciding
  <2>2. CASE CasFails(t)
    BY <1>2, <2>2 DEF CasFails, LocalsCurrent, Deciding
  <2>3. CASE Test(t)
    <3>1. key[t] \in _key_to_bucket /\ zero_time_old[t] = _zero_time[key[t]]
      BY <1>2, <2>3 DEF Test, LocalsCurrent, Deciding
    <3>2. Tokens(t) \in Int
      BY <1>2 DEF Tokens, LimiterTypeOK, Times
    <3> QED BY <2>3, <3>1, <3>2 DEF Test
  <2> QED BY <2>1, <2>2, <2>3
<1>5. LimiterTypeOK'
  BY <1>1, <1>2, <1>3 DEF LimiterTypeOK, Goto, Inside
<1>6. LockHeld'
  BY <1>1, <1>2, <1>3 DEF LockHeld, Goto, Inside, Deciding
<1>7. LocalsCurrent'
  <2>1. /\ pc'[t] = label
        /\ \A u \in Threads \ {t} : pc'[u] = pc[u] /\ pc'[u] \notin Inside
    BY <1>2, <1>3 DEF Goto, Inside, Deciding
  <2>2. label = "test" => zero_time_old'[t] = _zero_time[key[t]]
    BY <1>2, <1>3 DEF LimiterTypeOK
  <2>3. label = "cas" => Tokens(t)' = Tokens(t)
    BY <1>1, <1>3 DEF Tokens
  <2>4. now[t] <= clock
    BY <1>2 DEF LocalsCurrent
  <2> QED BY <1>1, <1>3, <2>1, <2>2, <2>3, <2>4 DEF LocalsCurrent, Deciding, Inside
<1>8. FirstIsEarliest'
  BY <1>1, <1>2, <1>3 DEF FirstIsEarliest, Goto, Deciding, Inside
<1> QED BY <1>1, <1>5, <1>6, <1>7, <1>8, BucketsUntouched DEF LimiterInv

\* A key's first call: its bucket starts at zero and without grants.
LEMMA InsertStep ==
    ASSUME LimiterInv, NEW t \in Threads, Insert(t)
    PROVE  LimiterInv'
<1> USE LimiterAssumption, NobodyAssumption
<1>1. /\ LimiterTypeOK /\ LockHeld /\ LocalsCurrent /\ NewKeysUntouched
      /\ pc \in [Threads -> Inside \cup {"idle", "lock"}]
      /\ pc[t] = "insert" /\ key[t] \in Keys /\ key[t] \notin _key_to_bucket
      /\ \A u \in Threads \ {t} : pc[u] \notin Inside
  BY Alone DEF LimiterInv, LimiterTypeOK, Insert, LocalsCurrent, Inside
<1>2. /\ _zero_time' = _zero_time
      /\ made[key[t]] = 0 /\ _zero_time[key[t]] = 0 /\ log[key[t]] = <<>>
  BY <1>1 DEF Insert, NewKeysUntouched, LimiterTypeOK
<1>9. clock \in Times /\ Times \subseteq Nat
  BY <1>1 DEF LimiterTypeOK, Times
<1>10. /\ log' = [log EXCEPT ![key[t]] = <<clock>>]
       /\ log' \in [Keys -> Seq(Times)]
       /\ log'[key[t]] = <<clock>>
       /\ \A k \in Keys \ {key[t]} : log'[k] = log[k]
  <2>1. Append(<<>>, clock) = <<clock>> /\ <<clock>> \in Seq(Times)
    BY <1>9
  <2> QED BY <1>1, <1>2, <2>1 DEF Insert, LimiterTypeOK
<1>3. /\ pc' = [pc EXCEPT ![t] = "unlock"]
      /\ \A u \in Threads : pc'[u] \in Inside => u = t /\ pc'[u] = "unlock"
  BY <1>1 DEF Insert, Goto
<1>4. LimiterTypeOK'
  <2>1. made' \in [Keys -> Nat] /\ _key_to_bucket' \subseteq Keys
    BY <1>1 DEF LimiterTypeOK, Insert
  <2>2. _key_to_bucket_mu' \in SharedMutexState
    BY <1>1, MutexTypes DEF LimiterTypeOK, Insert
  <2>3. UNCHANGED <<clock, key, now, zero_time_old>>
    BY DEF Insert
  <2> QED BY <1>1, <1>2, <1>3, <1>10, <2>1, <2>2, <2>3 DEF LimiterTypeOK, Inside
<1>5. LockHeld'
  <2>1. /\ _key_to_bucket_mu' = UniqueToUpgrade(_key_to_bucket_mu, t)
        /\ _key_to_bucket_mu \in SharedMutexState
        /\ _key_to_bucket_mu.shared = {}
    BY <1>1 DEF Insert, LimiterTypeOK, LockHeld
  <2>2. /\ _key_to_bucket_mu'.shared = {}
        /\ _key_to_bucket_mu'.upgrade = t
        /\ _key_to_bucket_mu'.exclusive = Nobody
    BY <2>1 DEF SharedMutexState, UniqueToUpgrade
  <2> QED BY <1>3, <2>2 DEF LockHeld, Inside
<1>6. LocalsCurrent'
  BY <1>3 DEF LocalsCurrent, Deciding, Inside
<1>7. NewKeysUntouched'
  <2>1. /\ made'[key[t]] = 1 /\ _key_to_bucket' = _key_to_bucket \cup {key[t]}
        /\ \A k \in Keys \ {key[t]} : made'[k] = made[k]
    BY <1>1, <1>2 DEF Insert, LimiterTypeOK
  <2>2. <<clock>> # <<>>
    OBVIOUS
  <2> QED BY <1>1, <1>2, <1>10, <2>1, <2>2 DEF NewKeysUntouched
<1>8. ASSUME NEW k \in Keys PROVE ZeroTimeExact(k)' /\ Bounded(Paid(log'[k]))
  <2>1. ZeroTimeExact(k) /\ Bounded(Paid(log[k]))
    BY DEF LimiterInv
  <2>2. Paid(<<clock>>) = Paid(<<>>)
    BY DEF Paid
  <2>3. Paid(log'[k]) = Paid(log[k])
    BY <1>2, <1>10, <2>2
  <2> QED BY <1>2, <2>1, <2>3 DEF ZeroTimeExact
<1>11. FirstIsEarliest'
  <2>1. \A u \in Threads : pc'[u] \notin Deciding
    BY <1>3 DEF Deciding, Inside
  <2>2. /\ FirstIsEarliest /\ clock' = clock
        /\ _key_to_bucket' = _key_to_bucket \cup {key[t]} /\ _key_to_bucket \subseteq Keys
    BY <1>1 DEF LimiterInv, Insert, LimiterTypeOK
  <2>3. Began(<<clock>>, clock) /\ \A i \in DOMAIN <<clock>> : Began(<<clock>>, <<clock>>[i])
    BY <1>9 DEF Began
  <2> QED BY <1>1, <1>10, <2>1, <2>2, <2>3 DEF FirstIsEarliest
<1> QED BY <1>4, <1>5, <1>6, <1>7, <1>8, <1>11 DEF LimiterInv

\* A grant: the bucket's zero time moves by one token, capped by its size.
LEMMA CasStep ==
    ASSUME LimiterInv, NEW t \in Threads, Cas(t)
    PROVE  LimiterInv'
<1> DEFINE k == key[t]
<1> DEFINE n == Len(log[k])
<1> DEFINE z == _zero_time[k]
<1> DEFINE x == now[t]
<1> DEFINE y == zero_time_new(t)
<1>1. /\ LimiterTypeOK /\ LockHeld /\ LocalsCurrent /\ NewKeysUntouched
      /\ pc \in [Threads -> Inside \cup {"idle", "lock"}]
      /\ pc[t] = "cas" /\ k \in Keys /\ k \in _key_to_bucket
      /\ \A u \in Threads \ {t} : pc[u] \notin Inside
      /\ x <= clock /\ zero_time_old[t] = z /\ Cost <= Tokens(t)
  BY Alone DEF LimiterInv, LimiterTypeOK, Cas, LocalsCurrent, Inside, Deciding
<1>2. /\ x \in Times /\ z \in Times /\ clock \in Times /\ Times \subseteq Nat
      /\ log \in [Keys -> Seq(Times)] /\ n \in Nat
      /\ Cost \in Nat /\ Burst \in Nat
  BY <1>1, LimiterAssumption DEF LimiterTypeOK, Times
<1>3. Cost <= Burst /\ y <= x /\ y \in Times
      /\ z + Cost <= y /\ x - Burst + Cost <= y
      /\ (y = z + Cost \/ y = x - Burst + Cost)
  <2>1. Tokens(t) = IF x - z < Burst THEN x - z ELSE Burst
    BY <1>1 DEF Tokens
  <2>2. y = x - (Tokens(t) - Cost)
    BY DEF zero_time_new
  <2>3. x \in Int /\ z \in Int /\ 0 <= z /\ x <= MaxClock /\ Cost \in Int /\ Burst \in Int
        /\ 0 <= Cost /\ 0 <= Burst /\ Cost <= Tokens(t) /\ MaxClock \in Int
    BY <1>1, <1>2, LimiterAssumption DEF Times
  <2> HIDE DEF x, y, z
  <2> QED BY <2>1, <2>2, <2>3 DEF Times
<1>4. /\ _zero_time' = [_zero_time EXCEPT ![k] = y]
      /\ log' = [log EXCEPT ![k] = Append(log[k], x)]
      /\ pc' = [pc EXCEPT ![t] = "unlock"]
      /\ UNCHANGED <<clock, _key_to_bucket_mu, _key_to_bucket, made, key, now,
                     zero_time_old>>
  BY <1>1 DEF Cas, Goto, LimiterTypeOK
<1>5. Room(Paid(log[k]), x)
  BY <1>1, FitsIffToken
<1> HIDE DEF k, y, x, z
<1>6. /\ log'[k] \in Seq(Times)
      /\ log'[k] = Append(log[k], x)
      /\ \A j \in Keys \ {k} : log'[j] = log[j] /\ _zero_time'[j] = _zero_time[j]
      /\ _zero_time'[k] = y
  BY <1>1, <1>2, <1>3, <1>4 DEF LimiterTypeOK
<1>7. LimiterTypeOK'
  <2>1. log' \in [Keys -> Seq(Times)]
    BY <1>1, <1>2, <1>4, <1>6
  <2>2. _zero_time' \in [Keys -> Times] /\ \A j \in Keys : _zero_time'[j] <= clock
    BY <1>1, <1>2, <1>3, <1>4 DEF LimiterTypeOK
  <2> QED BY <1>1, <1>4, <2>1, <2>2 DEF LimiterTypeOK, Inside
<1>8. LockHeld' /\ LocalsCurrent'
  BY <1>1, <1>4 DEF LockHeld, LocalsCurrent, Inside, Deciding
<1>9. NewKeysUntouched'
  BY <1>1, <1>4, <1>6 DEF NewKeysUntouched, k
<1>10. ASSUME NEW j \in Keys PROVE ZeroTimeExact(j)' /\ Bounded(Paid(log'[j]))
  <2>1. ZeroTimeExact(j) /\ Bounded(Paid(log[j]))
    BY DEF LimiterInv
  <2>2. CASE j # k
    BY <1>6, <2>1, <2>2 DEF ZeroTimeExact
  <2>3. CASE j = k
    <3>1. x \in Nat /\ y \in Nat /\ z \in Nat
      BY <1>2, <1>3
    <3>4. log[k] \in Seq(Nat) /\ log[k] # <<>>
      BY <1>1, LimiterAssumption DEF LimiterTypeOK, Times, NewKeysUntouched
    <3>5. Paid(log[k]) \in Seq(Nat) /\ Paid(Append(log[k], x)) = Append(Paid(log[k]), x)
      BY <3>1, <3>4, PaidProperties
    <3>2. Exact(Paid(log[k]), z) /\ Bounded(Paid(log[k])) /\ Room(Paid(log[k]), x)
      BY <1>5, <2>1, <2>3 DEF ZeroTimeExact, z
    <3>3. Exact(Append(Paid(log[k]), x), y)
      BY <1>3, <3>1, <3>2, <3>5, ExactAppend
    <3>6. Bounded(Append(Paid(log[k]), x))
      BY <3>1, <3>2, <3>5, BoundedAppend
    <3> QED BY <1>6, <2>3, <3>3, <3>5, <3>6 DEF ZeroTimeExact
  <2> QED BY <2>2, <2>3
<1>11. FirstIsEarliest'
  <2>1. \A u \in Threads : pc'[u] \notin Deciding
    BY <1>1, <1>4 DEF Deciding, Inside
  <2>2. /\ FirstIsEarliest /\ clock' = clock /\ _key_to_bucket' = _key_to_bucket
        /\ _key_to_bucket \subseteq Keys
    BY <1>1, <1>4 DEF LimiterInv, LimiterTypeOK
  <2>3. Began(log[k], x) /\ log[k] # <<>> /\ log[k] \in Seq(Times)
    BY <1>1, <1>2, <2>2 DEF FirstIsEarliest, Deciding, NewKeysUntouched, k, x
  <2>4. /\ Len(log[k]) \in Nat \ {0} /\ DOMAIN log[k] = 1 .. Len(log[k])
        /\ DOMAIN Append(log[k], x) = 1 .. Len(log[k]) + 1
        /\ \A i \in 1 .. Len(log[k]) : Append(log[k], x)[i] = log[k][i]
        /\ Append(log[k], x)[Len(log[k]) + 1] = x
    BY <1>2, <2>3, EmptySeq, LenProperties, AppendProperties
  <2>5. 1 \in 1 .. Len(log[k])
    BY <2>4
  <2>6. Began(Append(log[k], x), clock)
    BY <1>1, <2>2, <2>4, <2>5 DEF FirstIsEarliest, Began
  <2>7. ASSUME NEW i \in 1 .. Len(log[k]) + 1
        PROVE  Began(Append(log[k], x), Append(log[k], x)[i])
    <3>1. CASE i \in 1 .. Len(log[k])
      BY <1>1, <2>2, <2>4, <2>5, <3>1 DEF FirstIsEarliest, Began
    <3>2. CASE i = Len(log[k]) + 1
      BY <2>3, <2>4, <2>5, <3>2 DEF Began
    <3>3. i \in 1 .. Len(log[k]) \/ i = Len(log[k]) + 1
      BY <2>4
    <3> QED BY <3>1, <3>2, <3>3
  <2>8. ASSUME NEW m \in _key_to_bucket
        PROVE  Began(log'[m], clock) /\ \A i \in DOMAIN log'[m] : Began(log'[m], log'[m][i])
    <3>1. CASE m = k
      BY <1>6, <2>4, <2>6, <2>7, <3>1
    <3>2. CASE m # k
      BY <1>6, <2>2, <3>2 DEF FirstIsEarliest
    <3> QED BY <3>1, <3>2
  <2> QED BY <2>1, <2>2, <2>8 DEF FirstIsEarliest
<1> QED BY <1>7, <1>8, <1>9, <1>10, <1>11 DEF LimiterInv

\* The clock moves on.
LEMMA TickStep ==
    ASSUME LimiterInv, Tick
    PROVE  LimiterInv'
<1>1. UNCHANGED <<_key_to_bucket_mu, bucketVars, threadVars, log>>
      /\ clock' = clock + 1 /\ clock < MaxClock
  BY DEF Tick
<1>2. LimiterTypeOK /\ LockHeld /\ LocalsCurrent
  BY DEF LimiterInv
<1>3. LimiterTypeOK'
  BY <1>1, <1>2, LimiterAssumption DEF LimiterTypeOK, Times, bucketVars, threadVars
<1>4. LockHeld'
  BY <1>1, <1>2 DEF LockHeld, bucketVars, threadVars
<1>5. LocalsCurrent'
  BY <1>1, <1>2, LimiterAssumption
  DEF LimiterTypeOK, LocalsCurrent, Tokens, Times, bucketVars, threadVars
<1>6. FirstIsEarliest'
  <2>1. UNCHANGED <<_key_to_bucket, log, pc, key, now>> /\ clock' >= clock /\ clock \in Nat
    BY <1>1, <1>2 DEF bucketVars, threadVars, LimiterTypeOK, Times
  <2>2. \A k \in _key_to_bucket : Began(log[k], clock) => Began(log[k], clock')
    <3>1. ASSUME NEW k \in _key_to_bucket PROVE log[k][1] \in Int
      <4>1. log[k] \in Seq(Times) /\ log[k] # <<>>
        BY <1>2 DEF LimiterInv, LimiterTypeOK, NewKeysUntouched
      <4>2. 1 \in 1 .. Len(log[k])
        BY <4>1, EmptySeq, LenProperties
      <4>3. log[k][1] \in Times
        BY <4>1, <4>2, ElementOfSeq
      <4> QED BY <4>3 DEF Times
    <3> QED BY <1>1, <2>1, <3>1 DEF Began
  <2> QED BY <2>1, <2>2 DEF LimiterInv, FirstIsEarliest
<1> QED BY <1>1, <1>3, <1>4, <1>5, <1>6, BucketsUntouched DEF LimiterInv

LEMMA StepLimiterInv == LimiterInv /\ [LimiterNext]_limiterVars => LimiterInv'
<1> SUFFICES ASSUME LimiterInv, [LimiterNext]_limiterVars PROVE LimiterInv'
  OBVIOUS
<1>1. CASE UNCHANGED limiterVars
  <2>1. LimiterTypeOK' /\ LockHeld' /\ LocalsCurrent'
    BY <1>1 DEF limiterVars, threadVars, bucketVars, LimiterInv, LimiterTypeOK, LockHeld,
       LocalsCurrent, Tokens
  <2>2. FirstIsEarliest'
    BY <1>1 DEF limiterVars, threadVars, bucketVars, LimiterInv, FirstIsEarliest
  <2> QED BY <1>1, <2>1, <2>2, BucketsUntouched DEF limiterVars, LimiterInv
<1>2. CASE LimiterNext
  BY <1>2, TickStep, LockStep, InsertStep, DecideStep, CasStep DEF LimiterNext, Step
<1> QED BY <1>1, <1>2

LEMMA LimiterInvariant == LimiterSpec => []LimiterInv
BY InitLimiterInv, StepLimiterInv, PTL DEF LimiterSpec

\* Every variable keeps its type, and no bucket's zero time passes the clock.
THEOREM LimiterTypeCorrect == LimiterSpec => []LimiterTypeOK
<1>1. LimiterInv => LimiterTypeOK
  BY DEF LimiterInv
<1> QED BY <1>1, LimiterInvariant, PTL

-----------------------------------------------------------------------------
\* No window between two grants of a key holds more grants than its burst and
\* the rate allow, and one more where it starts with the key's first call,
\* for any number of threads and keys.
THEOREM WindowsAreBounded == LimiterSpec => []WindowBound
<1>1. LimiterInv => WindowBound
  <2> SUFFICES ASSUME LimiterInv, NEW k \in Keys,
                      NEW i \in DOMAIN log[k], NEW j \in DOMAIN log[k], i <= j
               PROVE  Owed(j - i + 1 - FreeTokens(i)) <= Burst + log[k][j] - log[k][i]
    BY DEF WindowBound, Owed
  <2>4. log[k] \in Seq(Nat)
    BY LimiterAssumption DEF LimiterInv, LimiterTypeOK, Times
  <2>5. DOMAIN log[k] = 1 .. Len(log[k])
    BY <2>4, LenProperties
  <2>6. DOMAIN <<>> = {}
    OBVIOUS
  <2>1. log[k] \in Seq(Nat) /\ log[k] # <<>> /\ DOMAIN log[k] = 1 .. Len(log[k])
    BY <2>4, <2>5, <2>6
  <2>2. k \in _key_to_bucket
    BY <2>1 DEF LimiterInv, NewKeysUntouched
  <2>3. Bounded(Paid(log[k])) /\ \A h \in 1 .. Len(log[k]) : Began(log[k], log[k][h])
    BY <2>1, <2>2 DEF LimiterInv, FirstIsEarliest
  <2> QED BY <2>1, <2>3, BoundedAll
<1> QED BY <1>1, LimiterInvariant, PTL

\* A key gets one bucket, however many threads make its first call at once.
THEOREM BucketMadeOnce == LimiterSpec => []OneBucketPerKey
<1>1. LimiterInv => OneBucketPerKey
  BY DEF LimiterInv, NewKeysUntouched, OneBucketPerKey
<1> QED BY <1>1, LimiterInvariant, PTL

\* What a thread asks changes with its own steps only.
LEMMA AskedStep ==
    ASSUME LimiterTypeOK, NEW t \in Threads, Call(t) \/ Step(t)
    PROVE  /\ \A u \in Threads \ {t} : AskedBy(u)' = AskedBy(u)
           /\ Asked' = [Asked EXCEPT ![t] = AskedBy(t)']
<1>1. ASSUME NEW u \in Threads \ {t}
      PROVE  pc'[u] = pc[u] /\ key'[u] = key[u] /\ now'[u] = now[u]
  BY DEF Call, Step, Lock, Find, Upgrade, Insert, Unlock, Load, Test, Cas, CasFails,
     Goto, LimiterTypeOK, bucketVars
<1>2. \A u \in Threads \ {t} : AskedBy(u)' = AskedBy(u)
  BY <1>1 DEF AskedBy
<1> QED BY <1>2 DEF Asked

\* The buckets behind the upgrade lock implement the sliding window: calls
\* are granted exactly when the window has room.
THEOREM LimiterImplementsWindow == LimiterSpec => ImplementsWindowLimiter
<1>1. LimiterInit => Window!Init
  BY DEF LimiterInit, Window!Init, Times, Asked, AskedBy, Deciding
<1>2. ASSUME LimiterInv, [LimiterNext]_limiterVars
      PROVE  [Window!Next]_(Window!vars)
  <2>1. CASE UNCHANGED limiterVars
    BY <2>1 DEF limiterVars, bucketVars, threadVars, Window!vars, Asked, AskedBy
  <2>2. CASE Tick
    <3>1. Asked' = Asked
      BY <2>2 DEF Tick, threadVars, Asked, AskedBy
    <3> QED BY <2>2, <3>1 DEF Tick, Window!Next, Window!Tick, bucketVars
  <2>3. ASSUME NEW t \in Threads,
               \/ Call(t) \/ Lock(t) \/ Upgrade(t) \/ Unlock(t) \/ Load(t)
               \/ CasFails(t) \/ (Find(t) /\ pc'[t] = "upgrade")
               \/ (Test(t) /\ pc'[t] = "cas")
        PROVE  UNCHANGED Window!vars
    <3>1. AskedBy(t)' = AskedBy(t)
      BY <1>2, <2>3 DEF Call, Lock, Upgrade, Unlock, Load, CasFails, Find, Test, Goto,
         AskedBy, Deciding, LimiterInv, LimiterTypeOK
    <3>2. Asked' = Asked
      BY <1>2, <2>3, <3>1, AskedStep DEF LimiterInv, Asked, Step
    <3> QED
      BY <2>3, <3>2 DEF Call, Lock, Upgrade, Unlock, Load, CasFails, Find, Test,
         bucketVars, Window!vars
  <2>4. ASSUME NEW t \in Threads, Find(t), pc'[t] = "load"
        PROVE  Window!Next
    <3>1. /\ key[t] \in Keys /\ key[t] \in _key_to_bucket
          /\ AskedBy(t) = <<>> /\ AskedBy(t)' = <<key[t], clock>>
      BY <1>2, <2>4 DEF Find, Goto, AskedBy, Deciding, LimiterInv, LimiterTypeOK
    <3>2. Asked[t] = <<>> /\ Asked' = [Asked EXCEPT ![t] = <<key[t], clock>>]
      BY <1>2, <2>4, <3>1, AskedStep DEF LimiterInv, Asked, Step
    <3>3. Window!Ask(t, key[t])
      BY <2>4, <3>1, <3>2 DEF Find, Window!Ask, bucketVars
    <3> QED BY <3>1, <3>3 DEF Window!Next
  <2>5. ASSUME NEW t \in Threads, Insert(t)
        PROVE  Window!Next
    <3>1. key[t] \in Keys /\ key[t] \notin _key_to_bucket
      BY <1>2, <2>5 DEF LimiterInv, LimiterTypeOK, LocalsCurrent, Insert
    <3>2. AskedBy(t)' = AskedBy(t)
      BY <1>2, <2>5 DEF Insert, Goto, AskedBy, Deciding, LimiterInv, LimiterTypeOK
    <3>3. Asked' = Asked
      BY <1>2, <2>5, <3>2, AskedStep DEF LimiterInv, Asked, Step
    <3>4. Window!FirstCall(key[t])
      BY <2>5, <3>1, <3>3 DEF Insert, Window!FirstCall
    <3> QED BY <3>1, <3>4 DEF Window!Next
  <2>6. ASSUME NEW t \in Threads, Cas(t) \/ (Test(t) /\ pc'[t] = "unlock")
        PROVE  Window!Next
    <3>1. /\ pc[t] \in {"test", "cas"} /\ key[t] \in Keys /\ key[t] \in _key_to_bucket
          /\ now[t] \in 0 .. clock
      BY <1>2, <2>6, LimiterAssumption
      DEF LimiterInv, LimiterTypeOK, LocalsCurrent, Deciding, Times, Test, Cas
    <3>2. Window!Fits(key[t], now[t]) <=> Cost <= Tokens(t)
      BY <1>2, <3>1, FitsIffToken
    <3>3. AskedBy(t) = <<key[t], now[t]>> /\ AskedBy(t)' = <<>>
      BY <1>2, <2>6, <3>1 DEF Cas, Test, Goto, AskedBy, Deciding, LimiterInv, LimiterTypeOK
    <3>4. /\ Asked[t] = <<key[t], now[t]>>
          /\ Asked' = [Asked EXCEPT ![t] = <<>>]
      BY <1>2, <2>6, <3>3, AskedStep DEF LimiterInv, Asked, Step
    <3>5. CASE Cas(t)
      <4>1. Cost <= Tokens(t)
        BY <1>2, <3>5 DEF LimiterInv, LocalsCurrent, Cas
      <4>2. Window!Grant(t, key[t], now[t])
        BY <3>1, <3>2, <3>4, <3>5, <4>1 DEF Cas, Window!Grant
      <4> QED BY <3>1, <4>2 DEF Window!Next
    <3>6. CASE Test(t) /\ pc'[t] = "unlock"
      <4>1. Tokens(t) < Cost
        BY <1>2, <3>6 DEF Test, Goto, LimiterInv, LimiterTypeOK
      <4>2. ~(Cost <= Tokens(t))
        BY <1>2, <3>1, <4>1, LimiterAssumption DEF Tokens, LimiterInv, LimiterTypeOK, Times
      <4>3. Window!Refuse(t, key[t], now[t])
        BY <3>1, <3>2, <3>4, <3>6, <4>2 DEF Test, Window!Refuse, bucketVars
      <4> QED BY <3>1, <4>3 DEF Window!Next
    <3> QED BY <2>6, <3>5, <3>6
  <2>7. ASSUME NEW t \in Threads, Find(t) \/ Test(t)
        PROVE  \/ Find(t) /\ pc'[t] \in {"load", "upgrade"}
               \/ Test(t) /\ pc'[t] \in {"unlock", "cas"}
    BY <1>2, <2>7 DEF Find, Test, Goto, LimiterInv, LimiterTypeOK
  <2> QED BY <1>2, <2>1, <2>2, <2>3, <2>4, <2>5, <2>6, <2>7 DEF LimiterNext, Step
<1> QED BY <1>1, <1>2, LimiterInvariant, PTL DEF LimiterSpec, ImplementsWindowLimiter, Window!Spec

-----------------------------------------------------------------------------
(* The session                                                             *)

-----------------------------------------------------------------------------
(* Types                                                                   *)

\* A validator's place in its batch is one of the batch's new lanes.
LaneInBatch == \A v \in Validators : job[v].at =< job[v].pending

\* NewLanesHoldSessions, for one array.
Held(lanes, n) == \A l \in 1 .. n : lanes[l] \in Sessions

ArrayHeld == Held(reqs, pending)
BatchesHeld == \A b \in batches : Held(b.reqs, b.pending)
JobsHeld == \A v \in Validators : job[v].pc # "idle" => Held(job[v].reqs, job[v].pending)

TypeInv ==
    /\ TypeOK
    /\ LaneInBatch
    /\ ArrayHeld
    /\ BatchesHeld
    /\ JobsHeld

Job == [reqs : LaneArray, pending : 1 .. Lanes, at : 1 .. Lanes,
        pc : {"idle", "answer", "return"}]

LEMMA IdleJobType == IdleJob \in Job
BY SessionAssumption DEF IdleJob, Job, LaneArray

LEMMA OnwardType ==
    ASSUME NEW j \in Job, j.at =< j.pending
    PROVE  /\ Onward(j) \in Job /\ Onward(j).at =< Onward(j).pending
           /\ Onward(j).pc # "idle" =>
                Onward(j).reqs = j.reqs /\ Onward(j).pending = j.pending
<1>1. CASE j.at < j.pending
  <2>1. j.at + 1 \in 1 .. Lanes /\ j.at + 1 =< j.pending
    BY <1>1, SessionAssumption DEF Job
  <2> QED BY <1>1, <2>1 DEF Job, Onward
<1>2. CASE ~(j.at < j.pending)
  BY <1>2, IdleJobType DEF Onward, IdleJob
<1> QED BY <1>1, <1>2

LEMMA InitTypeInv == Init => TypeInv
<1> SUFFICES ASSUME Init PROVE TypeInv
  OBVIOUS
<1>1. IdleJob.reqs \in LaneArray /\ IdleJob.at =< IdleJob.pending
  BY SessionAssumption DEF IdleJob, LaneArray
<1>2. TypeOK /\ LaneInBatch
  BY <1>1, IdleJobType, SessionAssumption DEF Init, TypeOK, LaneInBatch, Job
<1>3. ArrayHeld /\ BatchesHeld /\ JobsHeld
  BY DEF Init, IdleJob, ArrayHeld, BatchesHeld, JobsHeld, Held
<1> QED BY <1>2, <1>3 DEF TypeInv

\* The handlers on the strands, and the clients.
StrandStep ==
    \E s \in Sessions :
        Accept(s) \/ PeerLeaves(s) \/ OnRead(s) \/ OnReadFails(s) \/ Respond(s)
        \/ Enqueue(s) \/ Return(s) \/ OnWrite(s) \/ SendRest(s)

LEMMA StrandStepType == TypeInv /\ StrandStep => TypeInv'
<1> SUFFICES ASSUME TypeInv, StrandStep PROVE TypeInv'
  OBVIOUS
<1> PICK s \in Sessions :
        Accept(s) \/ PeerLeaves(s) \/ OnRead(s) \/ OnReadFails(s) \/ Respond(s)
        \/ Enqueue(s) \/ Return(s) \/ OnWrite(s) \/ SendRest(s)
  BY DEF StrandStep
<1>7. TypeOK' /\ LaneInBatch'
  <2> USE DEF TypeInv, TypeOK, LaneInBatch
  <2>1. CASE Accept(s) \/ PeerLeaves(s) \/ OnRead(s) \/ OnReadFails(s)
    BY <2>1 DEF Accept, PeerLeaves, OnRead, OnReadFails, handlerVars
  <2>2. CASE Respond(s)
    BY <2>2 DEF Respond, DoWrite, handlerVars
  <2>3. CASE Enqueue(s)
    BY <2>3 DEF Enqueue, socketVars
  <2>4. CASE Return(s)
    BY <2>4 DEF Return, Expire, handlerVars
  <2>5. CASE SendRest(s)
    BY <2>5 DEF SendRest, handlerVars
  <2>6. CASE OnWrite(s)
    <3>1. (op[s] = "sent") \in BOOLEAN
      OBVIOUS
    <3>2. shut' \in [Sessions -> BOOLEAN]
      BY <2>6, <3>1, Zenon DEF OnWrite
    <3> QED BY <2>6, <3>2 DEF OnWrite, handlerVars
  <2> QED BY <2>1, <2>2, <2>3, <2>4, <2>5, <2>6
<1>8. UNCHANGED <<reqs, pending, batches, job>>
  BY DEF Accept, PeerLeaves, OnRead, OnReadFails, Respond, Enqueue, Return, OnWrite,
     SendRest, handlerVars
<1>9. ArrayHeld' /\ BatchesHeld' /\ JobsHeld'
  BY <1>8 DEF TypeInv, ArrayHeld, BatchesHeld, JobsHeld
<1> QED BY <1>7, <1>9 DEF TypeInv

LEMMA HandlerStepType ==
    ASSUME TypeInv,
           Dequeue \/ PostBatch \/ \E v \in Validators : Validate(v)
    PROVE  TypeInv'
<1> USE SessionAssumption
<1>6. TypeOK /\ LaneInBatch /\ ArrayHeld /\ BatchesHeld /\ JobsHeld
  BY DEF TypeInv
<1>1. CASE Dequeue
  <2>1. PICK s \in q_ : reqs' = [reqs EXCEPT ![pending + 1] = s]
    BY <1>1 DEF Dequeue
  <2>2. pending \in Nat /\ pending + 1 \in 1 .. Lanes /\ pending' = pending + 1
    BY <1>1, <1>6 DEF Dequeue, TypeOK
  <2>3. s \in Sessions /\ reqs' \in LaneArray
    BY <1>6, <2>1, <2>2 DEF TypeOK, LaneArray
  <2>4. TypeOK' /\ LaneInBatch'
    BY <1>1, <1>6, <2>2, <2>3 DEF Dequeue, TypeOK, LaneInBatch, socketVars
  <2>5. ASSUME NEW l \in 1 .. pending + 1 PROVE reqs'[l] \in Sessions
    <3>1. CASE l = pending + 1
      BY <1>6, <2>1, <2>2, <2>3, <3>1 DEF TypeOK, LaneArray
    <3>2. CASE l \in 1 .. pending
      BY <1>6, <2>1, <2>2, <3>2 DEF TypeOK, LaneArray, ArrayHeld, Held
    <3> QED BY <2>2, <3>1, <3>2
  <2>6. ArrayHeld'
    BY <2>2, <2>5 DEF ArrayHeld, Held
  <2>7. BatchesHeld' /\ JobsHeld'
    BY <1>1, <1>6 DEF Dequeue, BatchesHeld, JobsHeld
  <2> QED BY <2>4, <2>6, <2>7 DEF TypeInv
<1>2. CASE PostBatch
  <2> DEFINE posted == [reqs |-> reqs, pending |-> pending]
  <2>1. posted \in Batch /\ posted.reqs = reqs /\ posted.pending = pending
    BY <1>2, <1>6 DEF PostBatch, Batch, TypeOK
  <2>2. batches' = batches \cup {posted} /\ pending' = 0 /\ reqs' = reqs /\ job' = job
    BY <1>2 DEF PostBatch
  <2> HIDE DEF posted
  <2>3. TypeOK' /\ LaneInBatch'
    BY <1>2, <1>6, <2>1, <2>2 DEF PostBatch, TypeOK, LaneInBatch, socketVars
  <2>4. ArrayHeld'
    BY <2>2 DEF ArrayHeld, Held
  <2>5. Held(posted.reqs, posted.pending)
    BY <1>6, <2>1 DEF ArrayHeld
  <2>6. BatchesHeld' /\ JobsHeld'
    BY <1>6, <2>2, <2>5 DEF BatchesHeld, JobsHeld
  <2> QED BY <2>3, <2>4, <2>6 DEF TypeInv
<1>3. ASSUME NEW v \in Validators, TakeBatch(v) PROVE TypeInv'
  <2>1. PICK b \in batches :
          /\ batches' = batches \ {b}
          /\ job' = [job EXCEPT ![v] = [reqs |-> b.reqs, pending |-> b.pending,
                                       at |-> 1, pc |-> "answer"]]
    BY <1>3 DEF TakeBatch
  <2>2. b.reqs \in LaneArray /\ b.pending \in 1 .. Lanes /\ Held(b.reqs, b.pending)
    BY <1>6 DEF Batch, TypeOK, BatchesHeld
  <2>3. TypeOK' /\ LaneInBatch'
    BY <1>3, <1>6, <2>1, <2>2 DEF TakeBatch, socketVars, TypeOK, LaneInBatch
  <2>4. ArrayHeld' /\ BatchesHeld'
    BY <1>3, <1>6, <2>1 DEF TakeBatch, ArrayHeld, BatchesHeld
  <2>5. JobsHeld'
    BY <1>6, <2>1, <2>2 DEF JobsHeld, TypeOK
  <2> QED BY <2>3, <2>4, <2>5 DEF TypeInv
<1>4. ASSUME NEW v \in Validators, Answer(v) PROVE TypeInv'
  <2>1. TypeOK' /\ LaneInBatch'
    BY <1>4, <1>6 DEF Answer, DoWrite, TypeOK, LaneInBatch
  <2>2. ArrayHeld' /\ BatchesHeld'
    BY <1>4, <1>6 DEF Answer, ArrayHeld, BatchesHeld
  <2>3. JobsHeld'
    BY <1>4, <1>6 DEF Answer, JobsHeld, TypeOK
  <2> QED BY <2>1, <2>2, <2>3 DEF TypeInv
<1>5. ASSUME NEW v \in Validators, NextLane(v) PROVE TypeInv'
  <2>1. job \in [Validators -> Job]
    BY <1>6 DEF Job, TypeOK
  <2>2. /\ Onward(job[v]) \in Job /\ Onward(job[v]).at =< Onward(job[v]).pending
        /\ Onward(job[v]).pc # "idle" =>
             Onward(job[v]).reqs = job[v].reqs /\ Onward(job[v]).pending = job[v].pending
    BY <1>6, <2>1, OnwardType DEF LaneInBatch
  <2>3. job' = [job EXCEPT ![v] = Onward(job[v])] /\ job[v].pc # "idle"
    BY <1>5 DEF NextLane
  <2>4. job' \in [Validators -> Job] /\ \A w \in Validators : job'[w].at =< job'[w].pending
    BY <1>6, <2>1, <2>2, <2>3 DEF LaneInBatch
  <2>5. response' \in [Sessions -> {"none", "live", "dead"}]
    BY <1>5, <1>6 DEF NextLane, Expire, TypeOK
  <2>6. TypeOK' /\ LaneInBatch'
    BY <1>5, <1>6, <2>4, <2>5 DEF NextLane, Job, TypeOK, LaneInBatch
  <2>7. ArrayHeld' /\ BatchesHeld'
    BY <1>5, <1>6 DEF NextLane, ArrayHeld, BatchesHeld
  <2>8. JobsHeld'
    BY <1>6, <2>1, <2>2, <2>3 DEF JobsHeld
  <2> QED BY <2>6, <2>7, <2>8 DEF TypeInv
<1> QED BY <1>1, <1>2, <1>3, <1>4, <1>5 DEF Validate

LEMMA NextSplit == Next => \/ StrandStep
                           \/ Dequeue \/ PostBatch \/ \E v \in Validators : Validate(v)
                           \/ UNCHANGED vars
BY DEF Next, StrandStep, Client, Handle, Terminated

LEMMA StepTypeInv == TypeInv /\ [Next]_vars => TypeInv'
<1> SUFFICES ASSUME TypeInv, [Next]_vars PROVE TypeInv'
  OBVIOUS
<1>1. CASE UNCHANGED vars
  BY <1>1 DEF vars, socketVars, handlerVars, TypeInv, TypeOK, LaneInBatch,
     ArrayHeld, BatchesHeld, JobsHeld
<1> QED BY <1>1, NextSplit, StrandStepType, HandlerStepType

LEMMA TypeInvariant == Spec => []TypeInv
BY InitTypeInv, StepTypeInv, PTL DEF Spec

\* No validator comes to a lane without a request: what the distributor counts
\* as new stays filled through the copies it posts and validators take.
THEOREM LanesHoldSessions == Spec => []NewLanesHoldSessions
<1>1. TypeInv => NewLanesHoldSessions
  BY DEF TypeInv, ArrayHeld, BatchesHeld, JobsHeld, Held, NewLanesHoldSessions
<1> QED BY <1>1, TypeInvariant, PTL

-----------------------------------------------------------------------------
(* One place per request.  AtMostOneResponse and ValidatorHasSocket say    *)
(* nothing of the arrays, so neither is inductive: what keeps a second     *)
(* validator away from a session is that its request is in one place only, *)
(* although stale lanes still name it.                                     *)

NewLane(s, l) == l \in 1 .. pending /\ reqs[l] = s

BatchLane(s, b, l) == b \in batches /\ l \in 1 .. b.pending /\ b.reqs[l] = s

JobLane(s, v, l) ==
    /\ \/ job[v].pc = "answer" /\ l \in job[v].at .. job[v].pending
       \/ job[v].pc = "return" /\ l \in job[v].at + 1 .. job[v].pending
    /\ job[v].reqs[l] = s

InLane(s)  == \E l \in 1 .. Lanes : NewLane(s, l)
InBatch(s) == \E b \in batches, l \in 1 .. Lanes : BatchLane(s, b, l)
InJob(s)   == \E v \in Validators, l \in 1 .. Lanes : JobLane(s, v, l)
Waiting(s) == s \in q_ \/ InLane(s) \/ InBatch(s) \/ InJob(s)

OnePlace(s) ==
    /\ s \in q_ => ~InLane(s) /\ ~InBatch(s) /\ ~InJob(s)
    /\ InLane(s) => ~InBatch(s) /\ ~InJob(s)
    /\ InBatch(s) => ~InJob(s)
    /\ \A l, m \in 1 .. Lanes : NewLane(s, l) /\ NewLane(s, m) => l = m
    /\ \A b, c \in batches, l, m \in 1 .. Lanes :
          BatchLane(s, b, l) /\ BatchLane(s, c, m) => b = c /\ l = m
    /\ \A v, w \in Validators, l, m \in 1 .. Lanes :
          JobLane(s, v, l) /\ JobLane(s, w, m) => v = w /\ l = m

\* A session is written to once, and waits for that with a quiet socket.
QuietSocket(s) ==
    /\ writes[s] \in {0, 1}
    /\ peer[s] = "away" => op[s] = "none" /\ strand[s] = "idle"
                             /\ writes[s] = 0 /\ ~shut[s] /\ ~Waiting(s)
    /\ op[s] = "read" => strand[s] = "idle" /\ writes[s] = 0 /\ ~shut[s] /\ ~Waiting(s)
    /\ strand[s] = "handle" => op[s] = "none" /\ writes[s] = 0 /\ ~shut[s] /\ ~Waiting(s)
    /\ op[s] \in {"sending", "sent", "failed"} => writes[s] = 1
    /\ Waiting(s) => op[s] = "none" /\ writes[s] = 0 /\ ~shut[s]

PlaceInv ==
    /\ TypeInv
    /\ \A s \in Sessions : OnePlace(s) /\ QuietSocket(s)

LEMMA InitPlaceInv == Init => PlaceInv
<1> SUFFICES ASSUME Init PROVE PlaceInv
  OBVIOUS
<1>1. TypeInv
  BY InitTypeInv
<1>2. \A s \in Sessions : ~Waiting(s)
  BY DEF Init, Waiting, InLane, InBatch, InJob, NewLane, BatchLane, JobLane, IdleJob
<1>3. \A s \in Sessions : QuietSocket(s)
  BY <1>2 DEF Init, QuietSocket
<1>4. \A s \in Sessions : OnePlace(s)
  BY <1>2 DEF OnePlace, Waiting, InLane, InBatch, InJob
<1> QED BY <1>1, <1>3, <1>4 DEF PlaceInv

\* Passing a request on: it is nowhere it was not, and in one place still.
LEMMA PassedOn ==
    ASSUME PlaceInv, NEW s \in Sessions,
           \/ Dequeue \/ PostBatch
           \/ \E v \in Validators : TakeBatch(v) \/ NextLane(v)
    PROVE  OnePlace(s)' /\ (Waiting(s)' => Waiting(s))
<1> USE SessionAssumption
<1>t. TypeOK /\ LaneInBatch /\ OnePlace(s)
  BY DEF PlaceInv, TypeInv
<1>1. CASE Dequeue
  <2>1. PICK r \in q_ : /\ q_' = q_ \ {r}
                        /\ reqs' = [reqs EXCEPT ![pending + 1] = r]
    BY <1>1 DEF Dequeue
  <2>2. pending' = pending + 1 /\ pending + 1 \in 1 .. Lanes
        /\ UNCHANGED <<batches, job>>
    BY <1>1, <1>t DEF Dequeue, TypeOK
  <2>3. \A l \in 1 .. Lanes :
           NewLane(s, l)' <=> NewLane(s, l) \/ (l = pending + 1 /\ r = s)
    BY <2>1, <2>2, <1>t DEF NewLane, TypeOK, LaneArray
  <2>4. /\ InBatch(s)' = InBatch(s) /\ InJob(s)' = InJob(s)
        /\ \A b, l : BatchLane(s, b, l)' = BatchLane(s, b, l)
        /\ \A v, l : JobLane(s, v, l)' = JobLane(s, v, l)
    BY <2>2 DEF InBatch, InJob, BatchLane, JobLane
  <2>5. InLane(s)' <=> InLane(s) \/ r = s
    BY <2>2, <2>3 DEF InLane
  <2>6. s \in q_' <=> s \in q_ /\ s # r
    BY <2>1
  <2> QED BY <1>t, <2>1, <2>2, <2>3, <2>4, <2>5, <2>6 DEF OnePlace, Waiting, InLane
<1>2. CASE PostBatch
  <2> DEFINE p == [reqs |-> reqs, pending |-> pending]
  <2>1. /\ batches' = batches \cup {p} /\ pending' = 0
        /\ UNCHANGED <<q_, job, reqs>>
    BY <1>2 DEF PostBatch
  <2>2. \A l \in 1 .. Lanes : ~NewLane(s, l)'
    BY <2>1 DEF NewLane
  <2>3. \A b \in batches', l \in 1 .. Lanes :
           BatchLane(s, b, l)' <=> \/ b = p /\ NewLane(s, l)
                                   \/ BatchLane(s, b, l)
    BY <2>1 DEF BatchLane, NewLane
  <2>4. InJob(s)' = InJob(s) /\ \A v, l : JobLane(s, v, l)' = JobLane(s, v, l)
    BY <2>1 DEF InJob, JobLane
  <2>5. InBatch(s)' <=> InBatch(s) \/ InLane(s)
    BY <2>1, <2>3 DEF InBatch, InLane, BatchLane
  <2>6. ~InLane(s)'
    BY <2>2 DEF InLane
  <2> HIDE DEF p
  <2>7. \A b, c \in batches', l, m \in 1 .. Lanes :
          BatchLane(s, b, l)' /\ BatchLane(s, c, m)' => b = c /\ l = m
    <3> SUFFICES ASSUME NEW b \in batches', NEW c \in batches',
                        NEW l \in 1 .. Lanes, NEW m \in 1 .. Lanes,
                        BatchLane(s, b, l)', BatchLane(s, c, m)'
                 PROVE  b = c /\ l = m
      OBVIOUS
    <3>1. CASE BatchLane(s, b, l) /\ BatchLane(s, c, m)
      BY <1>t, <3>1 DEF OnePlace, BatchLane
    <3>2. CASE ~BatchLane(s, b, l)
      <4>1. b = p /\ NewLane(s, l) /\ ~InBatch(s)
        BY <1>t, <2>3, <3>2 DEF OnePlace, InLane
      <4>2. c = p /\ NewLane(s, m)
        BY <2>3, <4>1 DEF InBatch, BatchLane
      <4> QED BY <1>t, <4>1, <4>2 DEF OnePlace
    <3>3. CASE ~BatchLane(s, c, m)
      <4>1. c = p /\ NewLane(s, m) /\ ~InBatch(s)
        BY <1>t, <2>3, <3>3 DEF OnePlace, InLane
      <4>2. b = p /\ NewLane(s, l)
        BY <2>3, <4>1 DEF InBatch, BatchLane
      <4> QED BY <1>t, <4>1, <4>2 DEF OnePlace
    <3> QED BY <3>1, <3>2, <3>3
  <2> QED BY <1>t, <2>1, <2>2, <2>4, <2>5, <2>6, <2>7 DEF OnePlace, Waiting
<1>3. ASSUME NEW v \in Validators, TakeBatch(v)
      PROVE  OnePlace(s)' /\ (Waiting(s)' => Waiting(s))
  <2>1. PICK b \in batches :
          /\ batches' = batches \ {b}
          /\ job' = [job EXCEPT ![v] = [reqs |-> b.reqs, pending |-> b.pending,
                                       at |-> 1, pc |-> "answer"]]
    BY <1>3 DEF TakeBatch
  <2>2. job[v].pc = "idle" /\ UNCHANGED <<q_, reqs, pending>>
    BY <1>3 DEF TakeBatch
  <2>3. job \in [Validators -> Job]
    BY <1>t DEF TypeOK, Job
  <2>4. \A w \in Validators, l \in 1 .. Lanes :
           JobLane(s, w, l)' <=> \/ w = v /\ BatchLane(s, b, l)
                                \/ JobLane(s, w, l)
    <3>1. \A l \in 1 .. Lanes : JobLane(s, v, l)' <=> BatchLane(s, b, l)
      BY <2>1, <2>3 DEF JobLane, BatchLane
    <3>2. \A l \in 1 .. Lanes : ~JobLane(s, v, l)
      BY <2>2 DEF JobLane
    <3>3. \A w \in Validators \ {v}, l \in 1 .. Lanes :
             JobLane(s, w, l)' <=> JobLane(s, w, l)
      BY <2>1, <2>3 DEF JobLane
    <3> QED BY <3>1, <3>2, <3>3
  <2>5. \A c \in batches', l \in 1 .. Lanes :
           BatchLane(s, c, l)' <=> c # b /\ BatchLane(s, c, l)
    BY <2>1 DEF BatchLane
  <2>6. /\ InLane(s)' = InLane(s)
        /\ \A l : NewLane(s, l)' = NewLane(s, l)
    BY <2>2 DEF InLane, NewLane
  <2>7. /\ InBatch(s)' => InBatch(s)
        /\ InJob(s)' => InJob(s) \/ InBatch(s)
    BY <2>1, <2>4, <2>5 DEF InBatch, InJob
  <2>8. InBatch(s)' => ~InJob(s)'
    BY <1>t, <2>1, <2>4, <2>5 DEF InBatch, InJob, OnePlace, BatchLane
  <2>9. \A w, x \in Validators, l, m \in 1 .. Lanes :
          JobLane(s, w, l)' /\ JobLane(s, x, m)' => w = x /\ l = m
    BY <1>t, <2>1, <2>4 DEF OnePlace, InBatch, InJob
  <2> QED BY <1>t, <2>1, <2>2, <2>5, <2>6, <2>7, <2>8, <2>9 DEF OnePlace, Waiting
<1>4. ASSUME NEW v \in Validators, NextLane(v)
      PROVE  OnePlace(s)' /\ (Waiting(s)' => Waiting(s))
  <2>1. /\ job[v].pc = "return" /\ job' = [job EXCEPT ![v] = Onward(job[v])]
        /\ UNCHANGED <<q_, reqs, pending, batches>>
    BY <1>4 DEF NextLane
  <2>2. job \in [Validators -> Job] /\ job[v].at =< job[v].pending
    BY <1>t DEF TypeOK, Job, LaneInBatch
  <2>3. \A l \in 1 .. Lanes : JobLane(s, v, l)' => JobLane(s, v, l)
    BY <2>1, <2>2 DEF JobLane, Onward, Job, IdleJob
  <2>4. \A w \in Validators \ {v}, l \in 1 .. Lanes : JobLane(s, w, l)' <=> JobLane(s, w, l)
    BY <2>1, <2>2 DEF JobLane
  <2>5. InJob(s)' => InJob(s)
    BY <2>3, <2>4 DEF InJob
  <2>6. /\ InLane(s)' = InLane(s) /\ InBatch(s)' = InBatch(s)
        /\ \A l : NewLane(s, l)' = NewLane(s, l)
        /\ \A b, l : BatchLane(s, b, l)' = BatchLane(s, b, l)
    BY <2>1 DEF InLane, InBatch, NewLane, BatchLane
  <2> QED BY <1>t, <2>1, <2>3, <2>4, <2>5, <2>6 DEF OnePlace, Waiting
<1> QED BY <1>1, <1>2, <1>3, <1>4

\* Answering takes the request out of the only place it was in.
LEMMA Answered ==
    ASSUME PlaceInv, NEW v \in Validators, Answer(v), NEW s \in Sessions,
           NEW r \in Sessions, r = job[v].reqs[job[v].at]
    PROVE  /\ Waiting(r) /\ ~Waiting(r)'
           /\ OnePlace(s)' /\ (Waiting(s)' => Waiting(s))
<1>t. /\ TypeOK /\ LaneInBatch /\ OnePlace(s)
      /\ \A t \in Sessions : OnePlace(t)
  BY DEF PlaceInv, TypeInv
<1>1. /\ job[v].pc = "answer"
      /\ job' = [job EXCEPT ![v].pc = "return"]
      /\ UNCHANGED <<q_, reqs, pending, batches>>
  BY <1>t DEF Answer, TypeOK
<1>2. job \in [Validators -> Job] /\ job[v].at =< job[v].pending
  BY <1>t DEF TypeOK, Job, LaneInBatch
<1>3. job[v].at \in 1 .. Lanes /\ JobLane(r, v, job[v].at)
  BY <1>1, <1>2 DEF JobLane, Job
<1>4. \A t \in Sessions, w \in Validators, l \in 1 .. Lanes :
         JobLane(t, w, l)' => JobLane(t, w, l) /\ (w = v => l # job[v].at)
  BY <1>1, <1>2, SessionAssumption DEF JobLane, Job
<1>5. \A t \in Sessions :
         /\ InLane(t)' = InLane(t) /\ InBatch(t)' = InBatch(t)
         /\ \A l : NewLane(t, l)' = NewLane(t, l)
         /\ \A b, l : BatchLane(t, b, l)' = BatchLane(t, b, l)
         /\ InJob(t)' => InJob(t)
  BY <1>1, <1>4 DEF InLane, InBatch, InJob, NewLane, BatchLane
<1>6. OnePlace(s)' /\ (Waiting(s)' => Waiting(s))
  BY <1>t, <1>1, <1>4, <1>5 DEF OnePlace, Waiting
<1>7. Waiting(r) /\ InJob(r) /\ OnePlace(r)
  BY <1>t, <1>1, <1>3 DEF Waiting, InJob
<1>8. ~InJob(r)'
  BY <1>1, <1>3, <1>4, <1>7 DEF InJob, OnePlace
<1>9. ~Waiting(r)'
  BY <1>1, <1>5, <1>7, <1>8 DEF Waiting, OnePlace
<1> QED BY <1>1, <1>6, <1>7, <1>9

\* On the strand only Enqueue touches a request.
LEMMA OffStrand ==
    ASSUME PlaceInv, UNCHANGED handlerVars, NEW s \in Sessions
    PROVE  OnePlace(s)' /\ Waiting(s)' = Waiting(s)
BY DEF PlaceInv, handlerVars, OnePlace, Waiting, InLane, InBatch, InJob, NewLane,
   BatchLane, JobLane

LEMMA StrandStepPlace == PlaceInv /\ StrandStep => PlaceInv'
<1> SUFFICES ASSUME PlaceInv, StrandStep PROVE PlaceInv'
  OBVIOUS
<1>t. TypeInv' /\ TypeOK
  BY StrandStepType DEF PlaceInv, TypeInv
<1> PICK s \in Sessions :
        Accept(s) \/ PeerLeaves(s) \/ OnRead(s) \/ OnReadFails(s) \/ Respond(s)
        \/ Enqueue(s) \/ Return(s) \/ OnWrite(s) \/ SendRest(s)
  BY DEF StrandStep
<1>1. CASE Enqueue(s)
  <2>1. /\ strand[s] = "handle" /\ (q_' = q_ \cup {s} \/ q_' = q_)
        /\ strand' = [strand EXCEPT ![s] = "queued"]
        /\ UNCHANGED <<peer, op, writes, shut, reqs, pending, batches, job>>
    BY <1>1 DEF Enqueue, socketVars
  <2>2. QuietSocket(s) /\ ~Waiting(s)
    BY <2>1 DEF PlaceInv, QuietSocket
  <2>3. \A t \in Sessions :
           /\ InLane(t)' = InLane(t) /\ InBatch(t)' = InBatch(t) /\ InJob(t)' = InJob(t)
           /\ \A l : NewLane(t, l)' = NewLane(t, l)
           /\ \A b, l : BatchLane(t, b, l)' = BatchLane(t, b, l)
           /\ \A v, l : JobLane(t, v, l)' = JobLane(t, v, l)
    BY <2>1 DEF InLane, InBatch, InJob, NewLane, BatchLane, JobLane
  <2>4. \A t \in Sessions : OnePlace(t)'
    BY <2>1, <2>2, <2>3 DEF PlaceInv, OnePlace, Waiting
  <2>5. \A t \in Sessions : t # s => Waiting(t)' = Waiting(t)
    BY <2>1, <2>3 DEF Waiting
  <2>6. \A t \in Sessions : QuietSocket(t)'
    BY <1>t, <2>1, <2>2, <2>5 DEF PlaceInv, QuietSocket, TypeOK
  <2> QED BY <1>t, <2>4, <2>6 DEF PlaceInv
<1>2. ASSUME UNCHANGED handlerVars, \A t \in Sessions : QuietSocket(t)' PROVE PlaceInv'
  BY <1>t, <1>2, OffStrand DEF PlaceInv
<1>3. ASSUME UNCHANGED handlerVars PROVE \A t \in Sessions : Waiting(t)' = Waiting(t)
  BY <1>3, OffStrand
<1>4. \A t \in Sessions : QuietSocket(t)
  BY DEF PlaceInv
<1>5. CASE Accept(s) \/ PeerLeaves(s)
  BY <1>t, <1>2, <1>3, <1>4, <1>5 DEF Accept, PeerLeaves, QuietSocket, TypeOK
<1>6. CASE OnRead(s) \/ OnReadFails(s)
  BY <1>t, <1>2, <1>3, <1>4, <1>6 DEF OnRead, OnReadFails, QuietSocket, TypeOK
<1>7. CASE Respond(s)
  BY <1>t, <1>2, <1>3, <1>4, <1>7 DEF Respond, DoWrite, QuietSocket, TypeOK
<1>8. CASE Return(s)
  BY <1>t, <1>2, <1>3, <1>4, <1>8 DEF Return, QuietSocket, TypeOK
<1>9. CASE OnWrite(s) \/ SendRest(s)
  BY <1>t, <1>2, <1>3, <1>4, <1>9 DEF OnWrite, SendRest, QuietSocket, TypeOK
<1> QED BY <1>1, <1>5, <1>6, <1>7, <1>8, <1>9

LEMMA HandlerStepPlace ==
    ASSUME PlaceInv,
           Dequeue \/ PostBatch \/ \E v \in Validators : Validate(v)
    PROVE  PlaceInv'
<1>t. TypeInv' /\ TypeOK /\ \A s \in Sessions : QuietSocket(s)
  BY HandlerStepType DEF PlaceInv, TypeInv
<1>1. CASE \/ Dequeue \/ PostBatch
           \/ \E v \in Validators : TakeBatch(v) \/ NextLane(v)
  <2>1. \A s \in Sessions : OnePlace(s)' /\ (Waiting(s)' => Waiting(s))
    BY <1>1, PassedOn
  <2>2. UNCHANGED <<peer, op, strand, writes, shut>>
    BY <1>1 DEF Dequeue, PostBatch, TakeBatch, NextLane, socketVars
  <2>3. \A s \in Sessions : QuietSocket(s)'
    BY <1>t, <2>1, <2>2 DEF QuietSocket
  <2> QED BY <1>t, <2>1, <2>3 DEF PlaceInv
<1>2. ASSUME NEW v \in Validators, Answer(v) PROVE PlaceInv'
  <2> PICK r \in Sessions : r = job[v].reqs[job[v].at]
    BY <1>2 DEF Answer
  <2>1. /\ Waiting(r) /\ ~Waiting(r)'
        /\ \A s \in Sessions : OnePlace(s)' /\ (Waiting(s)' => Waiting(s))
    BY <1>2, Answered
  <2>2. DoWrite(r) /\ UNCHANGED <<peer, strand, shut>>
    BY <1>2 DEF Answer
  <2>3. /\ op[r] = "none" /\ writes[r] = 0
        /\ writes' = [writes EXCEPT ![r] = @ + 1]
        /\ \E outcome \in {"sending", "sent", "failed"} : op' = [op EXCEPT ![r] = outcome]
    BY <1>t, <2>1, <2>2 DEF QuietSocket, DoWrite
  <2>4. writes'[r] = 1 /\ op'[r] \in {"sending", "sent", "failed"}
    BY <1>t, <2>1, <2>3 DEF TypeOK
  <2>5. \A s \in Sessions \ {r} : writes'[s] = writes[s] /\ op'[s] = op[s]
    BY <1>t, <2>3 DEF TypeOK
  <2>6. peer[r] # "away" /\ strand[r] # "handle"
    BY <1>t, <2>1 DEF QuietSocket
  <2>7. QuietSocket(r)'
    BY <2>1, <2>2, <2>4, <2>6 DEF QuietSocket
  <2>8. \A s \in Sessions \ {r} : QuietSocket(s)'
    BY <1>t, <2>1, <2>2, <2>5 DEF QuietSocket
  <2> QED BY <1>t, <2>1, <2>7, <2>8 DEF PlaceInv
<1> QED BY <1>1, <1>2 DEF Validate

LEMMA StepPlaceInv == PlaceInv /\ [Next]_vars => PlaceInv'
<1> SUFFICES ASSUME PlaceInv, [Next]_vars PROVE PlaceInv'
  OBVIOUS
<1>1. CASE UNCHANGED vars
  <2>1. UNCHANGED handlerVars /\ UNCHANGED <<peer, op, strand, writes, shut>>
    BY <1>1 DEF vars, socketVars
  <2>2. TypeInv'
    BY <1>1, StepTypeInv DEF PlaceInv
  <2>3. \A s \in Sessions : OnePlace(s)' /\ Waiting(s)' = Waiting(s)
    BY <2>1, OffStrand
  <2> QED BY <2>1, <2>2, <2>3 DEF PlaceInv, QuietSocket
<1> QED BY <1>1, NextSplit, StrandStepPlace, HandlerStepPlace

LEMMA PlaceInvariant == Spec => []PlaceInv
BY InitPlaceInv, StepPlaceInv, PTL DEF Spec

\* However requests are batched, and whatever arrays still name it, a
\* connection is never given a second response (do_write).
THEOREM RespondsOnce == Spec => []AtMostOneResponse
<1>1. PlaceInv => AtMostOneResponse
  BY DEF PlaceInv, QuietSocket, AtMostOneResponse
<1> QED BY <1>1, PlaceInvariant, PTL

\* A validator that is about to write, outside the strand, finds the socket of
\* its session quiet (write_ok, do_write).
THEOREM SocketIsValidators == Spec => []ValidatorHasSocket
<1>1. PlaceInv => ValidatorHasSocket
  <2> SUFFICES ASSUME PlaceInv, NEW v \in Validators, job[v].pc = "answer",
                      job[v].reqs[job[v].at] \in Sessions
               PROVE  LET s == job[v].reqs[job[v].at]
                      IN op[s] = "none" /\ strand[s] # "handle" /\ ~shut[s]
    BY DEF ValidatorHasSocket
  <2> DEFINE s == job[v].reqs[job[v].at]
  <2>1. job[v] \in Job /\ job[v].at =< job[v].pending
    BY DEF PlaceInv, TypeInv, TypeOK, LaneInBatch, Job
  <2>2. job[v].at \in 1 .. Lanes /\ JobLane(s, v, job[v].at)
    BY <2>1 DEF JobLane, Job
  <2>3. Waiting(s)
    BY <2>2 DEF Waiting, InJob
  <2> QED BY <2>3 DEF PlaceInv, QuietSocket
<1> QED BY <1>1, PlaceInvariant, PTL
=============================================================================
