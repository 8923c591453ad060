----------------------- MODULE ConcurrentQueue_proofs ------------------------
(***************************************************************************)
(* Machine-checked proofs about the request queue: a thread has one        *)
(* sub-queue, tables keep room, and a poll that is alone overlooks nothing.*)
(***************************************************************************)
EXTENDS ConcurrentQueue, FiniteSetTheorems, SequenceTheorems,
        WellFoundedInduction, NaturalsInduction, TLAPS

-----------------------------------------------------------------------------
(* Linked lists                                                            *)

\* A closed set that holds the first node holds the list.
LEMMA ReachLeast ==
    ASSUME NEW link, NEW nil, NEW nodes, NEW x, NEW S \in SUBSET nodes,
           x \in S \cup {nil}, Closed(link, nil, S)
    PROVE  Reach(link, nil, nodes, x) \subseteq S
BY DEF Reach

\* A list holds its first node, and with a node the next one.
LEMMA ReachClosed ==
    ASSUME NEW nil, NEW nodes, NEW link \in [nodes -> nodes \cup {nil}],
           NEW x \in nodes \cup {nil}
    PROVE  /\ Reach(link, nil, nodes, x) \in SUBSET nodes
           /\ x \in Reach(link, nil, nodes, x) \cup {nil}
           /\ Closed(link, nil, Reach(link, nil, nodes, x))
<1>1. Reach(link, nil, nodes, x) \in SUBSET nodes
  BY DEF Reach
<1>2. x \in Reach(link, nil, nodes, x) \cup {nil}
  BY DEF Reach
<1>3. ASSUME NEW n \in Reach(link, nil, nodes, x), link[n] # nil
      PROVE  link[n] \in Reach(link, nil, nodes, x)
  BY <1>3 DEF Reach, Closed
<1> QED BY <1>1, <1>2, <1>3 DEF Closed

\* What is behind a node of a list is on the list.
LEMMA ReachBehind ==
    ASSUME NEW nil, NEW nodes, NEW link \in [nodes -> nodes \cup {nil}],
           NEW x \in nodes \cup {nil}, NEW n \in Reach(link, nil, nodes, x)
    PROVE  Reach(link, nil, nodes, link[n]) \subseteq Reach(link, nil, nodes, x)
<1> DEFINE R == Reach(link, nil, nodes, x)
<1>1. R \in SUBSET nodes /\ Closed(link, nil, R)
  BY ReachClosed
<1>2. link[n] \in R \cup {nil}
  BY <1>1 DEF Closed
<1> HIDE DEF R
<1>3. Reach(link, nil, nodes, link[n]) \subseteq R
  BY <1>1, <1>2, ReachLeast
<1> QED BY <1>3 DEF R

\* The list that starts at a node of a list is part of it.
LEMMA ReachFrom ==
    ASSUME NEW nil, NEW nodes, NEW link \in [nodes -> nodes \cup {nil}],
           NEW x \in nodes \cup {nil}, NEW n \in Reach(link, nil, nodes, x)
    PROVE  Reach(link, nil, nodes, n) \subseteq Reach(link, nil, nodes, x)
<1> DEFINE R == Reach(link, nil, nodes, x)
<1>1. R \in SUBSET nodes /\ Closed(link, nil, R) /\ n \in R
  BY ReachClosed
<1> HIDE DEF R
<1>2. Reach(link, nil, nodes, n) \subseteq R
  BY <1>1, ReachLeast
<1> QED BY <1>2 DEF R

\* There is nothing after the end.
LEMMA ReachNil ==
    ASSUME NEW link, NEW nil, NEW nodes
    PROVE  Reach(link, nil, nodes, nil) = {}
<1>1. Closed(link, nil, {})
  BY DEF Closed
<1> QED BY <1>1 DEF Reach

\* A list is its first node and what is behind that.
LEMMA ReachFirst ==
    ASSUME NEW nil, NEW nodes, NEW link \in [nodes -> nodes \cup {nil}],
           NEW x \in nodes, nil \notin nodes
    PROVE  Reach(link, nil, nodes, x) = {x} \cup Reach(link, nil, nodes, link[x])
<1> DEFINE R == Reach(link, nil, nodes, x)
           B == Reach(link, nil, nodes, link[x])
<1>1. /\ R \in SUBSET nodes /\ x \in R \cup {nil} /\ Closed(link, nil, R)
      /\ B \in SUBSET nodes /\ link[x] \in B \cup {nil} /\ Closed(link, nil, B)
  BY ReachClosed
<1>2. x \in R
  BY <1>1
<1>3. B \subseteq R
  BY <1>2, ReachBehind
<1>4. R \subseteq {x} \cup B
  <2> HIDE DEF B
  <2>1. Closed(link, nil, {x} \cup B)
    BY <1>1 DEF Closed
  <2> QED BY <1>1, <2>1, ReachLeast
<1> QED BY <1>2, <1>3, <1>4

\* Setting the link of a node elsewhere does not change a list.
LEMMA ReachSetLink ==
    ASSUME NEW nil, NEW nodes, NEW link \in [nodes -> nodes \cup {nil}],
           NEW link2 \in [nodes -> nodes \cup {nil}],
           NEW x \in nodes \cup {nil}, NEW n \in nodes,
           \A k \in nodes \ {n} : link2[k] = link[k],
           n \notin Reach(link, nil, nodes, x)
    PROVE  Reach(link2, nil, nodes, x) = Reach(link, nil, nodes, x)
<1> DEFINE R == Reach(link, nil, nodes, x)
           R2 == Reach(link2, nil, nodes, x)
<1>1. /\ R \in SUBSET nodes /\ x \in R \cup {nil} /\ Closed(link, nil, R)
      /\ R2 \in SUBSET nodes /\ x \in R2 \cup {nil} /\ Closed(link2, nil, R2)
  BY ReachClosed
<1>2. n \notin R
  OBVIOUS
<1> HIDE DEF R, R2
<1>3. Closed(link2, nil, R)
  BY <1>1, <1>2 DEF Closed
<1>4. R2 \subseteq R
  BY <1>1, <1>3, ReachLeast DEF R2
<1>5. Closed(link, nil, R2)
  BY <1>1, <1>2, <1>4 DEF Closed
<1>6. R \subseteq R2
  BY <1>1, <1>5, ReachLeast DEF R
<1> QED BY <1>4, <1>6 DEF R, R2

\* New nodes that no list leads to do not change a list.
LEMMA ReachGrow ==
    ASSUME NEW nil, NEW nodes, NEW link \in [nodes -> nodes \cup {nil}],
           NEW nodes2, nodes \subseteq nodes2, nil \notin nodes2,
           NEW link2 \in [nodes2 -> nodes2 \cup {nil}],
           \A k \in nodes : link2[k] = link[k], NEW x \in nodes \cup {nil}
    PROVE  Reach(link2, nil, nodes2, x) = Reach(link, nil, nodes, x)
<1> DEFINE R == Reach(link, nil, nodes, x)
           R2 == Reach(link2, nil, nodes2, x)
<1>1. /\ R \in SUBSET nodes /\ x \in R \cup {nil} /\ Closed(link, nil, R)
      /\ R2 \in SUBSET nodes2 /\ x \in R2 \cup {nil} /\ Closed(link2, nil, R2)
  BY ReachClosed
<1> HIDE DEF R, R2
<1>2. R \in SUBSET nodes2 /\ Closed(link2, nil, R)
  BY <1>1 DEF Closed
<1>3. R2 \subseteq R
  BY <1>1, <1>2, ReachLeast DEF R2
<1>4. R2 \in SUBSET nodes /\ Closed(link, nil, R2)
  BY <1>1, <1>3 DEF Closed
<1>5. R \subseteq R2
  BY <1>1, <1>4, ReachLeast DEF R
<1> QED BY <1>3, <1>5 DEF R, R2

-----------------------------------------------------------------------------
(* The inductive invariant                                                 *)

\* Where a thread is counted and has no sub-queue; where it looks for one.
Pending == {"resize", "again", "allocate", "clear", "create"}
Making == {"count_up", "give_up"} \cup Pending

\* Where a thread has a place in the main table it looked at, and where it
\* has a sub-queue that this table does not know.
Placed == {"create", "link", "insert"}
Labels == {"idle", "enqueue", "link", "insert"} \cup Making

\* Tables of n slots.
Tables(n) == [key : [0 .. n - 1 -> Threads \cup {NoThread}],
              value : [0 .. n - 1 -> Nat]]

Sizes == Nat \ {0, 1}

\* The search for x ends at its k-th slot.
FoundAt(h, x, k) ==
    /\ k \in 0 .. Capacity(h) - 1
    /\ h.key[ProbeAt(h, x, k)] = x
    /\ \A j \in 0 .. k - 1 : h.key[ProbeAt(h, x, j)] \notin {x, NoThread}

Has(h, t) == \E s \in DOMAIN h.key : h.key[s] = t

\* A key is found in the slot it is in, and its sub-queue is the thread's.
KeyOK(h, own, s) ==
    LET t == h.key[s]
    IN  /\ \E k \in 0 .. Capacity(h) - 1 : ProbeAt(h, t, k) = s /\ FoundAt(h, t, k)
        /\ h.value[s] \in DOMAIN own
        /\ own[h.value[s]] = t

TableOK(h, own) ==
    /\ \E n \in Sizes : h \in Tables(n)
    /\ \A s \in DOMAIN h.key : h.key[s] # NoThread => KeyOK(h, own, s)
    /\ \A s \in DOMAIN h.key : h.value[s] \in DOMAIN own \cup {0}

TablesInv ==
    /\ tables \in Seq(UNION {Tables(n) : n \in Sizes})
    /\ tables # <<>>
    /\ \A i \in DOMAIN tables : TableOK(tables[i], owner)
    /\ \A i, j \in DOMAIN tables :
          i <= j => Capacity(tables[i]) <= Capacity(tables[j])

\* The list of producers, and who made them.
Linking == {th[t].prod : t \in {u \in Threads : th[u].pc = "link"}}

Calls == Threads \X Nat

ListInv ==
    /\ owner \in Seq(Threads)
    /\ next \in Seq(Nat) /\ Len(next) = Len(owner)
    /\ q \in Seq(Seq(Calls)) /\ Len(q) = Len(owner)
    /\ listTail \in Producers \cup {0}
    /\ \A p \in Producers : next[p] \in Producers \cup {0}
    /\ \A p, r \in Producers : p # r => owner[p] # owner[r]
    /\ Reachable = Producers \ Linking

Known(t) == \E i \in DOMAIN tables : Has(tables[i], t)

Owns(t) == \E p \in Producers : owner[p] = t

ThreadOK(t) ==
    /\ th[t].pc \in Making => ~Owns(t)
    /\ th[t].pc \in (Making \cup Placed) \ {"give_up"} => th[t].main \in DOMAIN tables
    /\ th[t].pc \in {"link", "insert", "enqueue"} =>
          th[t].prod \in Producers /\ owner[th[t].prod] = t
    /\ th[t].pc = "link" => ~Known(t) /\ q[th[t].prod] = <<>>
    /\ th[t].pc = "insert" => ~Has(tables[th[t].main], t)
    /\ th[t].pc \in {"idle", "enqueue"} /\ Owns(t) => Known(t)

Locals == [pc : Labels, main : Nat, count : Nat, prod : Nat]

ThreadsInv ==
    /\ th \in [Threads -> Locals]
    /\ calls \in [Threads -> Nat]
    /\ \A t \in Threads : ThreadOK(t)

Counted == {t \in Threads : th[t].pc \in Pending \/ Owns(t)}

Limit(h) == Capacity(h) \div 2 + Capacity(h) \div 4

\* Counted threads in an order in which each is within the count it read and
\* within the limit of the tables that know it or that it has a place in.
RankAt(t, n) ==
    /\ th[t].pc \in Pending => n <= th[t].count
    /\ th[t].pc \in Placed => n < Limit(tables[th[t].main])
    /\ \A i \in DOMAIN tables : Has(tables[i], t) => n < Limit(tables[i])

RankOK(r) ==
    /\ r \in [Counted -> 1 .. hashCount]
    /\ \A t, u \in Counted : t # u => r[t] # r[u]
    /\ \A t \in Counted : RankAt(t, r[t])

CountInv ==
    /\ hashCount = Cardinality(Counted)
    /\ resizing \in BOOLEAN
    /\ \E r : RankOK(r)

QueueInv == TablesInv /\ ListInv /\ ThreadsInv /\ CountInv

-----------------------------------------------------------------------------
(* Numbers                                                                 *)

\* A set of numbers has a least one.
LEMMA NatLeast ==
    ASSUME NEW S \in SUBSET Nat, S # {}
    PROVE  \E x \in S : \A y \in S : x <= y
<1>1. \E x \in S : \A y \in S : ~(<<y, x>> \in OpToRel(<, Nat))
  BY NatLessThanWellFounded, WFMin
<1>2. PICK x \in S : \A y \in S : ~(<<y, x>> \in OpToRel(<, Nat))
  BY <1>1
<1>3. ASSUME NEW y \in S, y < x PROVE FALSE
  <2>1. <<y, x>> \in OpToRel(<, Nat)
    BY <1>3 DEF OpToRel
  <2> QED BY <1>2, <2>1
<1>4. \A y \in S : x <= y
  BY <1>3
<1> QED BY <1>4

\* Division with remainder.
LEMMA ModDef ==
    ASSUME NEW n \in Nat, n > 0, NEW a \in Int
    PROVE  a % n \in 0 .. n-1 /\ a \div n \in Int /\ a = n * (a \div n) + (a % n)
<1>1. a \div n \in Int /\ a % n \in 0 .. n-1
  OBVIOUS
<1>2. a = n * (a \div n) + (a % n)
  OBVIOUS
<1> QED BY <1>1, <1>2

\* A multiple is not less than the number.
LEMMA MulMono ==
    ASSUME NEW n \in Nat, n > 0, NEW d \in Int, d > 0
    PROVE  n * d >= n
<1>1. n * (d - 1) >= 0
  OBVIOUS
<1>2. n * (d - 1) = n * d - n
  OBVIOUS
<1> QED BY <1>1, <1>2

\* The remainder is the only one.
LEMMA ModUnique ==
    ASSUME NEW n \in Nat, n > 0, NEW a \in Int, NEW b \in 0 .. n-1, NEW k \in Int, a = n * k + b
    PROVE  a % n = b
<1>1. PICK d \in Int, r \in 0 .. n-1 : r = a % n /\ d = a \div n /\ a = n * d + r
  BY ModDef
<1>2. n * (d - k) = b - r /\ n * (k - d) = r - b
  BY <1>1
<1>3. ~(d > k)
  <2>1. d > k => n * (d - k) >= n
    BY MulMono
  <2> QED BY <1>2, <2>1
<1>4. ~(k > d)
  <2>1. k > d => n * (k - d) >= n
    BY MulMono
  <2> QED BY <1>2, <2>1
<1> QED BY <1>1, <1>3, <1>4

\* Counting on from h round a table of n slots reaches every slot.
LEMMA Wrap ==
    ASSUME NEW n \in Nat, n > 0, NEW h \in Nat, NEW s \in 0 .. n - 1
    PROVE  \E k \in 0 .. n - 1 : (h + k) % n = s
<1> DEFINE k == (s - h) % n
<1>1. k \in 0 .. n-1 /\ s - h = n * ((s - h) \div n) + k /\ ((s - h) \div n) \in Int
  BY ModDef
<1> DEFINE d == (s - h) \div n
<1> HIDE DEF k, d
<1>2. d \in Int /\ k \in 0 .. n-1 /\ s - h = n * d + k
  BY <1>1 DEF d
<1>3. PICK e \in Int : e = - d /\ h + k = n * e + s
  BY <1>2
<1>4. h + k \in Int
  BY <1>2
<1>5. (h + k) % n = s
  BY <1>3, <1>4, ModUnique
<1> QED BY <1>2, <1>5

-----------------------------------------------------------------------------
(* Tables                                                                  *)

LEMMA TableSize ==
    ASSUME NEW n \in Nat, NEW h \in Tables(n)
    PROVE  /\ DOMAIN h.key = 0 .. n - 1 /\ Capacity(h) = n /\ IsFiniteSet(0 .. n - 1)
           /\ h.key \in [0 .. n - 1 -> Threads \cup {NoThread}]
           /\ h.value \in [0 .. n - 1 -> Nat]
<1>1. /\ DOMAIN h.key = 0 .. n - 1
      /\ h.key \in [0 .. n - 1 -> Threads \cup {NoThread}]
      /\ h.value \in [0 .. n - 1 -> Nat]
  BY DEF Tables
<1>2. Cardinality(0 .. n - 1) = n /\ IsFiniteSet(0 .. n - 1)
  BY FS_Interval
<1> QED BY <1>1, <1>2 DEF Capacity

\* Every slot is probed.
LEMMA ProbeSlots ==
    ASSUME NEW n \in Sizes, NEW h \in Tables(n), NEW t \in Threads
    PROVE  /\ \A k \in Nat : ProbeAt(h, t, k) \in 0 .. n - 1
           /\ \A s \in 0 .. n - 1 : \E k \in 0 .. n - 1 : ProbeAt(h, t, k) = s
<1>1. /\ Capacity(h) = n /\ n \in Nat /\ n > 0 /\ hash_thread_id[t] \in Nat
  BY TableSize, QueueAssumption DEF Sizes
<1>2. ASSUME NEW k \in Nat PROVE ProbeAt(h, t, k) \in 0 .. n - 1
  <2>1. hash_thread_id[t] + k \in Int
    BY <1>1
  <2> QED BY <1>1, <2>1, ModDef DEF ProbeAt
<1>3. ASSUME NEW s \in 0 .. n - 1 PROVE \E k \in 0 .. n - 1 : ProbeAt(h, t, k) = s
  BY <1>1, Wrap DEF ProbeAt
<1> QED BY <1>2, <1>3

\* The number of probes before x is met.
LEMMA ProbesLeast ==
    ASSUME NEW n \in Sizes, NEW h \in Tables(n), NEW t \in Threads, NEW x
    PROVE  /\ Probes(h, t, x) \in 0 .. n
           /\ Probes(h, t, x) < n => h.key[ProbeAt(h, t, Probes(h, t, x))] = x
           /\ \A j \in 0 .. n - 1 : h.key[ProbeAt(h, t, j)] = x => Probes(h, t, x) <= j
<1> DEFINE hits == {k \in 0 .. Capacity(h) - 1 : h.key[ProbeAt(h, t, k)] = x}
           P(k) == k \in hits /\ \A j \in hits : k <= j
<1>1. Capacity(h) = n /\ n \in Nat
  BY TableSize DEF Sizes
<1>2. Probes(h, t, x) = IF hits = {} THEN n ELSE CHOOSE k \in hits : \A j \in hits : k <= j
  BY <1>1 DEF Probes
<1>3. CASE hits = {}
  BY <1>1, <1>2, <1>3
<1>4. CASE hits # {}
  <2>1. hits \in SUBSET Nat
    BY <1>1
  <2>2. \E k \in hits : \A j \in hits : k <= j
    <3> HIDE DEF hits
    <3> QED BY <1>4, <2>1, NatLeast
  <2>3. P(Probes(h, t, x))
    <3> HIDE DEF hits
    <3> QED BY <1>2, <1>4, <2>2
  <2> QED BY <1>1, <2>3
<1> QED BY <1>3, <1>4

LEMMA FoundHolds ==
    ASSUME NEW n \in Sizes, NEW h \in Tables(n), NEW t \in Threads, NEW k, FoundAt(h, t, k)
    PROVE  Holds(h, t) /\ Probes(h, t, t) = k
<1> DEFINE a == Probes(h, t, t)
           b == Probes(h, t, NoThread)
<1>1. /\ Capacity(h) = n /\ n \in Nat /\ k \in 0 .. n - 1
      /\ h.key[ProbeAt(h, t, k)] = t /\ t # NoThread
      /\ \A j \in 0 .. k - 1 : h.key[ProbeAt(h, t, j)] \notin {t, NoThread}
  BY TableSize, QueueAssumption DEF Sizes, FoundAt
<1>2. a \in 0 .. n /\ a <= k /\ (a < n => h.key[ProbeAt(h, t, a)] = t)
  BY <1>1, ProbesLeast
<1>3. b \in 0 .. n /\ (b < n => h.key[ProbeAt(h, t, b)] = NoThread)
  BY ProbesLeast
<1> HIDE DEF a, b
<1>4. a = k
  BY <1>1, <1>2
<1>5. a < b
  BY <1>1, <1>3, <1>4
<1> QED BY <1>4, <1>5 DEF Holds, a, b

\* A search finds a key that is there, with the thread's sub-queue.
LEMMA SearchFinds ==
    ASSUME NEW h, NEW own, TableOK(h, own), NEW t \in Threads
    PROVE  /\ Holds(h, t) <=> Has(h, t)
           /\ Holds(h, t) => ValueFor(h, t) \in DOMAIN own /\ own[ValueFor(h, t)] = t
           /\ \A a, b \in DOMAIN h.key : h.key[a] = t /\ h.key[b] = t => a = b
<1>1. PICK n \in Sizes : h \in Tables(n)
  BY DEF TableOK
<1>2. DOMAIN h.key = 0 .. n - 1 /\ n \in Nat /\ Capacity(h) = n /\ t # NoThread
  BY <1>1, TableSize, QueueAssumption DEF Sizes
<1>3. ASSUME NEW s \in DOMAIN h.key, h.key[s] = t
      PROVE  /\ Holds(h, t) /\ ProbeAt(h, t, Probes(h, t, t)) = s
             /\ h.value[s] \in DOMAIN own /\ own[h.value[s]] = t
  <2>1. KeyOK(h, own, s)
    BY <1>2, <1>3 DEF TableOK
  <2>2. PICK k \in 0 .. n - 1 : ProbeAt(h, t, k) = s /\ FoundAt(h, t, k)
    BY <1>2, <1>3, <2>1 DEF KeyOK
  <2>3. Holds(h, t) /\ Probes(h, t, t) = k
    BY <1>1, <2>2, FoundHolds
  <2> QED BY <1>3, <2>1, <2>2, <2>3 DEF KeyOK
<1>4. ASSUME Holds(h, t)
      PROVE  /\ ProbeAt(h, t, Probes(h, t, t)) \in DOMAIN h.key
             /\ h.key[ProbeAt(h, t, Probes(h, t, t))] = t
  <2>1. Probes(h, t, t) \in 0 .. n /\ Probes(h, t, NoThread) \in 0 .. n
    BY <1>1, ProbesLeast
  <2>2. Probes(h, t, t) \in Nat /\ Probes(h, t, t) < n
    BY <1>2, <1>4, <2>1 DEF Holds
  <2>3. h.key[ProbeAt(h, t, Probes(h, t, t))] = t
    BY <1>1, <2>2, ProbesLeast
  <2> QED BY <1>1, <1>2, <2>2, <2>3, ProbeSlots
<1>5. Holds(h, t) <=> Has(h, t)
  BY <1>3, <1>4 DEF Has
<1>6. Holds(h, t) => ValueFor(h, t) \in DOMAIN own /\ own[ValueFor(h, t)] = t
  BY <1>3, <1>4 DEF ValueFor
<1> QED BY <1>3, <1>5, <1>6

\* A key that is put into a table with room is found there, and all others
\* still are.
LEMMA PutKeeps ==
    ASSUME NEW h, NEW own, TableOK(h, own), NEW n \in Sizes, h \in Tables(n), HasRoom(h),
           NEW t \in Threads, ~Has(h, t), NEW p \in Nat, p \in DOMAIN own, own[p] = t
    PROVE  /\ Put(h, t, p) \in Tables(n) /\ TableOK(Put(h, t, p), own)
           /\ \A u \in Threads : Has(Put(h, t, p), u) <=> Has(h, u) \/ u = t
<1> DEFINE b == Probes(h, t, NoThread)
           i == ProbeAt(h, t, b)
           h2 == Put(h, t, p)
<1>1. /\ DOMAIN h.key = 0 .. n - 1 /\ n \in Nat /\ n > 0 /\ Capacity(h) = n
      /\ h.key \in [0 .. n - 1 -> Threads \cup {NoThread}]
      /\ h.value \in [0 .. n - 1 -> Nat] /\ NoThread \notin Threads
  BY TableSize, QueueAssumption DEF Sizes
<1>2. /\ b \in 0 .. n - 1
      /\ \A j \in 0 .. b - 1 : h.key[ProbeAt(h, t, j)] # NoThread
  <2>1. PICK s \in 0 .. n - 1 : h.key[s] = NoThread
    BY <1>1 DEF HasRoom
  <2>2. PICK k \in 0 .. n - 1 : ProbeAt(h, t, k) = s
    BY ProbeSlots
  <2>3. b <= k /\ b \in 0 .. n
    BY <2>1, <2>2, ProbesLeast
  <2>4. \A j \in 0 .. n - 1 : h.key[ProbeAt(h, t, j)] = NoThread => b <= j
    BY ProbesLeast
  <2> HIDE DEF b
  <2>5. b \in 0 .. n - 1
    BY <1>1, <2>3
  <2>6. ASSUME NEW j \in 0 .. b - 1 PROVE h.key[ProbeAt(h, t, j)] # NoThread
    <3>1. j \in 0 .. n - 1 /\ ~(b <= j)
      BY <1>1, <2>5
    <3> QED BY <2>4, <3>1
  <2> QED BY <2>5, <2>6
<1>3. i \in 0 .. n - 1 /\ h.key[i] = NoThread
  <2>1. b \in Nat /\ b < n
    BY <1>1, <1>2
  <2> QED BY <2>1, ProbeSlots, ProbesLeast
<1> HIDE DEF b, i
<1>4. /\ h2 = [key |-> [h.key EXCEPT ![i] = t], value |-> [h.value EXCEPT ![i] = p]]
      /\ \A u \in Threads, k \in Nat : ProbeAt(h, u, k) \in 0 .. n - 1
  BY ProbeSlots DEF Put, i, b
<1> HIDE DEF h2
<1>5. h2 \in Tables(n)
  <2>1. /\ [h.key EXCEPT ![i] = t] \in [0 .. n - 1 -> Threads \cup {NoThread}]
        /\ [h.value EXCEPT ![i] = p] \in [0 .. n - 1 -> Nat]
    BY <1>1, <1>3
  <2> QED BY <1>4, <2>1 DEF Tables
<1>6. Capacity(h2) = n /\ DOMAIN h2.key = 0 .. n - 1
  BY <1>1, <1>5, TableSize
<1>7. \A u, k : ProbeAt(h2, u, k) = ProbeAt(h, u, k)
  BY <1>1, <1>6 DEF ProbeAt
<1>8. /\ h2.key[i] = t /\ h2.value[i] = p
      /\ \A s \in 0 .. n - 1 : s # i => h2.key[s] = h.key[s] /\ h2.value[s] = h.value[s]
  BY <1>1, <1>3, <1>4
<1>9. KeyOK(h2, own, i)
  <2>1. ASSUME NEW j \in 0 .. b - 1 PROVE h2.key[ProbeAt(h2, t, j)] \notin {t, NoThread}
    <3>0. j \in Nat
      OBVIOUS
    <3>1. ProbeAt(h, t, j) \in 0 .. n - 1 /\ h.key[ProbeAt(h, t, j)] # NoThread
      BY <1>2, <1>4, <3>0
    <3>2. h.key[ProbeAt(h, t, j)] # t
      BY <1>1, <3>1 DEF Has
    <3> QED BY <1>3, <1>7, <1>8, <3>1, <3>2
  <2>2. FoundAt(h2, t, b)
    BY <1>2, <1>6, <1>7, <1>8, <2>1 DEF FoundAt, i
  <2> QED BY <1>2, <1>6, <1>7, <1>8, <2>2 DEF KeyOK, i
<1>10. ASSUME NEW s \in 0 .. n - 1, s # i, h.key[s] # NoThread PROVE KeyOK(h2, own, s)
  <2>1. PICK u \in Threads : u = h.key[s]
    BY <1>1, <1>10
  <2>2. KeyOK(h, own, s) /\ u # t
    BY <1>1, <1>10, <2>1 DEF TableOK, Has
  <2>3. PICK k \in 0 .. n - 1 : ProbeAt(h, u, k) = s /\ FoundAt(h, u, k)
    BY <1>1, <2>1, <2>2 DEF KeyOK
  <2>4. ASSUME NEW j \in 0 .. k - 1 PROVE h2.key[ProbeAt(h2, u, j)] \notin {u, NoThread}
    <3>0. j \in Nat
      OBVIOUS
    <3>1. ProbeAt(h, u, j) \in 0 .. n - 1
      BY <1>4, <3>0
    <3>2. h.key[ProbeAt(h, u, j)] \notin {u, NoThread}
      BY <2>3 DEF FoundAt
    <3>3. CASE ProbeAt(h, u, j) = i
      BY <1>1, <1>7, <1>8, <2>2, <3>3
    <3>4. CASE ProbeAt(h, u, j) # i
      BY <1>7, <1>8, <3>1, <3>2, <3>4
    <3> QED BY <3>3, <3>4
  <2>5. FoundAt(h2, u, k)
    BY <1>6, <1>7, <1>8, <1>10, <2>1, <2>3, <2>4 DEF FoundAt
  <2> QED BY <1>6, <1>7, <1>8, <1>10, <2>1, <2>2, <2>3, <2>5 DEF KeyOK
<1>11. TableOK(h2, own)
  <2>1. \A s \in DOMAIN h2.key : h2.key[s] # NoThread => KeyOK(h2, own, s)
    BY <1>6, <1>8, <1>9, <1>10
  <2>2. \A s \in DOMAIN h2.key : h2.value[s] \in DOMAIN own \cup {0}
    BY <1>1, <1>6, <1>8 DEF TableOK
  <2> QED BY <1>5, <2>1, <2>2 DEF TableOK
<1>12. \A u \in Threads : Has(h2, u) <=> Has(h, u) \/ u = t
  BY <1>1, <1>3, <1>6, <1>8 DEF Has
<1> QED BY <1>5, <1>11, <1>12 DEF h2

\* A new table is empty.
LEMMA EmptyTableOK ==
    ASSUME NEW n \in Sizes, NEW own
    PROVE  /\ EmptyTable(n) \in Tables(n) /\ TableOK(EmptyTable(n), own)
           /\ Capacity(EmptyTable(n)) = n
           /\ \A t \in Threads : ~Has(EmptyTable(n), t)
<1>1. EmptyTable(n) \in Tables(n)
  BY DEF EmptyTable, Tables, Sizes
<1>2. /\ \A s \in DOMAIN EmptyTable(n).key :
            EmptyTable(n).key[s] = NoThread /\ EmptyTable(n).value[s] = 0
  BY DEF EmptyTable
<1>3. TableOK(EmptyTable(n), own)
  BY <1>1, <1>2 DEF TableOK
<1>4. \A t \in Threads : ~Has(EmptyTable(n), t)
  BY <1>2, QueueAssumption DEF Has
<1>5. n \in Nat
  BY DEF Sizes
<1> QED BY <1>1, <1>3, <1>4, <1>5, TableSize

-----------------------------------------------------------------------------
(* The capacity of the next table                                          *)

Doubled(c, count) == IF count >= c \div 2 THEN 2 * c ELSE c

\* There is a function that doubles as the loop does.
LEMMA DoublingExists ==
    ASSUME NEW n \in Nat, NEW count \in Nat
    PROVE  \E f : f = [k \in 0 .. count |-> IF k = 0 THEN 2 * n ELSE Doubled(f[k - 1], count)]
<1> DEFINE Rec(f, m) == /\ f[0] = 2 * n
                        /\ \A k \in 1 .. m : f[k] = Doubled(f[k - 1], count)
           S == {m \in 0 .. count : ~ \E f \in [0 .. m -> Nat] : Rec(f, m)}
<1>1. S = {}
  <2> SUFFICES ASSUME S # {} PROVE FALSE
    OBVIOUS
  <2>1. PICK m \in S : \A y \in S : m <= y
    <3>1. S \in SUBSET Nat
      OBVIOUS
    <3> HIDE DEF S
    <3> QED BY <3>1, NatLeast
  <2>2. m \in 0 .. count
    OBVIOUS
  <2>3. m # 0
    <3>1. SUFFICES ASSUME m = 0 PROVE FALSE
      OBVIOUS
    <3>2. [k \in 0 .. 0 |-> 2 * n] \in [0 .. m -> Nat] /\ Rec([k \in 0 .. 0 |-> 2 * n], m)
      BY <3>1
    <3> QED BY <3>2
  <2>4. m - 1 \in 0 .. count /\ m - 1 \notin S
    <3>1. m - 1 \in 0 .. count /\ ~(m <= m - 1)
      BY <2>2, <2>3
    <3> HIDE DEF S
    <3> QED BY <2>1, <3>1
  <2>5. PICK f \in [0 .. m - 1 -> Nat] : Rec(f, m - 1)
    BY <2>4
  <2> DEFINE g == [k \in 0 .. m |-> IF k = m THEN Doubled(f[m - 1], count) ELSE f[k]]
  <2>6. f[m - 1] \in Nat /\ Doubled(f[m - 1], count) \in Nat
    BY <2>2, <2>3 DEF Doubled
  <2>7. g \in [0 .. m -> Nat]
    BY <2>2, <2>6
  <2>8. Rec(g, m)
    <3>1. g[0] = 2 * n
      BY <2>2, <2>3, <2>5
    <3>2. ASSUME NEW k \in 1 .. m PROVE g[k] = Doubled(g[k - 1], count)
      BY <2>2, <2>5
    <3> QED BY <3>1, <3>2
  <2> QED BY <2>7, <2>8
<1>2. count \in 0 .. count
  OBVIOUS
<1>3. PICK f \in [0 .. count -> Nat] : Rec(f, count)
  BY <1>1, <1>2
<1>4. f = [k \in 0 .. count |-> IF k = 0 THEN 2 * n ELSE Doubled(f[k - 1], count)]
  BY <1>3
<1> QED BY <1>4

LEMMA NewCapacityGrows ==
    ASSUME NEW n \in Sizes, NEW count \in Nat
    PROVE  NewCapacity(n, count) \in Sizes /\ NewCapacity(n, count) >= n
<1> DEFINE cap == CHOOSE f :
             f = [k \in 0 .. count |-> IF k = 0 THEN 2 * n ELSE Doubled(f[k - 1], count)]
           S == {k \in 0 .. count : ~(cap[k] \in Nat /\ cap[k] >= 2 * n)}
<1>1. NewCapacity(n, count) = cap[count]
  BY DEF NewCapacity, Doubled
<1>2. n \in Nat /\ n >= 2
  BY DEF Sizes
<1>3. cap = [k \in 0 .. count |-> IF k = 0 THEN 2 * n ELSE Doubled(cap[k - 1], count)]
  BY <1>2, DoublingExists
<1> HIDE DEF cap
<1>4. S = {}
  <2> SUFFICES ASSUME S # {} PROVE FALSE
    OBVIOUS
  <2>1. PICK m \in S : \A y \in S : m <= y
    <3>1. S \in SUBSET Nat
      OBVIOUS
    <3> HIDE DEF S
    <3> QED BY <3>1, NatLeast
  <2>2. m \in 0 .. count /\ ~(cap[m] \in Nat /\ cap[m] >= 2 * n)
    OBVIOUS
  <2>3. m # 0 /\ m - 1 \in 0 .. count
    BY <1>2, <1>3, <2>2
  <2>4. cap[m - 1] \in Nat /\ cap[m - 1] >= 2 * n
    BY <2>1, <2>2, <2>3
  <2>5. cap[m] = Doubled(cap[m - 1], count)
    BY <1>3, <2>2, <2>3
  <2> QED BY <1>2, <2>2, <2>4, <2>5 DEF Doubled
<1>5. cap[count] \in Nat /\ cap[count] >= 2 * n
  BY <1>4
<1> QED BY <1>1, <1>2, <1>5 DEF Sizes

-----------------------------------------------------------------------------
(* What a step leaves alone                                                *)

ThOthers(t) == \A u \in Threads \ {t} : th'[u] = th[u]

LEMMA Shape ==
    ASSUME QueueInv
    PROVE  /\ DOMAIN tables = 1 .. Len(tables) /\ Len(tables) \in Nat
           /\ Len(tables) \in DOMAIN tables
           /\ Len(owner) \in Nat /\ Producers = 1 .. Len(owner) /\ 0 \notin Producers
           /\ Producers \subseteq Nat
           /\ \A p \in Producers : owner[p] \in Threads
           /\ \A i \in DOMAIN tables :
                 Capacity(tables[i]) \in Sizes /\ TableOK(tables[i], owner)
                 /\ tables[i] \in Tables(Capacity(tables[i]))
<1>1. DOMAIN tables = 1 .. Len(tables) /\ Len(tables) \in Nat /\ Len(tables) # 0
  BY EmptySeq, LenProperties DEF QueueInv, TablesInv
<1>2. Len(owner) \in Nat /\ Producers = 1 .. Len(owner)
  BY LenProperties DEF QueueInv, ListInv, Producers
<1>3. \A p \in Producers : owner[p] \in Threads
  BY <1>2 DEF QueueInv, ListInv
<1>4. ASSUME NEW i \in DOMAIN tables
      PROVE  Capacity(tables[i]) \in Sizes /\ TableOK(tables[i], owner)
             /\ tables[i] \in Tables(Capacity(tables[i]))
  <2>1. TableOK(tables[i], owner)
    BY DEF QueueInv, TablesInv
  <2>2. PICK n \in Sizes : tables[i] \in Tables(n)
    BY <2>1 DEF TableOK
  <2>3. Capacity(tables[i]) = n
    BY <2>2, TableSize DEF Sizes
  <2> QED BY <2>1, <2>2, <2>3
<1> QED BY <1>1, <1>2, <1>3, <1>4

LEMMA TablesFrame ==
    ASSUME TablesInv, tables' = tables, owner' = owner
    PROVE  TablesInv'
BY DEF TablesInv

LEMMA ThreadsFrame ==
    ASSUME ThreadsInv, NEW t \in Threads, ThOthers(t), tables' = tables, owner' = owner,
           th' \in [Threads -> Locals], calls' \in [Threads -> Nat], ThreadOK(t)',
           \A u \in Threads \ {t} : th[u].pc = "link" => q'[th[u].prod] = <<>>
    PROVE  ThreadsInv'
<1>1. ASSUME NEW u \in Threads, u # t PROVE ThreadOK(u)'
  BY <1>1 DEF ThreadsInv, ThreadOK, ThOthers, Owns, Known, Producers
<1> QED BY <1>1 DEF ThreadsInv

LEMMA CountsFrame ==
    ASSUME CountInv, hashCount' = hashCount, resizing' \in BOOLEAN, Counted' = Counted,
           \A u \in Counted, n \in Nat : RankAt(u, n) => RankAt(u, n)'
    PROVE  CountInv'
<1>1. PICK r : RankOK(r)
  BY DEF CountInv
<1>2. r \in [Counted -> 1 .. hashCount] /\ \A u \in Counted : r[u] \in Nat
  BY <1>1 DEF RankOK
<1>3. RankOK(r)'
  BY <1>1, <1>2 DEF RankOK
<1> QED BY <1>3 DEF CountInv

\* A step that changes the locals of a thread that is not linking.
LEMMA LocalStep ==
    ASSUME QueueInv, NEW t \in Threads, ThOthers(t), th' \in [Threads -> Locals],
           calls' \in [Threads -> Nat], UNCHANGED <<tables, listVars, q>>,
           th[t].pc # "link", th'[t].pc # "link", ThreadOK(t)'
    PROVE  TablesInv' /\ ListInv' /\ ThreadsInv'
<1>0. TablesInv /\ ListInv /\ ThreadsInv
  BY DEF QueueInv
<1>1. TablesInv'
  BY <1>0, TablesFrame DEF listVars
<1>2. ThreadsInv'
  BY <1>0, ThreadsFrame DEF listVars, ThreadsInv, ThreadOK
<1>3. Linking' = Linking
  BY DEF Linking, ThOthers
<1>4. ListInv'
  BY <1>0, <1>3 DEF ListInv, listVars, Reachable, Producers
<1> QED BY <1>1, <1>2, <1>4

\* One that does not count it either.
LEMMA QuietStep ==
    ASSUME QueueInv, NEW t \in Threads, ThOthers(t), th' \in [Threads -> Locals],
           calls' \in [Threads -> Nat], resizing' \in BOOLEAN,
           UNCHANGED <<tables, hashCount, listVars, q>>,
           th[t].pc # "link", th'[t].pc # "link", ThreadOK(t)',
           (th'[t].pc \in Pending \/ Owns(t)) <=> (th[t].pc \in Pending \/ Owns(t)),
           \A n \in Nat : t \in Counted /\ RankAt(t, n) => RankAt(t, n)'
    PROVE  QueueInv'
<1>1. TablesInv' /\ ListInv' /\ ThreadsInv'
  BY LocalStep
<1>2. Counted' = Counted
  BY DEF Counted, ThOthers, Owns, Producers, listVars
<1>3. ASSUME NEW u \in Counted, NEW n \in Nat, RankAt(u, n) PROVE RankAt(u, n)'
  <2>1. CASE u = t
    BY <1>3, <2>1
  <2>2. CASE u # t
    <3>1. u \in Threads \ {t} /\ th'[u] = th[u] /\ tables' = tables
      BY <2>2 DEF Counted, ThOthers
    <3> QED BY <1>3, <3>1 DEF RankAt
  <2> QED BY <2>1, <2>2
<1>4. CountInv'
  BY <1>2, <1>3, CountsFrame DEF QueueInv
<1> QED BY <1>1, <1>4 DEF QueueInv

-----------------------------------------------------------------------------
(* Steps of enqueue that change only the locals and the flag               *)

LEMMA GotoTyped ==
    ASSUME th \in [Threads -> Locals], NEW t \in Threads, NEW from, NEW to \in Labels,
           TGoto(t, from, to)
    PROVE  /\ th' \in [Threads -> Locals] /\ ThOthers(t)
           /\ th[t].pc = from /\ th'[t].pc = to /\ th'[t].main = th[t].main
           /\ th'[t].count = th[t].count /\ th'[t].prod = th[t].prod
BY DEF TGoto, Locals, ThOthers

LEMMA ReturnTyped ==
    ASSUME th \in [Threads -> Locals], calls \in [Threads -> Nat], NEW t \in Threads,
           TReturn(t)
    PROVE  /\ th' \in [Threads -> Locals] /\ ThOthers(t) /\ th'[t].pc = "idle"
           /\ calls' \in [Threads -> Nat]
BY DEF TReturn, Locals, ThOthers, IdleThread, Labels

LEMMA FoundTyped ==
    ASSUME th \in [Threads -> Locals], NEW t \in Threads, NEW p \in Nat, Found(t, p)
    PROVE  /\ th' \in [Threads -> Locals] /\ ThOthers(t)
           /\ th'[t].pc = "enqueue" /\ th'[t].prod = p
BY DEF Found, Locals, ThOthers, IdleThread, Labels

LEMMA CreateTyped ==
    ASSUME th \in [Threads -> Locals], NEW t \in Threads, NEW m \in Nat, CreateIfFits(t, m)
    PROVE  /\ th' \in [Threads -> Locals] /\ ThOthers(t)
           /\ th'[t].pc \in {"create", "again"}
           /\ th'[t].pc = "create" => th[t].count < Limit(tables[m])
           /\ th'[t].main = m /\ th'[t].count = th[t].count
BY DEF CreateIfFits, Fits, Limit, Locals, ThOthers, Labels, Making, Pending

LEMMA CallEnqueueStep ==
    ASSUME QueueInv, NEW t \in Threads, CallEnqueue(t)
    PROVE  QueueInv'
<1> DEFINE with == TablesWith(t)
           i == CHOOSE k \in with : \A j \in with : j <= k
           L == Len(tables)
<1>0. /\ th \in [Threads -> Locals] /\ calls \in [Threads -> Nat] /\ resizing \in BOOLEAN
      /\ ThreadOK(t) /\ L \in DOMAIN tables /\ L \in Nat /\ L > 0
      /\ DOMAIN tables = 1 .. L
      /\ \A k, j \in DOMAIN tables : k <= j => Capacity(tables[k]) <= Capacity(tables[j])
  BY Shape DEF QueueInv, ThreadsInv, CountInv, TablesInv
<1>1. /\ th[t].pc = "idle"
      /\ UNCHANGED <<tables, hashCount, resizing, listVars, q, calls>>
  BY DEF CallEnqueue, hashVars
<1>2. with = {j \in DOMAIN tables : Has(tables[j], t)}
  BY Shape, SearchFinds DEF TablesWith
<1>3. CASE with = {}
  <2>1. /\ th' = [th EXCEPT ![t].pc = "count_up", ![t].main = L]
        /\ ~Known(t)
    BY <1>2, <1>3 DEF CallEnqueue, Known
  <2>2. /\ th' \in [Threads -> Locals] /\ ThOthers(t)
        /\ th'[t].pc = "count_up" /\ th'[t].main = L
    BY <1>0, <2>1 DEF Locals, Labels, Making, ThOthers
  <2>3. ~Owns(t)
    BY <1>0, <1>1, <2>1 DEF ThreadOK
  <2>4. ThreadOK(t)'
    BY <1>0, <1>1, <2>2, <2>3 DEF ThreadOK, Making, Pending, Placed, Owns, Producers, listVars
  <2> QED BY <1>0, <1>1, <2>2, <2>3, <2>4, QuietStep DEF Pending, Placed, RankAt
<1>4. CASE with # {}
  <2>1. /\ i \in DOMAIN tables /\ Has(tables[i], t) /\ TableOK(tables[i], owner)
        /\ \A j \in with : j <= i
    <3>1. \E k \in with : \A j \in with : j <= k
      <4> DEFINE D == {L - k : k \in with}
      <4>1. D \in SUBSET Nat /\ D # {}
        BY <1>0, <1>2, <1>4
      <4>2. PICK d \in D : \A e \in D : d <= e
        <5> HIDE DEF D
        <5> QED BY <4>1, NatLeast
      <4>3. PICK k \in with : d = L - k
        BY <4>2
      <4>4. ASSUME NEW j \in with PROVE j <= k
        <5>1. L - j \in D /\ j \in Nat /\ k \in Nat
          BY <1>0, <1>2
        <5>2. d <= L - j
          <6> HIDE DEF D
          <6> QED BY <4>2, <5>1
        <5> QED BY <1>0, <4>3, <5>1, <5>2
      <4> QED BY <4>3, <4>4
    <3>2. i \in with /\ \A j \in with : j <= i
      <4> HIDE DEF with
      <4> QED BY <3>1
    <3> QED BY <1>2, <3>2, Shape
  <2>2. PICK p : p = ValueFor(tables[i], t)
    OBVIOUS
  <2>3. p \in Producers /\ owner[p] = t /\ p \in Nat
    BY <2>1, <2>2, SearchFinds, Shape
  <2>4. Owns(t) /\ Known(t)
    BY <2>1, <2>3 DEF Owns, Known
  <2>5. CASE i = L
    <3>1. Found(t, p)
      BY <1>4, <2>2, <2>5 DEF CallEnqueue
    <3>2. /\ th' \in [Threads -> Locals] /\ ThOthers(t)
          /\ th'[t].pc = "enqueue" /\ th'[t].prod = p
      BY <1>0, <2>3, <3>1, FoundTyped
    <3>3. ThreadOK(t)'
      BY <1>1, <2>3, <2>4, <3>2
         DEF ThreadOK, Making, Pending, Placed, Owns, Known, Producers, listVars
    <3> QED BY <1>0, <1>1, <2>4, <3>2, <3>3, QuietStep DEF Pending, Placed, RankAt
  <2>6. CASE i # L
    <3>1. th' = [th EXCEPT ![t].pc = "insert", ![t].main = L, ![t].prod = p]
      BY <1>4, <2>2, <2>6 DEF CallEnqueue
    <3>2. /\ th' \in [Threads -> Locals] /\ ThOthers(t)
          /\ th'[t].pc = "insert" /\ th'[t].prod = p /\ th'[t].main = L
      <4>1. th[t] \in Locals /\ L \in Nat /\ p \in Nat /\ "insert" \in Labels
        BY <1>0, <2>3 DEF Labels
      <4> HIDE DEF L
      <4>2. th'[t] \in Locals
        BY <1>0, <3>1, <4>1 DEF Locals
      <4>3. th'[t].pc = "insert" /\ th'[t].prod = p /\ th'[t].main = L
        BY <1>0, <3>1, <4>1 DEF Locals
      <4>4. ThOthers(t) /\ DOMAIN th' = Threads
        BY <1>0, <3>1 DEF ThOthers
      <4> QED BY <1>0, <3>1, <4>2, <4>3, <4>4 DEF ThOthers
    <3>3. ~Has(tables[L], t)
      <4>1. L \notin with
        <5> HIDE DEF with, i
        <5> QED BY <1>0, <1>2, <2>1, <2>6
      <4> QED BY <1>0, <1>2, <4>1
    <3>4. ThreadOK(t)'
      BY <1>0, <1>1, <2>3, <2>4, <3>2, <3>3
         DEF ThreadOK, Making, Pending, Placed, Owns, Known, Producers, listVars
    <3>5. ASSUME NEW n \in Nat, RankAt(t, n) PROVE RankAt(t, n)'
      <4>1. n < Limit(tables[i])
        BY <2>1, <3>5 DEF RankAt
      <4>2. /\ Capacity(tables[i]) \in Nat /\ Capacity(tables[L]) \in Nat
            /\ Capacity(tables[i]) <= Capacity(tables[L])
        <5> HIDE DEF i
        <5> QED BY <1>0, <2>1, Shape DEF Sizes
      <4>3. n < Limit(tables[L])
        BY <4>1, <4>2 DEF Limit
      <4> QED BY <1>1, <3>2, <3>5, <4>3 DEF RankAt, Pending
    <3> QED BY <1>0, <1>1, <2>4, <3>2, <3>4, <3>5, QuietStep
  <2> QED BY <2>5, <2>6
<1> QED BY <1>3, <1>4

\* Who goes on to create is within the count, and so within the limit.
LEMMA CreateIfFitsStep ==
    ASSUME QueueInv, NEW t \in Threads, NEW m \in DOMAIN tables,
           th[t].pc \in {"resize", "clear"}, CreateIfFits(t, m), resizing' \in BOOLEAN,
           UNCHANGED <<tables, hashCount, listVars, q, calls>>
    PROVE  QueueInv'
<1>0. /\ th \in [Threads -> Locals] /\ calls \in [Threads -> Nat]
      /\ ThreadOK(t) /\ m \in Nat /\ DOMAIN tables = 1 .. Len(tables)
      /\ th[t].count \in Nat /\ Capacity(tables[m]) \in Nat
  BY Shape DEF QueueInv, ThreadsInv, Locals, Sizes
<1>1. /\ th' \in [Threads -> Locals] /\ ThOthers(t)
      /\ th'[t].pc \in {"create", "again"}
      /\ th'[t].pc = "create" => th[t].count < Limit(tables[m])
      /\ th'[t].main = m /\ th'[t].count = th[t].count
  BY <1>0, CreateTyped
<1>2. ~Owns(t) /\ th[t].pc \in Pending /\ th'[t].pc \in Pending
  BY <1>0, <1>1 DEF ThreadOK, Making, Pending
<1>3. ThreadOK(t)'
  BY <1>0, <1>1, <1>2 DEF ThreadOK, Making, Pending, Placed, Owns, Producers, listVars
<1>4. ASSUME NEW n \in Nat, RankAt(t, n) PROVE RankAt(t, n)'
  <2>1. n <= th[t].count
    BY <1>2, <1>4 DEF RankAt
  <2>2. Limit(tables[m]) \in Nat
    BY <1>0 DEF Limit
  <2>3. th'[t].pc = "create" => n < Limit(tables[m])
    BY <1>0, <1>1, <2>1, <2>2
  <2> QED BY <1>1, <1>4, <2>1, <2>3 DEF RankAt, Placed
<1> QED BY <1>0, <1>1, <1>2, <1>3, <1>4, QuietStep

LEMMA QuietActions ==
    ASSUME QueueInv, NEW t \in Threads,
           TestAndSet(t) \/ ReloadHash(t) \/ GiveUp(t) \/ ClearFlag(t)
    PROVE  QueueInv'
<1>0. /\ th \in [Threads -> Locals] /\ calls \in [Threads -> Nat] /\ resizing \in BOOLEAN
      /\ ThreadOK(t) /\ Len(tables) \in DOMAIN tables /\ Len(tables) \in Nat
      /\ DOMAIN tables = 1 .. Len(tables)
  BY Shape DEF QueueInv, ThreadsInv, CountInv
<1>1. CASE TestAndSet(t)
  <2>0. /\ th[t].pc = "resize" /\ th[t].main \in DOMAIN tables
        /\ UNCHANGED <<tables, hashCount, listVars, q, calls>>
    BY <1>0, <1>1 DEF TestAndSet, ThreadOK, Making, Pending
  <2>1. CASE resizing' = TRUE /\ TGoto(t, "resize", "allocate")
    <3>1. /\ th' \in [Threads -> Locals] /\ ThOthers(t)
          /\ th'[t].pc = "allocate" /\ th'[t].main = th[t].main
          /\ th'[t].count = th[t].count
      BY <1>0, <2>1, GotoTyped DEF Labels, Making, Pending
    <3>2. ~Owns(t) /\ th[t].pc \in Pending /\ th'[t].pc \in Pending
      BY <1>0, <2>0, <3>1 DEF ThreadOK, Making, Pending
    <3>3. ThreadOK(t)'
      BY <1>0, <2>0, <3>1, <3>2 DEF ThreadOK, Making, Pending, Placed, Owns, Producers, listVars
    <3> QED BY <1>0, <2>0, <2>1, <3>1, <3>2, <3>3, QuietStep DEF RankAt, Placed
  <2>2. CASE UNCHANGED resizing /\ CreateIfFits(t, th[t].main)
    BY <1>0, <2>0, <2>2, CreateIfFitsStep
  <2> QED BY <1>1, <2>1, <2>2 DEF TestAndSet
<1>2. CASE ReloadHash(t)
  <2>1. /\ th[t].pc = "again" /\ UNCHANGED <<tables, hashCount, resizing, listVars, q, calls>>
        /\ th' = [th EXCEPT ![t].pc = "resize", ![t].main = Len(tables)]
    BY <1>2 DEF ReloadHash, hashVars
  <2>2. /\ th' \in [Threads -> Locals] /\ ThOthers(t) /\ th'[t].count = th[t].count
        /\ th'[t].pc = "resize" /\ th'[t].main = Len(tables)
    BY <1>0, <2>1 DEF Locals, Labels, Making, Pending, ThOthers
  <2>3. ~Owns(t) /\ th[t].pc \in Pending /\ th'[t].pc \in Pending
    BY <1>0, <2>1, <2>2 DEF ThreadOK, Making, Pending
  <2>4. ThreadOK(t)'
    BY <1>0, <2>1, <2>2, <2>3 DEF ThreadOK, Making, Pending, Placed, Owns, Producers, listVars
  <2> QED BY <1>0, <2>1, <2>2, <2>3, <2>4, QuietStep DEF RankAt, Placed
<1>3. CASE GiveUp(t)
  <2>1. /\ th[t].pc = "give_up" /\ UNCHANGED <<tables, hashCount, listVars, q>>
        /\ resizing' \in BOOLEAN /\ TReturn(t)
    BY <1>3 DEF GiveUp
  <2>2. /\ th' \in [Threads -> Locals] /\ ThOthers(t) /\ th'[t].pc = "idle"
        /\ calls' \in [Threads -> Nat]
    BY <1>0, <2>1, ReturnTyped
  <2>3. ~Owns(t)
    BY <1>0, <2>1 DEF ThreadOK, Making
  <2>4. ThreadOK(t)'
    BY <2>1, <2>2, <2>3 DEF ThreadOK, Making, Pending, Placed, Owns, Producers, listVars
  <2> QED BY <1>0, <2>1, <2>2, <2>3, <2>4, QuietStep DEF RankAt, Placed, Pending
<1>4. CASE ClearFlag(t)
  BY <1>0, <1>4, CreateIfFitsStep DEF ClearFlag
<1> QED BY <1>1, <1>2, <1>3, <1>4

-----------------------------------------------------------------------------
(* Steps that change the count                                             *)

LEMMA CountedFinite ==
    /\ IsFiniteSet(Counted) /\ Cardinality(Counted) \in Nat
    /\ Cardinality(Counted) <= Cardinality(Threads)
BY QueueAssumption, FS_Subset, FS_CardinalityType DEF Counted

\* The sub-queue of a key is its thread's.
LEMMA KnownOwns ==
    ASSUME QueueInv, NEW t \in Threads, Known(t)
    PROVE  Owns(t)
<1>1. PICK i \in DOMAIN tables : Has(tables[i], t)
  BY DEF Known
<1>2. PICK s \in DOMAIN tables[i].key : tables[i].key[s] = t
  BY <1>1 DEF Has
<1>3. KeyOK(tables[i], owner, s)
  BY <1>2, Shape, QueueAssumption DEF TableOK
<1> QED BY <1>2, <1>3 DEF KeyOK, Owns, Producers

\* Who counts itself is the last in the order.
LEMMA CountUpStep ==
    ASSUME QueueInv, NEW t \in Threads, CountUp(t)
    PROVE  QueueInv'
<1>0. /\ th \in [Threads -> Locals] /\ calls \in [Threads -> Nat] /\ resizing \in BOOLEAN
      /\ ThreadOK(t) /\ hashCount = Cardinality(Counted) /\ hashCount \in Nat
      /\ IsFiniteSet(Counted)
  BY CountedFinite DEF QueueInv, ThreadsInv, CountInv
<1>1. /\ th[t].pc = "count_up" /\ hashCount' = hashCount + 1
      /\ UNCHANGED <<tables, resizing, listVars, q, calls>>
      /\ th' = [th EXCEPT ![t].pc = "resize", ![t].count = hashCount + 1]
  BY DEF CountUp
<1>2. /\ th' \in [Threads -> Locals] /\ ThOthers(t) /\ th'[t].count = hashCount + 1
      /\ th'[t].pc = "resize" /\ th'[t].main = th[t].main
  <2>1. PICK m \in Nat : m = hashCount + 1
    BY <1>0
  <2>2. th' = [th EXCEPT ![t].pc = "resize", ![t].count = m] /\ "resize" \in Labels
    BY <1>1, <2>1 DEF Labels, Making, Pending
  <2> QED BY <1>0, <2>1, <2>2 DEF Locals, ThOthers
<1>3. /\ ~Owns(t) /\ th[t].pc \notin Pending /\ th[t].pc \notin Placed
      /\ th'[t].pc \in Pending /\ th'[t].pc \notin Placed
  BY <1>0, <1>1, <1>2 DEF ThreadOK, Making, Pending, Placed
<1>4. ThreadOK(t)'
  BY <1>0, <1>1, <1>2, <1>3 DEF ThreadOK, Making, Pending, Placed, Owns, Producers, listVars
<1>5. TablesInv' /\ ListInv' /\ ThreadsInv'
  BY <1>0, <1>1, <1>2, <1>4, LocalStep
<1>6. t \notin Counted /\ Counted' = Counted \cup {t}
  BY <1>1, <1>2, <1>3 DEF Counted, ThOthers, Owns, Producers, listVars
<1>7. hashCount' = Cardinality(Counted')
  <2>1. Cardinality(Counted \cup {t}) = Cardinality(Counted) + 1
    BY <1>0, <1>6, FS_AddElement
  <2> QED BY <1>0, <1>1, <1>6, <2>1
<1>8. PICK r : RankOK(r)
  BY DEF QueueInv, CountInv
<1>9. PICK n \in Nat : n = hashCount
  BY <1>0
<1>10. PICK r2 : r2 = [u \in Counted \cup {t} |-> IF u = t THEN n + 1 ELSE r[u]]
  OBVIOUS
<1>11. /\ r \in [Counted -> 1 .. n] /\ r2[t] = n + 1
       /\ \A u \in Counted : r2[u] = r[u] /\ u # t
       /\ r2 \in [Counted \cup {t} -> 1 .. n + 1]
       /\ \A u, v \in Counted : u # v => r[u] # r[v]
       /\ \A u \in Counted : RankAt(u, r[u])
  BY <1>6, <1>8, <1>9, <1>10 DEF RankOK
<1>12. ASSUME NEW u \in Counted \cup {t} PROVE RankAt(u, r2[u])'
  <2>1. CASE u = t
    <3>1. \A i \in DOMAIN tables : ~Has(tables[i], t)
      BY <1>3, KnownOwns DEF Known
    <3>2. r2[u] <= th'[t].count
      BY <1>2, <1>9, <1>11, <2>1
    <3> QED BY <1>1, <1>3, <2>1, <3>1, <3>2 DEF RankAt
  <2>2. CASE u # t
    <3>1. u \in Counted /\ th'[u] = th[u] /\ r2[u] = r[u] /\ RankAt(u, r[u])
      BY <1>2, <1>11, <2>2 DEF ThOthers, Counted
    <3> QED BY <1>1, <3>1 DEF RankAt
  <2> QED BY <2>1, <2>2
<1>13. ASSUME NEW u \in Counted \cup {t}, NEW v \in Counted \cup {t}, u # v
       PROVE  r2[u] # r2[v]
  <2>1. \A w \in Counted : r[w] # n + 1
    BY <1>11
  <2> QED BY <1>11, <1>13, <2>1
<1>14. RankOK(r2)'
  BY <1>1, <1>6, <1>9, <1>11, <1>12, <1>13 DEF RankOK
<1> QED BY <1>0, <1>1, <1>5, <1>7, <1>14 DEF QueueInv, CountInv

\* When a thread gives up, those behind it in the order move up.
LEMMA CountDown ==
    ASSUME QueueInv, NEW t \in Threads, ThOthers(t), th[t].pc \in Pending,
           th'[t].pc \notin Pending, ~Owns(t), hashCount' = hashCount - 1,
           resizing' \in BOOLEAN, UNCHANGED <<tables, listVars>>
    PROVE  CountInv'
<1>1. /\ hashCount = Cardinality(Counted) /\ hashCount \in Nat /\ IsFiniteSet(Counted)
  BY CountedFinite DEF QueueInv, CountInv
<1>2. t \in Counted /\ Counted' = Counted \ {t}
  BY DEF Counted, ThOthers, Owns, Producers, listVars
<1>3. hashCount' = Cardinality(Counted')
  <2>1. Cardinality(Counted \ {t}) = Cardinality(Counted) - 1
    BY <1>1, <1>2, FS_RemoveElement
  <2> QED BY <1>1, <1>2, <2>1
<1>4. PICK r : RankOK(r)
  BY DEF QueueInv, CountInv
<1>5. PICK n \in Nat : n = hashCount
  BY <1>1
<1>6. /\ r \in [Counted -> 1 .. n]
      /\ \A u, v \in Counted : u # v => r[u] # r[v]
      /\ \A u \in Counted : RankAt(u, r[u])
  BY <1>4, <1>5 DEF RankOK
<1>7. PICK r2 : r2 = [u \in Counted \ {t} |-> IF r[u] > r[t] THEN r[u] - 1 ELSE r[u]]
  OBVIOUS
<1>8. ASSUME NEW u \in Counted \ {t}
      PROVE  /\ r2[u] = IF r[u] > r[t] THEN r[u] - 1 ELSE r[u]
             /\ r[u] \in 1 .. n /\ r[t] \in 1 .. n /\ r[u] # r[t]
             /\ r2[u] \in 1 .. n - 1 /\ r2[u] <= r[u]
  <2>1. r2[u] = IF r[u] > r[t] THEN r[u] - 1 ELSE r[u]
    BY <1>7
  <2>2. r[u] \in 1 .. n /\ r[t] \in 1 .. n /\ r[u] # r[t]
    BY <1>2, <1>6
  <2> QED BY <2>1, <2>2
<1>9. r2 \in [Counted \ {t} -> 1 .. n - 1]
  BY <1>7, <1>8
<1>10. ASSUME NEW u \in Counted \ {t}, NEW v \in Counted \ {t}, u # v
       PROVE  r2[u] # r2[v]
  <2>1. r[u] # r[v]
    BY <1>6, <1>10
  <2>2. r[u] \in Int /\ r[v] \in Int /\ r[t] \in Int
    BY <1>8
  <2> QED BY <1>8, <2>1, <2>2
<1>11. ASSUME NEW u \in Counted \ {t} PROVE RankAt(u, r2[u])'
  <2>1. th'[u] = th[u] /\ u \in Threads /\ RankAt(u, r[u])
    BY <1>6 DEF ThOthers, Counted
  <2>2. r2[u] \in Nat /\ r[u] \in Nat /\ r2[u] <= r[u]
    BY <1>8
  <2>3. /\ th \in [Threads -> Locals] /\ th[u].count \in Nat
        /\ \A i \in DOMAIN tables : Limit(tables[i]) \in Nat
        /\ th[u].pc \in Placed => th[u].main \in DOMAIN tables
    <3>1. th \in [Threads -> Locals] /\ ThreadOK(u)
      BY <2>1 DEF QueueInv, ThreadsInv
    <3>2. \A i \in DOMAIN tables : Limit(tables[i]) \in Nat
      BY Shape DEF Limit, Sizes
    <3>3. th[u].count \in Nat
      BY <2>1, <3>1 DEF Locals
    <3>4. th[u].pc \in Placed => th[u].main \in DOMAIN tables
      BY <3>1 DEF ThreadOK, Placed
    <3> QED BY <3>1, <3>2, <3>3, <3>4
  <2>4. th[u].pc \in Pending => r2[u] <= th[u].count
    BY <2>1, <2>2, <2>3 DEF RankAt
  <2>5. ASSUME NEW m, m \in Nat, r[u] < m PROVE r2[u] < m
    BY <2>2, <2>5
  <2>6. th[u].pc \in Placed => r2[u] < Limit(tables[th[u].main])
    BY <2>1, <2>3, <2>5 DEF RankAt
  <2>7. \A i \in DOMAIN tables : Has(tables[i], u) => r2[u] < Limit(tables[i])
    BY <2>1, <2>3, <2>5 DEF RankAt
  <2> QED BY <2>1, <2>4, <2>6, <2>7 DEF RankAt
<1>12. RankOK(r2)'
  BY <1>2, <1>5, <1>9, <1>10, <1>11 DEF RankOK
<1> QED BY <1>3, <1>12 DEF CountInv

LEMMA FailActions ==
    ASSUME QueueInv, NEW t \in Threads, AllocateHashFails(t) \/ CreateProducerFails(t)
    PROVE  QueueInv'
<1>0. /\ th \in [Threads -> Locals] /\ calls \in [Threads -> Nat] /\ resizing \in BOOLEAN
      /\ ThreadOK(t)
  BY DEF QueueInv, ThreadsInv, CountInv
<1>1. /\ th' \in [Threads -> Locals] /\ ThOthers(t) /\ calls' \in [Threads -> Nat]
      /\ th[t].pc \in {"allocate", "create"} /\ th'[t].pc \in {"idle", "give_up"}
      /\ hashCount' = hashCount - 1 /\ UNCHANGED <<tables, resizing, listVars, q>>
  <2>1. CASE AllocateHashFails(t)
    <3>1. "give_up" \in Labels
      BY DEF Labels, Making
    <3> QED BY <1>0, <2>1, <3>1, GotoTyped DEF AllocateHashFails
  <2>2. CASE CreateProducerFails(t)
    BY <1>0, <2>2, ReturnTyped DEF CreateProducerFails
  <2> QED BY <2>1, <2>2
<1>2. /\ th[t].pc \in Pending /\ th'[t].pc \notin Pending /\ ~Owns(t)
  BY <1>0, <1>1 DEF ThreadOK, Making, Pending
<1>3. ThreadOK(t)'
  BY <1>1, <1>2 DEF ThreadOK, Making, Pending, Placed, Owns, Producers, listVars
<1>4. TablesInv' /\ ListInv' /\ ThreadsInv'
  BY <1>1, <1>3, LocalStep
<1>5. CountInv'
  BY <1>0, <1>1, <1>2, CountDown
<1> QED BY <1>4, <1>5 DEF QueueInv

-----------------------------------------------------------------------------
(* Steps that change a table                                               *)

LEMMA TablesStep ==
    ASSUME QueueInv, TablesInv', NEW t \in Threads, ThOthers(t), th' \in [Threads -> Locals],
           calls' \in [Threads -> Nat], UNCHANGED <<hashCount, resizing, listVars, q>>,
           DOMAIN tables \subseteq DOMAIN tables',
           \A i \in DOMAIN tables : Limit(tables'[i]) = Limit(tables[i]),
           \A u \in Threads \ {t}, i \in DOMAIN tables' :
              Has(tables'[i], u) <=> i \in DOMAIN tables /\ Has(tables[i], u),
           th[t].pc # "link", th'[t].pc # "link", ThreadOK(t)',
           (th'[t].pc \in Pending \/ Owns(t)) <=> (th[t].pc \in Pending \/ Owns(t)),
           \A n \in Nat : t \in Counted /\ RankAt(t, n) => RankAt(t, n)'
    PROVE  QueueInv'
<1>0. TablesInv /\ ListInv /\ ThreadsInv /\ CountInv
  BY DEF QueueInv
<1>1. ASSUME NEW u \in Threads, u # t PROVE ThreadOK(u)'
  <2>1. ThreadOK(u) /\ th'[u] = th[u]
    BY <1>0, <1>1 DEF ThreadsInv, ThOthers
  <2>2. Known(u)' <=> Known(u)
    BY <1>1 DEF Known
  <2>3. Owns(u)' <=> Owns(u)
    BY DEF Owns, Producers, listVars
  <2>4. th[u].main \in DOMAIN tables =>
           (Has(tables'[th[u].main], u) <=> Has(tables[th[u].main], u))
    BY <1>1
  <2>5. UNCHANGED <<owner, q>>
    BY DEF listVars
  <2> QED BY <2>1, <2>2, <2>3, <2>4, <2>5 DEF ThreadOK, Producers, Placed
<1>2. ThreadsInv'
  BY <1>1 DEF ThreadsInv
<1>3. Linking' = Linking
  BY DEF Linking, ThOthers
<1>4. ListInv'
  BY <1>0, <1>3 DEF ListInv, listVars, Reachable, Producers
<1>5. Counted' = Counted
  BY DEF Counted, ThOthers, Owns, Producers, listVars
<1>6. ASSUME NEW u \in Counted, NEW n \in Nat, RankAt(u, n) PROVE RankAt(u, n)'
  <2>1. CASE u = t
    BY <1>6, <2>1
  <2>2. CASE u # t
    <3>1. u \in Threads \ {t} /\ th'[u] = th[u] /\ ThreadOK(u)
      BY <1>0, <2>2 DEF Counted, ThOthers, ThreadsInv
    <3>2. th[u].pc \in Placed => th[u].main \in DOMAIN tables
      BY <3>1 DEF ThreadOK, Placed
    <3> QED BY <1>6, <3>1, <3>2 DEF RankAt
  <2> QED BY <2>1, <2>2
<1>7. CountInv'
  BY <1>0, <1>5, <1>6, CountsFrame DEF CountInv
<1> QED BY <1>0, <1>2, <1>4, <1>7 DEF QueueInv

\* A larger table is empty and becomes the main one.
LEMMA NewTable ==
    ASSUME QueueInv, NEW n \in Sizes, n >= Capacity(tables[Len(tables)]),
           tables' = Append(tables, EmptyTable(n)), owner' = owner
    PROVE  /\ TablesInv' /\ DOMAIN tables \subseteq DOMAIN tables'
           /\ \A i \in DOMAIN tables : tables'[i] = tables[i]
           /\ \A i \in DOMAIN tables' :
                 i \notin DOMAIN tables => \A u \in Threads : ~Has(tables'[i], u)
<1> DEFINE T == UNION {Tables(k) : k \in Sizes}
           L == Len(tables)
<1>0. /\ tables \in Seq(T) /\ L \in Nat /\ DOMAIN tables = 1 .. L /\ L \in DOMAIN tables
      /\ TablesInv
  BY Shape DEF QueueInv, TablesInv
<1>1. /\ EmptyTable(n) \in T /\ TableOK(EmptyTable(n), owner) /\ Capacity(EmptyTable(n)) = n
      /\ \A u \in Threads : ~Has(EmptyTable(n), u)
  BY EmptyTableOK
<1> HIDE DEF T
<1>2. /\ tables' \in Seq(T) /\ Len(tables') = L + 1 /\ tables'[L + 1] = EmptyTable(n)
      /\ \A i \in 1 .. L : tables'[i] = tables[i]
  BY <1>0, <1>1, AppendProperties
<1>3. DOMAIN tables' = 1 .. L + 1
  BY <1>2, LenProperties
<1>5. \A i \in DOMAIN tables' : TableOK(tables'[i], owner')
  <2>1. ASSUME NEW i \in DOMAIN tables' PROVE TableOK(tables'[i], owner)
    <3>1. CASE i = L + 1
      BY <1>1, <1>2, <3>1
    <3>2. CASE i # L + 1
      <4>1. i \in 1 .. L
        BY <1>0, <1>3, <3>2
      <4> QED BY <1>0, <1>2, <4>1 DEF TablesInv
    <3> QED BY <3>1, <3>2
  <2> QED BY <2>1
<1>6. ASSUME NEW i \in DOMAIN tables', NEW j \in DOMAIN tables', i <= j
      PROVE  Capacity(tables'[i]) <= Capacity(tables'[j])
  <2>1. n \in Nat /\ \A k \in 1 .. L : Capacity(tables[k]) \in Nat
                                    /\ Capacity(tables[k]) <= Capacity(tables[L])
    BY <1>0, Shape DEF TablesInv, Sizes
  <2>2. CASE j # L + 1
    <3>1. i \in 1 .. L /\ j \in 1 .. L
      BY <1>0, <1>3, <1>6, <2>2
    <3> QED BY <1>0, <1>2, <1>6, <3>1 DEF TablesInv
  <2>3. CASE j = L + 1 /\ i # L + 1
    <3>1. i \in 1 .. L
      BY <1>0, <1>3, <2>3
    <3>2. Capacity(tables[i]) <= n
      BY <1>0, <2>1, <3>1
    <3> QED BY <1>1, <1>2, <2>3, <3>1, <3>2
  <2>4. CASE j = L + 1 /\ i = L + 1
    BY <1>1, <1>2, <2>1, <2>4
  <2> QED BY <2>2, <2>3, <2>4
<1>7. tables' # <<>>
  BY <1>0, <1>2, EmptySeq
<1>8. TablesInv'
  BY <1>2, <1>5, <1>6, <1>7 DEF TablesInv, T
<1>9. ASSUME NEW i \in DOMAIN tables', i \notin DOMAIN tables
      PROVE  i = L + 1
  BY <1>0, <1>3, <1>9
<1> QED BY <1>0, <1>1, <1>2, <1>3, <1>8, <1>9

LEMMA AllocateHashStep ==
    ASSUME QueueInv, NEW t \in Threads, AllocateHash(t)
    PROVE  QueueInv'
<1>0. /\ th \in [Threads -> Locals] /\ calls \in [Threads -> Nat] /\ resizing \in BOOLEAN
      /\ ThreadOK(t) /\ th[t].count \in Nat /\ TablesInv
  BY DEF QueueInv, ThreadsInv, CountInv, Locals
<1>1. /\ th' \in [Threads -> Locals] /\ ThOthers(t) /\ th[t].pc = "allocate"
      /\ th'[t].pc = "clear" /\ th'[t].main = th[t].main /\ th'[t].count = th[t].count
      /\ UNCHANGED <<hashCount, resizing, listVars, q, calls>>
  <2>1. "clear" \in Labels
    BY DEF Labels, Making, Pending
  <2> QED BY <1>0, <2>1, GotoTyped DEF AllocateHash
<1>2. /\ ~Owns(t) /\ th[t].pc \in Pending /\ th'[t].pc \in Pending
      /\ th[t].main \in DOMAIN tables
  BY <1>0, <1>1 DEF ThreadOK, Making, Pending
<1>3. /\ TablesInv' /\ DOMAIN tables \subseteq DOMAIN tables'
      /\ \A i \in DOMAIN tables : tables'[i] = tables[i]
      /\ \A i \in DOMAIN tables' :
            i \notin DOMAIN tables => \A u \in Threads : ~Has(tables'[i], u)
  <2>1. CASE StillHalfFull(t)
    <3>1. PICK n : n = NewCapacity(Capacity(tables[Len(tables)]), th[t].count)
      OBVIOUS
    <3>2. n \in Sizes /\ n >= Capacity(tables[Len(tables)])
      BY <1>0, <3>1, NewCapacityGrows, Shape
    <3>3. tables' = Append(tables, EmptyTable(n)) /\ owner' = owner
      BY <1>1, <2>1, <3>1 DEF AllocateHash, listVars
    <3> QED BY <3>2, <3>3, NewTable
  <2>2. CASE ~StillHalfFull(t)
    <3>1. tables' = tables /\ owner' = owner
      BY <1>1, <2>2 DEF AllocateHash, listVars
    <3> QED BY <1>0, <3>1, TablesFrame
  <2> QED BY <2>1, <2>2
<1>4. ThreadOK(t)'
  BY <1>1, <1>2, <1>3 DEF ThreadOK, Making, Pending, Placed, Owns, Producers, listVars
<1>5. \A u \in Threads, i \in DOMAIN tables' :
          Has(tables'[i], u) <=> i \in DOMAIN tables /\ Has(tables[i], u)
  BY <1>3
<1>6. ASSUME NEW n \in Nat, RankAt(t, n) PROVE RankAt(t, n)'
  BY <1>1, <1>3, <1>5, <1>6 DEF RankAt, Pending, Placed
<1> QED BY <1>0, <1>1, <1>2, <1>3, <1>4, <1>5, <1>6, TablesStep

LEMMA InsertIdStep ==
    ASSUME QueueInv, NEW t \in Threads, InsertId(t)
    PROVE  QueueInv'
<1>0. /\ th \in [Threads -> Locals] /\ calls \in [Threads -> Nat] /\ resizing \in BOOLEAN
      /\ ThreadOK(t) /\ TablesInv
  BY DEF QueueInv, ThreadsInv, CountInv
<1>1. PICK m, p, h, h2 : m = th[t].main /\ p = th[t].prod /\ h = tables[m] /\ h2 = Put(h, t, p)
  OBVIOUS
<1>2. /\ th[t].pc = "insert" /\ HasRoom(h) /\ Found(t, p)
      /\ tables' = [tables EXCEPT ![m] = h2]
      /\ UNCHANGED <<hashCount, resizing, listVars, q, calls>>
  BY <1>1 DEF InsertId
<1>3. /\ m \in DOMAIN tables /\ p \in Producers /\ owner[p] = t /\ ~Has(h, t) /\ p \in Nat
  BY <1>0, <1>1, <1>2, Shape DEF ThreadOK, Placed
<1>4. /\ th' \in [Threads -> Locals] /\ ThOthers(t)
      /\ th'[t].pc = "enqueue" /\ th'[t].prod = p
  BY <1>0, <1>2, <1>3, FoundTyped
<1>5. PICK n \in Sizes : n = Capacity(h) /\ h \in Tables(n) /\ TableOK(h, owner)
  BY <1>1, <1>3, Shape
<1>6. /\ h2 \in Tables(n) /\ TableOK(h2, owner) /\ Capacity(h2) = n /\ n \in Nat
      /\ \A u \in Threads : Has(h2, u) <=> Has(h, u) \/ u = t
  BY <1>1, <1>2, <1>3, <1>5, PutKeeps, TableSize DEF Producers, Sizes
<1>7. /\ DOMAIN tables' = DOMAIN tables /\ tables'[m] = h2 /\ Len(tables') = Len(tables)
      /\ \A i \in DOMAIN tables : i # m => tables'[i] = tables[i]
  BY <1>0, <1>2, <1>3 DEF TablesInv
<1>8. TablesInv'
  <2> DEFINE T == UNION {Tables(k) : k \in Sizes}
  <2>1. tables \in Seq(T) /\ h2 \in T /\ DOMAIN tables = 1 .. Len(tables) /\ tables # <<>>
    BY <1>0, <1>6, Shape DEF TablesInv
  <2> HIDE DEF T
  <2>2. tables' \in Seq(T) /\ tables' # <<>>
    BY <1>2, <1>3, <1>7, <2>1, EmptySeq
  <2>3. \A i \in DOMAIN tables : Capacity(tables'[i]) = Capacity(tables[i])
    BY <1>1, <1>5, <1>6, <1>7
  <2>4. \A i \in DOMAIN tables' : TableOK(tables'[i], owner')
    BY <1>0, <1>2, <1>6, <1>7 DEF TablesInv, listVars
  <2>5. \A i, j \in DOMAIN tables' :
            i <= j => Capacity(tables'[i]) <= Capacity(tables'[j])
    BY <1>0, <1>7, <2>3 DEF TablesInv
  <2> QED BY <2>2, <2>4, <2>5 DEF TablesInv, T
<1>9. Owns(t) /\ Known(t)' /\ Has(tables'[m], t)
  BY <1>3, <1>6, <1>7 DEF Owns, Known
<1>10. ThreadOK(t)'
  BY <1>2, <1>3, <1>4, <1>9 DEF ThreadOK, Making, Pending, Placed, Owns, Producers, listVars
<1>11. /\ \A i \in DOMAIN tables : Limit(tables'[i]) = Limit(tables[i])
       /\ \A u \in Threads \ {t}, i \in DOMAIN tables' :
             Has(tables'[i], u) <=> i \in DOMAIN tables /\ Has(tables[i], u)
  BY <1>1, <1>5, <1>6, <1>7 DEF Limit
<1>12. ASSUME NEW k \in Nat, RankAt(t, k) PROVE RankAt(t, k)'
  <2>1. k < Limit(tables[m])
    BY <1>1, <1>2, <1>12 DEF RankAt, Placed
  <2>2. \A i \in DOMAIN tables' : Has(tables'[i], t) => k < Limit(tables'[i])
    BY <1>7, <1>11, <1>12, <2>1 DEF RankAt
  <2> QED BY <1>4, <2>2 DEF RankAt, Pending, Placed
<1> QED BY <1>0, <1>2, <1>4, <1>7, <1>8, <1>9, <1>10, <1>11, <1>12, TablesStep

-----------------------------------------------------------------------------
(* Steps that change the list of producers or a sub-queue                  *)

LEMMA TableOKGrow ==
    ASSUME NEW h, NEW own, NEW own2, TableOK(h, own), DOMAIN own \subseteq DOMAIN own2,
           \A p \in DOMAIN own : own2[p] = own[p]
    PROVE  TableOK(h, own2)
BY DEF TableOK, KeyOK

\* The links are those of a list.
LEMMA Links ==
    ASSUME QueueInv
    PROVE  /\ next \in [Producers -> Producers \cup {0}] /\ 0 \notin Producers
           /\ listTail \in Producers \cup {0} /\ Linking \subseteq Producers
           /\ DOMAIN next = Producers /\ DOMAIN q = Producers
           /\ \A p \in Producers : q[p] \in Seq(Calls)
           /\ \A u, v \in Threads : /\ u # v
                                    /\ th[u].pc \in {"link", "insert", "enqueue"}
                                    /\ th[v].pc \in {"link", "insert", "enqueue"}
                                    => th[u].prod # th[v].prod
<1>1. ListInv /\ ThreadsInv /\ 0 \notin Producers /\ Producers = 1 .. Len(owner)
  BY Shape DEF QueueInv
<1>2. DOMAIN next = Producers /\ DOMAIN q = Producers
  BY <1>1, LenProperties DEF ListInv
<1>3. next \in [Producers -> Producers \cup {0}]
  BY <1>1, <1>2 DEF ListInv
<1>4. \A u \in Threads : th[u].pc \in {"link", "insert", "enqueue"} =>
          th[u].prod \in Producers /\ owner[th[u].prod] = u
  BY <1>1 DEF ThreadsInv, ThreadOK
<1>5. Linking \subseteq Producers
  BY <1>4 DEF Linking
<1>6. \A p \in Producers : q[p] \in Seq(Calls)
  BY <1>1, <1>2 DEF ListInv
<1> QED BY <1>1, <1>2, <1>3, <1>4, <1>5, <1>6 DEF ListInv

LEMMA CreateProducerStep ==
    ASSUME QueueInv, NEW t \in Threads, CreateProducer(t)
    PROVE  QueueInv'
<1>0. /\ th \in [Threads -> Locals] /\ calls \in [Threads -> Nat] /\ resizing \in BOOLEAN
      /\ ThreadOK(t) /\ TablesInv /\ ListInv /\ ThreadsInv /\ CountInv
  BY DEF QueueInv, ThreadsInv, CountInv
<1>1. PICK p : p = Len(owner) + 1
  OBVIOUS
<1>2. /\ Producers = 1 .. p - 1 /\ p \in Nat /\ p > 0 /\ p \notin Producers
      /\ Len(owner) = p - 1
  BY <1>1, Shape
<1>3. /\ th[t].pc = "create" /\ UNCHANGED <<tables, hashCount, resizing, listTail, calls>>
      /\ owner' = Append(owner, t) /\ next' = Append(next, listTail) /\ q' = Append(q, <<>>)
      /\ th' = [th EXCEPT ![t].pc = "link", ![t].prod = p, ![t].count = 0]
  BY <1>1 DEF CreateProducer, hashVars
<1>4. /\ th' \in [Threads -> Locals] /\ ThOthers(t)
      /\ th'[t].pc = "link" /\ th'[t].prod = p /\ th'[t].main = th[t].main
  <2>1. th[t] \in Locals /\ "link" \in Labels
    BY <1>0 DEF Labels
  <2>2. th'[t] \in Locals
    BY <1>0, <1>2, <1>3, <2>1 DEF Locals
  <2>3. th'[t].pc = "link" /\ th'[t].prod = p /\ th'[t].main = th[t].main
    BY <1>0, <1>3, <2>1 DEF Locals
  <2>4. ThOthers(t) /\ DOMAIN th' = Threads
    BY <1>0, <1>3 DEF ThOthers
  <2> QED BY <1>0, <1>3, <2>2, <2>3, <2>4 DEF ThOthers
<1>5. ~Owns(t) /\ ~Known(t) /\ th[t].main \in DOMAIN tables
  BY <1>0, <1>3, KnownOwns DEF ThreadOK, Making, Pending
<1>6. /\ owner' \in Seq(Threads) /\ Len(owner') = p /\ owner'[p] = t
      /\ \A r \in Producers : owner'[r] = owner[r]
  BY <1>0, <1>2, <1>3, AppendProperties DEF ListInv
<1>7. /\ next' \in Seq(Nat) /\ Len(next') = p /\ next'[p] = listTail
      /\ \A r \in Producers : next'[r] = next[r]
  <2>1. next \in Seq(Nat) /\ listTail \in Nat /\ Len(next) = p - 1
    BY <1>0, <1>2, Shape DEF ListInv
  <2> QED BY <1>2, <1>3, <2>1, AppendProperties
<1>8. /\ q' \in Seq(Seq(Calls)) /\ Len(q') = p /\ q'[p] = <<>>
      /\ \A r \in Producers : q'[r] = q[r]
  <2>1. q \in Seq(Seq(Calls)) /\ <<>> \in Seq(Calls) /\ Len(q) = p - 1
    BY <1>0, <1>2, EmptySeq DEF ListInv
  <2> QED BY <1>2, <1>3, <2>1, AppendProperties
<1>9. Producers' = Producers \cup {p} /\ DOMAIN next' = Producers'
  BY <1>2, <1>6, <1>7, LenProperties DEF Producers
<1>10. TablesInv'
  <2>1. \A i \in DOMAIN tables : TableOK(tables[i], owner')
    BY <1>0, <1>6, <1>9, TableOKGrow DEF TablesInv, Producers
  <2> QED BY <1>0, <1>3, <2>1 DEF TablesInv
<1>11. Reachable' = Reachable
  <2>1. next' \in [Producers' -> Producers' \cup {0}]
    <3>1. \A r \in Producers' : next'[r] \in Producers' \cup {0}
      BY <1>7, <1>9, Links
    <3>2. Producers' = 1 .. p /\ next' \in [1 .. p -> Nat]
      BY <1>2, <1>7, <1>9
    <3> QED BY <3>1, <3>2
  <2>2. Reach(next', 0, Producers', listTail) = Reach(next, 0, Producers, listTail)
    BY <1>2, <1>7, <1>9, <2>1, Links, ReachGrow
  <2> QED BY <1>3, <2>2 DEF Reachable
<1>12. Linking' = Linking \cup {p}
  BY <1>3, <1>4 DEF Linking, ThOthers
<1>13. ListInv'
  <2>1. Reachable' = Producers' \ Linking'
    BY <1>0, <1>2, <1>9, <1>11, <1>12 DEF ListInv
  <2>2. \A r, s \in Producers' : r # s => owner'[r] # owner'[s]
    BY <1>0, <1>5, <1>6, <1>9 DEF ListInv, Owns
  <2>3. \A r \in Producers' : next'[r] \in Producers' \cup {0}
    BY <1>7, <1>9, Links
  <2>4. listTail' \in Producers' \cup {0}
    BY <1>3, <1>9, Links
  <2> QED BY <1>6, <1>7, <1>8, <2>1, <2>2, <2>3, <2>4 DEF ListInv
<1>14. \A u \in Threads : Owns(u)' <=> Owns(u) \/ u = t
  BY <1>6, <1>9 DEF Owns
<1>15. ThreadsInv'
  <2>1. ASSUME NEW u \in Threads, u # t PROVE ThreadOK(u)'
    <3>1. ThreadOK(u) /\ th'[u] = th[u] /\ (Owns(u)' <=> Owns(u))
      BY <1>0, <1>4, <1>14, <2>1 DEF ThreadsInv, ThOthers
    <3> QED BY <1>3, <1>6, <1>8, <1>9, <3>1 DEF ThreadOK, Known
  <2>2. ThreadOK(t)'
    BY <1>3, <1>4, <1>5, <1>6, <1>8, <1>9 DEF ThreadOK, Known, Making, Pending, Placed
  <2> QED BY <1>0, <1>3, <1>4, <2>1, <2>2 DEF ThreadsInv
<1>16. Counted' = Counted
  BY <1>3, <1>4, <1>14 DEF Counted, ThOthers, Pending
<1>17. ASSUME NEW u \in Counted, NEW n \in Nat, RankAt(u, n) PROVE RankAt(u, n)'
  <2>1. CASE u = t
    BY <1>3, <1>4, <1>17, <2>1 DEF RankAt, Pending, Placed
  <2>2. CASE u # t
    <3>1. th'[u] = th[u]
      BY <1>4, <2>2 DEF Counted, ThOthers
    <3> QED BY <1>3, <1>17, <3>1 DEF RankAt
  <2> QED BY <2>1, <2>2
<1>18. CountInv'
  BY <1>0, <1>3, <1>16, <1>17, CountsFrame
<1> QED BY <1>10, <1>13, <1>15, <1>18 DEF QueueInv

\* A failed exchange takes over the tail that it found.
LEMMA LinkProducerStep ==
    ASSUME QueueInv, NEW t \in Threads, LinkProducer(t)
    PROVE  QueueInv'
<1>0. /\ th \in [Threads -> Locals] /\ calls \in [Threads -> Nat] /\ resizing \in BOOLEAN
      /\ ThreadOK(t) /\ TablesInv /\ ListInv /\ ThreadsInv /\ CountInv
  BY DEF QueueInv, ThreadsInv, CountInv
<1>1. PICK p : p = th[t].prod
  OBVIOUS
<1>2. /\ th[t].pc = "link" /\ UNCHANGED <<tables, hashCount, resizing, owner, q, calls>>
      /\ p \in Producers /\ owner[p] = t /\ ~Known(t) /\ th[t].main \in DOMAIN tables
      /\ p \in Linking /\ Owns(t)
  BY <1>0, <1>1 DEF LinkProducer, ThreadOK, hashVars, Placed, Linking, Owns
<1>3. TablesInv' /\ Producers' = Producers /\ \A u \in Threads : Owns(u)' <=> Owns(u)
  BY <1>0, <1>2, TablesFrame DEF Producers, Owns
<1>4. p \notin Reachable
  BY <1>0, <1>2 DEF ListInv
<1>5. CASE listTail = next[p]
  <2>1. /\ listTail' = p /\ TGoto(t, "link", "insert") /\ next' = next
    BY <1>1, <1>5 DEF LinkProducer
  <2>2. /\ th' \in [Threads -> Locals] /\ ThOthers(t) /\ th'[t].main = th[t].main
        /\ th'[t].pc = "insert" /\ th'[t].prod = p
    BY <1>0, <1>1, <2>1, GotoTyped DEF Labels
  <2>3. Reachable' = {p} \cup Reachable
    BY <1>2, <1>3, <1>5, <2>1, Links, ReachFirst DEF Reachable
  <2>4. Linking' = Linking \ {p}
    <3>1. \A u \in Threads \ {t} : th[u].pc = "link" => th[u].prod # p
      BY <1>1, <1>2, Links
    <3> QED BY <1>1, <1>2, <2>2, <3>1 DEF Linking, ThOthers
  <2>5. ListInv'
    <3>1. Reachable' = Producers' \ Linking'
      BY <1>0, <1>2, <1>3, <2>3, <2>4, Links DEF ListInv
    <3> QED BY <1>0, <1>2, <1>3, <2>1, <3>1 DEF ListInv
  <2>6. ThreadOK(t)'
    BY <1>2, <1>3, <2>2 DEF ThreadOK, Known, Making, Pending, Placed
  <2>7. ThreadsInv'
    BY <1>0, <1>2, <2>2, <2>6, ThreadsFrame DEF ThreadsInv, ThreadOK
  <2>8. Counted' = Counted
    BY <1>2, <1>3, <2>2 DEF Counted, ThOthers
  <2>9. ASSUME NEW u \in Counted, NEW n \in Nat, RankAt(u, n) PROVE RankAt(u, n)'
    <3>1. CASE u = t
      BY <1>2, <2>2, <2>9, <3>1 DEF RankAt, Pending, Placed
    <3>2. CASE u # t
      <4>1. th'[u] = th[u]
        BY <2>2, <3>2 DEF Counted, ThOthers
      <4> QED BY <1>2, <2>9, <4>1 DEF RankAt
    <3> QED BY <3>1, <3>2
  <2>10. CountInv'
    BY <1>0, <1>2, <2>8, <2>9, CountsFrame
  <2> QED BY <1>3, <2>5, <2>7, <2>10 DEF QueueInv
<1>6. CASE listTail # next[p]
  <2>1. /\ next' = [next EXCEPT ![p] = listTail] /\ listTail' = listTail /\ th' = th
    BY <1>1, <1>6 DEF LinkProducer
  <2>2. /\ next' \in [Producers -> Producers \cup {0}]
        /\ \A r \in Producers \ {p} : next'[r] = next[r]
    BY <1>2, <2>1, Links
  <2>3. Reachable' = Reachable
    <3>1. p \notin Reach(next, 0, Producers, listTail)
      BY <1>4 DEF Reachable
    <3>2. Reach(next', 0, Producers, listTail) = Reach(next, 0, Producers, listTail)
      BY <1>2, <2>2, <3>1, Links, ReachSetLink
    <3> QED BY <1>3, <2>1, <3>2 DEF Reachable
  <2>4. next' \in Seq(Nat) /\ Len(next') = Len(next)
    BY <1>0, <1>2, <2>1, Shape DEF ListInv
  <2>5. Linking' = Linking
    BY <2>1 DEF Linking
  <2>6. ListInv'
    BY <1>0, <1>2, <1>3, <2>1, <2>2, <2>3, <2>4, <2>5 DEF ListInv
  <2>7. ThreadsInv'
    BY <1>0, <1>2, <1>3, <2>1 DEF ThreadsInv, ThreadOK, Known
  <2>8. Counted' = Counted
    BY <1>3, <2>1 DEF Counted
  <2>9. CountInv'
    BY <1>0, <1>2, <2>1, <2>8, CountsFrame DEF RankAt
  <2> QED BY <1>3, <2>6, <2>7, <2>9 DEF QueueInv
<1> QED BY <1>5, <1>6

\* A step that changes what is in the sub-queues, of threads that are linked.
LEMMA ElementsStep ==
    ASSUME QueueInv, UNCHANGED <<tables, hashCount, resizing, listVars>>,
           q' \in Seq(Seq(Calls)), Len(q') = Len(q),
           \A u \in Threads : th[u].pc = "link" => q'[th[u].prod] = <<>>
    PROVE  /\ TablesInv' /\ (Linking' = Linking => ListInv')
           /\ (Counted' = Counted /\ (\A u \in Counted, n \in Nat : RankAt(u, n) => RankAt(u, n)')
                 => CountInv')
<1>0. TablesInv /\ ListInv /\ CountInv
  BY DEF QueueInv
<1>1. TablesInv'
  BY <1>0, TablesFrame DEF listVars
<1>2. ASSUME Linking' = Linking PROVE ListInv'
  BY <1>0, <1>2 DEF ListInv, listVars, Reachable, Producers
<1>3. ASSUME Counted' = Counted, \A u \in Counted, n \in Nat : RankAt(u, n) => RankAt(u, n)'
      PROVE  CountInv'
  BY <1>0, <1>3, CountsFrame DEF CountInv
<1> QED BY <1>1, <1>2, <1>3

LEMMA EnqueueInStep ==
    ASSUME QueueInv, NEW t \in Threads, EnqueueIn(t)
    PROVE  QueueInv'
<1>0. /\ th \in [Threads -> Locals] /\ calls \in [Threads -> Nat]
      /\ ThreadOK(t) /\ ListInv /\ ThreadsInv /\ q \in Seq(Seq(Calls))
  BY DEF QueueInv, ThreadsInv, ListInv
<1>1. PICK p, e : p = th[t].prod /\ e = <<t, calls[t] + 1>>
  OBVIOUS
<1>2. /\ th[t].pc = "enqueue" /\ UNCHANGED <<tables, hashCount, resizing, listVars>>
      /\ q' = [q EXCEPT ![p] = Append(@, e)] \/ q' = q
      /\ TReturn(t)
  BY <1>1 DEF EnqueueIn, hashVars
<1>3. p \in Producers /\ owner[p] = t /\ Owns(t) /\ Known(t) /\ e \in Calls
  BY <1>0, <1>1, <1>2 DEF ThreadOK, Owns, Calls
<1>4. /\ th' \in [Threads -> Locals] /\ ThOthers(t) /\ th'[t].pc = "idle"
      /\ calls' \in [Threads -> Nat]
  BY <1>0, <1>2, ReturnTyped
<1>5. /\ q' \in Seq(Seq(Calls)) /\ Len(q') = Len(q)
      /\ \A r \in Producers : r # p => q'[r] = q[r]
  <2>1. q[p] \in Seq(Calls) /\ DOMAIN q = Producers
    BY <1>3, Links
  <2>2. Append(q[p], e) \in Seq(Calls)
    BY <1>3, <2>1, AppendProperties
  <2>3. CASE q' = q
    BY <1>0, <2>3
  <2>4. CASE q' = [q EXCEPT ![p] = Append(@, e)]
    BY <1>0, <1>3, <2>1, <2>2, <2>4
  <2> QED BY <1>2, <2>3, <2>4
<1>6. ASSUME NEW u \in Threads, th[u].pc = "link" PROVE q'[th[u].prod] = <<>>
  <2>1. th[u].prod \in Producers /\ owner[th[u].prod] = u /\ q[th[u].prod] = <<>>
    BY <1>0, <1>6 DEF ThreadsInv, ThreadOK
  <2> QED BY <1>2, <1>3, <1>5, <1>6, <2>1
<1>7. ThreadOK(t)'
  BY <1>2, <1>3, <1>4 DEF ThreadOK, Making, Pending, Placed, Known, Producers, listVars
<1>8. ThreadsInv'
  BY <1>0, <1>2, <1>4, <1>6, <1>7, ThreadsFrame DEF listVars
<1>9. Linking' = Linking
  BY <1>2, <1>4 DEF Linking, ThOthers
<1>10. Counted' = Counted
  BY <1>2, <1>3, <1>4 DEF Counted, ThOthers, Owns, Producers, listVars
<1>11. ASSUME NEW u \in Counted, NEW n \in Nat, RankAt(u, n) PROVE RankAt(u, n)'
  <2>1. CASE u = t
    BY <1>2, <1>4, <1>11, <2>1 DEF RankAt, Pending, Placed
  <2>2. CASE u # t
    <3>1. th'[u] = th[u]
      BY <1>4, <2>2 DEF Counted, ThOthers
    <3> QED BY <1>2, <1>11, <3>1 DEF RankAt
  <2> QED BY <2>1, <2>2
<1> QED BY <1>2, <1>5, <1>6, <1>8, <1>9, <1>10, <1>11, ElementsStep DEF QueueInv

LEMMA TryDequeueStep ==
    ASSUME QueueInv, NEW c \in Consumers, TryDequeue(c)
    PROVE  QueueInv'
<1>0. /\ ThreadsInv /\ q \in Seq(Seq(Calls)) /\ DOMAIN q = Producers
  BY Links DEF QueueInv, ListInv
<1>1. UNCHANGED <<tables, hashCount, resizing, listVars, th, calls>>
  BY DEF TryDequeue, hashVars
<1>2. PICK p : p = con[c].ptr
  OBVIOUS
<1>3. q' = q \/ (q[p] # <<>> /\ q' = [q EXCEPT ![p] = Tail(@)])
  BY <1>2 DEF TryDequeue, CallTryDequeue, Poll, Scan, TryBest, TryOthers, DequeueFrom
<1>4. /\ q' \in Seq(Seq(Calls)) /\ Len(q') = Len(q)
      /\ \A r \in Producers : q[r] = <<>> => q'[r] = q[r]
  <2>1. CASE q' = q
    BY <1>0, <2>1
  <2>2. CASE q[p] # <<>> /\ q' = [q EXCEPT ![p] = Tail(@)] /\ p \in Producers
    <3>1. q[p] \in Seq(Calls)
      BY <2>2, Links
    <3>2. Tail(q[p]) \in Seq(Calls)
      BY <2>2, <3>1, HeadTailProperties
    <3> QED BY <1>0, <2>2, <3>2
  <2>3. CASE q' = [q EXCEPT ![p] = Tail(@)] /\ p \notin Producers
    <3>1. q' = q
      BY <1>0, <2>3
    <3> QED BY <1>0, <3>1
  <2> QED BY <1>3, <2>1, <2>2, <2>3
<1>5. ASSUME NEW u \in Threads, th[u].pc = "link" PROVE q'[th[u].prod] = <<>>
  BY <1>0, <1>4, <1>5 DEF ThreadsInv, ThreadOK
<1>6. ThreadsInv'
  BY <1>0, <1>1, <1>5 DEF ThreadsInv, ThreadOK, Known, Owns, Producers, listVars
<1>7. Linking' = Linking /\ Counted' = Counted
  BY <1>1 DEF Linking, Counted, Owns, Producers, listVars
<1>8. \A u \in Counted, n \in Nat : RankAt(u, n) => RankAt(u, n)'
  BY <1>1 DEF RankAt
<1> QED BY <1>1, <1>4, <1>5, <1>6, <1>7, <1>8, ElementsStep DEF QueueInv

-----------------------------------------------------------------------------
(* The invariant, and what it gives                                        *)

LEMMA InitQueueInv == Init => QueueInv
<1> SUFFICES ASSUME Init PROVE QueueInv
  OBVIOUS
<1>1. PICK n \in Sizes : n = INITIAL_IMPLICIT_PRODUCER_HASH_SIZE
  BY QueueAssumption DEF Sizes
<1>2. PICK h : h = EmptyTable(n)
  OBVIOUS
<1>3. /\ h \in Tables(n) /\ TableOK(h, owner) /\ Capacity(h) \in Nat
      /\ \A t \in Threads : ~Has(h, t)
  BY <1>1, <1>2, EmptyTableOK DEF Sizes
<1>4. tables = <<h>>
  BY <1>1, <1>2 DEF Init
<1>5. Producers = {}
  BY DEF Init, Producers
<1>6. TablesInv
  <2>1. h \in UNION {Tables(k) : k \in Sizes}
    BY <1>3
  <2>2. DOMAIN tables = {1} /\ tables[1] = h
    BY <1>4
  <2>3. tables \in Seq(UNION {Tables(k) : k \in Sizes}) /\ tables # <<>>
    BY <1>4, <2>1
  <2> QED BY <1>3, <2>2, <2>3 DEF TablesInv
<1>7. \A t \in Threads : th[t] = IdleThread
  BY DEF Init
<1>8. ListInv
  <2>1. Linking = {} /\ Reachable = {}
    BY <1>5, <1>7 DEF Linking, IdleThread, Reachable, Reach
  <2> QED BY <1>5, <2>1 DEF ListInv, Init
<1>9. ThreadsInv
  <2>1. th \in [Threads -> Locals] /\ calls \in [Threads -> Nat]
    BY DEF Init, IdleThread, Locals, Labels
  <2>2. ASSUME NEW t \in Threads PROVE ThreadOK(t)
    BY <1>5, <1>7 DEF ThreadOK, IdleThread, Making, Pending, Placed, Owns
  <2> QED BY <2>1, <2>2 DEF ThreadsInv
<1>10. CountInv
  <2>1. Counted = {}
    BY <1>5, <1>7 DEF Counted, IdleThread, Pending, Owns
  <2>2. hashCount = Cardinality(Counted)
    BY <2>1, FS_EmptySet DEF Init
  <2>3. RankOK([t \in {} |-> 1])
    BY <2>1 DEF RankOK
  <2> QED BY <2>2, <2>3 DEF CountInv, Init
<1> QED BY <1>6, <1>8, <1>9, <1>10 DEF QueueInv

LEMMA NextQueueInv == QueueInv /\ [Next]_vars => QueueInv'
<1> SUFFICES ASSUME QueueInv, [Next]_vars PROVE QueueInv'
  OBVIOUS
<1>1. ASSUME NEW t \in Threads, CallEnqueue(t) PROVE QueueInv'
  BY <1>1, CallEnqueueStep
<1>2. ASSUME NEW t \in Threads, GoOn(t) PROVE QueueInv'
  <2>1. CASE CountUp(t)
    BY <2>1, CountUpStep
  <2>2. CASE TestAndSet(t) \/ ReloadHash(t) \/ GiveUp(t) \/ ClearFlag(t)
    BY <2>2, QuietActions
  <2>3. CASE AllocateHash(t)
    BY <2>3, AllocateHashStep
  <2>4. CASE AllocateHashFails(t) \/ CreateProducerFails(t)
    BY <2>4, FailActions
  <2>5. CASE CreateProducer(t)
    BY <2>5, CreateProducerStep
  <2>6. CASE LinkProducer(t)
    BY <2>6, LinkProducerStep
  <2>7. CASE InsertId(t)
    BY <2>7, InsertIdStep
  <2>8. CASE EnqueueIn(t)
    BY <2>8, EnqueueInStep
  <2> QED BY <1>2, <2>1, <2>2, <2>3, <2>4, <2>5, <2>6, <2>7, <2>8 DEF GoOn
<1>3. ASSUME NEW c \in Consumers, TryDequeue(c) PROVE QueueInv'
  BY <1>3, TryDequeueStep
<1>4. CASE UNCHANGED vars
  <2>1. UNCHANGED <<tables, hashCount, resizing, listVars, q, th, calls>>
    BY <1>4 DEF vars, hashVars
  <2>2. q \in Seq(Seq(Calls)) /\ ThreadsInv
    BY DEF QueueInv, ListInv
  <2>3. \A u \in Threads : th[u].pc = "link" => q'[th[u].prod] = <<>>
    BY <2>1, <2>2 DEF ThreadsInv, ThreadOK
  <2>4. ThreadsInv'
    BY <2>1, <2>2 DEF ThreadsInv, ThreadOK, Known, Owns, Producers, listVars
  <2>5. Linking' = Linking /\ Counted' = Counted
    BY <2>1 DEF Linking, Counted, Owns, Producers, listVars
  <2>6. \A u \in Counted, n \in Nat : RankAt(u, n) => RankAt(u, n)'
    BY <2>1 DEF RankAt
  <2> QED BY <2>1, <2>2, <2>3, <2>4, <2>5, <2>6, ElementsStep DEF QueueInv
<1> QED BY <1>1, <1>2, <1>3, <1>4 DEF Next, Enqueue

LEMMA QueueInvariant == Spec => []QueueInv
BY InitQueueInv, NextQueueInv, PTL DEF Spec

\* The keys of a table are counted threads, of ranks below its limit: they
\* are too few to fill it.
LEMMA Room == QueueInv => TablesHaveRoom
<1> SUFFICES ASSUME QueueInv, NEW i \in DOMAIN tables, ~HasRoom(tables[i]) PROVE FALSE
  BY DEF TablesHaveRoom
<1>1. PICK h, n : h = tables[i] /\ n = Capacity(h)
  OBVIOUS
<1>2. /\ n \in Sizes /\ h \in Tables(n) /\ TableOK(h, owner)
      /\ \A p \in Producers : owner[p] \in Threads
  BY <1>1, Shape
<1>3. /\ n \in Nat /\ n > 0 /\ DOMAIN h.key = 0 .. n - 1
      /\ h.key \in [0 .. n - 1 -> Threads \cup {NoThread}]
      /\ IsFiniteSet(0 .. n - 1) /\ Cardinality(0 .. n - 1) = n
  BY <1>2, TableSize DEF Sizes, Capacity
<1>4. PICK r : RankOK(r)
  BY DEF QueueInv, CountInv
<1>5. \A s \in 0 .. n - 1 : h.key[s] \in Threads
  BY <1>1, <1>3 DEF HasRoom
<1>6. ASSUME NEW s \in 0 .. n - 1
      PROVE  h.key[s] \in Counted /\ Has(h, h.key[s])
  <2>1. Known(h.key[s]) /\ Has(h, h.key[s])
    BY <1>1, <1>3 DEF Known, Has
  <2> QED BY <1>5, <2>1, KnownOwns DEF Counted
<1>7. PICK m \in Nat : m = Limit(h) /\ m <= n
  <2>1. n \div 2 \in Nat /\ n \div 4 \in Nat /\ (n \div 2) + (n \div 4) <= n
    BY <1>3
  <2> QED BY <1>1, <2>1 DEF Limit
<1>8. PICK f : f = [s \in 0 .. n - 1 |-> r[h.key[s]]]
  OBVIOUS
<1>9. ASSUME NEW s \in 0 .. n - 1 PROVE f[s] \in 1 .. m - 1
  <2>1. RankAt(h.key[s], r[h.key[s]]) /\ r[h.key[s]] \in 1 .. hashCount
    BY <1>4, <1>6 DEF RankOK
  <2>2. r[h.key[s]] < m
    BY <1>1, <1>6, <1>7, <2>1 DEF RankAt
  <2>3. hashCount \in Nat
    BY CountedFinite DEF QueueInv, CountInv
  <2> QED BY <1>8, <2>1, <2>2, <2>3
<1>10. f \in [0 .. n - 1 -> 1 .. m - 1]
  BY <1>8, <1>9
<1>11. IsFiniteSet(1 .. m - 1) /\ Cardinality(1 .. m - 1) < n
  <2>1. f[0] \in 1 .. m - 1
    BY <1>3, <1>9
  <2>2. PICK k \in Nat : k = m - 1
    BY <2>1
  <2>3. IsFiniteSet(1 .. k) /\ Cardinality(1 .. k) <= k
    BY FS_Interval
  <2>4. Cardinality(1 .. k) < n
    <3>1. k < n
      BY <1>3, <1>7, <2>2
    <3>2. Cardinality(1 .. k) \in Nat
      BY <2>3, FS_CardinalityType
    <3> QED BY <1>3, <2>3, <3>1, <3>2
  <2> QED BY <2>2, <2>3, <2>4
<1>12. PICK a \in 0 .. n - 1, b \in 0 .. n - 1 : a # b /\ f[a] = f[b]
  BY <1>3, <1>10, <1>11, FS_PigeonHole
<1>13. h.key[a] = h.key[b]
  BY <1>4, <1>6, <1>8, <1>12 DEF RankOK
<1> QED BY <1>2, <1>3, <1>5, <1>12, <1>13, SearchFinds

LEMMA OneProducer == QueueInv => OneProducerPerThread
<1> SUFFICES ASSUME QueueInv PROVE OneProducerPerThread
  OBVIOUS
<1>1. TypeOK
  <2>1. ASSUME NEW i \in DOMAIN tables
        PROVE  /\ tables[i].key \in [DOMAIN tables[i].key -> Threads \cup {NoThread}]
               /\ tables[i].value \in [DOMAIN tables[i].key -> Producers \cup {0}]
    <3>1. PICK h, n : h = tables[i] /\ n = Capacity(h)
      OBVIOUS
    <3>2. n \in Nat /\ h \in Tables(n) /\ TableOK(h, owner)
      BY <3>1, Shape DEF Sizes
    <3>3. /\ DOMAIN h.key = 0 .. n - 1 /\ h.value \in [0 .. n - 1 -> Nat]
          /\ h.key \in [0 .. n - 1 -> Threads \cup {NoThread}]
      BY <3>2, TableSize
    <3>4. \A s \in DOMAIN h.key : h.value[s] \in Producers \cup {0}
      BY <3>2 DEF TableOK, Producers
    <3> QED BY <3>1, <3>3, <3>4
  <2>2. hashCount \in 0 .. Cardinality(Threads)
    BY CountedFinite, FS_CardinalityType, QueueAssumption DEF QueueInv, CountInv
  <2> QED BY <2>1, <2>2 DEF TypeOK, QueueInv, ListInv, CountInv
<1>2. NoProducerLost
  BY DEF NoProducerLost, QueueInv, ListInv, Linking
<1>3. \A t \in Threads : th[t].pc = "enqueue" => owner[th[t].prod] = t
  BY DEF QueueInv, ThreadsInv, ThreadOK
<1> QED BY <1>1, <1>2, <1>3 DEF OneProducerPerThread, QueueInv, ListInv

\* However many threads enqueue at once and however the tables are replaced
\* meanwhile, a thread gets the sub-queue it got before, no two threads get the
\* same one, and all that are linked are reached by the consumers (the comment
\* at concurrentqueue.h:3299).
THEOREM QueueOneProducerPerThread == Spec => []OneProducerPerThread
BY QueueInvariant, OneProducer, PTL

\* A table in use keeps a slot free for every number of threads and every
\* initial size: the probing loops end (concurrentqueue.h:3316 and 3323).
THEOREM QueueTablesHaveRoom == Spec => []TablesHaveRoom
BY QueueInvariant, Room, PTL

-----------------------------------------------------------------------------
(* The consumers                                                           *)

Elements(p) == {q[p][i] : i \in DOMAIN q[p]}

ConsumerLocals == [pc : {"idle", "gone", "scan", "best", "others"},
                   ptr : Nat, found : Nat, best : Nat, size : Nat]

\* The scan of a consumer that is alone has what it ought to find before it,
\* or has found a sub-queue with elements, and goes to the longest of these.
AloneOK(c) ==
    /\ Inside(c) /\ \A o \in Consumers \ {c} : ~Inside(o)
    /\ con[c].pc # "others"
    /\ con[c].pc = "scan" /\ con[c].found = 0 =>
          \A e \in waiting[c] :
             \E p \in Reach(next, 0, Producers, con[c].ptr) : e \in Elements(p)
    /\ con[c].found > 0 => con[c].best \in Producers /\ q[con[c].best] # <<>>
    /\ con[c].pc = "best" => con[c].found > 0 /\ con[c].ptr = con[c].best

ConsumerOK(c) ==
    /\ con[c].pc \in {"idle", "gone"} => con[c].found = 0
    /\ con[c].found = 0 => con[c].size = 0
    /\ con[c].pc = "scan" => con[c].ptr \in (Producers \ Linking) \cup {0}
    /\ con[c].pc = "others" => con[c].ptr \in Producers \cup {0}
    /\ waiting[c] # {} => AloneOK(c)

PollInv ==
    /\ con \in [Consumers -> ConsumerLocals]
    /\ \A c \in Consumers : ConsumerOK(c)


\* What a thread's step leaves to the consumers: the lists from where they
\* are, and the elements.
LEMMA ThreadKeepsLists ==
    ASSUME QueueInv, NEW t \in Threads, CallEnqueue(t) \/ GoOn(t)
    PROVE  /\ Producers \subseteq Producers' /\ Producers \cap Linking' \subseteq Linking
           /\ \A p \in Producers : /\ Elements(p) \subseteq Elements(p)'
                                   /\ q[p] # <<>> => q'[p] # <<>>
           /\ \A x \in (Producers \ Linking) \cup {0} :
                 Reach(next', 0, Producers', x) = Reach(next, 0, Producers, x)
<1>0. /\ th \in [Threads -> Locals] /\ calls \in [Threads -> Nat] /\ ThreadOK(t)
      /\ Reachable = Producers \ Linking
  BY DEF QueueInv, ThreadsInv, ListInv
<1>1. PICK p : p = th[t].prod
  OBVIOUS
<1>2. ASSUME UNCHANGED <<listTail, next, owner>>,
             \A u \in Threads : th'[u].pc = "link" => th'[u].prod \in Linking,
             \A r \in Producers : /\ Elements(r) \subseteq Elements(r)'
                                  /\ q[r] # <<>> => q'[r] # <<>>
      PROVE  /\ Producers \subseteq Producers' /\ Producers \cap Linking' \subseteq Linking
             /\ \A r \in Producers : /\ Elements(r) \subseteq Elements(r)'
                                     /\ q[r] # <<>> => q'[r] # <<>>
             /\ \A x \in (Producers \ Linking) \cup {0} :
                   Reach(next', 0, Producers', x) = Reach(next, 0, Producers, x)
  <2>1. Producers' = Producers /\ Linking' \subseteq Linking
    BY <1>2 DEF Producers, Linking
  <2> QED BY <1>2, <2>1
<1>3. ASSUME q' = q
      PROVE  \A r \in Producers : /\ Elements(r) \subseteq Elements(r)'
                                  /\ q[r] # <<>> => q'[r] # <<>>
  BY <1>3 DEF Elements
<1>4. CASE CreateProducer(t)
  <2>1. /\ owner' = Append(owner, t) /\ next' = Append(next, listTail) /\ q' = Append(q, <<>>)
        /\ th' = [th EXCEPT ![t].pc = "link", ![t].prod = Len(owner) + 1, ![t].count = 0]
    BY <1>4 DEF CreateProducer
  <2>2. PICK n \in Nat : /\ n = Len(owner) /\ Producers = 1 .. n /\ Len(next) = n
                         /\ Len(q) = n
    BY Shape DEF QueueInv, ListInv
  <2>3. PICK m \in Nat : m = n + 1 /\ m \notin Producers
    BY <2>2
  <2>4. /\ Len(owner') = m /\ Producers' = Producers \cup {m}
    <3>1. owner' \in Seq(Threads) /\ Len(owner') = m
      BY <2>1, <2>2, <2>3, AppendProperties DEF QueueInv, ListInv
    <3> QED BY <2>2, <2>3, <3>1 DEF Producers
  <2>5. /\ \A r \in Producers : next'[r] = next[r] /\ q'[r] = q[r]
        /\ next'[m] = listTail
    <3>1. next \in Seq(Nat) /\ listTail \in Nat /\ q \in Seq(Seq(Calls)) /\ <<>> \in Seq(Calls)
      BY Shape, EmptySeq DEF QueueInv, ListInv
    <3>2. \A r \in 1 .. n : next'[r] = next[r]
      BY <2>1, <2>2, <3>1, AppendProperties
    <3>3. \A r \in 1 .. n : q'[r] = q[r]
      BY <2>1, <2>2, <3>1, AppendProperties
    <3>4. next'[m] = listTail
      BY <2>1, <2>2, <2>3, <3>1, AppendProperties
    <3> QED BY <2>2, <3>2, <3>3, <3>4
  <2>6. Producers \cap Linking' \subseteq Linking
    <3>1. \A u \in Threads \ {t} : th'[u] = th[u]
      BY <1>0, <2>1
    <3>2. th'[t].prod = m
      BY <1>0, <2>1, <2>2, <2>3 DEF Locals
    <3> QED BY <2>3, <3>1, <3>2 DEF Linking
  <2>7. next' \in [Producers' -> Producers' \cup {0}] /\ 0 \notin Producers'
    <3>1. \A r \in Producers' : next'[r] \in Producers' \cup {0}
      BY <2>4, <2>5, Links
    <3>2. next' \in Seq(Nat) /\ Len(next') = m
      <4>1. next \in Seq(Nat) /\ listTail \in Nat
        BY Shape DEF QueueInv, ListInv
      <4> QED BY <2>1, <2>2, <2>3, <4>1, AppendProperties
    <3>3. DOMAIN next' = Producers' /\ next' \in [1 .. m -> Nat]
      BY <2>2, <2>3, <2>4, <3>2
    <3> QED BY <2>2, <2>3, <2>4, <3>1, <3>3
  <2>8. ASSUME NEW x \in (Producers \ Linking) \cup {0}
        PROVE  Reach(next', 0, Producers', x) = Reach(next, 0, Producers, x)
    BY <2>4, <2>5, <2>7, Links, ReachGrow
  <2> QED BY <2>4, <2>5, <2>6, <2>8 DEF Elements
<1>5. CASE LinkProducer(t)
  <2>1. /\ q' = q /\ owner' = owner /\ th[t].pc = "link" /\ p \in Producers /\ p \in Linking
    BY <1>0, <1>1, <1>5 DEF LinkProducer, ThreadOK, Linking
  <2>2. CASE next' = next /\ TGoto(t, "link", "insert")
    <3>1. ThOthers(t) /\ th'[t].pc = "insert"
      BY <1>0, <2>2, GotoTyped DEF Labels
    <3>2. Producers' = Producers /\ Linking' \subseteq Linking
      BY <2>1, <3>1 DEF Producers, Linking, ThOthers
    <3> QED BY <1>3, <2>1, <2>2, <3>2
  <2>3. CASE next' = [next EXCEPT ![p] = listTail] /\ th' = th
    <3>1. /\ next' \in [Producers -> Producers \cup {0}]
          /\ \A r \in Producers \ {p} : next'[r] = next[r]
      BY <2>1, <2>3, Links
    <3>2. ASSUME NEW x \in (Producers \ Linking) \cup {0}
          PROVE  Reach(next', 0, Producers, x) = Reach(next, 0, Producers, x)
      <4>1. p \notin Reach(next, 0, Producers, x)
        <5>1. CASE x = 0
          BY <5>1, ReachNil
        <5>2. CASE x \in Reachable
          <6>1. Reach(next, 0, Producers, x) \subseteq Reach(next, 0, Producers, listTail)
            BY <5>2, Links, ReachFrom DEF Reachable
          <6> QED BY <1>0, <2>1, <6>1 DEF Reachable
        <5> QED BY <1>0, <3>2, <5>1, <5>2
      <4>2. next \in [Producers -> Producers \cup {0}] /\ x \in Producers \cup {0}
        BY <3>2, Links
      <4> QED BY <2>1, <3>1, <4>1, <4>2, ReachSetLink
    <3>3. Producers' = Producers /\ Linking' = Linking
      BY <2>1, <2>3 DEF Producers, Linking
    <3> QED BY <1>3, <2>1, <3>2, <3>3
  <2> QED BY <1>1, <1>5, <2>2, <2>3 DEF LinkProducer
<1>6. CASE EnqueueIn(t)
  <2>1. PICK e : e = <<t, calls[t] + 1>>
    OBVIOUS
  <2>2. /\ q' = [q EXCEPT ![p] = Append(@, e)] \/ q' = q
        /\ TReturn(t) /\ th[t].pc = "enqueue" /\ UNCHANGED <<listTail, next, owner>>
    BY <1>1, <1>6, <2>1 DEF EnqueueIn, listVars
  <2>3. ThOthers(t) /\ th'[t].pc = "idle"
    BY <1>0, <2>2, ReturnTyped
  <2>4. \A u \in Threads : th'[u].pc = "link" => th'[u].prod \in Linking
    BY <2>3 DEF ThOthers, Linking
  <2>5. CASE q' = q
    BY <1>2, <1>3, <2>2, <2>4, <2>5
  <2>6. CASE q' = [q EXCEPT ![p] = Append(@, e)]
    <3>1. p \in Producers /\ q[p] \in Seq(Calls) /\ e \in Calls
      BY <1>0, <1>1, <2>1, <2>2, Links DEF ThreadOK, Calls
    <3>2. q'[p] = Append(q[p], e) /\ \A r \in Producers \ {p} : q'[r] = q[r]
      BY <2>6, <3>1, Links
    <3>3. PICK s \in Seq(Calls) : s = q[p]
      BY <3>1
    <3>4. /\ \A i \in DOMAIN s : i \in DOMAIN Append(s, e) /\ Append(s, e)[i] = s[i]
          /\ Append(s, e) # <<>>
      BY <3>1, AppendProperties
    <3>5. Elements(p) \subseteq Elements(p)' /\ q'[p] # <<>>
      BY <3>2, <3>3, <3>4 DEF Elements
    <3>6. \A r \in Producers : /\ Elements(r) \subseteq Elements(r)'
                               /\ q[r] # <<>> => q'[r] # <<>>
      BY <3>2, <3>5 DEF Elements
    <3> QED BY <1>2, <2>2, <2>4, <3>6
  <2> QED BY <2>2, <2>5, <2>6
<1>7. CASE \/ CallEnqueue(t) \/ CountUp(t) \/ TestAndSet(t) \/ ReloadHash(t) \/ AllocateHash(t)
           \/ AllocateHashFails(t) \/ GiveUp(t) \/ ClearFlag(t)
           \/ CreateProducerFails(t) \/ InsertId(t)
  <2>1. UNCHANGED <<listTail, next, owner>> /\ q' = q
    BY <1>7 DEF CallEnqueue, CountUp, TestAndSet, ReloadHash, AllocateHash,
         AllocateHashFails, GiveUp, ClearFlag, CreateProducerFails, InsertId, listVars
  <2>2. ThOthers(t) /\ th'[t].pc # "link"
    <3>1. CASE CallEnqueue(t)
      BY <1>0, <3>1 DEF CallEnqueue, Found, IdleThread, Locals, ThOthers
    <3>2. CASE CountUp(t) \/ ReloadHash(t)
      BY <1>0, <3>2 DEF CountUp, ReloadHash, Locals, ThOthers
    <3>3. CASE TestAndSet(t) \/ AllocateHash(t) \/ AllocateHashFails(t) \/ ClearFlag(t)
      BY <1>0, <3>3 DEF TestAndSet, AllocateHash, AllocateHashFails, ClearFlag, TGoto,
           CreateIfFits, Locals, ThOthers
    <3>4. CASE GiveUp(t) \/ CreateProducerFails(t)
      BY <1>0, <3>4, ReturnTyped DEF GiveUp, CreateProducerFails
    <3>5. CASE InsertId(t)
      <4>1. th[t].prod \in Nat /\ Found(t, th[t].prod)
        BY <1>0, <3>5 DEF InsertId, Locals
      <4> QED BY <1>0, <4>1, FoundTyped
    <3> QED BY <1>7, <3>1, <3>2, <3>3, <3>4, <3>5
  <2>3. \A u \in Threads : th'[u].pc = "link" => th'[u].prod \in Linking
    BY <2>2 DEF ThOthers, Linking
  <2> QED BY <1>2, <1>3, <2>1, <2>3
<1> QED BY <1>4, <1>5, <1>6, <1>7 DEF GoOn


LEMMA ThreadPollInv ==
    ASSUME QueueInv, PollInv, NEW t \in Threads, CallEnqueue(t) \/ GoOn(t),
           UNCHANGED <<con, waiting>>
    PROVE  PollInv'
<1>1. /\ Producers \subseteq Producers' /\ Producers \cap Linking' \subseteq Linking
      /\ \A p \in Producers : /\ Elements(p) \subseteq Elements(p)'
                              /\ q[p] # <<>> => q'[p] # <<>>
      /\ \A x \in (Producers \ Linking) \cup {0} :
            Reach(next', 0, Producers', x) = Reach(next, 0, Producers, x)
  BY ThreadKeepsLists
<1>2. ASSUME NEW c \in Consumers PROVE ConsumerOK(c)'
  <2>1. ConsumerOK(c) /\ con'[c] = con[c] /\ waiting'[c] = waiting[c]
    BY DEF PollInv
  <2>2. con[c].pc = "scan" => con'[c].ptr \in (Producers' \ Linking') \cup {0}
    BY <1>1, <2>1 DEF ConsumerOK
  <2>3. ASSUME waiting[c] # {} PROVE AloneOK(c)'
    <3>1. AloneOK(c) /\ \A o \in Consumers : Inside(o)' <=> Inside(o)
      BY <2>1, <2>3 DEF ConsumerOK, Inside
    <3>2. ASSUME con[c].pc = "scan", con[c].found = 0, NEW e \in waiting[c]
          PROVE  \E p \in Reach(next', 0, Producers', con[c].ptr) : e \in Elements(p)'
      <4>1. PICK x \in (Producers \ Linking) \cup {0} : x = con[c].ptr
        BY <2>1, <3>2 DEF ConsumerOK
      <4>2. PICK p \in Reach(next, 0, Producers, x) : e \in Elements(p)
        BY <3>1, <3>2, <4>1 DEF AloneOK
      <4>3. p \in Producers
        BY <4>2 DEF Reach
      <4> QED BY <1>1, <4>1, <4>2, <4>3
    <3> QED BY <1>1, <2>1, <3>1, <3>2 DEF AloneOK
  <2> QED BY <1>1, <2>1, <2>2, <2>3 DEF ConsumerOK
<1> QED BY <1>2 DEF PollInv

COthers(c) == \A o \in Consumers \ {c} : con'[o] = con[o]

\* A poll's step leaves the list alone; nobody else's elements are waited for.
LEMMA ConsumerFrame ==
    ASSUME PollInv, NEW c \in Consumers, TryDequeue(c), COthers(c),
           con' \in [Consumers -> ConsumerLocals], ConsumerOK(c)'
    PROVE  PollInv'
<1>1. UNCHANGED <<listTail, next, owner, th>>
  BY DEF TryDequeue, listVars
<1>2. Producers' = Producers /\ Linking' = Linking
  BY <1>1 DEF Producers, Linking
<1>3. Inside(c) \/ Inside(c)'
  <2>1. con[c].pc \in {"scan", "best", "others"} => Inside(c)
    BY DEF Inside
  <2>2. CASE CallTryDequeue(c)
    BY <2>2 DEF CallTryDequeue, Inside, PollInv, ConsumerLocals
  <2>3. CASE Poll(c)
    BY <2>1, <2>3 DEF Poll, Scan, TryBest, TryOthers
  <2> QED BY <2>2, <2>3 DEF TryDequeue
<1>4. ASSUME NEW o \in Consumers, o # c PROVE ConsumerOK(o)'
  <2>1. waiting'[o] = {}
    BY <1>3, <1>4 DEF TryDequeue, Ought
  <2>2. ConsumerOK(o) /\ con'[o] = con[o]
    BY <1>4 DEF PollInv, COthers
  <2> QED BY <1>2, <2>1, <2>2 DEF ConsumerOK
<1> QED BY <1>4 DEF PollInv

\* What a poll still waits for, it waited for before, unless it just began.
LEMMA StillWaiting ==
    ASSUME NEW c \in Consumers, TryDequeue(c), waiting'[c] # {}
    PROVE  /\ Inside(c)' /\ \A o \in Consumers \ {c} : ~Inside(o) /\ ~Inside(o)'
           /\ Inside(c) => waiting'[c] = waiting[c] \cap InQueue' /\ waiting[c] # {}
           /\ ~Inside(c) => waiting'[c] = InQueue'
<1>1. waiting'[c] = IF ~Inside(c)' \/ \E o \in Consumers \ {c} : Inside(o) \/ Inside(o)'
                    THEN {}
                    ELSE IF Inside(c) THEN waiting[c] \cap InQueue' ELSE InQueue'
  BY DEF TryDequeue, Ought
<1> QED BY <1>1

LEMMA ReturnPollInv ==
    ASSUME PollInv, NEW c \in Consumers, TryDequeue(c), CReturn(c)
    PROVE  PollInv'
<1>1. /\ con' \in [Consumers -> ConsumerLocals] /\ COthers(c)
      /\ con'[c].pc \in {"idle", "gone"} /\ con'[c].found = 0 /\ con'[c].size = 0
  BY DEF PollInv, CReturn, IdleConsumer, ConsumerLocals, COthers
<1>2. waiting'[c] = {}
  BY <1>1, StillWaiting DEF Inside
<1>3. ConsumerOK(c)'
  BY <1>1, <1>2 DEF ConsumerOK
<1> QED BY <1>1, <1>3, ConsumerFrame

\* A poll begins with the whole list before it: what is not linked is empty.
LEMMA CallPollInv ==
    ASSUME QueueInv, PollInv, NEW c \in Consumers, TryDequeue(c), CallTryDequeue(c)
    PROVE  PollInv'
<1>1. /\ con \in [Consumers -> ConsumerLocals] /\ ConsumerOK(c)
      /\ con[c].pc = "idle" /\ con' = [con EXCEPT ![c].pc = "scan", ![c].ptr = listTail]
      /\ q' = q /\ UNCHANGED <<listTail, next, owner, th>>
  BY DEF PollInv, CallTryDequeue, TryDequeue, listVars
<1>2. listTail \in Nat /\ listTail \in (Producers \ Linking) \cup {0}
  <2>1. listTail \in Reachable \cup {0}
    BY Links, ReachClosed DEF Reachable
  <2> QED BY <2>1, Links, Shape DEF QueueInv, ListInv
<1>3. /\ con' \in [Consumers -> ConsumerLocals] /\ COthers(c)
      /\ con'[c].pc = "scan" /\ con'[c].ptr = listTail
      /\ con'[c].found = con[c].found /\ con'[c].size = con[c].size
  BY <1>1, <1>2 DEF ConsumerLocals, COthers
<1>4. con'[c].found = 0 /\ con'[c].size = 0
  BY <1>1, <1>3 DEF ConsumerOK
<1>5. Producers' = Producers /\ Linking' = Linking /\ DOMAIN q = Producers
  BY <1>1, Links DEF Producers, Linking
<1>6. ASSUME waiting'[c] # {} PROVE AloneOK(c)'
  <2>1. /\ Inside(c)' /\ \A o \in Consumers \ {c} : ~Inside(o)'
        /\ waiting'[c] = InQueue'
    BY <1>1, <1>6, StillWaiting DEF Inside
  <2>2. ASSUME NEW e \in waiting'[c]
        PROVE  \E p \in Reach(next', 0, Producers', con'[c].ptr) : e \in Elements(p)'
    <3>1. PICK p \in Producers : e \in Elements(p)
      BY <1>1, <1>5, <2>1, <2>2 DEF InQueue, Elements
    <3>2. q[p] # <<>>
      BY <3>1 DEF Elements
    <3>3. p \notin Linking
      BY <3>2 DEF Linking, QueueInv, ThreadsInv, ThreadOK
    <3>4. p \in Reach(next, 0, Producers, listTail)
      BY <3>1, <3>3 DEF QueueInv, ListInv, Reachable
    <3> QED BY <1>1, <1>3, <1>5, <3>1, <3>4 DEF Elements
  <2> QED BY <1>3, <1>4, <2>1, <2>2 DEF AloneOK
<1>7. ConsumerOK(c)'
  BY <1>2, <1>3, <1>4, <1>5, <1>6 DEF ConsumerOK
<1> QED BY <1>3, <1>7, ConsumerFrame


\* Either the sub-queue it passes is empty, or the scan has found one.
LEMMA ScanPollInv ==
    ASSUME QueueInv, PollInv, NEW c \in Consumers, TryDequeue(c), Scan(c)
    PROVE  PollInv'
<1>1. /\ con \in [Consumers -> ConsumerLocals] /\ ConsumerOK(c)
      /\ con[c].pc = "scan" /\ q' = q /\ UNCHANGED <<listTail, next, owner, th>>
  BY DEF PollInv, Scan, TryDequeue, listVars
<1>2. PICK p, l : p = con[c].ptr /\ l = con[c]
  OBVIOUS
<1>3. /\ p \in (Producers \ Linking) \cup {0} /\ l \in ConsumerLocals
      /\ Producers' = Producers /\ Linking' = Linking
      /\ l.found \in Nat /\ l.size \in Nat /\ l.best \in Nat /\ l.ptr = p /\ l.pc = "scan"
  BY <1>1, <1>2 DEF ConsumerOK, Producers, Linking, ConsumerLocals
<1>4. Inside(c)
  BY <1>1 DEF Inside
<1>5. CASE p # 0 /\ l.found < 3
  <2>1. /\ p \in Producers /\ p \notin Linking /\ q[p] \in Seq(Calls)
        /\ next[p] \in Producers \cup {0}
    BY <1>3, <1>5, Links
  <2>2. PICK n \in Nat : n = Len(q[p]) /\ (n = 0 <=> q[p] = <<>>)
    BY <2>1, LenProperties
  <2>3. PICK f \in Nat, b \in Nat, z \in Nat :
           /\ f = l.found + (IF n # 0 THEN 1 ELSE 0)
           /\ b = IF n > l.size THEN p ELSE l.best
           /\ z = IF n > l.size THEN n ELSE l.size
    BY <1>3, <2>1, <2>2, Shape
  <2>4. /\ con' \in [Consumers -> ConsumerLocals] /\ COthers(c)
        /\ con'[c].pc = "scan" /\ con'[c].ptr = next[p] /\ con'[c].found = f
        /\ con'[c].best = b /\ con'[c].size = z
    <3>1. con' = [con EXCEPT ![c].ptr = next[p],
                             ![c].found = @ + (IF q[p] # <<>> THEN 1 ELSE 0),
                             ![c].best = IF Len(q[p]) > l.size THEN p ELSE @,
                             ![c].size = IF Len(q[p]) > @ THEN Len(q[p]) ELSE @]
      BY <1>1, <1>2, <1>5 DEF Scan
    <3>2. (IF q[p] # <<>> THEN 1 ELSE 0) = (IF n # 0 THEN 1 ELSE 0)
      BY <2>2
    <3>3. con'[c].pc = "scan" /\ con'[c].ptr = next[p]
      BY <1>1, <1>2, <1>3, <3>1 DEF ConsumerLocals
    <3>4. con'[c].found = f
      BY <1>1, <1>2, <1>3, <2>3, <3>1, <3>2 DEF ConsumerLocals
    <3>5. con'[c].best = b
      BY <1>1, <1>2, <1>3, <2>2, <2>3, <3>1 DEF ConsumerLocals
    <3>6. con'[c].size = z
      BY <1>1, <1>2, <1>3, <2>2, <2>3, <3>1 DEF ConsumerLocals
    <3>7. COthers(c) /\ DOMAIN con' = Consumers
      BY <1>1, <3>1 DEF COthers
    <3>8. con'[c] \in ConsumerLocals
      <4>1. next[p] \in Nat
        BY <2>1, Shape
      <4>2. con'[c] = [pc |-> "scan", ptr |-> next[p], found |-> f, best |-> b, size |-> z]
        BY <1>1, <3>1, <3>3, <3>4, <3>5, <3>6 DEF ConsumerLocals
      <4> QED BY <2>3, <4>1, <4>2 DEF ConsumerLocals
    <3> QED BY <1>1, <3>1, <3>3, <3>4, <3>5, <3>6, <3>7, <3>8 DEF COthers
  <2>5. PICK m : m = con'[c]
    OBVIOUS
  <2>6. /\ l.found = 0 => l.size = 0
        /\ waiting[c] # {} => AloneOK(c)
    BY <1>1, <1>2 DEF ConsumerOK
  <2>7. m.found = 0 => m.size = 0 /\ l.found = 0 /\ q[p] = <<>>
    <3>1. m.found = f /\ m.size = z
      BY <2>4, <2>5
    <3>2. f = 0 => n = 0 /\ l.found = 0
      BY <1>3, <2>3
    <3>3. f = 0 => z = 0
      BY <1>3, <2>3, <2>6, <3>2
    <3> QED BY <2>2, <3>1, <3>2, <3>3
  <2>8. m.ptr \in (Producers \ Linking) \cup {0}
    <3>1. Reach(next, 0, Producers, next[p]) \subseteq Reachable /\ p \in Reachable
      BY <1>3, <2>1, Links, ReachBehind DEF Reachable, QueueInv, ListInv
    <3>2. next[p] \in Reach(next, 0, Producers, next[p]) \cup {0}
      BY <2>1, Links, ReachClosed
    <3> QED BY <2>4, <2>5, <3>1, <3>2 DEF QueueInv, ListInv
  <2>9. ASSUME waiting'[c] # {} PROVE AloneOK(c)'
    <3>1. /\ Inside(c)' /\ \A o \in Consumers \ {c} : ~Inside(o)'
          /\ waiting'[c] \subseteq waiting[c] /\ AloneOK(c)
      BY <1>4, <2>6, <2>9, StillWaiting
    <3>2. ASSUME m.found = 0, NEW e \in waiting'[c]
          PROVE  \E r \in Reach(next, 0, Producers, m.ptr) : e \in Elements(r)
      <4>1. PICK r \in Reach(next, 0, Producers, p) : e \in Elements(r)
        BY <1>2, <1>3, <2>7, <3>1, <3>2 DEF AloneOK
      <4>2. Reach(next, 0, Producers, p) = {p} \cup Reach(next, 0, Producers, next[p])
        BY <2>1, Links, ReachFirst
      <4>3. Elements(p) = {}
        BY <2>7, <3>2 DEF Elements
      <4> QED BY <2>4, <2>5, <4>1, <4>2, <4>3
    <3>3. ASSUME m.found > 0 PROVE m.best \in Producers /\ q[m.best] # <<>>
      <4>1. CASE n > l.size
        BY <1>3, <2>1, <2>2, <2>3, <2>4, <2>5, <4>1
      <4>2. CASE ~(n > l.size)
        <5>1. l.found > 0
          BY <1>3, <2>2, <2>3, <2>4, <2>5, <2>6, <3>3, <4>2
        <5> QED BY <1>2, <2>3, <2>4, <2>5, <3>1, <4>2, <5>1 DEF AloneOK
      <4> QED BY <4>1, <4>2
    <3>4. m.pc = "scan"
      BY <2>4, <2>5
    <3>5. \A e \in waiting'[c] : m.found = 0 =>
             \E r \in Reach(next', 0, Producers', m.ptr) : e \in Elements(r)'
      BY <1>1, <1>3, <3>2 DEF Elements
    <3> QED BY <1>1, <1>3, <2>5, <3>1, <3>3, <3>4, <3>5 DEF AloneOK
  <2>10. ConsumerOK(c)'
    BY <1>3, <2>4, <2>5, <2>7, <2>8, <2>9 DEF ConsumerOK
  <2> QED BY <2>4, <2>10, ConsumerFrame
<1>6. CASE ~(p # 0 /\ l.found < 3) /\ l.found > 0
  <2>1. con' = [con EXCEPT ![c].pc = "best", ![c].ptr = l.best]
    BY <1>2, <1>6 DEF Scan
  <2>2. /\ con' \in [Consumers -> ConsumerLocals] /\ COthers(c)
        /\ con'[c].pc = "best" /\ con'[c].ptr = l.best
        /\ con'[c].found = l.found /\ con'[c].best = l.best /\ con'[c].size = l.size
    BY <1>1, <1>2, <1>3, <2>1 DEF ConsumerLocals, COthers
  <2>3. ASSUME waiting'[c] # {} PROVE AloneOK(c)'
    <3>1. /\ Inside(c)' /\ \A o \in Consumers \ {c} : ~Inside(o)'
          /\ AloneOK(c)
      BY <1>1, <1>4, <2>3, StillWaiting DEF ConsumerOK
    <3>2. l.best \in Producers /\ q[l.best] # <<>>
      BY <1>2, <1>6, <3>1 DEF AloneOK
    <3> QED BY <1>1, <1>3, <1>6, <2>2, <3>1, <3>2 DEF AloneOK
  <2>4. ConsumerOK(c)'
    BY <1>1, <1>2, <2>2, <2>3 DEF ConsumerOK
  <2> QED BY <2>2, <2>4, ConsumerFrame
<1>7. CASE ~(p # 0 /\ l.found < 3) /\ ~(l.found > 0)
  <2>1. CReturn(c)
    BY <1>2, <1>7 DEF Scan
  <2> QED BY <2>1, ReturnPollInv
<1> QED BY <1>5, <1>6, <1>7

\* Nobody is in the way of a poll that is alone, and what it has found is
\* still there.
LEMMA AloneTries ==
    ASSUME PollInv, NEW c \in Consumers, Inside(c), waiting[c] # {}
    PROVE  /\ con[c].pc # "others"
           /\ con[c].pc = "best" => ~Fails(c) /\ con[c].ptr \in Producers /\ q[con[c].ptr] # <<>>
<1>1. AloneOK(c) /\ con[c].found \in Nat
  BY DEF PollInv, ConsumerOK, ConsumerLocals
<1> QED BY <1>1 DEF AloneOK, Fails, Inside

LEMMA TryPollInv ==
    ASSUME QueueInv, PollInv, NEW c \in Consumers, TryDequeue(c), TryBest(c) \/ TryOthers(c)
    PROVE  PollInv'
<1>1. /\ con \in [Consumers -> ConsumerLocals] /\ ConsumerOK(c)
      /\ con[c].pc \in {"best", "others"} /\ UNCHANGED <<listTail, next, owner>>
      /\ Inside(c)
  BY DEF PollInv, TryBest, TryOthers, TryDequeue, listVars, Inside
<1>2. CASE DequeueFrom(c) \/ CReturn(c)
  BY <1>2, ReturnPollInv DEF DequeueFrom
<1>3. ASSUME NEW x \in Producers \cup {0}, waiting[c] = {},
             con' = [con EXCEPT ![c].pc = "others", ![c].ptr = x]
      PROVE  PollInv'
  <2>1. /\ con' \in [Consumers -> ConsumerLocals] /\ COthers(c)
        /\ con'[c].pc = "others" /\ con'[c].ptr = x
        /\ con'[c].found = con[c].found /\ con'[c].size = con[c].size
    <3>1. x \in Nat
      BY Shape
    <3> QED BY <1>1, <1>3, <3>1 DEF ConsumerLocals, COthers
  <2>2. waiting'[c] = {}
    BY <1>1, <1>3, StillWaiting
  <2>3. ConsumerOK(c)'
    BY <1>1, <1>3, <2>1, <2>2 DEF ConsumerOK, Producers
  <2> QED BY <2>1, <2>3, ConsumerFrame
<1>4. CASE /\ con[c].pc = "best" /\ Fails(c)
           /\ con' = [con EXCEPT ![c].pc = "others", ![c].ptr = listTail]
  BY <1>1, <1>3, <1>4, AloneTries, Links
<1>5. CASE /\ con[c].pc = "others" /\ con[c].ptr # 0
           /\ con' = [con EXCEPT ![c].ptr = next[@]]
  <2>1. con[c].ptr \in Producers
    BY <1>1, <1>5 DEF ConsumerOK
  <2>2. next[con[c].ptr] \in Producers \cup {0}
    BY <2>1, Links
  <2>3. con' = [con EXCEPT ![c].pc = "others", ![c].ptr = next[con[c].ptr]]
    BY <1>1, <1>5 DEF ConsumerLocals
  <2> QED BY <1>1, <1>3, <1>5, <2>2, <2>3, AloneTries
<1> QED BY <1>2, <1>4, <1>5 DEF TryBest, TryOthers

LEMMA NextPollInv == QueueInv /\ PollInv /\ [Next]_vars => PollInv'
<1> SUFFICES ASSUME QueueInv, PollInv, [Next]_vars PROVE PollInv'
  OBVIOUS
<1>1. ASSUME NEW t \in Threads, Enqueue(t) PROVE PollInv'
  BY <1>1, ThreadPollInv DEF Enqueue
<1>2. ASSUME NEW c \in Consumers, TryDequeue(c) PROVE PollInv'
  BY <1>2, CallPollInv, ScanPollInv, TryPollInv DEF TryDequeue, Poll
<1>3. CASE UNCHANGED vars
  <2>1. UNCHANGED <<listTail, next, owner, q, th, con, waiting>>
    BY <1>3 DEF vars, listVars
  <2>2. /\ Producers' = Producers /\ Linking' = Linking
        /\ \A p : Elements(p)' = Elements(p)
        /\ \A c \in Consumers : Inside(c)' <=> Inside(c)
    BY <2>1 DEF Producers, Linking, Elements, Inside
  <2>3. ASSUME NEW c \in Consumers PROVE ConsumerOK(c)'
    <3>1. ConsumerOK(c)
      BY DEF PollInv
    <3>2. AloneOK(c) => AloneOK(c)'
      BY <2>1, <2>2 DEF AloneOK
    <3> QED BY <2>1, <2>2, <3>1, <3>2 DEF ConsumerOK
  <2> QED BY <2>1, <2>3 DEF PollInv
<1> QED BY <1>1, <1>2, <1>3 DEF Next

LEMMA InitPollInv == Init => PollInv
<1> SUFFICES ASSUME Init PROVE PollInv
  OBVIOUS
<1>1. \A c \in Consumers : con[c] = IdleConsumer /\ waiting[c] = {}
  BY DEF Init
<1>2. con \in [Consumers -> ConsumerLocals]
  BY DEF Init, IdleConsumer, ConsumerLocals
<1> QED BY <1>1, <1>2 DEF PollInv, ConsumerOK, IdleConsumer

LEMMA PollInvariant == Spec => [](QueueInv /\ PollInv)
BY InitQueueInv, NextQueueInv, InitPollInv, NextPollInv, PTL DEF Spec

\* A poll that leaves with nothing, and was alone, had nothing to find.
LEMMA PollFinds ==
    ASSUME QueueInv, PollInv, [Next]_vars, NEW c \in Consumers,
           Inside(c), ~Inside(c)', q' = q
    PROVE  waiting[c] = {}
<1> SUFFICES ASSUME waiting[c] # {} PROVE FALSE
  OBVIOUS
<1>1. con'[c] # con[c]
  BY DEF Inside
<1>2. con \in [Consumers -> ConsumerLocals] /\ AloneOK(c)
  BY DEF PollInv, ConsumerOK
<1>3. PICK o \in Consumers : TryDequeue(o)
  BY <1>1 DEF Next, Enqueue, vars
<1>4. o = c
  BY <1>1, <1>2, <1>3 DEF TryDequeue, CallTryDequeue, Poll, Scan, TryBest, TryOthers,
       DequeueFrom, CReturn
<1>5. CASE CallTryDequeue(c)
  BY <1>5 DEF CallTryDequeue, Inside
<1>6. CASE Scan(c)
  <2>1. con[c].pc = "scan" /\ con[c].found \in Nat
    BY <1>2, <1>6 DEF Scan, ConsumerLocals
  <2>2. con[c].ptr = 0 /\ con[c].found = 0
    <3>1. ~(con[c].ptr # 0 /\ con[c].found < 3) /\ ~(con[c].found > 0)
      <4>1. CASE con[c].ptr # 0 /\ con[c].found < 3
        <5>1. con'[c].pc = con[c].pc
          BY <1>2, <1>6, <4>1 DEF Scan, ConsumerLocals
        <5> QED BY <5>1 DEF Inside
      <4>2. CASE ~(con[c].ptr # 0 /\ con[c].found < 3) /\ con[c].found > 0
        <5>1. con'[c].pc = "best"
          BY <1>2, <1>6, <4>2 DEF Scan, ConsumerLocals
        <5> QED BY <5>1 DEF Inside
      <4> QED BY <4>1, <4>2
    <3> QED BY <2>1, <3>1
  <2>3. Reach(next, 0, Producers, con[c].ptr) = {}
    BY <2>2, ReachNil
  <2> QED BY <1>2, <2>1, <2>2, <2>3 DEF AloneOK
<1>7. CASE TryBest(c) \/ TryOthers(c)
  <2>1. /\ con[c].pc = "best" /\ ~Fails(c) /\ con[c].ptr \in Producers /\ q[con[c].ptr] # <<>>
    BY <1>7, AloneTries DEF TryBest, TryOthers
  <2>2. PICK p \in Producers : p = con[c].ptr /\ q[p] # <<>>
    BY <2>1
  <2>3. q' = [q EXCEPT ![p] = Tail(@)]
    BY <1>7, <2>1, <2>2 DEF TryBest, TryOthers, DequeueFrom
  <2>4. q[p] \in Seq(Calls) /\ q'[p] = Tail(q[p])
    BY <2>2, <2>3, Links
  <2>5. PICK s \in Seq(Calls) : s = q[p] /\ s # <<>>
    BY <2>2, <2>4
  <2>6. Tail(s) # s
    <3>1. PICK n \in Nat : n = Len(s)
      BY <2>5, LenProperties
    <3>2. Len(Tail(s)) = n - 1
      BY <2>5, <3>1, HeadTailProperties
    <3> QED BY <3>1, <3>2
  <2> QED BY <2>4, <2>5, <2>6
<1> QED BY <1>3, <1>4, <1>5, <1>6, <1>7 DEF TryDequeue, Poll

\* A poll that runs alone, while any number of threads enqueue, and finds
\* nothing has overlooked nothing that was there when it began.
THEOREM QueuePollFindsWaiting == Spec => PollFindsWaiting
<1>1. QueueInv /\ PollInv /\ [Next]_vars =>
        [\A c \in Consumers :
            Inside(c) /\ ~Inside(c)' /\ q' = q => waiting[c] = {}]_vars
  BY PollFinds
<1> QED BY <1>1, PollInvariant, PTL DEF Spec, PollFindsWaiting

=============================================================================
