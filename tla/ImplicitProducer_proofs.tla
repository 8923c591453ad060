----------------------- MODULE ImplicitProducer_proofs ------------------------
(***************************************************************************)
(* Machine-checked proofs about a sub-queue with a single consumer, as the *)
(* node's queue has: the distributor.                                      *)
(***************************************************************************)
EXTENDS ImplicitProducer, FiniteSetTheorems, SequenceTheorems, TLAPS

-----------------------------------------------------------------------------
(* The inductive invariant, for the consumer c                             *)

\* Where a consumer asks for an element, and where it looks for its block.
Asking == {"load_over", "look", "count", "reload_tail", "claim"}
Looking == {"load_index", "load_pos", "load_base", "move"}
Clearing == {"set_empty", "unlink"}

\* Where the tail of the index is ahead of the blocks.
Advanced == {"requisition", "rewind", "store_value"}
ProducerLabels == {"idle", "find_entry", "new_index", "store_tail", "construct"} \cup Advanced

Half == Modulus - (Modulus \div 2)
CounterOf(n) == n % Modulus

\* The elements in the queue and the rest of the block being filled span less
\* than half the range of the indices.
SpanInv ==
    /\ sent \in Nat /\ claimed \in Nat /\ claimed <= sent /\ sent <= MaxElements
    /\ sent - claimed < Half
    /\ prod.pc # "idle" => sent < MaxElements
    /\ prod.pc # "idle" \/ Slot(sent) # 0 =>
          sent - claimed + (BLOCK_SIZE - Slot(sent)) < Half

\* The counters; a single consumer is never turned away.
CountInv(c) ==
    /\ tailIndex = CounterOf(sent) /\ headIndex = CounterOf(claimed)
    /\ dequeueOvercommit = 0
    /\ dequeueOptimisticCount =
          CounterOf(claimed + (IF cons[c].pc \in {"reload_tail", "claim"} THEN 1 ELSE 0))
    /\ cons[c].pc \in {"load_over", "look"} =>
          \E n \in claimed .. sent : /\ cons[c].tail = CounterOf(n)
                                     /\ n = claimed => excused[c]
    /\ cons[c].pc \in Asking => cons[c].over = 0
    /\ cons[c].pc \in {"count", "reload_tail", "claim"} => claimed < sent
    /\ cons[c].pc = "reload_tail" => cons[c].my = CounterOf(claimed)
    /\ cons[c].ticket = (IF cons[c].pc \in Asking \cup {"idle"} THEN 0 ELSE claimed)
    /\ cons[c].pc \notin Asking \cup {"idle"} => claimed > 0

\* Elements moved out, elements given up, and the oldest block in the index.
Moved(c) == claimed - (IF cons[c].pc \in Looking THEN 1 ELSE 0)
Emptied(c) == claimed - (IF cons[c].pc \in Looking \cup {"set_empty"} THEN 1 ELSE 0)
First(c) == (claimed - (IF cons[c].pc \in Looking \cup Clearing THEN 1 ELSE 0)) \div BLOCK_SIZE

\* The blocks that have a place in the index, and those that are in it: with
\* numbers below these.
Block == sent \div BLOCK_SIZE
Ends == IF Slot(sent) # 0 \/ prod.pc \in Advanced \cup {"construct"} THEN Block + 1 ELSE Block
Stored == IF prod.pc \in Advanced THEN Block ELSE Ends

\* The entry of block j, counted from the tail of a header that has a place
\* for the blocks below e.
EntryAt(h, e, j) == h.index[(h.tail + 1 + j - e) % Capacity(h)]
EntryOf(j) == EntryAt(blockIndex, Ends, j)

\* Headers of n places.
Headers(n) == [tail : 0 .. n - 1, index : [0 .. n - 1 -> Nat]]
Sizes == Nat \ {0}

HeaderOK(h) ==
    /\ \E n \in Sizes : h \in Headers(n)
    /\ \A i \in DOMAIN h.index : h.index[i] \in DOMAIN entries

Key(j) == CounterOf(j * BLOCK_SIZE)

BlockOK(c, j) == LET b == entries[EntryOf(j)].value IN
    /\ entries[EntryOf(j)].key = Key(j)
    /\ b \in Blocks /\ b \notin free
    /\ completely[b] = IF j = First(c) THEN Emptied(c) - j * BLOCK_SIZE ELSE 0
    /\ \A s \in 0 .. BLOCK_SIZE - 1 :
          LET e == j * BLOCK_SIZE + s + 1
          IN Moved(c) < e /\ e <= sent => elements[b][s] = e

IndexInv(c) ==
    /\ headers \in Seq(UNION {Headers(n) : n \in Sizes}) /\ headers # <<>>
    /\ \A i \in DOMAIN headers : HeaderOK(headers[i])
    /\ \A i, k \in DOMAIN blockIndex.index :
          blockIndex.index[i] = blockIndex.index[k] => i = k
    /\ Ends - First(c) <= Capacity(blockIndex)
    /\ \A j \in First(c) .. Stored - 1 : BlockOK(c, j)
    /\ \A j, k \in First(c) .. Stored - 1 :
          entries[EntryOf(j)].value = entries[EntryOf(k)].value => j = k
    /\ \A i \in DOMAIN entries : entries[i].value \in Blocks =>
          \E j \in First(c) .. Stored - 1 : i = EntryOf(j)

\* The block in the hands of the producer, and of the consumer.
Taken == IF prod.pc = "store_value" THEN {prod.block} ELSE {}
Given(c) == IF cons[c].pc = "release" THEN {cons[c].block} ELSE {}

ProducerInv(c) ==
    /\ prod.pc \in ProducerLabels
    /\ prod.pc \notin {"idle", "construct"} => Slot(sent) = 0
    /\ prod.pc = "store_tail" => Ends - First(c) < Capacity(blockIndex)
    /\ prod.pc \in Advanced \cup {"store_tail"} =>
          /\ prod.entry = EntryOf(Block)
          /\ entries[prod.entry].key = Key(Block)
    /\ prod.pc = "store_value" => completely[prod.block] = 0
    /\ prod.pc = "construct" \/ Slot(sent) # 0 =>
          prod.block = entries[EntryOf(Block)].value

\* The header h, whose tail was its last when it had places for the blocks
\* below e, still leads to the blocks there are.
Fits(c, h, e) ==
    /\ e - First(c) <= Capacity(h)
    /\ \A j \in First(c) .. e - 1 : EntryAt(h, e, j) = EntryOf(j)

\* In the header h the position pos has the entry of the block below e, and
\* leads to the oldest block.
Leads(c, h, pos, e) ==
    /\ pos \in DOMAIN h.index
    /\ (e - 1 - First(c)) * BLOCK_SIZE <= Modulus \div 2
    /\ entries[h.index[pos]].key = Key(e - 1) /\ h.index[pos] = EntryOf(e - 1)
    /\ h.index[(pos + 1 + First(c) - e) % Capacity(h)] = EntryOf(First(c))

LookInv(c) ==
    /\ cons[c].pc \in {"load_pos", "load_base"} => cons[c].header \in DOMAIN headers
    /\ cons[c].pc = "load_pos" =>
          \/ cons[c].header = Len(headers)
          \/ \E e \in First(c) + 1 .. Stored : Fits(c, headers[cons[c].header], e)
    /\ cons[c].pc = "load_base" =>
          \E e \in First(c) + 1 .. Block + 1 :
             /\ Leads(c, headers[cons[c].header], cons[c].pos, e)
             /\ e > Stored => prod.pc # "new_index" /\ cons[c].header = Len(headers)

ConsumerInv(c) ==
    /\ cons[c].pc \in Looking => cons[c].index = CounterOf(claimed - 1)
    /\ cons[c].pc \in {"move"} \cup Clearing => cons[c].entry = EntryOf(First(c))
    /\ cons[c].pc \in Clearing => cons[c].block = entries[EntryOf(First(c))].value
    /\ cons[c].pc \in Clearing \cup {"release"} => cons[c].got = claimed
    /\ cons[c].pc = "unlink" => claimed = (First(c) + 1) * BLOCK_SIZE

BlocksInv(c) ==
    /\ Taken \cup Given(c) \subseteq Blocks /\ (Taken \cup Given(c)) \cap free = {}
    /\ Taken \cap Given(c) = {}
    /\ (Taken \cup Given(c)) \cap Linked = {}
    /\ free \cup Linked \cup Taken \cup Given(c) = Blocks

ConsumerLabels == {"idle", "release"} \cup Asking \cup Looking \cup Clearing

ConsumerLocals ==
    [pc : ConsumerLabels, tail : Nat, over : Nat, my : Nat, index : Nat, header : Nat, pos : Nat,
     entry : Nat, block : Blocks \cup {Null}, ticket : Nat, got : Nat]

ProducerLocals == [pc : ProducerLabels, entry : Nat, block : Blocks \cup {Null}]

EntryObjects == [key : Index, value : Blocks \cup {Null, Garbage}]

QueueTyped ==
    /\ prod \in ProducerLocals
    /\ free \subseteq Blocks
    /\ elements \in [Blocks -> [0 .. BLOCK_SIZE - 1 -> 0 .. MaxElements]]
    /\ completely \in [Blocks -> 0 .. BLOCK_SIZE]
    /\ entries \in Seq([key : Index, value : Blocks \cup {Null, Garbage}])
    /\ cons \in [Consumers -> ConsumerLocals]

IPInv(c) ==
    /\ SpanInv /\ CountInv(c) /\ QueueTyped /\ IndexInv(c)
    /\ ProducerInv(c) /\ LookInv(c) /\ ConsumerInv(c) /\ BlocksInv(c)

\* Only an entry that was never used, and the one the producer is about to use,
\* may still hold what memory held before; the index grows past none of them.
UnsetInv ==
    /\ \A i \in DOMAIN entries : entries[i].value = Garbage =>
          \/ entries[i].key = INVALID_BLOCK_BASE
          \/ prod.pc \in {"store_tail"} \cup Advanced /\ i = prod.entry
    /\ prod.pc = "new_index" =>
          entries[blockIndex.index[NextPos(blockIndex)]].key # INVALID_BLOCK_BASE

-----------------------------------------------------------------------------
(* Remainders                                                              *)

\* a divided by n is d, with the remainder r.
Division(n, a, d, r) ==
    n \in Nat /\ n > 0 /\ a \in Int /\ d \in Int /\ r \in 0 .. n - 1 /\ a = n * d + r

\* a and b differ by a multiple of n.
Congruent(n, a, b) == \E k \in Int : a = b + n * k

LEMMA ModDef ==
    ASSUME NEW n \in Nat, n > 0, NEW a \in Int
    PROVE  \E d \in Int, r \in 0 .. n - 1 :
              Division(n, a, d, r) /\ d = a \div n /\ r = a % n
<1>1. a \div n \in Int /\ a % n \in 0 .. n-1
  OBVIOUS
<1>2. a = n * (a \div n) + (a % n)
  OBVIOUS
<1> QED BY <1>1, <1>2 DEF Division

\* A multiple is not less than the number.
LEMMA MulMono ==
    ASSUME NEW n \in Nat, n > 0, NEW d \in Int, d > 0
    PROVE  n * d >= n
<1>1. n * (d - 1) >= 0
  OBVIOUS
<1>2. n * (d - 1) = n * d - n
  OBVIOUS
<1> QED BY <1>1, <1>2

\* Quotient and remainder are the only ones.
LEMMA DivUnique ==
    ASSUME NEW n, NEW a, NEW k, NEW b, Division(n, a, k, b)
    PROVE  a % n = b /\ a \div n = k
<1>0. n \in Nat /\ n > 0 /\ a \in Int /\ k \in Int /\ b \in 0 .. n - 1 /\ a = n * k + b
  BY DEF Division
<1>1. PICK d \in Int, r \in 0 .. n-1 : r = a % n /\ d = a \div n /\ a = n * d + r
  BY <1>0, ModDef DEF Division
<1>2. n * (d - k) = b - r /\ n * (k - d) = r - b
  BY <1>0, <1>1
<1>3. ~(d > k)
  <2>1. d > k => n * (d - k) >= n
    BY <1>0, MulMono
  <2> QED BY <1>0, <1>2, <2>1
<1>4. ~(k > d)
  <2>1. k > d => n * (k - d) >= n
    BY <1>0, MulMono
  <2> QED BY <1>0, <1>2, <2>1
<1>5. d = k
  BY <1>0, <1>3, <1>4
<1> QED BY <1>0, <1>1, <1>2, <1>5

\* Numbers that differ by a multiple have the same remainder.
LEMMA ModShift ==
    ASSUME NEW n \in Nat, n > 0, NEW a \in Int, NEW b \in Int, Congruent(n, a, b)
    PROVE  a % n = b % n
<1>1. PICK k \in Int : a = b + n * k
  BY DEF Congruent
<1>2. PICK d \in Int, r \in 0 .. n - 1 : Division(n, b, d, r) /\ r = b % n
  BY ModDef
<1>3. Division(n, a, d + k, r)
  BY <1>1, <1>2 DEF Division
<1> QED BY <1>2, <1>3, DivUnique

\* A remainder may be taken before adding.
LEMMA ModPlus ==
    ASSUME NEW n \in Nat, n > 0, NEW a \in Int, NEW b \in Int
    PROVE  ((a % n) + b) % n = (a + b) % n /\ ((a % n) - b) % n = (a - b) % n
           /\ (b - (a % n)) % n = (b - a) % n
<1>1. PICK d \in Int, r \in 0 .. n-1 : r = a % n /\ a = n * d + r
  BY ModDef DEF Division
<1>2. a + b \in Int /\ r + b \in Int /\ a - b \in Int /\ r - b \in Int /\ b - a \in Int /\ b - r \in Int
  BY <1>1
<1>3. Congruent(n, a + b, r + b) /\ Congruent(n, a - b, r - b)
  BY <1>1 DEF Congruent
<1>4. Congruent(n, b - r, b - a)
  BY <1>1 DEF Congruent
<1>5. (a + b) % n = (r + b) % n
  BY <1>2, <1>3, ModShift
<1>6. (a - b) % n = (r - b) % n
  BY <1>2, <1>3, ModShift
<1>7. (b - r) % n = (b - a) % n
  BY <1>2, <1>4, ModShift
<1> QED BY <1>1, <1>5, <1>6, <1>7

LEMMA ModSmall ==
    ASSUME NEW n \in Nat, n > 0, NEW a \in Int
    PROVE  /\ a \in 0 .. n - 1 => a % n = a
           /\ a < 0 /\ a + n >= 0 => a % n = a + n
           /\ a >= n /\ a < 2 * n => a % n = a - n
<1>1. a \in 0 .. n - 1 => Division(n, a, 0, a)
  BY DEF Division
<1>2. a < 0 /\ a + n >= 0 => Division(n, a, -1, a + n)
  BY DEF Division
<1>3. a >= n /\ a < 2 * n => Division(n, a, 1, a - n)
  BY DEF Division
<1> QED BY <1>1, <1>2, <1>3, DivUnique

\* Within less than n, equal remainders are of equal numbers.
LEMMA ModInjective ==
    ASSUME NEW n \in Nat, n > 0, NEW a \in Int, NEW b \in Int, a % n = b % n,
           a - b < n, b - a < n
    PROVE  a = b
<1>1. PICK d \in Int, r \in 0 .. n-1 : r = a % n /\ a = n * d + r
  BY ModDef DEF Division
<1>2. PICK e \in Int, s \in 0 .. n-1 : s = b % n /\ b = n * e + s
  BY ModDef DEF Division
<1>3. n * (d - e) = a - b /\ n * (e - d) = b - a
  BY <1>1, <1>2
<1>4. ~(d > e)
  <2>1. d > e => n * (d - e) >= n
    BY MulMono
  <2> QED BY <1>3, <2>1
<1>5. ~(e > d)
  <2>1. e > d => n * (e - d) >= n
    BY MulMono
  <2> QED BY <1>3, <2>1
<1> QED BY <1>1, <1>2, <1>4, <1>5

-----------------------------------------------------------------------------
(* Indices                                                                 *)

LEMMA ModulusFacts ==
    /\ Modulus \in Nat /\ BLOCK_SIZE \in Nat /\ BLOCK_SIZE > 1 /\ BLOCK_SIZE > 0
    /\ 2 * BLOCK_SIZE < Modulus /\ Modulus > 0
    /\ Modulus \div 2 \in Nat /\ Half \in Nat /\ Half >= Modulus \div 2
    /\ Half <= (Modulus \div 2) + 1 /\ Half + (Modulus \div 2) = Modulus
    /\ \E k \in Nat : Modulus = BLOCK_SIZE * k
<1>1. PICK m \in Nat : m = Modulus /\ 2 * BLOCK_SIZE < m /\ m % BLOCK_SIZE = 0
  BY SizesAssumption DEF Modulus
<1>2. BLOCK_SIZE \in Nat /\ BLOCK_SIZE > 1
  BY SizesAssumption
<1>3. \E k \in Nat : m = BLOCK_SIZE * k
  <2>1. PICK k \in Int, r \in 0 .. BLOCK_SIZE - 1 : r = m % BLOCK_SIZE /\ m = BLOCK_SIZE * k + r
    BY <1>2, ModDef DEF Division
  <2>2. m = BLOCK_SIZE * k
    BY <1>1, <1>2, <2>1
  <2>3. k >= 0
    BY <1>1, <1>2, <2>2
  <2> QED BY <2>2, <2>3
<1>4. m \div 2 \in Nat /\ m - (m \div 2) \in Nat /\ m - (m \div 2) >= m \div 2
      /\ m - (m \div 2) <= (m \div 2) + 1
  BY <1>1
<1> QED BY <1>1, <1>2, <1>3, <1>4 DEF Half

\* The slot of a counter is that of the number.
LEMMA SlotOf ==
    ASSUME NEW a \in Int
    PROVE  /\ Slot(CounterOf(a)) = Slot(a) /\ CounterOf(a) \in Index
           /\ Slot(a) \in 0 .. BLOCK_SIZE - 1
           /\ a \div BLOCK_SIZE \in Int
           /\ Division(BLOCK_SIZE, a, a \div BLOCK_SIZE, Slot(a))
<1>1. PICK k \in Nat : Modulus = BLOCK_SIZE * k
  BY ModulusFacts
<1>2. PICK d \in Int, r \in 0 .. Modulus - 1 : r = a % Modulus /\ a = Modulus * d + r
  BY ModulusFacts, ModDef DEF Division
<1>3. BLOCK_SIZE \in Nat /\ BLOCK_SIZE > 0 /\ Modulus \in Nat
  BY ModulusFacts
<1>4. Congruent(BLOCK_SIZE, a, r)
  <2>1. a = r + BLOCK_SIZE * (k * d) /\ k * d \in Int
    BY <1>1, <1>2, <1>3
  <2> QED BY <2>1 DEF Congruent
<1>5. a % BLOCK_SIZE = r % BLOCK_SIZE
  <2>1. r \in Int
    BY <1>2, <1>3
  <2> QED BY <1>3, <1>4, <2>1, ModShift
<1>6. PICK e \in Int, s \in 0 .. BLOCK_SIZE - 1 :
         Division(BLOCK_SIZE, a, e, s) /\ e = a \div BLOCK_SIZE /\ s = a % BLOCK_SIZE
  BY <1>3, ModDef
<1> QED BY <1>2, <1>5, <1>6 DEF Slot, CounterOf, Index

\* Counting on keeps the block until its slots are used up.
LEMMA NextSlot ==
    ASSUME NEW a \in Nat
    PROVE  /\ Slot(a) = BLOCK_SIZE - 1 =>
                 Slot(a + 1) = 0 /\ (a + 1) \div BLOCK_SIZE = (a \div BLOCK_SIZE) + 1
           /\ Slot(a) # BLOCK_SIZE - 1 =>
                 Slot(a + 1) = Slot(a) + 1 /\ (a + 1) \div BLOCK_SIZE = a \div BLOCK_SIZE
           /\ a \div BLOCK_SIZE \in Nat
<1>1. PICK n \in Nat : n = BLOCK_SIZE /\ n > 1
  BY ModulusFacts
<1>2. PICK d \in Int, r \in 0 .. n - 1 :
         r = Slot(a) /\ d = a \div n /\ a = n * d + r
  <2>0. a \in Int /\ n > 0
    BY <1>1
  <2>1. PICK d \in Int, r \in 0 .. n - 1 : Division(n, a, d, r) /\ d = a \div n /\ r = a % n
    BY <2>0, ModDef
  <2> QED BY <1>1, <2>1 DEF Division, Slot
<1>3. r = n - 1 => Division(n, a + 1, d + 1, 0)
  BY <1>1, <1>2 DEF Division
<1>4. r # n - 1 => Division(n, a + 1, d, r + 1)
  BY <1>1, <1>2 DEF Division
<1>5. d >= 0
  <2>1. d < 0 => n * (- d) >= n
    BY <1>1, <1>2, MulMono
  <2>2. n * (- d) = r - a
    BY <1>1, <1>2
  <2> QED BY <1>1, <1>2, <2>1, <2>2
<1> QED BY <1>1, <1>2, <1>3, <1>4, <1>5, DivUnique DEF Slot

\* On counters less than half the range apart the comparison is that of the
\* numbers.
LEMMA CircularLess ==
    ASSUME NEW a \in Nat, NEW b \in Nat, a <= b, b - a < Modulus
    PROVE  circular_less_than(CounterOf(a), CounterOf(b)) <=> a < b /\ b - a < Half
<1>1. PICK m \in Nat : m = Modulus /\ m > 0
  BY ModulusFacts
<1>2. ((a % m) - (b % m)) % m = (a - b) % m
  <2>0. a \in Int /\ b \in Int
    OBVIOUS
  <2>a. PICK d \in Int, w \in 0 .. m - 1 : Division(m, a, d, w) /\ w = a % m
    BY <1>1, <2>0, ModDef
  <2>b. PICK e \in Int, v \in 0 .. m - 1 : Division(m, b, e, v) /\ v = b % m
    BY <1>1, <2>0, ModDef
  <2>1. w = a % m /\ a = m * d + w
    BY <2>a DEF Division
  <2>2. v = b % m /\ b = m * e + v
    BY <2>b DEF Division
  <2>3. a - b = (w - v) + m * (d - e) /\ d - e \in Int
    BY <1>1, <2>1, <2>2
  <2>4. Congruent(m, a - b, w - v)
    BY <2>3 DEF Congruent
  <2>5. a - b \in Int /\ w - v \in Int
    BY <1>1, <2>1, <2>2
  <2> QED BY <1>1, <2>1, <2>2, <2>4, <2>5, ModShift
<1>3. (a - b) % m = (IF a = b THEN 0 ELSE a - b + m)
  <2>1. PICK x \in Int : x = a - b /\ x <= 0 /\ x + m > 0
    BY <1>1
  <2>2. x % m = (IF x = 0 THEN 0 ELSE x + m)
    BY <1>1, <2>1, ModSmall
  <2> QED BY <2>1, <2>2
<1>4. Wrap(CounterOf(a) - CounterOf(b)) = (IF a = b THEN 0 ELSE a - b + m)
  BY <1>1, <1>2, <1>3 DEF Wrap, CounterOf
<1>5. PICK h \in Nat : h = m \div 2 /\ Half = m - h /\ Half \in Nat
  BY <1>1, ModulusFacts DEF Half
<1> QED BY <1>1, <1>4, <1>5 DEF circular_less_than

LEMMA CounterPlus ==
    ASSUME NEW a \in Int, NEW b \in Int
    PROVE  /\ Wrap(CounterOf(a) + b) = CounterOf(a + b)
           /\ Wrap(CounterOf(a) - b) = CounterOf(a - b)
           /\ Wrap(a) = CounterOf(a)
BY ModulusFacts, ModPlus DEF Wrap, CounterOf

\* Counters less than the whole range apart tell their numbers apart.
LEMMA CounterInjective ==
    ASSUME NEW a \in Int, NEW b \in Int, CounterOf(a) = CounterOf(b),
           a - b < Modulus, b - a < Modulus
    PROVE  a = b
<1>1. PICK m \in Nat : m = Modulus /\ m > 0
  BY ModulusFacts
<1>2. a % m = b % m /\ a - b < m /\ b - a < m
  BY <1>1 DEF CounterOf
<1> QED BY <1>1, <1>2, ModInjective

LEMMA BlockOf ==
    ASSUME NEW a \in Nat
    PROVE  /\ a \div BLOCK_SIZE \in Nat /\ Slot(a) \in 0 .. BLOCK_SIZE - 1
           /\ a = (a \div BLOCK_SIZE) * BLOCK_SIZE + Slot(a)
           /\ \A k \in Int : a < k * BLOCK_SIZE <=> a \div BLOCK_SIZE < k
<1>1. PICK n \in Nat : n = BLOCK_SIZE /\ n > 1
  BY ModulusFacts
<1>2. PICK d \in Nat : d = a \div n
  BY <1>1, NextSlot
<1>3. PICK r \in 0 .. n - 1 : r = Slot(a)
  BY <1>1, SlotOf
<1>4. a = d * n + r
  <2>1. Division(n, a, d, r)
    BY <1>1, <1>2, <1>3, SlotOf
  <2> QED BY <1>1, <1>2, <1>3, <2>1 DEF Division
<1>5. ASSUME NEW k \in Int
      PROVE  a < k * n <=> d < k
  <2>1. d < k => n * (k - d) >= n
    BY <1>1, <1>2, MulMono
  <2>2. k * n - a = n * (k - d) - r
    BY <1>1, <1>2, <1>3, <1>4
  <2>3. d >= k => n * (d - k) >= 0
    BY <1>1, <1>2
  <2>4. a - k * n = n * (d - k) + r
    BY <1>1, <1>2, <1>3, <1>4
  <2> QED BY <1>1, <1>2, <1>3, <2>1, <2>2, <2>3, <2>4
<1> QED BY <1>1, <1>2, <1>3, <1>4, <1>5

LEMMA BlockMono ==
    ASSUME NEW a \in Nat, NEW b \in Nat, a <= b
    PROVE  a \div BLOCK_SIZE <= b \div BLOCK_SIZE
<1>1. PICK n \in Nat : n = BLOCK_SIZE /\ n > 1
  BY ModulusFacts
<1>2. PICK d \in Nat, e \in Nat : d = a \div BLOCK_SIZE /\ e = b \div BLOCK_SIZE
  BY BlockOf
<1>3. b < (e + 1) * BLOCK_SIZE
  <2>1. e + 1 \in Int /\ e < e + 1
    BY <1>2
  <2> QED BY <1>2, <2>1, BlockOf
<1>4. a < (e + 1) * BLOCK_SIZE
  BY <1>1, <1>2, <1>3
<1>5. e + 1 \in Int
  BY <1>2
<1>6. d < e + 1
  BY <1>2, <1>4, <1>5, BlockOf
<1> QED BY <1>2, <1>6

-----------------------------------------------------------------------------
(* Keys                                                                    *)

LEMMA KeyFacts ==
    ASSUME NEW a \in Nat
    PROVE  /\ Key(a) \in Index /\ Key(a) # INVALID_BLOCK_BASE /\ Slot(a * BLOCK_SIZE) = 0
           /\ Base(CounterOf(a)) = Key(a \div BLOCK_SIZE)
           /\ Slot(a) = 0 => Key(a \div BLOCK_SIZE) = CounterOf(a)
<1>1. PICK n \in Nat : n = BLOCK_SIZE /\ n > 1
  BY ModulusFacts
<1>2. a * n \in Int /\ a * n \in Nat
  BY <1>1
<1>3. Slot(a * n) = 0
  <2>1. Division(n, a * n, a, 0)
    BY <1>1, <1>2 DEF Division
  <2> QED BY <1>1, <2>1, DivUnique DEF Slot
<1>4. Key(a) \in Index /\ Slot(Key(a)) = 0
  BY <1>1, <1>2, <1>3, SlotOf DEF Key
<1>5. Slot(1) = 1
  <2>1. Division(n, 1, 0, 1)
    BY <1>1 DEF Division
  <2> QED BY <1>1, <2>1, DivUnique DEF Slot
<1>6. PICK d \in Nat, r \in 0 .. n - 1 : d = a \div BLOCK_SIZE /\ r = Slot(a) /\ a = d * n + r
  BY <1>1, BlockOf
<1>7. Base(CounterOf(a)) = Key(d)
  <2>1. PICK m \in Nat : m = Modulus /\ m > 0
    BY ModulusFacts
  <2>2. PICK k \in Nat : m = n * k
    BY <1>1, <2>1, ModulusFacts
  <2>3. PICK q \in Int, v \in 0 .. m - 1 : Division(m, a, q, v) /\ v = a % m
    BY <2>1, ModDef
  <2>4. v = CounterOf(a) /\ a = m * q + v /\ Slot(v) = r /\ v \in Nat
    <3>1. v = CounterOf(a) /\ a = m * q + v
      BY <2>1, <2>3 DEF Division, CounterOf
    <3>2. a \in Int /\ v \in Nat
      BY <2>1
    <3>3. Slot(v) = Slot(a)
      BY <3>1, <3>2, SlotOf
    <3> QED BY <1>6, <3>1, <3>2, <3>3
  <2>5. v - r \in 0 .. m - 1
    <3>1. PICK e \in Nat : v = e * n + r
      BY <1>1, <2>4, BlockOf
    <3>2. e * n >= 0
      BY <1>1, <3>1
    <3> QED BY <1>6, <2>1, <2>3, <2>4, <3>1, <3>2
  <2>6. Division(m, d * n, q, v - r)
    <3>1. PICK x \in Int, y \in Int : x = d * n /\ y = m * q
      BY <1>1, <1>6, <2>1
    <3>2. a = x + r /\ a = y + v
      BY <1>6, <2>4, <3>1
    <3>a. r \in Int /\ v \in Int
      BY <1>1, <1>6, <2>1
    <3>3. x = y + (v - r)
      BY <3>a, <3>1, <3>2
    <3> QED BY <2>1, <2>3, <2>5, <3>1, <3>3 DEF Division
  <2>7. (d * n) % m = v - r
    BY <2>6, DivUnique
  <2> QED BY <1>1, <2>1, <2>4, <2>7 DEF Base, Key, CounterOf
<1>8. r = 0 => Key(d) = CounterOf(a)
  <2>1. r = 0 => a = d * n
    BY <1>1, <1>6
  <2> QED BY <1>1, <2>1 DEF Key
<1> QED BY <1>1, <1>3, <1>4, <1>5, <1>6, <1>7, <1>8 DEF INVALID_BLOCK_BASE

\* Blocks at most half the range apart have keys of their own, and the
\* distance between the keys is that between the blocks.
LEMMA KeyDistance ==
    ASSUME NEW f \in Nat, NEW t \in Nat, f <= t, (t - f) * BLOCK_SIZE <= Modulus \div 2
    PROVE  /\ BlockOffset(Key(f), Key(t)) = f - t
           /\ Key(f) = Key(t) => f = t
<1>1. PICK n \in Nat : n = BLOCK_SIZE /\ n > 1
  BY ModulusFacts
<1>2. PICK m \in Nat, h \in Nat : m = Modulus /\ h = Modulus \div 2 /\ h + h <= m /\ h > 0 /\ m > 0
  BY ModulusFacts
<1>3. PICK x \in Nat : x = (t - f) * n /\ x <= h
  BY <1>1, <1>2
<1>4. f * n - t * n = - x /\ f * n \in Int /\ t * n \in Int /\ - x \in Int
  BY <1>1, <1>3
<1>5. Wrap(Key(f) - Key(t)) = (- x) % m
  <2>0. PICK y \in Int, z \in Int : y = f * n /\ z = t * n /\ y - z = - x
    BY <1>4
  <2>1. PICK d \in Int, w \in 0 .. m - 1 : Division(m, y, d, w) /\ w = y % m
    BY <1>2, ModDef
  <2>2. PICK e \in Int, v \in 0 .. m - 1 : Division(m, z, e, v) /\ v = z % m
    BY <1>2, ModDef
  <2>3. y = m * d + w /\ z = m * e + v
    BY <2>1, <2>2 DEF Division
  <2>4. - x = (w - v) + m * (d - e) /\ d - e \in Int
    BY <1>2, <2>0, <2>1, <2>2, <2>3
  <2>5. Congruent(m, - x, w - v)
    BY <2>4 DEF Congruent
  <2>6. w - v \in Int
    BY <1>2, <2>1, <2>2
  <2>7. (- x) % m = (w - v) % m
    BY <1>2, <1>4, <2>5, <2>6, ModShift
  <2>8. Key(f) = w /\ Key(t) = v
    BY <1>1, <1>2, <2>0, <2>1, <2>2 DEF Key, CounterOf
  <2> QED BY <1>2, <2>7, <2>8 DEF Wrap
<1>6. (- x) % m = IF x = 0 THEN 0 ELSE m - x
  <2>1. PICK y \in Int : y = - x /\ y <= 0 /\ y + m > 0
    BY <1>2, <1>3
  <2>2. y % m = (IF y = 0 THEN 0 ELSE y + m)
    BY <1>2, <2>1, ModSmall
  <2> QED BY <1>2, <1>3, <2>1, <2>2
<1>7. (- x) \div n = f - t
  <2>1. Division(n, - x, f - t, 0)
    BY <1>1, <1>3 DEF Division
  <2> QED BY <2>1, DivUnique
<1>8. BlockOffset(Key(f), Key(t)) = (- x) \div n
  <2>1. PICK w \in Int : w = Wrap(Key(f) - Key(t)) /\ w = IF x = 0 THEN 0 ELSE m - x
    BY <1>2, <1>3, <1>5, <1>6
  <2>2. (IF w >= h THEN w - m ELSE w) = - x
    BY <1>2, <1>3, <2>1
  <2> QED BY <1>1, <1>2, <2>1, <2>2 DEF BlockOffset
<1>9. Key(f) = Key(t) => f = t
  <2>1. SUFFICES ASSUME Key(f) = Key(t) PROVE f = t
    OBVIOUS
  <2>2. f * n = t * n
    <3>1. PICK u \in Int, v \in Int : u = f * n /\ v = t * n
      BY <1>4
    <3>2. CounterOf(u) = CounterOf(v) /\ u - v < Modulus /\ v - u < Modulus
      BY <1>1, <1>2, <1>3, <1>4, <2>1, <3>1 DEF Key
    <3> QED BY <3>1, <3>2, CounterInjective
  <2>3. t > f => n * (t - f) >= n
    BY <1>1, MulMono
  <2>4. n * (t - f) = 0
    BY <1>1, <2>2
  <2> QED BY <1>1, <2>3, <2>4
<1> QED BY <1>7, <1>8, <1>9

-----------------------------------------------------------------------------
(* Places in the index                                                     *)

LEMMA HeaderFacts ==
    ASSUME NEW n \in Sizes, NEW h \in Headers(n)
    PROVE  /\ Capacity(h) = n /\ DOMAIN h.index = 0 .. n - 1 /\ n \in Nat /\ n > 0
           /\ h.tail \in 0 .. n - 1 /\ h.tail \in Int
           /\ \A i \in 0 .. n - 1 : h.index[i] \in Nat
<1>1. DOMAIN h.index = 0 .. n - 1 /\ h.tail \in 0 .. n - 1 /\ h.index \in [0 .. n - 1 -> Nat]
  BY DEF Headers
<1>2. n \in Nat /\ n > 0
  BY DEF Sizes
<1>3. Cardinality(0 .. n - 1) = n
  <2>1. 0 \in Int /\ n - 1 \in Int
    BY <1>2
  <2> QED BY <1>2, <2>1, FS_Interval
<1> QED BY <1>1, <1>2, <1>3 DEF Capacity

\* Places of the same entry are a multiple of the capacity apart.
LEMMA SameEntry ==
    ASSUME NEW n \in Sizes, NEW h \in Headers(n), NEW e \in Int, NEW j \in Int
    PROVE  /\ EntryAt(h, e, j) = h.index[(h.tail + 1 + j - e) % n]
           /\ (h.tail + 1 + j - e) % n \in 0 .. n - 1
           /\ EntryAt(h, e, j) \in Nat
           /\ EntryAt(h, e, e - n) = EntryAt(h, e, e)
           /\ EntryAt(h, e, e) = h.index[NextPos(h)] /\ NextPos(h) \in 0 .. n - 1
           /\ EntryAt(h, e, e - 1) = h.index[h.tail]
           /\ NextPos(h) = (h.tail + 1) % n
<1>1. Capacity(h) = n /\ n \in Nat /\ n > 0 /\ h.tail \in Int /\ h.tail \in 0 .. n - 1
      /\ \A i \in 0 .. n - 1 : h.index[i] \in Nat
  BY HeaderFacts
<1>2. PICK x \in Int : x = h.tail + 1 + j - e
  BY <1>1
<1>3. x % n \in 0 .. n - 1
  BY <1>1, ModDef
<1>4. PICK t \in Int : t = h.tail
  BY <1>1
<1>5. (t + 1 - n) % n = (t + 1) % n
  <2>1. t + 1 - n = (t + 1) + n * (-1) /\ t + 1 - n \in Int /\ t + 1 \in Int
    BY <1>1
  <2>2. Congruent(n, t + 1 - n, t + 1)
    BY <2>1 DEF Congruent
  <2> QED BY <1>1, <2>1, <2>2, ModShift
<1>6. h.tail + 1 + (e - n) - e = t + 1 - n /\ h.tail + 1 + e - e = t + 1
      /\ h.tail + 1 + (e - 1) - e = t
  BY <1>1, <1>4
<1>7. t % n = t
  BY <1>1, <1>4, ModSmall
<1>8. (t + 1) % n \in 0 .. n - 1
  <2>1. t + 1 \in Int
    OBVIOUS
  <2> QED BY <1>1, <2>1, ModDef
<1> QED BY <1>1, <1>2, <1>3, <1>4, <1>5, <1>6, <1>7, <1>8 DEF EntryAt, NextPos

\* In a header that names no entry twice, places less than the capacity apart
\* have entries of their own.
LEMMA OwnEntry ==
    ASSUME NEW n \in Sizes, NEW h \in Headers(n), NEW e \in Int, NEW j \in Int, NEW k \in Int,
           \A x, y \in DOMAIN h.index : h.index[x] = h.index[y] => x = y,
           j - k < n, k - j < n
    PROVE  EntryAt(h, e, j) = EntryAt(h, e, k) => j = k
<1>1. n \in Nat /\ n > 0 /\ h.tail \in Int /\ DOMAIN h.index = 0 .. n - 1 /\ Capacity(h) = n
  BY HeaderFacts
<1>2. PICK t \in Int : t = h.tail
  BY <1>1
<1>3. PICK x \in Int, y \in Int : x = t + 1 + j - e /\ y = t + 1 + k - e
  OBVIOUS
<1>4. EntryAt(h, e, j) = h.index[x % n] /\ x % n \in DOMAIN h.index
  <2>1. EntryAt(h, e, j) = h.index[(t + 1 + j - e) % n]
    <3>1. EntryAt(h, e, j) = h.index[(h.tail + 1 + j - e) % n]
      BY <1>1 DEF EntryAt
    <3> QED BY <1>2, <3>1
  <2>2. x % n \in 0 .. n - 1
    BY <1>1, ModDef
  <2> QED BY <1>1, <1>3, <2>1, <2>2
<1>5. EntryAt(h, e, k) = h.index[y % n] /\ y % n \in DOMAIN h.index
  <2>1. EntryAt(h, e, k) = h.index[(t + 1 + k - e) % n]
    <3>1. EntryAt(h, e, k) = h.index[(h.tail + 1 + k - e) % n]
      BY <1>1 DEF EntryAt
    <3> QED BY <1>2, <3>1
  <2>2. y % n \in 0 .. n - 1
    BY <1>1, ModDef
  <2> QED BY <1>1, <1>3, <2>1, <2>2
<1>6. x - y < n /\ y - x < n
  BY <1>1, <1>3
<1>7. x % n = y % n => x = y
  BY <1>1, <1>6, ModInjective
<1>8. x = y => j = k
  BY <1>3
<1>9. EntryAt(h, e, j) = EntryAt(h, e, k) => x % n = y % n
  BY <1>4, <1>5
<1> QED BY <1>7, <1>8, <1>9

\* When the tail moves, the blocks keep their entries.
LEMMA TailMoved ==
    ASSUME NEW n \in Sizes, NEW h \in Headers(n), NEW g \in Headers(n), g.index = h.index,
           NEW e \in Int, NEW j \in Int
    PROVE  /\ g.tail = NextPos(h) => EntryAt(g, e + 1, j) = EntryAt(h, e, j)
           /\ g.tail = (h.tail - 1) % n => EntryAt(g, e - 1, j) = EntryAt(h, e, j)
<1>1. n \in Nat /\ n > 0
  BY HeaderFacts
<1>2. PICK t \in Int, u \in Int : t = h.tail /\ u = g.tail
  BY HeaderFacts
<1>3. PICK x \in Int : x = t + 1 + j - e
  BY <1>2
<1>4. ASSUME u = (t + 1) % n
      PROVE  (u + 1 + j - (e + 1)) % n = x % n
  <2>0. t + 1 \in Int
    OBVIOUS
  <2>1. PICK d \in Int : Division(n, t + 1, d, u)
    BY <1>1, <1>4, <2>0, ModDef
  <2>2. t + 1 = n * d + u
    BY <2>1 DEF Division
  <2>3. PICK y \in Int : y = u + 1 + j - (e + 1)
    OBVIOUS
  <2>4. y = x + n * (- d)
    BY <1>1, <1>3, <2>2, <2>3
  <2>5. Congruent(n, y, x)
    BY <2>4 DEF Congruent
  <2> QED BY <1>1, <2>3, <2>5, ModShift
<1>5. ASSUME u = (t - 1) % n
      PROVE  (u + 1 + j - (e - 1)) % n = x % n
  <2>0. t - 1 \in Int
    OBVIOUS
  <2>1. PICK d \in Int : Division(n, t - 1, d, u)
    BY <1>1, <1>5, <2>0, ModDef
  <2>2. t - 1 = n * d + u
    BY <2>1 DEF Division
  <2>3. PICK y \in Int : y = u + 1 + j - (e - 1)
    OBVIOUS
  <2>4. y = x + n * (- d)
    BY <1>1, <1>3, <2>2, <2>3
  <2>5. Congruent(n, y, x)
    BY <2>4 DEF Congruent
  <2> QED BY <1>1, <2>3, <2>5, ModShift
<1>6. NextPos(h) = (t + 1) % n
  BY <1>2, SameEntry
<1>7. EntryAt(h, e, j) = h.index[x % n]
  BY <1>2, <1>3, SameEntry
<1>8. EntryAt(g, e + 1, j) = g.index[(u + 1 + j - (e + 1)) % n]
  <2>1. e + 1 \in Int
    OBVIOUS
  <2> QED BY <1>2, <2>1, SameEntry
<1>9. EntryAt(g, e - 1, j) = g.index[(u + 1 + j - (e - 1)) % n]
  <2>1. e - 1 \in Int
    OBVIOUS
  <2> QED BY <1>2, <2>1, SameEntry
<1> QED BY <1>2, <1>4, <1>5, <1>6, <1>7, <1>8, <1>9

\* A header grown keeps the entries of the blocks, and has a new one for the
\* next.
LEMMA GrownKeeps ==
    ASSUME NEW n \in Sizes, NEW h \in Headers(n), NEW e \in Int, NEW j \in Int,
           e - n <= j, j < e, Len(entries) \in Nat
    PROVE  /\ 2 * n \in Sizes /\ Grown(h) \in Headers(2 * n)
           /\ EntryAt(Grown(h), e, j) = EntryAt(h, e, j)
           /\ \A i \in 0 .. 2 * n - 1 :
                 Grown(h).index[i] = IF i < n THEN h.index[(h.tail + 1 + i) % n]
                                     ELSE Len(entries) + i - n + 1
<1>1. n \in Nat /\ n > 0 /\ Capacity(h) = n /\ h.tail \in Int
      /\ \A i \in 0 .. n - 1 : h.index[i] \in Nat
  BY HeaderFacts
<1>2. PICK t \in Int, L \in Nat : t = h.tail /\ L = Len(entries)
  BY <1>1
<1>3. ASSUME NEW i \in 0 .. 2 * n - 1
      PROVE  (IF i < n THEN h.index[(t + 1 + i) % n] ELSE L + i - n + 1) \in Nat
  <2>1. PICK x \in Int : x = t + 1 + i
    BY <1>1
  <2>2. x % n \in 0 .. n - 1
    BY <1>1, ModDef
  <2>3. i < n => h.index[x % n] \in Nat
    BY <1>1, <2>2
  <2>4. ~(i < n) => L + i - n + 1 \in Nat
    BY <1>1
  <2> QED BY <2>1, <2>3, <2>4
<1>4. Grown(h) = [tail |-> n - 1,
                  index |-> [i \in 0 .. 2 * n - 1 |->
                      IF i < n THEN h.index[(t + 1 + i) % n] ELSE L + i - n + 1]]
  BY <1>1, <1>2 DEF Grown
<1>5. 2 * n \in Sizes /\ n - 1 \in 0 .. 2 * n - 1
  BY <1>1 DEF Sizes
<1>6. Grown(h) \in Headers(2 * n)
  BY <1>3, <1>4, <1>5 DEF Headers
<1>7. \A i \in 0 .. 2 * n - 1 :
         Grown(h).index[i] = IF i < n THEN h.index[(t + 1 + i) % n] ELSE L + i - n + 1
  BY <1>4
<1>8. PICK i \in Int : i = n + j - e /\ i \in 0 .. n - 1 /\ i \in 0 .. 2 * n - 1
  BY <1>1
<1>9. EntryAt(Grown(h), e, j) = Grown(h).index[i]
  <2>1. PICK m \in Nat : m = 2 * n /\ m > 0
    BY <1>1
  <2>2. EntryAt(Grown(h), e, j) = Grown(h).index[(Grown(h).tail + 1 + j - e) % m]
    BY <1>5, <1>6, <2>1, SameEntry
  <2>3. Grown(h).tail = n - 1
    BY <1>4
  <2>4. (n - 1) + 1 + j - e = i
    BY <1>1, <1>8
  <2>5. i % m = i
    BY <1>8, <2>1, ModSmall
  <2> QED BY <2>2, <2>3, <2>4, <2>5
<1>10. EntryAt(h, e, j) = h.index[(t + 1 + i) % n]
  <2>1. PICK x \in Int, y \in Int : x = t + 1 + j - e /\ y = t + 1 + i
    BY <1>8
  <2>2. y = x + n * 1
    BY <1>1, <1>8, <2>1
  <2>3. Congruent(n, y, x)
    BY <2>2 DEF Congruent
  <2>4. y % n = x % n
    BY <1>1, <2>3, ModShift
  <2>5. EntryAt(h, e, j) = h.index[(t + 1 + j - e) % n]
    BY <1>2, SameEntry
  <2> QED BY <2>1, <2>4, <2>5
<1>11. EntryAt(Grown(h), e, j) = EntryAt(h, e, j)
  <2>1. i < n
    BY <1>1, <1>8
  <2>2. Grown(h).index[i] = h.index[(t + 1 + i) % n]
    BY <1>7, <1>8, <2>1
  <2> QED BY <1>9, <1>10, <2>2
<1>12. \A i1 \in 0 .. 2 * n - 1 :
          Grown(h).index[i1] = IF i1 < n THEN h.index[(h.tail + 1 + i1) % n]
                               ELSE Len(entries) + i1 - n + 1
  BY <1>2, <1>7
<1> QED BY <1>5, <1>6, <1>11, <1>12

-----------------------------------------------------------------------------
(* Blocks                                                                  *)

\* The order of the blocks, and how far they are apart.
LEMMA Places ==
    ASSUME NEW c \in Consumers, SpanInv, CountInv(c), ProducerInv(c)
    PROVE  /\ Block \in Nat /\ First(c) \in Nat /\ Ends \in Nat /\ Stored \in Nat
           /\ sent = Block * BLOCK_SIZE + Slot(sent) /\ Slot(sent) \in 0 .. BLOCK_SIZE - 1
           /\ First(c) <= Stored /\ Stored <= Ends /\ Ends <= Stored + 1
           /\ Block <= Ends /\ Ends <= Block + 1 /\ First(c) <= Block
           /\ cons[c].pc \in Looking \cup Clearing => First(c) < Stored
           /\ (Ends - 1 - First(c)) * BLOCK_SIZE <= Modulus \div 2
           /\ prod.pc # "idle" => (Block - First(c)) * BLOCK_SIZE <= Modulus \div 2
           /\ Ends = Block \/ Ends = Block + 1
           /\ Moved(c) \in Int /\ Emptied(c) \in Int
<1> DEFINE back == IF cons[c].pc \in Looking \cup Clearing THEN 1 ELSE 0
<1>1. PICK n \in Nat, h \in Nat : n = BLOCK_SIZE /\ n > 1 /\ h = Modulus \div 2 /\ Half <= h + 1 /\ Half \in Nat
  BY ModulusFacts
<1>2. sent \in Nat /\ claimed \in Nat /\ claimed <= sent /\ sent - claimed < Half
  BY DEF SpanInv
<1>3. PICK b \in Nat, s \in 0 .. n - 1 :
         b = Block /\ s = Slot(sent) /\ sent = b * n + s
         /\ \A k \in Int : sent < k * n <=> b < k
  BY <1>1, <1>2, BlockOf DEF Block
<1>4. back \in {0, 1} /\ claimed - back \in Nat
  BY <1>2 DEF CountInv, Looking, Clearing, Asking
<1>5. PICK f \in Nat : /\ f = First(c) /\ claimed - back < (f + 1) * n
                       /\ \A k \in Int : claimed - back < k * n <=> f < k
  <2>1. PICK f \in Nat : f = (claimed - back) \div BLOCK_SIZE
    BY <1>4, BlockOf
  <2>2. f + 1 \in Int /\ f < f + 1
    OBVIOUS
  <2>3. claimed - back < (f + 1) * BLOCK_SIZE
    BY <1>4, <2>1, <2>2, BlockOf
  <2>4. \A k \in Int : claimed - back < k * BLOCK_SIZE <=> f < k
    BY <1>4, <2>1, BlockOf
  <2> QED BY <1>1, <2>1, <2>3, <2>4 DEF First
<1>6. f <= b
  <2>1. claimed - back <= sent
    BY <1>2, <1>4
  <2> QED BY <1>2, <1>3, <1>4, <1>5, <2>1, BlockMono DEF First, Block
<1>7. /\ prod.pc \in Advanced => s = 0
      /\ Ends = IF s # 0 \/ prod.pc \in Advanced \cup {"construct"} THEN b + 1 ELSE b
      /\ Stored = IF prod.pc \in Advanced THEN b ELSE Ends
  BY <1>3 DEF ProducerInv, Ends, Stored, Advanced
<1>8. cons[c].pc \in Looking \cup Clearing /\ s = 0 => f < b
  <2>1. SUFFICES ASSUME back = 1, s = 0 PROVE f < b
    OBVIOUS
  <2>2. claimed - back < b * n
    BY <1>2, <1>3, <1>4, <2>1
  <2>3. b \in Int
    BY <1>3
  <2> QED BY <1>5, <2>2, <2>3
<1>9. PICK x \in Int : x = (b - f) * n /\ (f + 1) * n = b * n + n - x
  BY <1>1, <1>3, <1>5
<1>10. claimed <= b * n + n - x
  BY <1>1, <1>2, <1>3, <1>4, <1>5, <1>9
<1>11. prod.pc # "idle" \/ s # 0 => x <= h
  <2>1. SUFFICES ASSUME prod.pc # "idle" \/ s # 0 PROVE x <= h
    OBVIOUS
  <2>2. sent - claimed + (n - s) < Half
    BY <1>1, <1>3, <2>1 DEF SpanInv
  <2>3. PICK y \in Int : y = b * n
    BY <1>1, <1>3
  <2>4. sent = y + s /\ claimed <= y + n - x
    BY <1>3, <1>10, <2>3
  <2> QED BY <1>1, <1>2, <1>3, <1>9, <2>2, <2>3, <2>4
<1>12. x - n <= h
  <2>1. PICK y \in Int : y = b * n
    BY <1>1, <1>3
  <2>2. sent = y + s /\ claimed <= y + n - x
    BY <1>3, <1>10, <2>1
  <2> QED BY <1>1, <1>2, <1>3, <1>9, <2>1, <2>2
<1>13. (Ends - 1 - f) * n <= h
  <2>1. CASE s # 0 \/ prod.pc \in Advanced \cup {"construct"}
    <3>1. Ends - 1 - f = b - f
      BY <1>3, <1>5, <1>7, <2>1
    <3>2. prod.pc # "idle" \/ s # 0
      BY <2>1 DEF Advanced
    <3> QED BY <1>9, <1>11, <3>1, <3>2
  <2>2. CASE ~(s # 0 \/ prod.pc \in Advanced \cup {"construct"})
    <3>0. Ends = b
      BY <1>7, <2>2
    <3>1. Ends - 1 - f = b - f - 1
      BY <1>3, <1>5, <3>0
    <3>2. (b - f - 1) * n = x - n
      BY <1>1, <1>3, <1>5, <1>9
    <3> QED BY <1>12, <3>1, <3>2
  <2> QED BY <2>1, <2>2
<1>14. /\ b \in Nat /\ f \in Nat /\ Ends \in Nat /\ Stored \in Nat
       /\ f <= Stored /\ Stored <= Ends /\ Ends <= Stored + 1
       /\ b <= Ends /\ Ends <= b + 1 /\ f <= b
       /\ cons[c].pc \in Looking \cup Clearing => f < Stored
       /\ Ends = b \/ Ends = b + 1
  <2>1. CASE prod.pc \in Advanced
    BY <1>3, <1>5, <1>6, <1>7, <1>8, <2>1
  <2>2. CASE prod.pc \notin Advanced
    BY <1>3, <1>5, <1>6, <1>7, <1>8, <2>2
  <2> QED BY <2>1, <2>2
<1>15. Moved(c) \in Int /\ Emptied(c) \in Int
  BY <1>2 DEF Moved, Emptied
<1> QED BY <1>1, <1>3, <1>5, <1>9, <1>11, <1>13, <1>14, <1>15

\* Each block has an entry in the index, of its own.
LEMMA Entries ==
    ASSUME NEW c \in Consumers, IndexInv(c), Ends \in Nat
    PROVE  \E n \in Sizes :
              /\ blockIndex \in Headers(n) /\ Capacity(blockIndex) = n
              /\ Len(headers) \in DOMAIN headers
              /\ \A j \in Int : EntryOf(j) = EntryAt(blockIndex, Ends, j) /\ EntryOf(j) \in DOMAIN entries
              /\ \A j, k \in Int :
                    j - k < n /\ k - j < n /\ EntryOf(j) = EntryOf(k) => j = k
              /\ blockIndex.index[NextPos(blockIndex)] = EntryOf(Ends)
              /\ EntryOf(Ends - n) = EntryOf(Ends)
<1>1. Len(headers) \in DOMAIN headers /\ HeaderOK(blockIndex)
  <2>1. Len(headers) \in Nat /\ DOMAIN headers = 1 .. Len(headers) /\ Len(headers) # 0
    BY LenProperties, EmptySeq DEF IndexInv
  <2> QED BY <2>1 DEF IndexInv, blockIndex
<1>2. PICK n \in Sizes : blockIndex \in Headers(n)
  BY <1>1 DEF HeaderOK
<1>3. Ends \in Int
  OBVIOUS
<1>4. Capacity(blockIndex) = n /\ DOMAIN blockIndex.index = 0 .. n - 1
  BY <1>2, HeaderFacts
<1>5. ASSUME NEW j \in Int
      PROVE  EntryOf(j) = EntryAt(blockIndex, Ends, j) /\ EntryOf(j) \in DOMAIN entries
  <2>1. EntryOf(j) = EntryAt(blockIndex, Ends, j)
    BY DEF EntryOf
  <2>2. /\ EntryAt(blockIndex, Ends, j) = blockIndex.index[(blockIndex.tail + 1 + j - Ends) % n]
        /\ (blockIndex.tail + 1 + j - Ends) % n \in 0 .. n - 1
    BY <1>2, <1>3, SameEntry
  <2> QED BY <1>1, <1>4, <2>1, <2>2 DEF HeaderOK
<1>6. ASSUME NEW j \in Int, NEW k \in Int, j - k < n, k - j < n
      PROVE  EntryOf(j) = EntryOf(k) => j = k
  <2>1. \A x, y \in DOMAIN blockIndex.index : blockIndex.index[x] = blockIndex.index[y] => x = y
    BY DEF IndexInv
  <2> QED BY <1>2, <1>3, <1>5, <1>6, <2>1, OwnEntry
<1>7. blockIndex.index[NextPos(blockIndex)] = EntryOf(Ends) /\ EntryOf(Ends - n) = EntryOf(Ends)
  <2>1. Ends - n \in Int
    BY DEF Sizes
  <2> QED BY <1>2, <1>3, <1>5, <2>1, SameEntry
<1> QED BY <1>1, <1>2, <1>4, <1>5, <1>6, <1>7

-----------------------------------------------------------------------------
(* What the parts of the invariant depend on                               *)

\* The blocks and their elements are as they were, as far as the producer has
\* a say in it.
SameBlocks(c) ==
    /\ First(c)' = First(c) /\ Moved(c)' = Moved(c) /\ Emptied(c)' = Emptied(c)
    /\ Ends' = Ends /\ Stored' = Stored /\ sent' = sent

LEMMA SamePlaces ==
    ASSUME NEW c \in Consumers, UNCHANGED <<cons, claimed>>
    PROVE  /\ First(c)' = First(c) /\ Moved(c)' = Moved(c) /\ Emptied(c)' = Emptied(c)
           /\ Given(c)' = Given(c)
           /\ UNCHANGED sent => Block' = Block
BY DEF First, Moved, Emptied, Given, Block

LEMMA CountFrame ==
    ASSUME NEW c \in Consumers, SpanInv, CountInv(c), Excuse,
           UNCHANGED <<headIndex, dequeueOptimisticCount, dequeueOvercommit, cons, claimed>>,
           tailIndex' = CounterOf(sent'), sent' \in Nat, sent' >= sent
    PROVE  CountInv(c)'
<1>1. sent \in Nat /\ claimed \in Nat
  BY DEF SpanInv
<1>2. \A n \in claimed .. sent : n \in claimed' .. sent'
  BY <1>1
<1>3. cons[c].pc \in {"load_over", "look"} /\ excused[c] => excused'[c]
  BY DEF Excuse, Inside
<1>4. cons[c].pc \in {"load_over", "look"} =>
         \E n \in claimed' .. sent' : cons'[c].tail = CounterOf(n) /\ (n = claimed' => excused'[c])
  BY <1>2, <1>3 DEF CountInv
<1>5. cons[c].pc \in {"count", "reload_tail", "claim"} => claimed' < sent'
  BY <1>1 DEF CountInv
<1> QED BY <1>4, <1>5 DEF CountInv

LEMMA IndexFrame ==
    ASSUME NEW c \in Consumers, IndexInv(c), SameBlocks(c),
           UNCHANGED <<headers, entries, elements, completely, free>>
    PROVE  IndexInv(c)'
<1>1. blockIndex' = blockIndex /\ Capacity(blockIndex)' = Capacity(blockIndex)
  BY DEF blockIndex, Capacity
<1>2. \A j : EntryOf(j)' = EntryOf(j)
  BY <1>1 DEF EntryOf, EntryAt, SameBlocks, Capacity
<1>3. ASSUME NEW j, BlockOK(c, j)
      PROVE  BlockOK(c, j)'
  BY <1>2, <1>3 DEF BlockOK, SameBlocks
<1>4. ASSUME NEW h, HeaderOK(h)
      PROVE  HeaderOK(h)'
  BY <1>4 DEF HeaderOK
<1>5. (\A i \in DOMAIN headers : HeaderOK(headers[i]))'
  BY <1>4 DEF IndexInv
<1>6. (Ends - First(c) <= Capacity(blockIndex))'
  BY <1>1 DEF IndexInv, SameBlocks
<1>7. (\A j \in First(c) .. Stored - 1 : BlockOK(c, j))'
  BY <1>3 DEF IndexInv, SameBlocks
<1>8. (\A j, k \in First(c) .. Stored - 1 :
          entries[EntryOf(j)].value = entries[EntryOf(k)].value => j = k)'
  BY <1>2 DEF IndexInv, SameBlocks
<1>9. (\A i \in DOMAIN entries : entries[i].value \in Blocks =>
          \E j \in First(c) .. Stored - 1 : i = EntryOf(j))'
  BY <1>2 DEF IndexInv, SameBlocks
<1> QED BY <1>1, <1>5, <1>6, <1>7, <1>8, <1>9 DEF IndexInv

LEMMA ConsumerFrame ==
    ASSUME NEW c \in Consumers, ConsumerInv(c), UNCHANGED claimed, cons'[c] = cons[c],
           First(c)' = First(c), cons[c].pc \in {"move"} \cup Clearing =>
              /\ EntryOf(First(c))' = EntryOf(First(c))
              /\ (entries[EntryOf(First(c))].value)' = entries[EntryOf(First(c))].value
    PROVE  ConsumerInv(c)'
BY DEF ConsumerInv, CounterOf, Modulus

LEMMA LookFrame ==
    ASSUME NEW c \in Consumers, LookInv(c), SameBlocks(c),
           UNCHANGED <<headers, entries>>, cons'[c] = cons[c],
           prod'.pc = "new_index" => prod.pc = "new_index"
    PROVE  LookInv(c)'
<1>1. blockIndex' = blockIndex /\ (\A j : EntryOf(j)' = EntryOf(j)) /\ Block' = Block
  BY DEF EntryOf, EntryAt, SameBlocks, Capacity, blockIndex, Block
<1>2. ASSUME NEW h, NEW e, Fits(c, h, e)
      PROVE  Fits(c, h, e)'
  BY <1>1, <1>2 DEF Fits, SameBlocks, Capacity, EntryAt
<1>3. ASSUME NEW h, NEW pos, NEW e, Leads(c, h, pos, e)
      PROVE  Leads(c, h, pos, e)'
  BY <1>1, <1>3 DEF Leads, SameBlocks, Capacity, Key, CounterOf, Modulus
<1> QED BY <1>1, <1>2, <1>3 DEF LookInv, SameBlocks

LEMMA BlocksFrame ==
    ASSUME NEW c \in Consumers, BlocksInv(c), UNCHANGED <<entries, free>>, Taken' = Taken,
           Given(c)' = Given(c)
    PROVE  BlocksInv(c)'
BY DEF BlocksInv, Linked

-----------------------------------------------------------------------------
(* The steps of the producer                                               *)

\* Steps that only move the producer on.
LEMMA PGotoKeeps ==
    ASSUME NEW c \in Consumers, IPInv(c), Excuse,
           UNCHANGED <<sharedVars, indexVars, blockVars, cons, historyVars>>,
           prod' = [prod EXCEPT !.pc = prod'.pc], SpanInv', ProducerInv(c)',
           Ends' = Ends, Stored' = Stored,
           prod'.pc = "new_index" => prod.pc = "new_index",
           Taken' = Taken
    PROVE  IPInv(c)'
<1>0. SpanInv /\ CountInv(c) /\ QueueTyped /\ IndexInv(c) /\ LookInv(c)
      /\ ConsumerInv(c) /\ BlocksInv(c)
  BY DEF IPInv
<1>1. UNCHANGED <<tailIndex, headIndex, dequeueOptimisticCount, dequeueOvercommit, entries,
                  headers, elements, completely, free, cons, sent, claimed>>
  BY DEF sharedVars, indexVars, blockVars, historyVars
<1>2. SameBlocks(c) /\ Given(c)' = Given(c)
  BY <1>1, SamePlaces DEF SameBlocks
<1>3. CountInv(c)'
  <2>1. tailIndex' = CounterOf(sent') /\ sent' \in Nat /\ sent' >= sent
    BY <1>0, <1>1 DEF SpanInv, CountInv
  <2> QED BY <1>0, <1>1, <2>1, CountFrame
<1>4. QueueTyped'
  <2>1. prod'.pc \in ProducerLabels
    BY DEF ProducerInv
  <2>2. prod' \in ProducerLocals
    BY <1>0, <2>1 DEF QueueTyped, ProducerLocals
  <2> QED BY <1>0, <1>1, <2>2 DEF QueueTyped, Index, Modulus
<1>5. IndexInv(c)'
  BY <1>0, <1>1, <1>2, IndexFrame
<1>6. LookInv(c)' /\ ConsumerInv(c)'
  <2>1. EntryOf(First(c))' = EntryOf(First(c)) /\ First(c)' = First(c)
    BY <1>1, <1>2 DEF EntryOf, EntryAt, SameBlocks, Capacity, blockIndex
  <2>2. (entries[EntryOf(First(c))].value)' = entries[EntryOf(First(c))].value
    BY <1>1, <2>1
  <2> QED BY <1>0, <1>1, <1>2, <2>1, <2>2, ConsumerFrame, LookFrame
<1>7. BlocksInv(c)'
  BY <1>0, <1>1, <1>2, BlocksFrame
<1> QED BY <1>3, <1>4, <1>5, <1>6, <1>7 DEF IPInv

LEMMA EnqueueCalled ==
    ASSUME NEW c \in Consumers, IPInv(c), CallEnqueue, Excuse
    PROVE  IPInv(c)'
<1>0. SpanInv /\ CountInv(c) /\ ProducerInv(c) /\ prod \in ProducerLocals
  BY DEF IPInv, QueueTyped
<1>1. /\ UNCHANGED <<sharedVars, indexVars, blockVars, cons, historyVars>>
      /\ UNCHANGED <<sent, claimed, entries, headers, completely, cons>>
      /\ prod.pc = "idle" /\ sent < MaxElements
  BY DEF CallEnqueue, PGoto, indexVars, historyVars, blockVars
<1>2. sent \in Nat /\ claimed \in Nat /\ claimed <= sent /\ sent - claimed < Half
  BY <1>0 DEF SpanInv
<1>3. Slot(tailIndex) = Slot(sent) /\ Slot(sent) \in 0 .. BLOCK_SIZE - 1
  <2>1. sent \in Int
    BY <1>2
  <2> QED BY <1>0, <2>1, SlotOf DEF CountInv
<1>4. First(c)' = First(c) /\ Block' = Block
  BY <1>1, SamePlaces
<1>5. CASE Slot(tailIndex) # 0 /\ PGoto("idle", "construct")
  <2>1. prod' = [prod EXCEPT !.pc = "construct"]
    BY <1>5 DEF PGoto
  <2>2. prod'.pc = "construct" /\ prod'.block = prod.block
    BY <1>0, <2>1 DEF ProducerLocals
  <2>3. Ends' = Ends /\ Stored' = Stored /\ Taken' = Taken
    BY <1>1, <1>3, <1>4, <1>5, <2>2 DEF Ends, Stored, Advanced, Taken
  <2>4. SpanInv'
    BY <1>0, <1>1, <1>3, <1>5, <2>2 DEF SpanInv
  <2>5. EntryOf(Block)' = EntryOf(Block)
    BY <1>1, <1>4, <2>3 DEF EntryOf, EntryAt, blockIndex, Capacity
  <2>6. ProducerInv(c)'
    BY <1>0, <1>1, <1>3, <1>5, <2>2, <2>5 DEF ProducerInv, ProducerLabels, Advanced
  <2> QED BY <1>1, <2>1, <2>2, <2>3, <2>4, <2>6, PGotoKeeps
<1>6. CASE /\ Slot(tailIndex) = 0 /\ PGoto("idle", "find_entry")
           /\ circular_less_than(headIndex, Wrap(tailIndex + BLOCK_SIZE))
  <2>1. prod' = [prod EXCEPT !.pc = "find_entry"]
    BY <1>6 DEF PGoto
  <2>2. prod'.pc = "find_entry"
    BY <1>0, <2>1 DEF ProducerLocals
  <2>3. Ends' = Ends /\ Stored' = Stored /\ Taken' = Taken
    BY <1>1, <1>3, <1>4, <2>2 DEF Ends, Stored, Advanced, Taken
  <2>4. sent - claimed + BLOCK_SIZE < Half
    <3>1. PICK n \in Nat, m \in Nat : n = BLOCK_SIZE /\ m = Modulus /\ n > 1
      BY ModulusFacts
    <3>2. PICK s \in Nat : s = sent + n /\ claimed <= s /\ s - claimed < m
      <4>1. 2 * n < m /\ Half \in Nat /\ Half <= (m \div 2) + 1 /\ m \div 2 \in Nat
        BY <3>1, ModulusFacts
      <4>2. 2 * (m \div 2) <= m
        BY <3>1
      <4>3. n <= m \div 2
        BY <3>1, <4>1
      <4> QED BY <1>2, <3>1, <4>1, <4>2, <4>3
    <3>3. Wrap(tailIndex + n) = CounterOf(s)
      <4>1. sent \in Int /\ n \in Int /\ tailIndex = CounterOf(sent)
        BY <1>0, <1>2 DEF CountInv
      <4> QED BY <3>2, <4>1, CounterPlus
    <3>4. circular_less_than(CounterOf(claimed), CounterOf(s))
      BY <1>0, <1>6, <3>1, <3>3 DEF CountInv
    <3>5. s - claimed < Half
      BY <1>2, <3>1, <3>2, <3>4, CircularLess
    <3> QED BY <1>2, <3>1, <3>2, <3>5
  <2>5. SpanInv'
    <3>1. sent - claimed + (BLOCK_SIZE - Slot(sent)) < Half
      BY <1>2, <1>3, <1>6, <2>4, ModulusFacts
    <3> QED BY <1>0, <1>1, <1>3, <2>2, <3>1 DEF SpanInv
  <2>6. ProducerInv(c)'
    BY <1>1, <1>3, <1>6, <2>2 DEF ProducerInv, ProducerLabels, Advanced
  <2> QED BY <1>1, <2>1, <2>2, <2>3, <2>5, <2>6, PGotoKeeps
<1> QED BY <1>5, <1>6 DEF CallEnqueue

\* A step after which the producer has no place for a block in hand.
LEMMA NewBlockIndexFailed ==
    ASSUME NEW c \in Consumers, IPInv(c), NewBlockIndexFails, Excuse
    PROVE  IPInv(c)'
<1>0. SpanInv /\ CountInv(c) /\ ProducerInv(c) /\ prod \in ProducerLocals
  BY DEF IPInv, QueueTyped
<1>1. /\ UNCHANGED <<sharedVars, indexVars, blockVars, cons, historyVars>>
      /\ UNCHANGED <<sent, claimed, entries, headers, completely, cons>>
      /\ prod.pc = "new_index" /\ prod' = [prod EXCEPT !.pc = "idle"]
  BY DEF NewBlockIndexFails, PGoto, indexVars, historyVars, blockVars
<1>2. prod'.pc = "idle"
  BY <1>0, <1>1 DEF ProducerLocals
<1>3. Slot(sent) = 0
  BY <1>0, <1>1 DEF ProducerInv
<1>4. Block' = Block
  BY <1>1, SamePlaces
<1>5. Ends' = Ends /\ Stored' = Stored /\ Taken' = Taken
  BY <1>1, <1>2, <1>3, <1>4 DEF Ends, Stored, Advanced, Taken
<1>6. SpanInv'
  BY <1>0, <1>1, <1>2, <1>3 DEF SpanInv
<1>7. ProducerInv(c)'
  BY <1>1, <1>2, <1>3 DEF ProducerInv, ProducerLabels, Advanced
<1> QED BY <1>1, <1>2, <1>5, <1>6, <1>7, PGotoKeeps

LEMMA RequisitionFailed ==
    ASSUME NEW c \in Consumers, IPInv(c), RequisitionFails, Excuse
    PROVE  IPInv(c)'
<1>0. SpanInv /\ CountInv(c) /\ ProducerInv(c) /\ prod \in ProducerLocals
  BY DEF IPInv, QueueTyped
<1>1. /\ UNCHANGED <<sharedVars, indexVars, blockVars, cons, historyVars>>
      /\ UNCHANGED <<sent, claimed, entries, headers, completely, cons>>
      /\ prod.pc = "requisition" /\ prod' = [prod EXCEPT !.pc = "rewind"]
  BY DEF RequisitionFails, PGoto, indexVars, historyVars, blockVars
<1>2. prod'.pc = "rewind" /\ prod'.entry = prod.entry
  BY <1>0, <1>1 DEF ProducerLocals
<1>3. Slot(sent) = 0
  BY <1>0, <1>1 DEF ProducerInv
<1>4. Block' = Block
  BY <1>1, SamePlaces
<1>5. Ends' = Ends /\ Stored' = Stored /\ Taken' = Taken
  BY <1>1, <1>2, <1>3, <1>4 DEF Ends, Stored, Advanced, Taken
<1>6. SpanInv'
  BY <1>0, <1>1, <1>2, <1>3 DEF SpanInv
<1>7. EntryOf(Block)' = EntryOf(Block)
  BY <1>1, <1>4, <1>5 DEF EntryOf, EntryAt, blockIndex, Capacity
<1>8. ProducerInv(c)'
  BY <1>0, <1>1, <1>2, <1>3, <1>4, <1>7 DEF ProducerInv, ProducerLabels, Advanced, Key
<1> QED BY <1>1, <1>2, <1>5, <1>6, <1>8, PGotoKeeps

\* The entry after the tail is vacant unless the index is full, when no
\* consumer counts on it for a block to come.
LEMMA Vacancy ==
    ASSUME NEW c \in Consumers, IPInv(c), UnsetInv, prod.pc = "find_entry",
           NEW i, i = EntryOf(Ends)
    PROVE  /\ blockIndex.index[NextPos(blockIndex)] = i /\ i \in DOMAIN entries
           /\ entries[i].key = INVALID_BLOCK_BASE \/ entries[i].value = Null =>
                 /\ Ends - First(c) < Capacity(blockIndex)
                 /\ \A j \in First(c) .. Stored - 1 : EntryOf(j) # i
           /\ ~(entries[i].key = INVALID_BLOCK_BASE \/ entries[i].value = Null) =>
                 /\ Ends - First(c) = Capacity(blockIndex)
                 /\ i = EntryOf(First(c)) /\ entries[i].key = Key(First(c))
<1>0. SpanInv /\ CountInv(c) /\ ProducerInv(c) /\ IndexInv(c)
  BY DEF IPInv
<1>1. PICK e \in Nat, f \in Nat : e = Ends /\ f = First(c) /\ f <= e /\ Stored = e
  <2>1. Stored = Ends
    BY DEF Stored, Advanced
  <2> QED BY <1>0, <2>1, Places
<1>2. PICK n \in Sizes :
         /\ Capacity(blockIndex) = n
         /\ \A j \in Int : EntryOf(j) \in DOMAIN entries
         /\ \A j, k \in Int : j - k < n /\ k - j < n /\ EntryOf(j) = EntryOf(k) => j = k
         /\ blockIndex.index[NextPos(blockIndex)] = EntryOf(e) /\ EntryOf(e - n) = EntryOf(e)
  BY <1>0, <1>1, Entries
<1>3. n \in Nat /\ n > 0 /\ e - f <= n
  BY <1>0, <1>1, <1>2 DEF Sizes, IndexInv
<1>4. ASSUME NEW j \in f .. e - 1, EntryOf(j) = i
      PROVE  e - f = n /\ j = f
  <2>1. e \in Int /\ j \in Int /\ j - e < n /\ e > j /\ e - j <= e - f
    BY <1>3
  <2>2. ~(e - j < n)
    BY <1>1, <1>2, <1>4, <2>1
  <2> QED BY <1>3, <2>1, <2>2
<1>5. e - f = n => i = EntryOf(f) /\ f \in f .. e - 1
  <2>1. e - f = n => e - n = f
    BY <1>3
  <2> QED BY <1>1, <1>2, <1>3, <2>1
<1>6. \A j \in f .. e - 1 : BlockOK(c, j)
  BY <1>0, <1>1 DEF IndexInv
<1>7. e - f = n => /\ entries[i].key = Key(f) /\ entries[i].key # INVALID_BLOCK_BASE
                   /\ entries[i].value \in Blocks
  <2>1. SUFFICES ASSUME e - f = n
                 PROVE  /\ entries[i].key = Key(f) /\ entries[i].key # INVALID_BLOCK_BASE
                        /\ entries[i].value \in Blocks
    OBVIOUS
  <2>2. BlockOK(c, f) /\ i = EntryOf(f)
    BY <1>5, <1>6, <2>1
  <2>3. entries[i].key = Key(f) /\ entries[i].value \in Blocks
    BY <2>2 DEF BlockOK
  <2> QED BY <2>3, SizesAssumption, KeyFacts
<1>8. i \in DOMAIN entries /\ e \in Int
  BY <1>1, <1>2
<1>9. entries[i].value \in Blocks => \E j \in f .. e - 1 : i = EntryOf(j)
  BY <1>0, <1>1, <1>8 DEF IndexInv
<1>10. entries[i].value \in Blocks => e - f = n
  BY <1>4, <1>9
<1>11. e - f # n => e - f < n /\ \A j \in f .. e - 1 : EntryOf(j) # i
  BY <1>3, <1>4
<1>12. ~(entries[i].key = INVALID_BLOCK_BASE \/ entries[i].value = Null) =>
          entries[i].value \in Blocks
  <2>1. entries[i].value \in Blocks \cup {Null, Garbage}
    <3>1. entries \in Seq(EntryObjects)
      BY DEF IPInv, QueueTyped, EntryObjects
    <3>2. entries[i] \in EntryObjects
      BY <1>8, <3>1, LenProperties, ElementOfSeq
    <3> QED BY <3>2 DEF EntryObjects
  <2>2. entries[i].value = Garbage => entries[i].key = INVALID_BLOCK_BASE
    BY <1>8 DEF UnsetInv, Advanced
  <2> QED BY <2>1, <2>2
<1>13. entries[i].value \in Blocks => entries[i].value # Null
  BY SizesAssumption
<1> QED BY <1>1, <1>2, <1>5, <1>7, <1>8, <1>10, <1>11, <1>12, <1>13

WithKey(i, k) == [entries EXCEPT ![i].key = k]
WithValue(i, b) == [entries EXCEPT ![i].value = b]

LEMMA KeySet ==
    ASSUME QueueTyped, NEW i \in DOMAIN entries, NEW k \in Index, NEW made,
           made = WithKey(i, k)
    PROVE  /\ made \in Seq(EntryObjects) /\ DOMAIN made = DOMAIN entries /\ made[i].key = k
           /\ \A x \in DOMAIN entries : made[x].value = entries[x].value
           /\ \A x \in DOMAIN entries : x # i => made[x] = entries[x]
<1>1. entries \in Seq(EntryObjects)
  BY DEF QueueTyped, EntryObjects
<1>2. DOMAIN entries = 1 .. Len(entries) /\ Len(entries) \in Nat
  BY <1>1, LenProperties
<1>3. entries[i] \in EntryObjects
  BY <1>1, <1>2, ElementOfSeq
<1>4. PICK r \in EntryObjects : r = [entries[i] EXCEPT !.key = k] /\ r.key = k /\ r.value = entries[i].value
  <2>1. \A o \in EntryObjects :
           LET r == [o EXCEPT !.key = k] IN r \in EntryObjects /\ r.key = k /\ r.value = o.value
    BY DEF EntryObjects
  <2> QED BY <1>3, <2>1
<1>5. made = [entries EXCEPT ![i] = r]
  BY <1>4 DEF WithKey
<1> QED BY <1>1, <1>2, <1>4, <1>5, ExceptSeq

LEMMA ValueSet ==
    ASSUME QueueTyped, NEW i \in DOMAIN entries, NEW b \in Blocks \cup {Null, Garbage}, NEW made,
           made = WithValue(i, b)
    PROVE  /\ made \in Seq(EntryObjects) /\ DOMAIN made = DOMAIN entries /\ made[i].value = b
           /\ \A x \in DOMAIN entries : made[x].key = entries[x].key
           /\ \A x \in DOMAIN entries : x # i => made[x] = entries[x]
<1>1. entries \in Seq(EntryObjects)
  BY DEF QueueTyped, EntryObjects
<1>2. DOMAIN entries = 1 .. Len(entries) /\ Len(entries) \in Nat
  BY <1>1, LenProperties
<1>3. entries[i] \in EntryObjects
  BY <1>1, <1>2, ElementOfSeq
<1>4. PICK r \in EntryObjects : r = [entries[i] EXCEPT !.value = b] /\ r.value = b /\ r.key = entries[i].key
  <2>1. \A o \in EntryObjects :
           LET r == [o EXCEPT !.value = b] IN r \in EntryObjects /\ r.value = b /\ r.key = o.key
    BY DEF EntryObjects
  <2> QED BY <1>3, <2>1
<1>5. made = [entries EXCEPT ![i] = r]
  BY <1>4 DEF WithValue
<1> QED BY <1>1, <1>2, <1>4, <1>5, ExceptSeq

LEMMA EntryFound ==
    ASSUME NEW c \in Consumers, IPInv(c), UnsetInv, FindEntry, Excuse
    PROVE  IPInv(c)'
<1>0. /\ SpanInv /\ CountInv(c) /\ ProducerInv(c) /\ IndexInv(c) /\ QueueTyped /\ LookInv(c)
      /\ ConsumerInv(c) /\ BlocksInv(c) /\ prod \in ProducerLocals
  BY DEF IPInv, QueueTyped
<1>1. /\ UNCHANGED <<tailIndex, headIndex, dequeueOptimisticCount, dequeueOvercommit, headers,
                     elements, completely, free, cons, sent, claimed>>
      /\ prod.pc = "find_entry"
  BY DEF FindEntry, sharedVars, historyVars, blockVars
<1>2. PICK i : i = EntryOf(Ends)
  OBVIOUS
<1> DEFINE vacant == entries[i].key = INVALID_BLOCK_BASE \/ entries[i].value = Null
<1>3. /\ blockIndex.index[NextPos(blockIndex)] = i /\ i \in DOMAIN entries
      /\ vacant => /\ Ends - First(c) < Capacity(blockIndex)
                   /\ \A j \in First(c) .. Stored - 1 : EntryOf(j) # i
      /\ ~vacant => /\ Ends - First(c) = Capacity(blockIndex)
                    /\ i = EntryOf(First(c)) /\ entries[i].key = Key(First(c))
  BY <1>1, <1>2, Vacancy
<1>4. Slot(sent) = 0 /\ Stored = Block /\ Ends = Block
  BY <1>0, <1>1 DEF ProducerInv, Stored, Ends, Advanced
<1>5. First(c)' = First(c) /\ Moved(c)' = Moved(c) /\ Emptied(c)' = Emptied(c)
      /\ Given(c)' = Given(c) /\ Block' = Block
  BY <1>1, SamePlaces
<1>6. CountInv(c)'
  <2>1. tailIndex' = CounterOf(sent') /\ sent' \in Nat /\ sent' >= sent
    BY <1>0, <1>1 DEF SpanInv, CountInv
  <2> QED BY <1>0, <1>1, <2>1, CountFrame
<1>7. /\ Block \in Nat /\ First(c) \in Nat /\ First(c) <= Block
      /\ (Block - First(c)) * BLOCK_SIZE <= Modulus \div 2
  BY <1>0, <1>1, Places
<1>8. CASE vacant
  <2>1. /\ entries' = [entries EXCEPT ![i].key = tailIndex]
        /\ prod' = [prod EXCEPT !.pc = "store_tail", !.entry = i]
    BY <1>3, <1>8 DEF FindEntry
  <2>2. prod'.pc = "store_tail" /\ prod'.entry = i /\ prod'.block = prod.block
    BY <1>0, <2>1 DEF ProducerLocals
  <2>3. Ends' = Ends /\ Stored' = Stored /\ Taken' = Taken /\ SameBlocks(c)
    BY <1>1, <1>4, <1>5, <2>2 DEF Ends, Stored, Advanced, Taken, SameBlocks
  <2>4. SpanInv'
    BY <1>0, <1>1, <2>2 DEF SpanInv
  <2>5. i \in Nat
    <3>1. DOMAIN entries = 1 .. Len(entries) /\ Len(entries) \in Nat
      BY <1>0, LenProperties DEF QueueTyped
    <3> QED BY <1>3, <3>1
  <2>6. tailIndex = Key(Block) /\ tailIndex \in Index
    <3>1. tailIndex = CounterOf(sent) /\ sent \in Nat
      BY <1>0 DEF CountInv, SpanInv
    <3> QED BY <1>4, <1>7, <3>1, KeyFacts DEF Block
  <2>7. /\ DOMAIN entries' = DOMAIN entries
        /\ entries'[i].key = Key(Block)
        /\ \A x \in DOMAIN entries : entries'[x].value = entries[x].value
        /\ \A x \in DOMAIN entries : x # i => entries'[x] = entries[x]
        /\ entries' \in Seq(EntryObjects)
    <3>1. tailIndex \in Index /\ entries' = WithKey(i, tailIndex)
      BY <2>1, <2>6 DEF WithKey
    <3>2. /\ entries' \in Seq(EntryObjects) /\ DOMAIN entries' = DOMAIN entries
          /\ entries'[i].key = tailIndex
          /\ \A x \in DOMAIN entries : entries'[x].value = entries[x].value
          /\ \A x \in DOMAIN entries : x # i => entries'[x] = entries[x]
      BY <1>0, <1>3, <3>1, KeySet
    <3> QED BY <2>6, <3>2
  <2>8. blockIndex' = blockIndex /\ \A j : EntryOf(j)' = EntryOf(j)
    BY <1>1, <2>3 DEF EntryOf, EntryAt, blockIndex, Capacity
  <2>9. QueueTyped'
    <3>1. prod' \in ProducerLocals
      BY <1>0, <2>1, <2>2, <2>5 DEF ProducerLocals, ProducerLabels
    <3> QED BY <1>0, <1>1, <2>7, <3>1 DEF QueueTyped, EntryObjects, Index, Modulus
  <2>10. IndexInv(c)'
    <3>0. \A j \in Int : EntryOf(j) \in DOMAIN entries
      BY <1>0, <1>4, <1>7, Entries
    <3>1. ASSUME NEW j \in First(c) .. Stored - 1
          PROVE  BlockOK(c, j)'
      <4>1. BlockOK(c, j) /\ EntryOf(j) # i /\ EntryOf(j) \in DOMAIN entries
        BY <1>0, <1>3, <1>4, <1>7, <1>8, <3>0 DEF IndexInv
      <4>2. entries'[EntryOf(j)'] = entries[EntryOf(j)]
        BY <2>7, <2>8, <4>1
      <4> QED BY <1>1, <1>5, <4>1, <4>2 DEF BlockOK
    <3>2. ASSUME NEW h, HeaderOK(h)
          PROVE  HeaderOK(h)'
      BY <2>7, <3>2 DEF HeaderOK
    <3>3. (\A x \in DOMAIN headers : HeaderOK(headers[x]))'
      BY <1>0, <1>1, <3>2 DEF IndexInv
    <3>4. (\A j \in First(c) .. Stored - 1 : BlockOK(c, j))'
      BY <1>5, <2>3, <3>1
    <3>5. (\A j, k \in First(c) .. Stored - 1 :
             entries[EntryOf(j)].value = entries[EntryOf(k)].value => j = k)'
      <4>1. ASSUME NEW j \in First(c) .. Stored - 1
            PROVE  entries'[EntryOf(j)'].value = entries[EntryOf(j)].value
        <5>1. EntryOf(j) \in DOMAIN entries
          BY <1>4, <1>7, <3>0
        <5> QED BY <2>7, <2>8, <5>1
      <4> QED BY <1>0, <1>5, <2>3, <4>1 DEF IndexInv
    <3>6. (\A x \in DOMAIN entries : entries[x].value \in Blocks =>
             \E j \in First(c) .. Stored - 1 : x = EntryOf(j))'
      BY <1>0, <1>5, <2>3, <2>7, <2>8 DEF IndexInv
    <3>7. (Ends - First(c) <= Capacity(blockIndex))'
      BY <1>0, <1>5, <2>3, <2>8 DEF IndexInv, Capacity
    <3> QED BY <1>0, <1>1, <2>8, <3>3, <3>4, <3>5, <3>6, <3>7 DEF IndexInv
  <2>11. ProducerInv(c)'
    <3>1. (Ends - First(c) < Capacity(blockIndex))'
      BY <1>3, <1>5, <1>8, <2>3, <2>8 DEF Capacity
    <3>2. (prod.entry = EntryOf(Block) /\ entries[prod.entry].key = Key(Block))'
      BY <1>2, <1>4, <1>5, <2>2, <2>7, <2>8 DEF Key
    <3> QED BY <1>1, <1>4, <2>2, <3>1, <3>2 DEF ProducerInv, ProducerLabels, Advanced
  <2>12. LookInv(c)' /\ ConsumerInv(c)'
    <3>0. \A j \in Int : EntryOf(j) \in DOMAIN entries
      BY <1>0, <1>4, <1>7, Entries
    <3>1. ASSUME NEW h, NEW e, Fits(c, h, e)
          PROVE  Fits(c, h, e)'
      BY <1>5, <2>8, <3>1 DEF Fits, Capacity, EntryAt
    <3>2. ASSUME NEW h, NEW pos, NEW e \in First(c) + 1 .. Block + 1, Leads(c, h, pos, e)
          PROVE  Leads(c, h, pos, e)'
      <4>1. e - 1 \in Int /\ EntryOf(e - 1) \in DOMAIN entries
        <5>1. e - 1 \in Int
          BY <1>7
        <5> QED BY <3>0, <5>1
      <4>2. entries'[EntryOf(e - 1)].key = Key(e - 1)
        <5>1. CASE EntryOf(e - 1) # i
          BY <2>7, <3>2, <4>1, <5>1 DEF Leads
        <5>2. CASE EntryOf(e - 1) = i
          <6>1. e = Block + 1 \/ e - 1 \in First(c) .. Stored - 1
            BY <1>4, <1>7
          <6>2. e = Block + 1
            BY <1>3, <1>8, <5>2, <6>1
          <6>3. e - 1 = Block
            BY <1>7, <6>2
          <6> QED BY <2>7, <5>2, <6>3
        <5> QED BY <5>1, <5>2
      <4> QED BY <1>5, <2>8, <3>2, <4>2 DEF Leads, Capacity, Key, CounterOf, Modulus
    <3>3. LookInv(c)'
      BY <1>0, <1>1, <1>5, <2>2, <2>3, <3>1, <3>2 DEF LookInv
    <3>4. EntryOf(First(c)) \in DOMAIN entries
      BY <1>7, <3>0
    <3>5. (entries[EntryOf(First(c))].value)' = entries[EntryOf(First(c))].value
      BY <1>5, <2>7, <2>8, <3>4
    <3> QED BY <1>0, <1>1, <1>5, <2>8, <3>3, <3>5, ConsumerFrame
  <2>13. BlocksInv(c)'
    <3>1. Linked' = Linked
      BY <2>7 DEF Linked
    <3> QED BY <1>0, <1>1, <1>5, <2>3, <3>1 DEF BlocksInv
  <2> QED BY <1>6, <2>4, <2>9, <2>10, <2>11, <2>12, <2>13 DEF IPInv
<1>9. CASE ~vacant
  <2>1. entries' = entries /\ prod' = [prod EXCEPT !.pc = "new_index"]
    BY <1>3, <1>9 DEF FindEntry
  <2>2. prod'.pc = "new_index"
    BY <1>0, <2>1 DEF ProducerLocals
  <2>3. Ends' = Ends /\ Stored' = Stored /\ Taken' = Taken /\ SameBlocks(c)
    BY <1>1, <1>4, <1>5, <2>2 DEF Ends, Stored, Advanced, Taken, SameBlocks
  <2>4. SpanInv'
    BY <1>0, <1>1, <2>2 DEF SpanInv
  <2>5. ProducerInv(c)'
    BY <1>0, <1>1, <1>4, <2>2 DEF ProducerInv, ProducerLabels, Advanced
  <2>6. QueueTyped'
    <3>1. prod' \in ProducerLocals
      BY <1>0, <2>1 DEF ProducerLocals, ProducerLabels
    <3> QED BY <1>0, <1>1, <2>1, <3>1 DEF QueueTyped, Index, Modulus
  <2>7. IndexInv(c)'
    BY <1>0, <1>1, <2>1, <2>3, IndexFrame
  <2>8. ASSUME NEW h, NEW pos, NEW e \in First(c) + 1 .. Block + 1, Leads(c, h, pos, e)
        PROVE  e <= Stored
    <3>1. SUFFICES ASSUME e = Block + 1 PROVE FALSE
      BY <1>4, <1>7
    <3>2. e - 1 = Block
      BY <1>7, <3>1
    <3>3. Key(First(c)) = Key(Block)
      BY <1>2, <1>3, <1>4, <1>9, <2>8, <3>2 DEF Leads
    <3>4. First(c) = Block
      BY <1>7, <3>3, KeyDistance
    <3>5. Capacity(blockIndex) > 0
      <4>1. PICK n \in Sizes : Capacity(blockIndex) = n
        BY <1>0, <1>4, <1>7, Entries
      <4> QED BY <4>1 DEF Sizes
    <3> QED BY <1>3, <1>4, <1>7, <1>9, <3>4, <3>5
  <2>9. LookInv(c)' /\ ConsumerInv(c)'
    <3>1. blockIndex' = blockIndex /\ (\A j : EntryOf(j)' = EntryOf(j))
      BY <1>1, <2>3 DEF EntryOf, EntryAt, Capacity, blockIndex
    <3>2. ASSUME NEW h, NEW e, Fits(c, h, e)
          PROVE  Fits(c, h, e)'
      BY <1>5, <3>1, <3>2 DEF Fits, Capacity, EntryAt
    <3>3. ASSUME NEW h, NEW pos, NEW e, Leads(c, h, pos, e)
          PROVE  Leads(c, h, pos, e)'
      BY <1>5, <2>1, <3>1, <3>3 DEF Leads, Capacity, Key, CounterOf, Modulus
    <3>4. Stored \in Int /\ Block \in Nat /\ First(c) \in Nat
      BY <1>4, <1>7
    <3>5. \A e \in First(c) + 1 .. Block + 1 : e <= Stored => ~(e > Stored)
      BY <3>4
    <3>6. LookInv(c)'
      BY <1>0, <1>1, <1>5, <2>3, <2>8, <3>2, <3>3, <3>5 DEF LookInv
    <3> QED BY <1>0, <1>1, <1>5, <2>1, <3>1, <3>6, ConsumerFrame
  <2>10. BlocksInv(c)'
    BY <1>0, <1>1, <1>5, <2>1, <2>3, BlocksFrame
  <2> QED BY <1>6, <2>4, <2>5, <2>6, <2>7, <2>9, <2>10 DEF IPInv
<1> QED BY <1>8, <1>9

\* No two places of a header grown name the same entry.
LEMMA GrownOwn ==
    ASSUME NEW n \in Sizes, NEW h \in Headers(n), Len(entries) \in Nat,
           \A x \in DOMAIN h.index : h.index[x] <= Len(entries),
           \A x, y \in DOMAIN h.index : h.index[x] = h.index[y] => x = y
    PROVE  \A x, y \in DOMAIN Grown(h).index :
              /\ Grown(h).index[x] \in Nat /\ Grown(h).index[x] <= Len(entries) + n
              /\ Grown(h).index[x] = Grown(h).index[y] => x = y
              /\ ~(x < n) => Grown(h).index[x] > Len(entries)
              /\ x < n => \E z \in DOMAIN h.index : Grown(h).index[x] = h.index[z]
<1>1. /\ n \in Nat /\ n > 0 /\ h.tail \in Int /\ DOMAIN h.index = 0 .. n - 1
      /\ \A i \in 0 .. n - 1 : h.index[i] \in Nat
  BY HeaderFacts
<1>2. PICK t \in Int, L \in Nat : t = h.tail /\ L = Len(entries)
  BY <1>1
<1>3. /\ DOMAIN Grown(h).index = 0 .. 2 * n - 1
      /\ \A i \in 0 .. 2 * n - 1 :
            Grown(h).index[i] = IF i < n THEN h.index[(t + 1 + i) % n] ELSE L + i - n + 1
  <2>1. 0 \in Int /\ 0 - n <= -1 /\ -1 < 0 /\ -1 \in Int
    BY <1>1
  <2>2. Grown(h) \in Headers(2 * n) /\ 2 * n \in Sizes
    BY <1>1, <2>1, GrownKeeps
  <2>3. DOMAIN Grown(h).index = 0 .. 2 * n - 1
    BY <2>2, HeaderFacts
  <2>4. \A i \in 0 .. 2 * n - 1 :
            Grown(h).index[i] = IF i < n THEN h.index[(h.tail + 1 + i) % n]
                                ELSE Len(entries) + i - n + 1
    BY <1>1, <2>1, GrownKeeps
  <2> QED BY <1>2, <2>3, <2>4
<1>4. ASSUME NEW i \in 0 .. 2 * n - 1, i < n
      PROVE  \E x \in Int : /\ x = t + 1 + i /\ x % n \in DOMAIN h.index
                            /\ Grown(h).index[i] = h.index[x % n]
  <2>1. PICK x \in Int : x = t + 1 + i
    BY <1>1
  <2>2. x % n \in 0 .. n - 1
    BY <1>1, ModDef
  <2>3. Grown(h).index[i] = h.index[(t + 1 + i) % n]
    BY <1>3, <1>4
  <2> QED BY <1>1, <2>1, <2>2, <2>3
<1>5. ASSUME NEW i \in 0 .. 2 * n - 1, ~(i < n)
      PROVE  Grown(h).index[i] = L + i - n + 1
  BY <1>3, <1>5
<1>6. ASSUME NEW i \in 0 .. 2 * n - 1
      PROVE  Grown(h).index[i] \in Nat /\ Grown(h).index[i] <= L + n
             /\ (~(i < n) <=> Grown(h).index[i] > L)
  <2>1. CASE i < n
    <3>1. PICK y \in Nat : y = Grown(h).index[i] /\ y <= L
      BY <1>1, <1>2, <1>4, <2>1
    <3> QED BY <1>1, <2>1, <3>1
  <2>2. CASE ~(i < n)
    BY <1>1, <1>5, <2>2
  <2> QED BY <2>1, <2>2
<1>7. ASSUME NEW i \in 0 .. 2 * n - 1, NEW k \in 0 .. 2 * n - 1,
             Grown(h).index[i] = Grown(h).index[k]
      PROVE  i = k
  <2>1. CASE i < n /\ k < n
    <3>1. PICK x \in Int : /\ x = t + 1 + i /\ x % n \in DOMAIN h.index
                           /\ Grown(h).index[i] = h.index[x % n]
      BY <1>4, <2>1
    <3>2. PICK y \in Int : /\ y = t + 1 + k /\ y % n \in DOMAIN h.index
                           /\ Grown(h).index[k] = h.index[y % n]
      BY <1>4, <2>1
    <3>3. x % n = y % n
      BY <1>7, <3>1, <3>2
    <3>4. x - y < n /\ y - x < n
      BY <1>1, <2>1, <3>1, <3>2
    <3>5. x = y
      BY <1>1, <3>3, <3>4, ModInjective
    <3> QED BY <1>1, <3>1, <3>2, <3>5
  <2>2. CASE ~(i < n) /\ ~(k < n)
    BY <1>1, <1>5, <1>7, <2>2
  <2>3. CASE (i < n) # (k < n)
    BY <1>6, <1>7, <2>3
  <2> QED BY <2>1, <2>2, <2>3
<1> QED BY <1>2, <1>3, <1>4, <1>6, <1>7

LEMMA BlockIndexGrown ==
    ASSUME NEW c \in Consumers, IPInv(c), NewBlockIndex, Excuse
    PROVE  IPInv(c)'
<1>0. /\ SpanInv /\ CountInv(c) /\ ProducerInv(c) /\ IndexInv(c) /\ QueueTyped /\ LookInv(c)
      /\ ConsumerInv(c) /\ BlocksInv(c) /\ prod \in ProducerLocals
  BY DEF IPInv, QueueTyped
<1>1. /\ UNCHANGED <<tailIndex, headIndex, dequeueOptimisticCount, dequeueOvercommit,
                     elements, completely, free, cons, sent, claimed>>
      /\ prod.pc = "new_index" /\ prod' = [prod EXCEPT !.pc = "find_entry"]
      /\ entries' = entries \o NoEntries(Capacity(blockIndex))
      /\ headers' = Append(headers, Grown(blockIndex))
  BY DEF NewBlockIndex, PGoto, sharedVars, historyVars, blockVars
<1>2. prod'.pc = "find_entry"
  BY <1>0, <1>1 DEF ProducerLocals
<1>3. First(c)' = First(c) /\ Moved(c)' = Moved(c) /\ Emptied(c)' = Emptied(c)
      /\ Given(c)' = Given(c) /\ Block' = Block
  BY <1>1, SamePlaces
<1>4. Slot(sent) = 0 /\ Stored = Block /\ Ends = Block
  BY <1>0, <1>1 DEF ProducerInv, Stored, Ends, Advanced
<1>5. Ends' = Ends /\ Stored' = Stored /\ Taken' = Taken
  BY <1>1, <1>2, <1>3, <1>4 DEF Ends, Stored, Advanced, Taken
<1>6. PICK e \in Nat, f \in Nat : e = Ends /\ f = First(c) /\ f <= e /\ Stored = e /\ Block = e
         /\ (cons[c].pc \in Looking \cup Clearing => f < e)
  BY <1>0, <1>4, Places
<1>7. CountInv(c)'
  <2>1. tailIndex' = CounterOf(sent') /\ sent' \in Nat /\ sent' >= sent
    BY <1>0, <1>1 DEF SpanInv, CountInv
  <2> QED BY <1>0, <1>1, <2>1, CountFrame
<1>8. SpanInv'
  BY <1>0, <1>1, <1>2 DEF SpanInv
<1>9. ProducerInv(c)'
  BY <1>1, <1>2, <1>4 DEF ProducerInv, ProducerLabels, Advanced
<1>10. PICK n \in Sizes, h \in {blockIndex} :
         /\ h \in Headers(n) /\ h = blockIndex /\ Capacity(h) = n
         /\ Len(headers) \in DOMAIN headers
         /\ \A j \in Int : EntryOf(j) = EntryAt(h, e, j) /\ EntryOf(j) \in DOMAIN entries
  BY <1>0, <1>6, Entries
<1>11. n \in Nat /\ n > 0 /\ e - f <= n
  BY <1>0, <1>6, <1>10 DEF Sizes, IndexInv
<1>12. PICK L \in Nat : L = Len(entries) /\ DOMAIN entries = 1 .. L
  BY <1>0, LenProperties DEF QueueTyped
<1>13. /\ entries' \in Seq(EntryObjects) /\ DOMAIN entries' = 1 .. L + n
       /\ \A x \in 1 .. L : entries'[x] = entries[x]
       /\ \A x \in DOMAIN entries' : entries'[x].value \in Blocks => x \in DOMAIN entries
  <2>1. INVALID_BLOCK_BASE \in Index
    BY ModulusFacts DEF INVALID_BLOCK_BASE, Index
  <2>2. /\ NoEntries(n) \in Seq(EntryObjects) /\ Len(NoEntries(n)) = n
        /\ \A x \in 1 .. n : NoEntries(n)[x].value \notin Blocks
    BY <1>11, <2>1, IsASeq, GarbageAssumption DEF NoEntries, EntryObjects
  <2>3. entries \in Seq(EntryObjects)
    BY <1>0 DEF QueueTyped, EntryObjects
  <2>4. entries' = entries \o NoEntries(n)
    BY <1>1, <1>10
  <2>5. /\ entries' \in Seq(EntryObjects) /\ Len(entries') = L + n
        /\ \A x \in 1 .. L + n :
              entries'[x] = IF x <= L THEN entries[x] ELSE NoEntries(n)[x - L]
    BY <1>12, <2>2, <2>3, <2>4, ConcatProperties
  <2>6. DOMAIN entries' = 1 .. L + n
    BY <2>5, LenProperties
  <2>7. \A x \in 1 .. L + n : ~(x <= L) => x - L \in 1 .. n
    BY <1>11
  <2>8. ASSUME NEW x \in DOMAIN entries', entries'[x].value \in Blocks
        PROVE  x \in DOMAIN entries
    <3>1. x \in 1 .. L + n /\ x \in Nat
      BY <1>11, <1>12, <2>6, <2>8
    <3>2. ~(x <= L) => entries'[x] = NoEntries(n)[x - L] /\ x - L \in 1 .. n
      BY <2>5, <2>7, <3>1
    <3>3. x <= L
      BY <2>2, <2>8, <3>2
    <3> QED BY <1>12, <3>1, <3>3
  <2>9. \A x \in 1 .. L : x \in 1 .. L + n /\ x <= L
    BY <1>11, <1>12
  <2>10. \A x \in 1 .. L : entries'[x] = entries[x]
    BY <2>5, <2>9
  <2> QED BY <2>5, <2>6, <2>8, <2>10
<1>14. PICK g : /\ g = Grown(h) /\ g \in Headers(2 * n) /\ 2 * n \in Sizes
                /\ \A j \in f .. e - 1 : EntryAt(g, e, j) = EntryAt(h, e, j)
  <2>1. ASSUME NEW j \in Int, e - n <= j, j < e
        PROVE  /\ Grown(h) \in Headers(2 * n) /\ 2 * n \in Sizes
               /\ EntryAt(Grown(h), e, j) = EntryAt(h, e, j)
    <3>1. e \in Int /\ Len(entries) \in Nat /\ h \in Headers(n)
      BY <1>10, <1>12
    <3> QED BY <2>1, <3>1, GrownKeeps
  <2>2. \A j \in f .. e - 1 : j \in Int /\ e - n <= j /\ j < e
    BY <1>11
  <2>3. e - 1 \in Int /\ e - n <= e - 1 /\ e - 1 < e
    BY <1>11
  <2>4. Grown(h) \in Headers(2 * n) /\ 2 * n \in Sizes
    BY <2>1, <2>3
  <2>5. \A j \in f .. e - 1 : EntryAt(Grown(h), e, j) = EntryAt(h, e, j)
    BY <2>1, <2>2
  <2> QED BY <2>4, <2>5
<1>15. Capacity(g) = 2 * n /\ DOMAIN g.index = 0 .. 2 * n - 1 /\ g.tail \in DOMAIN g.index
  BY <1>14, HeaderFacts
<1>16. /\ headers \in Seq(UNION {Headers(m) : m \in Sizes})
       /\ headers' \in Seq(UNION {Headers(m) : m \in Sizes})
       /\ headers' # <<>> /\ Len(headers') = Len(headers) + 1
       /\ \A i \in 1 .. Len(headers) : headers'[i] = headers[i]
       /\ headers'[Len(headers) + 1] = g
       /\ DOMAIN headers = 1 .. Len(headers) /\ Len(headers) \in Nat
       /\ DOMAIN headers' = 1 .. Len(headers) + 1
  <2>1. headers \in Seq(UNION {Headers(m) : m \in Sizes})
    BY <1>0 DEF IndexInv
  <2>2. g \in UNION {Headers(m) : m \in Sizes} /\ headers' = Append(headers, g)
    BY <1>1, <1>10, <1>14
  <2>3. /\ headers' \in Seq(UNION {Headers(m) : m \in Sizes})
        /\ headers' # <<>> /\ Len(headers') = Len(headers) + 1
        /\ \A i \in 1 .. Len(headers) : headers'[i] = headers[i]
        /\ headers'[Len(headers) + 1] = g
    BY <2>1, <2>2, AppendProperties
  <2>4. DOMAIN headers = 1 .. Len(headers) /\ Len(headers) \in Nat
    BY <2>1, LenProperties
  <2>5. DOMAIN headers' = 1 .. Len(headers')
    BY <2>3, LenProperties
  <2> QED BY <2>1, <2>3, <2>4, <2>5
<1>17. blockIndex' = g /\ Capacity(blockIndex)' = 2 * n
  BY <1>15, <1>16 DEF blockIndex, Capacity
<1>18. \A j \in f .. e - 1 : EntryOf(j)' = EntryOf(j)
  <2>1. ASSUME NEW j \in f .. e - 1
        PROVE  EntryOf(j)' = EntryAt(g, e, j)
    BY <1>5, <1>6, <1>17 DEF EntryOf, EntryAt, Capacity
  <2>2. \A j \in f .. e - 1 : j \in Int
    OBVIOUS
  <2> QED BY <1>10, <1>14, <2>1, <2>2
<1>19. \A j \in f .. e - 1 : EntryOf(j) \in 1 .. L
  <2>1. \A j \in f .. e - 1 : j \in Int
    OBVIOUS
  <2> QED BY <1>10, <1>12, <2>1
<1>20. QueueTyped'
  <2>1. prod' \in ProducerLocals
    BY <1>0, <1>1 DEF ProducerLocals, ProducerLabels
  <2> QED BY <1>0, <1>1, <1>13, <2>1 DEF QueueTyped, EntryObjects, Index, Modulus
<1>21. IndexInv(c)'
  <2>1. \A x, y \in DOMAIN g.index : /\ g.index[x] \in Nat /\ g.index[x] <= L + n
                                     /\ g.index[x] = g.index[y] => x = y
                                     /\ ~(x < n) => g.index[x] > L
                                     /\ x < n => \E z \in DOMAIN h.index : g.index[x] = h.index[z]
                                     /\ \A z \in DOMAIN h.index : h.index[z] \in 1 .. L
    <3>1. \A z \in DOMAIN h.index : h.index[z] \in 1 .. L
      BY <1>0, <1>10, <1>12 DEF IndexInv, HeaderOK, blockIndex
    <3>2. \A x, y \in DOMAIN h.index : h.index[x] = h.index[y] => x = y
      BY <1>0, <1>10 DEF IndexInv
    <3>3. \A z \in DOMAIN h.index : h.index[z] <= Len(entries)
      BY <1>12, <3>1
    <3>4. Len(entries) \in Nat /\ h \in Headers(n)
      BY <1>10, <1>12
    <3>5. \A x, y \in DOMAIN Grown(h).index :
              /\ Grown(h).index[x] \in Nat /\ Grown(h).index[x] <= Len(entries) + n
              /\ Grown(h).index[x] = Grown(h).index[y] => x = y
              /\ ~(x < n) => Grown(h).index[x] > Len(entries)
              /\ x < n => \E z \in DOMAIN h.index : Grown(h).index[x] = h.index[z]
      BY <3>2, <3>3, <3>4, GrownOwn
    <3> QED BY <1>12, <1>14, <3>1, <3>5
  <2>2. \A x \in DOMAIN g.index : g.index[x] \in 1 .. L + n
    <3>1. ASSUME NEW x \in DOMAIN g.index
          PROVE  g.index[x] \in 1 .. L + n
      <4>1. CASE x < n
        <5>1. g.index[x] \in 1 .. L
          BY <2>1, <4>1
        <5> QED BY <1>11, <5>1
      <4>2. CASE ~(x < n)
        <5>1. PICK y \in Nat : y = g.index[x] /\ y <= L + n /\ y > L
          BY <2>1, <4>2
        <5> QED BY <1>11, <5>1
      <4> QED BY <4>1, <4>2
    <3> QED BY <3>1
  <2>3. ASSUME NEW x \in DOMAIN headers
        PROVE  HeaderOK(headers[x])'
    <3>1. HeaderOK(headers[x]) /\ headers'[x] = headers[x]
      BY <1>0, <1>16 DEF IndexInv
    <3>2. \A y \in DOMAIN entries : y \in DOMAIN entries'
      BY <1>11, <1>12, <1>13
    <3> QED BY <3>1, <3>2 DEF HeaderOK
  <2>4. (\A x \in DOMAIN headers : HeaderOK(headers[x]))'
    <3>1. HeaderOK(headers[Len(headers)])'
      BY <1>13, <1>14, <1>16, <2>2 DEF HeaderOK
    <3>2. ASSUME NEW x \in DOMAIN headers'
          PROVE  HeaderOK(headers[x])'
      <4>1. x \in DOMAIN headers \/ x = Len(headers')
        BY <1>16, <3>2
      <4>2. CASE x \in DOMAIN headers
        BY <2>3, <4>2
      <4>3. CASE x = Len(headers')
        BY <3>1, <4>3
      <4> QED BY <4>1, <4>2, <4>3
    <3> QED BY <3>2
  <2>5. ASSUME NEW j \in f .. e - 1
        PROVE  /\ entries'[EntryOf(j)'] = entries[EntryOf(j)] /\ EntryOf(j)' = EntryOf(j)
               /\ BlockOK(c, j)'
    <3>1. entries'[EntryOf(j)'] = entries[EntryOf(j)] /\ EntryOf(j)' = EntryOf(j)
      BY <1>13, <1>18, <1>19
    <3>2. BlockOK(c, j)
      BY <1>0, <1>6 DEF IndexInv
    <3> QED BY <1>1, <1>3, <3>1, <3>2 DEF BlockOK, Key, CounterOf, Modulus
  <2>6. (\A j, k \in First(c) .. Stored - 1 :
             entries[EntryOf(j)].value = entries[EntryOf(k)].value => j = k)'
    <3>1. \A j, k \in f .. e - 1 :
             entries[EntryOf(j)].value = entries[EntryOf(k)].value => j = k
      BY <1>0, <1>6 DEF IndexInv
    <3>2. \A j \in f .. e - 1 : (entries[EntryOf(j)].value)' = entries[EntryOf(j)].value
      BY <2>5
    <3>3. First(c)' = f /\ Stored' = e
      BY <1>3, <1>5, <1>6
    <3> QED BY <3>1, <3>2, <3>3
  <2>7. (\A x \in DOMAIN entries : entries[x].value \in Blocks =>
             \E j \in First(c) .. Stored - 1 : x = EntryOf(j))'
    BY <1>0, <1>3, <1>5, <1>6, <1>12, <1>13, <1>18 DEF IndexInv
  <2>8. (Ends - First(c) <= Capacity(blockIndex))'
    <3>1. e - f <= 2 * n
      BY <1>11
    <3> QED BY <1>3, <1>5, <1>6, <1>17, <3>1
  <2>9. (\A j \in First(c) .. Stored - 1 : BlockOK(c, j))'
    BY <1>3, <1>5, <1>6, <2>5
  <2>10. (\A x, y \in DOMAIN blockIndex.index :
              blockIndex.index[x] = blockIndex.index[y] => x = y)'
    BY <1>17, <2>1
  <2> QED BY <1>16, <2>4, <2>6, <2>7, <2>8, <2>9, <2>10 DEF IndexInv
<1>22. ConsumerInv(c)'
  <2>1. cons[c].pc \in {"move"} \cup Clearing => f \in f .. e - 1
    BY <1>6 DEF Looking
  <2>2. cons[c].pc \in {"move"} \cup Clearing =>
           /\ EntryOf(First(c))' = EntryOf(First(c))
           /\ (entries[EntryOf(First(c))].value)' = entries[EntryOf(First(c))].value
    <3>1. f \in f .. e - 1 =>
             /\ EntryOf(f)' = EntryOf(f) /\ entries'[EntryOf(f)'] = entries[EntryOf(f)]
      BY <1>13, <1>18, <1>19
    <3>2. EntryOf(First(c))' = EntryOf(f)'
      BY <1>3, <1>5, <1>6 DEF EntryOf, EntryAt
    <3> QED BY <1>6, <2>1, <3>1, <3>2
  <2> QED BY <1>0, <1>1, <1>3, <2>2, ConsumerFrame
<1>23. LookInv(c)'
  <2>1. ASSUME NEW p, NEW k \in f + 1 .. e, Fits(c, p, k)
        PROVE  Fits(c, p, k)'
    <3>1. \A j \in f .. k - 1 : j \in f .. e - 1
      BY <2>1
    <3> QED BY <1>3, <1>6, <1>18, <2>1, <3>1 DEF Fits, Capacity, EntryAt
  <2>2. cons[c].pc = "load_pos" => e \in f + 1 .. e /\ Fits(c, h, e)
    <3>1. \A j \in f .. e - 1 : j \in Int
      OBVIOUS
    <3>2. Fits(c, h, e)
      BY <1>6, <1>10, <1>11, <3>1 DEF Fits
    <3> QED BY <1>6, <3>2 DEF Looking
  <2>3. ASSUME NEW p, NEW pos, NEW k \in f + 1 .. e, Leads(c, p, pos, k)
        PROVE  Leads(c, p, pos, k)'
    <3>1. k - 1 \in f .. e - 1 /\ f \in f .. e - 1
      BY <2>3
    <3>2. EntryOf(k - 1)' = EntryOf(k - 1) /\ entries'[EntryOf(k - 1)] = entries[EntryOf(k - 1)]
      BY <1>13, <1>18, <1>19, <3>1
    <3>3. EntryOf(First(c))' = EntryOf(First(c))
      <4>1. EntryOf(First(c))' = EntryOf(f)'
        BY <1>3, <1>5, <1>6 DEF EntryOf, EntryAt
      <4> QED BY <1>6, <1>18, <3>1, <4>1
    <3> QED BY <1>3, <2>3, <3>2, <3>3 DEF Leads, Capacity, Key, CounterOf, Modulus
  <2>4. cons[c].pc \in {"load_pos", "load_base"} =>
           /\ cons[c].header \in DOMAIN headers /\ cons[c].header \in DOMAIN headers'
           /\ headers'[cons[c].header] = headers[cons[c].header]
    BY <1>0, <1>16 DEF LookInv
  <2>5. cons[c].pc = "load_pos" =>
           \E k \in f + 1 .. e : Fits(c, headers[cons[c].header], k)
    <3>1. cons[c].header = Len(headers) => headers[cons[c].header] = h
      BY <1>10 DEF blockIndex
    <3> QED BY <1>0, <1>6, <2>2, <3>1 DEF LookInv
  <2>6. cons[c].pc = "load_base" =>
           \E k \in f + 1 .. e : Leads(c, headers[cons[c].header], cons[c].pos, k)
    <3>1. SUFFICES ASSUME cons[c].pc = "load_base",
                          NEW k \in f + 1 .. e + 1,
                          Leads(c, headers[cons[c].header], cons[c].pos, k), ~(k > e)
                   PROVE  \E m \in f + 1 .. e : Leads(c, headers[cons[c].header], cons[c].pos, m)
      BY <1>0, <1>1, <1>6 DEF LookInv
    <3>2. k \in f + 1 .. e
      BY <3>1
    <3> QED BY <3>1, <3>2
  <2>7. ASSUME cons[c].pc = "load_pos"
        PROVE  (\E k \in First(c) + 1 .. Stored : Fits(c, headers[cons[c].header], k))'
    <3>1. PICK k \in f + 1 .. e : Fits(c, headers[cons[c].header], k)
      BY <2>5, <2>7
    <3>2. Fits(c, headers[cons[c].header], k)'
      <4>1. \A p : p = headers[cons[c].header] => Fits(c, p, k)
        BY <3>1
      <4> QED BY <1>1, <2>1, <2>4, <2>7, <4>1 DEF Fits, EntryAt, Capacity
    <3> QED BY <1>3, <1>5, <1>6, <3>2
  <2>8. ASSUME cons[c].pc = "load_base"
        PROVE  (\E k \in First(c) + 1 .. Block + 1 :
                   /\ Leads(c, headers[cons[c].header], cons[c].pos, k) /\ ~(k > Stored))'
    <3>1. PICK k \in f + 1 .. e : Leads(c, headers[cons[c].header], cons[c].pos, k)
      BY <2>6, <2>8
    <3>2. Leads(c, headers[cons[c].header], cons[c].pos, k)'
      BY <1>1, <2>3, <2>4, <2>8, <3>1
    <3>3. ~(k > e) /\ k \in f + 1 .. e + 1
      BY <3>1
    <3> QED BY <1>3, <1>5, <1>6, <3>2, <3>3
  <2> QED BY <1>1, <2>4, <2>7, <2>8 DEF LookInv
<1>24. BlocksInv(c)'
  <2>1. Linked' = Linked
    BY <1>11, <1>12, <1>13 DEF Linked
  <2> QED BY <1>0, <1>1, <1>3, <1>5, <2>1 DEF BlocksInv
<1> QED BY <1>7, <1>8, <1>9, <1>20, <1>21, <1>22, <1>23, <1>24 DEF IPInv

\* The tail of the last header is stored.
LEMMA TailStored ==
    ASSUME NEW c \in Consumers, IndexInv(c), NEW n \in Sizes, blockIndex \in Headers(n),
           NEW v \in 0 .. n - 1, headers' = [headers EXCEPT ![Len(headers)].tail = v]
    PROVE  /\ headers' \in Seq(UNION {Headers(m) : m \in Sizes}) /\ headers' # <<>>
           /\ Len(headers') = Len(headers) /\ DOMAIN headers' = DOMAIN headers
           /\ \A x \in DOMAIN headers :
                 /\ headers'[x].index = headers[x].index
                 /\ x # Len(headers) => headers'[x] = headers[x]
           /\ blockIndex' \in Headers(n) /\ blockIndex'.index = blockIndex.index
           /\ blockIndex'.tail = v
<1>1. /\ headers \in Seq(UNION {Headers(m) : m \in Sizes}) /\ headers # <<>>
      /\ DOMAIN headers = 1 .. Len(headers) /\ Len(headers) \in Nat
      /\ Len(headers) \in 1 .. Len(headers)
  <2>1. headers \in Seq(UNION {Headers(m) : m \in Sizes}) /\ headers # <<>>
    BY DEF IndexInv
  <2>2. DOMAIN headers = 1 .. Len(headers) /\ Len(headers) \in Nat \ {0}
    BY <2>1, LenProperties, EmptySeq
  <2> QED BY <2>1, <2>2
<1>2. PICK g : g = [blockIndex EXCEPT !.tail = v] /\ g \in Headers(n) /\ g.tail = v
               /\ g.index = blockIndex.index
  <2>1. \A h \in Headers(n) :
           LET g == [h EXCEPT !.tail = v] IN g \in Headers(n) /\ g.tail = v /\ g.index = h.index
    BY DEF Headers
  <2> QED BY <2>1
<1>3. headers' = [headers EXCEPT ![Len(headers)] = g]
  BY <1>2 DEF blockIndex
<1>4. g \in UNION {Headers(m) : m \in Sizes}
  BY <1>2
<1>5. /\ headers' \in Seq(UNION {Headers(m) : m \in Sizes})
      /\ Len(headers') = Len(headers)
      /\ \A x \in 1 .. Len(headers) :
            headers'[x] = IF x = Len(headers) THEN g ELSE headers[x]
  BY <1>1, <1>3, <1>4, ExceptSeq
<1>6. DOMAIN headers' = DOMAIN headers /\ headers' # <<>>
  <2>1. DOMAIN headers' = 1 .. Len(headers')
    BY <1>5, LenProperties
  <2>2. DOMAIN headers' # {}
    BY <1>1, <1>5, <2>1
  <2> QED BY <1>1, <1>5, <2>1, <2>2
<1>7. blockIndex' = g
  BY <1>1, <1>5 DEF blockIndex
<1> QED BY <1>1, <1>2, <1>5, <1>6, <1>7 DEF blockIndex

\* The entries keep their keys and their blocks.
SameEntries ==
    /\ DOMAIN entries' = DOMAIN entries
    /\ \A x \in DOMAIN entries :
          /\ entries'[x].key = entries[x].key
          /\ entries[x].value \in Blocks \/ entries'[x].value \in Blocks =>
                entries'[x].value = entries[x].value

\* When the tail moves with the blocks that have a place in the index, each
\* block keeps its entry, also for the consumer.
LEMMA TailMoves ==
    ASSUME NEW c \in Consumers, IndexInv(c), LookInv(c), NEW n \in Sizes, blockIndex \in Headers(n),
           NEW v \in 0 .. n - 1, headers' = [headers EXCEPT ![Len(headers)].tail = v],
           NEW e \in Int, e = Ends, Ends' - First(c) <= n,
           \/ v = NextPos(blockIndex) /\ Ends' = e + 1
           \/ v = (blockIndex.tail - 1) % n /\ Ends' = e - 1,
           UNCHANGED <<elements, completely, free, cons, sent, claimed>>, SameEntries,
           \A j \in Int : EntryOf(j) \in DOMAIN entries,
           Stored' = Stored, prod'.pc # "new_index", First(c) \in Nat
    PROVE  IndexInv(c)' /\ LookInv(c)' /\ (\A j \in Int : EntryOf(j)' = EntryOf(j))
<1>1. /\ headers' \in Seq(UNION {Headers(m) : m \in Sizes}) /\ headers' # <<>>
      /\ Len(headers') = Len(headers) /\ DOMAIN headers' = DOMAIN headers
      /\ \A x \in DOMAIN headers :
            /\ headers'[x].index = headers[x].index
            /\ x # Len(headers) => headers'[x] = headers[x]
      /\ blockIndex' \in Headers(n) /\ blockIndex'.index = blockIndex.index
      /\ blockIndex'.tail = v
  BY TailStored
<1>2. PICK g : g = blockIndex' /\ g \in Headers(n) /\ g.index = blockIndex.index /\ g.tail = v
  BY <1>1
<1>3. Capacity(g) = n /\ g.tail \in DOMAIN g.index /\ Capacity(blockIndex) = n /\ n \in Nat
  BY <1>2, HeaderFacts
<1>4. First(c)' = First(c) /\ Moved(c)' = Moved(c) /\ Emptied(c)' = Emptied(c) /\ Block' = Block
  BY SamePlaces
<1>5. ASSUME NEW j \in Int
      PROVE  EntryOf(j)' = EntryOf(j)
  <2>1. EntryOf(j) = EntryAt(blockIndex, e, j)
    BY DEF EntryOf
  <2>2. EntryOf(j)' = EntryAt(g, Ends', j)
    BY <1>2 DEF EntryOf, EntryAt, Capacity
  <2>3. EntryAt(g, Ends', j) = EntryAt(blockIndex, e, j)
    <3>1. CASE v = NextPos(blockIndex) /\ Ends' = e + 1
      <4>1. EntryAt(g, e + 1, j) = EntryAt(blockIndex, e, j)
        BY <1>2, <3>1, TailMoved
      <4> QED BY <3>1, <4>1
    <3>2. CASE v = (blockIndex.tail - 1) % n /\ Ends' = e - 1
      <4>1. EntryAt(g, e - 1, j) = EntryAt(blockIndex, e, j)
        BY <1>2, <3>2, TailMoved
      <4> QED BY <3>2, <4>1
    <3> QED BY <3>1, <3>2
  <2> QED BY <2>1, <2>2, <2>3
<1>6. Stored \in Int => \A j \in First(c) .. Stored - 1 : j \in Int
  OBVIOUS
<1>7. IndexInv(c)'
  <2>1. ASSUME NEW j \in First(c) .. Stored - 1
        PROVE  BlockOK(c, j)'
    <3>1. BlockOK(c, j) /\ j \in Int
      BY DEF IndexInv
    <3>2. EntryOf(j)' = EntryOf(j)
      BY <1>5, <3>1
    <3>3. /\ entries'[EntryOf(j)].key = entries[EntryOf(j)].key
          /\ entries'[EntryOf(j)].value = entries[EntryOf(j)].value
      BY <3>1 DEF BlockOK, SameEntries
    <3> QED BY <1>4, <3>1, <3>2, <3>3 DEF BlockOK, Key, CounterOf, Modulus
  <2>2. ASSUME NEW x \in DOMAIN headers
        PROVE  HeaderOK(headers[x])'
    <3>1. HeaderOK(headers[x])
      BY DEF IndexInv
    <3>2. CASE x # Len(headers)
      BY <1>1, <3>1, <3>2 DEF HeaderOK, SameEntries
    <3>3. CASE x = Len(headers)
      <4>1. headers'[x] = g
        BY <1>1, <1>2, <3>3 DEF blockIndex
      <4>2. g \in Headers(n) /\ g.index = headers[x].index
        BY <1>2, <3>3 DEF blockIndex
      <4> QED BY <3>1, <4>1, <4>2 DEF HeaderOK, SameEntries
    <3> QED BY <3>2, <3>3
  <2>3. (\A x \in DOMAIN headers : HeaderOK(headers[x]))'
    BY <1>1, <2>2
  <2>4. (\A j \in First(c) .. Stored - 1 : BlockOK(c, j))'
    BY <1>4, <2>1
  <2>5. (\A j, k \in First(c) .. Stored - 1 :
             entries[EntryOf(j)].value = entries[EntryOf(k)].value => j = k)'
    <3>1. \A j, k \in First(c) .. Stored - 1 :
             entries[EntryOf(j)].value = entries[EntryOf(k)].value => j = k
      BY DEF IndexInv
    <3>2. \A j \in First(c) .. Stored - 1 : EntryOf(j)' = EntryOf(j)
      BY <1>5
    <3>3. \A j \in First(c) .. Stored - 1 :
             entries'[EntryOf(j)].value = entries[EntryOf(j)].value
      <4>1. \A j \in First(c) .. Stored - 1 :
               EntryOf(j) \in DOMAIN entries /\ entries[EntryOf(j)].value \in Blocks
        BY DEF IndexInv, BlockOK
      <4> QED BY <4>1 DEF SameEntries
    <3> QED BY <1>4, <3>1, <3>2, <3>3
  <2>6. (\A x \in DOMAIN entries : entries[x].value \in Blocks =>
             \E j \in First(c) .. Stored - 1 : x = EntryOf(j))'
    <3>1. \A x \in DOMAIN entries : entries[x].value \in Blocks =>
             \E j \in First(c) .. Stored - 1 : x = EntryOf(j)
      BY DEF IndexInv
    <3>2. \A j \in First(c) .. Stored - 1 : EntryOf(j)' = EntryOf(j)
      BY <1>5
    <3> QED BY <1>4, <3>1, <3>2 DEF SameEntries
  <2>7. (Ends - First(c) <= Capacity(blockIndex))'
    BY <1>2, <1>3, <1>4 DEF Capacity
  <2>8. (\A x, y \in DOMAIN blockIndex.index :
              blockIndex.index[x] = blockIndex.index[y] => x = y)'
    BY <1>2 DEF IndexInv
  <2> QED BY <1>1, <2>3, <2>4, <2>5, <2>6, <2>7, <2>8 DEF IndexInv
<1>8. LookInv(c)'
  <2>1. ASSUME NEW p, NEW k \in Int, Fits(c, p, k)
        PROVE  Fits(c, p, k)'
    <3>1. \A j \in First(c) .. k - 1 : EntryOf(j)' = EntryOf(j)
      BY <1>5
    <3> QED BY <1>4, <2>1, <3>1 DEF Fits, Capacity, EntryAt
  <2>2. cons[c].pc = "load_pos" =>
           \/ cons[c].header = Len(headers)
           \/ /\ headers'[cons[c].header] = headers[cons[c].header]
              /\ \E k \in First(c) + 1 .. Stored : Fits(c, headers[cons[c].header], k)
    BY <1>1 DEF LookInv
  <2>3. ASSUME NEW p, NEW k \in First(c) + 1 .. Stored, Fits(c, p, k)
        PROVE  Fits(c, p, k)'
    BY <2>1, <2>3
  <2>4. (cons[c].pc = "load_pos" =>
          \/ cons[c].header = Len(headers)
          \/ \E k \in First(c) + 1 .. Stored : Fits(c, headers[cons[c].header], k))'
    <3>1. SUFFICES ASSUME cons[c].pc = "load_pos", cons[c].header # Len(headers)
                   PROVE  (\E k \in First(c) + 1 .. Stored : Fits(c, headers[cons[c].header], k))'
      BY <1>1
    <3>2. PICK k \in First(c) + 1 .. Stored : Fits(c, headers[cons[c].header], k)
      BY <2>2, <3>1
    <3>3. Fits(c, headers[cons[c].header], k)'
      <4>1. \A p : p = headers[cons[c].header] => Fits(c, p, k)
        BY <3>2
      <4> QED BY <2>2, <2>3, <3>1, <4>1 DEF Fits, EntryAt, Capacity
    <3> QED BY <1>4, <3>3
  <2>5. ASSUME cons[c].pc = "load_base", NEW k \in First(c) + 1 .. Block + 1,
               Leads(c, headers[cons[c].header], cons[c].pos, k)
        PROVE  Leads(c, headers[cons[c].header], cons[c].pos, k)'
    <3>0. k - 1 \in Int /\ First(c) \in Int
      <4>1. First(c) \in Int
        OBVIOUS
      <4> QED BY <4>1
    <3>1. EntryOf(k - 1)' = EntryOf(k - 1)
      BY <1>5, <3>0
    <3>2. EntryOf(First(c))' = EntryOf(First(c))
      BY <1>4, <1>5, <3>0 DEF EntryOf, EntryAt
    <3>3. headers'[cons[c].header].index = headers[cons[c].header].index
      BY <1>1, <2>5 DEF LookInv
    <3>4. PICK i : i = headers[cons[c].header].index[cons[c].pos]
      OBVIOUS
    <3>5. i \in DOMAIN entries
      <4>1. HeaderOK(headers[cons[c].header])
        BY <2>5 DEF LookInv, IndexInv
      <4> QED BY <2>5, <3>4, <4>1 DEF HeaderOK, Leads
    <3>6. entries'[i].key = entries[i].key
      BY <3>5 DEF SameEntries
    <3> QED BY <1>4, <2>5, <3>1, <3>2, <3>3, <3>4, <3>6
            DEF Leads, Capacity, Key, CounterOf, Modulus
  <2>6. (cons[c].pc = "load_base" =>
          \E k \in First(c) + 1 .. Block + 1 :
             /\ Leads(c, headers[cons[c].header], cons[c].pos, k)
             /\ k > Stored => prod.pc # "new_index" /\ cons[c].header = Len(headers))'
    <3>1. SUFFICES ASSUME cons[c].pc = "load_base"
                   PROVE  (\E k \in First(c) + 1 .. Block + 1 :
                             /\ Leads(c, headers[cons[c].header], cons[c].pos, k)
                             /\ k > Stored => cons[c].header = Len(headers))'
      OBVIOUS
    <3>2. PICK k \in First(c) + 1 .. Block + 1 :
             /\ Leads(c, headers[cons[c].header], cons[c].pos, k)
             /\ k > Stored => cons[c].header = Len(headers)
      BY <3>1 DEF LookInv
    <3>3. Leads(c, headers[cons[c].header], cons[c].pos, k)'
      BY <2>5, <3>1, <3>2
    <3> QED BY <1>1, <1>4, <3>2, <3>3
  <2> QED BY <1>1, <2>4, <2>6 DEF LookInv
<1> QED BY <1>5, <1>7, <1>8


LEMMA IndexTailStored ==
    ASSUME NEW c \in Consumers, IPInv(c), StoreIndexTail, Excuse
    PROVE  IPInv(c)'
<1>0. /\ SpanInv /\ CountInv(c) /\ ProducerInv(c) /\ IndexInv(c) /\ QueueTyped /\ LookInv(c)
      /\ ConsumerInv(c) /\ BlocksInv(c) /\ prod \in ProducerLocals
  BY DEF IPInv, QueueTyped
<1>1. /\ UNCHANGED <<tailIndex, headIndex, dequeueOptimisticCount, dequeueOvercommit,
                     elements, completely, free, entries, cons, sent, claimed>>
      /\ prod.pc = "store_tail" /\ prod' = [prod EXCEPT !.pc = "requisition"]
      /\ headers' = [headers EXCEPT ![Len(headers)].tail = NextPos(blockIndex)]
  BY DEF StoreIndexTail, PGoto, sharedVars, historyVars, blockVars
<1>2. prod'.pc = "requisition" /\ prod'.entry = prod.entry /\ prod'.block = prod.block
  BY <1>0, <1>1 DEF ProducerLocals
<1>3. First(c)' = First(c) /\ Given(c)' = Given(c) /\ Block' = Block
  BY <1>1, SamePlaces
<1>4. Slot(sent) = 0 /\ Stored = Block /\ Ends = Block
  BY <1>0, <1>1 DEF ProducerInv, Stored, Ends, Advanced
<1>5. Ends' = Ends + 1 /\ Stored' = Stored /\ Taken' = Taken
  BY <1>1, <1>2, <1>3, <1>4 DEF Ends, Stored, Advanced, Taken
<1>6. PICK e \in Nat, f \in Nat : e = Ends /\ f = First(c) /\ Block = e
  BY <1>0, <1>4, Places
<1>7. CountInv(c)'
  <2>1. tailIndex' = CounterOf(sent') /\ sent' \in Nat /\ sent' >= sent
    BY <1>0, <1>1 DEF SpanInv, CountInv
  <2> QED BY <1>0, <1>1, <2>1, CountFrame
<1>8. SpanInv'
  BY <1>0, <1>1, <1>2 DEF SpanInv
<1>9. PICK n \in Sizes : /\ blockIndex \in Headers(n) /\ Capacity(blockIndex) = n
                        /\ \A j \in Int : EntryOf(j) \in DOMAIN entries
  BY <1>0, <1>6, Entries
<1>10. Ends' - First(c) <= n
  <2>1. e - f < n
    BY <1>0, <1>1, <1>6, <1>9 DEF ProducerInv
  <2> QED BY <1>5, <1>6, <1>9, <2>1 DEF Sizes
<1>11. IndexInv(c)' /\ LookInv(c)' /\ \A j \in Int : EntryOf(j)' = EntryOf(j)
  <2>1. e \in Int /\ First(c) \in Nat /\ NextPos(blockIndex) \in 0 .. n - 1
    BY <1>6, <1>9, SameEntry
  <2>2. PICK v \in 0 .. n - 1 : v = NextPos(blockIndex)
    BY <2>1
  <2>3. headers' = [headers EXCEPT ![Len(headers)].tail = v]
    BY <1>1, <2>2
  <2>4. SameEntries
    BY <1>1 DEF SameEntries
  <2> QED BY <1>0, <1>1, <1>2, <1>5, <1>6, <1>9, <1>10, <2>1, <2>2, <2>3, <2>4, TailMoves
<1>12. ProducerInv(c)'
  <2>1. EntryOf(Block)' = EntryOf(Block)
    <3>1. EntryOf(Block)' = EntryOf(e)'
      BY <1>3, <1>6 DEF EntryOf, EntryAt
    <3> QED BY <1>6, <1>11, <3>1
  <2>2. prod.entry = EntryOf(Block) /\ entries[prod.entry].key = Key(Block)
    BY <1>0, <1>1 DEF ProducerInv
  <2> QED BY <1>1, <1>2, <1>3, <1>4, <2>1, <2>2
          DEF ProducerInv, ProducerLabels, Advanced, Key, CounterOf, Modulus
<1>13. ConsumerInv(c)'
  <2>1. EntryOf(First(c))' = EntryOf(First(c))
    <3>1. EntryOf(First(c))' = EntryOf(f)'
      BY <1>3, <1>6 DEF EntryOf, EntryAt
    <3> QED BY <1>6, <1>11, <3>1
  <2> QED BY <1>0, <1>1, <1>3, <2>1, ConsumerFrame
<1>14. QueueTyped'
  <2>1. prod' \in ProducerLocals
    BY <1>0, <1>1 DEF ProducerLocals, ProducerLabels, Advanced
  <2> QED BY <1>0, <1>1, <2>1 DEF QueueTyped, Index, Modulus
<1>15. BlocksInv(c)'
  BY <1>0, <1>1, <1>3, <1>5, BlocksFrame
<1> QED BY <1>7, <1>8, <1>11, <1>12, <1>13, <1>14, <1>15 DEF IPInv

\* While the producer has a place for a block, the entry is vacant.
LEMMA EntryInHand ==
    ASSUME NEW c \in Consumers, IPInv(c), prod.pc \in Advanced
    PROVE  /\ Slot(sent) = 0 /\ Stored = Block /\ Ends = Block + 1
           /\ Block \in Nat /\ First(c) \in Nat /\ First(c) <= Block
           /\ prod.entry = EntryOf(Block) /\ prod.entry \in DOMAIN entries
           /\ entries[prod.entry].key = Key(Block) /\ entries[prod.entry].value \notin Blocks
           /\ \A j \in First(c) .. Block - 1 :
                 EntryOf(j) # prod.entry /\ EntryOf(j) \in DOMAIN entries
<1>0. SpanInv /\ CountInv(c) /\ ProducerInv(c) /\ IndexInv(c)
  BY DEF IPInv
<1>1. Slot(sent) = 0 /\ Stored = Block /\ Ends = Block + 1
  BY <1>0 DEF ProducerInv, Stored, Ends, Advanced
<1>2. PICK b \in Nat, f \in Nat : b = Block /\ f = First(c) /\ f <= b /\ Ends = b + 1 /\ Stored = b
  BY <1>0, <1>1, Places
<1>3. PICK n \in Sizes :
        /\ Capacity(blockIndex) = n
        /\ \A j \in Int : EntryOf(j) \in DOMAIN entries
        /\ \A j, k \in Int : j - k < n /\ k - j < n /\ EntryOf(j) = EntryOf(k) => j = k
  BY <1>0, <1>2, Entries
<1>4. n \in Nat /\ n > 0 /\ b + 1 - f <= n
  BY <1>0, <1>2, <1>3 DEF Sizes, IndexInv
<1>5. prod.entry = EntryOf(b) /\ b \in Int /\ entries[prod.entry].key = Key(b)
  BY <1>0, <1>2 DEF ProducerInv
<1>6. ASSUME NEW j \in f .. b - 1
      PROVE  EntryOf(j) # EntryOf(b) /\ EntryOf(j) \in DOMAIN entries
  <2>1. j \in Int /\ b \in Int /\ j - b < n /\ b - j < n /\ j # b
    BY <1>4
  <2> QED BY <1>3, <2>1
<1>7. entries[prod.entry].value \in Blocks => \E j \in f .. b - 1 : prod.entry = EntryOf(j)
  BY <1>0, <1>2, <1>3, <1>5 DEF IndexInv
<1> QED BY <1>1, <1>2, <1>3, <1>5, <1>6, <1>7

\* The entry that a failing enqueue vacates holds no block.
LEMMA IndexTailRewound ==
    ASSUME NEW c \in Consumers, IPInv(c), RewindBlockIndexTail, Excuse
    PROVE  IPInv(c)'
<1>0. /\ SpanInv /\ CountInv(c) /\ ProducerInv(c) /\ IndexInv(c) /\ QueueTyped /\ LookInv(c)
      /\ ConsumerInv(c) /\ BlocksInv(c) /\ prod \in ProducerLocals
  BY DEF IPInv, QueueTyped
<1>1. /\ UNCHANGED <<tailIndex, headIndex, dequeueOptimisticCount, dequeueOvercommit,
                     elements, completely, free, cons, sent, claimed>>
      /\ prod.pc = "rewind" /\ prod' = [prod EXCEPT !.pc = "idle"]
      /\ entries' = [entries EXCEPT ![prod.entry].value = Null]
  BY DEF RewindBlockIndexTail, PGoto, sharedVars, historyVars, blockVars
<1>2. prod'.pc = "idle" /\ prod'.block = prod.block
  BY <1>0, <1>1 DEF ProducerLocals
<1>3. First(c)' = First(c) /\ Given(c)' = Given(c) /\ Block' = Block
  BY <1>1, SamePlaces
<1>4. Slot(sent) = 0 /\ Stored = Block /\ Ends = Block + 1
  BY <1>0, <1>1 DEF ProducerInv, Stored, Ends, Advanced
<1>5. PICK b \in Nat, f \in Nat : b = Block /\ f = First(c) /\ f <= b /\ Ends = b + 1 /\ Stored = b
  BY <1>0, <1>4, Places
<1>6. Ends' = b /\ Stored' = Stored /\ Taken' = Taken
  BY <1>1, <1>2, <1>3, <1>4, <1>5 DEF Ends, Stored, Advanced, Taken
<1>7. CountInv(c)'
  <2>1. tailIndex' = CounterOf(sent') /\ sent' \in Nat /\ sent' >= sent
    BY <1>0, <1>1 DEF SpanInv, CountInv
  <2> QED BY <1>0, <1>1, <2>1, CountFrame
<1>8. SpanInv'
  BY <1>0, <1>1, <1>2, <1>4 DEF SpanInv
<1>9. PICK n \in Sizes :
        /\ blockIndex \in Headers(n) /\ Capacity(blockIndex) = n
        /\ \A j \in Int : EntryOf(j) \in DOMAIN entries
  BY <1>0, <1>5, Entries
<1>10. n \in Nat /\ n > 0 /\ b + 1 - f <= n
  BY <1>0, <1>5, <1>9 DEF Sizes, IndexInv
<1>11. /\ prod.entry \in DOMAIN entries /\ entries[prod.entry].value \notin Blocks
       /\ prod.entry = EntryOf(Block)
       /\ \A j \in First(c) .. Block - 1 : EntryOf(j) # prod.entry /\ EntryOf(j) \in DOMAIN entries
  <2>1. prod.pc \in Advanced
    BY <1>1 DEF Advanced
  <2> QED BY <2>1, EntryInHand
<1>12. /\ entries' \in Seq(EntryObjects) /\ DOMAIN entries' = DOMAIN entries
       /\ entries'[prod.entry].value \notin Blocks
       /\ \A x \in DOMAIN entries : entries'[x].key = entries[x].key
       /\ \A x \in DOMAIN entries : x # prod.entry => entries'[x] = entries[x]
  <2>1. entries' = WithValue(prod.entry, Null) /\ Null \in Blocks \cup {Null, Garbage}
    BY <1>1 DEF WithValue
  <2>2. Null \notin Blocks
    BY SizesAssumption
  <2> QED BY <1>0, <1>11, <2>1, <2>2, ValueSet
<1>13. IndexInv(c)' /\ LookInv(c)' /\ \A j \in Int : EntryOf(j)' = EntryOf(j)
  <2>1. PICK v \in Int : v = (blockIndex.tail - 1) % n /\ v \in 0 .. n - 1
    <3>1. PICK x \in Int : x = blockIndex.tail - 1
      BY <1>9, HeaderFacts
    <3>2. x % n \in 0 .. n - 1
      BY <1>10, ModDef
    <3> QED BY <1>10, <3>1, <3>2
  <2>2. headers' = [headers EXCEPT ![Len(headers)].tail = v]
    BY <1>9, <2>1 DEF RewindBlockIndexTail, blockIndex
  <2>3. PICK e \in Int : e = Ends /\ Ends' = e - 1 /\ Ends' - First(c) <= n
    BY <1>5, <1>6, <1>10
  <2>4. SameEntries
    BY <1>11, <1>12 DEF SameEntries
  <2> QED BY <1>0, <1>1, <1>2, <1>5, <1>6, <1>9, <2>1, <2>2, <2>3, <2>4, TailMoves
<1>14. ProducerInv(c)'
  BY <1>1, <1>2, <1>4 DEF ProducerInv, ProducerLabels, Advanced
<1>15. ConsumerInv(c)'
  <2>1. EntryOf(First(c))' = EntryOf(First(c))
    <3>1. EntryOf(First(c))' = EntryOf(f)'
      BY <1>3, <1>5 DEF EntryOf, EntryAt
    <3> QED BY <1>5, <1>13, <3>1
  <2>2. cons[c].pc \in {"move"} \cup Clearing => f \in f .. b - 1
    <3>1. cons[c].pc \in {"move"} \cup Clearing => First(c) < Stored
      BY <1>0, Places DEF Looking
    <3> QED BY <1>5, <3>1
  <2>3. f \in f .. b - 1 =>
           (entries[EntryOf(First(c))].value)' = entries[EntryOf(First(c))].value
    BY <1>5, <1>11, <1>12, <2>1
  <2> QED BY <1>0, <1>1, <1>3, <2>1, <2>2, <2>3, ConsumerFrame
<1>16. QueueTyped'
  <2>1. prod' \in ProducerLocals
    BY <1>0, <1>1 DEF ProducerLocals, ProducerLabels, Advanced
  <2> QED BY <1>0, <1>1, <1>12, <2>1 DEF QueueTyped, EntryObjects, Index, Modulus
<1>17. BlocksInv(c)'
  <2>1. Linked' = Linked
    <3>1. \A v : v \in Linked' <=> v \in Blocks /\ \E x \in DOMAIN entries : v = entries'[x].value
      BY <1>12 DEF Linked
    <3>2. \A v : v \in Linked <=> v \in Blocks /\ \E x \in DOMAIN entries : v = entries[x].value
      BY DEF Linked
    <3> QED BY <1>11, <1>12, <3>1, <3>2
  <2> QED BY <1>0, <1>1, <1>3, <1>6, <2>1 DEF BlocksInv
<1> QED BY <1>7, <1>8, <1>13, <1>14, <1>15, <1>16, <1>17 DEF IPInv

LEMMA BlockRequisitioned ==
    ASSUME NEW c \in Consumers, IPInv(c), RequisitionBlock, Excuse
    PROVE  IPInv(c)'
<1>0. /\ SpanInv /\ CountInv(c) /\ ProducerInv(c) /\ IndexInv(c) /\ QueueTyped /\ LookInv(c)
      /\ ConsumerInv(c) /\ BlocksInv(c) /\ prod \in ProducerLocals
  BY DEF IPInv, QueueTyped
<1>1. /\ UNCHANGED <<tailIndex, headIndex, dequeueOptimisticCount, dequeueOvercommit,
                     elements, entries, headers, cons, sent, claimed>>
      /\ prod.pc = "requisition"
  BY DEF RequisitionBlock, sharedVars, historyVars, indexVars
<1>2. PICK b \in free : /\ free' = free \ {b}
                        /\ prod' = [prod EXCEPT !.pc = "store_value", !.block = b]
                        /\ completely' = [completely EXCEPT ![b] = 0]
  BY DEF RequisitionBlock
<1>3. b \in Blocks /\ free \subseteq Blocks
  BY <1>0, <1>2 DEF QueueTyped
<1>4. prod'.pc = "store_value" /\ prod'.entry = prod.entry /\ prod'.block = b
  BY <1>0, <1>2 DEF ProducerLocals
<1>5. First(c)' = First(c) /\ Moved(c)' = Moved(c) /\ Emptied(c)' = Emptied(c)
      /\ Given(c)' = Given(c) /\ Block' = Block
  BY <1>1, SamePlaces
<1>6. prod.pc \in Advanced /\ prod'.pc \in Advanced
  BY <1>1, <1>4 DEF Advanced
<1>7. Slot(sent) = 0 /\ prod.entry = EntryOf(Block) /\ entries[prod.entry].key = Key(Block)
  BY <1>6, EntryInHand
<1>8. Ends' = Ends /\ Stored' = Stored /\ SameBlocks(c)
  BY <1>1, <1>5, <1>6, <1>7 DEF Ends, Stored, SameBlocks
<1>9. CountInv(c)'
  <2>1. tailIndex' = CounterOf(sent') /\ sent' \in Nat /\ sent' >= sent
    BY <1>0, <1>1 DEF SpanInv, CountInv
  <2> QED BY <1>0, <1>1, <2>1, CountFrame
<1>10. SpanInv'
  BY <1>0, <1>1, <1>4 DEF SpanInv
<1>11. blockIndex' = blockIndex /\ \A j : EntryOf(j)' = EntryOf(j)
  BY <1>1, <1>8 DEF EntryOf, EntryAt, Capacity, blockIndex
<1>12. completely \in [Blocks -> 0 .. BLOCK_SIZE] /\ completely'[b] = 0
       /\ \A x \in Blocks : x # b => completely'[x] = completely[x]
  BY <1>0, <1>2, <1>3 DEF QueueTyped
<1>13. IndexInv(c)'
  <2>1. ASSUME NEW j \in First(c) .. Stored - 1
        PROVE  BlockOK(c, j)'
    <3>1. BlockOK(c, j)
      BY <1>0 DEF IndexInv
    <3>2. PICK x \in Blocks : x = entries[EntryOf(j)].value /\ x \notin free
      BY <3>1 DEF BlockOK
    <3>3. x # b /\ x \notin free' /\ completely'[x] = completely[x]
      BY <1>2, <1>12, <3>2
    <3>4. (entries[EntryOf(j)])' = entries[EntryOf(j)]
      BY <1>1, <1>11
    <3> QED BY <1>1, <1>5, <3>1, <3>2, <3>3, <3>4 DEF BlockOK, Key, CounterOf, Modulus
  <2>2. (\A j \in First(c) .. Stored - 1 : BlockOK(c, j))'
    BY <1>5, <1>8, <2>1
  <2>3. (\A x \in DOMAIN headers : HeaderOK(headers[x]))'
    BY <1>0, <1>1 DEF IndexInv, HeaderOK
  <2>4. (\A j, k \in First(c) .. Stored - 1 :
             entries[EntryOf(j)].value = entries[EntryOf(k)].value => j = k)'
    BY <1>0, <1>1, <1>5, <1>8, <1>11 DEF IndexInv
  <2>5. (\A x \in DOMAIN entries : entries[x].value \in Blocks =>
             \E j \in First(c) .. Stored - 1 : x = EntryOf(j))'
    BY <1>0, <1>1, <1>5, <1>8, <1>11 DEF IndexInv
  <2> QED BY <1>0, <1>1, <1>5, <1>8, <1>11, <2>2, <2>3, <2>4, <2>5 DEF IndexInv, Capacity
<1>14. LookInv(c)'
  BY <1>0, <1>1, <1>4, <1>8, LookFrame
<1>15. ConsumerInv(c)'
  <2>1. EntryOf(First(c))' = EntryOf(First(c))
    BY <1>5, <1>11 DEF EntryOf, EntryAt
  <2> QED BY <1>0, <1>1, <1>5, <2>1, ConsumerFrame
<1>16. ProducerInv(c)'
  <2>1. EntryOf(Block)' = EntryOf(Block)
    BY <1>5, <1>11 DEF EntryOf, EntryAt
  <2> QED BY <1>1, <1>4, <1>5, <1>7, <1>12, <2>1
          DEF ProducerInv, ProducerLabels, Advanced, Key, CounterOf, Modulus
<1>17. QueueTyped'
  <2>1. prod' \in ProducerLocals
    BY <1>0, <1>2, <1>3 DEF ProducerLocals, ProducerLabels, Advanced
  <2>2. completely' \in [Blocks -> 0 .. BLOCK_SIZE] /\ free' \subseteq Blocks
    <3>1. 0 \in 0 .. BLOCK_SIZE
      BY ModulusFacts
    <3> QED BY <1>2, <1>3, <1>12, <3>1
  <2> QED BY <1>0, <1>1, <2>1, <2>2 DEF QueueTyped, Index, Modulus
<1>18. BlocksInv(c)'
  <2>1. Taken = {} /\ Taken' = {b}
    BY <1>1, <1>4 DEF Taken
  <2>2. Linked' = Linked
    BY <1>1 DEF Linked
  <2>3. /\ Given(c) \subseteq Blocks /\ Given(c) \cap free = {} /\ Given(c) \cap Linked = {}
        /\ free \cup Linked \cup Given(c) = Blocks /\ free \cap Linked = {}
    <3>1. free \cap Linked = {}
      <4>1. ASSUME NEW x \in DOMAIN entries, entries[x].value \in Blocks
            PROVE  entries[x].value \notin free
        <5>1. PICK j \in First(c) .. Stored - 1 : x = EntryOf(j)
          BY <1>0, <4>1 DEF IndexInv
        <5> QED BY <1>0, <5>1 DEF IndexInv, BlockOK
      <4> QED BY <4>1 DEF Linked
    <3> QED BY <1>0, <2>1, <3>1 DEF BlocksInv
  <2>4. b \notin Given(c) /\ b \notin Linked /\ free = free' \cup {b} /\ b \notin free'
    BY <1>2, <2>3
  <2>5. {b} \cup Given(c) \subseteq Blocks /\ ({b} \cup Given(c)) \cap free' = {}
        /\ {b} \cap Given(c) = {} /\ ({b} \cup Given(c)) \cap Linked = {}
        /\ free' \cup Linked \cup {b} \cup Given(c) = Blocks
    BY <1>3, <2>3, <2>4
  <2> QED BY <1>5, <2>1, <2>2, <2>5 DEF BlocksInv
<1> QED BY <1>9, <1>10, <1>13, <1>14, <1>15, <1>16, <1>17, <1>18 DEF IPInv

LEMMA ValueStored ==
    ASSUME NEW c \in Consumers, IPInv(c), StoreValue, Excuse
    PROVE  IPInv(c)'
<1>0. /\ SpanInv /\ CountInv(c) /\ ProducerInv(c) /\ IndexInv(c) /\ QueueTyped /\ LookInv(c)
      /\ ConsumerInv(c) /\ BlocksInv(c) /\ prod \in ProducerLocals
  BY DEF IPInv, QueueTyped
<1>1. /\ UNCHANGED <<tailIndex, headIndex, dequeueOptimisticCount, dequeueOvercommit,
                     elements, completely, free, headers, cons, sent, claimed>>
      /\ prod.pc = "store_value" /\ prod' = [prod EXCEPT !.pc = "construct"]
      /\ entries' = [entries EXCEPT ![prod.entry].value = prod.block]
  BY DEF StoreValue, PGoto, sharedVars, historyVars, blockVars
<1>2. prod'.pc = "construct" /\ prod'.block = prod.block
  BY <1>0, <1>1 DEF ProducerLocals
<1>3. First(c)' = First(c) /\ Moved(c)' = Moved(c) /\ Emptied(c)' = Emptied(c)
      /\ Given(c)' = Given(c) /\ Block' = Block
  BY <1>1, SamePlaces
<1>4. PICK b \in Nat, f \in Nat, i \in DOMAIN entries :
        /\ b = Block /\ f = First(c) /\ f <= b /\ Ends = b + 1 /\ Stored = b
        /\ Slot(sent) = 0 /\ i = prod.entry /\ i = EntryOf(b) /\ i \in DOMAIN entries
        /\ entries[i].key = Key(b) /\ entries[i].value \notin Blocks
        /\ \A j \in f .. b - 1 : EntryOf(j) # i /\ EntryOf(j) \in DOMAIN entries
  <2>1. prod.pc \in Advanced
    BY <1>1 DEF Advanced
  <2> QED BY <2>1, EntryInHand
<1>5. Ends' = b + 1 /\ Stored' = b + 1 /\ Taken' = {} /\ Taken = {prod.block}
  BY <1>1, <1>2, <1>3, <1>4 DEF Ends, Stored, Advanced, Taken
<1>6. CountInv(c)'
  <2>1. tailIndex' = CounterOf(sent') /\ sent' \in Nat /\ sent' >= sent
    BY <1>0, <1>1 DEF SpanInv, CountInv
  <2> QED BY <1>0, <1>1, <2>1, CountFrame
<1>7. SpanInv'
  BY <1>0, <1>1, <1>2 DEF SpanInv
<1>8. blockIndex' = blockIndex /\ \A j : EntryOf(j)' = EntryOf(j)
  BY <1>1, <1>4, <1>5 DEF EntryOf, EntryAt, Capacity, blockIndex
<1>9. prod.block \in Blocks /\ prod.block \notin free /\ prod.block \notin Linked
      /\ completely[prod.block] = 0
  BY <1>0, <1>1, <1>5 DEF BlocksInv, ProducerInv
<1>10. /\ entries' \in Seq(EntryObjects) /\ DOMAIN entries' = DOMAIN entries
       /\ entries'[i].value = prod.block
       /\ \A x \in DOMAIN entries : entries'[x].key = entries[x].key
       /\ \A x \in DOMAIN entries : x # i => entries'[x] = entries[x]
  <2>1. entries' = WithValue(i, prod.block) /\ prod.block \in Blocks \cup {Null}
    BY <1>1, <1>4, <1>9 DEF WithValue
  <2> QED BY <1>0, <1>4, <2>1, ValueSet
<1>11. QueueTyped'
  <2>1. prod' \in ProducerLocals
    BY <1>0, <1>1 DEF ProducerLocals, ProducerLabels
  <2> QED BY <1>0, <1>1, <1>10, <2>1 DEF QueueTyped, EntryObjects, Index, Modulus
<1>12. ProducerInv(c)'
  <2>1. EntryOf(Block)' = i
    <3>1. EntryOf(Block)' = EntryOf(b)'
      BY <1>3, <1>4 DEF EntryOf, EntryAt
    <3> QED BY <1>4, <1>8, <3>1
  <2> QED BY <1>1, <1>2, <1>4, <1>10, <2>1 DEF ProducerInv, ProducerLabels, Advanced
<1>13. \A j \in f .. b - 1 : entries'[EntryOf(j)'] = entries[EntryOf(j)] /\ EntryOf(j)' = EntryOf(j)
  BY <1>4, <1>8, <1>10
<1>14. \A j \in f .. b : j = b \/ j \in f .. b - 1
  BY <1>4
<1>15. Stored' - 1 = b /\ Stored - 1 = b - 1
  BY <1>4, <1>5
<1>16. BlockOK(c, b)'
  <2>1. EntryOf(b)' = i /\ entries'[i].value = prod.block /\ entries'[i].key = Key(b)
    BY <1>4, <1>8, <1>10
  <2>2. b = f => Emptied(c) - b * BLOCK_SIZE = 0
    <3>1. SUFFICES ASSUME b = f PROVE Emptied(c) - b * BLOCK_SIZE = 0
      OBVIOUS
    <3>2. ~(cons[c].pc \in Looking \cup Clearing)
      <4>1. cons[c].pc \in Looking \cup Clearing => First(c) < Stored
        BY <1>0, Places
      <4> QED BY <1>4, <3>1, <4>1
    <3>3. Emptied(c) = claimed /\ f = claimed \div BLOCK_SIZE
      <4>1. claimed \in Nat /\ claimed - 0 = claimed
        BY <1>0 DEF SpanInv
      <4> QED BY <1>4, <3>2, <4>1 DEF Emptied, First, Clearing
    <3>4. PICK n \in Nat : n = BLOCK_SIZE
      BY ModulusFacts
    <3>5. claimed >= f * n /\ claimed \in Nat
      <4>1. claimed \in Nat
        BY <1>0 DEF SpanInv
      <4>2. ~(claimed < f * BLOCK_SIZE)
        <5>1. f \in Int /\ ~(f < f)
          OBVIOUS
        <5> QED BY <3>3, <4>1, <5>1, BlockOf
      <4> QED BY <3>4, <4>1, <4>2
    <3>6. claimed <= sent /\ sent = b * n + 0
      <4>1. sent = b * n + Slot(sent)
        BY <1>0, <1>4, <3>4, Places
      <4> QED BY <1>0, <1>4, <4>1 DEF SpanInv
    <3>7. PICK x \in Int : x = b * n
      BY <3>4
    <3> QED BY <3>1, <3>3, <3>4, <3>5, <3>6, <3>7
  <2>3. \A s \in 0 .. BLOCK_SIZE - 1 : ~(b * BLOCK_SIZE + s + 1 <= sent)
    <3>1. PICK n \in Nat : n = BLOCK_SIZE
      BY ModulusFacts
    <3>2. PICK x \in Int : x = b * n
      BY <3>1
    <3>3. sent = x
      BY <1>0, <1>4, <3>1, <3>2, Places
    <3> QED BY <3>1, <3>2, <3>3
  <2>4. (entries[EntryOf(b)].value)' = prod.block /\ (entries[EntryOf(b)].key)' = Key(b)
    BY <2>1
  <2>5. Key(b)' = Key(b)
    BY DEF Key, CounterOf, Modulus
  <2> QED BY <1>1, <1>3, <1>4, <1>9, <2>2, <2>3, <2>4, <2>5 DEF BlockOK
<1>17. IndexInv(c)'
  <2>1. ASSUME NEW j \in f .. b
        PROVE  BlockOK(c, j)'
    <3>1. CASE j = b
      BY <1>16, <3>1
    <3>2. CASE j \in f .. b - 1
      <4>1. BlockOK(c, j)
        BY <1>0, <1>4, <3>2 DEF IndexInv
      <4>2. (entries[EntryOf(j)])' = entries[EntryOf(j)] /\ EntryOf(j)' = EntryOf(j)
            /\ entries'[EntryOf(j)] = entries[EntryOf(j)]
        BY <1>13, <3>2
      <4>3. UNCHANGED <<elements, completely, free, sent>> /\ Key(j)' = Key(j)
        BY <1>1 DEF Key, CounterOf, Modulus
      <4> QED BY <1>3, <4>1, <4>2, <4>3 DEF BlockOK
    <3> QED BY <1>14, <3>1, <3>2
  <2>2. (\A j \in First(c) .. Stored - 1 : BlockOK(c, j))'
    BY <1>3, <1>4, <1>15, <2>1
  <2>3. (\A x \in DOMAIN headers : HeaderOK(headers[x]))'
    BY <1>0, <1>1, <1>10 DEF IndexInv, HeaderOK
  <2>4. ASSUME NEW j \in f .. b, NEW k \in f .. b,
               entries'[EntryOf(j)'].value = entries'[EntryOf(k)'].value
        PROVE  j = k
    <3>0. \A x \in f .. b - 1 : entries[EntryOf(x)].value \in Linked
      <4>1. \A x \in f .. b - 1 : BlockOK(c, x)
        BY <1>0, <1>4 DEF IndexInv
      <4> QED BY <1>4, <4>1, SizesAssumption DEF BlockOK, Linked
    <3>1. \A x \in f .. b - 1 : entries'[EntryOf(x)'].value # prod.block
      BY <1>9, <1>13, <3>0
    <3>2. entries'[EntryOf(b)'].value = prod.block
      BY <1>4, <1>8, <1>10
    <3>3. CASE j \in f .. b - 1 /\ k \in f .. b - 1
      BY <1>0, <1>4, <1>13, <2>4, <3>3 DEF IndexInv
    <3> QED BY <1>14, <2>4, <3>1, <3>2, <3>3
  <2>5. (\A j, k \in First(c) .. Stored - 1 :
             entries[EntryOf(j)].value = entries[EntryOf(k)].value => j = k)'
    BY <1>3, <1>4, <1>15, <2>4
  <2>6. ASSUME NEW x \in DOMAIN entries', entries'[x].value \in Blocks
        PROVE  \E j \in f .. b : x = EntryOf(j)'
    <3>1. CASE x = i
      BY <1>4, <1>8, <3>1
    <3>2. CASE x # i
      <4>1. \E j \in f .. b - 1 : x = EntryOf(j)
        BY <1>0, <1>4, <1>10, <2>6, <3>2 DEF IndexInv
      <4> QED BY <1>8, <4>1
    <3> QED BY <3>1, <3>2
  <2>7. (\A x \in DOMAIN entries : entries[x].value \in Blocks =>
             \E j \in First(c) .. Stored - 1 : x = EntryOf(j))'
    BY <1>3, <1>4, <1>15, <2>6
  <2>8. (Ends - First(c) <= Capacity(blockIndex))'
    BY <1>0, <1>3, <1>4, <1>5, <1>8 DEF IndexInv, Capacity
  <2> QED BY <1>0, <1>1, <1>8, <2>2, <2>3, <2>5, <2>7, <2>8 DEF IndexInv
<1>18. LookInv(c)'
  <2>1. ASSUME NEW h, NEW e, Fits(c, h, e)
        PROVE  Fits(c, h, e)'
    BY <1>3, <1>8, <2>1 DEF Fits, Capacity, EntryAt
  <2>2. ASSUME NEW h, NEW pos, NEW e \in f + 1 .. b + 1, Leads(c, h, pos, e)
        PROVE  Leads(c, h, pos, e)'
    <3>1. EntryOf(e - 1) \in DOMAIN entries
      <4>1. e - 1 = b \/ e - 1 \in f .. b - 1
        BY <1>4
      <4> QED BY <1>4, <4>1
    <3>2. EntryOf(First(c))' = EntryOf(First(c))
      BY <1>3, <1>8 DEF EntryOf, EntryAt
    <3> QED BY <1>3, <1>8, <1>10, <2>2, <3>1, <3>2 DEF Leads, Capacity, Key, CounterOf, Modulus
  <2>3. cons[c].pc = "load_pos" => (cons[c].header = Len(headers)
          \/ \E e \in First(c) + 1 .. Stored : Fits(c, headers[cons[c].header], e))'
    <3>1. \A e \in f + 1 .. b : e \in f + 1 .. b + 1
      BY <1>4
    <3> QED BY <1>0, <1>1, <1>3, <1>4, <1>5, <2>1, <3>1 DEF LookInv
  <2>4. cons[c].pc = "load_base" =>
          (\E e \in First(c) + 1 .. Block + 1 :
             /\ Leads(c, headers[cons[c].header], cons[c].pos, e)
             /\ e > Stored => prod.pc # "new_index" /\ cons[c].header = Len(headers))'
    <3>1. \A e \in f + 1 .. b + 1 : ~(e > b + 1)
      BY <1>4
    <3> QED BY <1>0, <1>1, <1>2, <1>3, <1>4, <1>5, <2>2, <3>1 DEF LookInv
  <2> QED BY <1>0, <1>1, <2>3, <2>4 DEF LookInv
<1>19. ConsumerInv(c)'
  <2>1. cons[c].pc \in {"move"} \cup Clearing => f \in f .. b - 1
    <3>1. cons[c].pc \in {"move"} \cup Clearing => First(c) < Stored
      BY <1>0, Places DEF Looking
    <3> QED BY <1>4, <3>1
  <2>2. f \in f .. b - 1 =>
           /\ EntryOf(First(c))' = EntryOf(First(c))
           /\ (entries[EntryOf(First(c))].value)' = entries[EntryOf(First(c))].value
    <3>1. EntryOf(First(c))' = EntryOf(f)'
      BY <1>3, <1>4 DEF EntryOf, EntryAt
    <3> QED BY <1>4, <1>13, <3>1
  <2> QED BY <1>0, <1>1, <1>3, <2>1, <2>2, ConsumerFrame
<1>20. BlocksInv(c)'
  <2>1. Linked' = Linked \cup {prod.block}
    <3>1. \A x \in DOMAIN entries : entries'[x].value = IF x = i THEN prod.block ELSE entries[x].value
      BY <1>10
    <3>2. prod.block \in Blocks
      BY <1>9
    <3>3. \A v : v \in Linked' <=> v \in Blocks /\ \E x \in DOMAIN entries : v = entries'[x].value
      BY <1>10 DEF Linked
    <3>4. \A v : v \in Linked <=> v \in Blocks /\ \E x \in DOMAIN entries : v = entries[x].value
      BY DEF Linked
    <3>5. \A v : v \in Linked' <=> v \in Linked \/ v = prod.block
      BY <1>4, <3>1, <3>2, <3>3, <3>4
    <3> QED BY <3>5
  <2> QED BY <1>0, <1>1, <1>3, <1>5, <1>9, <2>1 DEF BlocksInv
<1> QED BY <1>6, <1>7, <1>11, <1>12, <1>17, <1>18, <1>19, <1>20 DEF IPInv

LEMMA Constructed ==
    ASSUME NEW c \in Consumers, IPInv(c), Construct, Excuse
    PROVE  IPInv(c)'
<1>0. /\ SpanInv /\ CountInv(c) /\ ProducerInv(c) /\ IndexInv(c) /\ QueueTyped /\ LookInv(c)
      /\ ConsumerInv(c) /\ BlocksInv(c) /\ prod \in ProducerLocals
  BY DEF IPInv, QueueTyped
<1>1. /\ UNCHANGED <<headIndex, dequeueOptimisticCount, dequeueOvercommit,
                     completely, free, headers, entries, cons, claimed>>
      /\ prod.pc = "construct" /\ prod' = [prod EXCEPT !.pc = "idle"]
      /\ elements' = [elements EXCEPT ![prod.block][Slot(tailIndex)] = sent + 1]
      /\ tailIndex' = Wrap(tailIndex + 1) /\ sent' = sent + 1
  BY DEF Construct, PGoto, indexVars
<1>2. prod'.pc = "idle" /\ prod'.block = prod.block
  BY <1>0, <1>1 DEF ProducerLocals
<1>3. First(c)' = First(c) /\ Moved(c)' = Moved(c) /\ Emptied(c)' = Emptied(c)
      /\ Given(c)' = Given(c)
  BY <1>1, SamePlaces
<1>4. PICK n \in Nat : n = BLOCK_SIZE /\ n > 1
  BY ModulusFacts
<1>5. PICK b \in Nat, f \in Nat, s \in 0 .. n - 1 :
        /\ b = Block /\ f = First(c) /\ f <= b /\ s = Slot(sent) /\ sent = b * n + s
        /\ cons[c].pc \in Looking \cup Clearing => f < Stored
  BY <1>0, <1>4, Places
<1>6. Ends = b + 1 /\ Stored = b + 1
  BY <1>1, <1>5 DEF Ends, Stored, Advanced
<1>7. sent \in Nat /\ claimed \in Nat /\ sent < MaxElements /\ claimed <= sent
      /\ sent - claimed < Half /\ sent - claimed + (n - s) < Half
      /\ MaxElements \in Nat /\ Half \in Nat
  BY <1>0, <1>1, <1>4, <1>5, SizesAssumption, ModulusFacts DEF SpanInv
<1>8. /\ s = n - 1 => Slot(sent') = 0 /\ Block' = b + 1
      /\ s # n - 1 => Slot(sent') = s + 1 /\ Block' = b
  BY <1>1, <1>4, <1>5, <1>7, NextSlot DEF Block
<1>9. Ends' = b + 1 /\ Stored' = b + 1 /\ Taken' = Taken
  <2>1. Taken' = Taken
    BY <1>1, <1>2 DEF Taken
  <2>2. CASE s = n - 1
    BY <1>2, <1>8, <2>1, <2>2 DEF Ends, Stored, Advanced
  <2>3. CASE s # n - 1
    BY <1>2, <1>5, <1>8, <2>1, <2>3 DEF Ends, Stored, Advanced
  <2> QED BY <2>2, <2>3
<1>10. Slot(tailIndex) = s /\ tailIndex' = CounterOf(sent') /\ tailIndex = CounterOf(sent)
  <2>1. sent \in Int /\ 1 \in Int /\ tailIndex = CounterOf(sent)
    BY <1>0, <1>7 DEF CountInv
  <2> QED BY <1>1, <1>5, <2>1, SlotOf, CounterPlus
<1>11. SpanInv'
  <2>1. sent' \in Nat /\ claimed' \in Nat /\ claimed' <= sent' /\ sent' <= MaxElements
        /\ sent' - claimed' < Half
    BY <1>1, <1>5, <1>7
  <2>2. Slot(sent') # 0 => sent' - claimed' + (n - Slot(sent')) < Half
    BY <1>1, <1>5, <1>7, <1>8
  <2>3. Half' = Half
    BY DEF Half, Modulus
  <2> QED BY <1>2, <1>4, <2>1, <2>2, <2>3 DEF SpanInv, Slot
<1>12. CountInv(c)'
  <2>1. sent' \in Nat /\ sent' >= sent
    BY <1>1, <1>7
  <2> QED BY <1>0, <1>1, <1>10, <2>1, CountFrame
<1>13. blockIndex' = blockIndex /\ \A j : EntryOf(j)' = EntryOf(j)
  BY <1>1, <1>6, <1>9 DEF EntryOf, EntryAt, Capacity, blockIndex
<1>14. prod.block = entries[EntryOf(b)].value /\ b \in f .. b /\ BlockOK(c, b)
       /\ prod.block \in Blocks
  <2>1. prod.block = entries[EntryOf(b)].value
    BY <1>0, <1>1, <1>5 DEF ProducerInv
  <2>2. b \in f .. b
    BY <1>5
  <2>3. BlockOK(c, b)
    BY <1>0, <1>5, <1>6, <2>2 DEF IndexInv
  <2> QED BY <2>1, <2>2, <2>3 DEF BlockOK
<1>15. /\ elements' \in [Blocks -> [0 .. n - 1 -> 0 .. MaxElements]]
       /\ elements'[prod.block][s] = sent + 1
       /\ \A x \in Blocks, y \in 0 .. n - 1 :
             x # prod.block \/ y # s => elements'[x][y] = elements[x][y]
  <2>1. elements \in [Blocks -> [0 .. n - 1 -> 0 .. MaxElements]]
    BY <1>0, <1>4 DEF QueueTyped
  <2>2. sent + 1 \in 0 .. MaxElements
    BY <1>7
  <2>3. elements' = [elements EXCEPT ![prod.block][s] = sent + 1]
    BY <1>1, <1>10
  <2> QED BY <1>5, <1>14, <2>1, <2>2, <2>3
<1>16. ProducerInv(c)'
  <2>1. Slot(sent') # 0 => Block' = b
    BY <1>8
  <2>2. Slot(sent') # 0 => EntryOf(Block)' = EntryOf(b)
    <3>1. Slot(sent') # 0 => EntryOf(Block)' = EntryOf(b)'
      BY <2>1 DEF EntryOf, EntryAt
    <3> QED BY <1>13, <3>1
  <2> QED BY <1>1, <1>2, <1>14, <2>2 DEF ProducerInv, ProducerLabels, Advanced, Slot
<1>17. IndexInv(c)'
  <2>1. ASSUME NEW j \in f .. b
        PROVE  BlockOK(c, j)'
    <3>1. BlockOK(c, j)
      BY <1>0, <1>5, <1>6 DEF IndexInv
    <3>2. PICK x \in Blocks : x = entries[EntryOf(j)].value
      BY <3>1 DEF BlockOK
    <3>3. (entries[EntryOf(j)])' = entries[EntryOf(j)]
      BY <1>1, <1>13
    <3>4. ASSUME NEW y \in 0 .. n - 1, Moved(c) < j * n + y + 1, j * n + y + 1 <= sent + 1
          PROVE  elements'[x][y] = j * n + y + 1
      <4>1. PICK u \in Int, v \in Int : u = j * n /\ v = b * n
        BY <1>4
      <4>2. CASE j = b
        <5>1. x = prod.block
          BY <1>14, <3>2, <4>2
        <5>2. CASE y = s
          BY <1>5, <1>15, <4>1, <4>2, <5>1, <5>2
        <5>3. CASE y # s
          <6>1. j * n + y + 1 <= sent
            BY <1>4, <1>5, <1>7, <3>4, <4>1, <4>2, <5>3
          <6>2. elements[x][y] = j * n + y + 1
            BY <1>4, <3>1, <3>2, <3>4, <6>1 DEF BlockOK
          <6> QED BY <1>15, <5>3, <6>2
        <5> QED BY <5>2, <5>3
      <4>3. CASE j # b
        <5>1. x # prod.block
          BY <1>0, <1>5, <1>6, <1>14, <3>2, <4>3 DEF IndexInv
        <5>2. j * n + y + 1 <= sent
          <6>1. n * (b - j) >= n
            BY <1>4, <4>3, MulMono
          <6>2. v - u >= n
            BY <1>4, <4>1, <6>1
          <6> QED BY <1>4, <1>5, <4>1, <6>2
        <5>3. elements[x][y] = j * n + y + 1
          BY <1>4, <3>1, <3>2, <3>4, <5>2 DEF BlockOK
        <5> QED BY <1>15, <5>1, <5>3
      <4> QED BY <4>2, <4>3
    <3>5. Key(j)' = Key(j)
      BY DEF Key, CounterOf, Modulus
    <3>6. /\ (entries[EntryOf(j)].key)' = Key(j)' /\ x \in Blocks /\ x \notin free'
          /\ completely'[x] = IF j = First(c)' THEN Emptied(c)' - j * BLOCK_SIZE ELSE 0
      BY <1>1, <1>3, <3>1, <3>2, <3>3, <3>5 DEF BlockOK
    <3>7. \A y \in 0 .. BLOCK_SIZE - 1 :
             Moved(c)' < j * BLOCK_SIZE + y + 1 /\ j * BLOCK_SIZE + y + 1 <= sent' =>
                elements'[x][y] = j * BLOCK_SIZE + y + 1
      BY <1>1, <1>3, <1>4, <3>4
    <3>8. (entries[EntryOf(j)].value)' = x
      BY <3>2, <3>3
    <3> QED BY <3>6, <3>7, <3>8 DEF BlockOK
  <2>2. (\A j \in First(c) .. Stored - 1 : BlockOK(c, j))'
    <3>1. Stored' - 1 = b
      BY <1>9
    <3> QED BY <1>3, <1>5, <2>1, <3>1
  <2>3. (\A x \in DOMAIN headers : HeaderOK(headers[x]))'
    BY <1>0, <1>1 DEF IndexInv, HeaderOK
  <2>4. (\A j, k \in First(c) .. Stored - 1 :
             entries[EntryOf(j)].value = entries[EntryOf(k)].value => j = k)'
    BY <1>0, <1>1, <1>3, <1>6, <1>9, <1>13 DEF IndexInv
  <2>5. (\A x \in DOMAIN entries : entries[x].value \in Blocks =>
             \E j \in First(c) .. Stored - 1 : x = EntryOf(j))'
    BY <1>0, <1>1, <1>3, <1>6, <1>9, <1>13 DEF IndexInv
  <2>6. (Ends - First(c) <= Capacity(blockIndex))'
    BY <1>0, <1>3, <1>6, <1>9, <1>13 DEF IndexInv, Capacity
  <2> QED BY <1>0, <1>1, <1>13, <2>2, <2>3, <2>4, <2>5, <2>6 DEF IndexInv
<1>18. EntryOf(First(c))' = EntryOf(First(c))
  BY <1>3, <1>13 DEF EntryOf, EntryAt
<1>19. LookInv(c)'
  <2>1. ASSUME NEW h, NEW e, Fits(c, h, e)
        PROVE  Fits(c, h, e)'
    BY <1>3, <1>13, <2>1 DEF Fits, Capacity, EntryAt
  <2>2. ASSUME NEW h, NEW pos, NEW e, Leads(c, h, pos, e)
        PROVE  Leads(c, h, pos, e)'
    BY <1>1, <1>3, <1>13, <1>18, <2>2 DEF Leads, Capacity, Key, CounterOf, Modulus
  <2>3. \A e \in f + 1 .. b + 1 : e \in f + 1 .. Block' + 1 /\ ~(e > b + 1)
    <3>1. CASE s = n - 1
      BY <1>5, <1>8, <3>1
    <3>2. CASE s # n - 1
      BY <1>5, <1>8, <3>2
    <3> QED BY <3>1, <3>2
  <2>4. cons[c].pc = "load_pos" => (cons[c].header = Len(headers)
          \/ \E e \in First(c) + 1 .. Stored : Fits(c, headers[cons[c].header], e))'
    BY <1>0, <1>1, <1>3, <1>6, <1>9, <2>1 DEF LookInv
  <2>5. cons[c].pc = "load_base" =>
          (\E e \in First(c) + 1 .. Block + 1 :
             /\ Leads(c, headers[cons[c].header], cons[c].pos, e)
             /\ e > Stored => prod.pc # "new_index" /\ cons[c].header = Len(headers))'
    BY <1>0, <1>1, <1>3, <1>5, <1>9, <2>2, <2>3 DEF LookInv
  <2> QED BY <1>0, <1>1, <2>4, <2>5 DEF LookInv
<1>20. ConsumerInv(c)'
  BY <1>0, <1>1, <1>3, <1>18, ConsumerFrame
<1>21. QueueTyped'
  <2>1. prod' \in ProducerLocals
    BY <1>0, <1>1 DEF ProducerLocals, ProducerLabels
  <2> QED BY <1>0, <1>1, <1>4, <1>15, <2>1 DEF QueueTyped, EntryObjects, Index, Modulus
<1>22. BlocksInv(c)'
  BY <1>0, <1>1, <1>3, <1>9, BlocksFrame
<1> QED BY <1>11, <1>12, <1>16, <1>17, <1>19, <1>20, <1>21, <1>22 DEF IPInv

-----------------------------------------------------------------------------
(* The steps of the consumer                                               *)

\* Steps that leave the blocks as they are.
LEMMA CGotoKeeps ==
    ASSUME NEW c \in Consumers, IPInv(c), NEW l \in ConsumerLocals, Goto(c, l),
           UNCHANGED <<entries, headers, elements, completely, free, prod, sent>>,
           First(c)' = First(c), Moved(c)' = Moved(c), Emptied(c)' = Emptied(c),
           Given(c)' = Given(c), claimed' \in Nat, claimed' <= sent, claimed' >= claimed,
           CountInv(c)', LookInv(c)', ConsumerInv(c)'
    PROVE  IPInv(c)'
<1>0. SpanInv /\ ProducerInv(c) /\ QueueTyped /\ IndexInv(c) /\ BlocksInv(c)
  BY DEF IPInv
<1>1. Ends' = Ends /\ Stored' = Stored /\ Taken' = Taken /\ Block' = Block
  BY DEF Ends, Stored, Taken, Block, Slot
<1>2. SameBlocks(c)
  BY <1>1 DEF SameBlocks
<1>3. SpanInv'
  <2>1. PICK h \in Nat, n \in Nat : h = Half /\ n = BLOCK_SIZE
    BY ModulusFacts
  <2>2. PICK s \in Int : s = Slot(sent)
    <3>1. sent \in Int
      BY <1>0 DEF SpanInv
    <3> QED BY <2>1, <3>1, SlotOf
  <2>3. PICK k \in Nat, z \in Nat, m \in Nat :
           /\ k = claimed' /\ z = sent /\ m = claimed /\ m <= z /\ k <= z /\ k >= m
           /\ z - m < h
    BY <1>0, <2>1 DEF SpanInv
  <2>4. k >= m /\ z - m < h
    BY <2>3
  <2>5. z - k < h /\ (z - m + (n - s) < h => z - k + (n - s) < h)
    BY <2>4
  <2>6. sent - claimed' < h
    BY <2>3, <2>5
  <2>7. prod.pc # "idle" \/ s # 0 => sent - claimed' + (n - s) < h
    <3>1. prod.pc # "idle" \/ s # 0 => z - m + (n - s) < h
      BY <1>0, <2>1, <2>2, <2>3 DEF SpanInv
    <3> QED BY <2>3, <2>5, <3>1
  <2>8. Half' = Half /\ Slot(sent') = Slot(sent)
    BY DEF Half, Modulus
  <2> QED BY <1>0, <2>1, <2>2, <2>6, <2>7, <2>8 DEF SpanInv, Slot
<1>4. QueueTyped'
  BY <1>0 DEF QueueTyped, Goto, Index, Modulus
<1>5. IndexInv(c)'
  BY <1>0, <1>2, IndexFrame
<1>6. ProducerInv(c)'
  <2>1. blockIndex' = blockIndex /\ \A j : EntryOf(j)' = EntryOf(j)
    BY <1>1 DEF EntryOf, EntryAt, Capacity, blockIndex
  <2>2. EntryOf(Block)' = EntryOf(Block) /\ Key(Block)' = Key(Block)
    BY <1>1, <2>1 DEF EntryOf, EntryAt, Key, CounterOf, Modulus
  <2> QED BY <1>0, <1>1, <2>1, <2>2 DEF ProducerInv, Slot, Capacity
<1>7. BlocksInv(c)'
  BY <1>0, <1>1, BlocksFrame
<1> QED BY <1>3, <1>4, <1>5, <1>6, <1>7 DEF IPInv

\* Steps of a consumer that asks for an element, or gives it up.
LEMMA AskingKeeps ==
    ASSUME NEW c \in Consumers, IPInv(c), NEW l \in ConsumerLocals, Goto(c, l),
           UNCHANGED <<entries, headers, elements, completely, free, prod, sent, claimed>>,
           cons[c].pc \in Asking \cup {"idle"}, l.pc \in Asking \cup {"idle"}, CountInv(c)'
    PROVE  IPInv(c)'
<1>1. cons'[c] = l
  BY DEF Goto, IPInv, QueueTyped
<1>2. cons[c].pc \notin Looking \cup Clearing \cup {"release"}
      /\ l.pc \notin Looking \cup Clearing \cup {"release"}
  BY DEF Asking, Looking, Clearing
<1>3. First(c)' = First(c) /\ Moved(c)' = Moved(c) /\ Emptied(c)' = Emptied(c)
      /\ Given(c)' = Given(c)
  BY <1>1, <1>2 DEF First, Moved, Emptied, Given, Clearing
<1>4. LookInv(c)' /\ ConsumerInv(c)'
  BY <1>1, <1>2 DEF LookInv, ConsumerInv, Looking, Clearing
<1>5. claimed' \in Nat /\ claimed' <= sent /\ claimed' >= claimed
  BY DEF IPInv, SpanInv
<1> QED BY <1>3, <1>4, <1>5, CGotoKeeps

LEMMA Labels ==
    /\ Asking \subseteq ConsumerLabels /\ Looking \subseteq ConsumerLabels
    /\ Clearing \subseteq ConsumerLabels /\ {"idle", "release"} \subseteq ConsumerLabels
BY DEF ConsumerLabels

LEMMA IdleTyped ==
    /\ IdleCons \in ConsumerLocals
    /\ IdleCons.pc = "idle" /\ IdleCons.ticket = 0 /\ IdleCons.over = 0 /\ IdleCons.tail = 0
BY Labels DEF IdleCons, ConsumerLocals

LEMMA DequeueCalled ==
    ASSUME NEW c \in Consumers, IPInv(c), CallDequeue(c), Excuse
    PROVE  IPInv(c)'
<1>0. SpanInv /\ CountInv(c) /\ cons \in [Consumers -> ConsumerLocals]
  BY DEF IPInv, QueueTyped
<1>1. /\ UNCHANGED <<tailIndex, headIndex, dequeueOptimisticCount, dequeueOvercommit, entries,
                     headers, elements, completely, free, prod, sent, claimed>>
      /\ cons[c].pc = "idle"
  BY DEF CallDequeue, sharedVars, indexVars, blockVars, historyVars
<1>2. PICK l : l = [IdleCons EXCEPT !.pc = "load_over", !.tail = tailIndex]
  OBVIOUS
<1>3. Goto(c, l) /\ cons'[c] = l
  BY <1>0, <1>2 DEF CallDequeue, Goto
<1>4. /\ l \in ConsumerLocals /\ l.pc = "load_over" /\ l.tail = tailIndex
      /\ l.over = 0 /\ l.ticket = 0
  <2>1. tailIndex \in Nat
    <3>1. sent \in Int /\ tailIndex = CounterOf(sent)
      BY <1>0 DEF SpanInv, CountInv
    <3> QED BY <3>1, SlotOf, ModulusFacts DEF Index
  <2>2. "load_over" \in ConsumerLabels
    BY Labels DEF Asking
  <2>3. PICK k \in ConsumerLocals : k = IdleCons /\ k.over = 0 /\ k.ticket = 0
    BY IdleTyped
  <2>4. l = [k EXCEPT !.pc = "load_over", !.tail = tailIndex]
    BY <1>2, <2>3
  <2> QED BY <2>1, <2>2, <2>3, <2>4 DEF ConsumerLocals
<1>5. CountInv(c)'
  <2>1. sent \in claimed .. sent /\ tailIndex = CounterOf(sent) /\ CounterOf(sent)' = CounterOf(sent)
    BY <1>0, <1>1 DEF SpanInv, CountInv, CounterOf, Modulus
  <2>2. sent' = claimed' => excused'[c]
    BY <1>3, <1>4 DEF Excuse, Inside
  <2>3. (\E n \in claimed .. sent : cons[c].tail = CounterOf(n) /\ (n = claimed => excused[c]))'
    BY <1>1, <1>3, <1>4, <2>1, <2>2 DEF CounterOf, Modulus
  <2> QED BY <1>0, <1>1, <1>3, <1>4, <2>3 DEF CountInv, Asking, CounterOf, Modulus
<1> QED BY <1>1, <1>3, <1>5, <1>4, AskingKeeps DEF Asking

LEMMA OvercommitLoaded ==
    ASSUME NEW c \in Consumers, IPInv(c), LoadOvercommit(c), Excuse
    PROVE  IPInv(c)'
<1>0. SpanInv /\ CountInv(c) /\ cons \in [Consumers -> ConsumerLocals]
  BY DEF IPInv, QueueTyped
<1>1. /\ UNCHANGED <<tailIndex, headIndex, dequeueOptimisticCount, dequeueOvercommit, entries,
                     headers, elements, completely, free, prod, sent, claimed>>
      /\ cons[c].pc = "load_over" /\ dequeueOvercommit = 0
  BY <1>0 DEF LoadOvercommit, sharedVars, indexVars, blockVars, historyVars, CountInv
<1>2. PICK k \in ConsumerLocals : k = cons[c] /\ k.pc = "load_over"
  BY <1>0, <1>1
<1>3. PICK l : l = [k EXCEPT !.pc = "look", !.over = dequeueOvercommit]
  OBVIOUS
<1>4. /\ l \in ConsumerLocals /\ l.pc = "look" /\ l.over = 0
      /\ l.tail = k.tail /\ l.ticket = k.ticket
  <2>1. "look" \in ConsumerLabels
    BY Labels DEF Asking
  <2> QED BY <1>1, <1>3, <2>1 DEF ConsumerLocals
<1>5. Goto(c, l) /\ cons'[c] = l
  BY <1>0, <1>2, <1>3 DEF LoadOvercommit, Goto
<1>6. CountInv(c)'
  <2>1. PICK n \in claimed .. sent : k.tail = CounterOf(n) /\ (n = claimed => excused[c])
    BY <1>0, <1>2 DEF CountInv
  <2>2. excused[c] => excused'[c]
    BY <1>1, <1>4, <1>5 DEF Excuse, Inside
  <2>3. (\E m \in claimed .. sent : cons[c].tail = CounterOf(m) /\ (m = claimed => excused[c]))'
    BY <1>1, <1>4, <1>5, <2>1, <2>2 DEF CounterOf, Modulus
  <2> QED BY <1>0, <1>1, <1>2, <1>4, <1>5, <2>3 DEF CountInv, Asking, CounterOf, Modulus
<1> QED BY <1>1, <1>4, <1>5, <1>6, AskingKeeps DEF Asking

\* With nobody else counted in, the look tells whether there is an element.
LEMMA LookTells ==
    ASSUME NEW n \in Nat, NEW k \in Nat, k <= n, n - k < Half
    PROVE  circular_less_than(Wrap(CounterOf(k) - 0), CounterOf(n)) <=> k < n
<1>1. Wrap(CounterOf(k) - 0) = CounterOf(k)
  <2>1. CounterOf(k) \in Int /\ 0 \in Int /\ k \in Int /\ k - 0 = k
    BY SlotOf, ModulusFacts DEF Index
  <2>2. Wrap(CounterOf(k) - 0) = CounterOf(k - 0)
    BY <2>1, CounterPlus
  <2> QED BY <2>1, <2>2
<1>2. n - k < Modulus
  <2>1. PICK m \in Nat, h \in Nat : m = Modulus /\ h = Half /\ h <= m
    BY ModulusFacts
  <2> QED BY <2>1
<1> QED BY <1>1, <1>2, CircularLess

LEMMA Looked ==
    ASSUME NEW c \in Consumers, IPInv(c), Look(c), Excuse
    PROVE  IPInv(c)' /\ (cons'[c].pc = "idle" => excused[c])
<1>0. SpanInv /\ CountInv(c) /\ cons \in [Consumers -> ConsumerLocals]
  BY DEF IPInv, QueueTyped
<1>1. /\ UNCHANGED <<tailIndex, headIndex, dequeueOptimisticCount, dequeueOvercommit, entries,
                     headers, elements, completely, free, prod, sent, claimed>>
      /\ cons[c].pc = "look"
  BY DEF Look, sharedVars, indexVars, blockVars, historyVars
<1>2. PICK k \in ConsumerLocals : k = cons[c] /\ k.pc = "look" /\ k.over = 0
  BY <1>0, <1>1 DEF CountInv, Asking
<1>3. PICK n \in claimed .. sent : k.tail = CounterOf(n) /\ (n = claimed => excused[c])
  BY <1>0, <1>2 DEF CountInv
<1>4. sent \in Nat /\ claimed \in Nat /\ n \in Nat /\ n - claimed < Half /\ claimed <= n /\ n <= sent
  <2>1. sent \in Nat /\ claimed \in Nat /\ sent - claimed < Half /\ Half \in Nat
    BY <1>0, ModulusFacts DEF SpanInv
  <2> QED BY <2>1
<1>5. dequeueOptimisticCount = CounterOf(claimed)
  <2>1. claimed + 0 = claimed
    BY <1>4
  <2> QED BY <1>0, <1>1, <2>1 DEF CountInv
<1>6. circular_less_than(Wrap(dequeueOptimisticCount - cons[c].over), cons[c].tail) <=> claimed < n
  BY <1>2, <1>3, <1>4, <1>5, LookTells
<1>7. CASE claimed < n
  <2>1. PICK l : l = [k EXCEPT !.pc = "count", !.tail = 0]
    OBVIOUS
  <2>2. l \in ConsumerLocals /\ l.pc = "count" /\ l.over = 0 /\ l.ticket = k.ticket
    <3>1. "count" \in ConsumerLabels
      BY Labels DEF Asking
    <3> QED BY <1>2, <2>1, <3>1 DEF ConsumerLocals
  <2>3. Goto(c, l) /\ cons'[c] = l
    BY <1>0, <1>2, <1>6, <1>7, <2>1 DEF Look, Goto
  <2>4. CountInv(c)'
    <3>1. claimed < sent
      BY <1>4, <1>7
    <3> QED BY <1>0, <1>1, <1>2, <2>2, <2>3, <3>1 DEF CountInv, Asking, CounterOf, Modulus
  <2>5. IPInv(c)'
    BY <1>1, <2>2, <2>3, <2>4, AskingKeeps DEF Asking
  <2> QED BY <2>2, <2>3, <2>5
<1>8. CASE ~(claimed < n)
  <2>1. Goto(c, IdleCons) /\ cons'[c] = IdleCons
    BY <1>0, <1>6, <1>8 DEF Look, Goto, CReturn
  <2>2. CountInv(c)'
    BY <1>0, <1>1, <2>1, IdleTyped DEF CountInv, Asking, CounterOf, Modulus
  <2>3. IPInv(c)'
    BY <1>1, <2>1, <2>2, IdleTyped, AskingKeeps DEF Asking
  <2>4. n = claimed
    BY <1>4, <1>8
  <2> QED BY <1>3, <2>3, <2>4
<1> QED BY <1>7, <1>8

LEMMA CountedIn ==
    ASSUME NEW c \in Consumers, IPInv(c), CountIn(c), Excuse
    PROVE  IPInv(c)'
<1>0. SpanInv /\ CountInv(c) /\ cons \in [Consumers -> ConsumerLocals]
  BY DEF IPInv, QueueTyped
<1>1. /\ UNCHANGED <<tailIndex, headIndex, dequeueOvercommit, entries,
                     headers, elements, completely, free, prod, sent, claimed>>
      /\ cons[c].pc = "count"
      /\ dequeueOptimisticCount' = Wrap(dequeueOptimisticCount + 1)
  BY DEF CountIn, indexVars, blockVars, historyVars
<1>2. PICK k \in ConsumerLocals : k = cons[c] /\ k.pc = "count" /\ k.over = 0
  BY <1>0, <1>1 DEF CountInv, Asking
<1>3. claimed \in Nat /\ claimed < sent
  BY <1>0, <1>1 DEF CountInv, SpanInv
<1>4. dequeueOptimisticCount = CounterOf(claimed)
  <2>1. claimed + 0 = claimed
    BY <1>3
  <2> QED BY <1>0, <1>1, <2>1 DEF CountInv
<1>5. dequeueOptimisticCount' = CounterOf(claimed + 1) /\ CounterOf(claimed) \in Nat
  <2>1. claimed \in Int /\ 1 \in Int
    BY <1>3
  <2> QED BY <1>1, <1>4, <2>1, SlotOf, CounterPlus, ModulusFacts DEF Index
<1>6. PICK l : l = [k EXCEPT !.pc = "reload_tail", !.my = dequeueOptimisticCount]
  OBVIOUS
<1>7. /\ l \in ConsumerLocals /\ l.pc = "reload_tail" /\ l.over = 0
      /\ l.ticket = k.ticket /\ l.my = CounterOf(claimed)
  <2>1. "reload_tail" \in ConsumerLabels /\ dequeueOptimisticCount \in Nat
    BY <1>4, <1>5, Labels DEF Asking
  <2>2. /\ l \in ConsumerLocals /\ l.pc = "reload_tail" /\ l.over = 0
        /\ l.ticket = k.ticket /\ l.my = dequeueOptimisticCount
    BY <1>2, <1>6, <2>1 DEF ConsumerLocals
  <2> QED BY <1>4, <2>2
<1>8. Goto(c, l) /\ cons'[c] = l
  BY <1>0, <1>2, <1>6 DEF CountIn, Goto
<1>9. CountInv(c)'
  BY <1>0, <1>1, <1>2, <1>3, <1>5, <1>7, <1>8 DEF CountInv, Asking, CounterOf, Modulus
<1> QED BY <1>1, <1>7, <1>8, <1>9, AskingKeeps DEF Asking

\* A single consumer is never turned away.
LEMMA TailReloaded ==
    ASSUME NEW c \in Consumers, IPInv(c), ReloadTail(c), Excuse
    PROVE  IPInv(c)' /\ cons'[c].pc = "claim"
<1>0. SpanInv /\ CountInv(c) /\ cons \in [Consumers -> ConsumerLocals]
  BY DEF IPInv, QueueTyped
<1>1. /\ UNCHANGED <<tailIndex, headIndex, dequeueOptimisticCount, dequeueOvercommit, entries,
                     headers, elements, completely, free, prod, sent, claimed>>
      /\ cons[c].pc = "reload_tail"
  BY DEF ReloadTail, sharedVars, indexVars, blockVars, historyVars
<1>2. cons[c].over = 0 /\ cons[c].my = CounterOf(claimed) /\ tailIndex = CounterOf(sent)
      /\ claimed < sent /\ claimed \in Nat /\ sent \in Nat /\ sent - claimed < Half
  BY <1>0, <1>1 DEF CountInv, Asking, SpanInv
<1>3. circular_less_than(Wrap(cons[c].my - cons[c].over), tailIndex)
  BY <1>2, LookTells
<1>4. PICK l : l = [IdleCons EXCEPT !.pc = "claim"]
  OBVIOUS
<1>5. l \in ConsumerLocals /\ l.pc = "claim" /\ l.over = 0 /\ l.ticket = 0
  <2>1. "claim" \in ConsumerLabels
    BY Labels DEF Asking
  <2>2. PICK k \in ConsumerLocals : k = IdleCons /\ k.over = 0 /\ k.ticket = 0
    BY IdleTyped
  <2>3. l = [k EXCEPT !.pc = "claim"]
    BY <1>4, <2>2
  <2> QED BY <2>1, <2>2, <2>3 DEF ConsumerLocals
<1>6. Goto(c, l) /\ cons'[c] = l
  BY <1>0, <1>3, <1>4 DEF ReloadTail, Goto
<1>7. CountInv(c)'
  BY <1>0, <1>1, <1>2, <1>5, <1>6 DEF CountInv, Asking, CounterOf, Modulus
<1>8. IPInv(c)'
  BY <1>1, <1>5, <1>6, <1>7, AskingKeeps DEF Asking
<1> QED BY <1>5, <1>6, <1>8

LEMMA Claimed ==
    ASSUME NEW c \in Consumers, IPInv(c), Claim(c)
    PROVE  IPInv(c)'
<1>0. SpanInv /\ CountInv(c) /\ cons \in [Consumers -> ConsumerLocals]
  BY DEF IPInv, QueueTyped
<1>1. /\ UNCHANGED <<tailIndex, dequeueOptimisticCount, dequeueOvercommit, entries,
                     headers, elements, completely, free, prod, sent>>
      /\ cons[c].pc = "claim"
      /\ headIndex' = Wrap(headIndex + 1) /\ claimed' = claimed + 1
  BY DEF Claim, indexVars, blockVars
<1>2. claimed \in Nat /\ claimed < sent /\ sent \in Nat
  BY <1>0, <1>1 DEF CountInv, SpanInv
<1>3. claimed' \in Nat /\ claimed' <= sent /\ claimed' >= claimed /\ claimed' > 0
      /\ claimed' - 1 = claimed /\ claimed - 0 = claimed /\ claimed' + 0 = claimed + 1
  BY <1>1, <1>2
<1>4. headIndex' = CounterOf(claimed + 1) /\ CounterOf(claimed) \in Nat
  <2>1. claimed \in Int /\ 1 \in Int /\ headIndex = CounterOf(claimed)
    BY <1>0, <1>2 DEF CountInv
  <2> QED BY <1>1, <2>1, SlotOf, CounterPlus, ModulusFacts DEF Index
<1>5. PICK k \in ConsumerLocals : k = cons[c] /\ k.pc = "claim"
  BY <1>0, <1>1
<1>6. PICK l : l = [k EXCEPT !.pc = "load_index", !.index = headIndex, !.ticket = claimed + 1]
  OBVIOUS
<1>7. /\ l \in ConsumerLocals /\ l.pc = "load_index"
      /\ l.index = CounterOf(claimed) /\ l.ticket = claimed'
  <2>1. "load_index" \in ConsumerLabels /\ headIndex = CounterOf(claimed) /\ headIndex \in Nat
        /\ claimed + 1 \in Nat
    BY <1>0, <1>2, <1>4, Labels DEF Looking, CountInv
  <2>2. /\ l \in ConsumerLocals /\ l.pc = "load_index"
        /\ l.index = headIndex /\ l.ticket = claimed + 1
    BY <1>6, <2>1 DEF ConsumerLocals
  <2> QED BY <1>1, <2>1, <2>2
<1>8. Goto(c, l) /\ cons'[c] = l
  BY <1>0, <1>5, <1>6 DEF Claim, Goto
<1>9. First(c)' = First(c) /\ Moved(c)' = Moved(c) /\ Emptied(c)' = Emptied(c)
      /\ Given(c)' = Given(c)
  BY <1>1, <1>3, <1>7, <1>8 DEF First, Moved, Emptied, Given, Looking, Clearing
<1>10. CountInv(c)'
  <2>1. dequeueOptimisticCount = CounterOf(claimed + 1)
    BY <1>0, <1>1 DEF CountInv
  <2>2. (dequeueOptimisticCount =
          CounterOf(claimed + (IF cons[c].pc \in {"reload_tail", "claim"} THEN 1 ELSE 0)))'
    BY <1>1, <1>3, <1>7, <1>8, <2>1 DEF CounterOf, Modulus
  <2>3. (tailIndex = CounterOf(sent) /\ headIndex = CounterOf(claimed))'
    BY <1>0, <1>1, <1>4 DEF CountInv, CounterOf, Modulus
  <2> QED BY <1>0, <1>1, <1>3, <1>7, <1>8, <2>2, <2>3 DEF CountInv, Asking
<1>11. LookInv(c)' /\ ConsumerInv(c)'
  BY <1>3, <1>7, <1>8 DEF LookInv, ConsumerInv, Looking, Clearing, CounterOf, Modulus
<1> QED BY <1>1, <1>3, <1>7, <1>8, <1>9, <1>10, <1>11, CGotoKeeps

\* Steps of a consumer that has been promised an element and looks for its block.
LEMMA LookingKeeps ==
    ASSUME NEW c \in Consumers, IPInv(c), NEW l \in ConsumerLocals, Goto(c, l),
           UNCHANGED <<tailIndex, headIndex, dequeueOptimisticCount, dequeueOvercommit, entries,
                       headers, elements, completely, free, prod, sent, claimed>>,
           cons[c].pc \in Looking, l.pc \in Looking, l.ticket = cons[c].ticket,
           l.index = cons[c].index, LookInv(c)',
           l.pc = "move" => l.entry = EntryOf(First(c))
    PROVE  IPInv(c)'
<1>0. SpanInv /\ CountInv(c) /\ ConsumerInv(c)
  BY DEF IPInv
<1>1. cons'[c] = l
  BY DEF Goto, IPInv, QueueTyped
<1>2. First(c)' = First(c) /\ Moved(c)' = Moved(c) /\ Emptied(c)' = Emptied(c)
      /\ Given(c)' = Given(c)
  BY <1>1 DEF First, Moved, Emptied, Given, Looking
<1>3. claimed' \in Nat /\ claimed' <= sent /\ claimed' >= claimed
  BY <1>0 DEF SpanInv
<1>4. CountInv(c)'
  BY <1>0, <1>1 DEF CountInv, Asking, Looking, CounterOf, Modulus
<1>5. EntryOf(First(c))' = EntryOf(First(c))
  <2>1. Ends' = Ends /\ blockIndex' = blockIndex
    BY DEF Ends, Block, Slot, blockIndex
  <2> QED BY <1>2, <2>1 DEF EntryOf, EntryAt, Capacity
<1>6. ConsumerInv(c)'
  BY <1>0, <1>1, <1>5 DEF ConsumerInv, Looking, Clearing, CounterOf, Modulus
<1> QED BY <1>2, <1>3, <1>4, <1>6, CGotoKeeps

LEMMA BlockIndexLoaded ==
    ASSUME NEW c \in Consumers, IPInv(c), LoadBlockIndex(c)
    PROVE  IPInv(c)'
<1>0. IndexInv(c) /\ cons \in [Consumers -> ConsumerLocals]
  BY DEF IPInv, QueueTyped
<1>1. /\ UNCHANGED <<tailIndex, headIndex, dequeueOptimisticCount, dequeueOvercommit, entries,
                     headers, elements, completely, free, prod, sent, claimed>>
      /\ cons[c].pc = "load_index"
  BY DEF LoadBlockIndex, sharedVars, indexVars, blockVars, historyVars
<1>2. Len(headers) \in DOMAIN headers /\ Len(headers) \in Nat
  BY <1>0, LenProperties, EmptySeq DEF IndexInv
<1>3. PICK k \in ConsumerLocals : k = cons[c] /\ k.pc = "load_index"
  BY <1>0, <1>1
<1>4. PICK l : l = [k EXCEPT !.pc = "load_pos", !.header = Len(headers)]
  OBVIOUS
<1>5. /\ l \in ConsumerLocals /\ l.pc = "load_pos" /\ l.header = Len(headers)
      /\ l.ticket = k.ticket /\ l.index = k.index
  <2>1. "load_pos" \in ConsumerLabels
    BY Labels DEF Looking
  <2> QED BY <1>2, <1>4, <2>1 DEF ConsumerLocals
<1>6. Goto(c, l) /\ cons'[c] = l
  BY <1>0, <1>3, <1>4 DEF LoadBlockIndex, Goto
<1>7. LookInv(c)'
  BY <1>1, <1>2, <1>5, <1>6 DEF LookInv
<1> QED BY <1>1, <1>3, <1>5, <1>6, <1>7, LookingKeeps DEF Looking

\* The tail of a header the consumer loaded leads to the oldest block.
LEMMA TailLeads ==
    ASSUME NEW c \in Consumers, IPInv(c), cons[c].pc = "load_pos"
    PROVE  \E e \in First(c) + 1 .. Block + 1 :
              /\ Leads(c, headers[cons[c].header], headers[cons[c].header].tail, e)
              /\ e > Stored => prod.pc # "new_index" /\ cons[c].header = Len(headers)
<1>0. SpanInv /\ CountInv(c) /\ ProducerInv(c) /\ IndexInv(c) /\ LookInv(c)
  BY DEF IPInv
<1>1. PICK f \in Nat, b \in Nat, d \in Nat, t \in Nat, m \in Nat :
        /\ f = First(c) /\ b = Block /\ d = Ends /\ t = Stored /\ m = Modulus \div 2
        /\ f < t /\ t <= d /\ d <= t + 1 /\ d <= b + 1 /\ b <= d
  BY <1>0, Places, ModulusFacts DEF Looking
<1>2. (d - 1 - f) * BLOCK_SIZE <= m
  BY <1>0, <1>1, Places
<1>3. \A j \in f .. t - 1 : BlockOK(c, j)
  BY <1>0, <1>1 DEF IndexInv
<1>4. PICK h : h = headers[cons[c].header] /\ HeaderOK(h)
  BY <1>0 DEF LookInv, IndexInv
<1>5. PICK n \in Sizes : h \in Headers(n)
  BY <1>4 DEF HeaderOK
<1>6. /\ Capacity(h) = n /\ DOMAIN h.index = 0 .. n - 1 /\ n \in Nat /\ n > 0
      /\ h.tail \in 0 .. n - 1 /\ h.tail \in Int
  BY <1>5, HeaderFacts
<1>7. \A e \in Int : /\ EntryAt(h, e, e - 1) = h.index[h.tail]
                     /\ EntryAt(h, e, f) = h.index[(h.tail + 1 + f - e) % n]
  <2>1. f \in Int
    BY <1>1
  <2> QED BY <1>5, <2>1, SameEntry
<1>8. /\ f \in Int /\ b \in Int /\ d \in Int /\ t \in Int
      /\ f < t /\ t <= d /\ d <= t + 1 /\ d <= b + 1
  BY <1>1
<1>9. CASE cons[c].header = Len(headers)
  <2>1. h = blockIndex
    BY <1>4, <1>9 DEF blockIndex
  <2>2. d \in Int /\ d \in f + 1 .. b + 1
    BY <1>8
  <2>3. h.index[h.tail] = EntryOf(d - 1)
        /\ h.index[(h.tail + 1 + f - d) % n] = EntryOf(f)
    BY <1>1, <1>7, <2>1, <2>2 DEF EntryOf
  <2>4. entries[EntryOf(d - 1)].key = Key(d - 1)
    <3>1. CASE d = t
      <4>1. d - 1 \in f .. t - 1
        BY <1>8, <3>1
      <4> QED BY <1>3, <4>1 DEF BlockOK
    <3>2. CASE d # t
      <4>1. prod.pc \in Advanced
        BY <1>1, <3>2 DEF Stored
      <4>2. t = b /\ d - 1 = b
        BY <1>1, <3>2, <4>1 DEF Stored
      <4> QED BY <1>0, <1>1, <4>1, <4>2 DEF ProducerInv
    <3> QED BY <3>1, <3>2
  <2>5. d > t => prod.pc # "new_index"
    <3>1. d > t => prod.pc \in Advanced
      BY <1>1 DEF Stored
    <3> QED BY <3>1 DEF Advanced
  <2>6. Leads(c, h, h.tail, d)
    BY <1>1, <1>6, <1>2, <2>3, <2>4 DEF Leads
  <2> QED BY <1>1, <1>4, <1>9, <2>2, <2>5, <2>6
<1>10. CASE cons[c].header # Len(headers)
  <2>1. PICK e \in f + 1 .. t : Fits(c, h, e)
    BY <1>0, <1>1, <1>4, <1>10 DEF LookInv
  <2>2. e \in Int /\ e - 1 \in f .. t - 1 /\ e - 1 \in f .. e - 1 /\ f \in f .. e - 1
        /\ e \in f + 1 .. b + 1 /\ ~(e > t)
    BY <1>8
  <2>3. h.index[h.tail] = EntryOf(e - 1) /\ h.index[(h.tail + 1 + f - e) % n] = EntryOf(f)
    BY <1>1, <1>7, <2>1, <2>2 DEF Fits
  <2>4. entries[EntryOf(e - 1)].key = Key(e - 1)
    BY <1>3, <2>2 DEF BlockOK
  <2>5. (e - 1 - f) * BLOCK_SIZE <= m
    <3>1. PICK z \in Nat : z = BLOCK_SIZE /\ z > 0
      BY ModulusFacts
    <3>2. CASE e = d
      BY <1>2, <3>2
    <3>3. CASE e # d
      <4>1. d - e \in Int /\ d - e > 0
        BY <1>8, <3>3
      <4>2. z * (d - e) >= z
        BY <3>1, <4>1, MulMono
      <4>3. PICK x \in Int, y \in Int, w \in Int : x = z * d /\ y = z * e /\ w = z * f
        BY <1>1, <3>1
      <4>4. x - y >= z
        BY <1>1, <3>1, <4>2, <4>3
      <4>5. x - z - w <= m
        BY <1>1, <1>2, <3>1, <4>3
      <4>6. (e - 1 - f) * z = y - z - w
        BY <1>1, <3>1, <4>3
      <4> QED BY <3>1, <4>4, <4>5, <4>6
    <3> QED BY <3>2, <3>3
  <2>6. Leads(c, h, h.tail, e)
    BY <1>1, <1>6, <2>3, <2>4, <2>5 DEF Leads
  <2> QED BY <1>1, <1>4, <2>2, <2>6
<1> QED BY <1>9, <1>10

LEMMA PosLoaded ==
    ASSUME NEW c \in Consumers, IPInv(c), LoadPos(c)
    PROVE  IPInv(c)'
<1>0. IndexInv(c) /\ LookInv(c) /\ cons \in [Consumers -> ConsumerLocals]
  BY DEF IPInv, QueueTyped
<1>1. /\ UNCHANGED <<tailIndex, headIndex, dequeueOptimisticCount, dequeueOvercommit, entries,
                     headers, elements, completely, free, prod, sent, claimed>>
      /\ cons[c].pc = "load_pos"
  BY DEF LoadPos, sharedVars, indexVars, blockVars, historyVars
<1>2. PICK p : p = headers[cons[c].header].tail
  OBVIOUS
<1>3. p \in Nat /\ cons[c].header \in DOMAIN headers
  <2>1. PICK h : h = headers[cons[c].header] /\ HeaderOK(h)
    BY <1>0, <1>1 DEF LookInv, IndexInv
  <2>2. PICK n \in Sizes : h \in Headers(n)
    BY <2>1 DEF HeaderOK
  <2>3. h.tail \in 0 .. n - 1
    BY <2>2, HeaderFacts
  <2> QED BY <1>0, <1>1, <1>2, <2>1, <2>3 DEF LookInv
<1>4. PICK k \in ConsumerLocals : k = cons[c] /\ k.pc = "load_pos"
  BY <1>0, <1>1
<1>5. PICK l : l = [k EXCEPT !.pc = "load_base", !.pos = p]
  OBVIOUS
<1>6. /\ l \in ConsumerLocals /\ l.pc = "load_base" /\ l.pos = p
      /\ l.ticket = k.ticket /\ l.index = k.index /\ l.header = k.header
  <2>1. "load_base" \in ConsumerLabels
    BY Labels DEF Looking
  <2> QED BY <1>3, <1>5, <2>1 DEF ConsumerLocals
<1>7. Goto(c, l) /\ cons'[c] = l
  BY <1>0, <1>2, <1>4, <1>5 DEF LoadPos, Goto
<1>8. LookInv(c)'
  <2>1. PICK e \in First(c) + 1 .. Block + 1 :
          /\ Leads(c, headers[k.header], p, e)
          /\ e > Stored => prod.pc # "new_index" /\ k.header = Len(headers)
    BY <1>1, <1>2, <1>4, TailLeads
  <2>2. /\ First(c)' = First(c) /\ Block' = Block /\ Stored' = Stored /\ Ends' = Ends
        /\ blockIndex' = blockIndex
    BY <1>1, <1>4, <1>6, <1>7
       DEF First, Block, Stored, Ends, Slot, Looking, Clearing, blockIndex
  <2>3. \A j : EntryOf(j)' = EntryOf(j)
    BY <2>2 DEF EntryOf, EntryAt, Capacity
  <2>4. EntryOf(First(c))' = EntryOf(First(c))
    BY <2>2 DEF EntryOf, EntryAt, Capacity
  <2>5. Leads(c, headers[k.header], p, e)'
    BY <1>1, <2>1, <2>2, <2>3, <2>4 DEF Leads, Capacity, Key, CounterOf, Modulus
  <2>6. (\E x \in First(c) + 1 .. Block + 1 :
             /\ Leads(c, headers[cons[c].header], cons[c].pos, x)
             /\ x > Stored => prod.pc # "new_index" /\ cons[c].header = Len(headers))'
    BY <1>1, <1>6, <1>7, <2>1, <2>2, <2>5
  <2> QED BY <1>1, <1>3, <1>4, <1>6, <1>7, <2>6 DEF LookInv
<1> QED BY <1>1, <1>4, <1>6, <1>7, <1>8, LookingKeeps DEF Looking

\* The distance of the keys leads from the tail's entry to the oldest block's.
LEMMA BaseLoaded ==
    ASSUME NEW c \in Consumers, IPInv(c), LoadBase(c)
    PROVE  IPInv(c)'
<1>0. SpanInv /\ CountInv(c) /\ IndexInv(c) /\ LookInv(c) /\ ConsumerInv(c)
      /\ cons \in [Consumers -> ConsumerLocals]
  BY DEF IPInv, QueueTyped
<1>1. /\ UNCHANGED <<tailIndex, headIndex, dequeueOptimisticCount, dequeueOvercommit, entries,
                     headers, elements, completely, free, prod, sent, claimed>>
      /\ cons[c].pc = "load_base"
  BY DEF LoadBase, sharedVars, indexVars, blockVars, historyVars
<1>2. PICK k \in ConsumerLocals :
        /\ k = cons[c] /\ k.pc = "load_base" /\ k.index = CounterOf(claimed - 1)
        /\ k.header \in DOMAIN headers
  BY <1>0, <1>1 DEF ConsumerInv, LookInv, Looking
<1>3. PICK e \in First(c) + 1 .. Block + 1 : Leads(c, headers[k.header], k.pos, e)
  BY <1>0, <1>1, <1>2 DEF LookInv
<1>4. PICK h : h = headers[k.header]
  OBVIOUS
<1>5. HeaderOK(h)
  BY <1>0, <1>2, <1>4 DEF IndexInv
<1>6. PICK n \in Sizes : h = headers[k.header] /\ h \in Headers(n)
  BY <1>4, <1>5 DEF HeaderOK
<1>7. /\ Capacity(h) = n /\ DOMAIN h.index = 0 .. n - 1 /\ n \in Nat /\ n > 0
  BY <1>6, HeaderFacts
<1>8. PICK f \in Nat, b \in Nat, z \in Nat : f = First(c) /\ b = Block /\ z = BLOCK_SIZE
  BY <1>0, Places, ModulusFacts DEF IPInv
<1>9. k.pos \in Int /\ e \in Int /\ f <= e - 1 /\ e - 1 \in Nat
  <2>1. k.pos \in 0 .. n - 1
    BY <1>3, <1>6, <1>7 DEF Leads
  <2>2. e \in f + 1 .. b + 1
    BY <1>8
  <2> QED BY <2>1, <2>2
<1>10. f = (claimed - 1) \div BLOCK_SIZE /\ claimed - 1 \in Nat
  <2>1. claimed \in Nat /\ claimed > 0
    BY <1>0, <1>1 DEF SpanInv, CountInv, Asking
  <2> QED BY <1>1, <1>8, <2>1 DEF First, Looking
<1>11. Base(k.index) = Key(f)
  BY <1>2, <1>10, KeyFacts
<1>12. BlockOffset(Key(f), Key(e - 1)) = f - (e - 1)
  <2>1. PICK t \in Nat : t = e - 1
    BY <1>9
  <2>2. (t - f) * BLOCK_SIZE <= Modulus \div 2
    BY <1>3, <1>8, <2>1 DEF Leads
  <2>3. f <= t
    BY <1>9, <2>1
  <2> QED BY <2>1, <2>2, <2>3, KeyDistance
<1>13. h.index[(k.pos + (f - (e - 1))) % n] = EntryOf(f)
  <2>1. k.pos + (f - (e - 1)) = k.pos + 1 + f - e
    BY <1>8, <1>9
  <2> QED BY <1>3, <1>6, <1>7, <1>8, <2>1 DEF Leads
<1>14. entries[h.index[k.pos]].key = Key(e - 1)
  BY <1>3, <1>6 DEF Leads
<1>15. EntryOf(f) \in Nat
  <2>1. EntryOf(f) \in DOMAIN entries
    BY <1>0, <1>8, Places, Entries DEF IPInv
  <2>2. DOMAIN entries = 1 .. Len(entries)
    BY LenProperties DEF IPInv, QueueTyped
  <2> QED BY <2>1, <2>2
<1>16. PICK l : l = [k EXCEPT !.pc = "move", !.header = 0, !.pos = 0, !.entry = EntryOf(f)]
  OBVIOUS
<1>17. /\ l \in ConsumerLocals /\ l.pc = "move" /\ l.entry = EntryOf(f)
       /\ l.ticket = k.ticket /\ l.index = k.index
  <2>1. "move" \in ConsumerLabels
    BY Labels DEF Looking
  <2> QED BY <1>15, <1>16, <2>1 DEF ConsumerLocals
<1>18. Goto(c, l) /\ cons'[c] = l
  <2>1. BlockOffset(Base(k.index), entries[h.index[k.pos]].key) = f - (e - 1)
    BY <1>11, <1>12, <1>14
  <2>2. Goto(c, l)
    BY <1>2, <1>6, <1>7, <1>13, <1>16, <2>1 DEF LoadBase
  <2> QED BY <1>0, <2>2 DEF Goto
<1>19. LookInv(c)'
  BY <1>17, <1>18 DEF LookInv
<1> QED BY <1>1, <1>2, <1>8, <1>17, <1>18, <1>19, LookingKeeps DEF Looking

-----------------------------------------------------------------------------
(* The consumer moves the element out and gives up its block               *)

LEMMA SameIndex ==
    ASSUME UNCHANGED <<headers, prod, sent>>
    PROVE  /\ blockIndex' = blockIndex /\ Capacity(blockIndex)' = Capacity(blockIndex)
           /\ Ends' = Ends /\ Stored' = Stored /\ Block' = Block /\ Taken' = Taken
           /\ \A j : EntryOf(j)' = EntryOf(j)
<1>1. Ends' = Ends /\ Stored' = Stored /\ Block' = Block /\ Taken' = Taken
  BY DEF Ends, Stored, Block, Taken, Slot
<1>2. blockIndex' = blockIndex /\ Capacity(blockIndex)' = Capacity(blockIndex)
  BY DEF blockIndex, Capacity
<1>3. \A j : EntryOf(j)' = EntryOf(j)
  BY <1>1, <1>2 DEF EntryOf, EntryAt, Capacity
<1> QED BY <1>1, <1>2, <1>3

LEMMA ProducerFrame ==
    ASSUME NEW c \in Consumers, ProducerInv(c), UNCHANGED <<headers, prod, sent>>,
           Ends - First(c)' <= Ends - First(c), Capacity(blockIndex) \in Nat,
           Ends \in Nat, First(c) \in Nat, First(c)' \in Nat,
           prod.pc \in Advanced \cup {"store_tail"} =>
              entries'[prod.entry].key = entries[prod.entry].key,
           prod.pc = "store_value" => completely'[prod.block] = completely[prod.block],
           prod.pc = "construct" \/ Slot(sent) # 0 =>
              entries'[EntryOf(Block)].value = entries[EntryOf(Block)].value
    PROVE  ProducerInv(c)'
<1>1. /\ Ends' = Ends /\ Block' = Block /\ Capacity(blockIndex)' = Capacity(blockIndex)
      /\ \A j : EntryOf(j)' = EntryOf(j)
  BY SameIndex
<1>2. EntryOf(Block)' = EntryOf(Block) /\ Key(Block)' = Key(Block)
  BY <1>1 DEF EntryOf, EntryAt, Key, CounterOf, Modulus
<1>3. prod.pc = "store_tail" => (Ends - First(c) < Capacity(blockIndex))'
  <2>1. PICK x \in Int, y \in Int, n \in Int :
          x = Ends - First(c) /\ y = Ends - First(c)' /\ n = Capacity(blockIndex) /\ y <= x
    OBVIOUS
  <2>2. x < n => y < n
    BY <2>1
  <2> QED BY <1>1, <2>1, <2>2 DEF ProducerInv
<1> QED BY <1>1, <1>2, <1>3 DEF ProducerInv, Slot

\* The counters, when the promised element is moved out and its block given up.
LEMMA ClearingCounts ==
    ASSUME NEW c \in Consumers, CountInv(c),
           UNCHANGED <<tailIndex, headIndex, dequeueOptimisticCount, dequeueOvercommit,
                       sent, claimed>>,
           cons[c].pc \in Looking \cup Clearing \cup {"release"},
           \/ cons'[c] = IdleCons
           \/ /\ cons'[c].pc \in Clearing \cup {"release"}
              /\ cons'[c].ticket = cons[c].ticket
    PROVE  CountInv(c)' /\ LookInv(c)'
<1>1. CASE cons'[c] = IdleCons
  BY <1>1, IdleTyped DEF CountInv, LookInv, Asking, Looking, Clearing, CounterOf, Modulus
<1>2. CASE cons'[c].pc \in Clearing \cup {"release"} /\ cons'[c].ticket = cons[c].ticket
  BY <1>2 DEF CountInv, LookInv, Asking, Looking, Clearing, CounterOf, Modulus
<1> QED BY <1>1, <1>2

\* The block that the promised element is in.
LEMMA OldestBlock ==
    ASSUME NEW c \in Consumers, IPInv(c), cons[c].pc \in {"move"} \cup Clearing
    PROVE  \E f \in Nat, b \in Blocks, s \in 0 .. BLOCK_SIZE - 1 :
              /\ f = First(c) /\ f \in f .. Stored - 1 /\ Stored \in Nat
              /\ b = entries[EntryOf(f)].value /\ EntryOf(f) \in DOMAIN entries
              /\ cons[c].entry = EntryOf(f)
              /\ cons[c].pc \in Clearing => cons[c].block = b
              /\ claimed - 1 \in Nat /\ claimed \in Nat /\ claimed <= sent /\ sent \in Nat
              /\ f = (claimed - 1) \div BLOCK_SIZE
              /\ s = Slot(claimed - 1) /\ claimed = f * BLOCK_SIZE + s + 1
              /\ BlockOK(c, f) /\ b \notin free /\ b \in Linked /\ b \notin Taken
              /\ \A j \in f .. Stored - 1 : entries[EntryOf(j)].value = b => j = f
<1>0. /\ SpanInv /\ CountInv(c) /\ ProducerInv(c) /\ IndexInv(c)
      /\ ConsumerInv(c) /\ BlocksInv(c)
  BY DEF IPInv
<1>1. PICK f \in Nat, t \in Nat : f = First(c) /\ t = Stored /\ f < t
  BY <1>0, Places DEF Looking
<1>2. f \in f .. t - 1
  BY <1>1
<1>3. claimed - 1 \in Nat /\ claimed \in Nat /\ claimed <= sent /\ sent \in Nat
      /\ f = (claimed - 1) \div BLOCK_SIZE
  <2>1. claimed \in Nat /\ claimed > 0 /\ claimed <= sent /\ sent \in Nat
    BY <1>0 DEF SpanInv, CountInv, Asking, Clearing
  <2> QED BY <1>1, <2>1 DEF First, Looking
<1>4. PICK s \in 0 .. BLOCK_SIZE - 1 :
         s = Slot(claimed - 1) /\ claimed - 1 = f * BLOCK_SIZE + s
  BY <1>3, BlockOf
<1>5. claimed = f * BLOCK_SIZE + s + 1
  <2>1. PICK n \in Nat : n = BLOCK_SIZE
    BY ModulusFacts
  <2>2. PICK x \in Int : x = f * n
    BY <2>1
  <2> QED BY <1>3, <1>4, <2>1, <2>2
<1>6. BlockOK(c, f) /\ EntryOf(f) \in DOMAIN entries
  <2>1. EntryOf(f) \in DOMAIN entries
    BY <1>0, Places, Entries
  <2> QED BY <1>0, <1>1, <1>2, <2>1 DEF IndexInv
<1>7. PICK b \in Blocks : b = entries[EntryOf(f)].value /\ b \notin free
  BY <1>6 DEF BlockOK
<1>8. b \in Linked /\ b \notin Taken
  <2>1. b \in Linked
    BY <1>6, <1>7, SizesAssumption DEF Linked
  <2> QED BY <1>0, <2>1 DEF BlocksInv
<1>9. \A j \in f .. t - 1 : entries[EntryOf(j)].value = b => j = f
  BY <1>0, <1>1, <1>2, <1>7 DEF IndexInv
<1>10. cons[c].entry = EntryOf(f) /\ (cons[c].pc \in Clearing => cons[c].block = b)
  BY <1>0, <1>1, <1>7 DEF ConsumerInv
<1> WITNESS f \in Nat, b \in Blocks, s \in 0 .. BLOCK_SIZE - 1
<1>11. f \in f .. Stored - 1 /\ Stored \in Nat
  BY <1>1, <1>2
<1>12. \A j \in f .. Stored - 1 : entries[EntryOf(j)].value = b => j = f
  BY <1>1, <1>9
<1> QED BY <1>1, <1>3, <1>4, <1>5, <1>6, <1>7, <1>8, <1>10, <1>11, <1>12

\* Steps of the consumer in the oldest block.
LEMMA ClearingKeeps ==
    ASSUME NEW c \in Consumers, IPInv(c), NEW l \in ConsumerLocals, Goto(c, l),
           UNCHANGED <<tailIndex, headIndex, dequeueOptimisticCount, dequeueOvercommit, entries,
                       headers, free, prod, sent, claimed>>,
           cons[c].pc \in {"move", "set_empty"},
           \/ l = IdleCons
           \/ /\ l.pc \in Clearing /\ l.ticket = cons[c].ticket
              /\ l.entry = EntryOf(First(c)) /\ l.got = claimed
              /\ l.block = entries[EntryOf(First(c))].value
              /\ l.pc = "unlink" => claimed = (First(c) + 1) * BLOCK_SIZE,
           First(c)' = First(c),
           elements' \in [Blocks -> [0 .. BLOCK_SIZE - 1 -> 0 .. MaxElements]],
           completely' \in [Blocks -> 0 .. BLOCK_SIZE],
           prod.pc = "store_value" => completely'[prod.block] = completely[prod.block],
           \A j \in First(c) .. Stored - 1 : BlockOK(c, j)'
    PROVE  IPInv(c)'
<1>0. /\ SpanInv /\ CountInv(c) /\ ProducerInv(c) /\ IndexInv(c) /\ QueueTyped
      /\ ConsumerInv(c) /\ BlocksInv(c) /\ cons'[c] = l
  BY DEF IPInv, QueueTyped, Goto
<1>1. SpanInv'
  BY <1>0 DEF SpanInv, Slot, Half, Modulus
<1>2. CountInv(c)' /\ LookInv(c)'
  <2>1. cons[c].pc \in Looking \cup Clearing \cup {"release"}
    BY DEF Looking, Clearing
  <2> QED BY <1>0, <2>1, ClearingCounts
<1>3. /\ blockIndex' = blockIndex /\ Capacity(blockIndex)' = Capacity(blockIndex)
      /\ Ends' = Ends /\ Stored' = Stored /\ Taken' = Taken
      /\ \A j : EntryOf(j)' = EntryOf(j)
  BY SameIndex
<1>4. Ends \in Nat /\ First(c) \in Nat /\ Capacity(blockIndex) \in Nat
  <2>1. Ends \in Nat /\ First(c) \in Nat
    BY <1>0, Places
  <2> QED BY <1>0, <2>1, Entries DEF Sizes
<1>5. ProducerInv(c)'
  <2>1. Ends - First(c)' <= Ends - First(c) /\ First(c)' \in Nat
    BY <1>4
  <2> QED BY <1>0, <1>4, <2>1, ProducerFrame
<1>6. IndexInv(c)'
  <2>1. (\A i \in DOMAIN headers : HeaderOK(headers[i]))'
    BY <1>0 DEF IndexInv, HeaderOK
  <2>2. (\A j \in First(c) .. Stored - 1 : BlockOK(c, j))'
    BY <1>3
  <2>3. (\A j, k \in First(c) .. Stored - 1 :
            entries[EntryOf(j)].value = entries[EntryOf(k)].value => j = k)'
    BY <1>0, <1>3 DEF IndexInv
  <2>4. (\A i \in DOMAIN entries : entries[i].value \in Blocks =>
            \E j \in First(c) .. Stored - 1 : i = EntryOf(j))'
    BY <1>0, <1>3 DEF IndexInv
  <2> QED BY <1>0, <1>3, <2>1, <2>2, <2>3, <2>4 DEF IndexInv
<1>7. ConsumerInv(c)'
  <2>1. EntryOf(First(c))' = EntryOf(First(c))
    BY <1>3 DEF EntryOf, EntryAt
  <2> QED BY <1>0, <2>1, IdleTyped DEF ConsumerInv, Looking, Clearing
<1>8. QueueTyped'
  BY <1>0 DEF QueueTyped, Goto, Index, Modulus
<1>9. BlocksInv(c)'
  <2>1. Given(c)' = Given(c)
    BY <1>0, IdleTyped DEF Given, Clearing
  <2> QED BY <1>0, <1>3, <2>1, BlocksFrame
<1> QED BY <1>1, <1>2, <1>5, <1>6, <1>7, <1>8, <1>9 DEF IPInv

\* The consumer moves out the element it was promised.
LEMMA MovedOut ==
    ASSUME NEW c \in Consumers, IPInv(c), MoveOut(c)
    PROVE  IPInv(c)' /\ cons'[c].got = claimed
<1>0. /\ IndexInv(c) /\ ConsumerInv(c) /\ QueueTyped
      /\ cons \in [Consumers -> ConsumerLocals]
  BY DEF IPInv, QueueTyped
<1>1. /\ UNCHANGED <<tailIndex, headIndex, dequeueOptimisticCount, dequeueOvercommit, entries,
                     headers, completely, free, prod, sent, claimed>>
      /\ cons[c].pc = "move"
  BY DEF MoveOut, sharedVars, indexVars, historyVars
<1>2. PICK f \in Nat, b \in Blocks, s \in 0 .. BLOCK_SIZE - 1 :
        /\ f = First(c) /\ f \in f .. Stored - 1 /\ Stored \in Nat
        /\ b = entries[EntryOf(f)].value /\ EntryOf(f) \in DOMAIN entries
        /\ cons[c].entry = EntryOf(f)
        /\ claimed - 1 \in Nat /\ claimed \in Nat /\ claimed <= sent /\ sent \in Nat
        /\ s = Slot(claimed - 1) /\ claimed = f * BLOCK_SIZE + s + 1
        /\ BlockOK(c, f) /\ \A j \in f .. Stored - 1 : entries[EntryOf(j)].value = b => j = f
  BY <1>1, OldestBlock
<1>3. PICK k \in ConsumerLocals : k = cons[c] /\ k.pc = "move"
  BY <1>0, <1>1
<1>4. Slot(k.index) = s
  <2>1. k.index = CounterOf(claimed - 1) /\ claimed - 1 \in Int
    BY <1>0, <1>2, <1>3 DEF ConsumerInv, Looking
  <2> QED BY <1>2, <2>1, SlotOf
<1>5. Moved(c) = claimed - 1
  BY <1>1 DEF Moved, Looking
<1>6. elements[b][s] = claimed
  <2>1. claimed - 1 < claimed
    BY <1>2
  <2>2. Moved(c) < f * BLOCK_SIZE + s + 1 /\ f * BLOCK_SIZE + s + 1 <= sent
    BY <1>2, <1>5, <2>1
  <2> QED BY <1>2, <2>2 DEF BlockOK
<1>7. PICK l : l = [k EXCEPT !.pc = "set_empty", !.block = b, !.index = 0, !.got = claimed]
  OBVIOUS
<1>8. /\ l \in ConsumerLocals /\ l.pc = "set_empty" /\ l.got = claimed /\ l.block = b
      /\ l.ticket = k.ticket /\ l.entry = k.entry
  <2>1. "set_empty" \in ConsumerLabels /\ b \in Blocks \cup {Null} /\ claimed \in Nat
    BY <1>2, Labels DEF Clearing
  <2> QED BY <1>7, <2>1 DEF ConsumerLocals
<1>9. Goto(c, l) /\ cons'[c] = l /\ elements' = [elements EXCEPT ![b][s] = 0]
  <2>1. entries[k.entry].value = b /\ k.entry = cons[c].entry /\ k.index = cons[c].index
    BY <1>2, <1>3
  <2>2. Goto(c, l) /\ elements' = [elements EXCEPT ![b][s] = 0]
    BY <1>3, <1>4, <1>6, <1>7, <2>1 DEF MoveOut
  <2> QED BY <1>0, <2>2 DEF Goto
<1>10. First(c)' = First(c) /\ Moved(c)' = claimed /\ Emptied(c)' = Emptied(c)
  <2>1. claimed - 0 = claimed
    BY <1>2
  <2> QED BY <1>1, <1>8, <1>9, <2>1 DEF First, Moved, Emptied, Looking, Clearing
<1>11. /\ elements' \in [Blocks -> [0 .. BLOCK_SIZE - 1 -> 0 .. MaxElements]]
       /\ \A x \in Blocks, y \in 0 .. BLOCK_SIZE - 1 :
             x # b \/ y # s => elements'[x][y] = elements[x][y]
  <2>1. elements \in [Blocks -> [0 .. BLOCK_SIZE - 1 -> 0 .. MaxElements]]
    BY <1>0 DEF QueueTyped
  <2>2. 0 \in 0 .. MaxElements
    BY SizesAssumption
  <2> QED BY <1>2, <1>9, <2>1, <2>2
<1>12. ASSUME NEW j \in f .. Stored - 1
       PROVE  BlockOK(c, j)'
  <2>1. BlockOK(c, j)
    BY <1>0, <1>2 DEF IndexInv
  <2>2. PICK x \in Blocks : x = entries[EntryOf(j)].value
    BY <2>1 DEF BlockOK
  <2>3. EntryOf(j)' = EntryOf(j) /\ Key(j)' = Key(j)
    BY <1>1, SameIndex DEF Key, CounterOf, Modulus
  <2>4. ASSUME NEW y \in 0 .. BLOCK_SIZE - 1, claimed < j * BLOCK_SIZE + y + 1,
               j * BLOCK_SIZE + y + 1 <= sent
        PROVE  elements'[x][y] = j * BLOCK_SIZE + y + 1
    <3>1. PICK n \in Nat, m \in Nat : n = BLOCK_SIZE /\ m = claimed
      BY <1>2, ModulusFacts
    <3>2. PICK u \in Int : u = j * n + y + 1
      BY <3>1
    <3>3. m < u /\ m - 1 < u
      BY <2>4, <3>1, <3>2
    <3>4. elements[x][y] = j * BLOCK_SIZE + y + 1
      BY <1>5, <2>1, <2>2, <2>4, <3>1, <3>2, <3>3 DEF BlockOK
    <3>5. x # b \/ y # s
      <4>1. SUFFICES ASSUME x = b, y = s PROVE FALSE
        OBVIOUS
      <4>2. j = f
        BY <1>2, <2>2, <4>1
      <4>3. m = u
        BY <1>2, <3>1, <3>2, <4>1, <4>2
      <4> QED BY <3>3, <4>3
    <3> QED BY <1>11, <3>4, <3>5
  <2>5. \A y \in 0 .. BLOCK_SIZE - 1 :
           Moved(c)' < j * BLOCK_SIZE + y + 1 /\ j * BLOCK_SIZE + y + 1 <= sent' =>
              elements'[x][y] = j * BLOCK_SIZE + y + 1
    BY <1>1, <1>10, <2>4
  <2>6. (entries[EntryOf(j)].value)' = x /\ (entries[EntryOf(j)].key)' = Key(j)' /\ x \notin free'
        /\ completely'[x] = IF j = First(c)' THEN Emptied(c)' - j * BLOCK_SIZE ELSE 0
    BY <1>1, <1>10, <2>1, <2>2, <2>3 DEF BlockOK
  <2> QED BY <2>5, <2>6 DEF BlockOK
<1>13. completely' \in [Blocks -> 0 .. BLOCK_SIZE]
  BY <1>0, <1>1 DEF QueueTyped
<1>14. IPInv(c)'
  BY <1>1, <1>2, <1>3, <1>8, <1>9, <1>10, <1>11, <1>12, <1>13, ClearingKeeps DEF Clearing
<1> QED BY <1>8, <1>9, <1>14

\* The consumer counts the element in its block.
LEMMA EmptySet ==
    ASSUME NEW c \in Consumers, IPInv(c), SetEmpty(c)
    PROVE  IPInv(c)'
<1>0. /\ IndexInv(c) /\ ConsumerInv(c) /\ QueueTyped
      /\ cons \in [Consumers -> ConsumerLocals]
  BY DEF IPInv, QueueTyped
<1>1. /\ UNCHANGED <<tailIndex, headIndex, dequeueOptimisticCount, dequeueOvercommit, entries,
                     headers, elements, free, prod, sent, claimed>>
      /\ cons[c].pc = "set_empty"
  BY DEF SetEmpty, sharedVars, indexVars, historyVars
<1>2. PICK f \in Nat, b \in Blocks, s \in 0 .. BLOCK_SIZE - 1 :
        /\ f = First(c) /\ f \in f .. Stored - 1 /\ Stored \in Nat
        /\ b = entries[EntryOf(f)].value /\ EntryOf(f) \in DOMAIN entries
        /\ cons[c].entry = EntryOf(f) /\ cons[c].block = b
        /\ claimed - 1 \in Nat /\ claimed \in Nat /\ f = (claimed - 1) \div BLOCK_SIZE
        /\ s = Slot(claimed - 1) /\ claimed = f * BLOCK_SIZE + s + 1
        /\ BlockOK(c, f) /\ b \notin Taken
        /\ \A j \in f .. Stored - 1 : entries[EntryOf(j)].value = b => j = f
  BY <1>1, OldestBlock DEF Clearing
<1>3. PICK n \in Nat, x \in Int, m \in Nat :
        n = BLOCK_SIZE /\ n > 1 /\ x = f * n /\ m = claimed /\ m = x + s + 1 /\ m - 1 \in Nat
  <2>1. PICK n \in Nat : n = BLOCK_SIZE /\ n > 1
    BY ModulusFacts
  <2>2. PICK x \in Int : x = f * n
    BY <2>1
  <2> QED BY <1>2, <2>1, <2>2
<1>4. completely[b] = s
  <2>1. Emptied(c) = claimed - 1
    BY <1>1 DEF Emptied
  <2>2. completely[b] = Emptied(c) - f * BLOCK_SIZE
    BY <1>2 DEF BlockOK
  <2>3. m - 1 - x = s
    BY <1>3
  <2> QED BY <1>3, <2>1, <2>2, <2>3
<1>5. completely' = [completely EXCEPT ![b] = s + 1]
  BY <1>0, <1>2, <1>4 DEF SetEmpty, QueueTyped
<1>6. /\ completely' \in [Blocks -> 0 .. BLOCK_SIZE] /\ completely'[b] = s + 1
      /\ \A y \in Blocks : y # b => completely'[y] = completely[y]
  <2>1. completely \in [Blocks -> 0 .. BLOCK_SIZE] /\ s + 1 \in 0 .. BLOCK_SIZE
    BY <1>0, <1>3 DEF QueueTyped
  <2> QED BY <1>2, <1>5, <2>1
<1>7. elements' \in [Blocks -> [0 .. BLOCK_SIZE - 1 -> 0 .. MaxElements]]
  BY <1>0, <1>1 DEF QueueTyped
<1>8. prod.pc = "store_value" => completely'[prod.block] = completely[prod.block]
  <2>1. prod.pc = "store_value" => prod.block # b /\ prod.block \in Blocks
    BY <1>2 DEF Taken, BlocksInv, IPInv
  <2> QED BY <1>6, <2>1
<1>9. ASSUME First(c)' = f, Moved(c)' = claimed, Emptied(c)' = claimed
      PROVE  \A j \in f .. Stored - 1 : BlockOK(c, j)'
  <2> SUFFICES ASSUME NEW j \in f .. Stored - 1
               PROVE  BlockOK(c, j)'
    OBVIOUS
  <2>1. BlockOK(c, j)
    BY <1>0, <1>2 DEF IndexInv
  <2>2. PICK y \in Blocks : y = entries[EntryOf(j)].value
    BY <2>1 DEF BlockOK
  <2>3. EntryOf(j)' = EntryOf(j) /\ Key(j)' = Key(j)
    BY <1>1, SameIndex DEF Key, CounterOf, Modulus
  <2>4. completely'[y] = IF j = f THEN claimed - j * BLOCK_SIZE ELSE 0
    <3>1. CASE j = f
      <4>1. m - x = s + 1 /\ j * BLOCK_SIZE = x /\ y = b
        BY <1>2, <1>3, <2>2, <3>1
      <4> QED BY <1>3, <1>6, <3>1, <4>1
    <3>2. CASE j # f
      <4>1. y # b
        BY <1>2, <2>2, <3>2
      <4>2. completely[y] = 0
        BY <1>2, <2>1, <2>2, <3>2 DEF BlockOK
      <4> QED BY <1>6, <3>2, <4>1, <4>2
    <3> QED BY <3>1, <3>2
  <2>5. Moved(c) = claimed
    <3>1. claimed - 0 = claimed
      BY <1>2
    <3> QED BY <1>1, <3>1 DEF Moved, Looking
  <2>6. \A z \in 0 .. BLOCK_SIZE - 1 :
           Moved(c)' < j * BLOCK_SIZE + z + 1 /\ j * BLOCK_SIZE + z + 1 <= sent' =>
              elements'[y][z] = j * BLOCK_SIZE + z + 1
    BY <1>1, <1>9, <2>1, <2>2, <2>5 DEF BlockOK
  <2>7. (entries[EntryOf(j)].value)' = y /\ (entries[EntryOf(j)].key)' = Key(j)' /\ y \notin free'
        /\ completely'[y] = IF j = First(c)' THEN Emptied(c)' - j * BLOCK_SIZE ELSE 0
    BY <1>1, <1>9, <2>1, <2>2, <2>3, <2>4 DEF BlockOK
  <2> QED BY <2>6, <2>7 DEF BlockOK
<1>10. CASE s = BLOCK_SIZE - 1
  <2>1. PICK k \in ConsumerLocals : k = cons[c] /\ k.pc = "set_empty"
    BY <1>0, <1>1
  <2>2. PICK l : l = [k EXCEPT !.pc = "unlink"]
    OBVIOUS
  <2>3. /\ l \in ConsumerLocals /\ l.pc = "unlink" /\ l.got = k.got /\ l.block = k.block
        /\ l.ticket = k.ticket /\ l.entry = k.entry
    <3>1. "unlink" \in ConsumerLabels
      BY Labels DEF Clearing
    <3> QED BY <2>2, <3>1 DEF ConsumerLocals
  <2>4. Goto(c, l) /\ cons'[c] = l
    BY <1>0, <1>2, <1>4, <1>10, <2>1, <2>2 DEF SetEmpty, Goto
  <2>5. First(c)' = First(c) /\ Moved(c)' = claimed /\ Emptied(c)' = claimed
    <3>1. claimed - 0 = claimed
      BY <1>2
    <3> QED BY <1>1, <2>3, <2>4, <3>1 DEF First, Moved, Emptied, Looking, Clearing
  <2>6. \A j \in First(c) .. Stored - 1 : BlockOK(c, j)'
    BY <1>2, <1>9, <2>5
  <2>7. claimed = (First(c) + 1) * BLOCK_SIZE
    <3>1. (f + 1) * n = x + n
      BY <1>3
    <3>2. m = x + n
      BY <1>3, <1>10
    <3> QED BY <1>2, <1>3, <3>1, <3>2
  <2>8. cons[c].got = claimed
    BY <1>0, <1>1 DEF ConsumerInv, Clearing
  <2> QED BY <1>1, <1>2, <1>6, <1>7, <1>8, <2>1, <2>3, <2>4, <2>5, <2>6, <2>7, <2>8,
             ClearingKeeps DEF Clearing
<1>11. CASE s # BLOCK_SIZE - 1
  <2>1. Goto(c, IdleCons) /\ cons'[c] = IdleCons
    BY <1>0, <1>2, <1>4, <1>11 DEF SetEmpty, Goto, CReturn
  <2>2. First(c)' = First(c)
    <3>1. claimed \div BLOCK_SIZE = (claimed - 1) \div BLOCK_SIZE
      <4>1. (claimed - 1) + 1 = claimed
        BY <1>2
      <4> QED BY <1>2, <1>11, <4>1, NextSlot
    <3>2. claimed - 0 = claimed
      BY <1>2
    <3> QED BY <1>1, <1>2, <2>1, <3>1, <3>2, IdleTyped DEF First, Looking, Clearing
  <2>3. Moved(c)' = claimed /\ Emptied(c)' = claimed
    <3>1. claimed - 0 = claimed
      BY <1>2
    <3> QED BY <1>1, <2>1, <3>1, IdleTyped DEF Moved, Emptied, Looking
  <2>4. \A j \in First(c) .. Stored - 1 : BlockOK(c, j)'
    BY <1>2, <1>9, <2>2, <2>3
  <2> QED BY <1>1, <1>6, <1>7, <1>8, <2>1, <2>2, <2>4, IdleTyped, ClearingKeeps
<1> QED BY <1>10, <1>11

\* The emptied block leaves the index.
LEMMA Unlinked ==
    ASSUME NEW c \in Consumers, IPInv(c), Unlink(c)
    PROVE  IPInv(c)' /\ cons'[c].got = claimed
<1>0. /\ SpanInv /\ CountInv(c) /\ ProducerInv(c) /\ IndexInv(c) /\ QueueTyped
      /\ ConsumerInv(c) /\ BlocksInv(c) /\ cons \in [Consumers -> ConsumerLocals]
  BY DEF IPInv, QueueTyped
<1>1. /\ UNCHANGED <<tailIndex, headIndex, dequeueOptimisticCount, dequeueOvercommit, elements,
                     completely, headers, free, prod, sent, claimed>>
      /\ cons[c].pc = "unlink"
  BY DEF Unlink, sharedVars, blockVars, historyVars
<1>2. PICK f \in Nat, b \in Blocks :
        /\ f = First(c) /\ f \in f .. Stored - 1 /\ Stored \in Nat
        /\ b = entries[EntryOf(f)].value /\ EntryOf(f) \in DOMAIN entries
        /\ cons[c].entry = EntryOf(f) /\ cons[c].block = b
        /\ claimed \in Nat /\ claimed <= sent /\ sent \in Nat
        /\ BlockOK(c, f) /\ b \notin Taken /\ b \notin free /\ b \in Linked
        /\ \A j \in f .. Stored - 1 : entries[EntryOf(j)].value = b => j = f
  BY <1>1, OldestBlock DEF Clearing
<1>3. PICK i : i = EntryOf(f) /\ i \in DOMAIN entries /\ i = cons[c].entry
  BY <1>2
<1>4. claimed = (f + 1) * BLOCK_SIZE /\ cons[c].got = claimed
  BY <1>0, <1>1, <1>2 DEF ConsumerInv, Clearing
<1>5. PICK k \in ConsumerLocals : k = cons[c] /\ k.pc = "unlink"
  BY <1>0, <1>1
<1>6. PICK l : l = [k EXCEPT !.pc = "release", !.entry = 0]
  OBVIOUS
<1>7. /\ l \in ConsumerLocals /\ l.pc = "release" /\ l.got = k.got /\ l.block = k.block
      /\ l.ticket = k.ticket
  <2>1. "release" \in ConsumerLabels
    BY Labels
  <2> QED BY <1>6, <2>1 DEF ConsumerLocals
<1>8. Goto(c, l) /\ cons'[c] = l /\ entries' = WithValue(i, Null)
  BY <1>0, <1>3, <1>5, <1>6 DEF Unlink, Goto, WithValue
<1>9. /\ entries' \in Seq(EntryObjects) /\ DOMAIN entries' = DOMAIN entries
      /\ entries'[i].value = Null
      /\ \A x \in DOMAIN entries : entries'[x].key = entries[x].key
      /\ \A x \in DOMAIN entries : x # i => entries'[x] = entries[x]
  <2>1. Null \in Blocks \cup {Null}
    OBVIOUS
  <2> QED BY <1>0, <1>3, <1>8, <2>1, ValueSet
<1>10. First(c)' = f + 1 /\ Moved(c)' = claimed /\ Emptied(c)' = claimed /\ Moved(c) = claimed
  <2>1. claimed - 0 = claimed
    BY <1>2
  <2>2. claimed \div BLOCK_SIZE = f + 1
    <3>1. PICK q \in Nat, r \in 0 .. BLOCK_SIZE - 1 :
            q = claimed \div BLOCK_SIZE /\ claimed = q * BLOCK_SIZE + r
            /\ \A z \in Int : claimed < z * BLOCK_SIZE <=> q < z
      BY <1>2, BlockOf
    <3>2. ~(q < f + 1)
      <4>1. ~(claimed < (f + 1) * BLOCK_SIZE)
        BY <1>2, <1>4
      <4>2. PICK g \in Int : g = f + 1
        OBVIOUS
      <4> QED BY <3>1, <4>1, <4>2
    <3>3. q < f + 2
      <4>1. PICK n \in Nat : n = BLOCK_SIZE /\ n > 0
        BY ModulusFacts
      <4>2. (f + 1) * n < (f + 2) * n
        <5>1. PICK x \in Int : x = f * n
          BY <4>1
        <5>2. (f + 1) * n = x + n /\ (f + 2) * n = x + n + n
          BY <4>1, <5>1
        <5> QED BY <4>1, <5>1, <5>2
      <4>3. PICK g \in Int : g = f + 2
        OBVIOUS
      <4>4. claimed < g * BLOCK_SIZE
        BY <1>4, <4>1, <4>2, <4>3
      <4> QED BY <3>1, <4>3, <4>4
    <3> QED BY <3>1, <3>2, <3>3
  <2> QED BY <1>1, <1>7, <1>8, <2>1, <2>2 DEF First, Moved, Emptied, Looking, Clearing
<1>11. PICK d \in Nat, t \in Nat, w \in Nat, n \in Sizes :
         /\ d = Ends /\ t = Stored /\ w = Block /\ n = Capacity(blockIndex) /\ t <= d /\ d <= w + 1
         /\ f < t /\ d - f <= n /\ f <= w /\ w <= d
  <2>1. PICK n \in Sizes : n = Capacity(blockIndex)
    BY <1>0, Places, Entries
  <2>2. First(c) < Stored
    BY <1>0, <1>1, Places DEF Clearing
  <2> QED BY <1>0, <1>2, <2>1, <2>2, Places DEF IndexInv
<1>12. n \in Nat /\ n > 0
  BY DEF Sizes
<1>13. \A j \in Int : /\ EntryOf(j) \in DOMAIN entries
                      /\ j - f < n /\ f - j < n /\ EntryOf(j) = EntryOf(f) => j = f
  BY <1>0, <1>2, <1>11, Entries
<1>14. \A j \in f + 1 .. t - 1 : /\ j \in f .. t - 1 /\ j # f /\ EntryOf(j) # i
                                 /\ entries'[EntryOf(j)] = entries[EntryOf(j)]
  <2>1. SUFFICES ASSUME NEW j \in f + 1 .. t - 1
                 PROVE  /\ j \in f .. t - 1 /\ j # f /\ EntryOf(j) # i
                        /\ entries'[EntryOf(j)] = entries[EntryOf(j)]
    OBVIOUS
  <2>2. t - f <= n
    BY <1>11, <1>12
  <2>3. j \in f .. t - 1 /\ j # f /\ j \in Int /\ j - f < n /\ f - j < n
    BY <1>12, <2>2
  <2>4. EntryOf(j) # i /\ EntryOf(j) \in DOMAIN entries
    BY <1>3, <1>13, <2>3
  <2> QED BY <1>9, <2>3, <2>4
<1>15. f + 1 <= w
  <2>1. (f + 1) * BLOCK_SIZE <= sent
    BY <1>2, <1>4
  <2>2. PICK g \in Nat : g = f + 1
    OBVIOUS
  <2>3. ~(sent < g * BLOCK_SIZE) /\ g \in Int
    <3>1. PICK z \in Nat : z = BLOCK_SIZE
      BY ModulusFacts
    <3>2. PICK x \in Int : x = g * z
      BY <3>1
    <3>3. x <= sent
      BY <2>1, <2>2, <3>1, <3>2
    <3> QED BY <1>2, <3>1, <3>2, <3>3
  <2>4. ~(w < g)
    BY <1>2, <1>11, <2>3, BlockOf DEF Block
  <2> QED BY <2>2, <2>4
<1>16. /\ blockIndex' = blockIndex /\ Capacity(blockIndex)' = n
       /\ Ends' = d /\ Stored' = t /\ Taken' = Taken
       /\ \A j : EntryOf(j)' = EntryOf(j)
  BY <1>1, <1>11, SameIndex
<1>17. SpanInv'
  BY <1>0, <1>1 DEF SpanInv, Slot, Half, Modulus
<1>18. CountInv(c)' /\ LookInv(c)'
  <2>1. cons[c].pc \in Looking \cup Clearing \cup {"release"}
    BY <1>1 DEF Clearing
  <2> QED BY <1>0, <1>1, <1>5, <1>7, <1>8, <2>1, ClearingCounts
<1>19. ProducerInv(c)'
  <2>1. /\ Ends - First(c)' <= Ends - First(c) /\ Capacity(blockIndex) \in Nat
        /\ Ends \in Nat /\ First(c) \in Nat /\ First(c)' \in Nat
    <3>1. d - (f + 1) <= d - f /\ f + 1 \in Nat
      OBVIOUS
    <3> QED BY <1>2, <1>10, <1>11, <1>12, <3>1
  <2>2. prod.pc \in Advanced \cup {"store_tail"} =>
           entries'[prod.entry].key = entries[prod.entry].key
    <3>1. prod.pc \in Advanced \cup {"store_tail"} => prod.entry = EntryOf(w)
      BY <1>0, <1>11 DEF ProducerInv
    <3>2. EntryOf(w) \in DOMAIN entries
      <4>1. w \in Int
        OBVIOUS
      <4> QED BY <1>13, <4>1
    <3> QED BY <1>9, <3>1, <3>2
  <2>3. prod.pc = "construct" \/ Slot(sent) # 0 =>
           entries'[EntryOf(Block)].value = entries[EntryOf(Block)].value
    <3>1. SUFFICES ASSUME prod.pc = "construct" \/ Slot(sent) # 0
                   PROVE  entries'[EntryOf(w)].value = entries[EntryOf(w)].value
      BY <1>11
    <3>2. d = w + 1
      BY <1>11, <3>1 DEF Ends
    <3>3. w \in Int /\ w # f /\ w - f < n /\ f - w < n
      BY <1>11, <1>12, <1>15, <3>2
    <3>4. EntryOf(w) # i /\ EntryOf(w) \in DOMAIN entries
      BY <1>3, <1>13, <3>3
    <3> QED BY <1>9, <3>4
  <2> QED BY <1>0, <1>1, <2>1, <2>2, <2>3, ProducerFrame
<1>20. ASSUME NEW j \in f + 1 .. t - 1
       PROVE  BlockOK(c, j)'
  <2>1. BlockOK(c, j)
    BY <1>0, <1>2, <1>11, <1>14 DEF IndexInv
  <2>2. PICK y \in Blocks : y = entries[EntryOf(j)].value
    BY <2>1 DEF BlockOK
  <2>3. (entries[EntryOf(j)])' = entries[EntryOf(j)] /\ Key(j)' = Key(j)
    BY <1>14, <1>16 DEF Key, CounterOf, Modulus
  <2>4. completely[y] = 0
    BY <1>2, <1>14, <2>1, <2>2 DEF BlockOK
  <2>5. j = f + 1 => claimed - j * BLOCK_SIZE = 0
    BY <1>2, <1>4
  <2>6. /\ (entries[EntryOf(j)].value)' = y /\ (entries[EntryOf(j)].key)' = Key(j)' /\ y \notin free'
        /\ completely'[y] = IF j = First(c)' THEN Emptied(c)' - j * BLOCK_SIZE ELSE 0
    BY <1>1, <1>10, <2>1, <2>2, <2>3, <2>4, <2>5 DEF BlockOK
  <2>7. \A z \in 0 .. BLOCK_SIZE - 1 :
           Moved(c)' < j * BLOCK_SIZE + z + 1 /\ j * BLOCK_SIZE + z + 1 <= sent' =>
              elements'[y][z] = j * BLOCK_SIZE + z + 1
    BY <1>1, <1>10, <2>1, <2>2 DEF BlockOK
  <2> QED BY <2>6, <2>7 DEF BlockOK
<1>21. IndexInv(c)'
  <2>1. (\A x \in DOMAIN headers : HeaderOK(headers[x]))'
    BY <1>0, <1>1, <1>9 DEF IndexInv, HeaderOK
  <2>2. (\A j \in First(c) .. Stored - 1 : BlockOK(c, j))'
    BY <1>10, <1>16, <1>20
  <2>3. (\A j, x \in First(c) .. Stored - 1 :
            entries[EntryOf(j)].value = entries[EntryOf(x)].value => j = x)'
    <3>1. ASSUME NEW j \in f + 1 .. t - 1, NEW x \in f + 1 .. t - 1,
                 entries'[EntryOf(j)].value = entries'[EntryOf(x)].value
          PROVE  j = x
      BY <1>0, <1>2, <1>11, <1>14, <3>1 DEF IndexInv
    <3> QED BY <1>10, <1>16, <3>1
  <2>4. ASSUME NEW x \in DOMAIN entries', entries'[x].value \in Blocks
        PROVE  \E j \in f + 1 .. t - 1 : x = EntryOf(j)'
    <3>1. x \in DOMAIN entries /\ x # i /\ entries[x].value \in Blocks
      BY <1>9, <2>4, SizesAssumption
    <3>2. PICK j \in f .. t - 1 : x = EntryOf(j)
      BY <1>0, <1>2, <1>11, <3>1 DEF IndexInv
    <3>3. j \in f + 1 .. t - 1
      <4>1. j # f
        BY <1>3, <3>1, <3>2
      <4> QED BY <4>1
    <3> QED BY <1>16, <3>2, <3>3
  <2>5. (\A x \in DOMAIN entries : entries[x].value \in Blocks =>
            \E j \in First(c) .. Stored - 1 : x = EntryOf(j))'
    BY <1>10, <1>16, <2>4
  <2>6. (Ends - First(c) <= Capacity(blockIndex))'
    <3>1. d - (f + 1) <= n
      BY <1>11, <1>12
    <3> QED BY <1>10, <1>16, <3>1
  <2> QED BY <1>0, <1>1, <1>16, <2>1, <2>2, <2>3, <2>5, <2>6 DEF IndexInv
<1>22. ConsumerInv(c)'
  BY <1>1, <1>4, <1>5, <1>7, <1>8 DEF ConsumerInv, Looking, Clearing
<1>23. QueueTyped'
  <2>1. cons' \in [Consumers -> ConsumerLocals]
    BY <1>0, <1>7, <1>8 DEF Goto
  <2> QED BY <1>0, <1>1, <1>9, <2>1 DEF QueueTyped, EntryObjects, Index, Modulus
<1>24. BlocksInv(c)'
  <2>1. Linked' = Linked \ {b}
    <3>1. \A x \in DOMAIN entries : entries'[x].value = IF x = i THEN Null ELSE entries[x].value
      BY <1>9
    <3>2. \A v : v \in Linked' <=> v \in Blocks /\ \E x \in DOMAIN entries : v = entries'[x].value
      BY <1>9 DEF Linked
    <3>3. \A v : v \in Linked <=> v \in Blocks /\ \E x \in DOMAIN entries : v = entries[x].value
      BY DEF Linked
    <3>4. \A x \in DOMAIN entries : entries[x].value = b => x = i
      <4>1. SUFFICES ASSUME NEW x \in DOMAIN entries, entries[x].value = b
                     PROVE  x = i
        OBVIOUS
      <4>2. entries[x].value \in Blocks
        BY <4>1, SizesAssumption
      <4>3. PICK j \in f .. t - 1 : x = EntryOf(j)
        BY <1>0, <1>2, <1>11, <4>2 DEF IndexInv
      <4>4. j = f
        BY <1>2, <1>11, <4>1, <4>3
      <4> QED BY <1>3, <4>3, <4>4
    <3>5. entries[i].value = b
      BY <1>2, <1>3
    <3>6. \A v : v \in Linked' <=> v \in Linked /\ v # b
      BY <1>3, <3>1, <3>2, <3>3, <3>4, <3>5, SizesAssumption
    <3> QED BY <3>6
  <2>2. Given(c)' = {b} /\ Given(c) = {}
    BY <1>1, <1>2, <1>5, <1>7, <1>8 DEF Given
  <2> QED BY <1>0, <1>1, <1>2, <1>16, <2>1, <2>2 DEF BlocksInv
<1>25. cons'[c].got = claimed
  BY <1>4, <1>5, <1>7, <1>8
<1> QED BY <1>17, <1>18, <1>19, <1>21, <1>22, <1>23, <1>24, <1>25 DEF IPInv

\* The emptied block is free again.
LEMMA BlockGivenBack ==
    ASSUME NEW c \in Consumers, IPInv(c), AddBlockToFreeList(c)
    PROVE  IPInv(c)'
<1>0. /\ SpanInv /\ CountInv(c) /\ ProducerInv(c) /\ IndexInv(c) /\ QueueTyped
      /\ ConsumerInv(c) /\ BlocksInv(c) /\ cons \in [Consumers -> ConsumerLocals]
  BY DEF IPInv, QueueTyped
<1>1. /\ UNCHANGED <<tailIndex, headIndex, dequeueOptimisticCount, dequeueOvercommit, entries,
                     elements, completely, headers, prod, sent, claimed>>
      /\ cons[c].pc = "release" /\ free' = free \cup {cons[c].block}
      /\ Goto(c, IdleCons)
  BY DEF AddBlockToFreeList, sharedVars, indexVars, historyVars, CReturn
<1>2. cons'[c] = IdleCons /\ cons'[c].pc = "idle"
  BY <1>0, <1>1, IdleTyped DEF Goto
<1>3. First(c)' = First(c) /\ Moved(c)' = Moved(c) /\ Emptied(c)' = Emptied(c)
  BY <1>1, <1>2 DEF First, Moved, Emptied, Looking, Clearing
<1>4. PICK b \in Blocks : b = cons[c].block /\ Given(c) = {b} /\ b \notin Linked /\ Given(c)' = {}
  BY <1>0, <1>1, <1>2 DEF BlocksInv, Given
<1>5. /\ blockIndex' = blockIndex /\ Capacity(blockIndex)' = Capacity(blockIndex)
      /\ Ends' = Ends /\ Stored' = Stored /\ Taken' = Taken
      /\ \A j : EntryOf(j)' = EntryOf(j)
  BY <1>1, SameIndex
<1>6. CountInv(c)' /\ LookInv(c)'
  <2>1. cons[c].pc \in Looking \cup Clearing \cup {"release"}
    BY <1>1
  <2> QED BY <1>0, <1>1, <1>2, <2>1, ClearingCounts
<1>7. SpanInv'
  BY <1>0, <1>1 DEF SpanInv, Slot, Half, Modulus
<1>8. ProducerInv(c)'
  <2>1. Ends \in Nat /\ First(c) \in Nat
    BY <1>0, Places
  <2>2. Capacity(blockIndex) \in Nat
    BY <1>0, <2>1, Entries DEF Sizes
  <2>3. Ends - First(c)' <= Ends - First(c) /\ First(c)' \in Nat
    BY <1>3, <2>1
  <2> QED BY <1>0, <1>1, <2>1, <2>2, <2>3, ProducerFrame
<1>9. IndexInv(c)'
  <2>1. ASSUME NEW j \in First(c) .. Stored - 1
        PROVE  BlockOK(c, j)'
    <3>1. BlockOK(c, j)
      BY <1>0 DEF IndexInv
    <3>2. PICK y \in Blocks : y = entries[EntryOf(j)].value /\ y \notin free
      BY <3>1 DEF BlockOK
    <3>3. y \in Linked
      <4>1. EntryOf(j) \in DOMAIN entries
        <5>1. j \in Int /\ Ends \in Nat
          BY <1>0, Places
        <5> QED BY <1>0, <5>1, Entries
      <4> QED BY <3>2, <4>1, SizesAssumption DEF Linked
    <3>4. y \notin free'
      BY <1>1, <1>4, <3>2, <3>3
    <3>5. EntryOf(j)' = EntryOf(j) /\ Key(j)' = Key(j)
      BY <1>5 DEF Key, CounterOf, Modulus
    <3> QED BY <1>1, <1>3, <3>1, <3>2, <3>4, <3>5 DEF BlockOK
  <2>2. (\A x \in DOMAIN headers : HeaderOK(headers[x]))'
    BY <1>0, <1>1 DEF IndexInv, HeaderOK
  <2>3. (\A j \in First(c) .. Stored - 1 : BlockOK(c, j))'
    BY <1>3, <1>5, <2>1
  <2>4. (\A j, x \in First(c) .. Stored - 1 :
            entries[EntryOf(j)].value = entries[EntryOf(x)].value => j = x)'
    BY <1>0, <1>1, <1>3, <1>5 DEF IndexInv
  <2>5. (\A x \in DOMAIN entries : entries[x].value \in Blocks =>
            \E j \in First(c) .. Stored - 1 : x = EntryOf(j))'
    BY <1>0, <1>1, <1>3, <1>5 DEF IndexInv
  <2> QED BY <1>0, <1>1, <1>3, <1>5, <2>2, <2>3, <2>4, <2>5 DEF IndexInv
<1>10. ConsumerInv(c)'
  BY <1>2 DEF ConsumerInv, Looking, Clearing
<1>11. QueueTyped'
  BY <1>0, <1>1, <1>4, IdleTyped DEF QueueTyped, Goto, Index, Modulus
<1>12. BlocksInv(c)'
  <2>1. Linked' = Linked
    BY <1>1 DEF Linked
  <2> QED BY <1>0, <1>1, <1>4, <1>5, <2>1 DEF BlocksInv
<1> QED BY <1>6, <1>7, <1>8, <1>9, <1>10, <1>11, <1>12 DEF IPInv

-----------------------------------------------------------------------------
(* The invariant                                                           *)

LEMMA ProducerKeeps ==
    ASSUME NEW c \in Consumers, IPInv(c), UnsetInv, Enqueue, Excuse
    PROVE  IPInv(c)'
BY EnqueueCalled, EntryFound, BlockIndexGrown, NewBlockIndexFailed, IndexTailStored,
   BlockRequisitioned, RequisitionFailed, IndexTailRewound, ValueStored, Constructed
   DEF Enqueue

LEMMA NeverOvercommits ==
    ASSUME NEW c \in Consumers, IPInv(c)
    PROVE  ~Overcommit(c)
<1>1. cons[c].pc \in ConsumerLabels
  BY DEF IPInv, QueueTyped, ConsumerLocals
<1> QED BY <1>1 DEF Overcommit, ConsumerLabels, Asking, Looking, Clearing

LEMMA ConsumerKeeps ==
    ASSUME NEW c \in Consumers, IPInv(c), Dequeue(c), Excuse
    PROVE  IPInv(c)'
BY DequeueCalled, OvercommitLoaded, Looked, CountedIn, TailReloaded, NeverOvercommits, Claimed,
   BlockIndexLoaded, PosLoaded, BaseLoaded, MovedOut, EmptySet, Unlinked, BlockGivenBack
   DEF Dequeue

LEMMA Stutters ==
    ASSUME NEW c \in Consumers, IPInv(c), UNCHANGED vars
    PROVE  IPInv(c)'
<1>0. /\ SpanInv /\ CountInv(c) /\ ProducerInv(c) /\ IndexInv(c) /\ QueueTyped /\ LookInv(c)
      /\ ConsumerInv(c) /\ BlocksInv(c)
  BY DEF IPInv
<1>1. UNCHANGED <<tailIndex, headIndex, dequeueOptimisticCount, dequeueOvercommit, entries,
                  elements, completely, headers, free, prod, cons, sent, claimed, excused>>
  BY DEF vars, sharedVars, indexVars, blockVars, historyVars
<1>2. /\ First(c)' = First(c) /\ Moved(c)' = Moved(c) /\ Emptied(c)' = Emptied(c)
      /\ Given(c)' = Given(c)
  BY <1>1, SamePlaces
<1>3. /\ Ends' = Ends /\ Stored' = Stored /\ Taken' = Taken
      /\ \A j : EntryOf(j)' = EntryOf(j)
  BY <1>1, SameIndex
<1>4. SameBlocks(c)
  BY <1>1, <1>2, <1>3 DEF SameBlocks
<1>5. SpanInv' /\ CountInv(c)'
  BY <1>0, <1>1 DEF SpanInv, CountInv, Slot, Half, CounterOf, Modulus
<1>6. ProducerInv(c)'
  <2>1. Ends \in Nat /\ First(c) \in Nat
    BY <1>0, Places
  <2>2. Capacity(blockIndex) \in Nat
    BY <1>0, <2>1, Entries DEF Sizes
  <2>3. Ends - First(c)' <= Ends - First(c) /\ First(c)' \in Nat
    BY <1>2, <2>1
  <2> QED BY <1>0, <1>1, <2>1, <2>2, <2>3, ProducerFrame
<1>7. IndexInv(c)'
  BY <1>0, <1>1, <1>4, IndexFrame
<1>8. LookInv(c)'
  BY <1>0, <1>1, <1>4, LookFrame
<1>9. ConsumerInv(c)'
  <2>1. EntryOf(First(c))' = EntryOf(First(c))
    BY <1>2, <1>3 DEF EntryOf, EntryAt
  <2> QED BY <1>0, <1>1, <1>2, <2>1, ConsumerFrame
<1>10. BlocksInv(c)'
  BY <1>0, <1>1, <1>2, <1>3, BlocksFrame
<1>11. QueueTyped'
  BY <1>0, <1>1 DEF QueueTyped, Index, Modulus
<1> QED BY <1>5, <1>6, <1>7, <1>8, <1>9, <1>10, <1>11 DEF IPInv

LEMMA InitHolds ==
    ASSUME NEW c \in Consumers, Init
    PROVE  IPInv(c)
<1> DEFINE n == IMPLICIT_INITIAL_INDEX_SIZE
<1>1. /\ n \in Nat /\ n > 1 /\ MaxElements \in Nat /\ Null \notin Blocks
  BY SizesAssumption
<1>2. BLOCK_SIZE \in Nat /\ BLOCK_SIZE > 1 /\ Modulus \in Nat /\ Half \in Nat
      /\ Half >= Modulus \div 2 /\ 2 * BLOCK_SIZE < Modulus /\ Modulus > 0
  BY ModulusFacts
<1>3. /\ sent = 0 /\ claimed = 0 /\ prod = [pc |-> "idle", entry |-> 0, block |-> Null]
      /\ cons[c] = IdleCons /\ cons = [x \in Consumers |-> IdleCons]
      /\ free = Blocks /\ entries = NoEntries(n)
      /\ prod.pc = "idle" /\ cons[c].pc = "idle" /\ cons[c].ticket = 0
  BY DEF Init, IdleCons
<1>4. CounterOf(0) = 0 /\ Slot(0) = 0 /\ 0 \div BLOCK_SIZE = 0 /\ 0 \in Index
  <2>1. PICK m \in Nat : m = Modulus /\ m > 0
    BY <1>2
  <2>2. 0 % m = 0
    <3>1. 0 \in Int /\ 0 < m /\ 0 >= 0
      BY <2>1
    <3> QED BY <2>1, <3>1, ModSmall
  <2>3. PICK z \in Nat : z = BLOCK_SIZE /\ z > 0
    BY <1>2
  <2>4. 0 % z = 0 /\ 0 \div z = 0
    <3>1. 0 \in Int /\ 0 < z /\ 0 >= 0
      BY <2>3
    <3>2. 0 % z = 0
      BY <2>3, <3>1, ModSmall
    <3> QED BY <2>3, <3>2
  <2> QED BY <2>1, <2>2, <2>3, <2>4 DEF CounterOf, Slot, Index
<1>5. SpanInv
  <2>1. 0 < Half
    <3>1. PICK m \in Nat, h \in Nat, z \in Nat :
            m = Modulus /\ h = Half /\ z = BLOCK_SIZE /\ h >= m \div 2 /\ 2 * z < m /\ z > 1
      BY <1>2
    <3>2. m \div 2 > 0
      BY <3>1
    <3>3. PICK g \in Int : g = m \div 2
      BY <3>1
    <3> QED BY <3>1, <3>2, <3>3
  <2> QED BY <1>1, <1>3, <1>4, <2>1 DEF SpanInv
<1>6. CountInv(c)
  <2>1. 0 + 0 = 0
    OBVIOUS
  <2> QED BY <1>3, <1>4, <2>1 DEF CountInv, Init, Asking
<1>7. First(c) = 0 /\ Block = 0 /\ Ends = 0 /\ Stored = 0 /\ Taken = {} /\ Given(c) = {}
  <2>1. 0 - 0 = 0
    OBVIOUS
  <2> QED BY <1>3, <1>4, <2>1 DEF First, Block, Ends, Stored, Taken, Given, Looking, Clearing, Advanced
<1>8. ProducerInv(c) /\ LookInv(c) /\ ConsumerInv(c)
  BY <1>3, <1>4 DEF ProducerInv, LookInv, ConsumerInv, ProducerLabels, Advanced, Looking, Clearing
<1>9. /\ entries \in Seq(EntryObjects) /\ DOMAIN entries = 1 .. n
      /\ \A i \in 1 .. n : entries[i].value \notin Blocks
  <2>1. INVALID_BLOCK_BASE \in Index
    BY <1>2 DEF INVALID_BLOCK_BASE, Index
  <2>2. \A i \in 1 .. n : NoEntries(n)[i] = [key |-> INVALID_BLOCK_BASE, value |-> Garbage]
    BY DEF NoEntries
  <2>3. NoEntries(n) \in [1 .. n -> EntryObjects]
    BY <2>1 DEF NoEntries, EntryObjects
  <2> QED BY <1>1, <1>3, <2>2, <2>3, GarbageAssumption
<1>10. QueueTyped
  <2>1. prod \in ProducerLocals
    BY <1>3 DEF ProducerLocals, ProducerLabels
  <2>2. cons \in [Consumers -> ConsumerLocals]
    BY <1>3, IdleTyped
  <2>3. elements \in [Blocks -> [0 .. BLOCK_SIZE - 1 -> 0 .. MaxElements]]
    BY <1>1 DEF Init
  <2>4. completely \in [Blocks -> 0 .. BLOCK_SIZE]
    BY <1>2 DEF Init
  <2> QED BY <1>3, <1>9, <2>1, <2>2, <2>3, <2>4 DEF QueueTyped, EntryObjects
<1>11. PICK h : h = [tail |-> n - 1, index |-> [i \in 0 .. n - 1 |-> i + 1]]
  OBVIOUS
<1>12. /\ headers = <<h>> /\ h \in Headers(n)
       /\ DOMAIN h.index = 0 .. n - 1 /\ \A i \in 0 .. n - 1 : h.index[i] = i + 1
  <2>1. h \in Headers(n)
    BY <1>1, <1>11 DEF Headers
  <2>2. headers = <<h>>
    BY <1>11 DEF Init
  <2>3. h.index = [i \in 0 .. n - 1 |-> i + 1]
    BY <1>11
  <2> QED BY <2>1, <2>2, <2>3
<1>13. n \in Sizes
  BY <1>1 DEF Sizes
<1>14. /\ headers \in Seq(UNION {Headers(m) : m \in Sizes}) /\ headers # <<>>
       /\ DOMAIN headers = {1} /\ headers[1] = h /\ blockIndex = h
  <2>1. PICK H : H = UNION {Headers(m) : m \in Sizes}
    OBVIOUS
  <2>2. h \in H
    BY <1>12, <1>13, <2>1
  <2>3. headers \in Seq(H) /\ headers # <<>> /\ Len(headers) = 1 /\ DOMAIN headers = {1} /\ headers[1] = h
    BY <1>12, <2>2
  <2> QED BY <2>1, <2>3 DEF blockIndex
<1>15. IndexInv(c)
  <2>1. HeaderOK(h)
    <3>1. \A i \in 0 .. n - 1 : i + 1 \in 1 .. n
      BY <1>1
    <3> QED BY <1>9, <1>12, <1>13, <3>1 DEF HeaderOK
  <2>2. \A i, k \in DOMAIN blockIndex.index :
           blockIndex.index[i] = blockIndex.index[k] => i = k
    BY <1>1, <1>12, <1>14
  <2>3. Ends - First(c) <= Capacity(blockIndex)
    <3>1. Capacity(blockIndex) = n
      BY <1>12, <1>13, <1>14, HeaderFacts
    <3> QED BY <1>1, <1>7, <3>1
  <2>4. First(c) .. Stored - 1 = {}
    BY <1>7
  <2>5. \A i \in DOMAIN entries : entries[i].value \notin Blocks
    BY <1>9
  <2> QED BY <1>14, <2>1, <2>2, <2>3, <2>4, <2>5 DEF IndexInv
<1>16. BlocksInv(c)
  <2>1. Linked = {}
    BY <1>9 DEF Linked
  <2> QED BY <1>3, <1>7, <2>1 DEF BlocksInv
<1> QED BY <1>5, <1>6, <1>8, <1>10, <1>15, <1>16 DEF IPInv

LEMMA TypesHold ==
    ASSUME NEW c \in Consumers, IPInv(c)
    PROVE  TypeOK
<1>0. SpanInv /\ CountInv(c) /\ IndexInv(c) /\ QueueTyped
  BY DEF IPInv
<1>1. PICK k \in Int : dequeueOptimisticCount = CounterOf(k)
  <2>1. claimed + 1 \in Int /\ claimed + 0 \in Int
    BY <1>0 DEF SpanInv
  <2> QED BY <1>0, <2>1 DEF CountInv
<1>2. CounterOf(sent) \in Index /\ CounterOf(claimed) \in Index /\ CounterOf(k) \in Index /\ 0 \in Index
  <2>1. sent \in Int /\ claimed \in Int
    BY <1>0 DEF SpanInv
  <2>2. 0 \in Index
    BY ModulusFacts DEF Index
  <2> QED BY <2>1, <2>2, SlotOf
<1>3. {tailIndex, headIndex, dequeueOptimisticCount, dequeueOvercommit} \subseteq Index
  BY <1>0, <1>1, <1>2 DEF CountInv
<1>4. \A i \in DOMAIN entries : entries[i] \in [key : Index, value : Blocks \cup {Null, Garbage}]
  <2>1. entries \in Seq(EntryObjects)
    BY <1>0 DEF QueueTyped, EntryObjects
  <2> QED BY <2>1, LenProperties, ElementOfSeq DEF EntryObjects
<1>5. ASSUME NEW i \in DOMAIN headers
      PROVE  /\ headers[i].tail \in DOMAIN headers[i].index
             /\ \A k1 \in DOMAIN headers[i].index : headers[i].index[k1] \in DOMAIN entries
  <2>1. PICK h : h = headers[i] /\ HeaderOK(h)
    BY <1>0 DEF IndexInv
  <2>2. PICK n \in Sizes : h \in Headers(n)
    BY <2>1 DEF HeaderOK
  <2>3. h.tail \in DOMAIN h.index
    BY <2>2, HeaderFacts
  <2> QED BY <2>1, <2>3 DEF HeaderOK
<1> QED BY <1>0, <1>3, <1>4, <1>5 DEF TypeOK, QueueTyped, SpanInv

LEMMA GrowthEntry ==
    ASSUME NEW c \in Consumers, IPInv(c)
    PROVE  blockIndex.index[NextPos(blockIndex)] \in DOMAIN entries
<1>1. SpanInv /\ CountInv(c) /\ ProducerInv(c) /\ IndexInv(c)
  BY DEF IPInv
<1>2. Ends \in Nat
  BY <1>1, Places
<1>3. Ends \in Int
  BY <1>2
<1> QED BY <1>1, <1>2, <1>3, Entries

\* The entry that the producer finds vacant it fills or vacates; entries it
\* adds are not in use yet.
LEMMA ProducerSets ==
    ASSUME NEW c \in Consumers, IPInv(c), UnsetInv, Enqueue
    PROVE  UnsetInv'
<1>0. QueueTyped /\ prod \in ProducerLocals /\ entries \in Seq(EntryObjects)
  BY DEF IPInv, QueueTyped, EntryObjects
<1>1. CASE CallEnqueue \/ NewBlockIndexFails
  <2>1. UNCHANGED entries /\ prod.pc \in {"idle", "new_index"} /\ prod'.pc # "new_index"
    BY <1>0, <1>1 DEF CallEnqueue, NewBlockIndexFails, PGoto, indexVars, ProducerLocals
  <2> QED BY <2>1 DEF UnsetInv, Advanced
<1>2. CASE FindEntry
  <2>1. PICK i \in DOMAIN entries : i = blockIndex.index[NextPos(blockIndex)]
    BY GrowthEntry
  <2>2. prod.pc = "find_entry"
    BY <1>2 DEF FindEntry
  <2>3. CASE entries[i].key = INVALID_BLOCK_BASE \/ entries[i].value = Null
    <3>1. /\ entries' = WithKey(i, tailIndex)
          /\ prod' = [prod EXCEPT !.pc = "store_tail", !.entry = i]
      BY <1>2, <2>1, <2>3 DEF FindEntry, WithKey
    <3>2. prod'.pc = "store_tail" /\ prod'.entry = i
      BY <1>0, <3>1 DEF ProducerLocals
    <3>3. tailIndex \in Index
      BY TypesHold DEF TypeOK
    <3>4. /\ DOMAIN entries' = DOMAIN entries
          /\ \A x \in DOMAIN entries : x # i => entries'[x] = entries[x]
      BY <1>0, <3>1, <3>3, KeySet
    <3> QED BY <2>2, <3>2, <3>4 DEF UnsetInv, Advanced
  <2>4. CASE ~(entries[i].key = INVALID_BLOCK_BASE \/ entries[i].value = Null)
    <3>1. UNCHANGED <<entries, headers>> /\ prod' = [prod EXCEPT !.pc = "new_index"]
      BY <1>2, <2>1, <2>4 DEF FindEntry
    <3>2. blockIndex' = blockIndex /\ NextPos(blockIndex)' = NextPos(blockIndex)
      BY <3>1 DEF blockIndex, NextPos, Capacity
    <3> QED BY <2>1, <2>2, <2>4, <3>1, <3>2 DEF UnsetInv, Advanced
  <2> QED BY <2>3, <2>4
<1>3. CASE NewBlockIndex
  <2>1. /\ prod.pc = "new_index" /\ prod'.pc = "find_entry"
        /\ entries' = entries \o NoEntries(Capacity(blockIndex))
    BY <1>0, <1>3 DEF NewBlockIndex, PGoto, ProducerLocals
  <2>2. PICK n \in Nat : n = Capacity(blockIndex)
    <3>1. SpanInv /\ CountInv(c) /\ ProducerInv(c) /\ IndexInv(c)
      BY DEF IPInv
    <3>2. Ends \in Nat
      BY <3>1, Places
    <3> QED BY <3>1, <3>2, Entries DEF Sizes
  <2>3. /\ NoEntries(n) \in Seq(EntryObjects) /\ Len(NoEntries(n)) = n
        /\ \A x \in 1 .. n : NoEntries(n)[x].key = INVALID_BLOCK_BASE
    <3>1. INVALID_BLOCK_BASE \in Index
      BY ModulusFacts DEF INVALID_BLOCK_BASE, Index
    <3> QED BY <3>1, IsASeq DEF NoEntries, EntryObjects
  <2>4. PICK L \in Nat : L = Len(entries) /\ DOMAIN entries = 1 .. L
    BY <1>0, LenProperties
  <2>5. /\ entries' \in Seq(EntryObjects) /\ Len(entries') = L + n
        /\ \A x \in 1 .. L + n :
              entries'[x] = IF x <= L THEN entries[x] ELSE NoEntries(n)[x - L]
    <3>1. entries' = entries \o NoEntries(n)
      BY <2>1, <2>2
    <3>2. entries \in Seq(EntryObjects) /\ NoEntries(n) \in Seq(EntryObjects) /\ Len(NoEntries(n)) = n
      BY <1>0, <2>3
    <3> DEFINE new == NoEntries(n)
    <3>3. /\ entries \in Seq(EntryObjects) /\ new \in Seq(EntryObjects)
          /\ Len(new) = n /\ Len(entries) = L /\ entries' = entries \o new
      BY <2>4, <3>1, <3>2
    <3> HIDE DEF new
    <3>4. /\ entries \o new \in Seq(EntryObjects)
          /\ Len(entries \o new) = Len(entries) + Len(new)
          /\ \A x \in 1 .. Len(entries) + Len(new) :
                (entries \o new)[x] =
                  IF x <= Len(entries) THEN entries[x] ELSE new[x - Len(entries)]
      BY <3>3, ConcatProperties, Zenon
    <3>5. /\ entries' \in Seq(EntryObjects) /\ Len(entries') = L + n
          /\ \A x \in 1 .. L + n :
                entries'[x] = IF x <= L THEN entries[x] ELSE new[x - L]
      BY <3>3, <3>4, Zenon
    <3> QED BY <3>5 DEF new
  <2>6. DOMAIN entries' = 1 .. L + n
    BY <2>5, LenProperties
  <2>7. ASSUME NEW x \in DOMAIN entries', entries'[x].value = Garbage
        PROVE  entries'[x].key = INVALID_BLOCK_BASE
    <3>1. x \in 1 .. L + n
      BY <2>6
    <3>2. CASE x <= L
      <4>1. x \in DOMAIN entries /\ entries'[x] = entries[x]
        BY <2>4, <2>5, <3>1, <3>2
      <4> QED BY <2>1, <2>7, <4>1 DEF UnsetInv, Advanced
    <3>3. CASE ~(x <= L)
      <4>1. x - L \in 1 .. n /\ entries'[x] = NoEntries(n)[x - L]
        BY <2>2, <2>4, <2>5, <3>1, <3>3
      <4> QED BY <2>3, <4>1
    <3> QED BY <3>2, <3>3
  <2> QED BY <2>1, <2>7 DEF UnsetInv
<1>4. CASE StoreIndexTail \/ RequisitionBlock \/ RequisitionFails
  <2>1. /\ UNCHANGED entries /\ prod'.entry = prod.entry
        /\ prod.pc \in {"store_tail"} \cup Advanced /\ prod'.pc \in Advanced
        /\ prod'.pc # "new_index"
    BY <1>0, <1>4 DEF StoreIndexTail, RequisitionBlock, RequisitionFails, PGoto, indexVars,
                      ProducerLocals, Advanced
  <2> QED BY <2>1 DEF UnsetInv
<1>5. CASE RewindBlockIndexTail \/ StoreValue
  <2>1. PICK b \in Blocks \cup {Null} : entries' = WithValue(prod.entry, b)
    <3>1. prod.block \in Blocks \cup {Null}
      BY <1>0 DEF ProducerLocals
    <3> QED BY <1>5, <3>1 DEF RewindBlockIndexTail, StoreValue, WithValue
  <2>2. prod.pc \in Advanced /\ prod'.pc \in {"idle", "construct"}
    BY <1>0, <1>5 DEF RewindBlockIndexTail, StoreValue, PGoto, ProducerLocals, Advanced
  <2>3. prod.entry \in DOMAIN entries
    BY <2>2, EntryInHand
  <2>4. /\ DOMAIN entries' = DOMAIN entries /\ entries'[prod.entry].value = b
        /\ \A x \in DOMAIN entries : x # prod.entry => entries'[x] = entries[x]
    <3>1. b \in Blocks \cup {Null, Garbage}
      OBVIOUS
    <3> QED BY <1>0, <2>1, <2>3, <3>1, ValueSet
  <2>5. b # Garbage
    BY GarbageAssumption
  <2> QED BY <2>2, <2>4, <2>5 DEF UnsetInv
<1>6. CASE Construct
  <2>1. UNCHANGED entries /\ prod.pc = "construct" /\ prod'.pc = "idle"
    BY <1>0, <1>6 DEF Construct, PGoto, indexVars, ProducerLocals
  <2> QED BY <2>1 DEF UnsetInv, Advanced
<1> QED BY <1>1, <1>2, <1>3, <1>4, <1>5, <1>6 DEF Enqueue

LEMMA InitUnset ==
    ASSUME Init
    PROVE  UnsetInv
<1>1. entries = NoEntries(IMPLICIT_INITIAL_INDEX_SIZE) /\ prod.pc = "idle"
  BY DEF Init
<1>2. \A i \in DOMAIN entries : entries[i].key = INVALID_BLOCK_BASE
  BY <1>1 DEF NoEntries
<1> QED BY <1>1, <1>2 DEF UnsetInv

\* A consumer only takes values away.
LEMMA ConsumerUnlinks ==
    ASSUME NEW c \in Consumers, IPInv(c), UnsetInv, Dequeue(c)
    PROVE  UnsetInv'
<1>1. UNCHANGED <<prod, headers>>
  BY DEF Dequeue, CallDequeue, LoadOvercommit, Look, CountIn, ReloadTail, Overcommit, Claim,
         LoadBlockIndex, LoadPos, LoadBase, MoveOut, SetEmpty, Unlink, AddBlockToFreeList,
         indexVars
<1>2. \/ UNCHANGED entries
      \/ \E i \in DOMAIN entries : entries' = WithValue(i, Null)
  <2>1. CASE Unlink(c)
    <3>1. cons[c].pc \in Clearing
      BY <2>1 DEF Unlink, Clearing
    <3>2. cons[c].entry \in DOMAIN entries
      BY <3>1, OldestBlock
    <3> QED BY <2>1, <3>2 DEF Unlink, WithValue
  <2>2. CASE ~Unlink(c)
    BY <2>2 DEF Dequeue, CallDequeue, LoadOvercommit, Look, CountIn, ReloadTail, Overcommit,
                Claim, LoadBlockIndex, LoadPos, LoadBase, MoveOut, SetEmpty,
                AddBlockToFreeList, indexVars
  <2> QED BY <2>1, <2>2
<1>3. /\ DOMAIN entries' = DOMAIN entries
      /\ \A x \in DOMAIN entries : entries'[x].key = entries[x].key
      /\ \A x \in DOMAIN entries : entries'[x].value = Garbage => entries[x].value = Garbage
  <2>1. CASE UNCHANGED entries
    BY <2>1
  <2>2. CASE \E i \in DOMAIN entries : entries' = WithValue(i, Null)
    <3>1. PICK i \in DOMAIN entries : entries' = WithValue(i, Null)
      BY <2>2
    <3>2. QueueTyped /\ Null \in Blocks \cup {Null, Garbage}
      BY DEF IPInv
    <3>3. /\ DOMAIN entries' = DOMAIN entries /\ entries'[i].value = Null
          /\ \A x \in DOMAIN entries : entries'[x].key = entries[x].key
          /\ \A x \in DOMAIN entries : x # i => entries'[x] = entries[x]
      BY <3>1, <3>2, ValueSet
    <3> QED BY <3>3, GarbageAssumption
  <2> QED BY <1>2, <2>1, <2>2
<1>4. ASSUME prod.pc = "new_index"
      PROVE  blockIndex.index[NextPos(blockIndex)] \in DOMAIN entries
  BY <1>4, GrowthEntry
<1>5. blockIndex' = blockIndex /\ NextPos(blockIndex)' = NextPos(blockIndex)
  BY <1>1 DEF blockIndex, NextPos, Capacity
<1> QED BY <1>1, <1>3, <1>4, <1>5 DEF UnsetInv

\* The sub-queue has one consumer, as the sub-queues of the node do.
OneConsumer == \E c : Consumers = {c}
Only == CHOOSE c : Consumers = {c}

LEMMA OnlyOne ==
    ASSUME OneConsumer
    PROVE  Consumers = {Only} /\ Only \in Consumers
BY DEF OneConsumer, Only

LEMMA SubQueueInvariant ==
    ASSUME OneConsumer
    PROVE  Spec => [](IPInv(Only) /\ UnsetInv)
<1>1. Init => IPInv(Only) /\ UnsetInv
  BY InitHolds, InitUnset, OnlyOne
<1>2. IPInv(Only) /\ UnsetInv /\ [Next]_vars => (IPInv(Only) /\ UnsetInv)'
  <2>1. CASE Enqueue /\ Excuse
    BY <2>1, ProducerKeeps, ProducerSets, OnlyOne
  <2>2. CASE (\E c \in Consumers : Dequeue(c)) /\ Excuse
    BY <2>2, ConsumerKeeps, ConsumerUnlinks, OnlyOne
  <2>3. CASE UNCHANGED vars
    <3>1. UnsetInv => UnsetInv'
      BY <2>3 DEF UnsetInv, vars, indexVars, blockIndex, NextPos, Capacity
    <3> QED BY <2>3, <3>1, Stutters, OnlyOne
  <2> QED BY <2>1, <2>2, <2>3 DEF Next
<1> QED BY <1>1, <1>2, PTL DEF Spec

-----------------------------------------------------------------------------
(* What the sub-queue promises                                             *)

LEMMA FindsBlock ==
    ASSUME NEW c, Consumers = {c}, IPInv(c)
    PROVE  IndexFindsBlock
<1>1. SUFFICES ASSUME cons[c].pc = "move"
               PROVE  /\ entries[cons[c].entry].key = Base(cons[c].index)
                      /\ entries[cons[c].entry].value \in Blocks
  BY DEF IndexFindsBlock
<1>2. PICK f \in Nat, b \in Blocks :
        /\ f = First(c) /\ b = entries[EntryOf(f)].value /\ cons[c].entry = EntryOf(f)
        /\ claimed - 1 \in Nat /\ f = (claimed - 1) \div BLOCK_SIZE /\ BlockOK(c, f)
  BY <1>1, OldestBlock
<1>3. cons[c].index = CounterOf(claimed - 1)
  BY <1>1 DEF IPInv, ConsumerInv, Looking
<1>4. Base(CounterOf(claimed - 1)) = Key(f)
  BY <1>2, KeyFacts
<1> QED BY <1>2, <1>3, <1>4, SizesAssumption DEF BlockOK

\* Between the calls a block in the index holds an element, or room for one.
LEMMA InUse ==
    ASSUME NEW c \in Consumers, IPInv(c), prod.pc = "idle", cons[c].pc = "idle",
           NEW b \in Linked
    PROVE  \/ \E y \in DOMAIN elements[b] : elements[b][y] # 0
           \/ b = prod.block /\ Slot(tailIndex) # 0
<1>0. SpanInv /\ CountInv(c) /\ IndexInv(c) /\ ProducerInv(c) /\ QueueTyped
  BY DEF IPInv
<1>1. PICK i \in DOMAIN entries : entries[i].value = b /\ b \in Blocks
  BY DEF Linked
<1>2. PICK j \in First(c) .. Stored - 1 : i = EntryOf(j)
  BY <1>0, <1>1 DEF IndexInv
<1>3. PICK f \in Nat, w \in Nat, t \in Nat, n \in Nat, s \in 0 .. BLOCK_SIZE - 1 :
        /\ f = First(c) /\ w = Block /\ t = Stored /\ n = BLOCK_SIZE /\ n > 1
        /\ s = Slot(sent) /\ sent = w * n + s
  BY <1>0, Places, ModulusFacts
<1>4. sent \in Nat /\ claimed \in Nat /\ claimed <= sent
  BY <1>0 DEF SpanInv
<1>5. Moved(c) = claimed /\ f = claimed \div BLOCK_SIZE
  <2>1. claimed - 0 = claimed
    BY <1>4
  <2> QED BY <1>3, <2>1 DEF Moved, First, Looking, Clearing
<1>6. t = IF s # 0 THEN w + 1 ELSE w
  BY <1>3 DEF Stored, Ends, Advanced
<1>7. CASE j = w
  <2>1. s # 0
    BY <1>2, <1>3, <1>6, <1>7
  <2>2. b = prod.block
    BY <1>0, <1>1, <1>2, <1>3, <1>7, <2>1 DEF ProducerInv
  <2>3. Slot(tailIndex) = s
    <3>1. sent \in Int /\ tailIndex = CounterOf(sent)
      BY <1>0, <1>4 DEF CountInv
    <3> QED BY <1>3, <3>1, SlotOf
  <2> QED BY <2>1, <2>2, <2>3
<1>8. CASE j # w
  <2>1. j \in f .. w - 1
    <3>1. j \in f .. t - 1
      BY <1>2, <1>3
    <3> QED BY <1>6, <1>8, <3>1
  <2>2. BlockOK(c, j) /\ b \in Blocks
    BY <1>0, <1>1, <1>2 DEF IndexInv, BlockOK
  <2>3. PICK u \in Int, v \in Int, d \in Int :
          u = j * n /\ v = w * n /\ d = f * n /\ v - u >= n /\ u >= d
    <3>1. w - j \in Int /\ w - j > 0 /\ n > 0
      BY <1>3, <2>1
    <3>2. n * (w - j) >= n
      BY <3>1, MulMono
    <3>3. PICK u \in Int, v \in Int, d \in Int : u = j * n /\ v = w * n /\ d = f * n
      OBVIOUS
    <3>4. v - u >= n
      BY <3>2, <3>3
    <3>5. u >= d
      <4>1. CASE j = f
        BY <3>3, <4>1
      <4>2. CASE j # f
        <5>1. j - f \in Int /\ j - f > 0
          BY <2>1, <4>2
        <5>2. n * (j - f) >= n
          BY <3>1, <5>1, MulMono
        <5> QED BY <3>1, <3>3, <5>2
      <4> QED BY <4>1, <4>2
    <3> QED BY <3>3, <3>4, <3>5
  <2>4. claimed < d + n
    <3>1. PICK g \in Int : g = f + 1
      OBVIOUS
    <3>2. claimed < g * BLOCK_SIZE
      BY <1>4, <1>5, <3>1, BlockOf
    <3>3. g * n = d + n
      BY <2>3, <3>1
    <3> QED BY <1>3, <3>2, <3>3
  <2>5. PICK y \in 0 .. n - 1, e \in Int : y = n - 1 /\ e = u + n /\ e = j * n + y + 1
    BY <1>3, <2>3
  <2>6. claimed < e /\ e <= sent /\ e # 0
    BY <1>3, <1>4, <2>3, <2>4, <2>5
  <2>7. b = entries[EntryOf(j)].value
    BY <1>1, <1>2
  <2>8. elements[b][y] = j * BLOCK_SIZE + y + 1
    BY <1>3, <1>5, <2>2, <2>5, <2>6, <2>7 DEF BlockOK
  <2>9. DOMAIN elements[b] = 0 .. n - 1
    BY <1>0, <1>3, <2>2 DEF QueueTyped
  <2>10. elements[b][y] # 0 /\ y \in DOMAIN elements[b]
    BY <1>3, <2>5, <2>6, <2>8, <2>9
  <2> QED BY <2>10
<1> QED BY <1>7, <1>8

LEMMA Accounted ==
    ASSUME NEW c, Consumers = {c}, IPInv(c)
    PROVE  BlocksAccounted
<1>0. SpanInv /\ CountInv(c) /\ IndexInv(c) /\ ProducerInv(c) /\ BlocksInv(c)
  BY DEF IPInv
<1>1. free \cap Linked = {}
  <2>1. SUFFICES ASSUME NEW b \in Linked PROVE b \notin free
    OBVIOUS
  <2>2. PICK i \in DOMAIN entries : entries[i].value = b /\ b \in Blocks
    BY DEF Linked
  <2>3. PICK j \in First(c) .. Stored - 1 : i = EntryOf(j)
    BY <1>0, <2>2 DEF IndexInv
  <2>4. BlockOK(c, j)
    BY <1>0 DEF IndexInv
  <2> QED BY <2>2, <2>3, <2>4 DEF BlockOK
<1>2. prod.pc = "store_value" => prod.block \notin free \cup Linked
  BY <1>0 DEF BlocksInv, Taken
<1>3. \A x \in Consumers : cons[x].pc \in {"set_empty", "unlink"} => cons[x].block \notin free
  <2>1. SUFFICES ASSUME cons[c].pc \in Clearing PROVE cons[c].block \notin free
    BY DEF Clearing
  <2> QED BY <2>1, OldestBlock
<1>4. ASSUME prod.pc = "idle", \A x \in Consumers : ~Inside(x)
      PROVE  free \cup Linked = Blocks
  BY <1>0, <1>4 DEF BlocksInv, Taken, Given, Inside
<1>5. ASSUME prod.pc = "idle", \A x \in Consumers : ~Inside(x), NEW b \in Linked
      PROVE  \/ \E i \in DOMAIN elements[b] : elements[b][i] # 0
             \/ b = prod.block /\ Slot(tailIndex) # 0
  BY <1>5, InUse DEF Inside
<1> QED BY <1>1, <1>2, <1>3, <1>4, <1>5 DEF BlocksAccounted

LEMMA GrowsForBlocks ==
    ASSUME OneConsumer, IPInv(Only), UnsetInv
    PROVE  GrowsOnlyPastBlocks
<1>1. SUFFICES ASSUME prod.pc = "new_index"
               PROVE  entries[blockIndex.index[NextPos(blockIndex)]].value # Garbage
  BY DEF GrowsOnlyPastBlocks
<1>2. blockIndex.index[NextPos(blockIndex)] \in DOMAIN entries
  BY <1>1, GrowthEntry, OnlyOne
<1> QED BY <1>1, <1>2 DEF UnsetInv, Advanced

\* insert_block_index_entry, rewind_block_index_tail, requisition_block, dequeue:
\* of the sub-queue of a producer, from which one consumer takes, the block
\* index leads that consumer to the block of its element, no block is lost or
\* in two places, and a new index is made only past an entry that was used for
\* a block, whatever calls failed before and whatever memory held where entries
\* were made, whatever the sizes and however often the indices wrap around.
THEOREM SubQueueIndexSound ==
    ASSUME OneConsumer
    PROVE  Spec => []BlockIndexSound
<1>1. IPInv(Only) /\ UnsetInv => BlockIndexSound
  BY OnlyOne, TypesHold, FindsBlock, Accounted, GrowsForBlocks DEF BlockIndexSound
<1> QED BY <1>1, SubQueueInvariant, PTL

\* A call of the only consumer ends without an element only after its first look.
LEMMA PollHonest ==
    ASSUME NEW c \in Consumers, Consumers = {c}, IPInv(c), [Next]_vars
    PROVE  Inside(c) /\ ~Inside(c)' /\ cons[c].ticket = 0 => excused[c]
<1>0. /\ CountInv(c) /\ cons \in [Consumers -> ConsumerLocals] /\ IPInv(c)
  BY DEF IPInv, QueueTyped
<1>1. SUFFICES ASSUME cons[c].pc # "idle", cons'[c].pc = "idle", cons[c].ticket = 0
               PROVE  excused[c]
  BY DEF Inside
<1>2. cons[c].pc \in Asking
  <2>1. 0 < claimed => claimed # 0
    BY <1>0 DEF IPInv, SpanInv
  <2> QED BY <1>0, <1>1, <2>1 DEF CountInv
<1>3. Dequeue(c) /\ Excuse
  <2>1. cons' # cons
    BY <1>1
  <2>2. ~Enqueue
    BY <2>1 DEF Enqueue, CallEnqueue, FindEntry, NewBlockIndex, NewBlockIndexFails,
                StoreIndexTail, RequisitionBlock, RequisitionFails, RewindBlockIndexTail,
                StoreValue, Construct
  <2>3. ~UNCHANGED vars
    BY <2>1 DEF vars
  <2> QED BY <2>2, <2>3 DEF Next
<1>4. CASE Look(c)
  BY <1>1, <1>3, <1>4, Looked
<1>5. CASE LoadOvercommit(c)
  <2>1. PICK k \in ConsumerLocals : k = cons[c]
    BY <1>0
  <2>2. cons'[c] = [k EXCEPT !.pc = "look", !.over = dequeueOvercommit]
    BY <1>0, <1>5, <2>1 DEF LoadOvercommit, Goto
  <2>3. cons'[c].pc = "look"
    BY <2>2 DEF ConsumerLocals
  <2> QED BY <1>1, <2>3
<1>6. CASE CountIn(c)
  <2>1. PICK k \in ConsumerLocals : k = cons[c]
    BY <1>0
  <2>2. cons'[c] = [k EXCEPT !.pc = "reload_tail", !.my = dequeueOptimisticCount]
    BY <1>0, <1>6, <2>1 DEF CountIn, Goto
  <2>3. cons'[c].pc = "reload_tail"
    BY <2>2 DEF ConsumerLocals
  <2> QED BY <1>1, <2>3
<1>7. CASE ReloadTail(c)
  BY <1>1, <1>3, <1>7, TailReloaded
<1>8. CASE Claim(c)
  <2>1. PICK k \in ConsumerLocals : k = cons[c]
    BY <1>0
  <2>2. cons'[c] = [k EXCEPT !.pc = "load_index", !.index = headIndex, !.ticket = claimed + 1]
    BY <1>0, <1>8, <2>1 DEF Claim, Goto
  <2>3. cons'[c].pc = "load_index"
    BY <2>2 DEF ConsumerLocals
  <2> QED BY <1>1, <2>3
<1>9. ~(CallDequeue(c) \/ Overcommit(c) \/ LoadBlockIndex(c) \/ LoadPos(c) \/ LoadBase(c)
        \/ MoveOut(c) \/ SetEmpty(c) \/ Unlink(c) \/ AddBlockToFreeList(c))
  BY <1>2 DEF Asking, CallDequeue, Overcommit, LoadBlockIndex, LoadPos, LoadBase, MoveOut,
              SetEmpty, Unlink, AddBlockToFreeList
<1> QED BY <1>3, <1>4, <1>5, <1>6, <1>7, <1>8, <1>9 DEF Dequeue

\* dequeue: a call of the only consumer that returns without an element has
\* seen all that was enqueued promised to somebody.
THEOREM SubQueuePollHonest ==
    ASSUME OneConsumer
    PROVE  Spec => FailsOnlyIfEmptyOrContended
<1>1. IPInv(Only) /\ [Next]_vars =>
        [\A c \in Consumers :
            Inside(c) /\ ~Inside(c)' /\ cons[c].ticket = 0 => excused[c]]_vars
  BY OnlyOne, PollHonest
<1> QED BY <1>1, SubQueueInvariant, PTL DEF Spec, FailsOnlyIfEmptyOrContended

-----------------------------------------------------------------------------
(* The sub-queue is a FIFO queue                                           *)

\* The numbers after k, up to z.
Run(k, z) == [i \in 1 .. z - k |-> k + i]

LEMMA RunIs ==
    ASSUME NEW k \in Nat, NEW n \in Nat
    PROVE  \E r \in Seq(Nat) : r = Run(k, k + n) /\ Len(r) = n /\ \A i \in 1 .. n : r[i] = k + i
<1>1. PICK r : r = [i \in 1 .. n |-> k + i]
  OBVIOUS
<1>2. r = Run(k, k + n)
  <2>1. (k + n) - k = n
    OBVIOUS
  <2> QED BY <1>1, <2>1 DEF Run
<1>3. r \in [1 .. n -> Nat] /\ \A i \in 1 .. n : r[i] = k + i
  BY <1>1
<1>4. r \in Seq(Nat) /\ Len(r) = n
  BY <1>3
<1> QED BY <1>2, <1>3, <1>4

LEMMA Runs ==
    ASSUME NEW k \in Nat, NEW z \in Nat, k <= z
    PROVE  /\ Append(Run(k, z), z + 1) = Run(k, z + 1)
           /\ k = z => Run(k, z) = <<>>
           /\ k < z => /\ Run(k, z) # <<>> /\ Head(Run(k, z)) = k + 1
                       /\ Tail(Run(k, z)) = Run(k + 1, z)
<1>1. PICK n \in Nat : z = k + n
  <2>1. z - k \in Nat /\ z = k + (z - k)
    OBVIOUS
  <2> QED BY <2>1
<1>2. PICK r \in Seq(Nat) : r = Run(k, z) /\ Len(r) = n /\ \A i \in 1 .. n : r[i] = k + i
  BY <1>1, RunIs
<1>3. Append(r, z + 1) = Run(k, z + 1)
  <2>0. z + 1 \in Nat
    OBVIOUS
  <2>1. PICK a : a = Append(r, z + 1)
    OBVIOUS
  <2>2. a \in Seq(Nat) /\ Len(a) = n + 1 /\ a[n + 1] = z + 1 /\ \A i \in 1 .. n : a[i] = r[i]
    BY <1>2, <2>0, <2>1, AppendProperties
  <2>3. PICK b \in Seq(Nat) : b = Run(k, z + 1) /\ Len(b) = n + 1 /\ \A i \in 1 .. n + 1 : b[i] = k + i
    <3>1. PICK m \in Nat : m = n + 1 /\ z + 1 = k + m
      BY <1>1
    <3>2. PICK b \in Seq(Nat) : b = Run(k, k + m) /\ Len(b) = m /\ \A i \in 1 .. m : b[i] = k + i
      BY RunIs
    <3> QED BY <3>1, <3>2
  <2>4. ASSUME NEW i \in 1 .. n + 1 PROVE a[i] = b[i]
    <3>1. CASE i = n + 1
      <4>1. b[i] = k + (n + 1)
        BY <2>3, <3>1
      <4>2. k + (n + 1) = z + 1
        BY <1>1
      <4> QED BY <2>2, <3>1, <4>1, <4>2
    <3>2. CASE i # n + 1
      <4>1. i \in 1 .. n
        BY <3>2
      <4> QED BY <1>2, <2>2, <2>3, <4>1
    <3> QED BY <3>1, <3>2
  <2> QED BY <2>1, <2>2, <2>3, <2>4, SeqEqual
<1>4. k = z => Run(k, z) = <<>>
  <2>1. k = z => n = 0
    BY <1>1
  <2> QED BY <1>2, <2>1, EmptySeq
<1>5. ASSUME k < z
      PROVE  r # <<>> /\ Head(r) = k + 1 /\ Tail(r) = Run(k + 1, z)
  <2>1. n > 0 /\ 1 \in 1 .. n
    BY <1>1, <1>5
  <2>2. r # <<>> /\ Head(r) = k + 1
    BY <1>2, <2>1
  <2>3. PICK a : a = Tail(r)
    OBVIOUS
  <2>4. a \in Seq(Nat) /\ Len(a) = n - 1 /\ \A i \in 1 .. n - 1 : a[i] = r[i + 1]
    BY <1>2, <2>2, <2>3, HeadTailProperties
  <2>5. PICK b \in Seq(Nat) :
          b = Run(k + 1, z) /\ Len(b) = n - 1 /\ \A i \in 1 .. n - 1 : b[i] = (k + 1) + i
    <3>1. PICK m \in Nat, h \in Nat : m = n - 1 /\ h = k + 1 /\ z = h + m
      BY <1>1, <2>1
    <3> QED BY <3>1, RunIs
  <2>6. ASSUME NEW i \in 1 .. n - 1 PROVE a[i] = b[i]
    <3>1. i + 1 \in 1 .. n /\ k + (i + 1) = (k + 1) + i
      BY <2>1
    <3>2. r[i + 1] = k + (i + 1)
      BY <1>2, <3>1
    <3> QED BY <2>4, <2>5, <3>1, <3>2
  <2>7. a = b
    BY <2>4, <2>5, <2>6, SeqEqual
  <2> QED BY <2>2, <2>3, <2>5, <2>7
<1> QED BY <1>2, <1>3, <1>4, <1>5

\* The element a consumer was promised.
Promise(x) == IF cons[x].ticket = 0 THEN Null
              ELSE IF cons[x].pc \in {"set_empty", "unlink", "release"}
                   THEN cons[x].got ELSE cons[x].ticket

LEMMA PromiseKept ==
    ASSUME NEW c \in Consumers, IPInv(c)
    PROVE  Promise(c) = IF cons[c].ticket = 0 THEN Null ELSE claimed
<1>1. CountInv(c) /\ ConsumerInv(c)
  BY DEF IPInv
<1>2. cons[c].ticket # 0 => cons[c].ticket = claimed
  BY <1>1 DEF CountInv
<1>3. cons[c].pc \in {"set_empty", "unlink", "release"} => cons[c].got = claimed
  BY <1>1 DEF ConsumerInv, Clearing
<1> QED BY <1>2, <1>3 DEF Promise

LEMMA PromiseKeptNext ==
    ASSUME NEW c \in Consumers, IPInv(c)'
    PROVE  Promise(c)' = IF cons'[c].ticket = 0 THEN Null ELSE claimed'
<1>1. CountInv(c)' /\ ConsumerInv(c)'
  BY DEF IPInv
<1>2. cons'[c].ticket # 0 => cons'[c].ticket = claimed'
  BY <1>1 DEF CountInv
<1>3. cons'[c].pc \in {"set_empty", "unlink", "release"} => cons'[c].got = claimed'
  BY <1>1 DEF ConsumerInv, Clearing
<1> QED BY <1>2, <1>3 DEF Promise

Waiting == Run(claimed, sent)
Promises == [x \in Consumers |-> Promise(x)]

\* In each step an element is put in at the end, the consumer is promised the
\* first one, it returns, or nothing happens to see.
LEMMA StepsOfFifo ==
    ASSUME NEW c \in Consumers, Consumers = {c}, IPInv(c), IPInv(c)', [Next]_vars
    PROVE  \/ Waiting' = Waiting /\ Promises' = Promises
           \/ /\ sent + 1 \in 1 .. MaxElements
              /\ Waiting' = Append(Waiting, sent + 1) /\ Promises' = Promises
           \/ /\ Waiting # <<>> /\ Promises[c] = Null
              /\ Promises' = [Promises EXCEPT ![c] = Head(Waiting)] /\ Waiting' = Tail(Waiting)
           \/ Promises' = [Promises EXCEPT ![c] = Null] /\ Waiting' = Waiting
<1>0. /\ SpanInv /\ CountInv(c) /\ cons \in [Consumers -> ConsumerLocals]
      /\ sent \in Nat /\ claimed \in Nat /\ claimed <= sent /\ sent <= MaxElements
  BY DEF IPInv, QueueTyped, SpanInv
<1>1. Promises = [x \in Consumers |-> Promise(x)] /\ Promises' = [x \in Consumers |-> Promise(x)']
      /\ Promises[c] = Promise(c)
  BY DEF Promises
<1>2. Promise(c)' = Promise(c) => Promises' = Promises
  BY <1>1
<1>3. \A v : Promise(c)' = v => Promises' = [Promises EXCEPT ![c] = v]
  BY <1>1
<1>4. /\ Promise(c) = IF cons[c].ticket = 0 THEN Null ELSE claimed
      /\ Promise(c)' = IF cons'[c].ticket = 0 THEN Null ELSE claimed'
  BY PromiseKept, PromiseKeptNext
<1>5. ASSUME UNCHANGED <<sent, claimed>>,
             (cons'[c].ticket = 0 <=> cons[c].ticket = 0) \/ cons'[c].ticket = 0
      PROVE  /\ Waiting' = Waiting
             /\ Promises' = Promises \/ Promises' = [Promises EXCEPT ![c] = Null]
  <2>1. Waiting' = Waiting
    BY <1>5 DEF Waiting, Run
  <2> QED BY <1>2, <1>3, <1>4, <1>5, <2>1
<1>6. CASE Construct
  <2>1. sent' = sent + 1 /\ claimed' = claimed /\ cons' = cons /\ prod.pc # "idle"
    BY <1>6 DEF Construct, PGoto
  <2>2. sent + 1 \in 1 .. MaxElements
    BY <1>0, <2>1, SizesAssumption DEF SpanInv
  <2>3. Append(Waiting, sent + 1) = Run(claimed, sent + 1)
    BY <1>0, Runs DEF Waiting
  <2>4. Waiting' = Run(claimed, sent + 1)
    BY <2>1 DEF Waiting, Run
  <2>5. Promises' = Promises
    BY <1>2, <1>4, <2>1
  <2> QED BY <2>2, <2>3, <2>4, <2>5
<1>7. CASE (Enqueue /\ ~Construct) \/ UNCHANGED vars
  <2>1. UNCHANGED <<sent, claimed, cons>>
    BY <1>7 DEF Enqueue, CallEnqueue, FindEntry, NewBlockIndex, NewBlockIndexFails,
                StoreIndexTail, RequisitionBlock, RequisitionFails, RewindBlockIndexTail,
                StoreValue, historyVars, vars
  <2> QED BY <1>5, <2>1
<1>8. CASE Claim(c)
  <2>1. sent' = sent /\ claimed' = claimed + 1 /\ cons[c].pc = "claim" /\ cons[c].ticket = 0
    BY <1>0, <1>8 DEF Claim, CountInv, Asking
  <2>2. claimed < sent
    BY <1>0, <2>1 DEF CountInv
  <2>3. Waiting # <<>> /\ Head(Waiting) = claimed + 1 /\ Tail(Waiting) = Run(claimed + 1, sent)
    BY <1>0, <2>2, Runs DEF Waiting
  <2>4. Waiting' = Run(claimed + 1, sent)
    BY <2>1 DEF Waiting, Run
  <2>5. cons'[c].ticket = claimed + 1
    <3>1. PICK k \in ConsumerLocals : k = cons[c]
      BY <1>0
    <3>2. cons'[c] = [k EXCEPT !.pc = "load_index", !.index = headIndex, !.ticket = claimed + 1]
      BY <1>0, <1>8, <3>1 DEF Claim, Goto
    <3> QED BY <3>2 DEF ConsumerLocals
  <2>6. Promise(c)' = claimed + 1 /\ Promise(c) = Null
    <3>1. claimed + 1 # 0
      BY <1>0
    <3> QED BY <1>4, <2>1, <2>5, <3>1
  <2> QED BY <1>1, <1>3, <2>3, <2>4, <2>6
<1>9. CASE Dequeue(c) /\ ~Claim(c)
  <2>1. UNCHANGED <<sent, claimed>>
    BY <1>9 DEF Dequeue, CallDequeue, LoadOvercommit, Look, CountIn, ReloadTail, Overcommit,
                LoadBlockIndex, LoadPos, LoadBase, MoveOut, SetEmpty, Unlink,
                AddBlockToFreeList, historyVars
  <2>2. cons[c].ticket = 0 <=> cons[c].pc \in Asking \cup {"idle"}
    BY <1>0 DEF CountInv
  <2>3. cons'[c].ticket = 0 <=> cons'[c].pc \in Asking \cup {"idle"}
    <3>1. CountInv(c)' /\ SpanInv'
      BY DEF IPInv
    <3> QED BY <3>1 DEF CountInv, SpanInv
  <2>4. cons[c].pc \in Asking \cup {"idle"} => cons'[c].pc \in Asking \cup {"idle"}
    <3>1. PICK k \in ConsumerLocals : k = cons[c]
      BY <1>0
    <3>2. PICK i \in ConsumerLocals : i = IdleCons
      BY IdleTyped
    <3>3. \A t, m : /\ [i EXCEPT !.pc = "load_over", !.tail = t].pc = "load_over"
                    /\ [k EXCEPT !.pc = "look", !.over = t].pc = "look"
                    /\ [k EXCEPT !.pc = "count", !.tail = 0].pc = "count"
                    /\ [k EXCEPT !.pc = "reload_tail", !.my = m].pc = "reload_tail"
                    /\ [i EXCEPT !.pc = "claim"].pc = "claim"
      BY DEF ConsumerLocals
    <3>4. CASE CallDequeue(c)
      BY <1>0, <3>2, <3>3, <3>4 DEF CallDequeue, Goto, Asking
    <3>5. CASE LoadOvercommit(c)
      BY <1>0, <3>1, <3>3, <3>5 DEF LoadOvercommit, Goto, Asking
    <3>6. CASE Look(c)
      BY <1>0, <3>1, <3>3, <3>6, IdleTyped DEF Look, Goto, CReturn, Asking
    <3>7. CASE CountIn(c)
      BY <1>0, <3>1, <3>3, <3>7 DEF CountIn, Goto, Asking
    <3>8. CASE ReloadTail(c)
      <4>1. Excuse
        <5>1. cons[c].pc = "reload_tail" /\ cons'[c].pc \in {"claim", "overcommit"}
          <6>1. [i EXCEPT !.pc = "overcommit"].pc = "overcommit"
            BY DEF ConsumerLocals
          <6> QED BY <1>0, <3>2, <3>3, <3>8, <6>1 DEF ReloadTail, Goto
        <5>2. ~UNCHANGED vars
          BY <5>1 DEF vars
        <5> QED BY <5>2 DEF Next
      <4>2. cons'[c].pc = "claim"
        BY <3>8, <4>1, TailReloaded
      <4> QED BY <4>2 DEF Asking
    <3>9. cons[c].pc \in Asking \cup {"idle"} =>
             ~(LoadBlockIndex(c) \/ LoadPos(c) \/ LoadBase(c) \/ MoveOut(c) \/ SetEmpty(c)
               \/ Unlink(c) \/ AddBlockToFreeList(c))
      BY DEF Asking, LoadBlockIndex, LoadPos, LoadBase, MoveOut, SetEmpty, Unlink,
             AddBlockToFreeList
    <3> QED BY <1>9, <3>4, <3>5, <3>6, <3>7, <3>8, <3>9, NeverOvercommits DEF Dequeue
  <2>5. (cons'[c].ticket = 0 <=> cons[c].ticket = 0) \/ cons'[c].ticket = 0
    BY <2>2, <2>3, <2>4
  <2> QED BY <1>5, <2>1, <2>5
<1>10. Enqueue \/ Dequeue(c) \/ UNCHANGED vars
  BY DEF Next
<1> QED BY <1>6, <1>7, <1>8, <1>9, <1>10

\* ImplicitProducer::enqueue and dequeue: of the elements of one producer, each
\* comes out of the slot where it was put, once, and in the order they went in.
THEOREM SubQueueIsFifo ==
    ASSUME OneConsumer
    PROVE  Spec => ImplementsFifo
<1>1. Init => Promised!Init
  <2>1. SUFFICES ASSUME Init PROVE Promised!Init
    OBVIOUS
  <2>2. sent = 0 /\ claimed = 0 /\ cons = [c \in Consumers |-> IdleCons]
    BY <2>1 DEF Init
  <2>3. 1 .. sent - claimed = {}
    BY <2>2
  <2>4. \A c \in Consumers : cons[c].ticket = 0
    BY <2>2, IdleTyped
  <2> QED BY <2>3, <2>4 DEF Promised!Init
<1>2. IPInv(Only) /\ IPInv(Only)' /\ [Next]_vars => [Promised!Next]_(Promised!vars)
  <2>1. SUFFICES ASSUME IPInv(Only), IPInv(Only)', [Next]_vars
                 PROVE  [Promised!Next]_(Promised!vars)
    OBVIOUS
  <2> DEFINE c == Only
  <2>2. \/ Waiting' = Waiting /\ Promises' = Promises
        \/ /\ sent + 1 \in 1 .. MaxElements
           /\ Waiting' = Append(Waiting, sent + 1) /\ Promises' = Promises
        \/ /\ Waiting # <<>> /\ Promises[c] = Null
           /\ Promises' = [Promises EXCEPT ![c] = Head(Waiting)] /\ Waiting' = Tail(Waiting)
        \/ Promises' = [Promises EXCEPT ![c] = Null] /\ Waiting' = Waiting
    BY <2>1, OnlyOne, StepsOfFifo
  <2>3. CASE Waiting' = Waiting /\ Promises' = Promises
    BY <2>3 DEF Promised!vars, Waiting, Run, Promises, Promise
  <2>4. CASE /\ sent + 1 \in 1 .. MaxElements
             /\ Waiting' = Append(Waiting, sent + 1) /\ Promises' = Promises
    <3>1. PICK e \in 1 .. MaxElements : e = sent + 1
      BY <2>4
    <3>2. Promised!Enqueue(e)
      BY <2>4, <3>1 DEF Promised!Enqueue, Waiting, Run, Promises, Promise
    <3>3. \E x \in 1 .. MaxElements : Promised!Enqueue(x)
      BY <3>2
    <3> QED BY <3>3 DEF Promised!Next
  <2>5. CASE /\ Waiting # <<>> /\ Promises[c] = Null
             /\ Promises' = [Promises EXCEPT ![c] = Head(Waiting)] /\ Waiting' = Tail(Waiting)
    <3>1. Promised!Dequeue(c)
      BY <2>5 DEF Promised!Dequeue, Waiting, Run, Promises, Promise
    <3> QED BY <3>1, OnlyOne DEF Promised!Next
  <2>6. CASE Promises' = [Promises EXCEPT ![c] = Null] /\ Waiting' = Waiting
    <3>1. Promised!Return(c)
      BY <2>6 DEF Promised!Return, Waiting, Run, Promises, Promise
    <3> QED BY <3>1, OnlyOne DEF Promised!Next
  <2> QED BY <2>2, <2>3, <2>4, <2>5, <2>6
<1> QED BY <1>1, <1>2, SubQueueInvariant, PTL DEF Spec, ImplementsFifo, Promised!Spec

=============================================================================
