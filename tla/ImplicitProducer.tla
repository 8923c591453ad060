-------------------------- MODULE ImplicitProducer --------------------------
(***************************************************************************)
(* The sub-queue of one producer thread in concurrentqueue.h: blocks of    *)
(* elements, found through a growing circular index.  Only its own thread  *)
(* enqueues; any consumer dequeues.  Every access of a variable that       *)
(* another thread may access at the time is a step; what only one thread   *)
(* can reach (a block just requisitioned, the slot of a claimed element)   *)
(* is accessed together with the step before or after.  Indices are        *)
(* integers of IndexBits bits and wrap.                                    *)
(*                                                                         *)
(* The element enqueued k-th is the number k; 0 stands for memory that     *)
(* holds no element.                                                       *)
(***************************************************************************)
EXTENDS Integers, Sequences, FiniteSets

CONSTANTS Consumers,
          Blocks,                       \* blocks of memory, all alike
          Null,
          Garbage,                      \* what memory held before
          BLOCK_SIZE,
          IMPLICIT_INITIAL_INDEX_SIZE,
          IndexBits,                    \* width of index_t
          MaxElements                   \* bound on the elements enqueued

ASSUME SizesAssumption ==
    /\ BLOCK_SIZE \in Nat \ {0, 1}
    /\ IMPLICIT_INITIAL_INDEX_SIZE \in Nat \ {0, 1}
    /\ 2 ^ IndexBits \in Nat /\ 2 * BLOCK_SIZE < 2 ^ IndexBits
    /\ 2 ^ IndexBits % BLOCK_SIZE = 0       \* both are powers of two
    /\ Null \notin Blocks /\ MaxElements \in Nat

ASSUME GarbageAssumption == Garbage \notin Blocks \cup {Null}

VARIABLES
    tailIndex, headIndex,               \* next to enqueue, next to dequeue
    dequeueOptimisticCount, dequeueOvercommit,
    elements,      \* of each block: what its slots hold
    completely,    \* elementsCompletelyDequeued of each block
    entries,       \* BlockIndexEntry objects, in the order they were made
    headers,       \* BlockIndexHeader objects; blockIndex is the last one
    free,          \* blocks of the initial pool, the free list and the heap
    prod,          \* the producer: [pc, entry, block], tailBlock in block
    cons,          \* of each consumer: its pc and locals
    sent, claimed, \* history: how many were enqueued, and promised
    excused        \* history: see FailsOnlyIfEmptyOrContended

sharedVars == <<tailIndex, headIndex, dequeueOptimisticCount,
                dequeueOvercommit>>
indexVars == <<entries, headers>>
blockVars == <<elements, completely, free>>
historyVars == <<sent, claimed>>
vars == <<sharedVars, indexVars, blockVars, prod, cons, historyVars, excused>>

-----------------------------------------------------------------------------
(* Arithmetic of index_t                                                   *)

Modulus == 2 ^ IndexBits
Index == 0 .. Modulus - 1
Wrap(i) == i % Modulus

\* details::circular_less_than: b is ahead of a by less than half the range.
circular_less_than(a, b) == Wrap(a - b) > Modulus \div 2

Slot(i) == i % BLOCK_SIZE
Base(i) == i - Slot(i)

\* The distance between two block bases, in blocks, as a signed number.
BlockOffset(base, from) ==
    LET d == Wrap(base - from)
    IN (IF d >= Modulus \div 2 THEN d - Modulus ELSE d) \div BLOCK_SIZE

INVALID_BLOCK_BASE == 1

-----------------------------------------------------------------------------

\* The value of a new entry is not initialised: at worst it is not null.
NoEntries(n) ==
    [i \in 1 .. n |-> [key |-> INVALID_BLOCK_BASE, value |-> Garbage]]

blockIndex == headers[Len(headers)]
Capacity(h) == Cardinality(DOMAIN h.index)

IdleCons == [pc |-> "idle", tail |-> 0, over |-> 0, my |-> 0, index |-> 0,
             header |-> 0, pos |-> 0, entry |-> 0, block |-> Null,
             ticket |-> 0, got |-> 0]

Init ==
    /\ tailIndex = 0 /\ headIndex = 0
    /\ dequeueOptimisticCount = 0 /\ dequeueOvercommit = 0
    /\ elements = [b \in Blocks |-> [s \in 0 .. BLOCK_SIZE - 1 |-> 0]]
    /\ completely = [b \in Blocks |-> 0]
    /\ entries = NoEntries(IMPLICIT_INITIAL_INDEX_SIZE)
    /\ headers = <<[tail |-> IMPLICIT_INITIAL_INDEX_SIZE - 1,
                    index |-> [i \in 0 .. IMPLICIT_INITIAL_INDEX_SIZE - 1
                                  |-> i + 1]]>>
    /\ free = Blocks
    /\ prod = [pc |-> "idle", entry |-> 0, block |-> Null]
    /\ cons = [c \in Consumers |-> IdleCons]
    /\ sent = 0 /\ claimed = 0
    /\ excused = [c \in Consumers |-> FALSE]

-----------------------------------------------------------------------------
(* ImplicitProducer::enqueue                                               *)

PGoto(from, to) ==
    /\ prod.pc = from
    /\ prod' = [prod EXCEPT !.pc = to]

\* Bound: between claiming an element and finding its block a consumer is not
\* left behind by half the range of the indices, 2^63 elements in the code.
NobodyLags ==
    \A c \in Consumers : cons[c].ticket # 0 =>
        Base(sent) - Base(cons[c].ticket - 1) <= Modulus \div 2

\* Within a block the element is put in its slot at once; at the end of a
\* block a new one is needed, and refused while the queue spans half the
\* range of its indices.
CallEnqueue ==
    /\ prod.pc = "idle"
    /\ sent < MaxElements
    /\ NobodyLags
    /\ \/ Slot(tailIndex) # 0 /\ PGoto("idle", "construct")
       \/ /\ Slot(tailIndex) = 0
          /\ circular_less_than(headIndex, Wrap(tailIndex + BLOCK_SIZE))
          /\ PGoto("idle", "find_entry")
    /\ UNCHANGED <<sharedVars, indexVars, blockVars, cons, historyVars>>

NextPos(h) == (h.tail + 1) % Capacity(h)

\* insert_block_index_entry: the entry after the tail, if it is vacant (which
\* it then stays), is given the key.
FindEntry ==
    LET i == blockIndex.index[NextPos(blockIndex)]
        vacant == \/ entries[i].key = INVALID_BLOCK_BASE
                  \/ entries[i].value = Null
    IN /\ prod.pc = "find_entry"
       /\ IF vacant
          THEN /\ entries' = [entries EXCEPT ![i].key = tailIndex]
               /\ prod' = [prod EXCEPT !.pc = "store_tail", !.entry = i]
          ELSE /\ prod' = [prod EXCEPT !.pc = "new_index"]
               /\ UNCHANGED entries
       /\ UNCHANGED <<sharedVars, headers, blockVars, cons, historyVars>>

\* Mutant: the old entries are copied from the start, not from the oldest on.
Grown_NotRotated(h) ==
    LET n == Capacity(h)
    IN [tail |-> n - 1,
        index |-> [i \in 0 .. 2 * n - 1 |->
                      IF i < n THEN h.index[i] ELSE Len(entries) + i - n + 1]]

\* The next header: the entries of the old one, oldest first, and as many
\* new ones.
Grown(h) ==
    LET n == Capacity(h)
    IN [tail |-> n - 1,
        index |-> [i \in 0 .. 2 * n - 1 |->
                      IF i < n THEN h.index[(h.tail + 1 + i) % n]
                      ELSE Len(entries) + i - n + 1]]

\* The old header stays: a consumer may be looking into it.
NewBlockIndex ==
    /\ PGoto("new_index", "find_entry")
    /\ entries' = entries \o NoEntries(Capacity(blockIndex))
    /\ headers' = Append(headers, Grown(blockIndex))
    /\ UNCHANGED <<sharedVars, blockVars, cons, historyVars>>

\* malloc fails: enqueue returns false, to a caller that does not look.
NewBlockIndexFails ==
    /\ PGoto("new_index", "idle")
    /\ UNCHANGED <<sharedVars, indexVars, blockVars, cons, historyVars>>

StoreIndexTail ==
    /\ PGoto("store_tail", "requisition")
    /\ headers' = [headers EXCEPT ![Len(headers)].tail = NextPos(blockIndex)]
    /\ UNCHANGED <<sharedVars, entries, blockVars, cons, historyVars>>

\* requisition_block and reset_empty; the block is nobody else's.
RequisitionBlock ==
    /\ prod.pc = "requisition"
    /\ \E b \in free :
          /\ free' = free \ {b}
          /\ prod' = [prod EXCEPT !.pc = "store_value", !.block = b]
          /\ completely' = [completely EXCEPT ![b] = 0]
    /\ UNCHANGED <<sharedVars, indexVars, elements, cons, historyVars>>

RequisitionFails ==
    /\ PGoto("requisition", "rewind")
    /\ UNCHANGED <<sharedVars, indexVars, blockVars, cons, historyVars>>

\* Mutant: the entry is not vacated.
RewindBlockIndexTail_KeepsEntry ==
    /\ PGoto("rewind", "idle")
    /\ headers' = [headers EXCEPT ![Len(headers)].tail =
                      (@ - 1) % Capacity(blockIndex)]
    /\ UNCHANGED <<sharedVars, entries, blockVars, cons, historyVars>>

\* rewind_block_index_tail and the entry vacated: enqueue fails.
RewindBlockIndexTail ==
    /\ PGoto("rewind", "idle")
    /\ headers' = [headers EXCEPT ![Len(headers)].tail =
                      (@ - 1) % Capacity(blockIndex)]
    /\ entries' = [entries EXCEPT ![prod.entry].value = Null]
    /\ UNCHANGED <<sharedVars, blockVars, cons, historyVars>>

StoreValue ==
    /\ PGoto("store_value", "construct")
    /\ entries' = [entries EXCEPT ![prod.entry].value = prod.block]
    /\ UNCHANGED <<sharedVars, headers, blockVars, cons, historyVars>>

\* The element is constructed in its slot, then shown by the tail index.
Construct ==
    /\ PGoto("construct", "idle")
    /\ elements' = [elements EXCEPT ![prod.block][Slot(tailIndex)] = sent + 1]
    /\ tailIndex' = Wrap(tailIndex + 1)
    /\ sent' = sent + 1
    /\ UNCHANGED <<completely, free, headIndex, indexVars, cons,
                   dequeueOptimisticCount, dequeueOvercommit, claimed>>

Enqueue ==
    \/ CallEnqueue \/ FindEntry \/ NewBlockIndex \/ NewBlockIndexFails
    \/ StoreIndexTail \/ RequisitionBlock \/ RequisitionFails
    \/ RewindBlockIndexTail \/ StoreValue \/ Construct

-----------------------------------------------------------------------------
(* ImplicitProducer::dequeue                                               *)

\* The consumer moves on with the locals it still needs.
Goto(c, locals) == cons' = [cons EXCEPT ![c] = locals]

CReturn(c) == Goto(c, IdleCons)

CallDequeue(c) ==
    /\ cons[c].pc = "idle"
    /\ Goto(c, [IdleCons EXCEPT !.pc = "load_over", !.tail = tailIndex])
    /\ UNCHANGED <<sharedVars, indexVars, blockVars, prod, historyVars>>

LoadOvercommit(c) ==
    /\ cons[c].pc = "load_over"
    /\ Goto(c, [cons[c] EXCEPT !.pc = "look", !.over = dequeueOvercommit])
    /\ UNCHANGED <<sharedVars, indexVars, blockVars, prod, historyVars>>

\* The first look, which costs no write, and returns false.
Look(c) ==
    /\ cons[c].pc = "look"
    /\ IF circular_less_than(Wrap(dequeueOptimisticCount - cons[c].over),
                             cons[c].tail)
       THEN Goto(c, [cons[c] EXCEPT !.pc = "count", !.tail = 0])
       ELSE CReturn(c)
    /\ UNCHANGED <<sharedVars, indexVars, blockVars, prod, historyVars>>

CountIn(c) ==
    /\ cons[c].pc = "count"
    /\ Goto(c, [cons[c] EXCEPT !.pc = "reload_tail",
                               !.my = dequeueOptimisticCount])
    /\ dequeueOptimisticCount' = Wrap(dequeueOptimisticCount + 1)
    /\ UNCHANGED <<tailIndex, headIndex, dequeueOvercommit, indexVars,
                   blockVars, prod, historyVars>>

\* Mutant: the second look is skipped.
ReloadTail_Trusts(c) ==
    /\ cons[c].pc = "reload_tail"
    /\ Goto(c, [IdleCons EXCEPT !.pc = "claim"])
    /\ UNCHANGED <<sharedVars, indexVars, blockVars, prod, historyVars>>

\* Being counted in, is there still an element for this consumer?
ReloadTail(c) ==
    /\ cons[c].pc = "reload_tail"
    /\ IF circular_less_than(Wrap(cons[c].my - cons[c].over), tailIndex)
       THEN Goto(c, [IdleCons EXCEPT !.pc = "claim"])
       ELSE Goto(c, [IdleCons EXCEPT !.pc = "overcommit"])
    /\ UNCHANGED <<sharedVars, indexVars, blockVars, prod, historyVars>>

\* Mutant: the count of those turned away is not kept.
Overcommit_Forgotten(c) ==
    /\ cons[c].pc = "overcommit"
    /\ CReturn(c)
    /\ UNCHANGED <<dequeueOvercommit, tailIndex, headIndex,
                   dequeueOptimisticCount, indexVars, blockVars, prod,
                   historyVars>>

Overcommit(c) ==
    /\ cons[c].pc = "overcommit"
    /\ CReturn(c)
    /\ dequeueOvercommit' = Wrap(dequeueOvercommit + 1)
    /\ UNCHANGED <<tailIndex, headIndex, dequeueOptimisticCount, indexVars,
                   blockVars, prod, historyVars>>

\* The consumer is promised the element at the head.
Claim(c) ==
    /\ cons[c].pc = "claim"
    /\ Goto(c, [cons[c] EXCEPT !.pc = "load_index", !.index = headIndex,
                               !.ticket = claimed + 1])
    /\ headIndex' = Wrap(headIndex + 1)
    /\ claimed' = claimed + 1
    /\ UNCHANGED <<tailIndex, dequeueOptimisticCount, dequeueOvercommit,
                   indexVars, blockVars, prod, sent>>

\* get_block_index_index_for_index: three loads.
LoadBlockIndex(c) ==
    /\ cons[c].pc = "load_index"
    /\ Goto(c, [cons[c] EXCEPT !.pc = "load_pos", !.header = Len(headers)])
    /\ UNCHANGED <<sharedVars, indexVars, blockVars, prod, historyVars>>

LoadPos(c) ==
    /\ cons[c].pc = "load_pos"
    /\ Goto(c, [cons[c] EXCEPT !.pc = "load_base",
                               !.pos = headers[cons[c].header].tail])
    /\ UNCHANGED <<sharedVars, indexVars, blockVars, prod, historyVars>>

\* The entry of the element is found by its distance from the tail's entry.
LoadBase(c) ==
    /\ cons[c].pc = "load_base"
    /\ LET h == headers[cons[c].header]
           tailBase == entries[h.index[cons[c].pos]].key
           offset == BlockOffset(Base(cons[c].index), tailBase)
       IN Goto(c, [cons[c] EXCEPT
                      !.pc = "move", !.header = 0, !.pos = 0,
                      !.entry = h.index[(cons[c].pos + offset) % Capacity(h)]])
    /\ UNCHANGED <<sharedVars, indexVars, blockVars, prod, historyVars>>

\* The element is moved out of its slot and destroyed there.
MoveOut(c) ==
    /\ cons[c].pc = "move"
    /\ LET b == entries[cons[c].entry].value
           s == Slot(cons[c].index)
       IN /\ Goto(c, [cons[c] EXCEPT !.pc = "set_empty", !.block = b,
                                     !.index = 0, !.got = elements[b][s]])
          /\ elements' = [elements EXCEPT ![b][s] = 0]
    /\ UNCHANGED <<sharedVars, indexVars, completely, free, prod, historyVars>>

\* Block::set_empty: the consumer that empties the block releases it.
SetEmpty(c) ==
    /\ cons[c].pc = "set_empty"
    /\ completely' = [completely EXCEPT ![cons[c].block] = @ + 1]
    /\ IF completely[cons[c].block] = BLOCK_SIZE - 1
       THEN Goto(c, [cons[c] EXCEPT !.pc = "unlink"])
       ELSE CReturn(c)
    /\ UNCHANGED <<sharedVars, indexVars, elements, free, prod, historyVars>>

Unlink(c) ==
    /\ cons[c].pc = "unlink"
    /\ Goto(c, [cons[c] EXCEPT !.pc = "release", !.entry = 0])
    /\ entries' = [entries EXCEPT ![cons[c].entry].value = Null]
    /\ UNCHANGED <<sharedVars, headers, blockVars, prod, historyVars>>

AddBlockToFreeList(c) ==
    /\ cons[c].pc = "release"
    /\ CReturn(c)
    /\ free' = free \cup {cons[c].block}
    /\ UNCHANGED <<sharedVars, indexVars, elements, completely, prod,
                   historyVars>>

Dequeue(c) ==
    \/ CallDequeue(c) \/ LoadOvercommit(c) \/ Look(c) \/ CountIn(c)
    \/ ReloadTail(c) \/ Overcommit(c) \/ Claim(c) \/ LoadBlockIndex(c)
    \/ LoadPos(c) \/ LoadBase(c) \/ MoveOut(c) \/ SetEmpty(c)
    \/ Unlink(c) \/ AddBlockToFreeList(c)

-----------------------------------------------------------------------------

Inside(c) == cons[c].pc # "idle"

\* While consumer c is in dequeue: was there a moment at which all that was
\* enqueued was promised, or another consumer was in dequeue as well?
Excuse ==
    excused' = [c \in Consumers |->
        /\ Inside(c)'
        /\ \/ Inside(c) /\ excused[c]
           \/ sent' = claimed'
           \/ \E o \in Consumers \ {c} : Inside(o)']

Next ==
    /\ Enqueue \/ \E c \in Consumers : Dequeue(c)
    /\ Excuse

Spec == Init /\ [][Next]_vars

-----------------------------------------------------------------------------
(* Properties                                                              *)

TypeOK ==
    /\ {tailIndex, headIndex, dequeueOptimisticCount, dequeueOvercommit}
          \subseteq Index
    /\ elements \in [Blocks -> [0 .. BLOCK_SIZE - 1 -> 0 .. MaxElements]]
    /\ completely \in [Blocks -> 0 .. BLOCK_SIZE]
    /\ \A i \in DOMAIN entries :
          entries[i] \in [key : Index, value : Blocks \cup {Null, Garbage}]
    /\ \A i \in DOMAIN headers :
          /\ headers[i].tail \in DOMAIN headers[i].index
          /\ \A k \in DOMAIN headers[i].index :
                headers[i].index[k] \in DOMAIN entries
    /\ free \subseteq Blocks
    /\ claimed <= sent

\* The assertion of get_block_index_index_for_index (line 2871): although the
\* index wraps, grows and is rewound between its loads, a consumer finds the
\* entry of the block its element is in, and that block is still there.
IndexFindsBlock ==
    \A c \in Consumers :
        cons[c].pc = "move" =>
            /\ entries[cons[c].entry].key = Base(cons[c].index)
            /\ entries[cons[c].entry].value \in Blocks

Linked == {entries[i].value : i \in DOMAIN entries} \cap Blocks

\* A block handed back is in no index and held by nobody; between calls each
\* block is free or linked, and linked only while it holds an element or has
\* room for one: no block leaks, whatever calls failed.
BlocksAccounted ==
    /\ free \cap Linked = {}
    /\ prod.pc = "store_value" => prod.block \notin free \cup Linked
    /\ \A c \in Consumers : cons[c].pc \in {"set_empty", "unlink"} =>
          cons[c].block \notin free
    /\ (prod.pc = "idle" /\ \A c \in Consumers : ~Inside(c)) =>
          /\ free \cup Linked = Blocks
          /\ \A b \in Linked :
                \/ \E i \in DOMAIN elements[b] : elements[b][i] # 0
                \/ b = prod.block /\ Slot(tailIndex) # 0

\* A new index is made only past an entry that held a block when it was found
\* taken (consumers may have unlinked it since), never past one that an
\* enqueue without a block left behind: calls that fail do not grow the index.
GrowsOnlyPastBlocks ==
    prod.pc = "new_index" =>
        entries[blockIndex.index[NextPos(blockIndex)]].value # Garbage

\* The block index and the free list agree on every block, in every state of
\* the calls (insert_block_index_entry, rewind_block_index_tail,
\* requisition_block, dequeue), and the index grows for blocks only.
BlockIndexSound ==
    TypeOK /\ IndexFindsBlock /\ BlocksAccounted /\ GrowsOnlyPastBlocks

\* A dequeue that returns false without an element to return has seen the
\* sub-queue empty, or met another consumer in it.  With one consumer, as in
\* the deadline handler, a poll never overlooks an element.
FailsOnlyIfEmptyOrContended ==
    [][\A c \in Consumers :
          Inside(c) /\ ~Inside(c)' /\ cons[c].ticket = 0 => excused[c]]_vars

\* The sub-queue is a FIFO queue: the element a consumer was promised is the
\* one it moves out.
Promised == INSTANCE FifoQueue WITH
    Elements <- 1 .. MaxElements,
    NoElement <- Null,
    q <- [i \in 1 .. sent - claimed |-> claimed + i],
    item <- [c \in Consumers |->
                IF cons[c].ticket = 0 THEN Null
                ELSE IF cons[c].pc \in {"set_empty", "unlink", "release"}
                     THEN cons[c].got ELSE cons[c].ticket]

ImplementsFifo == Promised!Spec

=============================================================================
