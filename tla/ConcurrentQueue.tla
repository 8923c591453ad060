-------------------------- MODULE ConcurrentQueue ---------------------------
(***************************************************************************)
(* The request queue q_ over its sub-queues, from concurrentqueue.h: how a *)
(* thread that enqueues finds or makes its own sub-queue in a hash table   *)
(* that grows while others use it, and how a consumer picks the sub-queue  *)
(* it polls.  The sub-queues are the FIFO queues that ImplicitProducer is  *)
(* shown to implement.                                                     *)
(*                                                                         *)
(* Keys are written once and never removed (the queue is compiled without  *)
(* thread exit listeners), so what a probe passes stays passed: a table is *)
(* searched, and a slot of it taken, in one step.  A sub-queue is known by *)
(* its number in the order of creation; 0 is the null pointer.             *)
(***************************************************************************)
EXTENDS Integers, Sequences, FiniteSets, LinkedList

CONSTANTS Threads,                \* threads that enqueue
          Consumers,
          Once,                   \* bound: consumers that poll only once
          NoThread,               \* invalid_thread_id
          hash_thread_id,         \* hash of each thread's id
          INITIAL_IMPLICIT_PRODUCER_HASH_SIZE,
          MaxCalls                \* bound: calls of enqueue by each thread

ASSUME QueueAssumption ==
    /\ NoThread \notin Threads
    /\ IsFiniteSet(Threads)
    /\ Once \subseteq Consumers
    /\ hash_thread_id \in [Threads -> Nat]
    /\ INITIAL_IMPLICIT_PRODUCER_HASH_SIZE \in Nat \ {0, 1}

VARIABLES
    tables,          \* implicit producer hashes; the main one is the last
    hashCount,       \* implicitProducerHashCount
    resizing,        \* implicitProducerHashResizeInProgress
    listTail,        \* producerListTail
    next,            \* of each producer: the one linked before it
    owner,           \* history: of each producer, the thread that made it
    q,               \* elements in each sub-queue
    th,              \* the threads: pc and locals of enqueue
    con,             \* the consumers: pc and locals of try_dequeue
    calls,           \* history: calls of enqueue that each thread has ended
    waiting          \* history: see PollFindsWaiting

hashVars == <<tables, hashCount, resizing>>
listVars == <<listTail, next, owner>>
vars == <<hashVars, listVars, q, th, con, calls, waiting>>

-----------------------------------------------------------------------------

EmptyTable(n) == [key |-> [i \in 0 .. n - 1 |-> NoThread],
                  value |-> [i \in 0 .. n - 1 |-> 0]]

Capacity(h) == Cardinality(DOMAIN h.key)

\* The k-th slot that is probed for thread t.
ProbeAt(h, t, k) == (hash_thread_id[t] + k) % Capacity(h)

\* The first probed slot that holds x; Capacity(h) if there is none.
Probes(h, t, x) ==
    LET hits == {k \in 0 .. Capacity(h) - 1 : h.key[ProbeAt(h, t, k)] = x}
    IN IF hits = {} THEN Capacity(h)
       ELSE CHOOSE k \in hits : \A j \in hits : k <= j

\* A search ends at the key or at the first empty slot.
Holds(h, t) == Probes(h, t, t) < Probes(h, t, NoThread)

ValueFor(h, t) == h.value[ProbeAt(h, t, Probes(h, t, t))]

\* The key is stored in the first empty slot, by compare-exchange.
Put(h, t, p) ==
    LET i == ProbeAt(h, t, Probes(h, t, NoThread))
    IN [key |-> [h.key EXCEPT ![i] = t], value |-> [h.value EXCEPT ![i] = p]]

HasRoom(h) == \E i \in DOMAIN h.key : h.key[i] = NoThread

-----------------------------------------------------------------------------

IdleThread == [pc |-> "idle", main |-> 0, count |-> 0, prod |-> 0]
IdleConsumer == [pc |-> "idle", ptr |-> 0, found |-> 0, best |-> 0, size |-> 0]

Init ==
    /\ tables = <<EmptyTable(INITIAL_IMPLICIT_PRODUCER_HASH_SIZE)>>
    /\ hashCount = 0
    /\ resizing = FALSE
    /\ listTail = 0
    /\ next = <<>>
    /\ owner = <<>>
    /\ q = <<>>
    /\ th = [t \in Threads |-> IdleThread]
    /\ con = [c \in Consumers |-> IdleConsumer]
    /\ calls = [t \in Threads |-> 0]
    /\ waiting = [c \in Consumers |-> {}]

-----------------------------------------------------------------------------
(* get_or_add_implicit_producer                                            *)

TGoto(t, from, to) ==
    /\ th[t].pc = from
    /\ th' = [th EXCEPT ![t].pc = to]

\* A call is over, successful or not: enque_req does not look at the result.
TReturn(t) ==
    /\ th' = [th EXCEPT ![t] = IdleThread]
    /\ calls' = [calls EXCEPT ![t] = @ + 1]

\* The sub-queue is known: the element is handed to it next.
Found(t, p) == th' = [th EXCEPT ![t] = [IdleThread EXCEPT !.pc = "enqueue",
                                                          !.prod = p]]

\* Mutant: only the main table is searched.
TablesWith_MainOnly(t) == {i \in {Len(tables)} : Holds(tables[i], t)}

\* The tables are searched from the main one back.  Only t writes its own key:
\* whether a table holds it does not depend on when it is searched.
TablesWith(t) == {i \in DOMAIN tables : Holds(tables[i], t)}

CallEnqueue(t) ==
    /\ th[t].pc = "idle"
    /\ calls[t] < MaxCalls[t]
    /\ LET with == TablesWith(t)
           i    == CHOOSE k \in with : \A j \in with : j <= k
           p    == ValueFor(tables[i], t)
       IN IF with = {}
          THEN th' = [th EXCEPT ![t].pc = "count_up", ![t].main = Len(tables)]
          ELSE IF i = Len(tables)
          THEN Found(t, p)
          ELSE \* moved up to the main table, not counted again
               th' = [th EXCEPT ![t].pc = "insert", ![t].main = Len(tables),
                                ![t].prod = p]
    /\ UNCHANGED <<hashVars, listVars, q, calls>>

\* Mutant: implicitProducerHashCount is loaded, not incremented.
CountUp_Loads(t) ==
    /\ th[t].pc = "count_up"
    /\ th' = [th EXCEPT ![t].pc = "resize", ![t].count = hashCount]
    /\ UNCHANGED <<hashVars, listVars, q, calls>>

CountUp(t) ==
    /\ th[t].pc = "count_up"
    /\ th' = [th EXCEPT ![t].pc = "resize", ![t].count = hashCount + 1]
    /\ hashCount' = hashCount + 1
    /\ UNCHANGED <<tables, resizing, listVars, q, calls>>

\* Three quarters of a table may be used while another thread allocates the
\* next one; beyond that the thread waits for it.
Fits(count, n) == count < n \div 2 + n \div 4

CreateIfFits(t, main) ==
    th' = [th EXCEPT ![t].main = main,
                     ![t].pc = IF Fits(th[t].count, Capacity(tables[main]))
                               THEN "create" ELSE "again"]

\* A half full table is to be replaced, by whoever sets the flag first.
TestAndSet(t) ==
    /\ th[t].pc = "resize"
    /\ IF /\ th[t].count >= Capacity(tables[th[t].main]) \div 2
          /\ ~resizing
       THEN resizing' = TRUE /\ TGoto(t, "resize", "allocate")
       ELSE UNCHANGED resizing /\ CreateIfFits(t, th[t].main)
    /\ UNCHANGED <<tables, hashCount, listVars, q, calls>>

ReloadHash(t) ==
    /\ th[t].pc = "again"
    /\ th' = [th EXCEPT ![t].pc = "resize", ![t].main = Len(tables)]
    /\ UNCHANGED <<hashVars, listVars, q, calls>>

\* Doubled until the count is below half of it.
NewCapacity(n, count) ==
    LET cap[k \in 0 .. count] == IF k = 0 THEN 2 * n
            ELSE IF count >= cap[k - 1] \div 2 THEN 2 * cap[k - 1]
                 ELSE cap[k - 1]
    IN cap[count]

\* Whoever set the flag looks at the main table again: it may have been
\* replaced in between.
StillHalfFull(t) ==
    /\ th[t].pc = "allocate"
    /\ th[t].count >= Capacity(tables[Len(tables)]) \div 2

AllocateHash(t) ==
    /\ TGoto(t, "allocate", "clear")
    /\ tables' = IF StillHalfFull(t)
                 THEN Append(tables, EmptyTable(NewCapacity(
                        Capacity(tables[Len(tables)]), th[t].count)))
                 ELSE tables
    /\ UNCHANGED <<hashCount, resizing, listVars, q, calls>>

\* Out of memory: the call fails.
AllocateHashFails(t) ==
    /\ StillHalfFull(t)
    /\ TGoto(t, "allocate", "give_up")
    /\ hashCount' = hashCount - 1
    /\ UNCHANGED <<tables, resizing, listVars, q, calls>>

\* Mutant: the flag stays set.
GiveUp_KeepsFlag(t) ==
    /\ th[t].pc = "give_up"
    /\ TReturn(t)
    /\ UNCHANGED <<hashVars, listVars, q>>

GiveUp(t) ==
    /\ th[t].pc = "give_up"
    /\ TReturn(t)
    /\ resizing' = FALSE
    /\ UNCHANGED <<tables, hashCount, listVars, q>>

ClearFlag(t) ==
    /\ th[t].pc = "clear"
    /\ CreateIfFits(t, Len(tables))
    /\ resizing' = FALSE
    /\ UNCHANGED <<tables, hashCount, listVars, q, calls>>

\* recycle_or_create_producer: no producer is ever inactive, so a new one is
\* made, and add_producer reads the tail of the list.
CreateProducer(t) ==
    /\ th[t].pc = "create"
    /\ owner' = Append(owner, t)
    /\ next' = Append(next, listTail)
    /\ q' = Append(q, <<>>)
    /\ th' = [th EXCEPT ![t].pc = "link", ![t].prod = Len(owner) + 1,
                        ![t].count = 0]
    /\ UNCHANGED <<hashVars, listTail, calls>>

CreateProducerFails(t) ==
    /\ th[t].pc = "create"
    /\ TReturn(t)
    /\ hashCount' = hashCount - 1
    /\ UNCHANGED <<tables, resizing, listVars, q>>

\* Mutant: the tail is stored, not exchanged.
LinkProducer_Stores(t) ==
    /\ TGoto(t, "link", "insert")
    /\ listTail' = th[t].prod
    /\ UNCHANGED <<next, hashVars, owner, q, calls>>

\* compare_exchange_weak on producerListTail; prev_tail is in next already.
LinkProducer(t) ==
    /\ th[t].pc = "link"
    /\ IF listTail = next[th[t].prod]
       THEN /\ listTail' = th[t].prod
            /\ TGoto(t, "link", "insert")
            /\ UNCHANGED next
       ELSE /\ next' = [next EXCEPT ![th[t].prod] = listTail]
            /\ UNCHANGED <<listTail, th>>
    /\ UNCHANGED <<hashVars, owner, q, calls>>

\* A full table would be probed for ever: the step is then never taken.
InsertId(t) ==
    /\ th[t].pc = "insert"
    /\ HasRoom(tables[th[t].main])
    /\ tables' = [tables EXCEPT ![th[t].main] = Put(@, t, th[t].prod)]
    /\ Found(t, th[t].prod)
    /\ UNCHANGED <<hashCount, resizing, listVars, q, calls>>

\* ImplicitProducer::enqueue of the thread's own sub-queue, which may fail.
EnqueueIn(t) ==
    /\ th[t].pc = "enqueue"
    /\ \/ q' = [q EXCEPT ![th[t].prod] = Append(@, <<t, calls[t] + 1>>)]
       \/ UNCHANGED q
    /\ TReturn(t)
    /\ UNCHANGED <<hashVars, listVars>>

GoOn(t) ==
    \/ CountUp(t) \/ TestAndSet(t) \/ ReloadHash(t) \/ AllocateHash(t)
    \/ AllocateHashFails(t) \/ GiveUp(t) \/ ClearFlag(t) \/ CreateProducer(t)
    \/ CreateProducerFails(t) \/ LinkProducer(t) \/ InsertId(t) \/ EnqueueIn(t)

Enqueue(t) == (CallEnqueue(t) \/ GoOn(t)) /\ UNCHANGED <<con, waiting>>

-----------------------------------------------------------------------------
(* try_dequeue                                                             *)

InQueue == UNION {{q[p][i] : i \in DOMAIN q[p]} : p \in DOMAIN q}

Inside(c) == con[c].pc \notin {"idle", "gone"}

CReturn(c) ==
    con' = [con EXCEPT ![c] = IF c \in Once THEN [IdleConsumer EXCEPT !.pc = "gone"]
                              ELSE IdleConsumer]

CallTryDequeue(c) ==
    /\ con[c].pc = "idle"
    /\ con' = [con EXCEPT ![c].pc = "scan", ![c].ptr = listTail]
    /\ UNCHANGED q

\* Mutant: the scan ends at the first empty sub-queue.
Scan_EndsAtEmpty(c) ==
    /\ con[c].pc = "scan"
    /\ LET p == con[c].ptr
       IN IF p # 0 /\ q[p] # <<>>
          THEN con' = [con EXCEPT ![c].ptr = next[p], ![c].found = @ + 1,
                                  ![c].best = p]
          ELSE IF con[c].found > 0
               THEN con' = [con EXCEPT ![c].pc = "best", ![c].ptr = con[c].best]
               ELSE CReturn(c)
    /\ UNCHANGED q

\* The longest of the first three sub-queues that have anything is tried
\* first; if all were empty the call is over.
Scan(c) ==
    /\ con[c].pc = "scan"
    /\ LET p == con[c].ptr
       IN IF p # 0 /\ con[c].found < 3
          THEN con' = [con EXCEPT
                  ![c].ptr = next[p],
                  ![c].found = @ + (IF q[p] # <<>> THEN 1 ELSE 0),
                  ![c].best = IF Len(q[p]) > con[c].size THEN p ELSE @,
                  ![c].size = IF Len(q[p]) > @ THEN Len(q[p]) ELSE @]
          ELSE IF con[c].found > 0
               THEN con' = [con EXCEPT ![c].pc = "best", ![c].ptr = con[c].best]
               ELSE CReturn(c)
    /\ UNCHANGED q

DequeueFrom(c) ==
    /\ q[con[c].ptr] # <<>>
    /\ q' = [q EXCEPT ![con[c].ptr] = Tail(@)]
    /\ CReturn(c)

\* A sub-queue fails a consumer when it is empty, or when another consumer is
\* in it (ImplicitProducer, FailsOnlyIfEmptyOrContended).
Fails(c) ==
    \/ q[con[c].ptr] = <<>>
    \/ \E o \in Consumers \ {c} :
          con[o].pc \in {"best", "others"} /\ con[o].ptr = con[c].ptr

TryBest(c) ==
    /\ con[c].pc = "best"
    /\ \/ DequeueFrom(c)
       \/ /\ Fails(c)
          /\ con' = [con EXCEPT ![c].pc = "others", ![c].ptr = listTail]
          /\ UNCHANGED q

TryOthers(c) ==
    /\ con[c].pc = "others"
    /\ \/ con[c].ptr = 0 /\ CReturn(c) /\ UNCHANGED q
       \/ con[c].ptr # 0 /\ con[c].ptr # con[c].best /\ DequeueFrom(c)
       \/ /\ con[c].ptr # 0
          /\ con[c].ptr = con[c].best \/ Fails(c)
          /\ con' = [con EXCEPT ![c].ptr = next[@]]
          /\ UNCHANGED q

\* The elements a call ought to find: those there when it began, as long as
\* no other consumer is in try_dequeue at the same time.
Ought ==
    waiting' = [c \in Consumers |->
        IF ~Inside(c)' \/ \E o \in Consumers \ {c} : Inside(o) \/ Inside(o)'
        THEN {}
        ELSE IF Inside(c) THEN waiting[c] \cap InQueue' ELSE InQueue']

Poll(c) == Scan(c) \/ TryBest(c) \/ TryOthers(c)

TryDequeue(c) ==
    /\ CallTryDequeue(c) \/ Poll(c)
    /\ Ought
    /\ UNCHANGED <<hashVars, listVars, th, calls>>

Next ==
    \/ \E t \in Threads : Enqueue(t)
    \/ \E c \in Consumers : TryDequeue(c)

Spec == Init /\ [][Next]_vars

\* Threads run; the distributor polls for ever; nobody has to enqueue.
FairSpec ==
    /\ Spec
    /\ \A t \in Threads : WF_vars(GoOn(t) /\ UNCHANGED <<con, waiting>>)
    /\ \A c \in Consumers : WF_vars(TryDequeue(c))

-----------------------------------------------------------------------------
(* Properties                                                              *)

Producers == DOMAIN owner

TypeOK ==
    /\ \A i \in DOMAIN tables :
          /\ tables[i].key \in [DOMAIN tables[i].key -> Threads \cup {NoThread}]
          /\ tables[i].value \in [DOMAIN tables[i].key -> Producers \cup {0}]
    /\ hashCount \in 0 .. Cardinality(Threads)
    /\ resizing \in BOOLEAN
    /\ listTail \in Producers \cup {0}
    /\ \A p \in Producers : next[p] \in Producers \cup {0}

\* The probing loops end (the comments at lines 3316 and 3323): a table in use
\* always keeps a slot free, the ids moved up from older tables included.
TablesHaveRoom == \A i \in DOMAIN tables : HasRoom(tables[i])

\* A producer that was made is reached from the list, unless it is still to
\* be linked: none is lost when two threads add theirs at once.
Reachable == Reach(next, 0, Producers, listTail)

NoProducerLost ==
    Reachable = Producers \ {th[t].prod : t \in {u \in Threads :
                                                    th[u].pc = "link"}}

\* A thread gets the same sub-queue whenever it enqueues, however the tables
\* were replaced in between: otherwise its elements would overtake each other
\* (the comment at line 3299).  And consumers can find that sub-queue.
OneProducerPerThread ==
    /\ TypeOK
    /\ NoProducerLost
    /\ \A p, r \in Producers : p # r => owner[p] # owner[r]
    /\ \A t \in Threads : th[t].pc = "enqueue" => owner[th[t].prod] = t

\* A poll that runs alone and finds nothing has overlooked nothing that was
\* there when it began.  The deadline handler's count of idle polls, and with
\* it the sending of short batches, relies on this.
PollFindsWaiting ==
    [][\A c \in Consumers :
          Inside(c) /\ ~Inside(c)' /\ q' = q => waiting[c] = {}]_vars

\* What is in a sub-queue is dequeued some time: the last element of every
\* thread, and so those before it.
EveryElementDequeued ==
    \A t \in Threads : LET last == <<t, MaxCalls[t]>>
                       IN last \in InQueue ~> last \notin InQueue

\* A call of enqueue returns: nobody waits for ever for another thread's
\* larger table, although that thread's allocation may fail.
EnqueueReturns ==
    \A t \in Threads : th[t].pc # "idle" ~> th[t].pc = "idle"

=============================================================================
