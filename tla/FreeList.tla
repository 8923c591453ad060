------------------------------ MODULE FreeList ------------------------------
(***************************************************************************)
(* FreeList<Block> of concurrentqueue.h: the lock-free stack through which *)
(* the blocks of the request queue are recycled.  A thread that dequeued   *)
(* the last element of a block adds it, a thread that needs a block for    *)
(* its elements tries to get one.  Every access of an atomic is a step.    *)
(*                                                                         *)
(* freeListRefs holds a reference count and, in its top bit, the mark that *)
(* the node is to be put on the list by whoever drops the last reference.  *)
(***************************************************************************)
EXTENDS Integers, FiniteSets, LinkedList

CONSTANTS Nodes,                  \* the blocks there are
          Null,                   \* the null pointer
          Getters,                \* threads that call try_get
          Adders,                 \* threads that call add
          SHOULD_BE_ON_FREELIST   \* the mark: above any reference count

Threads == Getters \cup Adders

ASSUME RefsAssumption ==
    /\ Null \notin Nodes
    /\ IsFiniteSet(Threads)
    /\ SHOULD_BE_ON_FREELIST \in Nat
    /\ SHOULD_BE_ON_FREELIST > Cardinality(Threads) + 2

VARIABLES
    freeListHead,   \* a node or Null
    freeListRefs,   \* of each node
    freeListNext,   \* of each node
    inUse,          \* nodes the queue has filled, or took and will fill
    pc,             \* of each thread: the access it makes next
    head,           \* local `head` of try_get and add_knowing_refcount_is_zero
    node,           \* local `prevHead` or `node`
    next,           \* local `next`
    refs            \* local `refs`

locals == <<pc, head, node, next, refs>>
vars == <<freeListHead, freeListRefs, freeListNext, inUse, locals>>

Nodes0 == Nodes \cup {Null}

Labels == {"idle", "add", "load_head", "set_next", "set_refs", "push",
           "unpush", "get", "load_refs", "ref", "load_next", "pop", "take",
           "unref"}

TypeOK ==
    /\ freeListHead \in Nodes0
    /\ freeListRefs \in [Nodes -> 0 .. 2 * SHOULD_BE_ON_FREELIST]
    /\ freeListNext \in [Nodes -> Nodes0]
    /\ inUse \subseteq Nodes
    /\ pc \in [Threads -> Labels]
    /\ head \in [Threads -> Nodes0]
    /\ node \in [Threads -> Nodes0]
    /\ next \in [Threads -> Nodes0]
    /\ refs \in [Threads -> 0 .. 2 * SHOULD_BE_ON_FREELIST]

\* refs & REFS_MASK
Count(r) == r % SHOULD_BE_ON_FREELIST

\* Every block starts in use: blocks are allocated by the queue and reach
\* the list only when they are first emptied.
Init ==
    /\ freeListHead = Null
    /\ freeListRefs = [n \in Nodes |-> 0]
    /\ freeListNext = [n \in Nodes |-> Null]
    /\ inUse = Nodes
    /\ pc = [t \in Threads |-> "idle"]
    /\ head = [t \in Threads |-> Null]
    /\ node = [t \in Threads |-> Null]
    /\ next = [t \in Threads |-> Null]
    /\ refs = [t \in Threads |-> 0]

-----------------------------------------------------------------------------

Goto(t, from, to) ==
    /\ pc[t] = from
    /\ pc' = [pc EXCEPT ![t] = to]

\* The locals die with the call.
Return(t) ==
    /\ pc' = [pc EXCEPT ![t] = "idle"]
    /\ head' = [head EXCEPT ![t] = Null]
    /\ node' = [node EXCEPT ![t] = Null]
    /\ next' = [next EXCEPT ![t] = Null]
    /\ refs' = [refs EXCEPT ![t] = 0]

\* The loop of try_get, whose test comes first: with no head it is over.  A
\* thread that pushed a node on behalf of another is back in it as well.
Loop(t, h) ==
    IF h = Null
    THEN Return(t)
    ELSE /\ pc' = [pc EXCEPT ![t] = "load_refs"]
         /\ head' = [head EXCEPT ![t] = h]
         /\ node' = [node EXCEPT ![t] = Null]
         /\ next' = [next EXCEPT ![t] = Null]
         /\ refs' = [refs EXCEPT ![t] = 0]

-----------------------------------------------------------------------------
(* add                                                                     *)

CallAdd(t, n) ==
    /\ n \in inUse
    /\ Goto(t, "idle", "add")
    /\ inUse' = inUse \ {n}
    /\ node' = [node EXCEPT ![t] = n]
    /\ UNCHANGED <<freeListHead, freeListRefs, freeListNext, head, next, refs>>

Add(t) ==
    /\ pc[t] = "add"
    /\ freeListRefs' = [freeListRefs EXCEPT ![node[t]] =
                            @ + SHOULD_BE_ON_FREELIST]
    /\ IF freeListRefs[node[t]] = 0
       THEN Goto(t, "add", "load_head") /\ UNCHANGED <<head, node, next, refs>>
       ELSE Return(t)
    /\ UNCHANGED <<freeListHead, freeListNext, inUse>>

-----------------------------------------------------------------------------
(* add_knowing_refcount_is_zero                                            *)

LoadHead(t) ==
    /\ Goto(t, "load_head", "set_next")
    /\ head' = [head EXCEPT ![t] = freeListHead]
    /\ UNCHANGED <<freeListHead, freeListRefs, freeListNext, inUse,
                   node, next, refs>>

SetNext(t) ==
    /\ Goto(t, "set_next", "set_refs")
    /\ freeListNext' = [freeListNext EXCEPT ![node[t]] = head[t]]
    /\ UNCHANGED <<freeListHead, freeListRefs, inUse, head, node, next, refs>>

SetRefs(t) ==
    /\ Goto(t, "set_refs", "push")
    /\ freeListRefs' = [freeListRefs EXCEPT ![node[t]] = 1]
    /\ UNCHANGED <<freeListHead, freeListNext, inUse, head, node, next, refs>>

\* A getter that pushed goes on with the head its failed pop found.
Push(t) ==
    /\ pc[t] = "push"
    /\ IF freeListHead = head[t]
       THEN /\ freeListHead' = node[t]
            /\ IF t \in Getters THEN Loop(t, next[t]) ELSE Return(t)
       ELSE /\ pc' = [pc EXCEPT ![t] = "unpush"]
            /\ head' = [head EXCEPT ![t] = freeListHead]
            /\ UNCHANGED <<freeListHead, node, next, refs>>
    /\ UNCHANGED <<freeListRefs, freeListNext, inUse>>

\* Mutant: the push is retried although others hold references.
Unpush_Retries(t) ==
    /\ pc[t] = "unpush"
    /\ freeListRefs' = [freeListRefs EXCEPT ![node[t]] =
                            @ + SHOULD_BE_ON_FREELIST - 1]
    /\ Goto(t, "unpush", "set_next")
    /\ UNCHANGED <<head, node, next, refs, freeListHead, freeListNext, inUse>>

\* The list's reference goes and the mark comes, in one fetch_add.
Unpush(t) ==
    /\ pc[t] = "unpush"
    /\ freeListRefs' = [freeListRefs EXCEPT ![node[t]] =
                            @ + SHOULD_BE_ON_FREELIST - 1]
    /\ IF freeListRefs[node[t]] = 1
       THEN Goto(t, "unpush", "set_next") /\ UNCHANGED <<head, node, next, refs>>
       ELSE IF t \in Getters THEN Loop(t, next[t]) ELSE Return(t)
    /\ UNCHANGED <<freeListHead, freeListNext, inUse>>

-----------------------------------------------------------------------------
(* try_get                                                                 *)

CallTryGet(t) ==
    /\ Goto(t, "idle", "get")
    /\ UNCHANGED <<freeListHead, freeListRefs, freeListNext, inUse,
                   head, node, next, refs>>

Get(t) ==
    /\ pc[t] = "get"
    /\ Loop(t, freeListHead)
    /\ UNCHANGED <<freeListHead, freeListRefs, freeListNext, inUse>>

\* Mutant: the same head is looked at again.
LoadRefs_KeepsHead(t) ==
    /\ pc[t] = "load_refs"
    /\ Count(freeListRefs[head[t]]) # 0
    /\ Goto(t, "load_refs", "ref")
    /\ refs' = [refs EXCEPT ![t] = freeListRefs[head[t]]]
    /\ node' = [node EXCEPT ![t] = head[t]]
    /\ UNCHANGED <<freeListHead, freeListRefs, freeListNext, inUse, head, next>>

\* A count of zero sends the getter back for another head at once.
LoadRefs(t) ==
    /\ pc[t] = "load_refs"
    /\ IF Count(freeListRefs[head[t]]) = 0
       THEN pc' = [pc EXCEPT ![t] = "get"] /\ UNCHANGED refs
       ELSE /\ Goto(t, "load_refs", "ref")
            /\ refs' = [refs EXCEPT ![t] = freeListRefs[head[t]]]
    /\ node' = [node EXCEPT ![t] = head[t]]
    /\ UNCHANGED <<freeListHead, freeListRefs, freeListNext, inUse, head, next>>

Ref(t) ==
    /\ pc[t] = "ref"
    /\ IF freeListRefs[head[t]] = refs[t]
       THEN /\ Goto(t, "ref", "load_next")
            /\ freeListRefs' = [freeListRefs EXCEPT ![head[t]] = refs[t] + 1]
       ELSE pc' = [pc EXCEPT ![t] = "get"] /\ UNCHANGED freeListRefs
    /\ refs' = [refs EXCEPT ![t] = 0]
    /\ UNCHANGED <<freeListHead, freeListNext, inUse, head, node, next>>

LoadNext(t) ==
    /\ Goto(t, "load_next", "pop")
    /\ next' = [next EXCEPT ![t] = freeListNext[head[t]]]
    /\ UNCHANGED <<freeListHead, freeListRefs, freeListNext, inUse,
                   head, node, refs>>

\* A failed compare-exchange leaves the head it found in `head`; here it
\* waits in `next`, whose value is no longer needed.
Pop(t) ==
    /\ pc[t] = "pop"
    /\ IF freeListHead = head[t]
       THEN /\ Goto(t, "pop", "take")
            /\ freeListHead' = next[t]
            /\ next' = [next EXCEPT ![t] = Null]
       ELSE /\ Goto(t, "pop", "unref")
            /\ next' = [next EXCEPT ![t] = freeListHead]
            /\ UNCHANGED freeListHead
    /\ UNCHANGED <<freeListRefs, freeListNext, inUse, head, node, refs>>

\* Both references go: the getter's and the list's.
Take(t) ==
    /\ pc[t] = "take"
    /\ freeListRefs' = [freeListRefs EXCEPT ![node[t]] = @ - 2]
    /\ inUse' = inUse \cup {node[t]}
    /\ Return(t)
    /\ UNCHANGED <<freeListHead, freeListNext>>

\* Mutant: the getter that drops the last reference does not add the node.
Unref_Forgets(t) ==
    /\ pc[t] = "unref"
    /\ freeListRefs' = [freeListRefs EXCEPT ![node[t]] = @ - 1]
    /\ Loop(t, next[t])
    /\ UNCHANGED <<freeListHead, freeListNext, inUse>>

\* Who drops the last reference of a marked node must add it.
Unref(t) ==
    /\ pc[t] = "unref"
    /\ freeListRefs' = [freeListRefs EXCEPT ![node[t]] = @ - 1]
    /\ IF freeListRefs[node[t]] = SHOULD_BE_ON_FREELIST + 1
       THEN Goto(t, "unref", "load_head") /\ UNCHANGED <<head, node, next, refs>>
       ELSE Loop(t, next[t])
    /\ UNCHANGED <<freeListHead, freeListNext, inUse>>

-----------------------------------------------------------------------------

AddKnowingRefcountIsZero(t) ==
    LoadHead(t) \/ SetNext(t) \/ SetRefs(t) \/ Push(t) \/ Unpush(t)

TryGet(t) ==
    \/ Get(t) \/ LoadRefs(t) \/ Ref(t) \/ LoadNext(t)
    \/ Pop(t) \/ Take(t) \/ Unref(t)

\* A thread inside one of the two operations goes on.
Continue(t) == Add(t) \/ AddKnowingRefcountIsZero(t) \/ TryGet(t)

Next ==
    \/ \E t \in Adders, n \in Nodes : CallAdd(t, n)
    \/ \E t \in Getters : CallTryGet(t)
    \/ \E t \in Threads : Continue(t)

Spec == Init /\ [][Next]_vars

\* A running thread is scheduled; nobody is obliged to call.
FairSpec == Spec /\ \A t \in Threads : WF_vars(Continue(t))

-----------------------------------------------------------------------------
(* Properties                                                              *)

\* The nodes on the list, from the head along the links.
OnList == Reach(freeListNext, Null, Nodes, freeListHead)

\* Nodes a thread has popped and is about to hand to the queue.
Taken == {node[t] : t \in {u \in Threads : pc[u] = "take"}}

\* A block that the queue writes elements to is neither on the list nor in
\* the hands of a thread that will hand it out again: a node popped under an
\* ABA change of the head would be given to two producers (the comment in
\* try_get, concurrentqueue.h:1404).  And, as try_get asserts (line 1406), a
\* node just popped has no mark.
ExclusiveOwner ==
    /\ TypeOK
    /\ inUse \cap (OnList \cup Taken) = {}
    /\ OnList \cap Taken = {}
    /\ \A t, u \in Threads :
          t # u /\ pc[t] = "take" /\ pc[u] = "take" => node[t] # node[u]
    /\ \A n \in Taken : freeListRefs[n] < SHOULD_BE_ON_FREELIST

\* When no call is running, every block is in use or can be got: failed
\* pushes that were left to another thread have all been made up for.
NoBlockLost ==
    (\A t \in Threads : pc[t] = "idle") => inUse \cup OnList = Nodes

\* The list is lock-free: while there is always a thread inside it, calls keep
\* returning, however the head and the references change under each.
SomeCallReturns ==
    <>[](\E t \in Threads : pc[t] # "idle")
        => []<><<\E t \in Threads : pc[t] # "idle" /\ pc'[t] = "idle">>_vars

=============================================================================
