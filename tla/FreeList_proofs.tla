--------------------------- MODULE FreeList_proofs ---------------------------
(***************************************************************************)
(* Machine-checked proofs about the free list: a block has one owner, and  *)
(* none is lost.                                                           *)
(***************************************************************************)
EXTENDS FreeList, FiniteSetTheorems, TLAPS

-----------------------------------------------------------------------------
(* Linked lists                                                            *)

\* A closed set that holds the first node holds the list.
LEMMA ReachLeast ==
    ASSUME NEW link, NEW nil, NEW nodes, NEW x, NEW S \in SUBSET nodes,
           x \in S \cup {nil}, Closed(link, nil, S)
    PROVE  Reach(link, nil, nodes, x) \subseteq S
BY DEF Reach

\* A list holds its first node, and with a node the next one.
LEMMA ReachClosed ==
    ASSUME NEW nil, NEW nodes, NEW link \in [nodes -> nodes \cup {nil}],
           NEW x \in nodes \cup {nil}
    PROVE  /\ Reach(link, nil, nodes, x) \in SUBSET nodes
           /\ x \in Reach(link, nil, nodes, x) \cup {nil}
           /\ Closed(link, nil, Reach(link, nil, nodes, x))
<1>1. Reach(link, nil, nodes, x) \in SUBSET nodes
  BY DEF Reach
<1>2. x \in Reach(link, nil, nodes, x) \cup {nil}
  BY DEF Reach
<1>3. ASSUME NEW n \in Reach(link, nil, nodes, x), link[n] # nil
      PROVE  link[n] \in Reach(link, nil, nodes, x)
  BY <1>3 DEF Reach, Closed
<1> QED BY <1>1, <1>2, <1>3 DEF Closed

\* What is behind a node of a list is on the list.
LEMMA ReachBehind ==
    ASSUME NEW nil, NEW nodes, NEW link \in [nodes -> nodes \cup {nil}],
           NEW x \in nodes \cup {nil}, NEW n \in Reach(link, nil, nodes, x)
    PROVE  Reach(link, nil, nodes, link[n]) \subseteq Reach(link, nil, nodes, x)
<1> DEFINE R == Reach(link, nil, nodes, x)
<1>1. R \in SUBSET nodes /\ Closed(link, nil, R)
  BY ReachClosed
<1>2. link[n] \in R \cup {nil}
  BY <1>1 DEF Closed
<1> HIDE DEF R
<1>3. Reach(link, nil, nodes, link[n]) \subseteq R
  BY <1>1, <1>2, ReachLeast
<1> QED BY <1>3 DEF R

\* There is nothing after the end.
LEMMA ReachNil ==
    ASSUME NEW link, NEW nil, NEW nodes
    PROVE  Reach(link, nil, nodes, nil) = {}
<1>1. Closed(link, nil, {})
  BY DEF Closed
<1> QED BY <1>1 DEF Reach

\* A list is its first node and what is behind that.
LEMMA ReachFirst ==
    ASSUME NEW nil, NEW nodes, NEW link \in [nodes -> nodes \cup {nil}],
           NEW x \in nodes, nil \notin nodes
    PROVE  Reach(link, nil, nodes, x) = {x} \cup Reach(link, nil, nodes, link[x])
<1> DEFINE R == Reach(link, nil, nodes, x)
           B == Reach(link, nil, nodes, link[x])
<1>1. /\ R \in SUBSET nodes /\ x \in R \cup {nil} /\ Closed(link, nil, R)
      /\ B \in SUBSET nodes /\ link[x] \in B \cup {nil} /\ Closed(link, nil, B)
  BY ReachClosed
<1>2. x \in R
  BY <1>1
<1>3. B \subseteq R
  BY <1>2, ReachBehind
<1>4. R \subseteq {x} \cup B
  <2> HIDE DEF B
  <2>1. Closed(link, nil, {x} \cup B)
    BY <1>1 DEF Closed
  <2> QED BY <1>1, <2>1, ReachLeast
<1> QED BY <1>2, <1>3, <1>4

\* Setting the link of a node elsewhere does not change a list.
LEMMA ReachSetLink ==
    ASSUME NEW nil, NEW nodes, NEW link \in [nodes -> nodes \cup {nil}],
           NEW link2 \in [nodes -> nodes \cup {nil}],
           NEW x \in nodes \cup {nil}, NEW n \in nodes,
           \A k \in nodes \ {n} : link2[k] = link[k],
           n \notin Reach(link, nil, nodes, x)
    PROVE  Reach(link2, nil, nodes, x) = Reach(link, nil, nodes, x)
<1> DEFINE R == Reach(link, nil, nodes, x)
           R2 == Reach(link2, nil, nodes, x)
<1>1. /\ R \in SUBSET nodes /\ x \in R \cup {nil} /\ Closed(link, nil, R)
      /\ R2 \in SUBSET nodes /\ x \in R2 \cup {nil} /\ Closed(link2, nil, R2)
  BY ReachClosed
<1>2. n \notin R
  OBVIOUS
<1> HIDE DEF R, R2
<1>3. Closed(link2, nil, R)
  BY <1>1, <1>2 DEF Closed
<1>4. R2 \subseteq R
  BY <1>1, <1>3, ReachLeast DEF R2
<1>5. Closed(link, nil, R2)
  BY <1>1, <1>2, <1>4 DEF Closed
<1>6. R \subseteq R2
  BY <1>1, <1>5, ReachLeast DEF R
<1> QED BY <1>4, <1>6 DEF R, R2

-----------------------------------------------------------------------------
(* The inductive invariant                                                 *)

\* Where a thread has the node for itself; marked, with no reference left.
Marking == {"load_head", "set_next", "set_refs"}
Carrying == {"push", "unpush", "take"}
Owning == {"add"} \cup Marking \cup Carrying

\* Where a getter holds a reference to its head.
Holding == {"load_next", "pop", "take", "unref"}

Holders(n) == {t \in Threads : pc[t] \in Holding /\ head[t] = n}
At(n, labels) == \E t \in Threads : pc[t] \in labels /\ node[t] = n

\* What the locals of a thread say of the nodes.  Who holds a reference knows
\* the link: a link is only set when there is no reference.
LocalsInv == \A t \in Threads :
    /\ pc[t] \in {"load_refs", "ref"} \cup Holding => head[t] \in Nodes
    /\ pc[t] \in Owning => node[t] \in Nodes
    /\ pc[t] \in {"ref"} \cup Holding => node[t] = head[t]
    /\ pc[t] = "ref" => Count(refs[t]) # 0
    /\ pc[t] = "pop" => next[t] = freeListNext[head[t]]
    /\ pc[t] \in {"set_refs", "push"} => freeListNext[node[t]] = head[t]

\* A node is in use, on the list, or in the hands of one thread.
OwnerInv ==
    /\ inUse \cap OnList = {}
    /\ \A t \in Threads : pc[t] \in Owning => node[t] \notin inUse \cup OnList
    /\ \A t, u \in Threads :
          t # u /\ pc[t] \in Owning /\ pc[u] \in Owning => node[t] # node[u]

\* The count is that of the holders, and one for the list; a node that nobody
\* has is marked, and somebody holds it who will put it on the list.
RefsOf(n) ==
    LET count == Cardinality(Holders(n))
    IN  /\ n \in inUse \/ At(n, {"add"}) => freeListRefs[n] = count
        /\ n \in OnList \/ At(n, Carrying) => freeListRefs[n] = count + 1
        /\ At(n, Marking) => freeListRefs[n] = SHOULD_BE_ON_FREELIST /\ count = 0
        /\ n \notin inUse \cup OnList /\ ~At(n, Owning) =>
              freeListRefs[n] = SHOULD_BE_ON_FREELIST + count /\ count > 0

RefsInv == \A n \in Nodes : RefsOf(n)

\* No node is behind itself.
ListInv == \A n \in OnList :
    n \notin Reach(freeListNext, Null, Nodes, freeListNext[n])

FreeListInv == TypeOK /\ LocalsInv /\ OwnerInv /\ RefsInv /\ ListInv

-----------------------------------------------------------------------------
(* What a step of one thread leaves alone                                  *)

Others(t) == \A u \in Threads \ {t} :
    /\ pc'[u] = pc[u] /\ head'[u] = head[u] /\ node'[u] = node[u]
    /\ next'[u] = next[u] /\ refs'[u] = refs[u]

LocalsTyped ==
    /\ pc \in [Threads -> Labels]
    /\ head \in [Threads -> Nodes0]
    /\ node \in [Threads -> Nodes0]
    /\ next \in [Threads -> Nodes0]
    /\ refs \in [Threads -> 0 .. 2 * SHOULD_BE_ON_FREELIST]

\* There are fewer holders than the mark.
LEMMA HoldersFew ==
    ASSUME NEW n
    PROVE  /\ IsFiniteSet(Holders(n)) /\ Cardinality(Holders(n)) \in Nat
           /\ Cardinality(Holders(n)) + 2 < SHOULD_BE_ON_FREELIST
<1>1. Holders(n) \in SUBSET Threads
  BY DEF Holders
<1>2. IsFiniteSet(Threads) /\ Cardinality(Threads) \in Nat
  BY RefsAssumption, FS_CardinalityType
<1>3. /\ IsFiniteSet(Holders(n)) /\ Cardinality(Holders(n)) \in Nat
      /\ Cardinality(Holders(n)) <= Cardinality(Threads)
  BY <1>1, <1>2, FS_Subset, FS_CardinalityType
<1> QED BY <1>2, <1>3, RefsAssumption

LEMMA RefsFrame ==
    ASSUME NEW t \in Threads, Others(t), NEW n \in Nodes, RefsOf(n),
           freeListRefs'[n] = freeListRefs[n],
           n \in inUse' <=> n \in inUse, n \in OnList' <=> n \in OnList,
           pc'[t] \in Holding /\ head'[t] = n <=> pc[t] \in Holding /\ head[t] = n,
           pc'[t] = "add" /\ node'[t] = n <=> pc[t] = "add" /\ node[t] = n,
           pc'[t] \in Marking /\ node'[t] = n <=> pc[t] \in Marking /\ node[t] = n,
           pc'[t] \in Carrying /\ node'[t] = n <=> pc[t] \in Carrying /\ node[t] = n
    PROVE  RefsOf(n)'
<1>1. Holders(n)' = Holders(n)
  BY DEF Others, Holders
<1>2. /\ At(n, {"add"})' <=> At(n, {"add"})
      /\ At(n, Marking)' <=> At(n, Marking)
      /\ At(n, Carrying)' <=> At(n, Carrying)
  BY DEF Others, At, Marking, Carrying
<1>3. At(n, Owning)' <=> At(n, Owning)
  BY <1>2 DEF At, Owning, Marking, Carrying
<1> QED BY <1>1, <1>2, <1>3 DEF RefsOf, Marking, Carrying, Owning

LEMMA OwnerFrame ==
    ASSUME OwnerInv, NEW t \in Threads, Others(t), inUse' \cap OnList' = {},
           \A u \in Threads \ {t} :
              pc[u] \in Owning => /\ node[u] \notin inUse' \cup OnList'
                                  /\ pc'[t] \in Owning => node[u] # node'[t],
           pc'[t] \in Owning => node'[t] \notin inUse' \cup OnList'
    PROVE  OwnerInv'
BY DEF OwnerInv, Others, Owning, Marking, Carrying

\* The links do not change.
LEMMA LocalsFrame ==
    ASSUME LocalsInv, NEW t \in Threads, Others(t), freeListNext' = freeListNext,
           pc'[t] \in {"load_refs", "ref"} \cup Holding => head'[t] \in Nodes,
           pc'[t] \in Owning => node'[t] \in Nodes,
           pc'[t] \in {"ref"} \cup Holding => node'[t] = head'[t],
           pc'[t] = "ref" => Count(refs'[t]) # 0,
           pc'[t] = "pop" => next'[t] = freeListNext[head'[t]],
           pc'[t] \in {"set_refs", "push"} => freeListNext[node'[t]] = head'[t]
    PROVE  LocalsInv'
BY DEF LocalsInv, Others, Owning, Marking, Carrying, Holding, Count

LEMMA SameList ==
    ASSUME UNCHANGED <<freeListHead, freeListNext>>
    PROVE  OnList' = OnList /\ (ListInv => ListInv')
BY DEF OnList, ListInv

\* A call that is over, or that tries the head it has found.
LEMMA LoopStep ==
    ASSUME LocalsTyped, NEW t \in Threads, NEW h \in Nodes0,
           Loop(t, h) \/ Return(t)
    PROVE  /\ LocalsTyped' /\ Others(t) /\ pc'[t] \in {"idle", "load_refs"}
           /\ pc'[t] = "load_refs" => head'[t] \in Nodes
BY RefsAssumption DEF LocalsTyped, Loop, Return, Others, Labels, Nodes0

-----------------------------------------------------------------------------
(* Steps                                                                   *)

LEMMA InitFreeListInv == Init => FreeListInv
<1> SUFFICES ASSUME Init PROVE FreeListInv
  OBVIOUS
<1>1. TypeOK
  BY RefsAssumption DEF Init, TypeOK, Labels, Nodes0
<1>2. OnList = {}
  BY ReachNil DEF Init, OnList
<1>3. LocalsInv /\ OwnerInv /\ ListInv
  BY <1>2 DEF Init, LocalsInv, OwnerInv, ListInv, Owning, Marking, Carrying, Holding
<1>4. ASSUME NEW n \in Nodes PROVE RefsOf(n)
  <2>1. Holders(n) = {}
    BY DEF Init, Holders, Holding
  <2>2. ~At(n, Marking) /\ ~At(n, Carrying) /\ n \in inUse /\ n \notin OnList
    BY <1>2 DEF Init, At, Marking, Carrying
  <2>3. freeListRefs[n] = 0
    BY DEF Init
  <2> QED BY <2>1, <2>2, <2>3, FS_EmptySet DEF RefsOf
<1> QED BY <1>1, <1>3, <1>4 DEF FreeListInv, RefsInv

\* Steps that only move a thread on.
LEMMA QuietStep ==
    ASSUME FreeListInv, NEW t \in Threads, Others(t), LocalsTyped',
           UNCHANGED <<freeListHead, freeListRefs, freeListNext, inUse>>,
           pc'[t] \in {"load_refs", "ref"} \cup Holding => head'[t] \in Nodes,
           pc'[t] \in Holding <=> pc[t] \in Holding,
           pc'[t] \in Holding => head'[t] = head[t] /\ node'[t] = node[t],
           pc'[t] = "ref" => Count(refs'[t]) # 0 /\ node'[t] = head'[t],
           pc'[t] = "pop" => next'[t] = freeListNext[head'[t]],
           pc'[t] \in {"set_refs", "push"} => freeListNext[node'[t]] = head'[t],
           pc'[t] = "add" <=> pc[t] = "add",
           pc'[t] \in Marking <=> pc[t] \in Marking,
           pc'[t] \in Carrying <=> pc[t] \in Carrying,
           pc'[t] \in Owning => node'[t] = node[t]
    PROVE  FreeListInv'
<1>0. TypeOK /\ LocalsInv /\ OwnerInv /\ ListInv /\ RefsInv
  BY DEF FreeListInv
<1>1. TypeOK'
  BY <1>0 DEF TypeOK, LocalsTyped
<1>2. OnList' = OnList /\ ListInv'
  BY <1>0, SameList
<1>3. pc'[t] \in Owning <=> pc[t] \in Owning
  BY DEF Owning
<1>4. LocalsInv'
  BY <1>0, <1>3, LocalsFrame DEF LocalsInv
<1>5. OwnerInv'
  BY <1>0, <1>2, <1>3, OwnerFrame DEF OwnerInv
<1>6. ASSUME NEW n \in Nodes PROVE RefsOf(n)'
  <2>1. /\ pc'[t] = "add" => node'[t] = node[t]
        /\ pc'[t] \in Marking => node'[t] = node[t]
        /\ pc'[t] \in Carrying => node'[t] = node[t]
    BY DEF Owning
  <2> QED BY <1>0, <1>2, <2>1, RefsFrame DEF RefsInv
<1> QED BY <1>1, <1>2, <1>4, <1>5, <1>6 DEF FreeListInv, RefsInv

LEMMA QuietActions ==
    ASSUME FreeListInv, NEW t \in Threads,
           \/ LoadHead(t) \/ CallTryGet(t) \/ Get(t) \/ LoadRefs(t) \/ LoadNext(t)
           \/ Push(t) /\ freeListHead # head[t]
           \/ Pop(t) /\ freeListHead # head[t]
           \/ Ref(t) /\ freeListRefs[head[t]] # refs[t]
    PROVE  FreeListInv'
<1>0. TypeOK /\ LocalsInv
  BY DEF FreeListInv
<1>1. LocalsTyped
  BY <1>0 DEF TypeOK, LocalsTyped
<1> USE DEF Goto, Labels, Nodes0, Owning, Marking, Carrying, Holding
<1>2. CASE LoadHead(t)
  <2>1. Others(t) /\ LocalsTyped'
    BY <1>0, <1>1, <1>2 DEF LoadHead, Others, LocalsTyped, TypeOK
  <2> QED BY <1>0, <1>1, <1>2, <2>1, QuietStep DEF LoadHead, LocalsTyped
<1>3. CASE CallTryGet(t)
  <2>1. Others(t) /\ LocalsTyped'
    BY <1>0, <1>1, <1>3 DEF CallTryGet, Others, LocalsTyped
  <2> QED BY <1>0, <1>1, <1>3, <2>1, QuietStep DEF CallTryGet, LocalsTyped
<1>4. CASE Get(t)
  <2>1. /\ Others(t) /\ LocalsTyped' /\ pc'[t] \in {"idle", "load_refs"}
        /\ pc'[t] = "load_refs" => head'[t] \in Nodes
    BY <1>0, <1>1, <1>4, LoopStep DEF Get, TypeOK
  <2> QED BY <1>0, <1>1, <1>4, <2>1, QuietStep DEF Get, LocalsTyped
<1>5. CASE LoadRefs(t)
  <2>1. head[t] \in Nodes
    BY <1>0, <1>5 DEF LoadRefs, LocalsInv
  <2>2. Others(t) /\ LocalsTyped'
    BY <1>0, <1>1, <1>5, <2>1 DEF LoadRefs, Others, LocalsTyped, TypeOK
  <2>3. pc'[t] = "ref" => Count(refs'[t]) # 0 /\ node'[t] = head'[t]
    BY <1>1, <1>5 DEF LoadRefs, LocalsTyped
  <2> QED BY <1>0, <1>1, <1>5, <2>1, <2>2, <2>3, QuietStep DEF LoadRefs, LocalsTyped
<1>6. CASE LoadNext(t)
  <2>1. head[t] \in Nodes
    BY <1>0, <1>6 DEF LoadNext, LocalsInv
  <2>2. Others(t) /\ LocalsTyped'
    BY <1>0, <1>1, <1>6, <2>1 DEF LoadNext, Others, LocalsTyped, TypeOK
  <2> QED BY <1>0, <1>1, <1>6, <2>1, <2>2, QuietStep DEF LoadNext, LocalsTyped
<1>7. CASE Push(t) /\ freeListHead # head[t]
  <2>1. Others(t) /\ LocalsTyped'
    BY <1>0, <1>1, <1>7 DEF Push, Others, LocalsTyped, TypeOK
  <2> QED BY <1>0, <1>1, <1>7, <2>1, QuietStep DEF Push, LocalsTyped
<1>8. CASE Pop(t) /\ freeListHead # head[t]
  <2>1. head[t] \in Nodes
    BY <1>0, <1>8 DEF Pop, LocalsInv
  <2>2. Others(t) /\ LocalsTyped'
    BY <1>0, <1>1, <1>8, <2>1 DEF Pop, Others, LocalsTyped, TypeOK
  <2> QED BY <1>0, <1>1, <1>8, <2>1, <2>2, QuietStep DEF Pop, LocalsTyped
<1>9. CASE Ref(t) /\ freeListRefs[head[t]] # refs[t]
  <2>1. head[t] \in Nodes
    BY <1>0, <1>9 DEF Ref, LocalsInv
  <2>2. Others(t) /\ LocalsTyped'
    BY <1>0, <1>1, <1>9, <2>1, RefsAssumption DEF Ref, Others, LocalsTyped
  <2> QED BY <1>0, <1>1, <1>9, <2>1, <2>2, QuietStep DEF Ref, LocalsTyped
<1> QED BY <1>2, <1>3, <1>4, <1>5, <1>6, <1>7, <1>8, <1>9

\* The owner of a node is not its holder, unless it has just popped it.
LEMMA OwnedNode ==
    ASSUME FreeListInv, NEW t \in Threads, pc[t] \in Owning
    PROVE  /\ node[t] \in Nodes /\ node[t] \notin inUse \cup OnList
           /\ \A u \in Threads \ {t} : pc[u] \in Owning => node[u] # node[t]
           /\ RefsOf(node[t])
BY DEF FreeListInv, LocalsInv, OwnerInv, RefsInv

LEMMA CallAddStep ==
    ASSUME FreeListInv, NEW t \in Threads, NEW n \in Nodes, CallAdd(t, n)
    PROVE  FreeListInv'
<1>0. TypeOK /\ LocalsInv /\ OwnerInv /\ ListInv /\ RefsInv
  BY DEF FreeListInv
<1>1. /\ n \in inUse /\ inUse' = inUse \ {n} /\ pc[t] = "idle"
      /\ pc'[t] = "add" /\ node'[t] = n
      /\ UNCHANGED <<freeListHead, freeListRefs, freeListNext, head, next, refs>>
      /\ Others(t) /\ TypeOK'
  BY <1>0 DEF CallAdd, Goto, TypeOK, Others, Labels, Nodes0
<1>2. OnList' = OnList /\ ListInv'
  BY <1>0, <1>1, SameList
<1>3. LocalsInv'
  BY <1>0, <1>1, LocalsFrame DEF Holding
<1>4. OwnerInv'
  BY <1>0, <1>1, <1>2, OwnerFrame DEF OwnerInv
<1>5. ASSUME NEW k \in Nodes PROVE RefsOf(k)'
  <2>1. CASE k # n
    BY <1>0, <1>1, <1>2, <2>1, RefsFrame DEF RefsInv, Marking, Carrying, Holding
  <2>2. CASE k = n
    <3>1. Holders(n)' = Holders(n)
      BY <1>1 DEF Holders, Holding, Others
    <3>2. /\ At(n, {"add"})' /\ ~At(n, Marking)' /\ ~At(n, Carrying)'
          /\ At(n, Owning)' /\ n \notin OnList
      BY <1>0, <1>1 DEF At, Others, OwnerInv, Owning, Marking, Carrying
    <3> QED BY <1>0, <1>1, <1>2, <2>2, <3>1, <3>2
            DEF RefsInv, RefsOf, Marking, Carrying, Owning
  <2> QED BY <2>1, <2>2
<1> QED BY <1>1, <1>2, <1>3, <1>4, <1>5 DEF FreeListInv, RefsInv

\* Who owns a node that no other thread owns, before the step and after it.
LEMMA KindBefore ==
    ASSUME NEW t \in Threads, NEW n,
           \A u \in Threads \ {t} : pc[u] \in Owning => node[u] # n
    PROVE  /\ At(n, {"add"}) <=> pc[t] = "add" /\ node[t] = n
           /\ At(n, Marking) <=> pc[t] \in Marking /\ node[t] = n
           /\ At(n, Carrying) <=> pc[t] \in Carrying /\ node[t] = n
           /\ At(n, Owning) <=> pc[t] \in Owning /\ node[t] = n
BY DEF At, Owning, Marking, Carrying

LEMMA KindAfter ==
    ASSUME NEW t \in Threads, NEW n, Others(t),
           \A u \in Threads \ {t} : pc[u] \in Owning => node[u] # n
    PROVE  /\ At(n, {"add"})' <=> pc'[t] = "add" /\ node'[t] = n
           /\ At(n, Marking)' <=> pc'[t] \in Marking /\ node'[t] = n
           /\ At(n, Carrying)' <=> pc'[t] \in Carrying /\ node'[t] = n
           /\ At(n, Owning)' <=> pc'[t] \in Owning /\ node'[t] = n
BY DEF At, Owning, Marking, Carrying, Others

LEMMA HoldersChange ==
    ASSUME NEW t \in Threads, NEW n, Others(t)
    PROVE  Holders(n)' = IF pc'[t] \in Holding /\ head'[t] = n
                         THEN Holders(n) \cup {t} ELSE Holders(n) \ {t}
BY DEF Holders, Others

\* The count of the owner's node before the step.
LEMMA OwnedRefs ==
    ASSUME FreeListInv, NEW t \in Threads, pc[t] \in Owning
    PROVE  LET n == node[t]
               count == Cardinality(Holders(n))
           IN  /\ pc[t] = "add" => freeListRefs[n] = count
               /\ pc[t] \in Marking => freeListRefs[n] = SHOULD_BE_ON_FREELIST /\ count = 0
               /\ pc[t] \in Carrying => freeListRefs[n] = count + 1
<1>1. \A u \in Threads \ {t} : pc[u] \in Owning => node[u] # node[t]
  BY OwnedNode
<1> QED BY <1>1, OwnedNode, KindBefore DEF RefsOf

\* A step of one thread about one node, which may be its own.
LEMMA NodeStep ==
    ASSUME FreeListInv, NEW t \in Threads, NEW n \in Nodes, Others(t),
           TypeOK', LocalsInv', OwnerInv', ListInv', RefsOf(n)',
           \A k \in Nodes \ {n} : /\ freeListRefs'[k] = freeListRefs[k]
                                  /\ k \in inUse' <=> k \in inUse
                                  /\ k \in OnList' <=> k \in OnList,
           pc[t] \in Owning => node[t] = n, pc'[t] \in Owning => node'[t] = n,
           pc[t] \in Holding => head[t] = n, pc'[t] \in Holding => head'[t] = n
    PROVE  FreeListInv'
<1>1. ASSUME NEW k \in Nodes PROVE RefsOf(k)'
  <2>1. CASE k = n
    BY <2>1
  <2>2. CASE k # n
    <3>1. /\ ~(pc'[t] \in Holding /\ head'[t] = k) /\ ~(pc[t] \in Holding /\ head[t] = k)
          /\ ~(pc'[t] \in Owning /\ node'[t] = k) /\ ~(pc[t] \in Owning /\ node[t] = k)
      BY <2>2
    <3> QED BY <2>2, <3>1, RefsFrame DEF FreeListInv, RefsInv, Owning
  <2> QED BY <2>1, <2>2
<1> QED BY <1>1 DEF FreeListInv, RefsInv

\* The count of the node of a thread after its step.
LEMMA RefsAfter ==
    ASSUME NEW t \in Threads, NEW n \in Nodes, Others(t), NEW c,
           \A u \in Threads \ {t} : pc[u] \in Owning => node[u] # n,
           Cardinality(Holders(n)') = c,
           (n \in inUse' \/ (pc'[t] = "add" /\ node'[t] = n)) => freeListRefs'[n] = c,
           (n \in OnList' \/ (pc'[t] \in Carrying /\ node'[t] = n)) =>
              freeListRefs'[n] = c + 1,
           (pc'[t] \in Marking /\ node'[t] = n) =>
              freeListRefs'[n] = SHOULD_BE_ON_FREELIST /\ c = 0,
           (n \notin inUse' \cup OnList' /\ ~(pc'[t] \in Owning /\ node'[t] = n)) =>
              freeListRefs'[n] = SHOULD_BE_ON_FREELIST + c /\ c > 0
    PROVE  RefsOf(n)'
<1>1. /\ At(n, {"add"})' <=> pc'[t] = "add" /\ node'[t] = n
      /\ At(n, Marking)' <=> pc'[t] \in Marking /\ node'[t] = n
      /\ At(n, Carrying)' <=> pc'[t] \in Carrying /\ node'[t] = n
      /\ At(n, Owning)' <=> pc'[t] \in Owning /\ node'[t] = n
  BY KindAfter
<1> QED BY <1>1 DEF RefsOf

LEMMA AddStep ==
    ASSUME FreeListInv, NEW t \in Threads, Add(t), NEW n, n = node[t],
           NEW c, c = Cardinality(Holders(n))
    PROVE  FreeListInv'
<1>0. TypeOK /\ LocalsInv /\ OwnerInv /\ ListInv /\ RefsInv /\ LocalsTyped
  BY DEF FreeListInv, TypeOK, LocalsTyped
<1>1. /\ pc[t] = "add" /\ pc[t] \in Owning /\ pc[t] \notin Holding
      /\ UNCHANGED <<freeListHead, freeListNext, inUse>>
  BY DEF Add, Owning, Holding
<1>2. /\ n \in Nodes /\ n \notin inUse \cup OnList
      /\ \A u \in Threads \ {t} : pc[u] \in Owning => node[u] # n
  BY <1>1, OwnedNode
<1>3. freeListRefs[n] = c /\ c \in Nat /\ c < SHOULD_BE_ON_FREELIST
  BY <1>1, OwnedRefs, HoldersFew, RefsAssumption
<1>4. /\ freeListRefs'[n] = c + SHOULD_BE_ON_FREELIST
      /\ \A k \in Nodes \ {n} : freeListRefs'[k] = freeListRefs[k]
      /\ freeListRefs' \in [Nodes -> 0 .. 2 * SHOULD_BE_ON_FREELIST]
  BY <1>0, <1>2, <1>3, RefsAssumption DEF Add, TypeOK
<1>5. /\ LocalsTyped' /\ Others(t)
      /\ \/ c = 0 /\ pc'[t] = "load_head" /\ node'[t] = n
         \/ c # 0 /\ pc'[t] = "idle"
  <2>1. CASE freeListRefs[n] = 0
    BY <1>0, <1>3, <2>1 DEF Add, Goto, LocalsTyped, Others, Labels
  <2>2. CASE freeListRefs[n] # 0
    <3>1. Return(t) /\ Null \in Nodes0
      BY <2>2 DEF Add, Nodes0
    <3>2. pc'[t] = "idle"
      BY <1>0, <3>1 DEF Return, LocalsTyped
    <3> QED BY <1>0, <1>3, <2>2, <3>1, <3>2, LoopStep
  <2> QED BY <2>1, <2>2
<1>6. TypeOK'
  BY <1>0, <1>1, <1>4, <1>5 DEF TypeOK, LocalsTyped
<1>7. OnList' = OnList /\ ListInv'
  BY <1>0, <1>1, SameList
<1>8. LocalsInv'
  BY <1>0, <1>1, <1>2, <1>5, LocalsFrame DEF Holding, Owning, Marking, Carrying
<1>9. OwnerInv'
  BY <1>0, <1>1, <1>2, <1>5, <1>7, OwnerFrame DEF OwnerInv, Owning, Marking, Carrying
<1>10. pc'[t] \notin Holding
  BY <1>5 DEF Holding
<1>11. Cardinality(Holders(n)') = c
  BY <1>1, <1>5, <1>10, HoldersChange DEF Holders
<1>12. RefsOf(n)'
  <2>1. CASE c = 0 /\ pc'[t] = "load_head" /\ node'[t] = n
    <3>1. freeListRefs'[n] = SHOULD_BE_ON_FREELIST
      BY <1>4, <2>1, RefsAssumption
    <3> QED BY <1>1, <1>2, <1>5, <1>7, <1>11, <2>1, <3>1, RefsAfter
            DEF Owning, Marking, Carrying
  <2>2. CASE c # 0 /\ pc'[t] = "idle"
    <3>1. freeListRefs'[n] = SHOULD_BE_ON_FREELIST + c /\ c > 0
      BY <1>3, <1>4, <2>2, RefsAssumption
    <3>2. pc'[t] \notin Owning /\ pc'[t] \notin Marking /\ pc'[t] \notin Carrying
      BY <2>2 DEF Owning, Marking, Carrying
    <3> QED BY <1>1, <1>2, <1>5, <1>7, <1>11, <2>2, <3>1, <3>2, RefsAfter
  <2> QED BY <1>5, <2>1, <2>2
<1>13. pc'[t] \in Owning => node'[t] = n
  BY <1>5 DEF Owning, Marking, Carrying
<1> QED BY <1>1, <1>2, <1>4, <1>5, <1>6, <1>7, <1>8, <1>9, <1>10, <1>12, <1>13, NodeStep

LEMMA SetRefsStep ==
    ASSUME FreeListInv, NEW t \in Threads, SetRefs(t), NEW n, n = node[t]
    PROVE  FreeListInv'
<1>0. TypeOK /\ LocalsInv /\ OwnerInv /\ ListInv /\ RefsInv
  BY DEF FreeListInv
<1>1. /\ pc[t] = "set_refs" /\ pc[t] \in Owning /\ pc[t] \in Marking /\ pc[t] \notin Holding
      /\ pc'[t] = "push" /\ pc'[t] \notin Holding /\ node'[t] = n /\ Others(t)
      /\ UNCHANGED <<freeListHead, freeListNext, inUse, head, node>>
  BY <1>0 DEF SetRefs, Goto, Owning, Marking, Holding, TypeOK, Others
<1>2. /\ n \in Nodes /\ n \notin inUse \cup OnList
      /\ \A u \in Threads \ {t} : pc[u] \in Owning => node[u] # n
  BY <1>1, OwnedNode
<1>3. Cardinality(Holders(n)) = 0
  BY <1>1, OwnedRefs
<1>4. 1 \in 0 .. 2 * SHOULD_BE_ON_FREELIST
  BY <1>3, HoldersFew, RefsAssumption
<1>5. /\ freeListRefs'[n] = 1
      /\ \A k \in Nodes \ {n} : freeListRefs'[k] = freeListRefs[k]
      /\ freeListRefs' \in [Nodes -> 0 .. 2 * SHOULD_BE_ON_FREELIST]
  BY <1>0, <1>2, <1>4 DEF SetRefs, TypeOK
<1>6. TypeOK'
  BY <1>0, <1>1, <1>5 DEF SetRefs, Goto, TypeOK, Labels
<1>7. OnList' = OnList /\ ListInv'
  BY <1>0, <1>1, SameList
<1>8. LocalsInv'
  BY <1>0, <1>1, <1>2, LocalsFrame DEF Holding, Owning, Marking, Carrying, LocalsInv
<1>9. OwnerInv'
  BY <1>0, <1>1, <1>2, <1>7, OwnerFrame DEF OwnerInv
<1>10. Cardinality(Holders(n)') = 0
  BY <1>1, <1>3, HoldersChange DEF Holders
<1>11. RefsOf(n)'
  BY <1>1, <1>2, <1>5, <1>7, <1>10, RefsAfter DEF Marking, Carrying, Owning
<1> QED BY <1>1, <1>2, <1>5, <1>6, <1>7, <1>8, <1>9, <1>11, NodeStep

LEMMA SetNextStep ==
    ASSUME FreeListInv, NEW t \in Threads, SetNext(t), NEW n, n = node[t]
    PROVE  FreeListInv'
<1>0. TypeOK /\ LocalsInv /\ OwnerInv /\ ListInv /\ RefsInv
  BY DEF FreeListInv
<1>1. /\ pc[t] = "set_next" /\ pc[t] \in Owning /\ pc[t] \in Marking /\ pc[t] \notin Holding
      /\ pc'[t] = "set_refs" /\ pc'[t] \in Owning /\ pc'[t] \notin Holding
      /\ node'[t] = n /\ head'[t] = head[t] /\ Others(t)
      /\ UNCHANGED <<freeListHead, freeListRefs, inUse, head, node, next, refs>>
  BY <1>0 DEF SetNext, Goto, Owning, Marking, Holding, TypeOK, Others
<1>2. /\ n \in Nodes /\ n \notin inUse \cup OnList
      /\ \A u \in Threads \ {t} : pc[u] \in Owning => node[u] # n
  BY <1>1, OwnedNode
<1>3. freeListRefs[n] = SHOULD_BE_ON_FREELIST /\ Cardinality(Holders(n)) = 0
  BY <1>1, OwnedRefs
<1>4. Holders(n) = {}
  BY <1>3, HoldersFew, FS_EmptySet
<1>5. /\ freeListNext \in [Nodes -> Nodes \cup {Null}]
      /\ freeListNext' \in [Nodes -> Nodes \cup {Null}]
      /\ head[t] \in Nodes \cup {Null} /\ freeListHead \in Nodes \cup {Null}
      /\ freeListNext'[n] = head[t]
      /\ \A k \in Nodes \ {n} : freeListNext'[k] = freeListNext[k]
  BY <1>0, <1>2 DEF SetNext, TypeOK, Nodes0
<1>6. TypeOK'
  BY <1>0, <1>1, <1>5 DEF SetNext, Goto, TypeOK, Labels, Nodes0
<1>7. OnList' = OnList
  <2>1. n \notin Reach(freeListNext, Null, Nodes, freeListHead)
    BY <1>2 DEF OnList
  <2>2. Reach(freeListNext', Null, Nodes, freeListHead)
          = Reach(freeListNext, Null, Nodes, freeListHead)
    BY <1>2, <1>5, <2>1, ReachSetLink
  <2> QED BY <1>1, <2>2 DEF OnList
<1>8. ListInv'
  <2> SUFFICES ASSUME NEW k \in OnList
               PROVE  k \notin Reach(freeListNext', Null, Nodes, freeListNext'[k])
    BY <1>7 DEF ListInv
  <2>1. k \in Nodes \ {n} /\ freeListNext[k] \in Nodes \cup {Null}
    BY <1>2, <1>5 DEF OnList, Reach
  <2>2. Reach(freeListNext, Null, Nodes, freeListNext[k]) \subseteq OnList
    BY <1>5, <2>1, ReachBehind DEF OnList
  <2>3. n \notin Reach(freeListNext, Null, Nodes, freeListNext[k])
    BY <1>2, <2>2
  <2>4. Reach(freeListNext', Null, Nodes, freeListNext[k])
          = Reach(freeListNext, Null, Nodes, freeListNext[k])
    BY <1>2, <1>5, <2>1, <2>3, ReachSetLink
  <2> QED BY <1>0, <1>5, <2>1, <2>4 DEF ListInv
<1>9. LocalsInv'
  <2>1. ASSUME NEW u \in Threads, u # t
        PROVE  /\ pc[u] = "pop" => freeListNext'[head[u]] = freeListNext[head[u]]
               /\ pc[u] \in {"set_refs", "push"} =>
                     freeListNext'[node[u]] = freeListNext[node[u]]
    <3>1. pc[u] \in Holding => head[u] \in Nodes /\ head[u] # n
      BY <1>0, <1>4 DEF LocalsInv, Holders
    <3>2. pc[u] \in Owning => node[u] \in Nodes /\ node[u] # n
      BY <1>0, <1>2, <2>1 DEF LocalsInv
    <3> QED BY <1>5, <3>1, <3>2 DEF Holding, Owning, Marking, Carrying
  <2>2. ASSUME NEW u \in Threads, u # t
        PROVE  /\ pc'[u] = pc[u] /\ node'[u] = node[u] /\ head'[u] = head[u]
               /\ next'[u] = next[u] /\ refs'[u] = refs[u]
    BY <1>1, <2>2 DEF Others
  <2>3. freeListNext'[node'[t]] = head'[t]
    BY <1>1, <1>5
  <2> QED BY <1>0, <1>1, <1>2, <2>1, <2>2, <2>3 DEF LocalsInv, Count
<1>10. OwnerInv'
  BY <1>0, <1>1, <1>2, <1>7, OwnerFrame DEF OwnerInv
<1>11. Cardinality(Holders(n)') = 0
  BY <1>1, <1>3, HoldersChange DEF Holders
<1>12. RefsOf(n)'
  BY <1>1, <1>2, <1>3, <1>7, <1>11, RefsAfter DEF Marking, Carrying, Owning
<1> QED BY <1>1, <1>2, <1>6, <1>7, <1>8, <1>9, <1>10, <1>12, NodeStep

\* The node is first on the list; what was the list is behind it.
LEMMA PushStep ==
    ASSUME FreeListInv, NEW t \in Threads, Push(t), freeListHead = head[t],
           NEW n, n = node[t], NEW c, c = Cardinality(Holders(n))
    PROVE  FreeListInv'
<1>0. TypeOK /\ LocalsInv /\ OwnerInv /\ ListInv /\ RefsInv /\ LocalsTyped
  BY DEF FreeListInv, TypeOK, LocalsTyped
<1>1. /\ pc[t] = "push" /\ pc[t] \in Owning /\ pc[t] \in Carrying /\ pc[t] \notin Holding
      /\ UNCHANGED <<freeListRefs, freeListNext, inUse>>
      /\ freeListHead' = n /\ (Loop(t, next[t]) \/ Return(t))
      /\ next[t] \in Nodes0 /\ freeListNext[n] = freeListHead
  BY <1>0 DEF Push, Owning, Carrying, Holding, LocalsInv, TypeOK
<1>2. /\ n \in Nodes /\ n \notin inUse \cup OnList
      /\ \A u \in Threads \ {t} : pc[u] \in Owning => node[u] # n
  BY <1>1, OwnedNode
<1>3. freeListRefs[n] = c + 1
  BY <1>1, OwnedRefs
<1>4. /\ LocalsTyped' /\ Others(t) /\ pc'[t] \in {"idle", "load_refs"}
      /\ pc'[t] = "load_refs" => head'[t] \in Nodes
  BY <1>0, <1>1, LoopStep
<1>5. pc'[t] \notin Owning /\ pc'[t] \notin Holding
  BY <1>4 DEF Owning, Marking, Carrying, Holding
<1>6. TypeOK'
  BY <1>0, <1>1, <1>2, <1>4 DEF TypeOK, LocalsTyped, Nodes0
<1>7. freeListNext \in [Nodes -> Nodes \cup {Null}] /\ Null \notin Nodes
  BY <1>0, RefsAssumption DEF TypeOK, Nodes0
<1>8. OnList' = {n} \cup OnList
  BY <1>1, <1>2, <1>7, ReachFirst DEF OnList
<1>9. ListInv'
  <2>1. n \notin Reach(freeListNext, Null, Nodes, freeListNext[n])
    BY <1>1, <1>2 DEF OnList
  <2> QED BY <1>0, <1>1, <1>8, <2>1 DEF ListInv
<1>10. LocalsInv'
  BY <1>0, <1>1, <1>4, <1>5, LocalsFrame DEF Owning, Marking, Carrying, Holding
<1>11. OwnerInv'
  BY <1>0, <1>1, <1>2, <1>4, <1>5, <1>8, OwnerFrame DEF OwnerInv
<1>12. Cardinality(Holders(n)') = c
  BY <1>1, <1>4, <1>5, HoldersChange DEF Holders
<1>13. RefsOf(n)'
  BY <1>1, <1>2, <1>3, <1>4, <1>5, <1>8, <1>12, RefsAfter DEF Owning
<1> QED BY <1>1, <1>2, <1>4, <1>5, <1>6, <1>8, <1>9, <1>10, <1>11, <1>13, NodeStep

\* A node that others hold is left to them.
LEMMA UnpushStep ==
    ASSUME FreeListInv, NEW t \in Threads, Unpush(t), NEW n, n = node[t],
           NEW c, c = Cardinality(Holders(n))
    PROVE  FreeListInv'
<1>0. TypeOK /\ LocalsInv /\ OwnerInv /\ ListInv /\ RefsInv /\ LocalsTyped
  BY DEF FreeListInv, TypeOK, LocalsTyped
<1>1. /\ pc[t] = "unpush" /\ pc[t] \in Owning /\ pc[t] \in Carrying /\ pc[t] \notin Holding
      /\ UNCHANGED <<freeListHead, freeListNext, inUse>>
  BY DEF Unpush, Owning, Carrying, Holding
<1>2. /\ n \in Nodes /\ n \notin inUse \cup OnList
      /\ \A u \in Threads \ {t} : pc[u] \in Owning => node[u] # n
  BY <1>1, OwnedNode
<1>3. freeListRefs[n] = c + 1 /\ c \in Nat /\ c < SHOULD_BE_ON_FREELIST
  BY <1>1, OwnedRefs, HoldersFew, RefsAssumption
<1>4. /\ freeListRefs'[n] = SHOULD_BE_ON_FREELIST + c
      /\ \A k \in Nodes \ {n} : freeListRefs'[k] = freeListRefs[k]
      /\ freeListRefs' \in [Nodes -> 0 .. 2 * SHOULD_BE_ON_FREELIST]
  BY <1>0, <1>2, <1>3, RefsAssumption DEF Unpush, TypeOK
<1>5. /\ LocalsTyped' /\ Others(t)
      /\ \/ c = 0 /\ pc'[t] = "set_next" /\ node'[t] = n
         \/ c > 0 /\ pc'[t] \in {"idle", "load_refs"}
      /\ pc'[t] = "load_refs" => head'[t] \in Nodes
  <2>1. CASE freeListRefs[n] = 1
    <3>1. c = 0
      BY <1>3, <2>1
    <3> QED BY <1>0, <2>1, <3>1 DEF Unpush, Goto, LocalsTyped, Others, Labels
  <2>2. CASE freeListRefs[n] # 1
    <3>1. Loop(t, next[t]) \/ Return(t)
      BY <2>2 DEF Unpush
    <3>2. c > 0
      BY <1>3, <2>2
    <3>3. next[t] \in Nodes0
      BY <1>0 DEF LocalsTyped
    <3> QED BY <1>0, <3>1, <3>2, <3>3, LoopStep
  <2> QED BY <2>1, <2>2
<1>6. TypeOK'
  BY <1>0, <1>1, <1>4, <1>5 DEF TypeOK, LocalsTyped
<1>7. OnList' = OnList /\ ListInv'
  BY <1>0, <1>1, SameList
<1>8. pc'[t] \notin Holding /\ (pc'[t] \in Owning => node'[t] = n)
  BY <1>5 DEF Holding, Owning, Marking, Carrying
<1>9. LocalsInv'
  BY <1>0, <1>1, <1>2, <1>5, <1>8, LocalsFrame DEF Holding, Owning, Marking, Carrying
<1>10. OwnerInv'
  BY <1>0, <1>1, <1>2, <1>5, <1>7, <1>8, OwnerFrame DEF OwnerInv
<1>11. Cardinality(Holders(n)') = c
  <2>1. Holders(n)' = Holders(n)
    BY <1>1, <1>5, <1>8, HoldersChange DEF Holders
  <2> QED BY <2>1
<1>12. RefsOf(n)'
  <2>1. CASE c = 0 /\ pc'[t] = "set_next" /\ node'[t] = n
    <3>1. freeListRefs'[n] = SHOULD_BE_ON_FREELIST
      BY <1>4, <2>1, RefsAssumption
    <3> QED BY <1>1, <1>2, <1>5, <1>7, <1>11, <2>1, <3>1, RefsAfter
            DEF Owning, Marking, Carrying
  <2>2. CASE c > 0 /\ pc'[t] \in {"idle", "load_refs"}
    <3>1. pc'[t] \notin Owning /\ pc'[t] \notin Marking /\ pc'[t] \notin Carrying
      BY <2>2 DEF Owning, Marking, Carrying
    <3>2. pc'[t] # "add"
      BY <2>2
    <3> QED BY <1>1, <1>2, <1>4, <1>5, <1>7, <1>11, <2>2, <3>1, <3>2, RefsAfter
  <2> QED BY <1>5, <2>1, <2>2
<1> QED BY <1>1, <1>2, <1>4, <1>5, <1>6, <1>7, <1>8, <1>9, <1>10, <1>12, NodeStep

\* A thread that owns nothing before its step or after it.
LEMMA KindSame ==
    ASSUME NEW t \in Threads, NEW n, Others(t), pc[t] \notin Owning, pc'[t] \notin Owning
    PROVE  /\ At(n, {"add"})' <=> At(n, {"add"})
           /\ At(n, Marking)' <=> At(n, Marking)
           /\ At(n, Carrying)' <=> At(n, Carrying)
           /\ At(n, Owning)' <=> At(n, Owning)
BY DEF At, Owning, Marking, Carrying, Others

LEMMA RefsBound ==
    ASSUME FreeListInv, NEW n \in Nodes, NEW c, c = Cardinality(Holders(n))
    PROVE  /\ freeListRefs[n] \in {c, c + 1, SHOULD_BE_ON_FREELIST + c}
           /\ freeListRefs[n] \in Nat /\ c \in Nat /\ c + 2 < SHOULD_BE_ON_FREELIST
<1>1. RefsOf(n) /\ c \in Nat /\ c + 2 < SHOULD_BE_ON_FREELIST
  BY HoldersFew DEF FreeListInv, RefsInv
<1>2. At(n, Owning) => At(n, {"add"}) \/ At(n, Marking) \/ At(n, Carrying)
  BY DEF At, Owning
<1>3. freeListRefs[n] \in {c, c + 1, SHOULD_BE_ON_FREELIST + c}
  BY <1>1, <1>2, RefsAssumption DEF RefsOf
<1> QED BY <1>1, <1>3, RefsAssumption

\* The node is somebody's already, or its count would be zero.
LEMMA RefStep ==
    ASSUME FreeListInv, NEW t \in Threads, Ref(t), freeListRefs[head[t]] = refs[t],
           NEW n, n = head[t], NEW c, c = Cardinality(Holders(n))
    PROVE  FreeListInv'
<1>0. TypeOK /\ LocalsInv /\ OwnerInv /\ ListInv /\ RefsInv /\ LocalsTyped
  BY DEF FreeListInv, TypeOK, LocalsTyped
<1>1. /\ pc[t] = "ref" /\ pc[t] \notin Owning /\ pc[t] \notin Holding
      /\ pc'[t] = "load_next" /\ pc'[t] \notin Owning /\ pc'[t] \in Holding
      /\ Others(t) /\ n \in Nodes /\ head'[t] = n /\ node'[t] = n
      /\ UNCHANGED <<freeListHead, freeListNext, inUse, head, node>>
      /\ Count(freeListRefs[n]) # 0
  BY <1>0 DEF Ref, Goto, Owning, Marking, Carrying, Holding, TypeOK, Others, LocalsInv
<1>2. /\ freeListRefs[n] \in {c, c + 1, SHOULD_BE_ON_FREELIST + c}
      /\ freeListRefs[n] \in Nat /\ c \in Nat /\ c + 2 < SHOULD_BE_ON_FREELIST
  BY <1>1, RefsBound
<1>3. freeListRefs[n] + 1 \in 0 .. 2 * SHOULD_BE_ON_FREELIST
  BY <1>2, RefsAssumption
<1>4. /\ freeListRefs'[n] = freeListRefs[n] + 1
      /\ \A k \in Nodes \ {n} : freeListRefs'[k] = freeListRefs[k]
      /\ freeListRefs' \in [Nodes -> 0 .. 2 * SHOULD_BE_ON_FREELIST]
  BY <1>0, <1>1, <1>3 DEF Ref, TypeOK
<1>5. LocalsTyped'
  BY <1>0, <1>1, RefsAssumption DEF Ref, Goto, LocalsTyped, Labels
<1>6. TypeOK'
  BY <1>0, <1>1, <1>4, <1>5 DEF TypeOK, LocalsTyped
<1>7. OnList' = OnList /\ ListInv'
  BY <1>0, <1>1, SameList
<1>8. LocalsInv'
  BY <1>0, <1>1, LocalsFrame
<1>9. OwnerInv'
  BY <1>0, <1>1, <1>7, OwnerFrame DEF OwnerInv
<1>10. Cardinality(Holders(n)') = c + 1
  <2>1. t \notin Holders(n) /\ Holders(n)' = Holders(n) \cup {t}
    BY <1>1, HoldersChange DEF Holders
  <2>2. Cardinality(Holders(n) \cup {t}) = c + 1
    BY <2>1, HoldersFew, FS_AddElement
  <2> QED BY <2>1, <2>2
<1>11. ~At(n, Marking)
  <2>1. Count(SHOULD_BE_ON_FREELIST) = 0
    BY <1>2, RefsAssumption DEF Count
  <2> QED BY <1>0, <1>1, <2>1 DEF RefsInv, RefsOf
<1>12. RefsOf(n)'
  <2>1. RefsOf(n)
    BY <1>0, <1>1 DEF RefsInv
  <2>2. /\ At(n, {"add"})' <=> At(n, {"add"})
        /\ At(n, Marking)' <=> At(n, Marking)
        /\ At(n, Carrying)' <=> At(n, Carrying)
        /\ At(n, Owning)' <=> At(n, Owning)
    BY <1>1, KindSame
  <2> QED BY <1>1, <1>2, <1>4, <1>7, <1>10, <1>11, <2>1, <2>2, RefsAssumption DEF RefsOf
<1> QED BY <1>1, <1>4, <1>6, <1>7, <1>8, <1>9, <1>12, NodeStep

\* The link a getter read before is still that of the head: nobody sets the
\* link of a node that is held, and the head is not behind itself.
LEMMA PopStep ==
    ASSUME FreeListInv, NEW t \in Threads, Pop(t), freeListHead = head[t],
           NEW n, n = head[t], NEW c, c = Cardinality(Holders(n))
    PROVE  FreeListInv'
<1>0. TypeOK /\ LocalsInv /\ OwnerInv /\ ListInv /\ RefsInv /\ LocalsTyped
  BY DEF FreeListInv, TypeOK, LocalsTyped
<1>1. /\ pc[t] = "pop" /\ pc[t] \notin Owning /\ pc[t] \in Holding
      /\ pc'[t] = "take" /\ pc'[t] \in Carrying /\ pc'[t] \in Owning /\ pc'[t] \in Holding
      /\ Others(t) /\ n \in Nodes /\ head'[t] = n /\ node'[t] = n
      /\ freeListHead = n /\ freeListHead' = freeListNext[n]
      /\ UNCHANGED <<freeListRefs, freeListNext, inUse, head, node, refs>>
  BY <1>0 DEF Pop, Goto, Owning, Marking, Carrying, Holding, TypeOK, Others, LocalsInv
<1>2. freeListNext \in [Nodes -> Nodes \cup {Null}] /\ Null \notin Nodes
  BY <1>0, RefsAssumption DEF TypeOK, Nodes0
<1>3. OnList = {n} \cup OnList'
  BY <1>1, <1>2, ReachFirst DEF OnList
<1>4. n \notin OnList'
  BY <1>0, <1>1, <1>3 DEF ListInv, OnList
<1>5. /\ n \notin inUse
      /\ \A u \in Threads \ {t} : pc[u] \in Owning => node[u] # n
  BY <1>0, <1>3 DEF OwnerInv
<1>6. freeListRefs[n] = c + 1
  BY <1>0, <1>1, <1>3 DEF RefsInv, RefsOf
<1>7. LocalsTyped'
  BY <1>0, <1>1, RefsAssumption DEF Pop, Goto, LocalsTyped, Labels, Nodes0
<1>8. TypeOK'
  <2>1. freeListHead' \in Nodes0
    BY <1>1, <1>2 DEF Nodes0
  <2> QED BY <1>0, <1>1, <1>7, <2>1 DEF TypeOK, LocalsTyped
<1>9. ListInv'
  BY <1>0, <1>1, <1>3 DEF ListInv
<1>10. LocalsInv'
  BY <1>0, <1>1, LocalsFrame
<1>11. OwnerInv'
  BY <1>0, <1>1, <1>3, <1>4, <1>5, OwnerFrame DEF OwnerInv
<1>12. Cardinality(Holders(n)') = c
  <2>1. Holders(n)' = Holders(n)
    BY <1>1, HoldersChange DEF Holders
  <2> QED BY <2>1
<1>13. RefsOf(n)'
  BY <1>1, <1>4, <1>5, <1>6, <1>12, RefsAfter DEF Marking, Carrying
<1> QED BY <1>1, <1>3, <1>5, <1>8, <1>9, <1>10, <1>11, <1>13, NodeStep

LEMMA TakeStep ==
    ASSUME FreeListInv, NEW t \in Threads, Take(t), NEW n, n = node[t],
           NEW c, c = Cardinality(Holders(n))
    PROVE  FreeListInv'
<1>0. TypeOK /\ LocalsInv /\ OwnerInv /\ ListInv /\ RefsInv /\ LocalsTyped
  BY DEF FreeListInv, TypeOK, LocalsTyped
<1>1. /\ pc[t] = "take" /\ pc[t] \in Owning /\ pc[t] \in Carrying /\ pc[t] \in Holding
      /\ head[t] = n /\ Return(t) /\ Null \in Nodes0 /\ inUse' = inUse \cup {n}
      /\ UNCHANGED <<freeListHead, freeListNext>>
  BY <1>0 DEF Take, Owning, Carrying, Holding, LocalsInv, Nodes0
<1>2. /\ n \in Nodes /\ n \notin inUse \cup OnList
      /\ \A u \in Threads \ {t} : pc[u] \in Owning => node[u] # n
  BY <1>1, OwnedNode
<1>3. freeListRefs[n] = c + 1 /\ c \in Nat /\ c < SHOULD_BE_ON_FREELIST
  BY <1>1, OwnedRefs, HoldersFew, RefsAssumption
<1>4. LocalsTyped' /\ Others(t)
  BY <1>0, <1>1, LoopStep
<1>5. pc'[t] = "idle" /\ pc'[t] \notin Owning /\ pc'[t] \notin Holding
  BY <1>0, <1>1 DEF Return, LocalsTyped, Owning, Marking, Carrying, Holding
<1>6. Cardinality(Holders(n)') = c - 1 /\ c > 0
  <2>1. t \in Holders(n) /\ Holders(n)' = Holders(n) \ {t}
    BY <1>1, <1>4, <1>5, HoldersChange DEF Holders
  <2>2. Cardinality(Holders(n) \ {t}) = c - 1
    BY <2>1, HoldersFew, FS_RemoveElement
  <2>3. c # 0
    BY <2>1, HoldersFew, FS_EmptySet
  <2> QED BY <1>3, <2>1, <2>2, <2>3
<1>7. /\ freeListRefs'[n] = c - 1
      /\ \A k \in Nodes \ {n} : freeListRefs'[k] = freeListRefs[k]
      /\ freeListRefs' \in [Nodes -> 0 .. 2 * SHOULD_BE_ON_FREELIST]
  BY <1>0, <1>2, <1>3, <1>6, RefsAssumption DEF Take, TypeOK
<1>8. TypeOK'
  BY <1>0, <1>1, <1>2, <1>4, <1>7 DEF TypeOK, LocalsTyped
<1>9. OnList' = OnList /\ ListInv'
  BY <1>0, <1>1, SameList
<1>10. LocalsInv'
  BY <1>0, <1>1, <1>4, <1>5, LocalsFrame DEF Owning, Holding
<1>11. OwnerInv'
  BY <1>0, <1>1, <1>2, <1>4, <1>5, <1>9, OwnerFrame DEF OwnerInv
<1>12. RefsOf(n)'
  <2>1. n \in inUse' /\ n \notin OnList'
    BY <1>1, <1>2, <1>9
  <2> QED BY <1>2, <1>4, <1>5, <1>6, <1>7, <2>1, RefsAfter DEF Owning
<1> QED BY <1>1, <1>2, <1>4, <1>5, <1>7, <1>8, <1>9, <1>10, <1>11, <1>12, NodeStep

\* Who drops the last reference of a marked node has it for itself.
LEMMA UnrefStep ==
    ASSUME FreeListInv, NEW t \in Threads, Unref(t), NEW n, n = node[t],
           NEW c, c = Cardinality(Holders(n))
    PROVE  FreeListInv'
<1>0. TypeOK /\ LocalsInv /\ OwnerInv /\ ListInv /\ RefsInv /\ LocalsTyped
  BY DEF FreeListInv, TypeOK, LocalsTyped
<1>1. /\ pc[t] = "unref" /\ pc[t] \notin Owning /\ pc[t] \in Holding
      /\ head[t] = n /\ n \in Nodes /\ next[t] \in Nodes0
      /\ UNCHANGED <<freeListHead, freeListNext, inUse>>
  BY <1>0 DEF Unref, Owning, Marking, Carrying, Holding, LocalsInv, LocalsTyped
<1>2. /\ freeListRefs[n] \in {c, c + 1, SHOULD_BE_ON_FREELIST + c}
      /\ freeListRefs[n] \in Nat /\ c \in Nat /\ c + 2 < SHOULD_BE_ON_FREELIST
  BY <1>1, RefsBound
<1>3. t \in Holders(n) /\ c > 0
  <2>1. t \in Holders(n)
    BY <1>1 DEF Holders
  <2> QED BY <1>2, <2>1, HoldersFew, FS_EmptySet
<1>4. RefsOf(n) /\ ~At(n, Marking)
  BY <1>0, <1>1, <1>3 DEF RefsInv, RefsOf
<1>5. freeListRefs[n] - 1 \in 0 .. 2 * SHOULD_BE_ON_FREELIST
  BY <1>2, <1>3, RefsAssumption
<1>6. /\ freeListRefs'[n] = freeListRefs[n] - 1
      /\ \A k \in Nodes \ {n} : freeListRefs'[k] = freeListRefs[k]
      /\ freeListRefs' \in [Nodes -> 0 .. 2 * SHOULD_BE_ON_FREELIST]
  BY <1>0, <1>1, <1>5 DEF Unref, TypeOK
<1>7. /\ LocalsTyped' /\ Others(t)
      /\ \/ /\ freeListRefs[n] = SHOULD_BE_ON_FREELIST + 1
            /\ pc'[t] = "load_head" /\ node'[t] = n
         \/ /\ freeListRefs[n] # SHOULD_BE_ON_FREELIST + 1
            /\ pc'[t] \in {"idle", "load_refs"}
      /\ pc'[t] = "load_refs" => head'[t] \in Nodes
  <2>1. CASE freeListRefs[n] = SHOULD_BE_ON_FREELIST + 1
    BY <1>0, <2>1 DEF Unref, Goto, LocalsTyped, Others, Labels
  <2>2. CASE freeListRefs[n] # SHOULD_BE_ON_FREELIST + 1
    <3>1. Loop(t, next[t])
      BY <2>2 DEF Unref
    <3> QED BY <1>0, <1>1, <2>2, <3>1, LoopStep
  <2> QED BY <2>1, <2>2
<1>8. pc'[t] \notin Holding /\ (pc'[t] \in Owning => node'[t] = n)
  BY <1>7 DEF Holding, Owning, Marking, Carrying
<1>9. Cardinality(Holders(n)') = c - 1
  <2>1. Holders(n)' = Holders(n) \ {t}
    BY <1>7, <1>8, HoldersChange
  <2>2. Cardinality(Holders(n) \ {t}) = c - 1
    BY <1>3, HoldersFew, FS_RemoveElement
  <2> QED BY <2>1, <2>2
<1>10. TypeOK'
  BY <1>0, <1>1, <1>6, <1>7 DEF TypeOK, LocalsTyped
<1>11. OnList' = OnList /\ ListInv'
  BY <1>0, <1>1, SameList
<1>12. LocalsInv'
  BY <1>0, <1>1, <1>7, <1>8, LocalsFrame DEF Owning, Marking, Carrying, Holding
<1>13. CASE freeListRefs[n] = SHOULD_BE_ON_FREELIST + 1
  <2>1. pc'[t] = "load_head" /\ node'[t] = n
    BY <1>7, <1>13
  <2>2. c = 1 /\ n \notin inUse \cup OnList /\ ~At(n, Owning)
    <3>1. freeListRefs[n] # c /\ freeListRefs[n] # c + 1
      BY <1>2, <1>13, RefsAssumption
    <3>2. n \notin inUse \cup OnList /\ ~At(n, {"add"}) /\ ~At(n, Carrying)
      BY <1>4, <3>1 DEF RefsOf
    <3>3. ~At(n, Owning)
      BY <1>4, <3>2 DEF At, Owning
    <3>4. c = 1
      BY <1>2, <1>13, <3>1, RefsAssumption
    <3> QED BY <3>2, <3>3, <3>4
  <2>3. \A u \in Threads \ {t} : pc[u] \in Owning => node[u] # n
    BY <2>2 DEF At
  <2>4. OwnerInv'
    BY <1>0, <1>1, <1>7, <1>8, <1>11, <2>2, <2>3, OwnerFrame DEF OwnerInv
  <2>5. RefsOf(n)'
    <3>1. freeListRefs'[n] = SHOULD_BE_ON_FREELIST /\ c - 1 = 0
      BY <1>6, <1>13, <2>2, RefsAssumption
    <3>2. n \notin inUse' \cup OnList'
      BY <1>1, <1>11, <2>2
    <3> QED BY <1>1, <1>7, <1>9, <2>1, <2>3, <3>1, <3>2, RefsAfter
            DEF Owning, Marking, Carrying
  <2> QED BY <1>1, <1>6, <1>7, <1>8, <1>10, <1>11, <1>12, <2>4, <2>5, NodeStep
<1>14. CASE freeListRefs[n] # SHOULD_BE_ON_FREELIST + 1
  <2>1. pc'[t] \notin Owning
    BY <1>7, <1>14 DEF Owning, Marking, Carrying
  <2>2. OwnerInv'
    BY <1>0, <1>1, <1>7, <1>11, <2>1, OwnerFrame DEF OwnerInv
  <2>3. RefsOf(n)'
    <3>1. /\ At(n, {"add"})' <=> At(n, {"add"})
          /\ At(n, Marking)' <=> At(n, Marking)
          /\ At(n, Carrying)' <=> At(n, Carrying)
          /\ At(n, Owning)' <=> At(n, Owning)
      BY <1>1, <1>7, <2>1, KindSame
    <3> QED BY <1>1, <1>2, <1>3, <1>4, <1>6, <1>9, <1>11, <1>14, <3>1, RefsAssumption
            DEF RefsOf
  <2> QED BY <1>1, <1>6, <1>7, <1>8, <1>10, <1>11, <1>12, <2>1, <2>2, <2>3, NodeStep
<1> QED BY <1>13, <1>14

-----------------------------------------------------------------------------
(* The invariant holds, and what follows from it                           *)

LEMMA ContinueStep ==
    ASSUME FreeListInv, NEW t \in Threads, Continue(t)
    PROVE  FreeListInv'
<1>1. PICK n : n = node[t]
  OBVIOUS
<1>2. PICK h : h = head[t]
  OBVIOUS
<1>3. PICK c : c = Cardinality(Holders(n))
  OBVIOUS
<1>4. PICK ch : ch = Cardinality(Holders(h))
  OBVIOUS
<1>5. CASE Add(t)
  BY <1>1, <1>3, <1>5, AddStep
<1>6. CASE LoadHead(t) \/ Get(t) \/ LoadRefs(t) \/ LoadNext(t)
  BY <1>6, QuietActions
<1>7. CASE SetNext(t)
  BY <1>1, <1>7, SetNextStep
<1>8. CASE SetRefs(t)
  BY <1>1, <1>8, SetRefsStep
<1>9. CASE Push(t)
  BY <1>1, <1>3, <1>9, PushStep, QuietActions
<1>10. CASE Unpush(t)
  BY <1>1, <1>3, <1>10, UnpushStep
<1>11. CASE Ref(t)
  BY <1>2, <1>4, <1>11, RefStep, QuietActions
<1>12. CASE Pop(t)
  BY <1>2, <1>4, <1>12, PopStep, QuietActions
<1>13. CASE Take(t)
  BY <1>1, <1>3, <1>13, TakeStep
<1>14. CASE Unref(t)
  BY <1>1, <1>3, <1>14, UnrefStep
<1> QED BY <1>5, <1>6, <1>7, <1>8, <1>9, <1>10, <1>11, <1>12, <1>13, <1>14
        DEF Continue, AddKnowingRefcountIsZero, TryGet

LEMMA StepFreeListInv == FreeListInv /\ [Next]_vars => FreeListInv'
<1> SUFFICES ASSUME FreeListInv, [Next]_vars PROVE FreeListInv'
  OBVIOUS
<1>1. ASSUME NEW t \in Adders, NEW n \in Nodes, CallAdd(t, n) PROVE FreeListInv'
  BY <1>1, CallAddStep DEF Threads
<1>2. ASSUME NEW t \in Getters, CallTryGet(t) PROVE FreeListInv'
  BY <1>2, QuietActions DEF Threads
<1>3. ASSUME NEW t \in Threads, Continue(t) PROVE FreeListInv'
  BY <1>3, ContinueStep
<1>4. CASE UNCHANGED vars
  BY <1>4 DEF vars, locals, FreeListInv, TypeOK, LocalsInv, OwnerInv, RefsInv,
              RefsOf, ListInv, OnList, At, Holders
<1> QED BY <1>1, <1>2, <1>3, <1>4 DEF Next

LEMMA FreeListInvariant == Spec => []FreeListInv
BY InitFreeListInv, StepFreeListInv, PTL DEF Spec

LEMMA OneOwner == FreeListInv => ExclusiveOwner
<1> SUFFICES ASSUME FreeListInv PROVE ExclusiveOwner
  OBVIOUS
<1>0. TypeOK /\ LocalsInv /\ OwnerInv /\ RefsInv
  BY DEF FreeListInv
<1>1. \A t \in Threads : pc[t] = "take" => pc[t] \in Owning /\ pc[t] \in Carrying
  BY DEF Owning, Carrying
<1>2. /\ inUse \cap (OnList \cup Taken) = {}
      /\ OnList \cap Taken = {}
      /\ \A t, u \in Threads :
            t # u /\ pc[t] = "take" /\ pc[u] = "take" => node[t] # node[u]
  BY <1>0, <1>1 DEF OwnerInv, Taken
<1>3. ASSUME NEW n \in Taken PROVE freeListRefs[n] < SHOULD_BE_ON_FREELIST
  <2>1. PICK t \in Threads : pc[t] = "take" /\ node[t] = n
    BY DEF Taken
  <2>2. n \in Nodes /\ At(n, Carrying)
    BY <1>0, <1>1, <2>1 DEF LocalsInv, At
  <2>3. freeListRefs[n] = Cardinality(Holders(n)) + 1
    BY <1>0, <2>2 DEF RefsInv, RefsOf
  <2> QED BY <2>3, HoldersFew, RefsAssumption
<1> QED BY <1>0, <1>2, <1>3 DEF ExclusiveOwner

LEMMA NoneLost == FreeListInv => NoBlockLost
<1>0. FreeListInv => inUse \cup OnList \subseteq Nodes
  BY DEF FreeListInv, TypeOK, OnList, Reach
<1> SUFFICES ASSUME FreeListInv, \A t \in Threads : pc[t] = "idle",
                    NEW n \in Nodes, n \notin inUse \cup OnList
             PROVE  FALSE
  BY <1>0 DEF NoBlockLost
<1>1. ~At(n, Owning)
  BY DEF At, Owning, Marking, Carrying
<1>2. Cardinality(Holders(n)) > 0
  BY <1>1 DEF FreeListInv, RefsInv, RefsOf
<1>3. Holders(n) = {}
  BY DEF Holders, Holding
<1> QED BY <1>2, <1>3, FS_EmptySet

\* A block that is in use is neither on the list nor in the hands of a thread
\* that will hand it out, whatever number of threads add and take blocks at
\* once: try_get's references keep the link of the head it is about to pop
\* from being set by another thread (concurrentqueue.h:1404).
THEOREM FreeListExclusiveOwner == Spec => []ExclusiveOwner
BY FreeListInvariant, OneOwner, PTL

\* A block is not lost when a push fails: whoever drops the last reference of a
\* marked node adds it, so that when all calls are over every block is in use
\* or on the list.
THEOREM FreeListNoBlockLost == Spec => []NoBlockLost
BY FreeListInvariant, NoneLost, PTL

=============================================================================
