---------------------------- MODULE Wallet_proofs ----------------------------
(***************************************************************************)
(* Machine-checked proofs about Wallet, for any blocks, heights, readers,  *)
(* faults and reorganisations.                                             *)
(***************************************************************************)
EXTENDS Wallet, TLAPS

-----------------------------------------------------------------------------
(* The fields                                                              *)

\* The fields that a thread walking through them has behind it at a place.
Behind(place) ==
    IF place = "height_" THEN {}
    ELSE IF place = "base_target_" THEN {"height_"}
    ELSE IF place = "gensig_" THEN {"height_", "base_target_"}
    ELSE IF place = "scoop_" THEN {"height_", "base_target_", "gensig_"}
    ELSE FieldNames

LEMMA FieldsAre ==
    /\ DOMAIN Fields = 1 .. 4 /\ Len(Fields) = 4
    /\ Fields[1] = "height_" /\ Fields[2] = "base_target_"
    /\ Fields[3] = "gensig_" /\ Fields[4] = "scoop_"
    /\ FieldNames = {"height_", "base_target_", "gensig_", "scoop_"}
<1>1. /\ DOMAIN Fields = 1 .. 4 /\ Len(Fields) = 4
      /\ Fields[1] = "height_" /\ Fields[2] = "base_target_"
      /\ Fields[3] = "gensig_" /\ Fields[4] = "scoop_"
  BY DEF Fields
<1>2. 1 .. 4 = {1, 2, 3, 4}
  OBVIOUS
<1>3. FieldNames = {Fields[f] : f \in {1, 2, 3, 4}}
  BY <1>1, <1>2 DEF FieldNames
<1> QED BY <1>1, <1>3

\* A step past a field puts it behind, and nothing else.
LEMMA PastField ==
    ASSUME NEW f \in DOMAIN Fields, NEW next, next \notin FieldNames
    PROVE  /\ Behind(AfterField(f, next)) = Behind(Fields[f]) \cup {Fields[f]}
           /\ AfterField(f, next) \in FieldNames \cup {next}
           /\ Fields[f] \in FieldNames /\ Fields[f] \notin Behind(Fields[f])
           /\ Behind(Fields[f]) \subseteq FieldNames
<1>1. f = 1 \/ f = 2 \/ f = 3 \/ f = 4
  BY FieldsAre
<1>2. CASE f = 1
  BY <1>2, FieldsAre DEF Behind, AfterField
<1>3. CASE f = 2
  BY <1>3, FieldsAre DEF Behind, AfterField
<1>4. CASE f = 3
  BY <1>4, FieldsAre DEF Behind, AfterField
<1>5. CASE f = 4
  BY <1>5, FieldsAre DEF Behind, AfterField
<1> QED BY <1>1, <1>2, <1>3, <1>4, <1>5

LEMMA BlockOfType ==
    ASSUME NEW b \in AnyBlock
    PROVE  BlockOf(b) \in BlockField /\ BlockOf(b).height_ = Height[b]
BY WalletAssumption DEF BlockOf, BlockField, AnyBlock

LEMMA BlockOfFields ==
    ASSUME NEW b \in AnyBlock, NEW n \in FieldNames
    PROVE  BlockOf(b)[n] = ValueFor(b, n)
BY FieldsAre DEF BlockOf, ValueFor

\* A block whose fields are all b's is b's.
LEMMA AllFields ==
    ASSUME NEW b \in AnyBlock, NEW r \in BlockField,
           \A n \in FieldNames : r[n] = ValueFor(b, n)
    PROVE  r = BlockOf(b)
BY FieldsAre DEF BlockOf, BlockField, ValueFor

FieldType(n) == IF n = "height_" THEN Nat ELSE AnyBlock

LEMMA ValueForType ==
    ASSUME NEW b \in AnyBlock, NEW n \in FieldNames
    PROVE  ValueFor(b, n) \in FieldType(n)
BY WalletAssumption DEF ValueFor, AnyBlock, FieldType

LEMMA GetField ==
    ASSUME NEW r \in BlockField, NEW n \in FieldNames
    PROVE  r[n] \in FieldType(n)
BY FieldsAre DEF BlockField, FieldType

SetTo(r, n, v) == [r EXCEPT ![n] = v]

LEMMA SetField ==
    ASSUME NEW r \in BlockField, NEW n \in FieldNames, NEW v \in FieldType(n)
    PROVE  /\ SetTo(r, n, v) \in BlockField
           /\ SetTo(r, n, v)[n] = v
           /\ \A m \in FieldNames \ {n} : SetTo(r, n, v)[m] = r[m]
<1>1. CASE n = "height_"
  BY <1>1, FieldsAre DEF BlockField, FieldType, SetTo
<1>2. CASE n = "base_target_"
  BY <1>2, FieldsAre DEF BlockField, FieldType, SetTo
<1>3. CASE n = "gensig_"
  BY <1>3, FieldsAre DEF BlockField, FieldType, SetTo
<1>4. CASE n = "scoop_"
  BY <1>4, FieldsAre DEF BlockField, FieldType, SetTo
<1> QED BY <1>1, <1>2, <1>3, <1>4, FieldsAre

-----------------------------------------------------------------------------
(* Types, and who holds the mutex                                          *)

Copying(t) == pc[t] \in FieldNames \cup {"unlock_block"}

MakingInfo == wpc \in {"head", "tail", "publish", "unlock"}

Writing == wpc \in FieldNames \/ MakingInfo

\* Who is at a place between a lock and its unlock owns the mutex.
Owners ==
    /\ \A t \in Readers : Copying(t) => new_block_mu_.upgrade = t
    /\ wpc = "unique" => new_block_mu_.upgrade = Refresher
    /\ Writing => new_block_mu_.exclusive = Refresher

LockInv == TypeOK /\ Owners

LEMMA ThreadFacts ==
    /\ Refresher \in Threads /\ Refresher # Nobody /\ Refresher \notin Readers
    /\ \A t \in Readers : t \in Threads /\ t # Nobody /\ t # Refresher
BY WalletAssumption, NobodyAssumption

\* Nobody copies a block while it is being replaced.
LEMMA CopyExcludesWrite ==
    ASSUME LockInv, NEW t \in Readers, Copying(t)
    PROVE  /\ ~Writing /\ wpc # "unique"
           /\ \A s \in Readers \ {t} : ~Copying(s)
BY ThreadFacts DEF LockInv, Owners, TypeOK, Excludes

\* The places of a reader and of the refresh thread that are no field.
LEMMA OtherPlaces ==
    /\ FieldNames \cap {"fetch", "compare", "lock", "unique", "head", "tail",
                        "publish", "unlock"} = {}
    /\ FieldNames \cap {"idle", "lock_block", "unlock_block", "load_idx",
                        "info_head", "info_tail", "lock_miners",
                        "unlock_miners"} = {}
BY FieldsAre

LEMMA InitLockInv == Init => LockInv
<1> SUFFICES ASSUME Init PROVE LockInv
  OBVIOUS
<1>1. adopted \in AnyBlock /\ NoBlock \in AnyBlock
  BY WalletAssumption DEF Init, AnyBlock
<1>2. BlockOf(adopted) \in BlockField /\ BlockOf(NoBlock) \in BlockField
  BY <1>1, BlockOfType
<1>3. \A b \in AnyBlock : StringOf(b) \in String
  BY DEF StringOf, String
<1>4. mining_info_ \in [0 .. 1 -> String]
  BY <1>1, <1>3 DEF Init
<1>5. TypeOK
  <2>1. new_block_mu_ \in SharedMutexState /\ Excludes(new_block_mu_)
    BY DEF Init, Unlocked, SharedMutexState, Excludes
  <2>2. cache_idx_ \in 0 .. 1
    BY DEF Init
  <2>6. leftover \in BOOLEAN
    BY Zenon DEF Init
  <2>3. faults \in 0 .. MaxFaults /\ reorgs \in 0 .. MaxReorgs
    BY WalletAssumption DEF Init
  <2>4. snap \in [Readers -> BlockField] /\ got \in [Readers -> BlockField]
    BY <1>2 DEF Init
  <2>5. copy \in [Readers -> String]
    BY <1>1, <1>3 DEF Init
  <2> QED
    BY <1>1, <1>2, <1>4, <2>1, <2>2, <2>3, <2>4, <2>5, <2>6
       DEF Init, TypeOK
<1>6. Owners
  BY OtherPlaces DEF Init, Owners, Copying, Writing, MakingInfo
<1> QED BY <1>5, <1>6 DEF LockInv

\* Steps that leave the mutex and every place but the refresh thread's
\* polling alone.
Poll == NewBlock \/ Reorg \/ Fetch

LEMMA PollLockInv == LockInv /\ Poll => LockInv'
<1> SUFFICES ASSUME LockInv, Poll PROVE LockInv'
  OBVIOUS
<1> USE DEF LockInv, TypeOK, Owners, Copying, Writing, MakingInfo, AnyBlock,
            blockVars, cacheVars, readerVars, writerVars, envVars
<1>1. CASE NewBlock \/ Reorg
  BY <1>1, WalletAssumption DEF NewBlock, Reorg
<1>2. CASE FetchFails \/ FetchMalformed
  <2>3. faults < MaxFaults /\ faults' = faults + 1
    BY <1>2, Zenon DEF FetchFails, FetchMalformed
  <2>1. faults' \in 0 .. MaxFaults
    BY <2>3, WalletAssumption
  <2>2. leftover' \in BOOLEAN
    BY <1>2, Zenon DEF FetchFails, FetchMalformed
  <2> QED BY <1>2, <2>1, <2>2 DEF FetchFails, FetchMalformed
<1>3. CASE FetchBlock
  BY <1>3, OtherPlaces DEF FetchBlock
<1> QED BY <1>1, <1>2, <1>3 DEF Poll, Fetch

LEMMA RefreshLockInv == LockInv /\ Refresh => LockInv'
<1> SUFFICES ASSUME LockInv, Refresh PROVE LockInv'
  OBVIOUS
<1> USE OtherPlaces, ThreadFacts
    DEF LockInv, TypeOK, Owners, Copying, Writing, MakingInfo,
        blockVars, cacheVars, readerVars, writerVars, envVars
<1>1. CASE CompareHeight
  BY <1>1 DEF CompareHeight
<1>2. CASE LockBlock
  BY <1>2 DEF LockBlock, CanLockUpgrade, LockUpgrade, SharedMutexState, Excludes
<1>3. CASE UniqueBlock
  <2>1. \A t \in Readers : ~Copying(t)
    BY <1>3 DEF UniqueBlock
  <2>2. new_block_mu_' = [new_block_mu_ EXCEPT !.upgrade = Nobody,
                                               !.exclusive = Refresher]
    BY <1>3 DEF UniqueBlock, UpgradeToUnique
  <2>3. /\ new_block_mu_' \in SharedMutexState
        /\ Excludes(new_block_mu_)'
        /\ new_block_mu_'.exclusive = Refresher
    BY <1>3, <2>2 DEF UniqueBlock, CanUpgradeToUnique, SharedMutexState, Excludes
  <2>4. wpc' \in FieldNames
    BY <1>3, FieldsAre DEF UniqueBlock
  <2> QED BY <1>3, <2>1, <2>3, <2>4 DEF UniqueBlock
<1>4. ASSUME NEW f \in DOMAIN Fields, WriteField(f) PROVE LockInv'
  <2>1. current_block_' \in BlockField
    <3>1. Fields[f] \in FieldNames
      BY PastField
    <3>2. ValueFor(fetched, Fields[f]) \in FieldType(Fields[f])
      BY <3>1, ValueForType DEF AnyBlock
    <3>3. current_block_' = SetTo(current_block_, Fields[f],
                                  ValueFor(fetched, Fields[f]))
      BY <1>4 DEF WriteField, SetTo
    <3> QED BY <3>1, <3>2, <3>3, SetField
  <2>2. wpc \in FieldNames /\ wpc' \in FieldNames \cup {"head"}
    BY <1>4, PastField DEF WriteField
  <2> QED BY <1>4, <2>1, <2>2 DEF WriteField
<1>5. CASE WriteHead
  <2>1. mining_info_' \in [0 .. 1 -> String]
    BY <1>5 DEF WriteHead, Spare, String
  <2> QED BY <1>5, <2>1 DEF WriteHead
<1>6. CASE WriteTail
  <2>1. mining_info_' \in [0 .. 1 -> String]
    BY <1>6 DEF WriteTail, Spare, String
  <2> QED BY <1>6, <2>1 DEF WriteTail
<1>7. CASE Publish
  BY <1>7 DEF Publish, Spare
<1>8. CASE UnlockBlock
  <2>1. \A t \in Readers : ~Copying(t)
    BY <1>8 DEF UnlockBlock, Excludes
  <2>2. new_block_mu_' = [new_block_mu_ EXCEPT !.upgrade = Nobody,
                                               !.exclusive = Nobody]
    BY <1>8 DEF UnlockBlock, UnlockUpgrade, UniqueToUpgrade, SharedMutexState
  <2>3. new_block_mu_' \in SharedMutexState /\ Excludes(new_block_mu_)'
    BY <2>2 DEF SharedMutexState, Excludes
  <2> QED BY <1>8, <2>1, <2>3, WalletAssumption DEF UnlockBlock, AnyBlock
<1> QED BY <1>1, <1>2, <1>3, <1>4, <1>5, <1>6, <1>7, <1>8 DEF Refresh

LEMMA ReaderLockInv ==
    ASSUME LockInv, NEW t \in Readers, Call(t) \/ Read(t)
    PROVE  LockInv'
<1> USE OtherPlaces, ThreadFacts
    DEF LockInv, TypeOK, Owners, Copying, Writing, MakingInfo, Goto,
        blockVars, cacheVars, readerVars, writerVars, envVars
<1>1. CASE Call(t)
  BY <1>1 DEF Call
<1>2. CASE LockSnapshot(t)
  <2>1. Fields[1] \in FieldNames
    BY FieldsAre
  <2> QED
    BY <1>2, <2>1
       DEF LockSnapshot, CanLockUpgrade, LockUpgrade, SharedMutexState, Excludes
<1>3. ASSUME NEW f \in DOMAIN Fields, CopyField(t, f) PROVE LockInv'
  <2>1. SetTo(snap[t], Fields[f], current_block_[Fields[f]]) \in BlockField
    <3>1. snap[t] \in BlockField /\ current_block_ \in BlockField
      OBVIOUS
    <3>2. Fields[f] \in FieldNames
      BY PastField, OtherPlaces
    <3> QED BY <3>1, <3>2, GetField, SetField
  <2>3. snap' \in [Readers -> BlockField]
    BY <1>3, <2>1 DEF CopyField, SetTo
  <2>2. pc[t] \in FieldNames /\ pc'[t] \in FieldNames \cup {"unlock_block"}
    BY <1>3, PastField DEF CopyField
  <2> QED BY <1>3, <2>2, <2>3 DEF CopyField
<1>4. CASE UnlockSnapshot(t)
  <2>1. BlockOf(NoBlock) \in BlockField
    BY BlockOfType DEF AnyBlock
  <2>2. ~Writing /\ wpc # "unique" /\ \A s \in Readers \ {t} : ~Copying(s)
    BY <1>4, CopyExcludesWrite DEF UnlockSnapshot
  <2>3. new_block_mu_' \in SharedMutexState /\ Excludes(new_block_mu_)'
    BY <1>4 DEF UnlockSnapshot, UnlockUpgrade, SharedMutexState, Excludes
  <2> QED BY <1>4, <2>1, <2>2, <2>3 DEF UnlockSnapshot
<1>5. CASE LoadIdx(t)
  BY <1>5 DEF LoadIdx
<1>6. CASE CopyHead(t)
  BY <1>6 DEF CopyHead, String
<1>7. CASE CopyTail(t)
  BY <1>7 DEF CopyTail, String
<1>8. CASE LockMiners(t)
  BY <1>8 DEF LockMiners, CanLockShared, LockShared, SharedMutexState, Excludes
<1>9. CASE UnlockMiners(t)
  BY <1>9 DEF UnlockMiners, UnlockShared, SharedMutexState, Excludes
<1> QED
  BY <1>1, <1>2, <1>3, <1>4, <1>5, <1>6, <1>7, <1>8, <1>9 DEF Read

LEMMA StepLockInv == LockInv /\ [Next]_vars => LockInv'
<1> SUFFICES ASSUME LockInv, [Next]_vars PROVE LockInv'
  OBVIOUS
<1>1. CASE UNCHANGED vars
  BY <1>1 DEF vars, envVars, blockVars, cacheVars, writerVars, readerVars,
              LockInv, TypeOK, Owners, Copying, Writing, MakingInfo
<1> QED
  BY <1>1, PollLockInv, RefreshLockInv, ReaderLockInv DEF Next, Poll

LEMMA LockInvariant == Spec => []LockInv
BY InitLockInv, StepLockInv, PTL DEF Spec

\* Every variable keeps its type, and no two owners of new_block_mu_ exclude
\* one another (refresh_block, get_current_block, get_miner_round).
THEOREM WalletTypeCorrect == Spec => []TypeOK
<1>1. LockInv => TypeOK
  BY DEF LockInv
<1> QED BY <1>1, LockInvariant, PTL

-----------------------------------------------------------------------------
(* The block is replaced whole and copied whole                            *)

\* How far the refresh thread has overwritten current_block_.
Overwritten ==
    /\ ~Writing => current_block_ = BlockOf(adopted)
    /\ wpc \in FieldNames =>
         \A n \in FieldNames :
            current_block_[n] = ValueFor(IF n \in Behind(wpc) THEN fetched
                                                              ELSE adopted, n)
    /\ MakingInfo => current_block_ = BlockOf(fetched)

Higher ==
    wpc \in {"lock", "unique"} \/ Writing => Height[adopted] < Height[fetched]

\* How far a reader has copied it.
Copied ==
    \A t \in Readers : Copying(t) =>
        \A n \in Behind(pc[t]) : snap[t][n] = ValueFor(adopted, n)

BlockInv == LockInv /\ Overwritten /\ Higher /\ Copied

LEMMA InitBlockInv == Init => BlockInv
BY InitLockInv, OtherPlaces
   DEF Init, BlockInv, Overwritten, Higher, Copied, Copying, Writing, MakingInfo

\* A step that touches neither the block nor who has how much of it.
LEMMA BlockUntouched ==
    ASSUME BlockInv, LockInv', UNCHANGED <<blockVars, wpc, fetched>>,
           UNCHANGED snap,
           \A t \in Readers : Copying(t)' => Copying(t) /\ pc'[t] = pc[t]
    PROVE  BlockInv'
BY DEF BlockInv, Overwritten, Higher, Copied, Copying, Writing, MakingInfo, blockVars

LEMMA PollBlockInv == BlockInv /\ Poll => BlockInv'
<1> SUFFICES ASSUME BlockInv, Poll PROVE BlockInv'
  OBVIOUS
<1>1. LockInv'
  BY PollLockInv DEF BlockInv
<1>2. CASE NewBlock \/ Reorg \/ FetchFails \/ FetchMalformed
  BY <1>1, <1>2, BlockUntouched
     DEF NewBlock, Reorg, FetchFails, FetchMalformed, writerVars, readerVars,
         blockVars, Copying
<1>3. CASE FetchBlock
  BY <1>1, <1>3, OtherPlaces
     DEF FetchBlock, BlockInv, Overwritten, Higher, Copied, Copying, Writing,
         MakingInfo, blockVars, readerVars
<1> QED BY <1>2, <1>3 DEF Poll, Fetch

LEMMA RefreshBlockInv == BlockInv /\ Refresh => BlockInv'
<1> SUFFICES ASSUME BlockInv, Refresh PROVE BlockInv'
  OBVIOUS
<1>t. LockInv /\ LockInv' /\ TypeOK
  BY RefreshLockInv DEF BlockInv, LockInv
<1>b. adopted \in AnyBlock /\ fetched \in AnyBlock
  BY <1>t DEF TypeOK
<1> USE OtherPlaces
    DEF BlockInv, Overwritten, Higher, Copied, Copying, Writing, MakingInfo,
        blockVars, readerVars
<1>1. CASE CompareHeight
  <2>1. current_block_.height_ = Height[adopted]
    BY <1>1, <1>b, BlockOfType DEF CompareHeight
  <2> QED BY <1>1, <1>t, <2>1 DEF CompareHeight
<1>2. CASE LockBlock
  BY <1>2, <1>t DEF LockBlock
<1>3. CASE UniqueBlock
  <2>1. Fields[1] \in FieldNames /\ Behind(Fields[1]) = {}
    BY FieldsAre DEF Behind
  <2>2. \A n \in FieldNames : current_block_[n] = ValueFor(adopted, n)
    BY <1>3, <1>b, BlockOfFields DEF UniqueBlock
  <2> QED BY <1>3, <1>t, <2>1, <2>2 DEF UniqueBlock
<1>4. ASSUME NEW f \in DOMAIN Fields, WriteField(f) PROVE BlockInv'
  <2>1. /\ wpc \in FieldNames /\ wpc = Fields[f]
        /\ wpc' \in FieldNames \cup {"head"}
        /\ Behind(wpc') = Behind(wpc) \cup {wpc} /\ wpc \notin Behind(wpc)
    BY <1>4, PastField DEF WriteField
  <2>2. /\ current_block_' \in BlockField
        /\ current_block_'[wpc] = ValueFor(fetched, wpc)
        /\ \A m \in FieldNames \ {wpc} : current_block_'[m] = current_block_[m]
    <3>1. current_block_ \in BlockField
      BY <1>t DEF TypeOK
    <3>2. wpc \in FieldNames /\ ValueFor(fetched, wpc) \in FieldType(wpc)
      BY <1>b, <2>1, ValueForType
    <3>3. current_block_' = SetTo(current_block_, wpc, ValueFor(fetched, wpc))
      BY <1>4, <2>1 DEF WriteField, SetTo
    <3> QED BY <3>1, <3>2, <3>3, SetField
  <2>3. \A n \in FieldNames :
           current_block_'[n] = ValueFor(IF n \in Behind(wpc') THEN fetched
                                                               ELSE adopted, n)
    BY <2>1, <2>2
  <2>4. wpc' = "head" => current_block_' = BlockOf(fetched)
    <3>1. wpc' = "head" => Behind(wpc') = FieldNames
      BY DEF Behind
    <3> QED BY <1>b, <2>2, <2>3, <3>1, AllFields
  <2>5. UNCHANGED <<adopted, fetched, pc, snap>>
    BY <1>4 DEF WriteField
  <2> QED BY <1>t, <2>1, <2>3, <2>4, <2>5
<1>5. CASE WriteHead \/ WriteTail \/ Publish
  BY <1>5, <1>t DEF WriteHead, WriteTail, Publish
<1>6. CASE UnlockBlock
  <2>1. \A t \in Readers : ~Copying(t)
    BY <1>6, <1>t, CopyExcludesWrite DEF UnlockBlock
  <2> QED BY <1>6, <1>t, <2>1 DEF UnlockBlock
<1> QED BY <1>1, <1>2, <1>3, <1>4, <1>5, <1>6 DEF Refresh

LEMMA ReaderBlockInv ==
    ASSUME BlockInv, NEW t \in Readers, Call(t) \/ Read(t)
    PROVE  BlockInv'
<1>t. LockInv /\ LockInv' /\ TypeOK
  BY ReaderLockInv DEF BlockInv, LockInv
<1> USE DEF Goto, writerVars
<1>1. CASE \/ Call(t) \/ LoadIdx(t) \/ CopyHead(t) \/ CopyTail(t)
           \/ LockMiners(t) \/ UnlockMiners(t)
  <2>1. UNCHANGED <<blockVars, wpc, fetched, snap>>
    BY <1>1 DEF Call, LoadIdx, CopyHead, CopyTail, LockMiners, UnlockMiners
  <2>2. \A s \in Readers : Copying(s)' => Copying(s) /\ pc'[s] = pc[s]
    BY <1>1, <1>t, OtherPlaces
       DEF Call, LoadIdx, CopyHead, CopyTail, LockMiners, UnlockMiners,
           Copying, TypeOK
  <2> QED BY <1>t, <2>1, <2>2, BlockUntouched DEF blockVars
<1> USE DEF BlockInv, Overwritten, Higher, Copied, Copying, Writing, MakingInfo,
        blockVars, TypeOK
<1>2. CASE LockSnapshot(t)
  <2>1. Fields[1] \in FieldNames /\ Behind(Fields[1]) = {}
    BY FieldsAre DEF Behind
  <2> QED BY <1>2, <1>t, <2>1 DEF LockSnapshot
<1>3. ASSUME NEW f \in DOMAIN Fields, CopyField(t, f) PROVE BlockInv'
  <2>1. /\ pc[t] \in FieldNames /\ pc[t] = Fields[f]
        /\ Behind(AfterField(f, "unlock_block")) = Behind(pc[t]) \cup {pc[t]}
        /\ Behind(pc[t]) \subseteq FieldNames /\ pc[t] \notin Behind(pc[t])
    BY <1>3, PastField, OtherPlaces DEF CopyField
  <2>2. pc'[t] = AfterField(f, "unlock_block")
    BY <1>3, <1>t DEF CopyField
  <2>3. \A n \in FieldNames : current_block_[n] = ValueFor(adopted, n)
    BY <1>t, <2>1, CopyExcludesWrite, BlockOfFields
  <2>4. snap'[t] = SetTo(snap[t], pc[t], current_block_[pc[t]])
    BY <1>3, <1>t DEF CopyField, SetTo
  <2>5. /\ snap'[t][pc[t]] = current_block_[pc[t]]
        /\ \A m \in FieldNames \ {pc[t]} : snap'[t][m] = snap[t][m]
    <3>1. current_block_ \in BlockField /\ snap[t] \in BlockField
      BY <1>t
    <3> QED BY <2>1, <2>4, <3>1, GetField, SetField
  <2>6. \A n \in Behind(pc'[t]) : snap'[t][n] = ValueFor(adopted, n)
    BY <2>1, <2>2, <2>3, <2>5
  <2>7. \A s \in Readers \ {t} : pc'[s] = pc[s] /\ snap'[s] = snap[s]
    BY <1>3, <1>t DEF CopyField
  <2>8. UNCHANGED <<current_block_, adopted, wpc, fetched>>
    BY <1>3 DEF CopyField
  <2> QED BY <1>t, <2>6, <2>7, <2>8
<1>4. CASE UnlockSnapshot(t)
  BY <1>4, <1>t, OtherPlaces DEF UnlockSnapshot
<1> QED BY <1>1, <1>2, <1>3, <1>4 DEF Read

LEMMA StepBlockInv == BlockInv /\ [Next]_vars => BlockInv'
<1> SUFFICES ASSUME BlockInv, [Next]_vars PROVE BlockInv'
  OBVIOUS
<1>1. CASE UNCHANGED vars
  <2>1. LockInv'
    BY <1>1, StepLockInv DEF BlockInv
  <2> QED
    BY <1>1, <2>1, BlockUntouched
       DEF vars, blockVars, writerVars, readerVars, Copying
<1> QED
  BY <1>1, PollBlockInv, RefreshBlockInv, ReaderBlockInv DEF Next, Poll

LEMMA BlockInvariant == Spec => []BlockInv
BY InitBlockInv, StepBlockInv, PTL DEF Spec

\* What get_current_block is about to return.
LEMMA SnapshotIsBlock ==
    ASSUME BlockInv, NEW t \in Readers, pc[t] = "unlock_block"
    PROVE  snap[t] = BlockOf(adopted)
<1>1. Behind("unlock_block") = FieldNames
  BY DEF Behind
<1>2. \A n \in FieldNames : snap[t][n] = ValueFor(adopted, n)
  BY <1>1 DEF BlockInv, Copied, Copying
<1> QED BY <1>2, AllFields DEF BlockInv, LockInv, TypeOK

\* To get_current_block's callers the block is a register that is replaced
\* whole, by a higher block (refresh_block, get_current_block).
THEOREM WalletIsRegister == Spec => ImplementsBlockRegister
<1> DEFINE Values == {BlockOf(b) : b \in AnyBlock}
<1>1. Init => Register!Init
  <2>1. Init => adopted \in AnyBlock
    BY WalletAssumption DEF Init, AnyBlock
  <2> QED BY <2>1 DEF Init, Register!Init
<1>2. BlockInv /\ [Next]_vars => [Register!Next]_(Register!vars)
  <2> SUFFICES ASSUME BlockInv, [Next]_vars
               PROVE  Register!Next \/ UNCHANGED <<adopted, got>>
    BY DEF Register!vars
  <2>1. CASE UnlockBlock
    <3>1. adopted \in AnyBlock /\ fetched \in AnyBlock
      BY DEF BlockInv, LockInv, TypeOK
    <3>2. Height[adopted] < Height[fetched]
      BY <2>1 DEF BlockInv, Higher, Writing, MakingInfo, UnlockBlock
    <3>3. Register!Replace(BlockOf(fetched))
      BY <2>1, <3>1, <3>2, BlockOfType DEF UnlockBlock, Register!Replace, readerVars
    <3> QED BY <3>1, <3>3 DEF Register!Next
  <2>2. ASSUME NEW t \in Readers, UnlockSnapshot(t)
        PROVE  Register!Next
    <3>1. snap[t] = BlockOf(adopted)
      BY <2>2, SnapshotIsBlock DEF UnlockSnapshot
    <3>2. Register!Read(t)
      BY <2>2, <3>1 DEF UnlockSnapshot, Register!Read, blockVars
    <3> QED BY <3>2 DEF Register!Next
  <2>3. CASE Poll
    BY <2>3 DEF Poll, NewBlock, Reorg, Fetch, FetchFails, FetchMalformed,
                FetchBlock, blockVars, readerVars
  <2>4. CASE Refresh
    BY <2>1, <2>4 DEF Refresh, CompareHeight, LockBlock, UniqueBlock, WriteField,
                WriteHead, WriteTail, Publish, blockVars, readerVars
  <2>5. ASSUME NEW t \in Readers, Call(t) \/ Read(t)
        PROVE  Register!Next \/ UNCHANGED <<adopted, got>>
    BY <2>2, <2>5 DEF Call, Read, LockSnapshot, CopyField, LoadIdx, CopyHead,
                CopyTail, LockMiners, UnlockMiners, blockVars
  <2>6. CASE UNCHANGED vars
    BY <2>6 DEF vars, blockVars, readerVars
  <2> QED BY <2>3, <2>4, <2>5, <2>6 DEF Next, Poll
<1> QED
  BY <1>1, <1>2, BlockInvariant, PTL DEF ImplementsBlockRegister, Register!Spec, Spec

-----------------------------------------------------------------------------
(* The double buffer                                                       *)

CopyingInfo(t) == pc[t] \in {"info_head", "info_tail"}

\* The string in use is whole, and the spare one is when it is published.
StringsWhole ==
    /\ mining_info_[cache_idx_].head = mining_info_[cache_idx_].tail
    /\ wpc \in {"tail", "publish"} => mining_info_[Spare].head = fetched
    /\ wpc = "publish" => mining_info_[Spare].tail = fetched

\* A reader that no publication has lapped copies the string in use.
CopiesWhole ==
    \A t \in Readers : lapped[t] = 0 =>
        /\ CopyingInfo(t) => idx[t] = cache_idx_
        /\ pc[t] = "info_tail" => copy[t].head = mining_info_[cache_idx_].head
        /\ ~CopyingInfo(t) => copy[t].head = copy[t].tail

InfoInv == LockInv /\ StringsWhole /\ CopiesWhole

LEMMA InitInfoInv == Init => InfoInv
<1> SUFFICES ASSUME Init PROVE InfoInv
  OBVIOUS
<1>1. \A i \in 0 .. 1 : mining_info_[i].head = mining_info_[i].tail
  BY DEF Init, StringOf
<1>2. cache_idx_ \in 0 .. 1
  BY InitLockInv DEF LockInv, TypeOK
<1>3. StringsWhole
  BY <1>1, <1>2 DEF Init, StringsWhole
<1>4. CopiesWhole
  BY DEF Init, CopiesWhole, CopyingInfo, StringOf
<1> QED BY <1>3, <1>4, InitLockInv DEF InfoInv

\* A step that touches neither the strings nor who copies how much of one.
LEMMA InfoUntouched ==
    ASSUME InfoInv, LockInv', UNCHANGED <<cacheVars, fetched, idx, copy, lapped>>,
           wpc' \in {"tail", "publish"} => wpc' = wpc,
           \A t \in Readers : CopyingInfo(t)' <=> CopyingInfo(t),
           \A t \in Readers : CopyingInfo(t) => pc'[t] = pc[t]
    PROVE  InfoInv'
<1>1. StringsWhole'
  BY DEF InfoInv, StringsWhole, Spare, cacheVars
<1>2. CopiesWhole'
  <2> SUFFICES ASSUME NEW t \in Readers, lapped'[t] = 0
               PROVE  /\ CopyingInfo(t)' => idx'[t] = cache_idx_'
                      /\ pc'[t] = "info_tail" =>
                            copy'[t].head = mining_info_'[cache_idx_'].head
                      /\ ~CopyingInfo(t)' => copy'[t].head = copy'[t].tail
    BY DEF CopiesWhole
  <2>1. UNCHANGED <<cache_idx_, mining_info_, idx, copy, lapped>>
    BY DEF cacheVars
  <2>2. /\ CopyingInfo(t) => idx[t] = cache_idx_
        /\ pc[t] = "info_tail" => copy[t].head = mining_info_[cache_idx_].head
        /\ ~CopyingInfo(t) => copy[t].head = copy[t].tail
    BY <2>1 DEF InfoInv, CopiesWhole
  <2>3. pc'[t] = "info_tail" => pc[t] = "info_tail"
    BY DEF CopyingInfo
  <2> QED BY <2>1, <2>2, <2>3
<1> QED BY <1>1, <1>2 DEF InfoInv

\* The same for steps of the refresh thread and of its wallet.
LEMMA InfoUntouchedByWriter ==
    ASSUME InfoInv, LockInv', UNCHANGED <<cacheVars, readerVars>>,
           wpc' \notin {"tail", "publish"} \/ UNCHANGED <<wpc, fetched>>
    PROVE  InfoInv'
BY DEF InfoInv, StringsWhole, CopiesWhole, CopyingInfo, Spare, cacheVars, readerVars

LEMMA PollInfoInv == InfoInv /\ Poll => InfoInv'
<1> SUFFICES ASSUME InfoInv, Poll PROVE InfoInv'
  OBVIOUS
<1>1. LockInv'
  BY PollLockInv DEF InfoInv
<1>2. UNCHANGED <<cacheVars, readerVars>>
  BY DEF Poll, NewBlock, Reorg, Fetch, FetchFails, FetchMalformed, FetchBlock
<1>3. wpc' = "compare" \/ UNCHANGED <<wpc, fetched>>
  BY DEF Poll, NewBlock, Reorg, Fetch, FetchFails, FetchMalformed, FetchBlock,
         writerVars
<1> QED BY <1>1, <1>2, <1>3, InfoUntouchedByWriter

LEMMA RefreshInfoInv == InfoInv /\ Refresh => InfoInv'
<1> SUFFICES ASSUME InfoInv, Refresh PROVE InfoInv'
  OBVIOUS
<1>t. LockInv' /\ TypeOK
  BY RefreshLockInv DEF InfoInv, LockInv
<1>i. cache_idx_ \in {0, 1} /\ Spare \in {0, 1} /\ Spare # cache_idx_
  BY <1>t DEF TypeOK, Spare
<1>1. CASE \/ CompareHeight \/ LockBlock \/ UniqueBlock \/ UnlockBlock
           \/ \E f \in DOMAIN Fields : WriteField(f)
  <2>1. UNCHANGED <<cacheVars, readerVars>>
    BY <1>1 DEF CompareHeight, LockBlock, UniqueBlock, WriteField, UnlockBlock
  <2>2. wpc' \notin {"tail", "publish"}
    BY <1>1, PastField, FieldsAre, OtherPlaces
       DEF CompareHeight, LockBlock, UniqueBlock, WriteField, UnlockBlock
  <2> QED BY <1>t, <2>1, <2>2, InfoUntouchedByWriter
<1>2. CASE WriteHead
  <2>1. /\ mining_info_'[Spare].head = fetched
        /\ mining_info_'[cache_idx_] = mining_info_[cache_idx_]
    BY <1>2, <1>t, <1>i DEF WriteHead, TypeOK, String
  <2> QED
    BY <1>2, <1>t, <2>1 DEF WriteHead, InfoInv, StringsWhole, CopiesWhole,
                            CopyingInfo, Spare, readerVars
<1>3. CASE WriteTail
  <2>1. /\ mining_info_'[Spare].tail = fetched
        /\ mining_info_'[Spare].head = mining_info_[Spare].head
        /\ mining_info_'[cache_idx_] = mining_info_[cache_idx_]
    BY <1>3, <1>t, <1>i DEF WriteTail, TypeOK, String
  <2> QED
    BY <1>3, <1>t, <2>1 DEF WriteTail, InfoInv, StringsWhole, CopiesWhole,
                            CopyingInfo, Spare, readerVars
<1>4. CASE Publish
  <2>1. StringsWhole'
    BY <1>4 DEF Publish, InfoInv, StringsWhole
  <2>2. CopiesWhole'
    BY <1>4 DEF Publish, InfoInv, CopiesWhole, CopyingInfo
  <2> QED BY <1>t, <2>1, <2>2 DEF InfoInv
<1> QED BY <1>1, <1>2, <1>3, <1>4 DEF Refresh

LEMMA ReaderInfoInv ==
    ASSUME InfoInv, NEW t \in Readers, Call(t) \/ Read(t)
    PROVE  InfoInv'
<1>t. LockInv' /\ TypeOK
  BY ReaderLockInv DEF InfoInv, LockInv
<1> USE DEF Goto, cacheVars, writerVars
<1>1. CASE \/ Call(t) \/ LockSnapshot(t) \/ UnlockSnapshot(t)
           \/ LockMiners(t) \/ UnlockMiners(t)
           \/ \E f \in DOMAIN Fields : CopyField(t, f)
  <2>1. UNCHANGED <<cacheVars, wpc, fetched, idx, copy, lapped>>
    BY <1>1 DEF Call, LockSnapshot, UnlockSnapshot, LockMiners, UnlockMiners, CopyField
  <2>2. ~CopyingInfo(t) /\ ~CopyingInfo(t)'
    BY <1>1, <1>t, PastField, FieldsAre, OtherPlaces
       DEF Call, LockSnapshot, UnlockSnapshot, LockMiners, UnlockMiners,
           CopyField, CopyingInfo, TypeOK
  <2>3. \A s \in Readers \ {t} : pc'[s] = pc[s]
    BY <1>1, <1>t
       DEF Call, LockSnapshot, UnlockSnapshot, LockMiners, UnlockMiners,
           CopyField, TypeOK
  <2> QED BY <1>t, <2>1, <2>2, <2>3, InfoUntouched DEF CopyingInfo
<1> USE DEF InfoInv, StringsWhole, CopiesWhole, CopyingInfo, Spare, TypeOK
<1>2. CASE LoadIdx(t)
  BY <1>2, <1>t DEF LoadIdx
<1>3. CASE CopyHead(t)
  BY <1>3, <1>t DEF CopyHead, String
<1>4. CASE CopyTail(t)
  BY <1>4, <1>t DEF CopyTail, String
<1> QED BY <1>1, <1>2, <1>3, <1>4 DEF Read

LEMMA StepInfoInv == InfoInv /\ [Next]_vars => InfoInv'
<1> SUFFICES ASSUME InfoInv, [Next]_vars PROVE InfoInv'
  OBVIOUS
<1>1. CASE UNCHANGED vars
  <2>1. LockInv'
    BY <1>1, StepLockInv DEF InfoInv
  <2> QED BY <1>1, <2>1, InfoUntouchedByWriter DEF vars, writerVars
<1> QED
  BY <1>1, PollInfoInv, RefreshInfoInv, ReaderInfoInv DEF Next, Poll

LEMMA InfoInvariant == Spec => []InfoInv
BY InitInfoInv, StepInfoInv, PTL DEF Spec

\* get_cached_mining_info returns a mixture of two mining infos only when
\* refresh_block published another string meanwhile.
THEOREM DoubleBufferCoversOne == Spec => []TornOnlyIfLapped
<1>1. InfoInv => TornOnlyIfLapped
  <2> SUFFICES ASSUME InfoInv, NEW t \in Readers,
                      pc[t] \notin {"info_head", "info_tail"},
                      copy[t].head # copy[t].tail
               PROVE  lapped[t] = 1
    BY DEF InfoInv, LockInv, TornOnlyIfLapped
  <2>1. lapped[t] \in 0 .. 1
    BY DEF InfoInv, LockInv, TypeOK
  <2> QED BY <2>1 DEF InfoInv, CopiesWhole, CopyingInfo
<1> QED BY <1>1, InfoInvariant, PTL

-----------------------------------------------------------------------------
(* The block is never behind the mining info                               *)

\* The highest block whose mining info may have been read.
Newest == IF wpc \in {"tail", "publish", "unlock"} THEN fetched ELSE adopted

NoHigher(string) ==
    /\ Height[string.head] =< Height[Newest]
    /\ Height[string.tail] =< Height[Newest]

InfoBound ==
    /\ \A i \in 0 .. 1 : NoHigher(mining_info_[i])
    /\ \A t \in Readers : NoHigher(copy[t])

BoundInv == BlockInv /\ InfoBound

LEMMA HeightType == \A b \in AnyBlock : Height[b] \in Nat /\ Height[NoBlock] =< Height[b]
BY WalletAssumption DEF AnyBlock

LEMMA InitBoundInv == Init => BoundInv
<1> SUFFICES ASSUME Init PROVE BoundInv
  OBVIOUS
<1>1. adopted \in AnyBlock /\ NoBlock \in AnyBlock /\ Newest = adopted
  BY WalletAssumption DEF Init, AnyBlock, Newest
<1>2. \A i \in 0 .. 1 : mining_info_[i] \in {StringOf(adopted), StringOf(NoBlock)}
  BY DEF Init
<1>3. \A t \in Readers : copy[t] = StringOf(NoBlock)
  BY DEF Init
<1>4. NoHigher(StringOf(adopted)) /\ NoHigher(StringOf(NoBlock))
  BY <1>1, HeightType DEF NoHigher, StringOf
<1> QED BY <1>2, <1>3, <1>4, InitBlockInv DEF BoundInv, InfoBound

\* The bound only rises, and the strings and copies it is about are unchanged
\* or come from one another or the newest block.
LEMMA BoundKept ==
    ASSUME BoundInv, BlockInv', Height[Newest] =< Height[Newest'],
           \A i \in 0 .. 1 :
              /\ mining_info_'[i].head \in {mining_info_[i].head, Newest'}
              /\ mining_info_'[i].tail \in {mining_info_[i].tail, Newest'},
           \A t \in Readers : \E i \in 0 .. 1 :
              /\ copy'[t].head \in {copy[t].head, mining_info_[i].head}
              /\ copy'[t].tail \in {copy[t].tail, mining_info_[i].tail}
    PROVE  BoundInv'
<1>t. /\ mining_info_ \in [0 .. 1 -> String] /\ copy \in [Readers -> String]
      /\ Newest \in AnyBlock /\ Newest' \in AnyBlock
  BY DEF BoundInv, BlockInv, LockInv, TypeOK, Newest
<1>1. \A b \in AnyBlock : Height[b] =< Height[Newest] => Height[b] =< Height[Newest']
  BY <1>t, HeightType
<1>2. ASSUME NEW i \in 0 .. 1 PROVE NoHigher(mining_info_[i])'
  <2>1. mining_info_[i].head \in AnyBlock /\ mining_info_[i].tail \in AnyBlock
    BY <1>t DEF String
  <2>2. NoHigher(mining_info_[i])
    BY DEF BoundInv, InfoBound
  <2>3. Height[Newest'] =< Height[Newest']
    BY <1>t, HeightType
  <2> QED BY <1>1, <2>1, <2>2, <2>3 DEF NoHigher
<1>3. ASSUME NEW t \in Readers PROVE NoHigher(copy[t])'
  <2>1. PICK i \in 0 .. 1 :
           /\ copy'[t].head \in {copy[t].head, mining_info_[i].head}
           /\ copy'[t].tail \in {copy[t].tail, mining_info_[i].tail}
    OBVIOUS
  <2>2. /\ mining_info_[i].head \in AnyBlock /\ mining_info_[i].tail \in AnyBlock
        /\ copy[t].head \in AnyBlock /\ copy[t].tail \in AnyBlock
    BY <1>t DEF String
  <2>3. NoHigher(mining_info_[i]) /\ NoHigher(copy[t])
    BY DEF BoundInv, InfoBound
  <2> QED BY <1>1, <2>1, <2>2, <2>3 DEF NoHigher
<1> QED BY <1>2, <1>3 DEF BoundInv, InfoBound

LEMMA NewestRises ==
    ASSUME BoundInv, [Next]_vars
    PROVE  /\ Height[Newest] =< Height[Newest']
           /\ WriteHead \/ WriteTail => Newest' = fetched
<1>t. /\ adopted \in AnyBlock /\ fetched \in AnyBlock
      /\ Height[adopted] \in Nat /\ Height[fetched] \in Nat
  BY HeightType DEF BoundInv, BlockInv, LockInv, TypeOK
<1>1. CASE UNCHANGED <<wpc, fetched, adopted>>
  BY <1>t, <1>1 DEF Newest, WriteHead, WriteTail
<1>2. CASE FetchBlock
  BY <1>t, <1>2 DEF FetchBlock, Newest, blockVars, WriteHead, WriteTail
<1>3. CASE CompareHeight \/ LockBlock \/ UniqueBlock
  BY <1>t, <1>3, FieldsAre
     DEF CompareHeight, LockBlock, UniqueBlock, Newest, blockVars, WriteHead,
         WriteTail
<1>4. ASSUME NEW f \in DOMAIN Fields, WriteField(f)
      PROVE  Newest' = Newest /\ ~(WriteHead \/ WriteTail)
  BY <1>4, PastField, FieldsAre, OtherPlaces
     DEF WriteField, Newest, WriteHead, WriteTail
<1>5. CASE WriteHead
  <2>1. Height[adopted] < Height[fetched]
    BY <1>5 DEF WriteHead, BoundInv, BlockInv, Higher, Writing, MakingInfo
  <2> QED BY <1>t, <1>5, <2>1 DEF WriteHead, Newest
<1>6. CASE WriteTail \/ Publish
  BY <1>t, <1>6 DEF WriteHead, WriteTail, Publish, Newest, blockVars
<1>7. CASE UnlockBlock
  BY <1>t, <1>7 DEF WriteHead, WriteTail, UnlockBlock, Newest
<1>8. CASE NewBlock \/ Reorg \/ FetchFails \/ FetchMalformed
  BY <1>1, <1>8 DEF NewBlock, Reorg, FetchFails, FetchMalformed, blockVars, writerVars
<1>9. ASSUME NEW t \in Readers, Call(t) \/ Read(t)
      PROVE  UNCHANGED <<wpc, fetched, adopted>>
  BY <1>9 DEF Call, Read, LockSnapshot, CopyField, UnlockSnapshot, LoadIdx,
              CopyHead, CopyTail, LockMiners, UnlockMiners, blockVars, writerVars
<1>10. CASE UNCHANGED vars
  BY <1>1, <1>10 DEF vars, blockVars, writerVars
<1>11. Newest' = Newest => Height[Newest] =< Height[Newest']
  BY <1>t DEF Newest
<1> QED
  BY <1>1, <1>2, <1>3, <1>4, <1>5, <1>6, <1>7, <1>8, <1>9, <1>10, <1>11
     DEF Next, Fetch, Refresh

LEMMA StepBoundInv == BoundInv /\ [Next]_vars => BoundInv'
<1> SUFFICES ASSUME BoundInv, [Next]_vars PROVE BoundInv'
  OBVIOUS
<1>t. BlockInv' /\ TypeOK
  BY StepBlockInv DEF BoundInv, BlockInv, LockInv
<1>i. cache_idx_ \in {0, 1} /\ Spare \in {0, 1} /\ 0 .. 1 = {0, 1}
  BY <1>t DEF TypeOK, Spare
<1>1. CASE UNCHANGED <<mining_info_, copy>>
  BY <1>1, <1>t, <1>i, NewestRises, BoundKept
<1>2. CASE WriteHead \/ WriteTail
  <2>1. Newest' = fetched /\ UNCHANGED copy
    BY <1>2, NewestRises DEF WriteHead, WriteTail, readerVars
  <2>2. \A i \in 0 .. 1 :
           /\ mining_info_'[i].head \in {mining_info_[i].head, fetched}
           /\ mining_info_'[i].tail \in {mining_info_[i].tail, fetched}
    BY <1>2, <1>t, <1>i DEF WriteHead, WriteTail, TypeOK, String
  <2> QED BY <1>t, <1>i, <2>1, <2>2, NewestRises, BoundKept
<1>3. ASSUME NEW t \in Readers, CopyHead(t) \/ CopyTail(t) PROVE BoundInv'
  <2>1. UNCHANGED mining_info_ /\ idx[t] \in 0 .. 1
    BY <1>3, <1>t DEF CopyHead, CopyTail, cacheVars, TypeOK
  <2>2. /\ copy'[t].head \in {copy[t].head, mining_info_[idx[t]].head}
        /\ copy'[t].tail \in {copy[t].tail, mining_info_[idx[t]].tail}
    BY <1>3, <1>t DEF CopyHead, CopyTail, TypeOK, String
  <2>3. \A s \in Readers \ {t} : copy'[s] = copy[s]
    BY <1>3, <1>t DEF CopyHead, CopyTail, TypeOK
  <2>4. \A s \in Readers : \E i \in 0 .. 1 :
           /\ copy'[s].head \in {copy[s].head, mining_info_[i].head}
           /\ copy'[s].tail \in {copy[s].tail, mining_info_[i].tail}
    BY <1>i, <2>1, <2>2, <2>3
  <2> QED BY <1>t, <2>1, <2>4, NewestRises, BoundKept
<1>4. CASE Poll
  BY <1>1, <1>4 DEF Poll, NewBlock, Reorg, Fetch, FetchFails, FetchMalformed,
                    FetchBlock, cacheVars, readerVars
<1>5. CASE Refresh
  BY <1>1, <1>2, <1>5
     DEF Refresh, CompareHeight, LockBlock, UniqueBlock, WriteField, Publish,
         UnlockBlock, cacheVars, readerVars
<1>6. ASSUME NEW t \in Readers, Call(t) \/ Read(t) PROVE BoundInv'
  BY <1>1, <1>3, <1>6
     DEF Call, Read, LockSnapshot, CopyField, UnlockSnapshot, LoadIdx,
         LockMiners, UnlockMiners, cacheVars
<1>7. CASE UNCHANGED vars
  BY <1>1, <1>7 DEF vars, cacheVars, readerVars
<1> QED BY <1>4, <1>5, <1>6, <1>7 DEF Next, Poll

LEMMA BoundInvariant == Spec => []BoundInv
BY InitBoundInv, StepBoundInv, PTL DEF Spec

\* No caller gets a block that is lower than a mining info, even a torn one,
\* it got before (get_cached_mining_info, get_current_block).
THEOREM BlockKeepsUpWithInfo == Spec => BlockNotBehindInfo
<1> DEFINE Returns(t) ==
             pc[t] = "unlock_block" /\ pc'[t] = "idle" =>
                 /\ Height[copy[t].head] =< got'[t].height_
                 /\ Height[copy[t].tail] =< got'[t].height_
<1>1. BoundInv /\ [Next]_vars => [\A t \in Readers : Returns(t)]_vars
  <2> SUFFICES ASSUME BoundInv, Next, NEW t \in Readers,
                      pc[t] = "unlock_block", pc'[t] = "idle"
               PROVE  /\ Height[copy[t].head] =< got'[t].height_
                      /\ Height[copy[t].tail] =< got'[t].height_
    OBVIOUS
  <2>t. LockInv /\ TypeOK /\ adopted \in AnyBlock
    BY DEF BoundInv, BlockInv, LockInv, TypeOK
  <2>1. Newest = adopted
    BY <2>t, CopyExcludesWrite DEF Copying, Writing, MakingInfo, Newest
  <2>2. UnlockSnapshot(t)
    <3>1. ASSUME NEW s \in Readers, Call(s) \/ Read(s) PROVE s = t
      BY <2>t, <3>1
         DEF Call, Read, LockSnapshot, CopyField, UnlockSnapshot, LoadIdx,
             CopyHead, CopyTail, LockMiners, UnlockMiners, Goto, TypeOK
    <3>2. ~(NewBlock \/ Reorg \/ Fetch \/ Refresh)
      BY DEF NewBlock, Reorg, Fetch, FetchFails, FetchMalformed, FetchBlock,
             Refresh, CompareHeight, LockBlock, UniqueBlock, WriteField,
             WriteHead, WriteTail, Publish, UnlockBlock, readerVars
    <3> QED
      BY <3>1, <3>2, FieldsAre
         DEF Next, Call, Read, LockSnapshot, CopyField, LoadIdx, CopyHead,
             CopyTail, LockMiners, UnlockMiners
  <2>3. got'[t] = BlockOf(adopted)
    BY <2>t, <2>2, SnapshotIsBlock DEF UnlockSnapshot, BoundInv, TypeOK
  <2>4. got'[t].height_ = Height[adopted]
    BY <2>t, <2>3, BlockOfType
  <2> QED BY <2>1, <2>4 DEF BoundInv, InfoBound, NoHigher
<1> QED BY <1>1, BoundInvariant, PTL DEF BlockNotBehindInfo, Spec
=============================================================================
