------------------------------- MODULE Wallet -------------------------------
(***************************************************************************)
(* Wallet.{hpp,cpp}: the refresh thread polls the wallet's getMiningInfo   *)
(* and replaces current_block_ under the exclusive form of new_block_mu_,  *)
(* then publishes the mining info in the spare one of two strings;         *)
(* sessions copy the block under the upgrade lock, look accounts up under  *)
(* the shared lock, and copy the mining info under no lock at all.         *)
(*                                                                         *)
(* A Block's fields and a string's two halves hold the block they were     *)
(* written for, so a mixture of two blocks shows.                          *)
(***************************************************************************)
EXTENDS Integers, Sequences, SharedMutex

CONSTANTS
    Readers,      \* session and validator threads calling Wallet
    Validators,   \* those that only call get_miner_round
    Refresher,    \* refresh_blocks_thread_
    Blocks,       \* blocks the wallet may report
    NoBlock,      \* of the default Block, and of an empty string
    Height,       \* [Blocks \cup {NoBlock} -> Nat]
    MaxFaults,    \* bound: failed or malformed replies
    MaxReorgs     \* bound: times the wallet's chain is replaced

ASSUME WalletAssumption ==
    /\ Threads = Readers \cup {Refresher}
    /\ Refresher \notin Readers
    /\ Validators \subseteq Readers
    /\ NoBlock \notin Blocks
    /\ Height \in [Blocks \cup {NoBlock} -> Nat]
    /\ Height[NoBlock] = 0
    /\ \A b \in Blocks : Height[b] > 0
    /\ MaxFaults \in Nat
    /\ MaxReorgs \in Nat

VARIABLES
    chain,            \* external: the wallet's newest block
    faults, reorgs,   \* bounded counters of the environment
    leftover,         \* mining_info_res_ holds bytes of a failed transfer
    current_block_,
    cache_idx_,
    mining_info_,     \* mining_info_0_ and mining_info_1_
    new_block_mu_,
    wpc, fetched,     \* refresh thread: place, and the block it parsed
    pc, snap,         \* readers: place, and the Block being copied
    idx, copy,        \* readers: index loaded, mining info copied
    adopted,          \* history: block of the last completed refresh
    got,              \* history: result of each reader's last block copy
    lapped            \* history: publications since each reader's index load

envVars     == <<chain, faults, reorgs>>
blockVars   == <<current_block_, adopted>>
cacheVars   == <<cache_idx_, mining_info_>>
writerVars  == <<leftover, wpc, fetched>>
readerVars  == <<pc, snap, idx, copy, got, lapped>>
vars == <<envVars, blockVars, cacheVars, new_block_mu_, writerVars, readerVars>>

AnyBlock == Blocks \cup {NoBlock}

\* The fields of a Block, in the order refresh_block assigns and
\* get_current_block copies them.
Fields == <<"height_", "base_target_", "gensig_", "scoop_">>

BlockOf(b) == [height_ |-> Height[b], base_target_ |-> b,
               gensig_ |-> b, scoop_ |-> b]

ValueFor(b, field) == IF field = "height_" THEN Height[b] ELSE b

StringOf(b) == [head |-> b, tail |-> b]

\* After the last field of a copy comes next, after another one its successor.
AfterField(f, next) == IF f < Len(Fields) THEN Fields[f + 1] ELSE next

\* The constructor's refresh_block either adopted the wallet's block or left
\* the defaults; wallet is a global, so what no constructor sets is zero, and
\* the first string published is mining_info_1_.
Init ==
    /\ chain \in Blocks
    /\ adopted \in {chain, NoBlock}
    /\ current_block_ = BlockOf(adopted)
    /\ cache_idx_ = IF adopted = NoBlock THEN 0 ELSE 1
    /\ mining_info_ = [i \in 0 .. 1 |->
                         StringOf(IF i = 1 THEN adopted ELSE NoBlock)]
    /\ faults = 0
    /\ reorgs = 0
    /\ leftover \in (IF adopted = NoBlock THEN BOOLEAN ELSE {FALSE})
    /\ new_block_mu_ = Unlocked
    /\ wpc = "fetch"
    /\ fetched = NoBlock
    /\ pc = [t \in Readers |-> "idle"]
    /\ snap = [t \in Readers |-> BlockOf(NoBlock)]
    /\ idx = [t \in Readers |-> 0]
    /\ copy = [t \in Readers |-> StringOf(NoBlock)]
    /\ got = [t \in Readers |-> BlockOf(adopted)]
    /\ lapped = [t \in Readers |-> 0]

-----------------------------------------------------------------------------
(* The wallet behind mining_info_uri_                                      *)

NewBlock ==
    /\ \E b \in Blocks : Height[chain] < Height[b] /\ chain' = b
    /\ UNCHANGED <<faults, reorgs, blockVars, cacheVars, new_block_mu_,
                   writerVars, readerVars>>

\* Another branch wins; its last block need not be higher.
Reorg ==
    /\ reorgs < MaxReorgs
    /\ reorgs' = reorgs + 1
    /\ \E b \in Blocks \ {chain} : chain' = b
    /\ UNCHANGED <<faults, blockVars, cacheVars, new_block_mu_, writerVars,
                   readerVars>>

-----------------------------------------------------------------------------
(* refresh_blocks: get_mining_info                                         *)

\* curl_easy_perform fails; what it had received stays in mining_info_res_.
FetchFails ==
    /\ wpc = "fetch"
    /\ faults < MaxFaults
    /\ faults' = faults + 1
    /\ leftover' \in {leftover, TRUE}
    /\ UNCHANGED <<chain, reorgs, blockVars, cacheVars, new_block_mu_, wpc,
                   fetched, readerVars>>

\* A reply that is no object, lacks a member, or has one that does not parse.
FetchMalformed ==
    /\ wpc = "fetch"
    /\ faults < MaxFaults
    /\ faults' = faults + 1
    /\ leftover' = FALSE
    /\ UNCHANGED <<chain, reorgs, blockVars, cacheVars, new_block_mu_, wpc,
                   fetched, readerVars>>

\* Mutant: the buffer is cleared only after a reply that parsed.
FetchBlock_KeepsLeftover ==
    /\ wpc = "fetch"
    /\ IF leftover
       THEN UNCHANGED <<wpc, fetched>>
       ELSE wpc' = "compare" /\ fetched' = chain
    /\ UNCHANGED <<envVars, leftover, blockVars, cacheVars, new_block_mu_,
                   readerVars>>

\* A good reply, appended to the leftover of a failed transfer if there is
\* one: then the whole does not parse, but the buffer is clean again.
FetchBlock ==
    /\ wpc = "fetch"
    /\ leftover' = FALSE
    /\ IF leftover
       THEN UNCHANGED <<wpc, fetched>>
       ELSE wpc' = "compare" /\ fetched' = chain
    /\ UNCHANGED <<envVars, blockVars, cacheVars, new_block_mu_, readerVars>>

-----------------------------------------------------------------------------
(* refresh_block, from the parsed block on                                 *)

\* Mutant: any other block is adopted, not only a higher one.
CompareHeight_AdoptsOther ==
    /\ wpc = "compare"
    /\ CanLockUpgrade(new_block_mu_)
    /\ wpc' = IF current_block_ # BlockOf(fetched) THEN "lock" ELSE "fetch"
    /\ UNCHANGED <<envVars, blockVars, cacheVars, new_block_mu_, leftover,
                   fetched, readerVars>>

\* get_current_block, then the test; this thread is the only writer, so the
\* lock only matters for the waiting.
CompareHeight ==
    /\ wpc = "compare"
    /\ CanLockUpgrade(new_block_mu_)
    /\ wpc' = IF current_block_.height_ < Height[fetched] THEN "lock" ELSE "fetch"
    /\ UNCHANGED <<envVars, blockVars, cacheVars, new_block_mu_, leftover,
                   fetched, readerVars>>

\* Mutant: the fields are left as they are and only the mining info is made.
LockBlock_InfoOnly ==
    /\ wpc = "lock"
    /\ CanLockUpgrade(new_block_mu_)
    /\ new_block_mu_' = LockUpgrade(new_block_mu_, Refresher)
    /\ wpc' = "head"
    /\ UNCHANGED <<envVars, blockVars, cacheVars, leftover, fetched, readerVars>>

LockBlock ==
    /\ wpc = "lock"
    /\ CanLockUpgrade(new_block_mu_)
    /\ new_block_mu_' = LockUpgrade(new_block_mu_, Refresher)
    /\ wpc' = "unique"
    /\ UNCHANGED <<envVars, blockVars, cacheVars, leftover, fetched, readerVars>>

UniqueBlock ==
    /\ wpc = "unique"
    /\ CanUpgradeToUnique(new_block_mu_)
    /\ new_block_mu_' = UpgradeToUnique(new_block_mu_, Refresher)
    /\ wpc' = Fields[1]
    /\ UNCHANGED <<envVars, blockVars, cacheVars, leftover, fetched, readerVars>>

WriteField(f) ==
    /\ wpc = Fields[f]
    /\ current_block_' = [current_block_ EXCEPT
                            ![Fields[f]] = ValueFor(fetched, Fields[f])]
    /\ wpc' = AfterField(f, "head")
    /\ UNCHANGED <<envVars, adopted, cacheVars, new_block_mu_, leftover,
                   fetched, readerVars>>

\* Mutant: the string that is in use is the one overwritten.
Spare_InUse == cache_idx_

Spare == 1 - cache_idx_

\* The assignment of the string is not atomic.
WriteHead ==
    /\ wpc = "head"
    /\ mining_info_' = [mining_info_ EXCEPT ![Spare].head = fetched]
    /\ wpc' = "tail"
    /\ UNCHANGED <<envVars, blockVars, cache_idx_, new_block_mu_, leftover,
                   fetched, readerVars>>

WriteTail ==
    /\ wpc = "tail"
    /\ mining_info_' = [mining_info_ EXCEPT ![Spare].tail = fetched]
    /\ wpc' = "publish"
    /\ UNCHANGED <<envVars, blockVars, cache_idx_, new_block_mu_, leftover,
                   fetched, readerVars>>

\* lapped is only compared with one, so it stops there.
Publish ==
    /\ wpc = "publish"
    /\ cache_idx_' = Spare
    /\ lapped' = [t \in Readers |->
                    IF pc[t] \in {"info_head", "info_tail"} THEN 1 ELSE lapped[t]]
    /\ wpc' = "unlock"
    /\ UNCHANGED <<envVars, blockVars, mining_info_, new_block_mu_, leftover,
                   fetched, pc, snap, idx, copy, got>>

\* Mutant: the upgrade lock under the exclusive one is never given back.
UnlockBlock_KeepsUpgrade ==
    /\ wpc = "unlock"
    /\ new_block_mu_' = UniqueToUpgrade(new_block_mu_, Refresher)
    /\ adopted' = fetched
    /\ fetched' = NoBlock
    /\ wpc' = "fetch"
    /\ UNCHANGED <<envVars, current_block_, cacheVars, leftover, readerVars>>

\* Both lock objects go out of scope.
UnlockBlock ==
    /\ wpc = "unlock"
    /\ new_block_mu_' = UnlockUpgrade(UniqueToUpgrade(new_block_mu_, Refresher))
    /\ adopted' = fetched
    /\ fetched' = NoBlock
    /\ wpc' = "fetch"
    /\ UNCHANGED <<envVars, current_block_, cacheVars, leftover, readerVars>>

Fetch == FetchFails \/ FetchMalformed \/ FetchBlock

Refresh ==
    \/ CompareHeight \/ LockBlock \/ UniqueBlock
    \/ \E f \in DOMAIN Fields : WriteField(f)
    \/ WriteHead \/ WriteTail \/ Publish \/ UnlockBlock

-----------------------------------------------------------------------------
(* Calls of sessions and validators                                        *)

Goto(t, label) == pc' = [pc EXCEPT ![t] = label]

Call(t) ==
    /\ pc[t] = "idle"
    /\ \E label \in {"lock_block", "load_idx", "lock_miners"} :
         /\ t \in Validators => label = "lock_miners"
         /\ Goto(t, label)
    /\ UNCHANGED <<envVars, blockVars, cacheVars, new_block_mu_, writerVars,
                   snap, idx, copy, got, lapped>>

\* Mutant: the block is copied without the lock.
LockSnapshot_NotTaken(t) ==
    /\ pc[t] = "lock_block"
    /\ Goto(t, Fields[1])
    /\ UNCHANGED <<envVars, blockVars, cacheVars, new_block_mu_, writerVars,
                   snap, idx, copy, got, lapped>>

\* get_current_block
LockSnapshot(t) ==
    /\ pc[t] = "lock_block"
    /\ CanLockUpgrade(new_block_mu_)
    /\ new_block_mu_' = LockUpgrade(new_block_mu_, t)
    /\ Goto(t, Fields[1])
    /\ UNCHANGED <<envVars, blockVars, cacheVars, writerVars, snap, idx, copy,
                   got, lapped>>

CopyField(t, f) ==
    /\ pc[t] = Fields[f]
    /\ snap' = [snap EXCEPT ![t][Fields[f]] = current_block_[Fields[f]]]
    /\ Goto(t, AfterField(f, "unlock_block"))
    /\ UNCHANGED <<envVars, blockVars, cacheVars, new_block_mu_, writerVars,
                   idx, copy, got, lapped>>

UnlockSnapshot(t) ==
    /\ pc[t] = "unlock_block"
    /\ new_block_mu_' = UnlockUpgrade(new_block_mu_)
    /\ got' = [got EXCEPT ![t] = snap[t]]
    /\ snap' = [snap EXCEPT ![t] = BlockOf(NoBlock)]
    /\ Goto(t, "idle")
    /\ UNCHANGED <<envVars, blockVars, cacheVars, writerVars, idx, copy, lapped>>

\* get_cached_mining_info
LoadIdx(t) ==
    /\ pc[t] = "load_idx"
    /\ idx' = [idx EXCEPT ![t] = cache_idx_]
    /\ lapped' = [lapped EXCEPT ![t] = 0]
    /\ Goto(t, "info_head")
    /\ UNCHANGED <<envVars, blockVars, cacheVars, new_block_mu_, writerVars,
                   snap, copy, got>>

CopyHead(t) ==
    /\ pc[t] = "info_head"
    /\ copy' = [copy EXCEPT ![t].head = mining_info_[idx[t]].head]
    /\ Goto(t, "info_tail")
    /\ UNCHANGED <<envVars, blockVars, cacheVars, new_block_mu_, writerVars,
                   snap, idx, got, lapped>>

CopyTail(t) ==
    /\ pc[t] = "info_tail"
    /\ copy' = [copy EXCEPT ![t].tail = mining_info_[idx[t]].tail]
    /\ idx' = [idx EXCEPT ![t] = 0]
    /\ Goto(t, "idle")
    /\ UNCHANGED <<envVars, blockVars, cacheVars, new_block_mu_, writerVars,
                   snap, got, lapped>>

\* get_reward_recipient and get_miner_round: miners_ never changes after the
\* constructor, but the lookup keeps the refresh thread waiting.
LockMiners(t) ==
    /\ pc[t] = "lock_miners"
    /\ CanLockShared(new_block_mu_)
    /\ new_block_mu_' = LockShared(new_block_mu_, t)
    /\ Goto(t, "unlock_miners")
    /\ UNCHANGED <<envVars, blockVars, cacheVars, writerVars, snap, idx, copy,
                   got, lapped>>

UnlockMiners(t) ==
    /\ pc[t] = "unlock_miners"
    /\ new_block_mu_' = UnlockShared(new_block_mu_, t)
    /\ Goto(t, "idle")
    /\ UNCHANGED <<envVars, blockVars, cacheVars, writerVars, snap, idx, copy,
                   got, lapped>>

Read(t) ==
    \/ LockSnapshot(t) \/ UnlockSnapshot(t)
    \/ \E f \in DOMAIN Fields : CopyField(t, f)
    \/ LoadIdx(t) \/ CopyHead(t) \/ CopyTail(t)
    \/ LockMiners(t) \/ UnlockMiners(t)

Next ==
    \/ NewBlock \/ Reorg
    \/ Fetch \/ Refresh
    \/ \E t \in Readers : Call(t) \/ Read(t)

Spec == Init /\ [][Next]_vars

\* The environment need do nothing, and no fault repeats for ever.  Threads
\* that are not waiting for the mutex run.  A waiting one gets it if it can
\* have it again and again: boost::shared_mutex wakes all its waiters at
\* every release, and which of them wins is up to the scheduler.  Lookups
\* that overlap without end would keep the refresh thread, and behind its
\* upgrade lock every get_current_block, waiting for ever: LookupsPause says
\* that the load leaves gaps.
LookupsPause == []<>(new_block_mu_.shared = {})

Locking(t) == LockSnapshot(t) \/ LockMiners(t)

FairSpec ==
    /\ Spec
    /\ WF_vars(FetchBlock) /\ WF_vars(Refresh)
    /\ SF_vars(CompareHeight) /\ SF_vars(LockBlock) /\ SF_vars(UniqueBlock)
    /\ \A t \in Readers : WF_vars(Read(t)) /\ SF_vars(Locking(t))
    /\ LookupsPause

-----------------------------------------------------------------------------
(* Properties                                                              *)

BlockField == [height_ : Nat, base_target_ : AnyBlock,
               gensig_ : AnyBlock, scoop_ : AnyBlock]
String == [head : AnyBlock, tail : AnyBlock]
FieldNames == {Fields[f] : f \in DOMAIN Fields}

\* Every variable has its type.
TypeOK ==
    /\ chain \in Blocks
    /\ faults \in 0 .. MaxFaults
    /\ reorgs \in 0 .. MaxReorgs
    /\ leftover \in BOOLEAN
    /\ current_block_ \in BlockField
    /\ cache_idx_ \in 0 .. 1
    /\ mining_info_ \in [0 .. 1 -> String]
    /\ new_block_mu_ \in SharedMutexState
    /\ Excludes(new_block_mu_)
    /\ wpc \in FieldNames \cup {"fetch", "compare", "lock", "unique", "head",
                              "tail", "publish", "unlock"}
    /\ fetched \in AnyBlock
    /\ pc \in [Readers -> FieldNames \cup {"idle", "lock_block", "unlock_block",
                         "load_idx", "info_head", "info_tail",
                         "lock_miners", "unlock_miners"}]
    /\ snap \in [Readers -> BlockField]
    /\ idx \in [Readers -> 0 .. 1]
    /\ copy \in [Readers -> String]
    /\ adopted \in AnyBlock
    /\ got \in [Readers -> BlockField]
    /\ lapped \in [Readers -> 0 .. 1]

\* The Block that refresh_block overwrites field by field and that
\* get_current_block copies field by field is to its callers a register that
\* is replaced whole, by a higher block.
Register == INSTANCE BlockRegister
              WITH block <- BlockOf(adopted),
                   BlockValues <- {BlockOf(b) : b \in AnyBlock}

ImplementsBlockRegister == Register!Spec

\* get_cached_mining_info copies a mixture of two mining infos only when
\* refresh_block published another string between its load of cache_idx_ and
\* the end of its copy: the double buffer covers one refresh, not two.
TornOnlyIfLapped ==
    /\ TypeOK
    /\ \A t \in Readers :
          pc[t] \notin {"info_head", "info_tail"} /\ copy[t].head # copy[t].tail
              => lapped[t] = 1

\* A caller that has seen the mining info of a height, even a torn one, never
\* gets a lower block from a later get_current_block: a deadline computed
\* from the mining info is not judged against an older block.
BlockNotBehindInfo ==
    [][\A t \in Readers :
         pc[t] = "unlock_block" /\ pc'[t] = "idle" =>
             /\ Height[copy[t].head] =< got'[t].height_
             /\ Height[copy[t].tail] =< got'[t].height_]_vars

\* Failed transfers, malformed replies and shorter branches do not stop the
\* refresh thread: once the wallet keeps to a block, current_block_ and the
\* mining info get at least as high as it.
CatchesUp ==
    \A b \in Blocks :
        <>[](chain = b) =>
            <>[](/\ Height[b] =< current_block_.height_
                 /\ Height[b] =< Height[mining_info_[cache_idx_].tail])

\* Every call into the wallet returns, whatever the refresh thread holds.
CallsReturn ==
    \A t \in Readers : pc[t] # "idle" ~> pc[t] = "idle"
=============================================================================
