# A verification development for the Burst pool node

The program is a front end for Burst mining pools. Miners send `submitNonce`
requests over HTTP; the node computes the deadline of each nonce (in SIMD
batches, on its own validator threads), and forwards every nonce that improves
the current round of its account to the pool that owns the account, over gRPC.
It also serves `getMiningInfo` from a cache it refreshes from a wallet.

## 1. Inventory

| component | source | state | operations | talks to |
|---|---|---|---|---|
| Startup, Listener | `Server.cpp`, `Config.hpp` | configuration, acceptor | `main`, `on_accept` | makes one Session per connection |
| Session | `Session.{hpp,cpp}` | socket, strand, request | `run`, `do_read`, `on_read`, `handle_request`, `process_submit_nonce_req`, `do_write`, `on_write`, `do_close` | RateLimiter, Wallet (calls), DeadlineRequestHandler (queue) |
| RateLimiter | `RateLimiter.hpp` | buckets per key under `_key_to_bucket_mu`, `_zero_time` of each | `aquire` | called by sessions, on any connection thread |
| Wallet | `Wallet.{hpp,cpp}` | `current_block_`, `miners_` under `new_block_mu_`; two mining-info strings and `cache_idx_`; curl buffer | constructor, `refresh_block` (every second, own thread), `get_current_block`, `get_cached_mining_info`, `get_reward_recipient`, `get_miner_round`, `cache_miners` | wallet over HTTP, MySQL |
| DeadlineRequestHandler | `DeadlineRequestHandler.{hpp,cpp}` | queue `q_`, lanes of the batch being packed, posted batches, the `MinerRound`s it updates | `enque_req`, `distribute_deadline_reqs` (own thread), `validate_deadlines`, `validate_deadline` (validator threads) | Wallet, NodeComClient, and back to Session with the answer |
| NodeComClient | `NodeComClient.hpp`, `protos/` | one stub per pool; completion queue `cq_` with its thread; the calls under way | `do_submit_nonce`, `async_complete_rpc` | gRPC servers of the pools |
| gRPC code | `nodecom.pb.*`, `nodecom.grpc.pb.*` (generated) | a message's fields | serialize, size, merge | used by NodeComClient |
| BurstMath | `burstmath.{h,c}` | none | `calculate_scoop`, `calculate_deadlines_avx2`, `_sse4` | called by validators and the wallet; calls Shabal |
| Shabal | `mshabal256_avx2.c`, `mshabal_sse4.c`, `shabal64.s` | a context of lanes: registers, buffers, pointer, block counter | init, update, close | |
| Request queue | `concurrentqueue.h` (vendored) | sub-queue per enqueuing thread, hash table of them, their list; blocks, block indices, free list | `enqueue`, `try_dequeue` | used as `q_` by sessions and the distributor |
| Example | `server.cpp` (of the HTTP library, not built) | | | Session follows its structure |

### What is hard

* Validators race for the round of an account with `try_lock`; a busy round
  is skipped.
* The lanes of a batch are reused without being cleared.
* A request carries a copy of the block it was built from through three hand-overs,
  while the block and the rounds can change under it.
* The wallet's strings are read without a lock, double buffered.
* Startup can go on with no block at all.
* The response is written asynchronously from whatever thread has the answer.
* The queue is lock-free: indices wrap, tables and block indices are replaced
  while others look into them, and memory may run out half-way.
* Calls to a pool overtake one another, fail before or after they were read,
  and are not repeated.
* Eight (or four) messages are hashed in one context, with one buffer pointer
  and one counter.

### What makes each component correct

* *DeadlineRequestHandler*: a request that found memory in the queue is answered exactly
  once, with the deadline of its own nonce and block; a pool receives strictly improving deadlines of each
  account; the round remembers the best; a miner told "success" has been
  forwarded or beaten.
* *RateLimiter*: in every window a key is granted no more than its burst and
  rate allow, and one call more, its first, which costs no token; a refusal is
  justified, a key's bucket is made once.
* *Wallet*: readers see whole blocks, never a mixture of two; a block only
  gives way to a higher one; the mining info is whole and never ahead of the
  block; the newest block is eventually served.
* *Session*: one response per connection; no two operations at once on a
  socket, which no lock protects; the response exists while it is sent; the
  session is let go afterwards.
* *NodeComClient*: the pool reads what was submitted; unless a call failed it
  can tell a miner's best deadline; calls that are over are deleted.
* *BurstMath, Shabal*: a context is what it was fed, however it was cut; each
  lane computes what the single-lane definition says of its own message.
* *Request queue*: what one thread enqueues comes out once and in order; a poll
  that is alone does not overlook an element; nobody waits for ever; no block
  has two owners and none is lost.

The places where each of these can go wrong are listed with their lines under
`hazards` in `PROJECT.json`.

## 2. Plan

The order is that of importance to a miner: first the pipeline that decides
what a nonce is worth, then the shared state it reads, then the connection,
then what the pipeline takes for granted.

| step | modules | composes | state |
|---|---|---|---|
| 1 | `DeadlineService`, `DeadlineRequestHandler` (+ `_proofs`) | `DeadlineRequestHandler` implements `DeadlineService`; wallet's block and rounds, sessions and pool as far as the pipeline touches them | done; ten theorems, the refinement included |
| 2 | `SharedMutex`, `WindowLimiter`, `RateLimiter`, `Connection_proofs` | `RateLimiter` implements `WindowLimiter` | done; four theorems, the refinement included |
| 3 | `BlockRegister`, `Wallet` (+ `_proofs`) | `Wallet` implements `BlockRegister`, uses `SharedMutex` | done; four theorems, the refinement included |
| 4 | `Session`, `Connection_proofs` | connections with the handler's queue, lanes and batches as owners | done; three theorems |
| 5 | `LinkedList`, `FreeList` (+ `_proofs`), `FifoQueue`, `ImplicitProducer` (+ `_proofs`), `ConcurrentQueue` (+ `_proofs`) | `ImplicitProducer` implements `FifoQueue`, of which `ConcurrentQueue` is made | done; eight theorems, the refinement included |
| 6 | `Shabal`, `BurstMath`, `Hashing` (+ `_proofs`) | kernels and deadlines as operators, `Hashing` drives them | done; three theorems |
| 7 | `SubmitNonceRequest`, `NodeComClient` (+ `_proofs`) | the coding of messages as operators, `NodeComClient` sends them | done; three theorems |

## 3. The modules and the code

**`DeadlineRequestHandler`.** Actions follow `process_submit_nonce_req`
(`BuildRequest`, `EnqueReq`, `RejectUnknownAccount`), the distributor's loop
(`PostBatch`, `TryDequeue`, `PollEmpty`) and, one step per access of shared
state, `validate_deadline` (`RejectOverLimit` ... `WriteOk`). `reqs`, `pending`,
`waited` are the loop's locals; `posted` is `io_service_`; `job`, `lane`, `pc`
are the validators' stacks. The lanes keep their contents over a post, as the
array does. A deadline is a constant function of nonce, height and plot
format; the division by a zero base target and the indeterminate scoop number
of a lane no request ever reached are kept, because they end the process
(`crashed`). The base target of a block is the wallet's (`wallet_base_target`, any
function of the heights into zero and not zero): `refresh_block` stores what it parsed
without a look at it. The queue is a set: between producers the queue promises no
order, and its single consumer may find any element. Its `enqueue` may fail for want
of memory; `enque_req` does not look, and the request is gone (`dropped`). `UINT64_MAX`, the lanes
and the 50 idle polls are constants.
**`DeadlineService`** is what a miner may rely on, without queue, lanes, threads
or `mu`: a request is taken with the block of that moment (`Ask`), decided at one
instant (`RejectOverLimit`, `Forward`, `Beaten`, `GiveUp`) and answered
(`Reply`), or lost for want of memory (`Lose`). It is forwarded exactly if at that instant it is for the round's block and beats
everything forwarded for its account; it may be given up without a comparison only
while another request of the account is undecided or unanswered. In the mapping a request is
`Open` wherever it waits (built, queued, in a lane below `pending`, in a batch ahead of its
validator) and `Settled` from `do_submit_nonce`, the failed comparison or the
failed `try_lock` on. A crash is a service that stops.

**`RateLimiter`** has `RateLimiter::aquire` and `Bucket::aquire` with every
access of lock, map, clock and atomic a step of its own, among them the clock
being read before `_zero_time` is. `log` has every grant, that of the first call included,
which takes no token (`Insert`). Time is counted in ticks: a token costs
`Cost` of them and a bucket holds `Burst`; the rounding of doubles is left out.
**`WindowLimiter`** is what it promises, without buckets: a call that asks at
time t is granted exactly when every window ending at t has room, the free first grant not counted.
`RateLimiter!Asked` maps a thread between its reading of the clock and its
decision to an open question of the abstract limiter.

**`Wallet`** has the refresh thread (`Fetch`, `CompareHeight`, the two locks,
one `WriteField` for each of the four assignments, the spare string in two
halves, `Publish`, `UnlockBlock`) and the four calls of other threads. Fields
and string halves hold the block they were written for, so mixtures show.
String assignment and copy run without a lock and are a data race; the two
halves are the coarsest model of it in which a copy can be torn, and say
nothing about a copy of a string that is being reallocated.
**`BlockRegister`** is what the callers rely on. **`SharedMutex`** gives
`boost::shared_mutex` as operators on its state, among them that an upgrade
waits for the shared owners without keeping new ones out.

**`Session`** has a connection's life: `Accept` (the listener, `run`,
`do_read`), `OnRead` (or `OnReadFails`, which may come with the client still there), then
`Respond` or `Enqueue` (which may find no memory in the queue: the session is given up
unanswered, `dropped`), the write that is begun by
the strand or by a validator (`DoWrite`: the first send happens at once and
may leave a rest), `SendRest`, `OnWrite`. `response` says whether the object
that was handed to `async_write` still exists. The loop back to `do_read` in
`on_write` is not there, because `do_write` always binds `close = true`. What
the distributor's array and its copies hold keeps a session alive, so they
are modelled here again, without what they compute.

**`FreeList`** is the stack of emptied blocks, every access of an atomic a step:
`add`, the push that sets the reference count before it publishes the node and
leaves a lost race to the last reference (`Unpush`), and `try_get` with its
reference taken before `next` is read. It runs apart from the sub-queues, for
which a free block is a member of a set. **`LinkedList`** says what is on a list
(`Reach`, the least set that is closed under the links), for the free list and
for the list of producers; the proof modules of both begin with the lemmas about
changes of a link.

**`ImplicitProducer`** is one sub-queue. Its thread's `enqueue` finds an index entry
(`FindEntry`), grows the index when the next one is taken (`NewBlockIndex`),
requisitions a block or winds the index back when there is none
(`RewindBlockIndexTail`); the value of a new entry is not initialised and starts as
`Garbage`, which is neither null nor a block; consumers go through the two counts
(`Look`, `CountIn`, `ReloadTail`, `Overcommit`), claim the head, look the block up
in three loads and empty it. Two accesses are one step only where the second
cannot be reached by another thread. Indices wrap at `IndexBits`. The first index is taken
as allocated: with none, every `enqueue` that needs a block fails and nothing else happens.
`BlockOffset` divides as signed numbers where the code divides by a `size_t`; the two
agree modulo the capacity, a power of two, by which the result is reduced.
**`FifoQueue`** is what it promises: the element promised to a consumer is the one
it takes away.

**`ConcurrentQueue`** puts these FIFO queues under the hash table of
`get_or_add_implicit_producer` (count, test-and-set of the resize flag,
allocation that may fail, retry) and the list of producers, and has
`try_dequeue` scan for the longest of three, try that one and then the others.
Elements of the weak-memory argument (acquire, release) are not modelled: the
interleavings are those of atomics in one order.

**`Shabal`** has the arithmetic of both kernels on registers of lanes: loads of
interleaved words, the 48 steps, the two-word counter, buffering, closing. A
word has `4 * ByteBits` bits; the unrolled lines are index formulas. The kernels
differ in lanes, in the offset of the digest and in what a null chunk means
(`Aliased`). `shabal` is the hash of one message in another form, as two linear
recurrences, and stands for the assembly. **`BurstMath`** has the plot of a nonce
generated backwards, the mirrored scoop of PoC2 and the division. **`Hashing`**
drives them: one context fed in chunks, or one batch.

**`SubmitNonceRequest`** writes and reads the messages byte by byte: zeroes are
left out, unknown fields skipped, the size computed by its own function.
**`NodeComClient`** starts a call per improvement of a round; the network delivers,
answers or fails each call by itself, and the completion thread deletes it.

Where two modules meet, one promises what the other assumes:
`DeadlineRequestHandler` takes the queue as a set of which any element may be next
(`ConcurrentQueue` checks that polls find what is there), a deadline as a
function of the request (`BurstMath`), and the pool as a log of forwards
(`NodeComClient`); `ConcurrentQueue` takes a sub-queue as a FIFO that fails only
when empty or contended (`ImplicitProducer`).

## 4. Runs

| run | what it shows |
|---|---|
| `batching` | three requests, two validators, two lanes and a chain that starts without a block and crosses the PoC2 height: no request is lost or answered twice, each is answered; a deadline is the request's own unless the batch could span the PoC2 height; only live requests of a zero base target (no block, or given so by the wallet) divide by zero |
| `contention` | three requests of one account: strictly improving forwards, a round that records the best, "success" only for what is covered or met a busy round; refinement of `DeadlineService` |
| `rate_limit` | window bound (plus the free first grant), one bucket per key, refinement of `WindowLimiter`; `aquire` returns |
| `wallet` | refinement of `BlockRegister`; tearing only when lapped; a block never behind the mining info seen |
| `wallet_live` | the refresh thread catches up, and calls return |
| `sessions` | at most one response; lanes counted as new hold a session; a validator has the socket to itself; each request is responded to and its session let go, unless the queue dropped it |
| `response_lifetime` | a violation: see below |
| `free_list` | no block has two owners, none is lost, the list is lock-free |
| `sub_queue` | refinement of `FifoQueue`; the index finds every block whatever was replaced or rewound; failed calls do not make it grow; a dequeue fails only on an empty or contended sub-queue |
| `queue` | one sub-queue per thread, tables never full, polls that overlook nothing, `enqueue` returns, every element comes out |
| `hashing` | contexts and digests of both kernels against the one-lane hash; deadlines of whole batches against the definition of a deadline |
| `submissions` | the pool reads what was sent; it can tell the best deadline; finished calls are deleted |

Two of these properties state limits of the code rather than guarantees, so
that a change of the code shows: the service of `ImplementsDeadlineService` only ever has the
round it started with (`cache_miners` is called from the constructor only, so after the
first block change nothing is forwarded; `OnlyStartupRoundForwarded`, proved, says just
that), and `OnlyZeroBaseTargetsKill` (a node that starts without a
reachable wallet serves block 0, whose base target is the divisor zero, and `refresh_block`
stores a base target of zero like any other: such a request does end the process, a stale lane or
another request does not). Others exempt the hazard they are about, and bound it:
`SuccessIsCovered` the requests whose `try_lock` failed, and the service likewise (`GiveUp`);
`AnswerIsOwnDeadline` the chains in which a batch can span the PoC2 height;
`NothingLostOrDuplicated`, `EveryRequestAnswered` and `RequestEndsSession` the requests the queue
had no memory for; `RequestEndsSession` also the sessions that stale lanes of the
distributor's array keep; `CatchesUp` and `CallsReturn` assume `LookupsPause` (section 6).
`BlockIndexSound`, `ExclusiveOwner`, `NewLanesHoldSessions`, `OneProducerPerThread` and `TornOnlyIfLapped` hold
the type invariant of their module as a first conjunct.

### Disagreements found

`response_lifetime`: `Session::do_write` passes `async_write` a reference to a
local variable of its caller. If the first send does not take all of it, the
rest is read from an object that no longer exists. The comment in
`server.cpp:74-76`, from which `Session` was made, states the requirement, and
the member that met it, `res_`, is never set.

Without a run: `mshabal256.h:97-106` allows null chunks, as the four-lane kernel
does, but `mshabal256` copies from every chunk without looking. No caller
passes one, and `Hashing` gives null chunks to the four-lane kernel only.

## 5. Bounds

* Core: `MaxHeight` 2 or 3: the distinctions are startup block or later, and before
  or after the PoC2 height. Two lanes give short, full and stale-lane batches;
  two validators and three requests give a race with a third waiting.
  In `batching` the wallet gives block 1 the base target zero (so that blocks 2 and 3
  may still share a batch), in `contention` no block;
  each height is adopted at most once, so one number per height is enough.
  `MAX_WAITED` 0 or 1 instead of 50 only shortens the wait. Deadlines up to 5
  give ties, improvements, the limit and the sentinel `UINT64_MAX`.
* `MaxClock` 3 with `Cost` 1, `Burst` 2: the bucket fills, empties, refills and is
  capped, and holds two tokens at once, so who loses the exchange may still be granted; windows
  hold up to three paid grants and the free one. No token is ever there in part; the
  proofs have any `Cost` and `Burst`, and no bound but `MaxClock` itself, which is any number.
* Blocks of heights 1, 2, 2 and at most one reorganization: starting from no
  block two adoptions follow each other, which is what it takes to lap a
  reader, and a branch of equal height is seen. `wallet` has no faults (they do
  not touch what readers see), `wallet_live` has one fault and one branch.
* Two connections fill a batch of two lanes, or make two short ones of which
  the second has a stale lane. Safety is proved for any number.
* `free_list`: three blocks, two takers and one giver are what an ABA change
  needs (a node popped, another popped, the first pushed again). Safety is proved
  for any number.
* `sub_queue`: `IndexBits` 3 and 9 elements let every index wrap; an initial index
  of 2 grows to 4 with three blocks in use, and an emptied block is used again.
  `NobodyLags` bounds a consumer to half the range of an index, 2^63 elements.
  With one consumer safety is proved for any sizes and widths, under the same bound.
* `queue`: an initial table of 2 for two threads whose hashes collide is
  replaced twice. Every allocation may fail. One of the consumers polls once,
  so that contention ends, as it does in the node, which has one consumer. The
  invariants are proved for any threads, hashes, consumers and initial size.
* `hashing`: 8-bit words, counters of 1 bit (which carry and wrap within a
  message), two lanes, 8 scoops, chunk lengths on both sides of the block of 16
  words, two chunks; a batch holds two miners' requests and one that is nobody's.
* `submissions`: numbers of one, two and three varint bytes and zero, three calls.
* Deadlock is checked where the system cannot stop; where `CHECK_DEADLOCK FALSE` is
  said it may: the core after a crash, the queues when the bounded calls are
  made and nobody has to poll, `NodeComClient` when all calls are over.
  `Session` has a `Terminated` step for that.

## 6. Fairness

* Core: the session that built a request, the distributor's loop and each
  validator thread keep running (threads without priorities, no blocking
  inside). Nothing is assumed of the chain or of arrivals.
* `RateLimiter`: weak fairness of each thread inside `aquire`; strong fairness of
  `Lock` (the mutex wakes its waiters at each release) and `Cas` (a weak
  exchange does not fail for ever).
* `Wallet`: weak fairness of the refresh thread and of calls under way, strong
  fairness of whoever waits for the mutex. The transfer is assumed to end,
  although no timeout is set on it. `LookupsPause`, that the shared lock is free
  again and again, is an assumption on the load and not on the scheduler:
  `unlock_upgrade_and_lock` does not keep new lookups out, and without the
  assumption both properties fail.
* `Session`: weak fairness of strands, reactor, distributor and validators. A
  client that stays takes what is sent; no client has to come or to speak. A read from
  one that left fails at some time; other errors need not happen.
* `FreeList`: weak fairness of each thread inside a call; nobody has to call. Under
  it some call returns, and not each: the loops are lock-free, not wait-free.
* `ConcurrentQueue`: threads inside `enqueue` run, consumers poll for ever (the
  distributor's loop does).
* `NodeComClient`: the completion thread runs; nothing is assumed of network or pool.

## 7. Proofs

*`DeadlineRequestHandler_proofs`*, from `ConstantsAssumption`,
`WalletAssumption` and `DeadlineAssumption`, for any numbers of requests, accounts, validators and lanes.
`TypeOK` is not inductive alone: that a validator works on a real request needs
`LiveLanes` (what lies below `pending` in the array, a posted batch or a job is a
request, and no batch is posted empty) and `RoundFound`. `TypeInv` joins them.
`RoundInv` adds `MutexOwned` (who is between `try_lock` and `unlock` owns the
round's `mu`), what the owner knows on the way (`Beats`: the deadline it goes to
submit beats the round; `JustForwarded`: between submit and store it is the
best forwarded; `UpToDate`: for every other round the stored deadline is the
best) and `RoundsKeepHeight`. From these follow `StrictlyImproves`,
`RoundRecordsBest` and `OnlyStartupRoundForwarded`. `CoverInv` goes on from there to
`SuccessIsCovered`: who holds a round's `mu` is known (`OwnerInRound`), a validator
that leaves a round leaves it covering its request unless the request is in
`contended` (`DoneIsCovered`), and what was forwarded stays forwarded. With one validator
nobody else owns a `mu` when it tries, so `contended` stays empty
(`OneValidatorNeverSkips`).

The second half of the module follows a request from the session to
its answer. `AllLive` says of a set of requests that it contains every live one
(built, queued, or in a lane below `pending`); a step keeps it unless it builds a request
outside the set (`LiveStep`). With the set of requests whose block lies between the
first and the current one this gives `OwnInv`, hence `AnswerIsOwnDeadline`: when no
plot format can change between those two, lane 0 selects the right one for every lane.
`KillInv` is about the stale lanes, which divide too: a lane with a zero base target
is live, or behind one that was live in a batch posted earlier
(`StaleZeroPosted`, `ZeroLiveFirst`), so the first batch to divide by zero has a
live cause; and a live request has its base target from the wallet, for the height it has
(`BuiltOnly`). `PlaceInv` names the one place a request is in (`OnlyAt`, by kind and
indices) where `NothingLostOrDuplicated` counts a set; each step moves it
(`SessionStepPlace` to `AnswerPlace`), and `PlaceCounted` turns it into the count. One
of the places is `dropped`, where a request goes for which `enqueue` finds no memory.

The last part joins both halves: the node implements `DeadlineService`. Every
hand-over is a stutter (`EnqReqStays` to `StartBatchStays`: the set of waiting requests does not
change), except that a request dropped by `enqueue` is the service's `Lose`. A validator that decides takes exactly its own request from the open ones, because
`PlaceInv` leaves no other with its id (`NotElsewhere`, `DecideOpen`). That its
comparison with the stored deadline is one with everything forwarded is `RoundDecides`,
from `UpToDate` and `MutexOwned`; that a failed `try_lock` means another request of the
account is in progress is `OwnerInRound`; that the deadline it is decided with is its own, in
the plot format of a block the node has seen, is `OwnDeadline`, from `AllLive`.

*`Connection_proofs`* has what a connection goes through, the rate limiter (whose
`LimiterInit`, `LimiterNext` and so on stand beside `Init` and `Next` of `Session`) and
the session. *The rate limiter*, from `LimiterAssumption` and `NobodyAssumption`, for any
threads, keys, burst and cost. The window bound is not inductive either: the
strengthening is `ZeroTimeExact`, that a bucket's `_zero_time` is exactly the least
value that explains the grants so far. `ExactAppend` shows that a grant keeps it
so, `ExactRoom` that the token test with it decides precisely whether the next
grant fits. The grants it explains are those paid for with a token (`Paid`: all but a
key's first, which is free); a window that begins at the free one is bounded because that
grant is the earliest of its key (`FirstIsEarliest`), and has one more, which is what
`WindowBound` says. `LockHeld` and `LocalsCurrent` add that the holder's copies are current,
so the exchange cannot succeed on a stale value. This gives the bound, the
single bucket and, step by step, the refinement of `WindowLimiter`.

*The session*, from the assumptions of `Session`, for any connections, lanes and
validators. `LanesHoldSessions` is that every lane below `pending`, in the distributor's
array, in a posted batch or with a validator, holds a session. That a session is answered once is a statement about places:
`OnePlace` says that a request that was handed over is in at most one of the
queue, the lanes up to `pending`, a posted batch or the part of a job still to be
done (stale lanes above `pending` do not count), and `QuietSocket` that a session
that waits in one of them has been written to by nobody and has no operation
under way. `PlaceInv` joins them; from it follow `AtMostOneResponse` and `ValidatorHasSocket`.

*`Wallet_proofs`*, from `WalletAssumption` and `NobodyAssumption`, for any blocks,
heights, readers, faults and reorganisations. `LockInv` adds to `TypeOK` who owns
the mutex at which place (`Owners`), so a copy excludes a replacement
(`CopyExcludesWrite`). `BlockInv` says field by field how far the refresh thread has
overwritten the block and a reader has copied it (`Overwritten`, `Copied`, by the
fields `Behind` a place), and that a block being adopted is higher: the refinement
of `BlockRegister` follows step by step. `InfoInv` says the same of the two strings:
the one in use is whole, and who was not lapped copies that one. `BoundInv` bounds
every string and every copy by the newest block written, which is the adopted one
whenever a reader holds the lock: `BlockNotBehindInfo`.

*`FreeList_proofs`*, from `RefsAssumption` (fewer threads than the mark
`SHOULD_BE_ON_FREELIST`, 2^31 in the code), for any blocks and threads. In
`FreeListInv`, `LocalsInv` says that who holds a reference to a head knows its link,
`OwnerInv` that a block is in use, on the list or in the hands of one thread, and
`RefsInv` what the count of each block is: that of its holders, and one more for the
list. The mark is set exactly when nobody has the block, and then
somebody still holds a reference (or is about to add it), so it comes back. A link
is only set when there is no reference, which is what makes the exchange of the
head safe although heads come back: `ExclusiveOwner` and `NoBlockLost`.

*`ConcurrentQueue_proofs`*, from `QueueAssumption`, for any threads, hashes and
consumers. `QueueInv` joins `TablesInv` (a key in a table is found by its probes, whatever was
inserted before and after, and its value is the thread's sub-queue), `ListInv`
(reached are the producers that are not still to be linked), `ThreadsInv` (what a thread
knows at each place; who is known to no table has no sub-queue) and `CountInv`. The
last is about room: `implicitProducerHashCount` only counts the threads, and
they read it at different times, so the counted threads are put in an order (`RankOK`) in
which each is within the count it read and below the limit of every table that
knows it. Whoever counts itself is the last; when an allocation fails those behind move up
(`CountDown`). A full table would need more ranks than there are below its limit (`Room`).
`PollInv` follows a consumer that is alone: what it ought to find is in the
sub-queues before it, which no new or relinked producer changes (`ThreadKeepsLists`), or
it has found one that is not empty. From it follows `PollFindsWaiting`.

*`ImplicitProducer_proofs`*, from `SizesAssumption` (blocks and the range of the
indices are powers of two, and a block is less than half the range),
`GarbageAssumption` (what fresh memory holds is no block) and `OneConsumer`, for any blocks, sizes, widths of the indices and numbers of elements. The node has one
consumer, the distributor's thread in `DeadlineRequestHandler`, so every sub-queue
has one. The bound `NobodyLags` (section 5) is part of the model and so of the
theorems; `MaxElements` is any number. The indices wrap, and everything in the proof rests on
`SpanInv`: what is in the queue, with the rest of the block being filled, spans less than half
the range, which is what `circular_less_than` guards in `enqueue`; so a comparison
of wrapped indices is right, and so is the signed distance of an element's block from the
tail of the index (`CountInv` gives each counter as a function of `sent` and `claimed`, modulo the range).
`IndexInv` says of every block from the oldest (`First`) to the last one stored that its
entry has its key, that no two blocks share an entry, what is left in its slots and how many of
them are done (`BlockOK`); `ProducerInv` where the tail is ahead of that, while the
producer requisitions a block or winds back. `LookInv` is about
what the consumer read and the producer has since changed: a header that was replaced
still leads to all the blocks it led to (`Fits`), and a position loaded from it is still that of its
entry and reaches the oldest block (`Leads`), because that block stays in use as long as
its last element is not moved out. `BlocksInv` gives each block one place: free, in the index, or
in the hands of the producer or the consumer. `UnsetInv` is about the entries of the index,
which the code leaves uninitialised: only one that was never used, or the one the producer
is at, may still hold garbage. An entry that is vacated or wound back to keeps no
garbage, so that the index grows only past entries with a block
(`GrowsOnlyPastBlocks`). `IPInv` joins the others; from it follow
`BlockIndexSound`, `FailsOnlyIfEmptyOrContended` and, step by step, the
refinement of `FifoQueue`. With several consumers the invariant is another one:
`dequeueOvercommit` is not zero, and a consumer may hold a value of it while the others go
around the range of the indices, so what it concludes depends on how long it may be
delayed. That case is model-checked only, on the bounds of `sub_queue`, which has
two consumers.

*`NodeComClient_proofs`*, from `AccountsAssumption` and `NumbersAssumption`, for any
accounts, numbers and bound on the calls. `RequestRoundTrip` says of every message,
not only of those the node sends, that the pool reads it as it was written and that
`ByteSizeLong` is its length. The coding is made of recursive functions (`Varint`,
`VarintSize`, `ReadVarint`, and the loop of `MergePartialFromCodedStream`), whose
definitions mean nothing to the prover until such functions exist. `RecursiveFunction`
shows that they do when the argument of each call has a smaller rank (the number, or the bytes
left), and what they compute follows by a least counterexample (`NatLeast`): a number that were
the smallest to be read wrongly would be 128 or more, and its upper bits a
smaller one. `NumberRead` and `SecretRead` then peel the fields off one by one. The
invariant of the calls, `Inv`, has the bytes of each call as those of its request and, in
`BestInv`, one call per account that carries the round's deadline while the others of
the account carry larger ones; the two theorems about the pools follow. A pool
that has not read a call, because it failed or is under way, is promised nothing.

*`Hashing_proofs`*, from the assumptions of `Shabal`, `BurstMath` and `Hashing`, for any
number of lanes in either kernel, any width of a byte, counters no wider than a word,
and chunks of any lengths and any number. (`PowersAssumption` is arithmetic: the
provers know no exponents, so the few facts about powers of two that the
widths need are stated, and TLC evaluates them.) A lane is followed along the words
it is fed, the prefix of 256 and on included. `LaneStep` and `LaneRunSteps` show that a step of
`PP`, rotations of register indices and all, is in each lane a step of the
recurrence that stands for the one-lane hash; here `XorAssociates` is needed,
because `PP` gathers its operands in another order. `IndexOf`,
`LoadVectorsIs` and `InterleavedIs` show that memory, where the words of the lanes
alternate, gives each lane its own. `Absorbed` is the
invariant of a context: after q blocks of a lane's words its registers are those of the
one-lane hash after the same blocks, the counter is q - 1 with its carry
(`CarryUp`, `CarryDown`), and the buffer holds the p words that follow.
`FeedAbsorbed` shows that head, whole blocks and tail of a chunk keep it,
`CloseIs` that padding and the closing permutations with the counter held
give `shabal` (`ShabalIs`). `HInv` says it of the context of a run, with the idle lanes
of the four-lane kernel fed another lane's words, and of the digests;
`ContextAlwaysMessage` and `DigestAlwaysLaneHash` follow. The recursive functions are handled by runs, as in
`NodeComClient_proofs` (`RunExists`, `LaneRunSteps`, `ShabalUnfold`).

`DeadlineAlwaysOwn` goes on from there to the deadline a miner is told, for any number
of scoops that takes more bits than a byte has and no more than two
(`ScoopAssumption`: 12 of 16 in the code) and any `HashCap`. `HashIs` and `Hash2Is`
are the digests of whole calls, one chunk or two. `Grown` is a lane's words after
each hash, as the definition of a plot has them, longest last; `Partial` is the same as the
program keeps it, at the end of a block of memory whose start is not written yet.
`LaneGrows` shows that a round of the loop takes one to the next (the
place it writes at, the span it reads, the cap), `GenStepIs` that it does so in every lane
at once, and `GeneratedIs`, by induction on the rounds, that the words left are the plot's.
`ScoopIs` is the arithmetic of the scoop's number (the last two bytes of a digest,
masked, against the remainder of the whole word byte-reversed), `ScoopReads` that the two
memory copies read the half-scoops the definition reads, mirrored under PoC2 or
not. `DeadlinesAre` puts them together for one lane of a batch, whatever the other
lanes hold.

Only model-checked: the sub-queue with several consumers; and every liveness property,
which is outside what the prover does, as is `ENABLED`.

## 8. Not modelled

* `Config`, `main` and the acceptor's set-up: one straight line before any
  concurrency; the values are constants. What values the program cannot work
  with (no validator threads, no connection threads) is excluded.
* `cache_miners`: runs once, before the threads; the rounds it leaves are the
  core's initial state.
* `concurrentqueue.h`: explicit producers and producer tokens, bulk operations,
  recycling of producers, moving and swapping queues, which nothing in the
  node uses; block allocation beyond success and failure; memory orders weaker
  than sequential consistency.
* Generated gRPC code other than the coding of the two messages (reflection,
  arenas, copies, service stubs); the gRPC library; the example `server.cpp`,
  which is not built.
* `shabal64.s`, hand-written assembly, which is the definition the kernels are
  compared with.
* Response texts, status codes, logging, the parsing of URLs and JSON beyond
  its outcomes.
* Exceptions out of handlers (for example of `local_endpoint`), and failures to
  allocate outside the queue.
