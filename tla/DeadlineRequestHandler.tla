----------------------- MODULE DeadlineRequestHandler -----------------------
(***************************************************************************)
(* The submitNonce pipeline of the node: a Session builds a                *)
(* CalcDeadlineReq from the Wallet's current block and enqueues it; the    *)
(* distributor thread packs queued requests into batches of                *)
(* PARALLEL_VALIDATIONS lanes; the validator threads compute the deadlines *)
(* of a batch at once, forward each improvement of an account's round to   *)
(* the pool that owns the account, and answer the session.                 *)
(*                                                                         *)
(* Source: DeadlineRequestHandler.{hpp,cpp}, Session::                     *)
(* process_submit_nonce_req, and the parts of Wallet they call.  The locks *)
(* inside Wallet are refined in module Wallet; here a call of Wallet that  *)
(* takes new_block_mu_ is one step.                                        *)
(***************************************************************************)
EXTENDS Integers, Sequences, FiniteSets

CONSTANTS
    Requests,               \* submitNonce requests, one per connection
    NoRequest,              \* what a lane holds before its first request
    Accounts,               \* account ids that appear in requests
    account_id,             \* [Requests -> Accounts], parsed from the URL
    Registered,             \* accounts reward_recip_assign maps to a pool
    Validators,             \* threads of threadpool_
    NoThread,               \* owner of a free std::mutex
    PARALLEL_VALIDATIONS,   \* lanes of a batch (8 with AVX2, 4 without)
    MAX_WAITED,             \* empty polls before a short batch goes (50)
    UINT64_MAX,             \* 0xFFFFFFFFFFFFFFFF, the "no deadline yet"
    deadline_limit_,
    poc2_start_height_,
    MaxHeight,              \* bound: the chain stops growing here
    wallet_base_target,     \* what the wallet reports for each height
    CalculateDeadline(_, _, _)  \* (request, height, poc2) |-> deadline

ASSUME ConstantsAssumption ==
    /\ NoRequest \notin Requests
    /\ NoThread \notin Validators
    /\ account_id \in [Requests -> Accounts]
    /\ Registered \subseteq Accounts
    /\ PARALLEL_VALIDATIONS \in Nat \ {0}
    /\ MAX_WAITED \in Nat
    /\ UINT64_MAX \in Nat
    /\ deadline_limit_ \in 0 .. UINT64_MAX
    /\ poc2_start_height_ \in Nat
    /\ MaxHeight \in Nat

ASSUME WalletAssumption == wallet_base_target \in [1 .. MaxHeight -> {0, 1}]

ASSUME DeadlineAssumption ==
    \A r \in Requests, h \in 0 .. MaxHeight, p \in BOOLEAN :
        CalculateDeadline(r, h, p) \in 0 .. UINT64_MAX

VARIABLES
    current_block_,   \* Wallet: height and base target of the newest block
    miners_,          \* Wallet: the MinerRound of every registered account
    built,            \* requests a Session has filled in, not yet enqueued
    q_,               \* the concurrent queue; order between producers is free
    reqs,             \* distributor: the lanes of the batch being packed
    pending,          \* distributor: lanes filled since the last post
    waited,           \* distributor: empty polls since the last post
    posted,           \* batches waiting in io_service_
    pc,               \* validator: where it is in validate_deadline
    job,              \* validator: the batch it is working on
    lane,             \* validator: index of the request being validated
    forwarded,        \* SubmitNonce calls started, in order
    answers,          \* responses written to each request's session
    crashed,          \* the process died of an arithmetic or memory fault
    start_height,     \* history: height cache_miners ran with
    submitted,        \* history: requests whose session has been handled
    contended,        \* history: requests whose try_lock found mu taken
    dropped           \* history: requests the queue had no memory for

walletVars  == <<current_block_, miners_>>
distVars    == <<reqs, pending, waited>>
validVars   == <<pc, job, lane>>
historyVars == <<start_height, submitted, contended, dropped>>
vars == <<walletVars, built, q_, distVars, posted, validVars, forwarded,
          answers, crashed, historyVars>>

-----------------------------------------------------------------------------
(* Data                                                                    *)

Lanes     == 0 .. PARALLEL_VALIDATIONS - 1
Heights   == 0 .. MaxHeight
Deadlines == 0 .. UINT64_MAX

\* base_target only matters as zero or not: it is a divisor.  The wallet's
\* number is taken as it is, zero included; each height is adopted at most
\* once, so one number per height is enough.  Height 0 is the default Block.
BaseTarget(h) == IF h = 0 THEN 0 ELSE wallet_base_target[h]

Block == [height : Heights, base_target : {0, 1}]

CalcDeadlineReq == [id : Requests \cup {NoRequest},
                    height : Heights, base_target : {0, 1}]

\* A lane no request has reached yet: only base_target is set, the scoop
\* number and the rest of the object are whatever the allocation held.
UnsetReq == [id |-> NoRequest, height |-> 0, base_target |-> 1]

Batch == [creqs : [Lanes -> CalcDeadlineReq],
          pending : 0 .. PARALLEL_VALIDATIONS]

NoBatch == [creqs |-> [l \in Lanes |-> UnsetReq], pending |-> 0]

\* height is the block the request was built from; the response omits it.
Answer == [status : {"success", "1004", "1008"},
           deadline : Deadlines, height : Heights]

\* Mutant: every lane is computed for the height of lane 0.
DeadlineIn_FirstLaneHeight(b, l) ==
    CalculateDeadline(b.creqs[l].id, b.creqs[0].height,
                      b.creqs[0].height >= poc2_start_height_)

\* The deadline a batch computes for lane l: all lanes share the plot format
\* that lane 0 selects.
DeadlineIn(b, l) ==
    CalculateDeadline(b.creqs[l].id, b.creqs[l].height,
                      b.creqs[0].height >= poc2_start_height_)

\* Every lane divides by its own base target, the stale ones included.
DividesByZero(b) == \E l \in Lanes : b.creqs[l].base_target = 0

\* A lane with an indeterminate scoop number may read far outside its plot.
MayReadWild(b) == \E l \in Lanes : b.creqs[l].id = NoRequest

Req(v)     == job[v].creqs[lane[v]]
Account(v) == account_id[Req(v).id]
deadline(v) == DeadlineIn(job[v], lane[v])

-----------------------------------------------------------------------------
(* Startup: Wallet's constructor refreshes once, then caches the miners.   *)
(* A failed first refresh leaves the default Block: height and base target *)
(* zero.                                                                   *)

Init ==
    /\ start_height \in Heights
    /\ current_block_ = [height |-> start_height,
                         base_target |-> BaseTarget(start_height)]
    /\ miners_ = [a \in Registered |->
                    [mu |-> NoThread, deadline |-> UINT64_MAX,
                     height |-> start_height]]
    /\ built = {}
    /\ q_ = {}
    /\ reqs = [l \in Lanes |-> UnsetReq]
    /\ pending = 0
    /\ waited = 0
    /\ posted = <<>>
    /\ pc = [v \in Validators |-> "idle"]
    /\ job = [v \in Validators |-> NoBatch]
    /\ lane = [v \in Validators |-> 0]
    /\ forwarded = <<>>
    /\ answers = [r \in Requests |-> <<>>]
    /\ crashed = FALSE
    /\ submitted = {}
    /\ contended = {}
    /\ dropped = {}

-----------------------------------------------------------------------------
(* Wallet: refresh_block adopts a higher block.  cache_miners runs only in *)
(* the constructor, so the rounds keep the height they were created with.  *)

\* Mutant: the base target is not copied from the new block.
RefreshBlock_KeepsBaseTarget ==
    /\ \E h \in Heights :
          /\ current_block_.height < h
          /\ current_block_' = [current_block_ EXCEPT !.height = h]
    /\ UNCHANGED <<miners_, built, q_, distVars, posted, validVars,
                   forwarded, answers, crashed, historyVars>>

RefreshBlock ==
    /\ \E h \in Heights :
          /\ current_block_.height < h
          /\ current_block_' = [height |-> h, base_target |-> BaseTarget(h)]
    /\ UNCHANGED <<miners_, built, q_, distVars, posted, validVars,
                   forwarded, answers, crashed, historyVars>>

-----------------------------------------------------------------------------
(* Session::process_submit_nonce_req                                       *)

WriteAnswer(r, status, d, h) ==
    answers' = [answers EXCEPT ![r] =
        Append(@, [status |-> status, deadline |-> d, height |-> h])]

RejectUnknownAccount(r) ==
    /\ r \notin submitted
    /\ account_id[r] \notin DOMAIN miners_
    /\ submitted' = submitted \cup {r}
    /\ WriteAnswer(r, "1004", 0, 0)
    /\ UNCHANGED <<walletVars, built, q_, distVars, posted, validVars,
                   forwarded, crashed, start_height, contended, dropped>>

BuildRequest(r) ==
    /\ r \notin submitted
    /\ account_id[r] \in DOMAIN miners_
    /\ submitted' = submitted \cup {r}
    /\ built' = built \cup {[id |-> r, height |-> current_block_.height,
                             base_target |-> current_block_.base_target]}
    /\ UNCHANGED <<walletVars, q_, distVars, posted, validVars, forwarded,
                   answers, crashed, start_height, contended, dropped>>

\* The result of enqueue is not looked at: a request the queue has no memory
\* for is gone, and its session with it.
EnqueReq(c) ==
    /\ built' = built \ {c}
    /\ \/ q_' = q_ \cup {c} /\ UNCHANGED dropped
       \/ dropped' = dropped \cup {c.id} /\ UNCHANGED q_
    /\ UNCHANGED <<walletVars, distVars, posted, validVars, forwarded,
                   answers, crashed, start_height, submitted, contended>>

-----------------------------------------------------------------------------
(* distribute_deadline_reqs: one thread                                    *)

\* Mutants: the full batch is noticed one lane late; a short batch is never
\* sent.
BatchReady_OneLate ==
    \/ pending = PARALLEL_VALIDATIONS + 1
    \/ pending > 0 /\ waited > MAX_WAITED

BatchReady_OnlyFull == pending = PARALLEL_VALIDATIONS

BatchReady ==
    \/ pending = PARALLEL_VALIDATIONS
    \/ pending > 0 /\ waited > MAX_WAITED

\* Mutant: pending is not reset.
PostBatch_KeepsPending ==
    /\ BatchReady
    /\ posted' = Append(posted, [creqs |-> reqs, pending |-> pending])
    /\ waited' = 0
    /\ UNCHANGED <<walletVars, built, q_, reqs, pending, validVars, forwarded,
                   answers, crashed, historyVars>>

\* The lanes are copied into the posted job and keep their old contents here.
PostBatch ==
    /\ BatchReady
    /\ posted' = Append(posted, [creqs |-> reqs, pending |-> pending])
    /\ pending' = 0
    /\ waited' = 0
    /\ UNCHANGED <<walletVars, built, q_, reqs, validVars, forwarded,
                   answers, crashed, historyVars>>

TryDequeue ==
    /\ ~BatchReady
    /\ \E c \in q_ :
          /\ q_' = q_ \ {c}
          /\ reqs' = [reqs EXCEPT ![pending] = c]
    /\ pending' = pending + 1
    /\ UNCHANGED <<walletVars, built, waited, posted, validVars, forwarded,
                   answers, crashed, historyVars>>

\* waited is only compared with MAX_WAITED, so it saturates just above it.
PollEmpty ==
    /\ ~BatchReady
    /\ q_ = {}
    /\ waited' = IF waited > MAX_WAITED THEN waited ELSE waited + 1
    /\ UNCHANGED <<walletVars, built, q_, reqs, pending, posted, validVars,
                   forwarded, answers, crashed, historyVars>>

Distribute == PostBatch \/ TryDequeue \/ PollEmpty

-----------------------------------------------------------------------------
(* validate_deadlines and validate_deadline, on a validator thread         *)

Goto(v, label) == pc' = [pc EXCEPT ![v] = label]

StartBatch(v) ==
    /\ pc[v] = "idle"
    /\ posted # <<>>
    /\ posted' = Tail(posted)
    /\ job' = [job EXCEPT ![v] = Head(posted)]
    /\ lane' = [lane EXCEPT ![v] = 0]
    /\ \/ ~DividesByZero(Head(posted)) /\ Goto(v, "check") /\ UNCHANGED crashed
       \/ /\ DividesByZero(Head(posted)) \/ MayReadWild(Head(posted))
          /\ Goto(v, "crashed")
          /\ crashed' = TRUE
    /\ UNCHANGED <<walletVars, built, q_, distVars, forwarded, answers,
                   historyVars>>

\* On to the next live lane, or back to the pool after the last one.
NextLane(v) ==
    IF lane[v] + 1 < job[v].pending
    THEN /\ Goto(v, "check")
         /\ lane' = [lane EXCEPT ![v] = @ + 1]
         /\ UNCHANGED job
    ELSE /\ Goto(v, "idle")
         /\ lane' = [lane EXCEPT ![v] = 0]
         /\ job' = [job EXCEPT ![v] = NoBatch]

RejectOverLimit(v) ==
    /\ pc[v] = "check"
    /\ deadline(v) > deadline_limit_
    /\ WriteAnswer(Req(v).id, "1008", deadline(v), Req(v).height)
    /\ NextLane(v)
    /\ UNCHANGED <<walletVars, built, q_, distVars, posted, forwarded,
                   crashed, historyVars>>

GetMinerRound(v) ==
    /\ pc[v] = "check"
    /\ deadline(v) <= deadline_limit_
    /\ Goto(v, IF Account(v) \in DOMAIN miners_ THEN "try_lock" ELSE "answer")
    /\ UNCHANGED <<walletVars, built, q_, distVars, posted, job, lane,
                   forwarded, answers, crashed, historyVars>>

\* Mutant: the result of try_lock is ignored.
TryLock_IgnoresOwner(v) ==
    /\ pc[v] = "try_lock"
    /\ miners_' = [miners_ EXCEPT ![Account(v)].mu = v]
    /\ Goto(v, "compare")
    /\ UNCHANGED <<current_block_, built, q_, distVars, posted, job, lane,
                   forwarded, answers, crashed, historyVars>>

TryLock(v) ==
    /\ pc[v] = "try_lock"
    /\ miners_[Account(v)].mu = NoThread
    /\ miners_' = [miners_ EXCEPT ![Account(v)].mu = v]
    /\ Goto(v, "compare")
    /\ UNCHANGED <<current_block_, built, q_, distVars, posted, job, lane,
                   forwarded, answers, crashed, historyVars>>

\* Mutant: the round is given up although nobody holds it, as a try_lock that
\* may fail spuriously would.
SkipBusyRound_Spurious(v) ==
    /\ pc[v] = "try_lock"
    /\ contended' = contended \cup {Req(v).id}
    /\ Goto(v, "answer")
    /\ UNCHANGED <<walletVars, built, q_, distVars, posted, job, lane,
                   forwarded, answers, crashed, start_height, submitted, dropped>>

\* A busy round is skipped: the request is answered without being compared.
SkipBusyRound(v) ==
    /\ pc[v] = "try_lock"
    /\ miners_[Account(v)].mu # NoThread
    /\ contended' = contended \cup {Req(v).id}
    /\ Goto(v, "answer")
    /\ UNCHANGED <<walletVars, built, q_, distVars, posted, job, lane,
                   forwarded, answers, crashed, start_height, submitted, dropped>>

\* Mutants: the height of the round is not compared; the comparison of the
\* deadlines is turned round.
Improves_AnyHeight(v) == miners_[Account(v)].deadline > deadline(v)

Improves_Reversed(v) ==
    /\ miners_[Account(v)].height = Req(v).height
    /\ miners_[Account(v)].deadline < deadline(v)

Improves(v) ==
    /\ miners_[Account(v)].height = Req(v).height
    /\ miners_[Account(v)].deadline > deadline(v)

Compare(v) ==
    /\ pc[v] = "compare"
    /\ Goto(v, IF Improves(v) THEN "submit" ELSE "unlock")
    /\ UNCHANGED <<walletVars, built, q_, distVars, posted, job, lane,
                   forwarded, answers, crashed, historyVars>>

SubmitNonce(v) ==
    /\ pc[v] = "submit"
    /\ forwarded' = Append(forwarded,
                       [id |-> Req(v).id, account |-> Account(v),
                        deadline |-> deadline(v), height |-> Req(v).height])
    /\ Goto(v, "store")
    /\ UNCHANGED <<walletVars, built, q_, distVars, posted, job, lane,
                   answers, crashed, historyVars>>

\* Mutant: the round does not remember what was forwarded.
StoreDeadline_Forgets(v) ==
    /\ pc[v] = "store"
    /\ Goto(v, "unlock")
    /\ UNCHANGED <<walletVars, built, q_, distVars, posted, job, lane,
                   forwarded, answers, crashed, historyVars>>

StoreDeadline(v) ==
    /\ pc[v] = "store"
    /\ miners_' = [miners_ EXCEPT ![Account(v)].deadline = deadline(v)]
    /\ Goto(v, "unlock")
    /\ UNCHANGED <<current_block_, built, q_, distVars, posted, job, lane,
                   forwarded, answers, crashed, historyVars>>

Unlock(v) ==
    /\ pc[v] = "unlock"
    /\ miners_' = [miners_ EXCEPT ![Account(v)].mu = NoThread]
    /\ Goto(v, "answer")
    /\ UNCHANGED <<current_block_, built, q_, distVars, posted, job, lane,
                   forwarded, answers, crashed, historyVars>>

WriteOk(v) ==
    /\ pc[v] = "answer"
    /\ WriteAnswer(Req(v).id, "success", deadline(v), Req(v).height)
    /\ NextLane(v)
    /\ UNCHANGED <<walletVars, built, q_, distVars, posted, forwarded,
                   crashed, historyVars>>

Validate(v) ==
    \/ RejectOverLimit(v) \/ GetMinerRound(v)
    \/ TryLock(v) \/ SkipBusyRound(v)
    \/ Compare(v) \/ SubmitNonce(v) \/ StoreDeadline(v) \/ Unlock(v)
    \/ WriteOk(v)

-----------------------------------------------------------------------------
Next ==
    /\ ~crashed
    /\ \/ RefreshBlock
       \/ \E r \in Requests : RejectUnknownAccount(r) \/ BuildRequest(r)
       \/ \E c \in built : EnqueReq(c)
       \/ Distribute
       \/ \E v \in Validators : StartBatch(v) \/ Validate(v)

Spec == Init /\ [][Next]_vars

\* Threads keep running: a session that built a request enqueues it, the
\* distributor loops, and the pool's threads serve io_service_.
Alive(A) == ~crashed /\ A
Fairness ==
    /\ WF_vars(Alive(\E c \in built : EnqueReq(c)))
    /\ WF_vars(Alive(Distribute))
    /\ \A v \in Validators :
          WF_vars(Alive(StartBatch(v))) /\ WF_vars(Alive(Validate(v)))

FairSpec == Spec /\ Fairness

-----------------------------------------------------------------------------
(* Properties                                                              *)

Forward == [id : Requests, account : Registered,
            deadline : Deadlines, height : Heights]

\* Every variable keeps the shape its C++ declaration gives it; pending
\* never indexes past the lanes of a batch.
TypeOK ==
    /\ current_block_ \in Block
    /\ miners_ \in [Registered -> [mu : Validators \cup {NoThread},
                                  deadline : Deadlines, height : Heights]]
    /\ built \subseteq CalcDeadlineReq
    /\ q_ \subseteq CalcDeadlineReq
    /\ reqs \in [Lanes -> CalcDeadlineReq]
    /\ pending \in 0 .. PARALLEL_VALIDATIONS
    /\ waited \in 0 .. MAX_WAITED + 1
    /\ posted \in Seq(Batch)
    /\ pc \in [Validators -> {"idle", "check", "try_lock", "compare",
                             "submit", "store", "unlock", "answer",
                             "crashed"}]
    /\ job \in [Validators -> Batch]
    /\ lane \in [Validators -> Lanes]
    /\ forwarded \in Seq(Forward)
    /\ answers \in [Requests -> Seq(Answer)]
    /\ crashed \in BOOLEAN
    /\ start_height \in Heights
    /\ submitted \subseteq Requests
    /\ contended \subseteq Requests
    /\ dropped \subseteq Requests

\* Everywhere request r currently is, answered requests included.
Places(r) ==
    {<<"built", c>> : c \in {x \in built : x.id = r}}
    \cup {<<"q_", c>> : c \in {x \in q_ : x.id = r}}
    \cup {<<"reqs", l>> : l \in {x \in Lanes : x < pending /\ reqs[x].id = r}}
    \cup {<<"posted", kl>> : kl \in {x \in (1 .. Len(posted)) \X Lanes :
              x[2] < posted[x[1]].pending /\ posted[x[1]].creqs[x[2]].id = r}}
    \cup {<<"job", vl>> : vl \in {x \in Validators \X Lanes :
              /\ lane[x[1]] <= x[2] /\ x[2] < job[x[1]].pending
              /\ job[x[1]].creqs[x[2]].id = r}}
    \cup {<<"answer", i>> : i \in 1 .. Len(answers[r])}

\* Hand-over from session to queue to lane to batch to validator neither
\* loses a request nor keeps a second live copy, although the lanes are
\* never cleared and a posted batch carries requests of earlier batches: so
\* each session is answered at most once, and only a queue without memory
\* leaves one unanswered.
NothingLostOrDuplicated ==
    \A r \in Requests :
        Cardinality(Places(r)) = IF r \in submitted \ dropped THEN 1 ELSE 0

\* For one account the pool receives strictly better and better deadlines,
\* however many validators work on the account at once.
StrictlyImproves ==
    \A i, j \in DOMAIN forwarded :
        i < j /\ forwarded[i].account = forwarded[j].account
            => forwarded[j].deadline < forwarded[i].deadline

\* The round of account a holds exactly the best deadline forwarded for a.
RoundIsBest(a) ==
    LET mine == {i \in DOMAIN forwarded : forwarded[i].account = a}
    IN  /\ \A i \in mine : miners_[a].deadline <= forwarded[i].deadline
        /\ \/ miners_[a].deadline = UINT64_MAX
           \/ \E i \in mine : forwarded[i].deadline = miners_[a].deadline

\* When nobody holds a round, it records exactly the best deadline that was
\* forwarded for it; no validator overwrites it with a worse one.
RoundRecordsBest ==
    \A a \in Registered : miners_[a].mu = NoThread => RoundIsBest(a)

Covered(r, d) ==
    \/ d = UINT64_MAX
    \/ \E i \in DOMAIN forwarded : /\ forwarded[i].account = account_id[r]
                                  /\ forwarded[i].deadline <= d

\* "success" is only told to a miner whose deadline for the round has been
\* forwarded or beaten, unless its try_lock met a busy round.
SuccessIsCovered ==
    \A r \in Requests \ contended : \A k \in DOMAIN answers[r] :
        /\ answers[r][k].status = "success"
        /\ answers[r][k].height = start_height
        => Covered(r, answers[r][k].deadline)

\* With a single validator thread no round is ever busy, so there
\* SuccessIsCovered holds without its exception.
SingleValidatorNeverSkips ==
    (\A v, w \in Validators : v = w) => contended = {}

\* The deadline in a response is that of the request's own nonce, block and
\* plot format, whatever else shared its batch; the format is only certain
\* while no batch can span poc2_start_height_.
AnswerIsOwnDeadline ==
    (poc2_start_height_ <= start_height
        \/ current_block_.height < poc2_start_height_)
    => \A r \in Requests : \A k \in DOMAIN answers[r] :
          LET a == answers[r][k]
          IN  a.status # "1004" =>
                 a.deadline = CalculateDeadline(r, a.height,
                                  a.height >= poc2_start_height_)

\* Rounds are created once, at startup: a nonce for any later block is
\* answered but never reaches a pool.
OnlyStartupRoundForwarded ==
    \A i \in DOMAIN forwarded : forwarded[i].height = start_height

\* A division by zero always comes from a request in a live lane, for a block
\* whose base target the wallet gave as zero or built without any block: stale
\* lanes, and requests for a block with a base target, never kill the process.
\* (A lane that never held a request can: its scoop number is indeterminate.)
OnlyZeroBaseTargetsKill ==
    crashed => \E v \in Validators :
        /\ pc[v] = "crashed"
        /\ \/ MayReadWild(job[v]) /\ ~DividesByZero(job[v])
           \/ \E l \in 0 .. job[v].pending - 1 :
                 BaseTarget(job[v].creqs[l].height) = 0

\* Every request a session hands over is answered (or the queue had no memory
\* for it, or the process is gone), also when too few arrive to fill a batch.
EveryRequestAnswered ==
    \A r \in Requests :
        r \in submitted ~> (answers[r] # <<>> \/ r \in dropped \/ crashed)
-----------------------------------------------------------------------------
(* Refinement: what the service knows of a request is found where the      *)
(* request is.  The instant that decides it is the SubmitNonce, the failed *)
(* comparison, the skipped round or the "1008" of its validator.           *)

Decided == {"store", "unlock", "answer"}

LiveFrom(b, l) == {b.creqs[k] : k \in l .. b.pending - 1}

\* The lanes of v's batch whose requests are not decided.
Undecided(v) ==
    LiveFrom(job[v], IF pc[v] \in Decided THEN lane[v] + 1 ELSE lane[v])

InQueues ==
    built \cup q_ \cup LiveFrom([creqs |-> reqs, pending |-> pending], 0)
    \cup UNION {LiveFrom(posted[k], 0) : k \in DOMAIN posted}

Waiting == InQueues \cup UNION {Undecided(v) : v \in Validators}

Asked(c) == [id |-> c.id, height |-> c.height]
Open     == {Asked(c) : c \in Waiting}

Outcome(v) ==
    [id |-> Req(v).id, height |-> Req(v).height, deadline |-> deadline(v)]
Settled == {Outcome(v) : v \in {w \in Validators : pc[w] \in Decided}}

Service == INSTANCE DeadlineService WITH
    block   <- current_block_.height,
    start   <- start_height,
    asked   <- submitted,
    lost    <- dropped,
    open    <- Open,
    settled <- Settled

\* The node behaves as the service without queue, batches, threads or
\* locks: each request that is not dropped is taken, decided and answered
\* once, each at one instant; it is forwarded exactly if it then beats all that was forwarded
\* for its account, unless another request of that account is in progress.
ImplementsDeadlineService == Service!Spec
=============================================================================
