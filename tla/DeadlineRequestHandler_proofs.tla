-------------------- MODULE DeadlineRequestHandler_proofs --------------------
(***************************************************************************)
(* Machine-checked proofs about the submitNonce pipeline, for any number   *)
(* of requests, accounts, validator threads and lanes.                     *)
(***************************************************************************)
EXTENDS DeadlineRequestHandler, FiniteSetTheorems, SequenceTheorems, TLAPS

\* Requests that process_submit_nonce_req lets through.
Pooled == {r \in Requests : account_id[r] \in Registered}

LiveBatch(b) == \A l \in 0 .. b.pending - 1 : b.creqs[l].id \in Pooled

Working == {"check", "try_lock", "compare", "submit", "store", "unlock",
            "answer"}
InRound == {"try_lock", "compare", "submit", "store", "unlock"}
Locked  == InRound \ {"try_lock"}

\* A lane that is validated holds a real request: lanes below pending are
\* filled before a batch is posted, and a batch is never posted empty.
LiveLanes ==
    /\ \A c \in built \cup q_ : c.id \in Pooled
    /\ \A l \in 0 .. pending - 1 : reqs[l].id \in Pooled
    /\ \A k \in DOMAIN posted : posted[k].pending > 0 /\ LiveBatch(posted[k])
    /\ \A v \in Validators : LiveBatch(job[v])
    /\ \A v \in Validators : pc[v] \in Working => lane[v] < job[v].pending

\* get_miner_round returned a round before mu is touched.
RoundFound ==
    \A v \in Validators : pc[v] \in InRound => Account(v) \in Registered

TypeInv == TypeOK /\ LiveLanes /\ RoundFound

-----------------------------------------------------------------------------
LEMMA NoBatchIsBatch == NoBatch \in Batch /\ LiveBatch(NoBatch)
BY ConstantsAssumption DEF NoBatch, Batch, LiveBatch, UnsetReq, CalcDeadlineReq,
   Heights, Lanes

LEMMA BaseTargetType == \A h \in Heights : BaseTarget(h) \in {0, 1}
<1> SUFFICES ASSUME NEW h \in Heights PROVE BaseTarget(h) \in {0, 1}
  OBVIOUS
<1>1. h = 0 \/ h \in 1 .. MaxHeight
  BY ConstantsAssumption DEF Heights
<1> QED BY <1>1, WalletAssumption DEF BaseTarget

LEMMA InitTypeInv == Init => TypeInv
<1> SUFFICES ASSUME Init PROVE TypeInv
  OBVIOUS
<1> USE ConstantsAssumption, NoBatchIsBatch DEF Init
<1>1. TypeOK
  <2>1. /\ posted \in Seq(Batch)
        /\ forwarded \in Seq(Forward)
        /\ answers \in [Requests -> Seq(Answer)]
    OBVIOUS
  <2>2. /\ current_block_ \in Block
        /\ miners_ \in [Registered -> [mu : Validators \cup {NoThread},
                                      deadline : Deadlines, height : Heights]]
    BY BaseTargetType DEF Block, Deadlines
  <2>3. /\ reqs \in [Lanes -> CalcDeadlineReq]
        /\ pending \in 0 .. PARALLEL_VALIDATIONS
        /\ waited \in 0 .. MAX_WAITED + 1
        /\ lane \in [Validators -> Lanes]
    BY DEF Lanes, CalcDeadlineReq, UnsetReq, Heights
  <2> QED BY <2>1, <2>2, <2>3 DEF TypeOK
<1>2. LiveLanes
  BY DEF LiveLanes, Working
<1>3. RoundFound
  BY DEF RoundFound, InRound
<1> QED BY <1>1, <1>2, <1>3 DEF TypeInv

\* Every working validator validates a real request of its batch.
LEMMA WorkingLane ==
    ASSUME TypeInv, NEW v \in Validators, pc[v] \in Working
    PROVE  /\ Req(v) \in CalcDeadlineReq
           /\ Req(v).id \in Requests
           /\ Account(v) \in Registered
           /\ deadline(v) \in Deadlines
           /\ job[v].pending \in 0 .. PARALLEL_VALIDATIONS
           /\ lane[v] \in 0 .. job[v].pending - 1
<1>1. /\ job[v].pending \in 0 .. PARALLEL_VALIDATIONS
      /\ lane[v] \in 0 .. job[v].pending - 1
  BY ConstantsAssumption DEF TypeInv, TypeOK, LiveLanes, Batch, Lanes
<1>2. /\ job[v].creqs \in [Lanes -> CalcDeadlineReq]
      /\ lane[v] \in Lanes
      /\ 0 \in Lanes
  BY ConstantsAssumption DEF TypeInv, TypeOK, Batch, Lanes
<1>3. Req(v) \in CalcDeadlineReq /\ Req(v).id \in Requests
  BY <1>1, <1>2 DEF TypeInv, LiveLanes, LiveBatch, Req, Pooled
<1>4. Account(v) \in Registered
  BY <1>1, <1>2 DEF TypeInv, LiveLanes, LiveBatch, Req, Pooled, Account
<1>5. deadline(v) \in Deadlines
  <2>1. Req(v).height \in 0 .. MaxHeight
    BY <1>3 DEF CalcDeadlineReq, Heights
  <2>2. (job[v].creqs[0].height >= poc2_start_height_) \in BOOLEAN
    BY <1>2, ConstantsAssumption DEF CalcDeadlineReq, Heights
  <2> QED
    BY <1>3, <2>1, <2>2, DeadlineAssumption
    DEF deadline, DeadlineIn, Req, Deadlines
<1> QED BY <1>1, <1>3, <1>4, <1>5

\* On to the next lane: the validator goes idle or to a live lane.
LEMMA NextLaneKeepsType ==
    ASSUME TypeInv, NEW v \in Validators, pc[v] \in Working, NextLane(v)
    PROVE  /\ pc' = [pc EXCEPT ![v] = "check"] \/ pc' = [pc EXCEPT ![v] = "idle"]
           /\ job' \in [Validators -> Batch]
           /\ lane' \in [Validators -> Lanes]
           /\ \A w \in Validators : LiveBatch(job'[w])
           /\ \A w \in Validators : pc'[w] \in Working => lane'[w] < job'[w].pending
           /\ \A w \in Validators \ {v} : job'[w] = job[w] /\ lane'[w] = lane[w]
<1>1. /\ job[v].pending \in 0 .. PARALLEL_VALIDATIONS
      /\ lane[v] \in 0 .. job[v].pending - 1
      /\ lane \in [Validators -> Lanes]
      /\ job \in [Validators -> Batch]
      /\ pc \in [Validators -> {"idle", "crashed"} \cup Working]
      /\ \A w \in Validators : LiveBatch(job[w])
      /\ \A w \in Validators : pc[w] \in Working => lane[w] < job[w].pending
  BY WorkingLane DEF TypeInv, TypeOK, LiveLanes, Working
<1>2. CASE lane[v] + 1 < job[v].pending
  BY <1>1, <1>2, ConstantsAssumption DEF NextLane, Goto, Lanes, Working
<1>3. CASE ~(lane[v] + 1 < job[v].pending)
  BY <1>1, <1>3, NoBatchIsBatch, ConstantsAssumption DEF NextLane, Goto, Lanes, Working
<1> QED BY <1>2, <1>3
-----------------------------------------------------------------------------
(* One lemma per group of actions.                                         *)

LEMMA WriteAnswerType ==
    ASSUME NEW r \in Requests, answers \in [Requests -> Seq(Answer)],
           NEW s \in {"success", "1004", "1008"},
           NEW d \in Deadlines, NEW h \in Heights, WriteAnswer(r, s, d, h)
    PROVE  answers' \in [Requests -> Seq(Answer)]
<1> DEFINE a == [status |-> s, deadline |-> d, height |-> h]
<1>1. a \in Answer
  BY DEF Answer
<1>2. answers' = [answers EXCEPT ![r] = Append(@, a)]
  BY DEF WriteAnswer
<1> HIDE DEF a
<1>3. Append(answers[r], a) \in Seq(Answer)
  BY <1>1
<1> QED BY <1>2, <1>3

LEMMA SessionStepType ==
    ASSUME TypeInv,
           \/ RefreshBlock
           \/ \E r \in Requests : RejectUnknownAccount(r) \/ BuildRequest(r)
           \/ \E c \in built : EnqueReq(c)
    PROVE  TypeInv'
<1> USE ConstantsAssumption DEF walletVars, distVars, validVars, historyVars
<1>1. CASE RefreshBlock
  <2>1. current_block_' \in Block
    BY <1>1, BaseTargetType DEF RefreshBlock, Block
  <2>3. TypeOK'
    BY <1>1, <2>1 DEF TypeInv, TypeOK, RefreshBlock
  <2>2. LiveLanes' /\ RoundFound'
    BY <1>1 DEF TypeInv, LiveLanes, RoundFound, RefreshBlock, Account, Req
  <2> QED BY <2>2, <2>3 DEF TypeInv
<1>2. ASSUME NEW r \in Requests, RejectUnknownAccount(r) PROVE TypeInv'
  <2>1. answers' \in [Requests -> Seq(Answer)]
    <3>1. 0 \in Deadlines /\ 0 \in Heights /\ WriteAnswer(r, "1004", 0, 0)
      BY <1>2 DEF RejectUnknownAccount, Deadlines, Heights
    <3>2. answers \in [Requests -> Seq(Answer)]
      BY DEF TypeInv, TypeOK
    <3> QED BY <3>1, <3>2, WriteAnswerType
  <2>2. TypeOK'
    BY <1>2, <2>1 DEF TypeInv, TypeOK, RejectUnknownAccount
  <2>3. LiveLanes' /\ RoundFound'
    BY <1>2 DEF TypeInv, LiveLanes, RoundFound, RejectUnknownAccount, Account, Req
  <2> QED BY <2>2, <2>3 DEF TypeInv
<1>3. ASSUME NEW r \in Requests, BuildRequest(r) PROVE TypeInv'
  <2>1. built' \subseteq CalcDeadlineReq
    BY <1>3 DEF TypeInv, TypeOK, BuildRequest, CalcDeadlineReq, Block
  <2>2. TypeOK'
    BY <1>3, <2>1 DEF TypeInv, TypeOK, BuildRequest
  <2>3. LiveLanes' /\ RoundFound'
    BY <1>3 DEF TypeInv, TypeOK, LiveLanes, RoundFound, BuildRequest, Account, Req, Pooled
  <2> QED BY <2>2, <2>3 DEF TypeInv
<1>4. ASSUME NEW c \in built, EnqueReq(c) PROVE TypeInv'
  <2>3. c.id \in Requests
    BY DEF TypeInv, LiveLanes, Pooled
  <2>1. TypeOK'
    BY <1>4, <2>3 DEF TypeInv, TypeOK, EnqueReq
  <2>2. LiveLanes' /\ RoundFound'
    BY <1>4 DEF TypeInv, LiveLanes, RoundFound, EnqueReq, Account, Req
  <2> QED BY <2>1, <2>2 DEF TypeInv
<1> QED BY <1>1, <1>2, <1>3, <1>4

LEMMA DistributeType ==
    ASSUME TypeInv, Distribute
    PROVE  TypeInv'
<1> USE ConstantsAssumption DEF walletVars, validVars, historyVars
<1>1. CASE PostBatch
  <2> DEFINE b == [creqs |-> reqs, pending |-> pending]
  <2>1. b \in Batch /\ LiveBatch(b) /\ b.pending > 0
    BY <1>1 DEF TypeInv, TypeOK, LiveLanes, LiveBatch, PostBatch, BatchReady, Batch
  <2>2. posted' = Append(posted, b) /\ posted \in Seq(Batch)
    BY <1>1 DEF TypeInv, TypeOK, PostBatch
  <2>3. TypeOK'
    BY <1>1, <2>1, <2>2 DEF TypeInv, TypeOK, PostBatch
  <2>4. \A k \in DOMAIN posted' : posted'[k].pending > 0 /\ LiveBatch(posted'[k])
    <3> HIDE DEF b
    <3> QED BY <2>1, <2>2, AppendProperties DEF TypeInv, LiveLanes
  <2>5. LiveLanes' /\ RoundFound'
    BY <1>1, <2>4 DEF TypeInv, LiveLanes, RoundFound, PostBatch, Account, Req
  <2> QED BY <2>3, <2>5 DEF TypeInv
<1>2. CASE TryDequeue
  <2>1. PICK c \in q_ : q_' = q_ \ {c} /\ reqs' = [reqs EXCEPT ![pending] = c]
    BY <1>2 DEF TryDequeue
  <2>2. pending < PARALLEL_VALIDATIONS /\ pending' = pending + 1 /\ pending \in Lanes
    BY <1>2 DEF TypeInv, TypeOK, TryDequeue, BatchReady, Lanes
  <2>3. TypeOK'
    BY <1>2, <2>1, <2>2 DEF TypeInv, TypeOK, TryDequeue
  <2>4. \A l \in 0 .. pending' - 1 : reqs'[l].id \in Pooled
    BY <2>1, <2>2 DEF TypeInv, TypeOK, LiveLanes, Lanes
  <2>5. LiveLanes' /\ RoundFound'
    BY <1>2, <2>1, <2>4 DEF TypeInv, LiveLanes, RoundFound, TryDequeue, Account, Req
  <2> QED BY <2>3, <2>5 DEF TypeInv
<1>3. CASE PollEmpty
  <2>1. TypeOK'
    BY <1>3 DEF TypeInv, TypeOK, PollEmpty
  <2>2. LiveLanes' /\ RoundFound'
    BY <1>3 DEF TypeInv, LiveLanes, RoundFound, PollEmpty, Account, Req
  <2> QED BY <2>1, <2>2 DEF TypeInv
<1> QED BY <1>1, <1>2, <1>3 DEF Distribute

LEMMA ValidateType ==
    ASSUME TypeInv, NEW v \in Validators, StartBatch(v) \/ Validate(v)
    PROVE  TypeInv'
<1> USE ConstantsAssumption DEF distVars, historyVars, walletVars
<1>0. pc \in [Validators -> {"idle", "crashed"} \cup Working]
  BY DEF TypeInv, TypeOK, Working
<1>1. CASE StartBatch(v)
  <2>1. /\ Head(posted) \in Batch
        /\ LiveBatch(Head(posted))
        /\ Head(posted).pending > 0
        /\ Tail(posted) \in Seq(Batch)
        /\ \A k \in DOMAIN Tail(posted) :
              Tail(posted)[k].pending > 0 /\ LiveBatch(Tail(posted)[k])
    <3>1. posted \in Seq(Batch) /\ posted # <<>>
      BY <1>1 DEF TypeInv, TypeOK, StartBatch
    <3>2. \A k \in DOMAIN posted : posted[k].pending > 0 /\ LiveBatch(posted[k])
      BY DEF TypeInv, LiveLanes
    <3> QED BY <3>1, <3>2, HeadTailProperties
  <2>2. /\ posted' = Tail(posted)
        /\ job' = [job EXCEPT ![v] = Head(posted)]
        /\ lane' = [lane EXCEPT ![v] = 0]
        /\ \/ pc' = [pc EXCEPT ![v] = "check"] /\ crashed' = crashed
           \/ pc' = [pc EXCEPT ![v] = "crashed"] /\ crashed' = TRUE
    BY <1>1 DEF StartBatch, Goto
  <2>3. TypeOK'
    <3>1. /\ posted' \in Seq(Batch)
          /\ job' \in [Validators -> Batch]
          /\ lane' \in [Validators -> Lanes]
      BY <2>1, <2>2 DEF TypeInv, TypeOK, Lanes
    <3>3. crashed' \in BOOLEAN
      BY <2>2 DEF TypeInv, TypeOK
    <3>2. pc' \in [Validators -> {"idle", "check", "try_lock", "compare", "submit",
                                 "store", "unlock", "answer", "crashed"}]
      BY <2>2 DEF TypeInv, TypeOK
    <3> QED BY <1>1, <3>1, <3>2, <3>3 DEF TypeInv, TypeOK, StartBatch
  <2>4. LiveLanes'
    BY <1>0, <1>1, <2>1, <2>2 DEF TypeInv, TypeOK, LiveLanes, StartBatch, Working
  <2>5. RoundFound'
    BY <1>0, <1>1, <2>2 DEF TypeInv, TypeOK, RoundFound, StartBatch, Account, Req,
       InRound, Working
  <2> QED BY <2>3, <2>4, <2>5 DEF TypeInv
<1>2. ASSUME RejectOverLimit(v) \/ WriteOk(v) PROVE TypeInv'
  <2>1. pc[v] \in Working /\ NextLane(v)
    BY <1>2 DEF RejectOverLimit, WriteOk, Working
  <2>2. /\ Req(v).id \in Requests
        /\ Req(v).height \in Heights
        /\ deadline(v) \in Deadlines
    BY <2>1, WorkingLane DEF CalcDeadlineReq
  <2>3. answers' \in [Requests -> Seq(Answer)]
    <3>1. answers \in [Requests -> Seq(Answer)]
      BY DEF TypeInv, TypeOK
    <3>2. PICK s \in {"success", "1004", "1008"} :
            WriteAnswer(Req(v).id, s, deadline(v), Req(v).height)
      BY <1>2 DEF RejectOverLimit, WriteOk
    <3> QED BY <2>2, <3>1, <3>2, WriteAnswerType
  <2>4. /\ pc' = [pc EXCEPT ![v] = "check"] \/ pc' = [pc EXCEPT ![v] = "idle"]
        /\ job' \in [Validators -> Batch]
        /\ lane' \in [Validators -> Lanes]
        /\ \A w \in Validators : LiveBatch(job'[w])
        /\ \A w \in Validators : pc'[w] \in Working => lane'[w] < job'[w].pending
        /\ \A w \in Validators \ {v} : job'[w] = job[w] /\ lane'[w] = lane[w]
    BY <2>1, NextLaneKeepsType
  <2>5. UNCHANGED <<walletVars, built, q_, distVars, posted, forwarded, crashed,
                    historyVars>>
    BY <1>2 DEF RejectOverLimit, WriteOk
  <2>6. TypeOK'
    BY <2>3, <2>4, <2>5 DEF TypeInv, TypeOK
  <2>7. LiveLanes'
    BY <2>4, <2>5 DEF TypeInv, LiveLanes
  <2>8. RoundFound'
    BY <1>0, <2>4 DEF TypeInv, RoundFound, Account, Req, InRound
  <2> QED BY <2>6, <2>7, <2>8 DEF TypeInv
<1>3. ASSUME NEW label \in Working, Goto(v, label), pc[v] \in Working,
             UNCHANGED <<built, q_, distVars, posted, job, lane>>
      PROVE  LiveLanes'
  BY <1>0, <1>3 DEF TypeInv, LiveLanes, Goto
<1>4. ASSUME NEW label \in Working, Goto(v, label), UNCHANGED <<job, lane>>,
             label \in InRound => Account(v) \in Registered
      PROVE  RoundFound'
  BY <1>0, <1>4 DEF TypeInv, RoundFound, Goto, Account, Req
<1>5. CASE GetMinerRound(v)
  <2>1. PICK label \in {"try_lock", "answer"} :
          Goto(v, label) /\ (label = "try_lock" => Account(v) \in Registered)
    BY <1>5 DEF TypeInv, TypeOK, GetMinerRound
  <2>2. TypeOK'
    BY <1>5, <2>1 DEF TypeInv, TypeOK, GetMinerRound, Goto
  <2>3. LiveLanes' /\ RoundFound'
    BY <1>3, <1>4, <1>5, <2>1 DEF GetMinerRound, Working, InRound
  <2> QED BY <2>2, <2>3 DEF TypeInv
<1>6. CASE TryLock(v)
  <2>p. pc' \in [Validators -> {"idle", "check", "try_lock", "compare", "submit",
                                "store", "unlock", "answer", "crashed"}]
    BY <1>6 DEF TypeInv, TypeOK, TryLock, Goto
  <2>a. PICK a : a = Account(v)
    OBVIOUS
  <2>m. miners_' = [miners_ EXCEPT ![a].mu = v]
    BY <1>6, <2>a DEF TryLock
  <2>0. miners_' \in [Registered -> [mu : Validators \cup {NoThread},
                                     deadline : Deadlines, height : Heights]]
    BY <2>m DEF TypeInv, TypeOK
  <2>1. TypeOK'
    BY <1>6, <2>p, <2>0 DEF TypeInv, TypeOK, TryLock
  <2>2. LiveLanes' /\ RoundFound'
    BY <1>3, <1>4, <1>6 DEF TypeInv, RoundFound, TryLock, Working, InRound
  <2> QED BY <2>1, <2>2 DEF TypeInv
<1>7. CASE SkipBusyRound(v)
  <2>1. Req(v).id \in Requests
    BY <1>7, WorkingLane DEF SkipBusyRound, Working
  <2>2. TypeOK'
    BY <1>7, <2>1 DEF TypeInv, TypeOK, SkipBusyRound, Goto
  <2>3. LiveLanes' /\ RoundFound'
    BY <1>3, <1>4, <1>7 DEF SkipBusyRound, Working, InRound
  <2> QED BY <2>2, <2>3 DEF TypeInv
<1>8. CASE Compare(v)
  <2>1. PICK label \in {"submit", "unlock"} : Goto(v, label)
    BY <1>8 DEF Compare
  <2>2. TypeOK'
    BY <1>8, <2>1 DEF TypeInv, TypeOK, Compare, Goto
  <2>3. LiveLanes' /\ RoundFound'
    BY <1>3, <1>4, <1>8, <2>1 DEF TypeInv, RoundFound, Compare, Working, InRound
  <2> QED BY <2>2, <2>3 DEF TypeInv
<1>9. CASE SubmitNonce(v)
  <2> DEFINE f == [id |-> Req(v).id, account |-> Account(v),
                   deadline |-> deadline(v), height |-> Req(v).height]
  <2>1. f \in Forward
    BY <1>9, WorkingLane DEF TypeInv, RoundFound, SubmitNonce, Working, InRound,
       Forward, CalcDeadlineReq
  <2>2. forwarded' = Append(forwarded, f)
    BY <1>9 DEF SubmitNonce
  <2> HIDE DEF f
  <2>3. TypeOK'
    BY <1>9, <2>1, <2>2 DEF TypeInv, TypeOK, SubmitNonce, Goto
  <2>4. LiveLanes' /\ RoundFound'
    BY <1>3, <1>4, <1>9 DEF TypeInv, RoundFound, SubmitNonce, Working, InRound
  <2> QED BY <2>3, <2>4 DEF TypeInv
<1>10. CASE StoreDeadline(v)
  <2>1. deadline(v) \in Deadlines
    BY <1>10, WorkingLane DEF StoreDeadline, Working
  <2>2. TypeOK'
    BY <1>10, <2>1 DEF TypeInv, TypeOK, StoreDeadline, Goto
  <2>3. LiveLanes' /\ RoundFound'
    BY <1>3, <1>4, <1>10 DEF TypeInv, RoundFound, StoreDeadline, Working, InRound
  <2> QED BY <2>2, <2>3 DEF TypeInv
<1>11. CASE Unlock(v)
  <2>1. TypeOK'
    BY <1>11 DEF TypeInv, TypeOK, Unlock, Goto
  <2>2. LiveLanes' /\ RoundFound'
    BY <1>3, <1>4, <1>11 DEF Unlock, Working, InRound
  <2> QED BY <2>1, <2>2 DEF TypeInv
<1> QED
  BY <1>1, <1>2, <1>5, <1>6, <1>7, <1>8, <1>9, <1>10, <1>11 DEF Validate

LEMMA StepTypeInv == TypeInv /\ [Next]_vars => TypeInv'
<1> SUFFICES ASSUME TypeInv, [Next]_vars PROVE TypeInv'
  OBVIOUS
<1>1. CASE Next
  BY <1>1, SessionStepType, DistributeType, ValidateType DEF Next
<1>2. CASE UNCHANGED vars
  BY <1>2 DEF vars, walletVars, distVars, validVars, historyVars, TypeInv, TypeOK,
     LiveLanes, RoundFound, Account, Req
<1> QED BY <1>1, <1>2

\* Every variable keeps the shape its C++ declaration gives it, for any
\* number of lanes, validators and requests.
THEOREM TypeCorrect == Spec => []TypeOK
<1>1. Spec => []TypeInv
  BY InitTypeInv, StepTypeInv, PTL DEF Spec
<1>2. TypeInv => TypeOK
  BY DEF TypeInv
<1> QED BY <1>1, <1>2, PTL

-----------------------------------------------------------------------------
(* The rounds.  StrictlyImproves and RoundRecordsBest are not inductive:   *)
(* between SubmitNonce and StoreDeadline the round lags behind what was    *)
(* forwarded, and only mu keeps another validator from comparing with it.  *)

\* Only the owner of mu is between try_lock and unlock.
MutexOwned ==
    \A v \in Validators : pc[v] \in Locked => miners_[Account(v)].mu = v

\* What was compared still holds when it is acted on.
Beats ==
    \A v \in Validators : pc[v] \in {"submit", "store"} =>
        /\ deadline(v) < miners_[Account(v)].deadline
        /\ Req(v).height = miners_[Account(v)].height

\* A validator about to store has just forwarded the best deadline.
JustForwarded ==
    \A v \in Validators : pc[v] = "store" =>
        LET mine == {i \in DOMAIN forwarded : forwarded[i].account = Account(v)}
        IN  /\ \A i \in mine : deadline(v) <= forwarded[i].deadline
            /\ \E i \in mine : forwarded[i].deadline = deadline(v)

\* Otherwise the round is up to date, locked or not.
UpToDate ==
    \A a \in Registered :
        (\A v \in Validators : pc[v] = "store" => Account(v) # a) => RoundIsBest(a)

\* Nobody re-arms a round.
RoundsKeepHeight == \A a \in Registered : miners_[a].height = start_height

RoundInv ==
    /\ TypeInv
    /\ MutexOwned
    /\ Beats
    /\ JustForwarded
    /\ UpToDate
    /\ RoundsKeepHeight
    /\ StrictlyImproves
    /\ OnlyStartupRoundForwarded

LEMMA InitRoundInv == Init => RoundInv
<1> SUFFICES ASSUME Init PROVE RoundInv
  OBVIOUS
<1>1. TypeInv
  BY InitTypeInv
<1>2. MutexOwned /\ Beats /\ JustForwarded
  BY DEF Init, MutexOwned, Beats, JustForwarded, Locked, InRound
<1>3. UpToDate
  BY DEF Init, UpToDate, RoundIsBest
<1>4. RoundsKeepHeight /\ StrictlyImproves /\ OnlyStartupRoundForwarded
  BY DEF Init, RoundsKeepHeight, StrictlyImproves, OnlyStartupRoundForwarded
<1> QED BY <1>1, <1>2, <1>3, <1>4 DEF RoundInv

\* A step that neither touches rounds and forwards nor moves a validator
\* into, inside or out of a round preserves the invariant.
LEMMA OutsideRounds ==
    ASSUME RoundInv, TypeInv',
           UNCHANGED <<miners_, forwarded, start_height>>,
           \A w \in Validators :
              \/ UNCHANGED <<pc[w], job[w], lane[w]>>
              \/ pc[w] \notin Locked /\ pc'[w] \notin Locked
    PROVE  RoundInv'
<1>1. \A w \in Validators : pc'[w] \in Locked =>
          /\ UNCHANGED <<pc[w], job[w], lane[w]>>
          /\ Req(w)' = Req(w) /\ Account(w)' = Account(w)
          /\ deadline(w)' = deadline(w)
  BY DEF Req, Account, deadline, DeadlineIn
<1>2. \A w \in Validators : pc[w] = "store" => pc'[w] = "store"
  BY DEF Locked, InRound
<1>3. MutexOwned' /\ Beats'
  BY <1>1 DEF RoundInv, MutexOwned, Beats, Locked, InRound
<1>4. JustForwarded'
  <2> SUFFICES ASSUME NEW w \in Validators, pc'[w] = "store"
               PROVE  LET mine == {i \in DOMAIN forwarded :
                                     forwarded[i].account = Account(w)}
                      IN  /\ \A i \in mine : deadline(w) <= forwarded[i].deadline
                          /\ \E i \in mine : forwarded[i].deadline = deadline(w)
    BY <1>1 DEF JustForwarded, Locked, InRound
  <2> QED BY <1>1 DEF RoundInv, JustForwarded, Locked, InRound
<1>5. UpToDate'
  BY <1>1, <1>2 DEF RoundInv, UpToDate, RoundIsBest, Locked, InRound
<1>6. RoundsKeepHeight' /\ StrictlyImproves' /\ OnlyStartupRoundForwarded'
  BY DEF RoundInv, RoundsKeepHeight, StrictlyImproves, OnlyStartupRoundForwarded
<1> QED BY <1>3, <1>4, <1>5, <1>6 DEF RoundInv

\* The step of v from try_lock to unlock, seen by the other validators.
LEMMA InsideRound ==
    ASSUME RoundInv, NEW v \in Validators, pc[v] \in InRound, UNCHANGED <<job, lane>>,
           NEW label \in Working, Goto(v, label)
    PROVE  /\ \A w \in Validators : /\ Req(w)' = Req(w)
                                  /\ Account(w)' = Account(w)
                                  /\ deadline(w)' = deadline(w)
           /\ pc'[v] = label
           /\ \A w \in Validators \ {v} : pc'[w] = pc[w]
           /\ Account(v) \in Registered
           /\ deadline(v) \in Deadlines
           /\ miners_[Account(v)] \in [mu : Validators \cup {NoThread},
                                       deadline : Deadlines, height : Heights]
BY WorkingLane DEF RoundInv, TypeInv, TypeOK, RoundFound, Goto, Req, Account,
   deadline, DeadlineIn, InRound, Working

LEMMA RoundStep ==
    ASSUME RoundInv, NEW v \in Validators, TypeInv',
           TryLock(v) \/ Compare(v) \/ SubmitNonce(v) \/ StoreDeadline(v) \/ Unlock(v)
    PROVE  RoundInv'
<1> DEFINE a == Account(v)
<1> DEFINE d == deadline(v)
<1>0. PICK label \in Working : Goto(v, label)
  BY DEF TryLock, Compare, SubmitNonce, StoreDeadline, Unlock, Working
<1>1. /\ pc[v] \in InRound
      /\ UNCHANGED <<job, lane, start_height>>
  BY DEF TryLock, Compare, SubmitNonce, StoreDeadline, Unlock, InRound, historyVars
<1>2. /\ \A w \in Validators : /\ Req(w)' = Req(w)
                              /\ Account(w)' = Account(w)
                              /\ deadline(w)' = deadline(w)
      /\ pc'[v] = label
      /\ \A w \in Validators \ {v} : pc'[w] = pc[w]
      /\ a \in Registered
      /\ d \in Deadlines
      /\ miners_[a] \in [mu : Validators \cup {NoThread},
                        deadline : Deadlines, height : Heights]
  BY <1>0, <1>1, InsideRound
<1>3. pc[v] \in Locked => \A w \in Validators \ {v} : pc[w] \in Locked => Account(w) # a
  BY DEF RoundInv, MutexOwned
<1>4. /\ miners_ \in [Registered -> [mu : Validators \cup {NoThread},
                                     deadline : Deadlines, height : Heights]]
      /\ forwarded \in Seq(Forward)
      /\ \A w \in Validators : pc[w] \in InRound => Account(w) \in Registered
  BY DEF RoundInv, TypeInv, TypeOK, RoundFound
<1> HIDE DEF a, d
<1>9. ASSUME MutexOwned', Beats', forwarded' = forwarded,
             pc[v] # "store", label # "store",
             \A b \in Registered : /\ miners_'[b].deadline = miners_[b].deadline
                                 /\ miners_'[b].height = miners_[b].height
      PROVE  RoundInv'
  <2>1. \A w \in Validators : pc'[w] = "store" <=> pc[w] = "store"
    BY <1>2, <1>9
  <2>2. JustForwarded'
    BY <1>2, <1>9, <2>1 DEF RoundInv, JustForwarded
  <2>3. UpToDate'
    BY <1>2, <1>9, <2>1 DEF RoundInv, UpToDate, RoundIsBest
  <2> QED
    BY <1>1, <1>9, <2>2, <2>3
    DEF RoundInv, RoundsKeepHeight, StrictlyImproves, OnlyStartupRoundForwarded
<1>6. ASSUME MutexOwned', forwarded' = forwarded,
             pc[v] \notin {"submit", "store"}, label \notin {"submit", "store"},
             \A b \in Registered : /\ miners_'[b].deadline = miners_[b].deadline
                                 /\ miners_'[b].height = miners_[b].height
      PROVE  RoundInv'
  <2>1. Beats'
    BY <1>2, <1>4, <1>6 DEF RoundInv, Beats, InRound
  <2> QED BY <1>6, <1>9, <2>1
<1>5. CASE TryLock(v)
  <2>1. /\ pc[v] = "try_lock" /\ label = "compare"
        /\ miners_[a].mu = NoThread
        /\ miners_' = [miners_ EXCEPT ![a].mu = v]
        /\ forwarded' = forwarded
    BY <1>2, <1>5, <1>0 DEF TryLock, Goto, a, RoundInv, TypeInv, TypeOK
  <2>2. \A b \in Registered : /\ miners_'[b].deadline = miners_[b].deadline
                             /\ miners_'[b].height = miners_[b].height
    BY <2>1, <1>4
  <2>3. MutexOwned'
    BY <1>2, <1>4, <2>1, ConstantsAssumption
    DEF RoundInv, MutexOwned, Locked, InRound, a
  <2> QED BY <1>2, <1>6, <2>1, <2>2, <2>3
<1>7. CASE Unlock(v)
  <2>1. /\ pc[v] = "unlock" /\ label = "answer"
        /\ miners_' = [miners_ EXCEPT ![a].mu = NoThread]
        /\ forwarded' = forwarded
    BY <1>2, <1>7, <1>0 DEF Unlock, Goto, a, RoundInv, TypeInv, TypeOK
  <2>2. \A b \in Registered : /\ miners_'[b].deadline = miners_[b].deadline
                             /\ miners_'[b].height = miners_[b].height
    BY <2>1, <1>4
  <2>3. MutexOwned'
    BY <1>2, <1>3, <1>4, <2>1 DEF RoundInv, MutexOwned, Locked, InRound
  <2> QED BY <1>2, <1>6, <2>1, <2>2, <2>3
<1>8. CASE Compare(v)
  <2>1. /\ pc[v] = "compare" /\ label \in {"submit", "unlock"}
        /\ label = "submit" => Improves(v)
        /\ miners_' = miners_ /\ forwarded' = forwarded
    BY <1>2, <1>8, <1>0 DEF Compare, Goto, RoundInv, TypeInv, TypeOK, walletVars
  <2>2. MutexOwned'
    BY <1>2, <2>1 DEF RoundInv, MutexOwned, Locked, InRound
  <2>3. Beats'
    BY <1>2, <2>1 DEF RoundInv, Beats, Improves, Deadlines, a, d
  <2> QED BY <1>2, <1>9, <2>1, <2>2, <2>3
<1>10. CASE SubmitNonce(v)
  <2> DEFINE f == [id |-> Req(v).id, account |-> a, deadline |-> d,
                   height |-> Req(v).height]
  <2>1. /\ pc[v] = "submit" /\ label = "store"
        /\ miners_' = miners_
        /\ forwarded' = Append(forwarded, f)
    BY <1>2, <1>10, <1>0 DEF SubmitNonce, Goto, RoundInv, TypeInv, TypeOK, walletVars, a, d
  <2>2. /\ f.account = a /\ f.deadline = d /\ f.height = Req(v).height
        /\ d < miners_[a].deadline
        /\ f.height = start_height
    BY <1>2, <2>1 DEF RoundInv, Beats, RoundsKeepHeight, a, d
  <2> HIDE DEF f
  <2>3. /\ DOMAIN forwarded' = DOMAIN forwarded \cup {Len(forwarded) + 1}
        /\ \A i \in DOMAIN forwarded : forwarded'[i] = forwarded[i]
        /\ forwarded'[Len(forwarded) + 1] = f
        /\ \A i \in DOMAIN forwarded : i < Len(forwarded) + 1
        /\ \A i \in DOMAIN forwarded : forwarded[i].deadline \in Nat
    <3>1. f \in Forward
      BY <1>2, <2>1, WorkingLane DEF f, RoundInv, Working, Forward, CalcDeadlineReq
    <3>2. \A i \in DOMAIN forwarded : forwarded[i].deadline \in Nat
      <4>1. \A i \in DOMAIN forwarded : forwarded[i] \in Forward
        BY <1>4
      <4> QED BY <4>1, ConstantsAssumption DEF Forward, Deadlines
    <3>3. /\ forwarded' \in Seq(Forward)
          /\ Len(forwarded') = Len(forwarded) + 1
          /\ \A i \in 1 .. Len(forwarded) : forwarded'[i] = forwarded[i]
          /\ forwarded'[Len(forwarded) + 1] = f
      BY <1>4, <2>1, <3>1, AppendProperties
    <3>4. /\ DOMAIN forwarded = 1 .. Len(forwarded) /\ Len(forwarded) \in Nat
          /\ DOMAIN forwarded' = 1 .. Len(forwarded')
      BY <1>4, <3>3, LenProperties
    <3> QED BY <3>2, <3>3, <3>4
  <2>4. RoundIsBest(a)
    BY <1>2, <1>3, <2>1 DEF RoundInv, UpToDate, Locked, InRound
  <2>5. \A i \in DOMAIN forwarded : forwarded[i].account = a => d < forwarded[i].deadline
    BY <1>2, <2>2, <2>3, <2>4 DEF RoundIsBest, Deadlines
  <2>6. MutexOwned' /\ Beats'
    BY <1>2, <2>1, <2>2 DEF RoundInv, MutexOwned, Beats, Locked, InRound, a, d
  <2>7. JustForwarded'
    <3> SUFFICES ASSUME NEW w \in Validators, pc'[w] = "store"
                 PROVE  /\ \A i \in DOMAIN forwarded' : forwarded'[i].account = Account(w)
                              => deadline(w) <= forwarded'[i].deadline
                        /\ \E i \in DOMAIN forwarded' :
                              /\ forwarded'[i].account = Account(w)
                              /\ forwarded'[i].deadline = deadline(w)
      BY <1>2 DEF JustForwarded
    <3>1. CASE w = v
      BY <1>2, <2>2, <2>3, <2>5, <3>1 DEF a, d, Deadlines
    <3>2. CASE w # v
      <4>1. pc[w] = "store" /\ Account(w) # a
        BY <1>2, <1>3, <2>1, <3>2 DEF Locked, InRound
      <4> QED BY <2>2, <2>3, <4>1 DEF RoundInv, JustForwarded
    <3> QED BY <3>1, <3>2
  <2>8. UpToDate'
    <3> SUFFICES ASSUME NEW b \in Registered,
                        \A w \in Validators : pc'[w] = "store" => Account(w) # b
                 PROVE  RoundIsBest(b)'
      BY <1>2 DEF UpToDate
    <3>1. b # a
      BY <1>2, <2>1 DEF a
    <3>2. RoundIsBest(b)
      BY <1>2, <2>1 DEF RoundInv, UpToDate
    <3> QED BY <2>1, <2>2, <2>3, <3>1, <3>2 DEF RoundIsBest
  <2>9. StrictlyImproves' /\ OnlyStartupRoundForwarded'
    BY <1>1, <1>4, <2>2, <2>3, <2>5
    DEF RoundInv, StrictlyImproves, OnlyStartupRoundForwarded
  <2> QED BY <1>1, <2>1, <2>6, <2>7, <2>8, <2>9 DEF RoundInv, RoundsKeepHeight
<1>11. CASE StoreDeadline(v)
  <2>1. /\ pc[v] = "store" /\ label = "unlock"
        /\ miners_' = [miners_ EXCEPT ![a].deadline = d]
        /\ forwarded' = forwarded
    BY <1>2, <1>11, <1>0 DEF StoreDeadline, Goto, RoundInv, TypeInv, TypeOK, a, d
  <2>2. /\ miners_'[a].deadline = d
        /\ \A b \in Registered \ {a} : miners_'[b] = miners_[b]
        /\ \A b \in Registered : /\ miners_'[b].mu = miners_[b].mu
                               /\ miners_'[b].height = miners_[b].height
    BY <1>2, <1>4, <2>1
  <2>3. MutexOwned'
    BY <1>2, <1>4, <2>1, <2>2 DEF RoundInv, MutexOwned, Locked, InRound
  <2>4. Beats' /\ JustForwarded'
    <3>1. \A w \in Validators : pc'[w] \in {"submit", "store"} =>
            pc'[w] = pc[w] /\ Account(w) # a /\ Account(w) \in Registered
      BY <1>2, <1>3, <1>4, <2>1 DEF Locked, InRound
    <3> QED BY <1>2, <2>1, <2>2, <3>1 DEF RoundInv, Beats, JustForwarded
  <2>5. UpToDate'
    <3> SUFFICES ASSUME NEW b \in Registered,
                        \A w \in Validators : pc'[w] = "store" => Account(w) # b
                 PROVE  RoundIsBest(b)'
      BY <1>2 DEF UpToDate
    <3>1. CASE b = a
      BY <2>1, <2>2, <3>1 DEF RoundInv, JustForwarded, RoundIsBest, a, d
    <3>2. CASE b # a
      BY <1>2, <2>1, <2>2, <3>2 DEF RoundInv, UpToDate, RoundIsBest, a
    <3> QED BY <3>1, <3>2
  <2> QED
    BY <1>1, <2>1, <2>2, <2>3, <2>4, <2>5
    DEF RoundInv, RoundsKeepHeight, StrictlyImproves, OnlyStartupRoundForwarded
<1> QED BY <1>5, <1>7, <1>8, <1>10, <1>11

LEMMA StepRoundInv == RoundInv /\ [Next]_vars => RoundInv'
<1> SUFFICES ASSUME RoundInv, [Next]_vars PROVE RoundInv'
  OBVIOUS
<1>1. TypeInv'
  BY StepTypeInv DEF RoundInv
<1>2. CASE UNCHANGED vars
  BY <1>1, <1>2, OutsideRounds DEF vars, walletVars, validVars, historyVars
<1>3. CASE \/ RefreshBlock
           \/ \E r \in Requests : RejectUnknownAccount(r) \/ BuildRequest(r)
           \/ \E c \in built : EnqueReq(c)
           \/ Distribute
  <2>1. UNCHANGED <<miners_, forwarded, start_height, pc, job, lane>>
    BY <1>3 DEF RefreshBlock, RejectUnknownAccount, BuildRequest, EnqueReq, Distribute,
       PostBatch, TryDequeue, PollEmpty, walletVars, validVars, historyVars
  <2> QED BY <1>1, <2>1, OutsideRounds
<1>4. ASSUME NEW v \in Validators,
             \/ StartBatch(v) \/ RejectOverLimit(v) \/ GetMinerRound(v)
             \/ SkipBusyRound(v) \/ WriteOk(v)
      PROVE  RoundInv'
  <2>1. UNCHANGED <<miners_, forwarded, start_height>>
    BY <1>4 DEF StartBatch, RejectOverLimit, GetMinerRound, SkipBusyRound, WriteOk,
       walletVars, historyVars
  <2>2. /\ pc \in [Validators -> {"idle", "crashed"} \cup Working]
        /\ job \in [Validators -> Batch]
        /\ lane \in [Validators -> Lanes]
    BY DEF RoundInv, TypeInv, TypeOK, Working
  <2>3. /\ pc[v] \notin Locked /\ pc'[v] \notin Locked
        /\ \A w \in Validators \ {v} : UNCHANGED <<pc[w], job[w], lane[w]>>
    BY <1>4, <2>2 DEF StartBatch, RejectOverLimit, GetMinerRound, SkipBusyRound, WriteOk,
       Goto, NextLane, Locked, InRound, validVars
  <2> QED BY <1>1, <2>1, <2>3, OutsideRounds
<1>5. ASSUME NEW v \in Validators,
             \/ TryLock(v) \/ Compare(v) \/ SubmitNonce(v) \/ StoreDeadline(v)
             \/ Unlock(v)
      PROVE  RoundInv'
  BY <1>1, <1>5, RoundStep
<1> QED BY <1>2, <1>3, <1>4, <1>5 DEF Next, Validate

LEMMA RoundInvariant == Spec => []RoundInv
BY InitRoundInv, StepRoundInv, PTL DEF Spec

\* The pool that owns an account receives strictly better and better
\* deadlines for it, however many validators race for the round.
THEOREM ForwardsStrictlyImprove == Spec => []StrictlyImproves
<1>1. RoundInv => StrictlyImproves
  BY DEF RoundInv
<1> QED BY <1>1, RoundInvariant, PTL

\* A round nobody holds records exactly the best deadline forwarded for it.
THEOREM RoundsRecordBest == Spec => []RoundRecordsBest
<1>1. RoundInv => RoundRecordsBest
  <2> SUFFICES ASSUME RoundInv, NEW a \in Registered, miners_[a].mu = NoThread
               PROVE  RoundIsBest(a)
    BY DEF RoundRecordsBest
  <2>1. \A v \in Validators : pc[v] = "store" => Account(v) # a
    BY ConstantsAssumption DEF RoundInv, MutexOwned, Locked, InRound
  <2> QED BY <2>1 DEF RoundInv, UpToDate
<1> QED BY <1>1, RoundInvariant, PTL

\* No nonce for a block after the one the node started with reaches a pool.
THEOREM ForwardsStartupRoundOnly == Spec => []OnlyStartupRoundForwarded
<1>1. RoundInv => OnlyStartupRoundForwarded
  BY DEF RoundInv
<1> QED BY <1>1, RoundInvariant, PTL

-----------------------------------------------------------------------------
(* What "success" means.  It is told long after the round was compared, so *)
(* the invariant carries the comparison through unlock to the answer; and  *)
(* a request is only excepted when another validator held its round.       *)

\* mu is held by a validator that is between try_lock and unlock.
OwnerInRound ==
    \A a \in Registered : miners_[a].mu # NoThread =>
        \E v \in Validators : /\ miners_[a].mu = v
                             /\ pc[v] \in Locked /\ Account(v) = a

\* A validator that is done with the round leaves it at least as good.
DoneIsCovered ==
    \A v \in Validators :
        /\ pc[v] \in {"unlock", "answer"}
        /\ Req(v).id \notin contended
        /\ Req(v).height = start_height
        => Covered(Req(v).id, deadline(v))

CoverInv ==
    /\ RoundInv
    /\ OwnerInRound
    /\ DoneIsCovered
    /\ SuccessIsCovered
    /\ SingleValidatorNeverSkips

LEMMA InitCoverInv == Init => CoverInv
<1> SUFFICES ASSUME Init PROVE CoverInv
  OBVIOUS
<1>1. RoundInv
  BY InitRoundInv
<1>2. OwnerInRound /\ DoneIsCovered
  BY DEF Init, OwnerInRound, DoneIsCovered
<1>3. SuccessIsCovered /\ SingleValidatorNeverSkips
  BY DEF Init, SuccessIsCovered, SingleValidatorNeverSkips
<1> QED BY <1>1, <1>2, <1>3 DEF CoverInv

\* What was forwarded stays forwarded.
LEMMA CoveredStays ==
    ASSUME forwarded \in Seq(Forward), NEW r, NEW d, Covered(r, d),
           forwarded' = forwarded
             \/ \E f \in Forward : forwarded' = Append(forwarded, f)
    PROVE  Covered(r, d)'
<1>1. CASE forwarded' = forwarded
  BY <1>1 DEF Covered
<1>2. ASSUME NEW f \in Forward, forwarded' = Append(forwarded, f)
      PROVE  Covered(r, d)'
  <2>1. /\ Len(forwarded) \in Nat /\ DOMAIN forwarded = 1 .. Len(forwarded)
        /\ \A i \in 1 .. Len(forwarded) : forwarded'[i] = forwarded[i]
        /\ DOMAIN forwarded' = 1 .. Len(forwarded) + 1
    BY <1>2, AppendProperties, LenProperties
  <2> QED BY <2>1 DEF Covered
<1> QED BY <1>1, <1>2

\* One more answer, which is covered if it says "success".
LEMMA OneMoreAnswer ==
    ASSUME NEW r \in Requests, answers \in [Requests -> Seq(Answer)],
           NEW s \in {"success", "1004", "1008"},
           NEW d \in Deadlines, NEW h \in Heights, WriteAnswer(r, s, d, h),
           SuccessIsCovered, forwarded' = forwarded, start_height' = start_height,
           contended' = contended,
           s = "success" /\ r \notin contended /\ h = start_height => Covered(r, d)
    PROVE  SuccessIsCovered'
<1> DEFINE a == [status |-> s, deadline |-> d, height |-> h]
<1>1. a \in Answer /\ a.status = s /\ a.deadline = d /\ a.height = h
  BY DEF Answer
<1>2. answers' = [answers EXCEPT ![r] = Append(@, a)]
  BY DEF WriteAnswer
<1> HIDE DEF a
<1>3. /\ Len(answers[r]) \in Nat
      /\ DOMAIN answers[r] = 1 .. Len(answers[r])
      /\ DOMAIN answers'[r] = 1 .. Len(answers[r]) + 1
      /\ \A k \in 1 .. Len(answers[r]) : answers'[r][k] = answers[r][k]
      /\ answers'[r][Len(answers[r]) + 1] = a
  BY <1>1, <1>2, AppendProperties, LenProperties
<1>4. \A t, e : Covered(t, e)' = Covered(t, e)
  BY DEF Covered
<1> SUFFICES ASSUME NEW t \in Requests \ contended, NEW k \in DOMAIN answers'[t],
                    answers'[t][k].status = "success",
                    answers'[t][k].height = start_height
             PROVE  Covered(t, answers'[t][k].deadline)
  BY <1>4 DEF SuccessIsCovered
<1>5. CASE t = r /\ k = Len(answers[r]) + 1
  BY <1>1, <1>3, <1>5
<1>6. CASE ~(t = r /\ k = Len(answers[r]) + 1)
  <2>1. k \in DOMAIN answers[t] /\ answers'[t][k] = answers[t][k]
    BY <1>2, <1>3, <1>6
  <2> QED BY <2>1 DEF SuccessIsCovered
<1> QED BY <1>5, <1>6

-----------------------------------------------------------------------------
LEMMA OutsideValidators ==
    ASSUME CoverInv, RoundInv', SuccessIsCovered',
           UNCHANGED <<miners_, forwarded, start_height, contended, pc, job, lane>>
    PROVE  CoverInv'
BY DEF CoverInv, OwnerInRound, DoneIsCovered, SingleValidatorNeverSkips, Covered,
   Req, Account, deadline, DeadlineIn

LEMMA SessionStepCover ==
    ASSUME CoverInv, RoundInv',
           \/ RefreshBlock
           \/ \E r \in Requests : RejectUnknownAccount(r) \/ BuildRequest(r)
           \/ \E c \in built : EnqueReq(c)
           \/ Distribute
    PROVE  CoverInv'
<1>1. UNCHANGED <<miners_, forwarded, start_height, contended, pc, job, lane>>
  BY DEF RefreshBlock, RejectUnknownAccount, BuildRequest, EnqueReq, Distribute,
     PostBatch, TryDequeue, PollEmpty, walletVars, validVars, historyVars
<1>2. SuccessIsCovered'
  <2>1. CASE answers' = answers
    BY <1>1, <2>1 DEF CoverInv, SuccessIsCovered, Covered
  <2>2. ASSUME NEW r \in Requests, RejectUnknownAccount(r) PROVE SuccessIsCovered'
    <3>1. 0 \in Deadlines /\ 0 \in Heights /\ WriteAnswer(r, "1004", 0, 0)
      BY <2>2, ConstantsAssumption DEF RejectUnknownAccount, Deadlines, Heights
    <3>2. answers \in [Requests -> Seq(Answer)] /\ SuccessIsCovered
      BY DEF CoverInv, RoundInv, TypeInv, TypeOK
    <3> QED BY <1>1, <3>1, <3>2, OneMoreAnswer
  <2> QED
    BY <2>1, <2>2 DEF RefreshBlock, BuildRequest, EnqueReq, Distribute, PostBatch,
       TryDequeue, PollEmpty
<1> QED BY <1>1, <1>2, OutsideValidators

\* A validator's own step leaves the requests of the others alone.
LEMMA OthersKeepLane ==
    ASSUME TypeInv, NEW v \in Validators, StartBatch(v) \/ Validate(v)
    PROVE  \A w \in Validators \ {v} : /\ pc'[w] = pc[w]
                                       /\ Req(w)' = Req(w) /\ Account(w)' = Account(w)
                                       /\ deadline(w)' = deadline(w)
<1>1. /\ pc \in [Validators -> {"idle", "crashed"} \cup Working]
      /\ job \in [Validators -> Batch] /\ lane \in [Validators -> Lanes]
  BY DEF TypeInv, TypeOK, Working
<1>2. \A w \in Validators \ {v} : UNCHANGED <<pc[w], job[w], lane[w]>>
  BY <1>1 DEF StartBatch, Validate, RejectOverLimit, GetMinerRound, TryLock,
     SkipBusyRound, Compare, SubmitNonce, StoreDeadline, Unlock, WriteOk, Goto,
     NextLane, validVars
<1> QED BY <1>2 DEF Req, Account, deadline, DeadlineIn

\* Only what happens between try_lock and unlock changes a round's owner.
LEMMA OwnerStep ==
    ASSUME CoverInv, RoundInv', NEW v \in Validators, StartBatch(v) \/ Validate(v)
    PROVE  OwnerInRound'
<1> SUFFICES ASSUME NEW a \in Registered, miners_'[a].mu # NoThread
             PROVE  \E w \in Validators : /\ miners_'[a].mu = w
                                         /\ pc'[w] \in Locked /\ Account(w)' = a
  BY DEF OwnerInRound
<1>1. TypeInv /\ TypeOK /\ MutexOwned
  BY DEF CoverInv, RoundInv, TypeInv
<1>2. pc \in [Validators -> {"idle", "crashed"} \cup Working]
  BY <1>1 DEF TypeOK, Working
<1>3. CASE TryLock(v) \/ Compare(v) \/ SubmitNonce(v) \/ StoreDeadline(v) \/ Unlock(v)
  <2>1. PICK label \in Working : Goto(v, label)
    BY <1>3 DEF TryLock, Compare, SubmitNonce, StoreDeadline, Unlock, Working
  <2>2. /\ pc[v] \in InRound /\ Account(v)' = Account(v) /\ Account(v) \in Registered
        /\ pc'[v] = label /\ pc' = [pc EXCEPT ![v] = label]
    BY <1>1, <1>2, <1>3, <2>1 DEF TryLock, Compare, SubmitNonce, StoreDeadline, Unlock,
       Goto, InRound, Account, Req, TypeInv, RoundFound
  <2>3. /\ miners_ \in [Registered -> [mu : Validators \cup {NoThread},
                                      deadline : Deadlines, height : Heights]]
    BY <1>1 DEF TypeOK
  <2>4. CASE TryLock(v) /\ a = Account(v)
    <3>1. miners_' = [miners_ EXCEPT ![a].mu = v] /\ pc'[v] = "compare"
      BY <1>2, <2>4 DEF TryLock, Goto
    <3>2. miners_'[a].mu = v
      BY <2>3, <3>1
    <3>3. Account(v)' = a
      BY <2>2, <2>4
    <3> QED BY <3>1, <3>2, <3>3 DEF Locked, InRound
  <2>5. CASE Unlock(v) /\ a = Account(v)
    BY <2>2, <2>3, <2>5 DEF Unlock
  <2>6. CASE ~(TryLock(v) /\ a = Account(v)) /\ ~(Unlock(v) /\ a = Account(v))
    <3>1. miners_'[a].mu = miners_[a].mu
      BY <1>3, <2>2, <2>3, <2>6 DEF TryLock, Compare, SubmitNonce, StoreDeadline, Unlock,
         walletVars
    <3>2. PICK w \in Validators : miners_[a].mu = w /\ pc[w] \in Locked /\ Account(w) = a
      BY <3>1 DEF CoverInv, OwnerInRound
    <3>3. CASE w # v
      <4>1. pc'[w] = pc[w] /\ Account(w)' = Account(w)
        BY <1>1, <1>3, <3>3, OthersKeepLane DEF Validate
      <4> QED BY <3>1, <3>2, <4>1
    <3>4. CASE w = v
      <4>1. ~TryLock(v)
        BY <3>2, <3>4 DEF TryLock, Locked
      <4>2. ~Unlock(v)
        BY <2>6, <3>2, <3>4
      <4>3. pc'[v] \in Locked
        BY <1>2, <1>3, <2>2, <4>1, <4>2 DEF Compare, SubmitNonce, StoreDeadline, Goto,
           Locked, InRound
      <4> QED BY <2>2, <3>1, <3>2, <3>4, <4>3
    <3> QED BY <3>3, <3>4
  <2> QED BY <2>4, <2>5, <2>6
<1>4. CASE \/ StartBatch(v) \/ RejectOverLimit(v) \/ GetMinerRound(v)
           \/ SkipBusyRound(v) \/ WriteOk(v)
  <2>1. miners_' = miners_ /\ pc[v] \notin Locked
    BY <1>4 DEF StartBatch, RejectOverLimit, GetMinerRound, SkipBusyRound, WriteOk,
       walletVars, Locked, InRound
  <2>2. PICK w \in Validators : miners_[a].mu = w /\ pc[w] \in Locked /\ Account(w) = a
    BY <2>1 DEF CoverInv, OwnerInRound
  <2>3. w # v
    BY <2>1, <2>2
  <2>4. pc'[w] = pc[w] /\ Account(w)' = Account(w)
    BY <1>1, <1>4, <2>3, OthersKeepLane DEF Validate
  <2> QED BY <2>1, <2>2, <2>4
<1> QED BY <1>3, <1>4 DEF Validate

LEMMA DoneStep ==
    ASSUME CoverInv, RoundInv', NEW v \in Validators, StartBatch(v) \/ Validate(v)
    PROVE  DoneIsCovered'
<1>1. /\ TypeInv /\ TypeOK /\ RoundInv
      /\ forwarded \in Seq(Forward)
  BY DEF CoverInv, RoundInv, TypeInv, TypeOK
<1>2. /\ forwarded' = forwarded \/ \E f \in Forward : forwarded' = Append(forwarded, f)
      /\ start_height' = start_height /\ contended \subseteq contended'
  <2>1. CASE SubmitNonce(v)
    <3> DEFINE f == [id |-> Req(v).id, account |-> Account(v),
                     deadline |-> deadline(v), height |-> Req(v).height]
    <3>1. f \in Forward
      BY <1>1, <2>1, WorkingLane DEF SubmitNonce, Working, Forward, CalcDeadlineReq
    <3> QED BY <2>1, <3>1 DEF SubmitNonce, historyVars
  <2>2. CASE ~SubmitNonce(v)
    BY <2>2 DEF StartBatch, Validate, RejectOverLimit, GetMinerRound, TryLock,
       SkipBusyRound, Compare, StoreDeadline, Unlock, WriteOk, historyVars
  <2> QED BY <2>1, <2>2
<1>3. \A r, d : Covered(r, d) => Covered(r, d)'
  BY <1>1, <1>2, CoveredStays
<1> SUFFICES ASSUME NEW w \in Validators, pc'[w] \in {"unlock", "answer"},
                    Req(w)'.id \notin contended', Req(w)'.height = start_height'
             PROVE  Covered(Req(w).id, deadline(w))'
  BY DEF DoneIsCovered
<1>4. CASE w # v
  <2>1. /\ pc'[w] = pc[w] /\ Req(w)' = Req(w) /\ deadline(w)' = deadline(w)
    BY <1>1, <1>4, OthersKeepLane
  <2>2. Covered(Req(w).id, deadline(w))
    BY <1>2, <2>1 DEF CoverInv, DoneIsCovered
  <2> QED BY <1>3, <2>1, <2>2 DEF Covered
<1>5. CASE w = v
  <2>1. pc \in [Validators -> {"idle", "crashed"} \cup Working]
    BY <1>1 DEF TypeOK, Working
  <2>2. CASE Compare(v)
    <3>1. /\ pc[v] = "compare" /\ ~Improves(v)
          /\ Req(v)' = Req(v) /\ deadline(v)' = deadline(v) /\ Account(v)' = Account(v)
          /\ UNCHANGED <<miners_, forwarded, start_height, contended>>
      BY <1>5, <2>1, <2>2 DEF Compare, Goto, Req, deadline, DeadlineIn, Account,
         walletVars, historyVars
    <3>2. /\ Account(v) \in Registered /\ deadline(v) \in Nat
          /\ miners_[Account(v)].deadline \in Nat
          /\ miners_[Account(v)].height = start_height
      BY <1>1, <3>1, WorkingLane, ConstantsAssumption
      DEF Working, Deadlines, TypeOK, RoundInv, RoundsKeepHeight
    <3>3. miners_[Account(v)].deadline =< deadline(v)
      BY <1>5, <3>1, <3>2 DEF Improves
    <3>4. \A x \in Validators : pc[x] = "store" => Account(x) # Account(v)
      BY <1>1, <3>1 DEF RoundInv, MutexOwned, Locked, InRound
    <3>5. RoundIsBest(Account(v))
      BY <1>1, <3>2, <3>4 DEF RoundInv, UpToDate
    <3>6. UINT64_MAX \in Nat /\ deadline(v) =< UINT64_MAX
      BY <1>1, <3>1, WorkingLane, ConstantsAssumption DEF Working, Deadlines
    <3>7. Covered(Req(v).id, deadline(v))
      <4>1. CASE miners_[Account(v)].deadline = UINT64_MAX
        BY <3>2, <3>3, <3>6, <4>1 DEF Covered
      <4>2. CASE miners_[Account(v)].deadline # UINT64_MAX
        BY <3>3, <3>5, <4>2 DEF RoundIsBest, Covered, Account
      <4> QED BY <4>1, <4>2
    <3> QED BY <1>5, <3>1, <3>7 DEF Covered
  <2>3. CASE StoreDeadline(v)
    <3>1. /\ pc[v] = "store"
          /\ Req(v)' = Req(v) /\ deadline(v)' = deadline(v)
          /\ forwarded' = forwarded
      BY <2>3 DEF StoreDeadline, Goto, Req, deadline, DeadlineIn
    <3>2. deadline(v) \in Nat
      BY <1>1, <3>1, WorkingLane, ConstantsAssumption DEF Working, Deadlines
    <3>3. \E i \in DOMAIN forwarded : /\ forwarded[i].account = Account(v)
                                      /\ forwarded[i].deadline = deadline(v)
      BY <1>1, <3>1 DEF RoundInv, JustForwarded
    <3>4. Covered(Req(v).id, deadline(v))
      BY <3>2, <3>3 DEF Covered, Account
    <3> QED BY <1>5, <3>1, <3>4 DEF Covered
  <2>4. CASE Unlock(v)
    <3>1. /\ pc[v] = "unlock" /\ Req(v)' = Req(v) /\ deadline(v)' = deadline(v)
          /\ UNCHANGED <<forwarded, start_height, contended>>
      BY <2>4 DEF Unlock, Req, deadline, DeadlineIn, historyVars
    <3>2. Covered(Req(v).id, deadline(v))
      BY <1>5, <3>1 DEF CoverInv, DoneIsCovered
    <3> QED BY <1>5, <3>1, <3>2 DEF Covered
  <2>5. CASE SkipBusyRound(v)
    <3>1. Req(v)' = Req(v) /\ Req(v).id \in contended'
      BY <2>5 DEF SkipBusyRound, Req
    <3> QED BY <1>5, <3>1
  <2>6. CASE GetMinerRound(v)
    <3>1. Account(v) \in Registered
      BY <1>1, <2>6, WorkingLane DEF GetMinerRound, Working
    <3>2. pc'[v] = "try_lock"
      BY <1>1, <2>1, <2>6, <3>1 DEF GetMinerRound, Goto, TypeOK
    <3> QED BY <1>5, <3>2
  <2>7. CASE StartBatch(v) \/ RejectOverLimit(v) \/ TryLock(v) \/ SubmitNonce(v) \/ WriteOk(v)
    <3>1. pc'[v] \notin {"unlock", "answer"}
      BY <2>1, <2>7 DEF StartBatch, RejectOverLimit, TryLock, SubmitNonce, WriteOk, Goto,
         NextLane
    <3> QED BY <1>5, <3>1
  <2> QED BY <2>2, <2>3, <2>4, <2>5, <2>6, <2>7 DEF Validate
<1> QED BY <1>4, <1>5

LEMMA SuccessStep ==
    ASSUME CoverInv, NEW v \in Validators, StartBatch(v) \/ Validate(v)
    PROVE  SuccessIsCovered'
<1>1. /\ TypeInv /\ SuccessIsCovered /\ forwarded \in Seq(Forward)
      /\ answers \in [Requests -> Seq(Answer)]
  BY DEF CoverInv, RoundInv, TypeInv, TypeOK
<1>2. CASE WriteOk(v) \/ RejectOverLimit(v)
  <2>1. /\ Req(v).id \in Requests /\ Req(v).height \in Heights /\ deadline(v) \in Deadlines
    BY <1>1, <1>2, WorkingLane DEF WriteOk, RejectOverLimit, Working, CalcDeadlineReq
  <2>2. UNCHANGED <<forwarded, start_height, contended>>
    BY <1>2 DEF WriteOk, RejectOverLimit, historyVars
  <2>3. CASE RejectOverLimit(v)
    BY <1>1, <2>1, <2>2, <2>3, OneMoreAnswer DEF RejectOverLimit
  <2>4. CASE WriteOk(v)
    <3>1. Req(v).id \notin contended /\ Req(v).height = start_height
              => Covered(Req(v).id, deadline(v))
      BY <2>4 DEF WriteOk, CoverInv, DoneIsCovered
    <3> QED BY <1>1, <2>1, <2>2, <2>4, <3>1, OneMoreAnswer DEF WriteOk
  <2> QED BY <1>2, <2>3, <2>4
<1>3. CASE SubmitNonce(v)
  <2> DEFINE f == [id |-> Req(v).id, account |-> Account(v),
                   deadline |-> deadline(v), height |-> Req(v).height]
  <2>1. f \in Forward
    BY <1>1, <1>3, WorkingLane DEF SubmitNonce, Working, Forward, CalcDeadlineReq
  <2>2. forwarded' = Append(forwarded, f) /\ UNCHANGED <<answers, start_height, contended>>
    BY <1>3 DEF SubmitNonce, historyVars
  <2> HIDE DEF f
  <2>3. \A r, d : Covered(r, d) => Covered(r, d)'
    BY <1>1, <2>1, <2>2, CoveredStays
  <2> SUFFICES ASSUME NEW r \in Requests \ contended, NEW k \in DOMAIN answers[r],
                      answers[r][k].status = "success",
                      answers[r][k].height = start_height
               PROVE  Covered(r, answers[r][k].deadline)'
    BY <2>2 DEF SuccessIsCovered
  <2> DEFINE d == answers[r][k].deadline
  <2>4. Covered(r, d)
    BY <1>1 DEF SuccessIsCovered
  <2>5. PICK e : e = d
    OBVIOUS
  <2>6. Covered(r, e)'
    BY <2>3, <2>4, <2>5
  <2> QED BY <2>2, <2>5, <2>6 DEF Covered
<1>4. CASE ~WriteOk(v) /\ ~RejectOverLimit(v) /\ ~SubmitNonce(v)
  <2>1. /\ UNCHANGED <<answers, forwarded, start_height>> /\ contended \subseteq contended'
    BY <1>4 DEF StartBatch, Validate, GetMinerRound, TryLock, SkipBusyRound, Compare,
       StoreDeadline, Unlock, historyVars
  <2> QED BY <1>1, <2>1 DEF SuccessIsCovered, Covered
<1> QED BY <1>2, <1>3, <1>4

\* A validator that finds the round taken is not the one that took it.
LEMMA SkipStep ==
    ASSUME CoverInv, NEW v \in Validators, StartBatch(v) \/ Validate(v)
    PROVE  SingleValidatorNeverSkips'
<1>1. CASE SkipBusyRound(v)
  <2>1. pc[v] = "try_lock" /\ miners_[Account(v)].mu # NoThread
    BY <1>1 DEF SkipBusyRound
  <2>2. Account(v) \in Registered
    BY <2>1 DEF CoverInv, RoundInv, TypeInv, RoundFound, InRound
  <2>3. PICK w \in Validators : pc[w] \in Locked
    BY <2>1, <2>2 DEF CoverInv, OwnerInRound
  <2>4. w # v
    BY <2>1, <2>3 DEF Locked
  <2> QED BY <2>4 DEF SingleValidatorNeverSkips
<1>2. CASE ~SkipBusyRound(v)
  <2>1. contended' = contended
    BY <1>2 DEF StartBatch, Validate, RejectOverLimit, GetMinerRound, TryLock, Compare,
       SubmitNonce, StoreDeadline, Unlock, WriteOk, historyVars
  <2> QED BY <2>1 DEF CoverInv, SingleValidatorNeverSkips
<1> QED BY <1>1, <1>2

LEMMA StepCoverInv == CoverInv /\ [Next]_vars => CoverInv'
<1> SUFFICES ASSUME CoverInv, [Next]_vars PROVE CoverInv'
  OBVIOUS
<1>1. RoundInv'
  BY StepRoundInv DEF CoverInv
<1>2. CASE UNCHANGED vars
  <2>1. UNCHANGED <<miners_, forwarded, start_height, contended, pc, job, lane, answers>>
    BY <1>2 DEF vars, walletVars, validVars, historyVars
  <2>2. SuccessIsCovered'
    BY <2>1 DEF CoverInv, SuccessIsCovered, Covered
  <2> QED BY <1>1, <2>1, <2>2, OutsideValidators
<1>3. ASSUME NEW v \in Validators, StartBatch(v) \/ Validate(v) PROVE CoverInv'
  BY <1>1, <1>3, OwnerStep, DoneStep, SuccessStep, SkipStep DEF CoverInv
<1> QED BY <1>1, <1>2, <1>3, SessionStepCover DEF Next

LEMMA CoverInvariant == Spec => []CoverInv
BY InitCoverInv, StepCoverInv, PTL DEF Spec

\* A miner who is told "success" for the startup round has had this deadline,
\* or a better one of the same account, forwarded to the pool, unless another
\* validator held the round at that moment (validate_deadline).
THEOREM SuccessMeansCovered == Spec => []SuccessIsCovered
<1>1. CoverInv => SuccessIsCovered
  BY DEF CoverInv
<1> QED BY <1>1, CoverInvariant, PTL

\* With one validator thread there is no such exception: try_lock never fails.
THEOREM OneValidatorNeverSkips == Spec => []SingleValidatorNeverSkips
<1>1. CoverInv => SingleValidatorNeverSkips
  BY DEF CoverInv
<1> QED BY <1>1, CoverInvariant, PTL

-----------------------------------------------------------------------------
(* The way of a request through the pipeline: which deadline it is         *)
(* answered with, what stops the process, and that it is in one place all  *)
(* the time.                                                               *)

(* A live request is one that still has to be answered: built, queued, or  *)
(* in a lane below pending.  What holds of the requests that are built     *)
(* holds of all live ones: AllLive states it for a set of requests.        *)

LiveIn(b, S) == \A l \in 0 .. b.pending - 1 : b.creqs[l] \in S

AllLive(S) ==
    /\ built \cup q_ \subseteq S
    /\ \A l \in 0 .. pending - 1 : reqs[l] \in S
    /\ \A k \in DOMAIN posted : LiveIn(posted[k], S)
    /\ \A v \in Validators : LiveIn(job[v], S)

LEMMA NoBatchLive == ASSUME NEW S PROVE LiveIn(NoBatch, S)
BY DEF LiveIn, NoBatch

\* A validator keeps its batch until it has none.
LEMMA ValidateKeepsBatches ==
    ASSUME TypeInv, NEW v \in Validators, Validate(v)
    PROVE  /\ UNCHANGED <<current_block_, built, q_, reqs, pending, posted,
                          start_height, crashed, submitted, dropped>>
           /\ job' = job \/ job' = [job EXCEPT ![v] = NoBatch]
BY DEF Validate, RejectOverLimit, GetMinerRound, TryLock, SkipBusyRound, Compare,
       SubmitNonce, StoreDeadline, Unlock, WriteOk, NextLane, distVars, walletVars,
       historyVars

LEMMA LiveStep ==
    ASSUME TypeInv, [Next]_vars, NEW S, AllLive(S), built' \ built \subseteq S
    PROVE  AllLive(S)'
<1>t. TypeOK
  BY DEF TypeInv
<1>1. ASSUME UNCHANGED <<q_, reqs, pending, posted, job>> PROVE AllLive(S)'
  BY <1>1 DEF AllLive
<1>2. CASE RefreshBlock \/ \E r \in Requests : RejectUnknownAccount(r) \/ BuildRequest(r)
  BY <1>1, <1>2 DEF RefreshBlock, RejectUnknownAccount, BuildRequest, distVars, validVars
<1>3. ASSUME NEW c \in built, EnqueReq(c) PROVE AllLive(S)'
  BY <1>3 DEF EnqueReq, AllLive, distVars, validVars
<1>4. CASE PostBatch
  <2> DEFINE b == [creqs |-> reqs, pending |-> pending]
  <2>1. b \in Batch /\ LiveIn(b, S)
    BY <1>t DEF TypeOK, Batch, AllLive, LiveIn
  <2>2. posted' = Append(posted, b) /\ posted \in Seq(Batch) /\ pending' = 0
    BY <1>4, <1>t DEF PostBatch, TypeOK
  <2>3. UNCHANGED <<built, q_, reqs, job>>
    BY <1>4 DEF PostBatch, validVars
  <2> HIDE DEF b
  <2>4. \A k \in DOMAIN posted' : LiveIn(posted'[k], S)
    BY <2>1, <2>2, AppendProperties DEF AllLive
  <2> QED BY <2>2, <2>3, <2>4 DEF AllLive
<1>5. CASE TryDequeue
  <2>1. PICK c \in q_ : q_' = q_ \ {c} /\ reqs' = [reqs EXCEPT ![pending] = c]
    BY <1>5 DEF TryDequeue
  <2>2. pending \in Lanes /\ pending' = pending + 1
    BY <1>5, <1>t, ConstantsAssumption DEF TypeOK, TryDequeue, BatchReady, Lanes
  <2>3. c \in S
    BY DEF AllLive
  <2>4. \A l \in 0 .. pending' - 1 : reqs'[l] \in S
    BY <1>t, <2>1, <2>2, <2>3 DEF AllLive, TypeOK, Lanes
  <2>5. UNCHANGED <<built, posted, job>>
    BY <1>5 DEF TryDequeue, validVars
  <2> QED BY <2>1, <2>4, <2>5 DEF AllLive
<1>6. CASE PollEmpty
  BY <1>1, <1>6 DEF PollEmpty, validVars
<1>7. ASSUME NEW v \in Validators, StartBatch(v) PROVE AllLive(S)'
  <2>1. posted \in Seq(Batch) /\ posted # <<>>
    BY <1>7, <1>t DEF StartBatch, TypeOK
  <2>2. /\ posted' = Tail(posted) /\ job' = [job EXCEPT ![v] = Head(posted)]
        /\ UNCHANGED <<built, q_, reqs, pending>>
    BY <1>7 DEF StartBatch, distVars
  <2>3. LiveIn(Head(posted), S) /\ \A k \in DOMAIN posted' : LiveIn(posted'[k], S)
    BY <2>1, <2>2, HeadTailProperties DEF AllLive
  <2>4. \A w \in Validators : LiveIn(job'[w], S)
    BY <1>t, <2>2, <2>3 DEF AllLive, TypeOK
  <2> QED BY <2>2, <2>3, <2>4 DEF AllLive
<1>8. ASSUME NEW v \in Validators, Validate(v) PROVE AllLive(S)'
  <2>1. /\ UNCHANGED <<built, q_, reqs, pending, posted>>
        /\ job' = job \/ job' = [job EXCEPT ![v] = NoBatch]
    BY <1>8, ValidateKeepsBatches
  <2>2. \A w \in Validators : LiveIn(job'[w], S)
    BY <1>t, <2>1, NoBatchLive DEF AllLive, TypeOK
  <2> QED BY <2>1, <2>2 DEF AllLive
<1>9. CASE UNCHANGED vars
  BY <1>1, <1>9 DEF vars, distVars, validVars
<1> QED
  BY <1>2, <1>3, <1>4, <1>5, <1>6, <1>7, <1>8, <1>9 DEF Next, Distribute

\* The request a validator works on, and lane 0 of its batch, are live.
LEMMA WorkingLive ==
    ASSUME TypeInv, NEW S, AllLive(S), NEW v \in Validators, pc[v] \in Working
    PROVE  Req(v) \in S /\ job[v].creqs[0] \in S
<1>1. /\ job[v].pending \in 0 .. PARALLEL_VALIDATIONS
      /\ lane[v] \in 0 .. job[v].pending - 1
  BY WorkingLane
<1>2. 0 \in 0 .. job[v].pending - 1
  BY <1>1, ConstantsAssumption
<1> QED BY <1>1, <1>2 DEF AllLive, LiveIn, Req

-----------------------------------------------------------------------------
(* The deadline in an answer                                               *)

\* Live requests were built from a block no older than the first, no newer
\* than the current one.
Window == {c \in CalcDeadlineReq : /\ start_height <= c.height
                                   /\ c.height <= current_block_.height}

FormatCertain ==
    \/ poc2_start_height_ <= start_height
    \/ current_block_.height < poc2_start_height_

IsOwn(r, a) ==
    a.status # "1004" =>
        a.deadline = CalculateDeadline(r, a.height, a.height >= poc2_start_height_)

OwnInv ==
    /\ TypeInv
    /\ start_height <= current_block_.height
    /\ AllLive(Window)
    /\ AnswerIsOwnDeadline

LEMMA InitOwnInv == Init => OwnInv
<1> SUFFICES ASSUME Init PROVE OwnInv
  OBVIOUS
<1>1. start_height <= current_block_.height
  BY ConstantsAssumption DEF Init, Heights
<1>2. AllLive(Window)
  BY NoBatchLive DEF Init, AllLive
<1>3. AnswerIsOwnDeadline
  BY DEF Init, AnswerIsOwnDeadline
<1> QED BY <1>1, <1>2, <1>3, InitTypeInv DEF OwnInv

\* The window only grows, and holds what process_submit_nonce_req builds.
LEMMA WindowStep ==
    ASSUME OwnInv, [Next]_vars
    PROVE  /\ start_height' = start_height
           /\ current_block_.height <= current_block_'.height
           /\ Window \subseteq Window' /\ built' \ built \subseteq Window
<1>t. TypeOK /\ start_height <= current_block_.height
  BY DEF OwnInv, TypeInv
<1>h. start_height \in Nat /\ current_block_.height \in Nat
  BY <1>t, ConstantsAssumption DEF TypeOK, Block, Heights
<1>1. start_height' = start_height
  BY DEF Next, vars, RefreshBlock, RejectUnknownAccount, BuildRequest, EnqueReq,
     Distribute, PostBatch, TryDequeue, PollEmpty, StartBatch, Validate,
     RejectOverLimit, GetMinerRound, TryLock, SkipBusyRound, Compare, SubmitNonce,
     StoreDeadline, Unlock, WriteOk, historyVars
<1>2. current_block_' = current_block_ \/ RefreshBlock
  BY DEF Next, vars, RejectUnknownAccount, BuildRequest, EnqueReq,
     Distribute, PostBatch, TryDequeue, PollEmpty, StartBatch, Validate,
     RejectOverLimit, GetMinerRound, TryLock, SkipBusyRound, Compare, SubmitNonce,
     StoreDeadline, Unlock, WriteOk, walletVars
<1>3. /\ current_block_.height <= current_block_'.height
      /\ current_block_'.height \in Nat
  <2>1. CASE RefreshBlock
    BY <1>h, <2>1, ConstantsAssumption DEF RefreshBlock, Heights
  <2> QED BY <1>2, <1>h, <2>1
<1>4. Window \subseteq Window'
  BY <1>1, <1>3, <1>h, ConstantsAssumption DEF Window, CalcDeadlineReq, Heights
<1>5. built' \subseteq built \/ \E r \in Requests : BuildRequest(r)
  BY DEF Next, vars, RefreshBlock, RejectUnknownAccount, EnqueReq, Distribute,
     PostBatch, TryDequeue, PollEmpty, StartBatch, Validate, RejectOverLimit,
     GetMinerRound, TryLock, SkipBusyRound, Compare, SubmitNonce, StoreDeadline,
     Unlock, WriteOk
<1>6. ASSUME NEW r \in Requests, BuildRequest(r) PROVE built' \ built \subseteq Window
  <2> DEFINE c == [id |-> r, height |-> current_block_.height,
                   base_target |-> current_block_.base_target]
  <2>1. built' = built \cup {c}
    BY <1>6 DEF BuildRequest
  <2>2. c \in Window
    BY <1>t, <1>h DEF Window, CalcDeadlineReq, TypeOK, Block
  <2> QED BY <2>1, <2>2
<1> QED BY <1>1, <1>3, <1>4, <1>5, <1>6

LEMMA LiveGrows ==
    ASSUME NEW S, NEW T, S \subseteq T, AllLive(S)
    PROVE  AllLive(T)
BY DEF AllLive, LiveIn

\* One more answer that is the request's own, or none.
LEMMA OneMoreOwnAnswer ==
    ASSUME NEW r \in Requests, answers \in [Requests -> Seq(Answer)],
           NEW s \in {"success", "1004", "1008"},
           NEW d \in Deadlines, NEW h \in Heights, WriteAnswer(r, s, d, h),
           \A t \in Requests : \A k \in DOMAIN answers[t] : IsOwn(t, answers[t][k]),
           s # "1004" => d = CalculateDeadline(r, h, h >= poc2_start_height_)
    PROVE  \A t \in Requests : \A k \in DOMAIN answers'[t] : IsOwn(t, answers'[t][k])
<1> DEFINE a == [status |-> s, deadline |-> d, height |-> h]
<1>1. a \in Answer /\ IsOwn(r, a)
  BY DEF Answer, IsOwn
<1>2. answers' = [answers EXCEPT ![r] = Append(@, a)]
  BY DEF WriteAnswer
<1> HIDE DEF a
<1>3. /\ Len(answers[r]) \in Nat
      /\ DOMAIN answers[r] = 1 .. Len(answers[r])
      /\ DOMAIN answers'[r] = 1 .. Len(answers[r]) + 1
      /\ \A k \in 1 .. Len(answers[r]) : answers'[r][k] = answers[r][k]
      /\ answers'[r][Len(answers[r]) + 1] = a
  BY <1>1, <1>2, AppendProperties, LenProperties
<1> SUFFICES ASSUME NEW t \in Requests, NEW k \in DOMAIN answers'[t]
             PROVE  IsOwn(t, answers'[t][k])
  OBVIOUS
<1>5. CASE t = r /\ k = Len(answers[r]) + 1
  BY <1>1, <1>3, <1>5
<1>6. CASE ~(t = r /\ k = Len(answers[r]) + 1)
  <2>1. k \in DOMAIN answers[t] /\ answers'[t][k] = answers[t][k]
    BY <1>2, <1>3, <1>6
  <2> QED BY <2>1
<1> QED BY <1>5, <1>6

\* While no batch can span poc2_start_height_, lane 0 selects the format every
\* lane needs.
LEMMA LaneFormat ==
    ASSUME OwnInv, FormatCertain, NEW v \in Validators, pc[v] \in Working
    PROVE  deadline(v) = CalculateDeadline(Req(v).id, Req(v).height,
                                           Req(v).height >= poc2_start_height_)
<1>1. Req(v) \in Window /\ job[v].creqs[0] \in Window
  <2>1. PICK S : S = Window
    OBVIOUS
  <2>2. AllLive(S) /\ TypeInv
    BY <2>1 DEF OwnInv
  <2> QED BY <2>1, <2>2, WorkingLive
<1>2. /\ start_height \in Nat /\ current_block_.height \in Nat
      /\ Req(v).height \in Nat /\ job[v].creqs[0].height \in Nat
      /\ poc2_start_height_ \in Nat
  BY <1>1, ConstantsAssumption
     DEF OwnInv, TypeInv, TypeOK, Block, Heights, Window, CalcDeadlineReq
<1>3. (job[v].creqs[0].height >= poc2_start_height_)
          = (Req(v).height >= poc2_start_height_)
  BY <1>1, <1>2 DEF FormatCertain, Window
<1> QED BY <1>3 DEF deadline, DeadlineIn, Req

LEMMA StepOwnInv == OwnInv /\ [Next]_vars => OwnInv'
<1> SUFFICES ASSUME OwnInv, [Next]_vars PROVE OwnInv'
  OBVIOUS
<1>t. TypeInv /\ TypeInv' /\ TypeOK /\ TypeOK'
  BY StepTypeInv DEF OwnInv, TypeInv
<1>w. /\ start_height' = start_height
      /\ current_block_.height <= current_block_'.height
      /\ Window \subseteq Window' /\ built' \ built \subseteq Window
  BY WindowStep
<1>h. /\ start_height \in Nat /\ poc2_start_height_ \in Nat
      /\ current_block_.height \in Nat /\ current_block_'.height \in Nat
  BY <1>t, ConstantsAssumption DEF TypeOK, Block, Heights
<1>1. start_height' <= current_block_'.height
  BY <1>w, <1>h DEF OwnInv
<1>2. AllLive(Window)'
  <2>1. PICK S : S = Window
    OBVIOUS
  <2>2. PICK T : T = Window'
    OBVIOUS
  <2>3. AllLive(S)'
    BY <1>t, <1>w, <2>1, LiveStep DEF OwnInv
  <2>4. AllLive(T)'
    BY <1>w, <2>1, <2>2, <2>3 DEF AllLive, LiveIn
  <2> QED BY <2>2, <2>4 DEF AllLive, LiveIn
<1>3. AnswerIsOwnDeadline'
  <2> SUFFICES ASSUME FormatCertain'
               PROVE  \A r \in Requests : \A k \in DOMAIN answers'[r] :
                         IsOwn(r, answers'[r][k])
    BY DEF AnswerIsOwnDeadline, FormatCertain, IsOwn
  <2>1. FormatCertain
    BY <1>w, <1>h DEF FormatCertain
  <2>2. \A r \in Requests : \A k \in DOMAIN answers[r] : IsOwn(r, answers[r][k])
    BY <2>1 DEF OwnInv, AnswerIsOwnDeadline, FormatCertain, IsOwn
  <2>3. answers \in [Requests -> Seq(Answer)]
    BY <1>t DEF TypeOK
  <2>4. ASSUME NEW r \in Requests, RejectUnknownAccount(r)
        PROVE  \A t \in Requests : \A k \in DOMAIN answers'[t] : IsOwn(t, answers'[t][k])
    <3>1. 0 \in Deadlines /\ 0 \in Heights /\ WriteAnswer(r, "1004", 0, 0)
      BY <2>4, ConstantsAssumption DEF RejectUnknownAccount, Deadlines, Heights
    <3> QED BY <2>2, <2>3, <3>1, OneMoreOwnAnswer
  <2>5. ASSUME NEW v \in Validators, RejectOverLimit(v) \/ WriteOk(v)
        PROVE  \A t \in Requests : \A k \in DOMAIN answers'[t] : IsOwn(t, answers'[t][k])
    <3>1. pc[v] \in Working
      BY <2>5 DEF RejectOverLimit, WriteOk, Working
    <3>2. Req(v).id \in Requests /\ Req(v).height \in Heights /\ deadline(v) \in Deadlines
      BY <1>t, <3>1, WorkingLane DEF CalcDeadlineReq
    <3>3. deadline(v) = CalculateDeadline(Req(v).id, Req(v).height,
                                          Req(v).height >= poc2_start_height_)
      BY <2>1, <3>1, LaneFormat
    <3>4. PICK s \in {"success", "1008"} :
             WriteAnswer(Req(v).id, s, deadline(v), Req(v).height)
      BY <2>5 DEF RejectOverLimit, WriteOk
    <3> QED BY <2>2, <2>3, <3>2, <3>3, <3>4, OneMoreOwnAnswer
  <2>6. \/ answers' = answers
        \/ \E r \in Requests : RejectUnknownAccount(r)
        \/ \E v \in Validators : RejectOverLimit(v) \/ WriteOk(v)
    BY DEF Next, vars, RefreshBlock, BuildRequest, EnqueReq, Distribute, PostBatch,
       TryDequeue, PollEmpty, StartBatch, Validate, GetMinerRound, TryLock,
       SkipBusyRound, Compare, SubmitNonce, StoreDeadline, Unlock
  <2> QED BY <2>2, <2>4, <2>5, <2>6
<1> QED BY <1>t, <1>1, <1>2, <1>3 DEF OwnInv

\* The deadline in a response is that of the request's own nonce, block and
\* plot format, whatever else shared its batch (validate_deadlines).
THEOREM AnswersOwnDeadline == Spec => []AnswerIsOwnDeadline
<1>1. Spec => []OwnInv
  BY InitOwnInv, StepOwnInv, PTL DEF Spec
<1>2. OwnInv => AnswerIsOwnDeadline
  BY DEF OwnInv
<1> QED BY <1>1, <1>2, PTL

-----------------------------------------------------------------------------
(* What kills the process.  A base target of zero stays behind in lanes    *)
(* that are live no more, and divides there as well; but then the batch it *)
(* was live in is posted before, and dies first.                           *)

\* A request has the base target the wallet gave for its block.
Sane == {c \in CalcDeadlineReq : c.base_target = BaseTarget(c.height)}

LiveZero(b) == \E l \in 0 .. b.pending - 1 : b.creqs[l].base_target = 0

\* A stale zero in the lanes was live in a batch that is still to be started.
StaleZeroPosted ==
    \A l \in Lanes : pending <= l /\ reqs[l].base_target = 0 =>
        \E k \in DOMAIN posted : LiveZero(posted[k])

\* So was one in a posted batch, in this batch or in an earlier one.
ZeroLiveFirst ==
    \A k \in DOMAIN posted : DividesByZero(posted[k]) =>
        \E j \in 1 .. k : LiveZero(posted[j])

DeathExplained ==
    /\ ~crashed => StaleZeroPosted /\ ZeroLiveFirst
    /\ OnlyZeroBaseTargetsKill

KillInv ==
    /\ TypeInv
    /\ current_block_.base_target = BaseTarget(current_block_.height)
    /\ AllLive(Sane)
    /\ DeathExplained

LEMMA InitKillInv == Init => KillInv
<1> SUFFICES ASSUME Init PROVE KillInv
  OBVIOUS
<1>1. AllLive(Sane)
  BY NoBatchLive DEF Init, AllLive
<1>2. StaleZeroPosted /\ ZeroLiveFirst
  BY DEF Init, StaleZeroPosted, ZeroLiveFirst, UnsetReq
<1>3. current_block_.base_target = BaseTarget(current_block_.height)
  BY DEF Init
<1>4. OnlyZeroBaseTargetsKill
  BY DEF Init, OnlyZeroBaseTargetsKill
<1>5. DeathExplained
  BY <1>2, <1>4, Zenon DEF DeathExplained
<1> QED BY <1>1, <1>3, <1>5, InitTypeInv DEF KillInv

LEMMA SaneBuilt ==
    ASSUME KillInv, [Next]_vars
    PROVE  /\ built' \ built \subseteq Sane
           /\ current_block_'.base_target = BaseTarget(current_block_'.height)
<1>t. TypeOK
  BY DEF KillInv, TypeInv
<1>1. current_block_' = current_block_ \/ RefreshBlock
  BY DEF Next, vars, RejectUnknownAccount, BuildRequest, EnqueReq,
     Distribute, PostBatch, TryDequeue, PollEmpty, StartBatch, Validate,
     RejectOverLimit, GetMinerRound, TryLock, SkipBusyRound, Compare, SubmitNonce,
     StoreDeadline, Unlock, WriteOk, walletVars
<1>2. current_block_'.base_target = BaseTarget(current_block_'.height)
  BY <1>1 DEF RefreshBlock, KillInv
<1>3. built' \subseteq built \/ \E r \in Requests : BuildRequest(r)
  BY DEF Next, vars, RefreshBlock, RejectUnknownAccount, EnqueReq, Distribute,
     PostBatch, TryDequeue, PollEmpty, StartBatch, Validate, RejectOverLimit,
     GetMinerRound, TryLock, SkipBusyRound, Compare, SubmitNonce, StoreDeadline,
     Unlock, WriteOk
<1>4. ASSUME NEW r \in Requests, BuildRequest(r) PROVE built' \ built \subseteq Sane
  BY <1>t, <1>4 DEF BuildRequest, Sane, CalcDeadlineReq, TypeOK, Block, KillInv
<1> QED BY <1>2, <1>3, <1>4

LEMMA PostBatchKill ==
    ASSUME TypeInv, AllLive(Sane), StaleZeroPosted, ZeroLiveFirst,
           PostBatch
    PROVE  StaleZeroPosted' /\ ZeroLiveFirst'
<1> DEFINE b == [creqs |-> reqs, pending |-> pending]
<1>t. TypeOK
  BY DEF TypeInv
<1>1. /\ b \in Batch /\ posted \in Seq(Batch) /\ posted' = Append(posted, b)
      /\ reqs' = reqs
  BY <1>t DEF PostBatch, TypeOK, Batch
<1>2. b.creqs = reqs /\ b.pending = pending
  OBVIOUS
<1> HIDE DEF b
<1>3. /\ Len(posted) \in Nat /\ DOMAIN posted = 1 .. Len(posted)
      /\ DOMAIN posted' = 1 .. Len(posted) + 1
      /\ \A k \in 1 .. Len(posted) : posted'[k] = posted[k]
      /\ posted'[Len(posted) + 1] = b
  BY <1>1, AppendProperties, LenProperties
<1>4. ASSUME NEW l \in Lanes, reqs[l].base_target = 0
      PROVE  \E k \in 1 .. Len(posted) + 1 : LiveZero(posted'[k])
  <2>1. CASE pending <= l
    BY <1>3, <1>4, <2>1 DEF StaleZeroPosted
  <2>2. CASE ~(pending <= l)
    <3>1. l \in 0 .. pending - 1
      BY <1>t, <2>2, ConstantsAssumption DEF TypeOK, Lanes
    <3>2. LiveZero(b)
      BY <1>2, <1>4, <3>1 DEF LiveZero
    <3> QED BY <1>3, <3>2
  <2> QED BY <2>1, <2>2
<1>5. StaleZeroPosted'
  BY <1>1, <1>3, <1>4 DEF StaleZeroPosted, Lanes
<1>6. ZeroLiveFirst'
  <2> SUFFICES ASSUME NEW k \in 1 .. Len(posted) + 1, DividesByZero(posted'[k])
               PROVE  \E j \in 1 .. k : LiveZero(posted'[j])
    BY <1>3 DEF ZeroLiveFirst
  <2>1. CASE k = Len(posted) + 1
    <3>1. PICK l \in Lanes : reqs[l].base_target = 0
      BY <1>2, <1>3, <2>1 DEF DividesByZero
    <3> QED BY <1>4, <2>1, <3>1
  <2>2. CASE k \in 1 .. Len(posted)
    <3>1. PICK j \in 1 .. k : LiveZero(posted[j])
      BY <1>3, <2>2 DEF ZeroLiveFirst
    <3> QED BY <1>3, <2>2, <3>1
  <2> QED BY <1>3, <2>1, <2>2
<1> QED BY <1>5, <1>6

LEMMA StartBatchKill ==
    ASSUME TypeInv, AllLive(Sane), StaleZeroPosted, ZeroLiveFirst,
           ~crashed, NEW v \in Validators, StartBatch(v)
    PROVE  DeathExplained'
<1>t. TypeOK
  BY DEF TypeInv
<1>1. posted \in Seq(Batch) /\ posted # <<>> /\ posted' = Tail(posted)
  BY <1>t DEF StartBatch, TypeOK
<1>2. /\ Len(posted) \in Nat /\ Len(posted) > 0 /\ DOMAIN posted = 1 .. Len(posted)
      /\ Len(posted') = Len(posted) - 1 /\ DOMAIN posted' = 1 .. Len(posted) - 1
      /\ \A k \in 1 .. Len(posted) - 1 : posted'[k] = posted[k + 1]
      /\ Head(posted) = posted[1] /\ Head(posted) \in Batch
  BY <1>1, HeadTailProperties, LenProperties, EmptySeq
<1>3. CASE ~crashed'
  <2>1. ~DividesByZero(posted[1])
    BY <1>2, <1>3 DEF StartBatch
  <2>2. ~LiveZero(posted[1])
    <3>1. posted[1].pending \in 0 .. PARALLEL_VALIDATIONS
      BY <1>2 DEF Batch
    <3> QED BY <2>1, <3>1, ConstantsAssumption DEF LiveZero, DividesByZero, Lanes
  <2>3. \A k \in 1 .. Len(posted) : \A j \in 1 .. k : LiveZero(posted[j]) =>
           /\ j - 1 \in 1 .. k - 1 /\ LiveZero(posted'[j - 1])
    <3> SUFFICES ASSUME NEW k \in 1 .. Len(posted), NEW j \in 1 .. k,
                        LiveZero(posted[j])
                 PROVE  j - 1 \in 1 .. k - 1 /\ LiveZero(posted'[j - 1])
      OBVIOUS
    <3>1. j # 1
      BY <2>2
    <3>2. j - 1 \in 1 .. k - 1 /\ j - 1 \in 1 .. Len(posted) - 1 /\ (j - 1) + 1 = j
      BY <1>2, <3>1
    <3> QED BY <1>2, <3>2
  <2>4. StaleZeroPosted'
    <3> SUFFICES ASSUME NEW l \in Lanes, pending <= l, reqs[l].base_target = 0
                 PROVE  \E k \in DOMAIN posted' : LiveZero(posted'[k])
      BY DEF StaleZeroPosted, StartBatch, distVars, Lanes
    <3>1. PICK k \in 1 .. Len(posted) : LiveZero(posted[k])
      BY <1>2 DEF StaleZeroPosted
    <3>2. k \in 1 .. k /\ k - 1 \in 1 .. k - 1 /\ LiveZero(posted'[k - 1])
      BY <2>3, <3>1
    <3>3. k - 1 \in 1 .. Len(posted) - 1
      BY <1>2, <3>2
    <3> QED BY <1>2, <3>2, <3>3
  <2>5. ZeroLiveFirst'
    <3> SUFFICES ASSUME NEW k \in 1 .. Len(posted) - 1, DividesByZero(posted'[k])
                 PROVE  \E j \in 1 .. k : LiveZero(posted'[j])
      BY <1>2 DEF ZeroLiveFirst
    <3>1. k + 1 \in 1 .. Len(posted) /\ (k + 1) - 1 = k
      BY <1>2
    <3>2. DividesByZero(posted[k + 1])
      BY <1>2
    <3>3. PICK j \in 1 .. k + 1 : LiveZero(posted[j])
      BY <1>2, <3>1, <3>2 DEF ZeroLiveFirst
    <3>4. j - 1 \in 1 .. k /\ LiveZero(posted'[j - 1])
      BY <2>3, <3>1, <3>3
    <3> QED BY <3>4
  <2>6. OnlyZeroBaseTargetsKill'
    BY <1>3 DEF OnlyZeroBaseTargetsKill
  <2> QED BY <2>4, <2>5, <2>6, Zenon DEF DeathExplained
<1>4. CASE crashed'
  <2>1. /\ pc'[v] = "crashed" /\ job'[v] = posted[1]
        /\ DividesByZero(posted[1]) \/ MayReadWild(posted[1])
    BY <1>t, <1>2, <1>4 DEF StartBatch, Goto, TypeOK
  <2> SUFFICES OnlyZeroBaseTargetsKill'
    BY <1>4, Zenon DEF DeathExplained
  <2>2. CASE MayReadWild(posted[1]) /\ ~DividesByZero(posted[1])
    <3>1. /\ \E l \in Lanes : job'[v].creqs[l].id = NoRequest
          /\ ~\E l \in Lanes : job'[v].creqs[l].base_target = 0
      BY <2>1, <2>2 DEF MayReadWild, DividesByZero
    <3>2. \E w \in Validators :
             /\ pc'[w] = "crashed"
             /\ \E l \in Lanes : job'[w].creqs[l].id = NoRequest
             /\ ~\E l \in Lanes : job'[w].creqs[l].base_target = 0
      BY <2>1, <3>1
    <3> QED BY <3>2 DEF OnlyZeroBaseTargetsKill, MayReadWild, DividesByZero, Lanes
  <2>3. CASE DividesByZero(posted[1])
    <3>1. 1 \in 1 .. Len(posted) /\ 1 .. 1 = {1}
      BY <1>2
    <3>2. LiveZero(posted[1])
      BY <1>2, <2>3, <3>1 DEF ZeroLiveFirst
    <3>3. PICK m \in 0 .. posted[1].pending - 1 : posted[1].creqs[m].base_target = 0
      BY <3>2 DEF LiveZero
    <3>4. BaseTarget(posted[1].creqs[m].height) = 0
      BY <1>2, <3>1, <3>3 DEF AllLive, LiveIn, Sane
    <3>5. \E l \in 0 .. job'[v].pending - 1 : BaseTarget(job'[v].creqs[l].height) = 0
      BY <2>1, <3>3, <3>4
    <3>6. \E w \in Validators :
             /\ pc'[w] = "crashed"
             /\ \E l \in 0 .. job'[w].pending - 1 :
                   BaseTarget(job'[w].creqs[l].height) = 0
      BY <2>1, <3>5
    <3> QED BY <3>6 DEF OnlyZeroBaseTargetsKill
  <2> QED BY <2>1, <2>2, <2>3
<1> QED BY <1>3, <1>4

LEMMA StepKillInv == KillInv /\ [Next]_vars => KillInv'
<1> SUFFICES ASSUME KillInv, [Next]_vars PROVE KillInv'
  OBVIOUS
<1>t. TypeInv /\ TypeInv' /\ TypeOK
  BY StepTypeInv DEF KillInv, TypeInv
<1>1. AllLive(Sane)'
  <2>1. PICK S : S = Sane
    OBVIOUS
  <2>2. AllLive(S)'
    BY <1>t, <2>1, SaneBuilt, LiveStep DEF KillInv
  <2> QED BY <2>1, <2>2 DEF AllLive, LiveIn, Sane
<1>2. current_block_'.base_target = BaseTarget(current_block_'.height)
  BY SaneBuilt
<1>3. ASSUME UNCHANGED <<posted, reqs, pending, crashed>>, ~crashed
      PROVE  DeathExplained'
  <2>1. StaleZeroPosted /\ ZeroLiveFirst
    BY <1>3, Zenon DEF KillInv, DeathExplained
  <2>2. StaleZeroPosted' /\ ZeroLiveFirst'
    BY <1>3, <2>1 DEF StaleZeroPosted, ZeroLiveFirst, DividesByZero, Lanes
  <2>3. ~crashed'
    BY <1>3, Zenon
  <2>4. OnlyZeroBaseTargetsKill'
    BY <2>3, Zenon DEF OnlyZeroBaseTargetsKill
  <2> QED BY <2>2, <2>4, Zenon DEF DeathExplained
<1>4. CASE UNCHANGED vars
  <2>1. UNCHANGED <<posted, reqs, pending, crashed, pc, job>>
    BY <1>4 DEF vars, distVars, validVars
  <2>2. /\ StaleZeroPosted' = StaleZeroPosted
        /\ ZeroLiveFirst' = ZeroLiveFirst
        /\ OnlyZeroBaseTargetsKill' = OnlyZeroBaseTargetsKill
    BY <2>1 DEF StaleZeroPosted, ZeroLiveFirst, OnlyZeroBaseTargetsKill,
                DividesByZero, MayReadWild, Lanes
  <2>3. crashed' = crashed
    BY <2>1
  <2>4. DeathExplained'
    BY <2>2, <2>3, Zenon DEF KillInv, DeathExplained
  <2> QED BY <1>1, <1>2, <1>t, <2>4 DEF KillInv
<1>5. CASE Next
  <2>0. ~crashed
    BY <1>5 DEF Next
  <2>1. StaleZeroPosted /\ ZeroLiveFirst /\ AllLive(Sane)
    BY <2>0, Zenon DEF KillInv, DeathExplained
  <2>2. ASSUME \/ RefreshBlock \/ PollEmpty
               \/ \E r \in Requests : RejectUnknownAccount(r) \/ BuildRequest(r)
               \/ \E c \in built : EnqueReq(c)
        PROVE  DeathExplained'
    <3>1. UNCHANGED <<posted, reqs, pending, crashed>>
      BY <2>2 DEF RefreshBlock, PollEmpty, RejectUnknownAccount, BuildRequest,
                  EnqueReq, distVars
    <3> QED BY <1>3, <2>0, <3>1, Zenon
  <2>3. ASSUME PostBatch PROVE DeathExplained'
    <3>1. StaleZeroPosted' /\ ZeroLiveFirst'
      BY <1>t, <2>1, <2>3, PostBatchKill
    <3>2. ~crashed'
      BY <2>0, <2>3, Zenon DEF PostBatch
    <3>3. OnlyZeroBaseTargetsKill'
      BY <3>2, Zenon DEF OnlyZeroBaseTargetsKill
    <3> QED BY <3>1, <3>3, Zenon DEF DeathExplained
  <2>4. ASSUME TryDequeue PROVE DeathExplained'
    <3>1. PICK c \in q_ : reqs' = [reqs EXCEPT ![pending] = c]
      BY <2>4 DEF TryDequeue
    <3>2. pending' = pending + 1 /\ pending \in Lanes /\ posted' = posted
      BY <2>4, <1>t, ConstantsAssumption DEF TypeOK, TryDequeue, BatchReady, Lanes
    <3>3. StaleZeroPosted'
      <4> SUFFICES ASSUME NEW l \in Lanes, pending + 1 <= l, reqs'[l].base_target = 0
                   PROVE  \E k \in DOMAIN posted : LiveZero(posted[k])
        BY <3>2 DEF StaleZeroPosted, Lanes
      <4>1. pending <= l /\ l # pending
        BY <3>2, ConstantsAssumption DEF Lanes
      <4>2. reqs'[l] = reqs[l]
        BY <1>t, <3>1, <4>1 DEF TypeOK
      <4> QED BY <2>1, <4>1, <4>2 DEF StaleZeroPosted
    <3>4. ZeroLiveFirst'
      BY <2>1, <3>2 DEF ZeroLiveFirst, DividesByZero, Lanes
    <3>5. ~crashed'
      BY <2>0, <2>4, Zenon DEF TryDequeue
    <3>6. OnlyZeroBaseTargetsKill'
      BY <3>5, Zenon DEF OnlyZeroBaseTargetsKill
    <3> QED BY <3>3, <3>4, <3>6, Zenon DEF DeathExplained
  <2>5. ASSUME NEW v \in Validators, StartBatch(v) PROVE DeathExplained'
    BY <1>t, <2>0, <2>1, <2>5, StartBatchKill
  <2>6. ASSUME NEW v \in Validators, Validate(v) PROVE DeathExplained'
    BY <1>3, <1>t, <2>0, <2>6, ValidateKeepsBatches
  <2>7. DeathExplained'
    BY <1>5, <2>2, <2>3, <2>4, <2>5, <2>6 DEF Next, Distribute
  <2> QED BY <1>1, <1>2, <1>t, <2>7 DEF KillInv
<1> QED BY <1>4, <1>5

\* Of a division by zero the process only dies in a batch with a new request for
\* a block whose base target the wallet gave as zero, or for no block; otherwise
\* only of a lane that never held a request (validate_deadlines).
THEOREM ZeroBaseTargetsKill == Spec => []OnlyZeroBaseTargetsKill
<1>1. Spec => []KillInv
  BY InitKillInv, StepKillInv, PTL DEF Spec
<1>2. KillInv => OnlyZeroBaseTargetsKill
  BY DEF KillInv, DeathExplained
<1> QED BY <1>1, <1>2, PTL

-----------------------------------------------------------------------------
(* The one place of a request.  NothingLostOrDuplicated counts the places  *)
(* in a set; here the place is named, by its kind and its indices, and a   *)
(* step moves it.                                                          *)

IsBuilt(r, c)     == c \in built /\ c.id = r
IsQueued(r, c)    == c \in q_ /\ c.id = r
IsPacked(r, l)    == l \in Lanes /\ l < pending /\ reqs[l].id = r
IsPosted(r, k, l) == /\ k \in 1 .. Len(posted) /\ l \in Lanes
                     /\ l < posted[k].pending /\ posted[k].creqs[l].id = r
InJob(r, v, l)    == /\ v \in Validators /\ l \in Lanes
                     /\ lane[v] <= l /\ l < job[v].pending
                     /\ job[v].creqs[l].id = r
IsAnswered(r, i)  == i \in 1 .. Len(answers[r])
IsDropped(r)      == r \in dropped

\* Request r is at this place and at no other; at none if kind is "none".
OnlyAt(r, kind, a, b) ==
    /\ \A c : IsBuilt(r, c) <=> kind = "built" /\ c = a
    /\ \A c : IsQueued(r, c) <=> kind = "q_" /\ c = a
    /\ \A l : IsPacked(r, l) <=> kind = "reqs" /\ l = a
    /\ \A k, l : IsPosted(r, k, l) <=> kind = "posted" /\ k = a /\ l = b
    /\ \A v, l : InJob(r, v, l) <=> kind = "job" /\ v = a /\ l = b
    /\ \A i : IsAnswered(r, i) <=> kind = "answer" /\ i = a
    /\ IsDropped(r) <=> kind = "dropped"

Kinds == {"built", "q_", "reqs", "posted", "job", "answer", "dropped"}

OnePlace(r) ==
    /\ r \notin submitted => OnlyAt(r, "none", 0, 0)
    /\ r \in submitted => \E kind \in Kinds : \E a, b : OnlyAt(r, kind, a, b)

\* A validator without work has no batch, and one that starts is at lane 0.
PlaceInv ==
    /\ TypeInv
    /\ \A v \in Validators : pc[v] = "idle" => job[v] = NoBatch
    /\ \A r \in Requests : OnePlace(r)

LEMMA InitPlaceInv == Init => PlaceInv
<1> SUFFICES ASSUME Init PROVE PlaceInv
  OBVIOUS
<1>1. ASSUME NEW r \in Requests PROVE OnlyAt(r, "none", 0, 0)
  <2>1. /\ \A c : ~IsBuilt(r, c) /\ ~IsQueued(r, c)
        /\ \A l : ~IsPacked(r, l)
    BY DEF Init, IsBuilt, IsQueued, IsPacked, Lanes
  <2>2. \A k, l : ~IsPosted(r, k, l)
    BY DEF Init, IsPosted
  <2>3. \A v, l : ~InJob(r, v, l)
    BY DEF Init, InJob, NoBatch, Lanes
  <2>4. (\A i : ~IsAnswered(r, i)) /\ ~IsDropped(r)
    BY DEF Init, IsAnswered, IsDropped
  <2> QED BY <2>1, <2>2, <2>3, <2>4 DEF OnlyAt
<1>2. \A r \in Requests : OnePlace(r)
  BY <1>1 DEF Init, OnePlace
<1> QED BY <1>2, InitTypeInv DEF Init, PlaceInv

\* Where nothing about r changes, its place does not.
LEMMA SamePlace ==
    ASSUME NEW r, OnePlace(r), r \in submitted' <=> r \in submitted,
           \A c : IsBuilt(r, c)' <=> IsBuilt(r, c),
           \A c : IsQueued(r, c)' <=> IsQueued(r, c),
           \A l : IsPacked(r, l)' <=> IsPacked(r, l),
           \A k, l : IsPosted(r, k, l)' <=> IsPosted(r, k, l),
           \A v, l : InJob(r, v, l)' <=> InJob(r, v, l),
           \A i : IsAnswered(r, i)' <=> IsAnswered(r, i),
           IsDropped(r)' <=> IsDropped(r)
    PROVE  OnePlace(r)'
<1>1. ASSUME NEW kind, NEW a, NEW b, OnlyAt(r, kind, a, b)
      PROVE  OnlyAt(r, kind, a, b)'
  BY <1>1 DEF OnlyAt
<1>2. CASE r \notin submitted
  BY <1>1, <1>2 DEF OnePlace
<1>3. CASE r \in submitted
  <2>1. PICK kind \in Kinds : \E a, b : OnlyAt(r, kind, a, b)
    BY <1>3 DEF OnePlace
  <2>2. PICK a, b : OnlyAt(r, kind, a, b)
    BY <2>1
  <2>3. OnlyAt(r, kind, a, b)'
    BY <1>1, <2>2
  <2> QED BY <1>3, <2>3 DEF OnePlace, Kinds
<1> QED BY <1>2, <1>3

\* Where a request is that is in a given place.
LEMMA PlaceIs ==
    ASSUME NEW r, OnePlace(r)
    PROVE  /\ \A c : IsBuilt(r, c) => OnlyAt(r, "built", c, 0)
           /\ \A c : IsQueued(r, c) => OnlyAt(r, "q_", c, 0)
           /\ \A v, l : InJob(r, v, l) => OnlyAt(r, "job", v, l)
<1>1. CASE r \notin submitted
  BY <1>1 DEF OnePlace, OnlyAt
<1>2. CASE r \in submitted
  <2>1. PICK kind \in Kinds : \E a, b : OnlyAt(r, kind, a, b)
    BY <1>2 DEF OnePlace
  <2>2. PICK a, b : OnlyAt(r, kind, a, b)
    BY <2>1
  <2> QED BY <2>2 DEF OnlyAt
<1> QED BY <1>1, <1>2

LEMMA AnswerCounted ==
    ASSUME TypeOK, NEW r \in Requests, NEW s \in {"success", "1004", "1008"},
           NEW d \in Deadlines, NEW h \in Heights, WriteAnswer(r, s, d, h)
    PROVE  /\ Len(answers[r]) \in Nat /\ Len(answers'[r]) = Len(answers[r]) + 1
           /\ \A t \in Requests \ {r} : answers'[t] = answers[t]
<1> DEFINE a == [status |-> s, deadline |-> d, height |-> h]
<1>1. a \in Answer /\ answers[r] \in Seq(Answer)
  BY DEF Answer, TypeOK
<1>2. answers' = [answers EXCEPT ![r] = Append(@, a)]
  BY DEF WriteAnswer
<1> HIDE DEF a
<1> QED BY <1>1, <1>2, AppendProperties, LenProperties DEF TypeOK

LEMMA SessionStepPlace ==
    ASSUME PlaceInv, NEW r \in Requests,
           \/ RefreshBlock \/ PollEmpty
           \/ \E s \in Requests : RejectUnknownAccount(s) \/ BuildRequest(s)
           \/ \E c \in built : EnqueReq(c)
    PROVE  OnePlace(r)'
<1>t. TypeOK /\ OnePlace(r)
  BY DEF PlaceInv, TypeInv
<1> USE DEF distVars, validVars, historyVars
<1>1. CASE RefreshBlock \/ PollEmpty
  <2>1. UNCHANGED <<built, q_, reqs, pending, posted, job, lane, answers, submitted, dropped>>
    BY <1>1 DEF RefreshBlock, PollEmpty
  <2> QED
    BY <1>t, <2>1, SamePlace
       DEF IsBuilt, IsQueued, IsPacked, IsPosted, InJob, IsAnswered, IsDropped,
           Lanes
<1>2. ASSUME NEW s \in Requests, RejectUnknownAccount(s) PROVE OnePlace(r)'
  <2>1. /\ UNCHANGED <<built, q_, reqs, pending, posted, job, lane, dropped>>
        /\ submitted' = submitted \cup {s} /\ s \notin submitted
    BY <1>2 DEF RejectUnknownAccount
  <2>2. 0 \in Deadlines /\ 0 \in Heights /\ WriteAnswer(s, "1004", 0, 0)
    BY <1>2, ConstantsAssumption DEF RejectUnknownAccount, Deadlines, Heights
  <2>3. /\ Len(answers[s]) \in Nat /\ Len(answers'[s]) = Len(answers[s]) + 1
        /\ \A t \in Requests \ {s} : answers'[t] = answers[t]
    BY <1>t, <2>2, AnswerCounted
  <2>4. /\ \A c : IsBuilt(r, c)' <=> IsBuilt(r, c)
        /\ \A c : IsQueued(r, c)' <=> IsQueued(r, c)
        /\ \A l : IsPacked(r, l)' <=> IsPacked(r, l)
        /\ \A k, l : IsPosted(r, k, l)' <=> IsPosted(r, k, l)
        /\ \A v, l : InJob(r, v, l)' <=> InJob(r, v, l)
        /\ IsDropped(r)' <=> IsDropped(r)
    BY <2>1 DEF IsBuilt, IsQueued, IsPacked, IsPosted, InJob, IsDropped, Lanes
  <2>5. CASE r = s
    <3>1. OnlyAt(r, "none", 0, 0)
      BY <1>t, <2>1, <2>5 DEF OnePlace
    <3>2. Len(answers[r]) = 0
      <4>1. ~IsAnswered(r, 1)
        BY <3>1 DEF OnlyAt
      <4> QED BY <2>3, <2>5, <4>1 DEF IsAnswered
    <3>3. \A i : IsAnswered(r, i)' <=> i = 1
      <4>1. Len(answers'[r]) = 1 /\ 1 .. 1 = {1}
        BY <2>3, <2>5, <3>2
      <4> QED BY <4>1 DEF IsAnswered
    <3>4. OnlyAt(r, "answer", 1, 0)'
      BY <2>4, <3>1, <3>3 DEF OnlyAt
    <3> QED BY <2>1, <2>5, <3>4 DEF OnePlace, Kinds
  <2>6. CASE r # s
    BY <1>t, <2>1, <2>3, <2>4, <2>6, SamePlace DEF IsAnswered
  <2> QED BY <2>5, <2>6
<1>3. ASSUME NEW s \in Requests, BuildRequest(s) PROVE OnePlace(r)'
  <2>0. PICK n : n = [id |-> s, height |-> current_block_.height,
                      base_target |-> current_block_.base_target]
    OBVIOUS
  <2>1. /\ UNCHANGED <<q_, reqs, pending, posted, job, lane, answers, dropped>>
        /\ submitted' = submitted \cup {s} /\ s \notin submitted
        /\ built' = built \cup {n} /\ n.id = s
    BY <1>3, <2>0 DEF BuildRequest
  <2>2. /\ \A c : IsQueued(r, c)' <=> IsQueued(r, c)
        /\ \A l : IsPacked(r, l)' <=> IsPacked(r, l)
        /\ \A k, l : IsPosted(r, k, l)' <=> IsPosted(r, k, l)
        /\ \A v, l : InJob(r, v, l)' <=> InJob(r, v, l)
        /\ \A i : IsAnswered(r, i)' <=> IsAnswered(r, i)
        /\ IsDropped(r)' <=> IsDropped(r)
    BY <2>1 DEF IsQueued, IsPacked, IsPosted, InJob, IsAnswered, IsDropped, Lanes
  <2>3. \A c : IsBuilt(r, c)' <=> IsBuilt(r, c) \/ (c = n /\ r = s)
    BY <2>1 DEF IsBuilt
  <2>4. CASE r = s
    <3>1. OnlyAt(r, "none", 0, 0)
      BY <1>t, <2>1, <2>4 DEF OnePlace
    <3>2. OnlyAt(r, "built", n, 0)'
      BY <2>2, <2>3, <2>4, <3>1 DEF OnlyAt
    <3> QED BY <2>1, <2>4, <3>2 DEF OnePlace, Kinds
  <2>5. CASE r # s
    BY <1>t, <2>1, <2>2, <2>3, <2>5, SamePlace
  <2> QED BY <2>4, <2>5
<1>4. ASSUME NEW c \in built, EnqueReq(c) PROVE OnePlace(r)'
  <2>1. /\ UNCHANGED <<reqs, pending, posted, job, lane, answers, submitted>>
        /\ built' = built \ {c}
    BY <1>4 DEF EnqueReq
  <2>2. /\ \A l : IsPacked(r, l)' <=> IsPacked(r, l)
        /\ \A k, l : IsPosted(r, k, l)' <=> IsPosted(r, k, l)
        /\ \A v, l : InJob(r, v, l)' <=> InJob(r, v, l)
        /\ \A i : IsAnswered(r, i)' <=> IsAnswered(r, i)
    BY <2>1 DEF IsPacked, IsPosted, InJob, IsAnswered, Lanes
  <2>3. \A x : IsBuilt(r, x)' <=> IsBuilt(r, x) /\ x # c
    BY <2>1 DEF IsBuilt
  <2>4. \/ /\ \A x : IsQueued(r, x)' <=> IsQueued(r, x) \/ (x = c /\ c.id = r)
           /\ IsDropped(r)' <=> IsDropped(r)
        \/ /\ \A x : IsQueued(r, x)' <=> IsQueued(r, x)
           /\ IsDropped(r)' <=> IsDropped(r) \/ c.id = r
    <3>1. CASE q_' = q_ \cup {c} /\ UNCHANGED dropped
      BY <3>1 DEF IsQueued, IsDropped
    <3>2. CASE dropped' = dropped \cup {c.id} /\ UNCHANGED q_
      BY <3>2 DEF IsQueued, IsDropped
    <3> QED BY <1>4, <3>1, <3>2 DEF EnqueReq
  <2>5. CASE c.id = r
    <3>1. OnlyAt(r, "built", c, 0)
      BY <1>t, <2>5, PlaceIs DEF IsBuilt
    <3>2. r \in submitted
      BY <1>t, <3>1 DEF OnePlace, OnlyAt
    <3>3. OnlyAt(r, "q_", c, 0)' \/ OnlyAt(r, "dropped", c, 0)'
      BY <2>2, <2>3, <2>4, <2>5, <3>1 DEF OnlyAt
    <3> QED BY <2>1, <3>2, <3>3 DEF OnePlace, Kinds
  <2>6. CASE c.id # r
    <3>1. \A x : IsBuilt(r, x)' <=> IsBuilt(r, x)
      BY <2>3, <2>6 DEF IsBuilt
    <3>2. /\ \A x : IsQueued(r, x)' <=> IsQueued(r, x)
          /\ IsDropped(r)' <=> IsDropped(r)
      BY <2>4, <2>6
    <3> QED BY <1>t, <2>1, <2>2, <3>1, <3>2, SamePlace
  <2> QED BY <2>5, <2>6
<1> QED BY <1>1, <1>2, <1>3, <1>4

LEMMA TryDequeuePlace ==
    ASSUME PlaceInv, NEW r \in Requests, TryDequeue
    PROVE  OnePlace(r)'
<1>t. TypeOK /\ OnePlace(r)
  BY DEF PlaceInv, TypeInv
<1>1. PICK c \in q_ : q_' = q_ \ {c} /\ reqs' = [reqs EXCEPT ![pending] = c]
  BY DEF TryDequeue
<1>2. /\ UNCHANGED <<built, posted, job, lane, answers, submitted, dropped>>
      /\ pending' = pending + 1 /\ pending \in Lanes
  BY <1>t, ConstantsAssumption
     DEF TryDequeue, TypeOK, BatchReady, Lanes, validVars, historyVars
<1>3. /\ \A x : IsBuilt(r, x)' <=> IsBuilt(r, x)
      /\ \A k, l : IsPosted(r, k, l)' <=> IsPosted(r, k, l)
      /\ \A v, l : InJob(r, v, l)' <=> InJob(r, v, l)
      /\ \A i : IsAnswered(r, i)' <=> IsAnswered(r, i)
      /\ IsDropped(r)' <=> IsDropped(r)
  BY <1>2 DEF IsBuilt, IsPosted, InJob, IsAnswered, IsDropped, Lanes
<1>4. \A x : IsQueued(r, x)' <=> IsQueued(r, x) /\ x # c
  BY <1>1 DEF IsQueued
<1>5. \A l : IsPacked(r, l)' <=> IsPacked(r, l) \/ (l = pending /\ c.id = r)
  <2>1. \A l \in Lanes : l < pending' <=> l < pending \/ l = pending
    BY <1>2, ConstantsAssumption DEF Lanes
  <2>2. \A l \in Lanes : reqs'[l] = IF l = pending THEN c ELSE reqs[l]
    BY <1>t, <1>1, <1>2 DEF TypeOK
  <2>3. ~(pending < pending)
    BY <1>2, ConstantsAssumption DEF Lanes
  <2> QED BY <1>2, <2>1, <2>2, <2>3 DEF IsPacked, Lanes
<1>6. CASE c.id = r
  <2>1. OnlyAt(r, "q_", c, 0)
    BY <1>t, <1>6, PlaceIs DEF IsQueued
  <2>2. r \in submitted
    BY <1>t, <2>1 DEF OnePlace, OnlyAt
  <2>3. PICK n : n = pending
    OBVIOUS
  <2>4. OnlyAt(r, "reqs", n, 0)'
    BY <1>3, <1>4, <1>5, <1>6, <2>1, <2>3 DEF OnlyAt
  <2> QED BY <1>2, <2>2, <2>4 DEF OnePlace, Kinds
<1>7. CASE c.id # r
  <2>1. \A x : IsQueued(r, x)' <=> IsQueued(r, x)
    BY <1>4, <1>7 DEF IsQueued
  <2> QED BY <1>t, <1>2, <1>3, <1>5, <1>7, <2>1, SamePlace
<1> QED BY <1>6, <1>7

LEMMA PostBatchPlace ==
    ASSUME PlaceInv, NEW r \in Requests, PostBatch
    PROVE  OnePlace(r)'
<1> DEFINE p == [creqs |-> reqs, pending |-> pending]
<1>t. TypeOK /\ OnePlace(r)
  BY DEF PlaceInv, TypeInv
<1>1. /\ UNCHANGED <<built, q_, reqs, job, lane, answers, submitted, dropped>>
      /\ posted' = Append(posted, p) /\ posted \in Seq(Batch) /\ p \in Batch
      /\ pending' = 0 /\ p.creqs = reqs /\ p.pending = pending
  BY <1>t DEF PostBatch, TypeOK, Batch, validVars, historyVars
<1> HIDE DEF p
<1>2. PICK n \in Nat : n = Len(posted)
  BY <1>1, LenProperties
<1>3. /\ Len(posted') = n + 1 /\ posted'[n + 1] = p
      /\ \A k \in 1 .. n : posted'[k] = posted[k]
  BY <1>1, <1>2, AppendProperties
<1>4. /\ \A c : IsBuilt(r, c)' <=> IsBuilt(r, c)
      /\ \A c : IsQueued(r, c)' <=> IsQueued(r, c)
      /\ \A v, l : InJob(r, v, l)' <=> InJob(r, v, l)
      /\ \A i : IsAnswered(r, i)' <=> IsAnswered(r, i)
      /\ IsDropped(r)' <=> IsDropped(r)
  BY <1>1 DEF IsBuilt, IsQueued, InJob, IsAnswered, IsDropped, Lanes
<1>5. \A l : ~IsPacked(r, l)'
  BY <1>1, ConstantsAssumption DEF IsPacked, Lanes
<1>6. \A k, l : IsPosted(r, k, l)' <=> IsPosted(r, k, l) \/ (k = n + 1 /\ IsPacked(r, l))
  <2>1. \A k : k \in 1 .. n + 1 <=> k \in 1 .. n \/ k = n + 1
    BY <1>2
  <2>2. n + 1 \notin 1 .. n
    BY <1>2
  <2> QED BY <1>1, <1>2, <1>3, <2>1, <2>2 DEF IsPosted, IsPacked, Lanes
<1>7. ASSUME NEW kind, NEW a, NEW b, OnlyAt(r, kind, a, b)
      PROVE  IF kind = "reqs" THEN OnlyAt(r, "posted", n + 1, a)'
                              ELSE OnlyAt(r, kind, a, b)'
  BY <1>4, <1>5, <1>6, <1>7 DEF OnlyAt
<1>8. CASE r \notin submitted
  <2>1. OnlyAt(r, "none", 0, 0)
    BY <1>t, <1>8 DEF OnePlace
  <2>2. OnlyAt(r, "none", 0, 0)'
    BY <1>7, <2>1
  <2> QED BY <1>1, <1>8, <2>2 DEF OnePlace
<1>9. CASE r \in submitted
  <2>1. PICK kind \in Kinds : \E a, b : OnlyAt(r, kind, a, b)
    BY <1>t, <1>9 DEF OnePlace
  <2>2. PICK a, b : OnlyAt(r, kind, a, b)
    BY <2>1
  <2>3. \E x \in Kinds : \E y, z : OnlyAt(r, x, y, z)'
    BY <1>7, <2>2 DEF Kinds
  <2> QED BY <1>1, <1>9, <2>3 DEF OnePlace, Kinds
<1> QED BY <1>8, <1>9

LEMMA StartBatchPlace ==
    ASSUME PlaceInv, NEW r \in Requests, NEW v \in Validators, StartBatch(v)
    PROVE  OnePlace(r)'
<1>t. TypeOK /\ OnePlace(r) /\ job[v] = NoBatch
  BY DEF PlaceInv, TypeInv, StartBatch
<1>1. posted \in Seq(Batch) /\ posted # <<>> /\ posted' = Tail(posted)
  BY <1>t DEF StartBatch, TypeOK
<1>2. PICK n \in Nat : n = Len(posted)
  BY <1>1, LenProperties
<1>3. /\ n > 0 /\ Len(posted') = n - 1 /\ Head(posted) = posted[1]
      /\ \A k \in 1 .. n - 1 : posted'[k] = posted[k + 1]
  BY <1>1, <1>2, HeadTailProperties, EmptySeq
<1>4. /\ UNCHANGED <<built, q_, reqs, pending, answers, submitted, dropped>>
      /\ job' = [job EXCEPT ![v] = posted[1]]
      /\ lane' = [lane EXCEPT ![v] = 0]
  BY <1>3 DEF StartBatch, distVars, historyVars
<1>5. /\ \A c : IsBuilt(r, c)' <=> IsBuilt(r, c)
      /\ \A c : IsQueued(r, c)' <=> IsQueued(r, c)
      /\ \A l : IsPacked(r, l)' <=> IsPacked(r, l)
      /\ \A i : IsAnswered(r, i)' <=> IsAnswered(r, i)
      /\ IsDropped(r)' <=> IsDropped(r)
  BY <1>4 DEF IsBuilt, IsQueued, IsPacked, IsAnswered, IsDropped, Lanes
<1>6. \A k, l : IsPosted(r, k, l)' <=> k \in 1 .. n - 1 /\ IsPosted(r, k + 1, l)
  <2>1. \A k \in 1 .. n - 1 : k + 1 \in 1 .. n
    BY <1>2
  <2> QED BY <1>2, <1>3, <2>1 DEF IsPosted, Lanes
<1>7. \A w, l : InJob(r, w, l)' <=> InJob(r, w, l) \/ (w = v /\ IsPosted(r, 1, l))
  <2>1. \A l : ~InJob(r, v, l)
    BY <1>t, ConstantsAssumption DEF InJob, NoBatch, Lanes
  <2>2. \A l : InJob(r, v, l)' <=> IsPosted(r, 1, l)
    <3>1. job'[v] = posted[1] /\ lane'[v] = 0 /\ 1 \in 1 .. n
      BY <1>t, <1>2, <1>3, <1>4 DEF TypeOK
    <3>2. \A l \in Lanes : 0 <= l
      BY ConstantsAssumption DEF Lanes
    <3> QED BY <1>2, <3>1, <3>2 DEF InJob, IsPosted, Lanes
  <2>3. \A w \in Validators \ {v} : job'[w] = job[w] /\ lane'[w] = lane[w]
    BY <1>t, <1>4 DEF TypeOK
  <2>4. \A w, l : w # v => (InJob(r, w, l)' <=> InJob(r, w, l))
    BY <2>3 DEF InJob, Lanes
  <2> QED BY <2>1, <2>2, <2>4
<1>8. ASSUME NEW kind, NEW a, NEW b, OnlyAt(r, kind, a, b)
      PROVE  IF kind # "posted" THEN OnlyAt(r, kind, a, b)'
             ELSE IF a = 1 THEN OnlyAt(r, "job", v, b)'
             ELSE OnlyAt(r, "posted", a - 1, b)'
  <2>1. CASE kind # "posted"
    BY <1>5, <1>6, <1>7, <1>8, <2>1 DEF OnlyAt
  <2>2. CASE kind = "posted" /\ a = 1
    <3>1. \A k \in 1 .. n - 1 : k + 1 # 1
      BY <1>2
    <3> QED BY <1>5, <1>6, <1>7, <1>8, <2>2, <3>1 DEF OnlyAt
  <2>3. CASE kind = "posted" /\ a # 1
    <3>1. IsPosted(r, a, b)
      BY <1>8, <2>3 DEF OnlyAt
    <3>2. a \in 1 .. n
      BY <1>2, <3>1 DEF IsPosted
    <3>3. \A k : k \in 1 .. n - 1 /\ k + 1 = a <=> k = a - 1
      BY <1>2, <2>3, <3>2
    <3> QED BY <1>5, <1>6, <1>7, <1>8, <2>3, <3>3 DEF OnlyAt
  <2> QED BY <2>1, <2>2, <2>3
<1>9. CASE r \notin submitted
  <2>1. OnlyAt(r, "none", 0, 0)
    BY <1>t, <1>9 DEF OnePlace
  <2>2. OnlyAt(r, "none", 0, 0)'
    BY <1>8, <2>1
  <2> QED BY <1>4, <1>9, <2>2 DEF OnePlace
<1>10. CASE r \in submitted
  <2>1. PICK kind \in Kinds : \E a, b : OnlyAt(r, kind, a, b)
    BY <1>t, <1>10 DEF OnePlace
  <2>2. PICK a, b : OnlyAt(r, kind, a, b)
    BY <2>1
  <2>3. \E x \in Kinds : \E y, z : OnlyAt(r, x, y, z)'
    BY <1>8, <2>2 DEF Kinds
  <2> QED BY <1>4, <1>10, <2>3 DEF OnePlace, Kinds
<1> QED BY <1>9, <1>10

\* The answer takes the request out of its lane.
LEMMA AnswerPlace ==
    ASSUME PlaceInv, NEW r \in Requests, NEW v \in Validators,
           RejectOverLimit(v) \/ WriteOk(v)
    PROVE  OnePlace(r)'
<1>t. TypeInv /\ TypeOK /\ OnePlace(r)
  BY DEF PlaceInv, TypeInv
<1>w. pc[v] \in Working /\ NextLane(v)
  BY DEF RejectOverLimit, WriteOk, Working
<1>1. /\ Req(v).id \in Requests /\ Req(v).height \in Heights
      /\ deadline(v) \in Deadlines
      /\ job[v].pending \in 0 .. PARALLEL_VALIDATIONS
      /\ lane[v] \in 0 .. job[v].pending - 1 /\ lane[v] \in Lanes
  BY <1>t, <1>w, WorkingLane, ConstantsAssumption DEF CalcDeadlineReq, TypeOK
<1>2. PICK s \in Requests : s = Req(v).id
  BY <1>1
<1>3. /\ Len(answers[s]) \in Nat /\ Len(answers'[s]) = Len(answers[s]) + 1
      /\ \A t \in Requests \ {s} : answers'[t] = answers[t]
  <2>1. PICK status \in {"success", "1008"} :
           WriteAnswer(s, status, deadline(v), Req(v).height)
    BY <1>2 DEF RejectOverLimit, WriteOk
  <2> QED BY <1>t, <1>1, <2>1, AnswerCounted
<1>4. UNCHANGED <<built, q_, reqs, pending, posted, submitted, dropped>>
  BY DEF RejectOverLimit, WriteOk, distVars, historyVars
<1>5. /\ \A c : IsBuilt(r, c)' <=> IsBuilt(r, c)
      /\ \A c : IsQueued(r, c)' <=> IsQueued(r, c)
      /\ \A l : IsPacked(r, l)' <=> IsPacked(r, l)
      /\ \A k, l : IsPosted(r, k, l)' <=> IsPosted(r, k, l)
      /\ IsDropped(r)' <=> IsDropped(r)
  BY <1>4 DEF IsBuilt, IsQueued, IsPacked, IsPosted, IsDropped, Lanes
<1>6. \A w, l : InJob(r, w, l)' <=> InJob(r, w, l) /\ ~(w = v /\ l = lane[v])
  <2>1. \A w \in Validators \ {v} : job'[w] = job[w] /\ lane'[w] = lane[w]
    BY <1>t, <1>w, NextLaneKeepsType
  <2>2. \A w, l : w # v => (InJob(r, w, l)' <=> InJob(r, w, l))
    BY <2>1 DEF InJob, Lanes
  <2>3. \A l : InJob(r, v, l)' <=> InJob(r, v, l) /\ l # lane[v]
    <3>1. CASE lane[v] + 1 < job[v].pending
      <4>1. job' = job /\ lane'[v] = lane[v] + 1
        BY <1>t, <1>w, <3>1 DEF NextLane, TypeOK
      <4>2. \A l \in Lanes : lane[v] + 1 <= l <=> lane[v] <= l /\ l # lane[v]
        BY <1>1, ConstantsAssumption DEF Lanes
      <4> QED BY <4>1, <4>2 DEF InJob, Lanes
    <3>2. CASE ~(lane[v] + 1 < job[v].pending)
      <4>1. job'[v] = NoBatch
        BY <1>t, <1>w, <3>2 DEF NextLane, TypeOK
      <4>2. \A l \in Lanes : ~(l < NoBatch.pending)
        BY ConstantsAssumption DEF Lanes, NoBatch
      <4>3. \A l \in Lanes : lane[v] <= l /\ l < job[v].pending => l = lane[v]
        BY <1>1, <3>2, ConstantsAssumption DEF Lanes
      <4> QED BY <4>1, <4>2, <4>3 DEF InJob, Lanes
    <3> QED BY <3>1, <3>2
  <2> QED BY <2>2, <2>3
<1>7. CASE r = s
  <2>1. InJob(r, v, lane[v])
    BY <1>1, <1>2, <1>7 DEF InJob, Req
  <2>2. PICK m : m = lane[v]
    OBVIOUS
  <2>3. OnlyAt(r, "job", v, m)
    BY <1>t, <2>1, <2>2, PlaceIs
  <2>4. r \in submitted
    BY <1>t, <2>3 DEF OnePlace, OnlyAt
  <2>5. Len(answers[r]) = 0
    <3>1. ~IsAnswered(r, 1)
      BY <2>3 DEF OnlyAt
    <3> QED BY <1>3, <1>7, <3>1 DEF IsAnswered
  <2>6. \A i : IsAnswered(r, i)' <=> i = 1
    <3>1. Len(answers'[r]) = 1 /\ 1 .. 1 = {1}
      BY <1>3, <1>7, <2>5
    <3> QED BY <3>1 DEF IsAnswered
  <2>7. OnlyAt(r, "answer", 1, 0)'
    BY <1>5, <1>6, <2>2, <2>3, <2>6 DEF OnlyAt
  <2> QED BY <1>4, <2>4, <2>7 DEF OnePlace, Kinds
<1>8. CASE r # s
  <2>1. \A l : ~(InJob(r, v, l) /\ l = lane[v])
    BY <1>2, <1>8 DEF InJob, Req
  <2>2. \A w, l : InJob(r, w, l)' <=> InJob(r, w, l)
    BY <1>6, <2>1
  <2>3. \A i : IsAnswered(r, i)' <=> IsAnswered(r, i)
    BY <1>3, <1>8 DEF IsAnswered
  <2> QED BY <1>t, <1>4, <1>5, <2>2, <2>3, SamePlace
<1> QED BY <1>7, <1>8

\* A validator that has gone back to the pool has dropped its batch.
LEMMA IdleStep ==
    ASSUME PlaceInv, [Next]_vars
    PROVE  \A v \in Validators : pc'[v] = "idle" => job'[v] = NoBatch
<1>t. TypeInv /\ TypeOK
  BY DEF PlaceInv, TypeInv
<1>1. ASSUME UNCHANGED validVars
      PROVE  \A v \in Validators : pc'[v] = "idle" => job'[v] = NoBatch
  BY <1>1 DEF PlaceInv, validVars
<1>2. CASE \/ RefreshBlock
           \/ \E r \in Requests : RejectUnknownAccount(r) \/ BuildRequest(r)
           \/ \E c \in built : EnqueReq(c)
           \/ Distribute
  BY <1>1, <1>2 DEF RefreshBlock, RejectUnknownAccount, BuildRequest, EnqueReq,
                    Distribute, PostBatch, TryDequeue, PollEmpty
<1>3. ASSUME NEW v \in Validators, StartBatch(v) \/ Validate(v)
      PROVE  \A w \in Validators : pc'[w] = "idle" => job'[w] = NoBatch
  <2>1. \A w \in Validators \ {v} : pc'[w] = pc[w] /\ job'[w] = job[w]
    BY <1>3, <1>t
       DEF TypeOK, Goto, StartBatch, Validate, RejectOverLimit, GetMinerRound,
           TryLock, SkipBusyRound, Compare, SubmitNonce, StoreDeadline, Unlock,
           WriteOk, NextLane
  <2>2. CASE NextLane(v)
    <3>1. pc'[v] = "check" \/ job'[v] = NoBatch
      BY <1>t, <2>2 DEF NextLane, Goto, TypeOK
    <3> QED BY <2>1, <3>1 DEF PlaceInv
  <2>3. CASE ~NextLane(v)
    <3>1. \E label \in {"check", "crashed", "try_lock", "answer", "compare",
                        "submit", "unlock", "store"} : Goto(v, label)
      BY <1>3, <2>3
         DEF StartBatch, Validate, RejectOverLimit, GetMinerRound, TryLock,
             SkipBusyRound, Compare, SubmitNonce, StoreDeadline, Unlock, WriteOk
    <3>2. pc'[v] # "idle"
      BY <1>t, <3>1 DEF Goto, TypeOK
    <3> QED BY <2>1, <3>2 DEF PlaceInv
  <2> QED BY <2>2, <2>3
<1>4. CASE UNCHANGED vars
  BY <1>1, <1>4 DEF vars
<1> QED BY <1>2, <1>3, <1>4 DEF Next

LEMMA StepPlaceInv == PlaceInv /\ [Next]_vars => PlaceInv'
<1> SUFFICES ASSUME PlaceInv, [Next]_vars PROVE PlaceInv'
  OBVIOUS
<1>1. TypeInv'
  BY StepTypeInv DEF PlaceInv
<1>2. ASSUME NEW r \in Requests PROVE OnePlace(r)'
  <2>0. OnePlace(r)
    BY DEF PlaceInv
  <2>1. ASSUME UNCHANGED <<built, q_, reqs, pending, posted, job, lane, answers,
                           submitted, dropped>>
        PROVE  OnePlace(r)'
    BY <2>0, <2>1, SamePlace
       DEF IsBuilt, IsQueued, IsPacked, IsPosted, InJob, IsAnswered, IsDropped,
           Lanes
  <2>2. CASE \/ RefreshBlock \/ PollEmpty
             \/ \E s \in Requests : RejectUnknownAccount(s) \/ BuildRequest(s)
             \/ \E c \in built : EnqueReq(c)
    BY <2>2, SessionStepPlace
  <2>3. CASE PostBatch
    BY <2>3, PostBatchPlace
  <2>4. CASE TryDequeue
    BY <2>4, TryDequeuePlace
  <2>5. ASSUME NEW v \in Validators, StartBatch(v) PROVE OnePlace(r)'
    BY <2>5, StartBatchPlace
  <2>6. ASSUME NEW v \in Validators, Validate(v) PROVE OnePlace(r)'
    <3>1. CASE RejectOverLimit(v) \/ WriteOk(v)
      BY <3>1, AnswerPlace
    <3>2. CASE \/ GetMinerRound(v) \/ TryLock(v) \/ SkipBusyRound(v) \/ Compare(v)
               \/ SubmitNonce(v) \/ StoreDeadline(v) \/ Unlock(v)
      BY <2>1, <3>2
         DEF GetMinerRound, TryLock, SkipBusyRound, Compare, SubmitNonce,
             StoreDeadline, Unlock, distVars, historyVars
    <3> QED BY <2>6, <3>1, <3>2 DEF Validate
  <2>7. CASE UNCHANGED vars
    BY <2>1, <2>7 DEF vars, distVars, validVars, historyVars
  <2> QED BY <2>2, <2>3, <2>4, <2>5, <2>6, <2>7 DEF Next, Distribute
<1>3. (\A v \in Validators : pc[v] = "idle" => job[v] = NoBatch)'
  BY IdleStep
<1> QED BY <1>1, <1>2, <1>3 DEF PlaceInv

\* The set of places that the run counts is the place that is named.
LEMMA PlaceCounted ==
    ASSUME NEW r \in Requests, OnePlace(r)
    PROVE  Cardinality(Places(r)) = IF r \in submitted \ dropped THEN 1 ELSE 0
<1>1. Places(r) =
          {<<"built", c>> : c \in {x \in built : IsBuilt(r, x)}}
          \cup {<<"q_", c>> : c \in {x \in q_ : IsQueued(r, x)}}
          \cup {<<"reqs", l>> : l \in {x \in Lanes : IsPacked(r, x)}}
          \cup {<<"posted", kl>> : kl \in {x \in (1 .. Len(posted)) \X Lanes :
                                              IsPosted(r, x[1], x[2])}}
          \cup {<<"job", vl>> : vl \in {x \in Validators \X Lanes :
                                           InJob(r, x[1], x[2])}}
          \cup {<<"answer", i>> : i \in {x \in 1 .. Len(answers[r]) : IsAnswered(r, x)}}
  BY DEF Places, IsBuilt, IsQueued, IsPacked, IsPosted, InJob, IsAnswered
<1>2. CASE r \notin submitted
  <2>1. OnlyAt(r, "none", 0, 0)
    BY <1>2 DEF OnePlace
  <2>2. Places(r) = {}
    BY <1>1, <2>1 DEF OnlyAt
  <2> QED BY <1>2, <2>2, FS_EmptySet
<1>3. CASE r \in submitted
  <2>1. PICK kind \in Kinds : \E a, b : OnlyAt(r, kind, a, b)
    BY <1>3 DEF OnePlace
  <2>2. PICK a, b : OnlyAt(r, kind, a, b)
    BY <2>1
  <2>3. /\ {x \in built : IsBuilt(r, x)} = IF kind = "built" THEN {a} ELSE {}
        /\ {x \in q_ : IsQueued(r, x)} = IF kind = "q_" THEN {a} ELSE {}
        /\ {x \in Lanes : IsPacked(r, x)} = IF kind = "reqs" THEN {a} ELSE {}
        /\ {x \in 1 .. Len(answers[r]) : IsAnswered(r, x)}
              = IF kind = "answer" THEN {a} ELSE {}
    BY <2>2 DEF OnlyAt, IsBuilt, IsQueued, IsPacked, IsAnswered
  <2>4. {x \in (1 .. Len(posted)) \X Lanes : IsPosted(r, x[1], x[2])}
           = IF kind = "posted" THEN {<<a, b>>} ELSE {}
    <3>1. \A k, l : IsPosted(r, k, l) => k \in 1 .. Len(posted) /\ l \in Lanes
      BY DEF IsPosted
    <3> QED BY <2>2, <3>1 DEF OnlyAt
  <2>5. {x \in Validators \X Lanes : InJob(r, x[1], x[2])}
           = IF kind = "job" THEN {<<a, b>>} ELSE {}
    <3>1. \A v, l : InJob(r, v, l) => v \in Validators /\ l \in Lanes
      BY DEF InJob
    <3> QED BY <2>2, <3>1 DEF OnlyAt
  <2>d. CASE kind = "dropped"
    <3>1. Places(r) = {} /\ r \in dropped
      BY <1>1, <2>2, <2>3, <2>4, <2>5, <2>d DEF OnlyAt, IsDropped
    <3> QED BY <3>1, FS_EmptySet
  <2>6. CASE kind # "dropped"
    <3> SUFFICES \E p : Places(r) = {p}
      <4>1. r \notin dropped
        BY <2>2, <2>6 DEF OnlyAt, IsDropped
      <4> QED BY <1>3, <4>1, FS_Singleton
    <3>1. CASE kind \in {"built", "q_", "reqs", "answer"}
      <4>1. Places(r) = {<<kind, a>>}
        BY <1>1, <2>3, <2>4, <2>5, <3>1
      <4> QED BY <4>1
    <3>2. CASE kind \in {"posted", "job"}
      <4>1. Places(r) = {<<kind, <<a, b>>>>}
        BY <1>1, <2>3, <2>4, <2>5, <3>2
      <4> QED BY <4>1
    <3> QED BY <2>6, <3>1, <3>2 DEF Kinds
  <2> QED BY <2>d, <2>6
<1> QED BY <1>2, <1>3

\* From the session to the answer a request is in exactly one place: neither
\* lost nor duplicated by lanes that are never cleared (the hand-over from
\* process_submit_nonce_req to validate_deadline).
THEOREM NothingLost == Spec => []NothingLostOrDuplicated
<1>1. Spec => []PlaceInv
  BY InitPlaceInv, StepPlaceInv, PTL DEF Spec
<1>2. PlaceInv => NothingLostOrDuplicated
  BY PlaceCounted DEF PlaceInv, NothingLostOrDuplicated
<1> QED BY <1>1, <1>2, PTL

-----------------------------------------------------------------------------
(* The abstract service.  Moving a request from queue to lane to batch to  *)
(* validator is a stutter; PlaceInv makes the request a validator decides  *)
(* the only one of its id that waits, and the rounds' invariants make the  *)
(* comparison with the round one with everything forwarded.                *)

\* What a request does not move through stays as it is.
LEMMA QueuesStay ==
    ASSUME UNCHANGED <<built, q_, reqs, pending, posted>>
    PROVE  InQueues' = InQueues
BY DEF InQueues, LiveFrom

LEMMA WaitingStays ==
    ASSUME InQueues' = InQueues,
           \A w \in Validators : Undecided(w)' = Undecided(w)
    PROVE  Open' = Open
<1>1. Waiting' = Waiting
  BY DEF Waiting
<1> QED BY <1>1 DEF Open, Asked

LEMMA UndecidedStays ==
    ASSUME NEW w \in Validators, UNCHANGED <<job[w], lane[w]>>,
           pc'[w] \in Decided <=> pc[w] \in Decided
    PROVE  Undecided(w)' = Undecided(w) /\ Outcome(w)' = Outcome(w)
BY DEF Undecided, LiveFrom, Outcome, Req, deadline, DeadlineIn

LEMMA SettledStays ==
    ASSUME \A w \in Validators : /\ pc'[w] \in Decided <=> pc[w] \in Decided
                                 /\ pc[w] \in Decided => Outcome(w)' = Outcome(w)
    PROVE  Settled' = Settled
BY DEF Settled

\* A stuttering step of the service.
Unseen == UNCHANGED <<current_block_, start_height, submitted, dropped, forwarded,
                      answers, Open, Settled>>

LEMMA UnseenStutters == Unseen => UNCHANGED Service!vars
BY DEF Unseen, Service!vars

\* The validators keep still.
LEMMA ValidatorsStay ==
    ASSUME UNCHANGED validVars
    PROVE  /\ Settled' = Settled
           /\ \A w \in Validators : Undecided(w)' = Undecided(w)
<1>1. \A w \in Validators : /\ UNCHANGED <<job[w], lane[w]>>
                            /\ pc'[w] \in Decided <=> pc[w] \in Decided
  BY DEF validVars
<1> QED BY <1>1, UndecidedStays, SettledStays


\* Elements of the parts of InQueues.
LEMMA InQueuesIs ==
    \A c : c \in InQueues <=>
        \/ c \in built \/ c \in q_
        \/ \E l \in 0 .. pending - 1 : c = reqs[l]
        \/ \E k \in DOMAIN posted : c \in LiveFrom(posted[k], 0)
BY DEF InQueues, LiveFrom

LEMMA EnqReqStays ==
    ASSUME NEW c \in built, EnqueReq(c), q_' = q_ \cup {c}
    PROVE  InQueues' = InQueues
<1>1. built' \cup q_' = built \cup q_ /\ UNCHANGED <<reqs, pending, posted>>
  BY DEF EnqueReq, distVars
<1>2. \A x : x \in InQueues' <=> x \in InQueues
  BY <1>1 DEF InQueues, LiveFrom
<1> QED BY <1>2

LEMMA TryDequeueStays ==
    ASSUME TypeOK, TryDequeue
    PROVE  InQueues' = InQueues
<1>1. PICK c \in q_ : q_' = q_ \ {c} /\ reqs' = [reqs EXCEPT ![pending] = c]
  BY DEF TryDequeue
<1>2. UNCHANGED <<built, posted>> /\ pending \in Lanes /\ pending' = pending + 1
  BY ConstantsAssumption DEF TryDequeue, TypeOK, BatchReady, Lanes
<1>3. \A l \in 0 .. pending - 1 : l \in Lanes /\ l # pending
  BY <1>2, ConstantsAssumption DEF Lanes
<1>4. \A l : l \in 0 .. pending' - 1 <=> l \in 0 .. pending - 1 \/ l = pending
  BY <1>2, ConstantsAssumption DEF Lanes
<1>5. reqs'[pending] = c /\ \A l \in 0 .. pending - 1 : reqs'[l] = reqs[l]
  BY <1>1, <1>2, <1>3 DEF TypeOK
<1>6. \A x : (\E l \in 0 .. pending' - 1 : x = reqs'[l])
               <=> x = c \/ \E l \in 0 .. pending - 1 : x = reqs[l]
  BY <1>4, <1>5
<1>7. \A x : x \in InQueues' <=> x \in InQueues
  <2> SUFFICES ASSUME NEW x PROVE x \in InQueues' <=> x \in InQueues
    OBVIOUS
  <2>1. x \in InQueues' <=>
          \/ x \in built' \/ x \in q_'
          \/ \E l \in 0 .. pending' - 1 : x = reqs'[l]
          \/ \E k \in DOMAIN posted' : x \in LiveFrom(posted'[k], 0)
    BY DEF InQueues, LiveFrom
  <2> QED BY <1>1, <1>2, <1>6, <2>1, InQueuesIs
<1> QED BY <1>7

LEMMA PostBatchStays ==
    ASSUME TypeOK, PostBatch
    PROVE  InQueues' = InQueues
<1> DEFINE p == [creqs |-> reqs, pending |-> pending]
<1>1. /\ UNCHANGED <<built, q_, reqs>> /\ pending' = 0
      /\ posted' = Append(posted, p) /\ posted \in Seq(Batch) /\ p \in Batch
  BY DEF PostBatch, TypeOK, Batch
<1>2. LiveFrom(p, 0) = {reqs[l] : l \in 0 .. pending - 1}
  BY DEF LiveFrom
<1> HIDE DEF p
<1>3. PICK n \in Nat : n = Len(posted)
  BY <1>1, LenProperties
<1>4. /\ DOMAIN posted = 1 .. n /\ DOMAIN posted' = 1 .. n + 1
      /\ posted'[n + 1] = p /\ \A k \in 1 .. n : posted'[k] = posted[k]
  BY <1>1, <1>3, AppendProperties, LenProperties
<1>5. \A k : k \in 1 .. n + 1 <=> k \in 1 .. n \/ k = n + 1
  BY <1>3
<1>6. \A x : (\E k \in DOMAIN posted' : x \in LiveFrom(posted'[k], 0))
               <=> \/ \E k \in DOMAIN posted : x \in LiveFrom(posted[k], 0)
                   \/ x \in LiveFrom(p, 0)
  BY <1>4, <1>5
<1>7. \A l : l \notin 0 .. pending' - 1
  BY <1>1
<1>8. \A x : x \in InQueues' <=> x \in InQueues
  <2> SUFFICES ASSUME NEW x PROVE x \in InQueues' <=> x \in InQueues
    OBVIOUS
  <2>1. x \in InQueues' <=>
          \/ x \in built' \/ x \in q_'
          \/ \E l \in 0 .. pending' - 1 : x = reqs'[l]
          \/ \E k \in DOMAIN posted' : x \in LiveFrom(posted'[k], 0)
    BY DEF InQueues, LiveFrom
  <2> QED BY <1>1, <1>2, <1>6, <1>7, <2>1, InQueuesIs
<1> QED BY <1>8

LEMMA WaitingIs ==
    \A c : c \in Waiting <=>
        c \in InQueues \/ \E w \in Validators : c \in Undecided(w)
BY DEF Waiting

\* A request that is built waits nowhere else.
LEMMA BuiltOnly ==
    ASSUME TypeOK, NEW c, NEW r, OnlyAt(r, "built", c, 0)
    PROVE  /\ \A x \in built : x.id = r => x = c
           /\ \A x \in q_ : x.id # r
           /\ \A l \in 0 .. pending - 1 : reqs[l].id # r
           /\ \A k \in DOMAIN posted : \A x \in LiveFrom(posted[k], 0) : x.id # r
           /\ \A w \in Validators : \A x \in Undecided(w) : x.id # r
<1>1. (\A x \in built : x.id = r => x = c) /\ (\A x \in q_ : x.id # r)
  BY DEF OnlyAt, IsBuilt, IsQueued
<1>2. ASSUME NEW l \in 0 .. pending - 1 PROVE reqs[l].id # r
  <2>1. l \in Lanes /\ l < pending
    BY ConstantsAssumption DEF TypeOK, Lanes
  <2> QED BY <2>1 DEF OnlyAt, IsPacked
<1>3. ASSUME NEW k \in DOMAIN posted, NEW x \in LiveFrom(posted[k], 0)
      PROVE  x.id # r
  <2>1. PICK l \in 0 .. posted[k].pending - 1 : x = posted[k].creqs[l]
    BY DEF LiveFrom
  <2>2. k \in 1 .. Len(posted) /\ posted[k] \in Batch
    BY LenProperties DEF TypeOK
  <2>3. l \in Lanes /\ l < posted[k].pending
    BY <2>2, ConstantsAssumption DEF Batch, Lanes
  <2> QED BY <2>1, <2>2, <2>3 DEF OnlyAt, IsPosted
<1>4. ASSUME NEW w \in Validators, NEW x \in Undecided(w) PROVE x.id # r
  <2>1. lane[w] \in Nat /\ job[w].pending \in 0 .. PARALLEL_VALIDATIONS
    BY ConstantsAssumption DEF TypeOK, Batch, Lanes
  <2>2. PICK f \in {lane[w], lane[w] + 1} : x \in LiveFrom(job[w], f)
    BY DEF Undecided
  <2>3. PICK k \in f .. job[w].pending - 1 : x = job[w].creqs[k]
    BY <2>2 DEF LiveFrom
  <2>4. k \in Lanes /\ lane[w] <= k /\ k < job[w].pending
    BY <2>1, <2>2, <2>3, ConstantsAssumption DEF Lanes
  <2> QED BY <2>3, <2>4 DEF OnlyAt, InJob
<1> QED BY <1>1, <1>2, <1>3, <1>4

\* Losing a request takes it, and nothing else, out of the open ones.
LEMMA DropOpen ==
    ASSUME PlaceInv, NEW c \in built, built' = built \ {c},
           UNCHANGED <<q_, reqs, pending, posted, validVars>>
    PROVE  Open' = Open \ {Asked(c)} /\ Asked(c) \in Open
<1>1. PICK r : r = c.id
  OBVIOUS
<1>2. TypeOK /\ r \in Requests
  BY <1>1 DEF PlaceInv, TypeInv, LiveLanes, Pooled
<1>3. OnlyAt(r, "built", c, 0)
  BY <1>1, <1>2, PlaceIs DEF PlaceInv, IsBuilt
<1>4. /\ \A x \in built : x.id = r => x = c
      /\ \A x \in q_ : x.id # r
      /\ \A l \in 0 .. pending - 1 : reqs[l].id # r
      /\ \A k \in DOMAIN posted : \A x \in LiveFrom(posted[k], 0) : x.id # r
      /\ \A w \in Validators : \A x \in Undecided(w) : x.id # r
  BY <1>2, <1>3, BuiltOnly
<1>5. \A x \in InQueues : x.id = r => x = c
  BY <1>4, InQueuesIs
<1>6. \A x : x \in InQueues' <=> x \in InQueues /\ x # c
  <2> SUFFICES ASSUME NEW x PROVE x \in InQueues' <=> x \in InQueues /\ x # c
    OBVIOUS
  <2>1. x \in InQueues' <=>
          \/ x \in built' \/ x \in q_
          \/ \E l \in 0 .. pending - 1 : x = reqs[l]
          \/ \E k \in DOMAIN posted : x \in LiveFrom(posted[k], 0)
    BY DEF InQueues, LiveFrom
  <2> QED BY <1>1, <1>4, <2>1, InQueuesIs
<1>7. \A w \in Validators : Undecided(w)' = Undecided(w)
  BY ValidatorsStay
<1>8. \A x : x \in Waiting' <=>
        x \in InQueues' \/ \E w \in Validators : x \in Undecided(w)'
  BY DEF Waiting
<1>9. \A x : x \in Waiting' <=> x \in Waiting /\ x # c
  BY <1>1, <1>4, <1>6, <1>7, <1>8, WaitingIs
<1>10. Open' = {Asked(x) : x \in Waiting'}
  BY DEF Open, Asked
<1>11. c \in Waiting /\ \A x \in Waiting : x # c => Asked(x) # Asked(c)
  BY <1>1, <1>4, <1>5, WaitingIs, InQueuesIs DEF Asked
<1> QED BY <1>9, <1>10, <1>11 DEF Open

LEMMA StartBatchStays ==
    ASSUME PlaceInv, NEW v \in Validators, StartBatch(v)
    PROVE  Open' = Open /\ Settled' = Settled
<1>t. TypeOK /\ job[v] = NoBatch
  BY DEF PlaceInv, TypeInv, StartBatch
<1>1. posted \in Seq(Batch) /\ posted # <<>> /\ posted' = Tail(posted)
  BY <1>t DEF StartBatch, TypeOK
<1>2. PICK n \in Nat : n = Len(posted)
  BY <1>1, LenProperties
<1>3. /\ n > 0 /\ DOMAIN posted = 1 .. n /\ DOMAIN posted' = 1 .. n - 1
      /\ Head(posted) = posted[1]
      /\ \A k \in 1 .. n - 1 : posted'[k] = posted[k + 1]
  BY <1>1, <1>2, HeadTailProperties, EmptySeq, LenProperties
<1>4. /\ UNCHANGED <<built, q_, reqs, pending>>
      /\ job' = [job EXCEPT ![v] = posted[1]] /\ lane' = [lane EXCEPT ![v] = 0]
      /\ pc[v] = "idle" /\ \E s \in {"check", "crashed"} : pc' = [pc EXCEPT ![v] = s]
  BY <1>3 DEF StartBatch, distVars, Goto
<1>5. \A w \in Validators \ {v} : UNCHANGED <<pc[w], job[w], lane[w]>>
  BY <1>t, <1>4 DEF TypeOK
<1>6. job'[v] = posted[1] /\ lane'[v] = 0 /\ pc'[v] \notin Decided /\ pc[v] \notin Decided
  BY <1>t, <1>4 DEF TypeOK, Decided
<1>7. Settled' = Settled
  <2>1. \A w \in Validators \ {v} : Outcome(w)' = Outcome(w)
    BY <1>5, UndecidedStays
  <2> QED BY <1>5, <1>6, <2>1, SettledStays
<1>8. Undecided(v)' = LiveFrom(posted[1], 0) /\ Undecided(v) = {}
  <2>1. Undecided(v)' = LiveFrom(posted[1], 0)
    BY <1>6 DEF Undecided, LiveFrom
  <2>2. LiveFrom(NoBatch, lane[v]) = {}
    BY <1>t, ConstantsAssumption DEF LiveFrom, NoBatch, TypeOK, Lanes
  <2> QED BY <1>t, <1>6, <2>1, <2>2 DEF Undecided
<1>9. \A w \in Validators \ {v} : Undecided(w)' = Undecided(w)
  BY <1>5, UndecidedStays
<1>10. \A x : (\E k \in DOMAIN posted : x \in LiveFrom(posted[k], 0))
                <=> \/ x \in LiveFrom(posted[1], 0)
                    \/ \E k \in DOMAIN posted' : x \in LiveFrom(posted'[k], 0)
  <2>1. \A k : k \in 1 .. n <=> k = 1 \/ \E j \in 1 .. n - 1 : k = j + 1
    <3>1. \A k : k = 1 \/ (\E j \in 1 .. n - 1 : k = j + 1) => k \in 1 .. n
      BY <1>2, <1>3
    <3>2. ASSUME NEW k \in 1 .. n, k # 1 PROVE \E j \in 1 .. n - 1 : k = j + 1
      <4>1. k - 1 \in 1 .. n - 1 /\ k = (k - 1) + 1
        BY <1>2, <3>2
      <4> QED BY <4>1
    <3> QED BY <3>1, <3>2
  <2> QED BY <1>3, <2>1
<1>11. \A x : x \in InQueues <=> x \in InQueues' \/ x \in LiveFrom(posted[1], 0)
  <2>1. \A x : x \in InQueues' <=>
          \/ x \in built' \/ x \in q_'
          \/ \E l \in 0 .. pending' - 1 : x = reqs'[l]
          \/ \E k \in DOMAIN posted' : x \in LiveFrom(posted'[k], 0)
    BY DEF InQueues, LiveFrom
  <2> QED BY <1>4, <1>10, <2>1, InQueuesIs
<1>12. Waiting' = Waiting
  <2>1. \A x : x \in Waiting' <=>
          x \in InQueues' \/ \E w \in Validators : x \in Undecided(w)'
    BY DEF Waiting
  <2>2. \A x : x \in Waiting' <=> x \in Waiting
    BY <1>8, <1>9, <1>11, <2>1, WaitingIs
  <2> QED BY <2>2
<1> QED BY <1>7, <1>12 DEF Open, Asked

LEMMA OthersStay ==
    ASSUME TypeInv, NEW v \in Validators, Validate(v)
    PROVE  \A w \in Validators \ {v} : /\ UNCHANGED <<pc[w], job[w], lane[w]>>
                                       /\ Undecided(w)' = Undecided(w)
                                       /\ Outcome(w)' = Outcome(w)
<1>1. /\ pc \in [Validators -> {"idle", "crashed"} \cup Working]
      /\ job \in [Validators -> Batch] /\ lane \in [Validators -> Lanes]
  BY DEF TypeInv, TypeOK, Working
<1>2. \A w \in Validators \ {v} : UNCHANGED <<pc[w], job[w], lane[w]>>
  BY <1>1 DEF Validate, RejectOverLimit, GetMinerRound, TryLock, SkipBusyRound,
     Compare, SubmitNonce, StoreDeadline, Unlock, WriteOk, Goto, NextLane, validVars
<1> QED BY <1>2, UndecidedStays

\* The lane a working validator is at, and the request found there.
LEMMA AtLane ==
    ASSUME PlaceInv, NEW v \in Validators, pc[v] \in Working
    PROVE  /\ lane[v] \in Lanes
           /\ OnlyAt(Req(v).id, "job", v, lane[v])
<1>1. /\ TypeInv /\ Req(v).id \in Requests
      /\ job[v].pending \in 0 .. PARALLEL_VALIDATIONS
      /\ lane[v] \in 0 .. job[v].pending - 1
  BY WorkingLane DEF PlaceInv
<1>2. lane[v] \in Lanes /\ lane[v] <= lane[v] /\ lane[v] < job[v].pending
  BY <1>1, ConstantsAssumption DEF Lanes
<1>3. InJob(Req(v).id, v, lane[v])
  BY <1>2 DEF InJob, Req
<1>4. OnePlace(Req(v).id)
  BY <1>1 DEF PlaceInv
<1> QED BY <1>2, <1>3, <1>4, PlaceIs

\* No two validators work on one request.
LEMMA OwnRequest ==
    ASSUME PlaceInv, NEW v \in Validators, NEW w \in Validators, v # w,
           pc[v] \in Working, pc[w] \in Working
    PROVE  Req(v).id # Req(w).id
<1>1. /\ OnlyAt(Req(v).id, "job", v, lane[v])
      /\ OnlyAt(Req(w).id, "job", w, lane[w])
  BY AtLane
<1> QED BY <1>1 DEF OnlyAt

\* A request a validator has not decided waits.
LEMMA UndecidedWaits ==
    ASSUME PlaceInv, NEW v \in Validators, pc[v] \in Working \ Decided
    PROVE  Asked(Req(v)) \in Open
<1>1. job[v].pending \in Nat /\ lane[v] \in 0 .. job[v].pending - 1
  BY WorkingLane, ConstantsAssumption DEF PlaceInv
<1>2. lane[v] \in lane[v] .. job[v].pending - 1
  BY <1>1
<1>3. Req(v) \in Undecided(v)
  BY <1>2 DEF Undecided, LiveFrom, Req
<1> QED BY <1>3, WaitingIs DEF Open

\* What is in the queues, or undecided elsewhere, is another request.
LEMMA NotElsewhere ==
    ASSUME PlaceInv, NEW v \in Validators, pc[v] \in Working
    PROVE  /\ \A x \in InQueues : x.id # Req(v).id
           /\ \A w \in Validators \ {v} : \A x \in Undecided(w) : x.id # Req(v).id
           /\ \A x \in LiveFrom(job[v], lane[v] + 1) : x.id # Req(v).id
<1> DEFINE r == Req(v).id
           m == lane[v]
<1>t. TypeOK
  BY DEF PlaceInv, TypeInv
<1>1. OnlyAt(r, "job", v, m) /\ m \in Lanes
  BY AtLane
<1> HIDE DEF r, m
<1>2. ASSUME NEW x \in InQueues PROVE x.id # r
  <2>1. CASE x \in built \/ x \in q_
    BY <1>1, <2>1 DEF OnlyAt, IsBuilt, IsQueued
  <2>2. ASSUME NEW l \in 0 .. pending - 1, x = reqs[l] PROVE x.id # r
    <3>1. l \in Lanes /\ l < pending
      BY <1>t, ConstantsAssumption DEF TypeOK, Lanes
    <3> QED BY <1>1, <2>2, <3>1 DEF OnlyAt, IsPacked
  <2>3. ASSUME NEW k \in DOMAIN posted, x \in LiveFrom(posted[k], 0) PROVE x.id # r
    <3>1. PICK l \in 0 .. posted[k].pending - 1 : x = posted[k].creqs[l]
      BY <2>3 DEF LiveFrom
    <3>2. k \in 1 .. Len(posted) /\ posted[k] \in Batch
      BY <1>t, LenProperties DEF TypeOK
    <3>3. l \in Lanes /\ l < posted[k].pending
      BY <3>2, ConstantsAssumption DEF Batch, Lanes
    <3> QED BY <1>1, <3>1, <3>2, <3>3 DEF OnlyAt, IsPosted
  <2> QED BY <2>1, <2>2, <2>3, InQueuesIs
<1>3. ASSUME NEW w \in Validators, NEW k \in Nat, NEW x, w # v \/ k # m,
             k \in lane[w] .. job[w].pending - 1, x = job[w].creqs[k]
      PROVE  x.id # r
  <2>1. k \in Lanes /\ lane[w] <= k /\ k < job[w].pending
    BY <1>t, <1>3, ConstantsAssumption DEF TypeOK, Batch, Lanes
  <2> QED BY <1>1, <1>3, <2>1 DEF OnlyAt, InJob
<1>4. ASSUME NEW w \in Validators \ {v}, NEW x \in Undecided(w) PROVE x.id # r
  <2>1. lane[w] \in Nat /\ job[w].pending \in Nat
    BY <1>t, ConstantsAssumption DEF TypeOK, Batch, Lanes
  <2>2. PICK f \in {lane[w], lane[w] + 1} : x \in LiveFrom(job[w], f)
    BY DEF Undecided
  <2>3. PICK k \in f .. job[w].pending - 1 : x = job[w].creqs[k]
    BY <2>2 DEF LiveFrom
  <2>4. k \in Nat /\ k \in lane[w] .. job[w].pending - 1
    BY <2>1, <2>2, <2>3
  <2> QED BY <1>3, <2>3, <2>4
<1>5. ASSUME NEW x \in LiveFrom(job[v], lane[v] + 1) PROVE x.id # r
  <2>1. lane[v] \in Nat /\ job[v].pending \in Nat /\ m = lane[v]
    BY <1>t, ConstantsAssumption DEF TypeOK, Batch, Lanes, m
  <2>2. PICK k \in lane[v] + 1 .. job[v].pending - 1 : x = job[v].creqs[k]
    BY DEF LiveFrom
  <2>3. k \in Nat /\ k \in lane[v] .. job[v].pending - 1 /\ k # m
    BY <2>1, <2>2
  <2> QED BY <1>3, <2>2, <2>3
<1> QED BY <1>2, <1>4, <1>5 DEF r

\* Deciding a request takes it, and nothing else, out of the open ones.
LEMMA DecideOpen ==
    ASSUME PlaceInv, NEW v \in Validators, pc[v] \in Working \ Decided,
           InQueues' = InQueues,
           \A w \in Validators \ {v} : Undecided(w)' = Undecided(w),
           Undecided(v)' = LiveFrom(job[v], lane[v] + 1)
    PROVE  Open' = Open \ {Asked(Req(v))}
<1> DEFINE later == LiveFrom(job[v], lane[v] + 1)
<1>1. \A x : x \in Undecided(v) <=> x = Req(v) \/ x \in later
  <2>1. job[v].pending \in Nat /\ lane[v] \in 0 .. job[v].pending - 1
    BY WorkingLane, ConstantsAssumption DEF PlaceInv
  <2>2. \A k : k \in lane[v] .. job[v].pending - 1
                 <=> k = lane[v] \/ k \in lane[v] + 1 .. job[v].pending - 1
    BY <2>1
  <2> QED BY <2>2 DEF Undecided, LiveFrom, Req
<1>2. Undecided(v)' = later
  OBVIOUS
<1>3. /\ \A x \in InQueues : x.id # Req(v).id
      /\ \A w \in Validators \ {v} : \A x \in Undecided(w) : x.id # Req(v).id
      /\ \A x \in later : x.id # Req(v).id
  BY NotElsewhere
<1> HIDE DEF later
<1>4. \A x : x \in Waiting' <=>
          x \in InQueues' \/ \E w \in Validators : x \in Undecided(w)'
  BY DEF Waiting
<1>5. \A x \in Waiting' : x.id # Req(v).id
  BY <1>2, <1>3, <1>4
<1>6. \A x : x \in Waiting <=> x = Req(v) \/ x \in Waiting'
  BY <1>1, <1>2, <1>4, WaitingIs
<1>7. Open' = {Asked(x) : x \in Waiting'}
  BY DEF Open, Asked
<1>8. \A x \in Waiting' : Asked(x) # Asked(Req(v))
  BY <1>5 DEF Asked
<1> QED BY <1>6, <1>7, <1>8 DEF Open

LEMMA NextLaneUndecided ==
    ASSUME TypeInv, NEW v \in Validators, pc[v] \in Working, NextLane(v)
    PROVE  /\ Undecided(v)' = LiveFrom(job[v], lane[v] + 1)
           /\ pc'[v] \notin Decided
<1>1. /\ job[v].pending \in 0 .. PARALLEL_VALIDATIONS /\ lane[v] \in Nat
      /\ lane \in [Validators -> Lanes] /\ job \in [Validators -> Batch]
      /\ pc \in [Validators -> {"idle", "crashed"} \cup Working]
  BY WorkingLane, ConstantsAssumption DEF TypeInv, TypeOK, Working, Lanes
<1>2. CASE lane[v] + 1 < job[v].pending
  <2>1. job' = job /\ lane'[v] = lane[v] + 1 /\ pc'[v] = "check"
    BY <1>1, <1>2 DEF NextLane, Goto
  <2> QED BY <2>1 DEF Undecided, Decided, LiveFrom
<1>3. CASE ~(lane[v] + 1 < job[v].pending)
  <2>1. job'[v] = NoBatch /\ lane'[v] = 0 /\ pc'[v] = "idle"
    BY <1>1, <1>3 DEF NextLane, Goto
  <2>2. LiveFrom(job[v], lane[v] + 1) = {}
    BY <1>1, <1>3, ConstantsAssumption DEF LiveFrom
  <2>3. LiveFrom(NoBatch, 0) = {}
    BY DEF LiveFrom, NoBatch
  <2>4. Undecided(v)' = LiveFrom(NoBatch, 0)
    BY <2>1 DEF Undecided, Decided, LiveFrom
  <2> QED BY <2>1, <2>2, <2>3, <2>4 DEF Decided
<1> QED BY <1>2, <1>3

LEMMA SettleOne ==
    ASSUME NEW v \in Validators, pc'[v] \in Decided, pc[v] \notin Decided,
           Outcome(v)' = Outcome(v),
           \A w \in Validators \ {v} : pc'[w] = pc[w] /\ Outcome(w)' = Outcome(w)
    PROVE  Settled' = Settled \cup {Outcome(v)}
<1>1. \A x : x \in Settled' <=> \E w \in Validators : pc'[w] \in Decided /\ x = Outcome(w)'
  BY DEF Settled
<1>2. \A x : x \in Settled <=> \E w \in Validators : pc[w] \in Decided /\ x = Outcome(w)
  BY DEF Settled
<1>3. \A x : x \in Settled' <=> x \in Settled \/ x = Outcome(v)
  BY <1>1, <1>2
<1> QED BY <1>3

LEMMA AnswerOne ==
    ASSUME PlaceInv, NEW v \in Validators, pc[v] \in Decided, pc'[v] \notin Decided,
           \A w \in Validators \ {v} : pc'[w] = pc[w] /\ Outcome(w)' = Outcome(w)
    PROVE  Settled' = Settled \ {Outcome(v)} /\ Outcome(v) \in Settled
<1>1. \A x : x \in Settled' <=> \E w \in Validators : pc'[w] \in Decided /\ x = Outcome(w)'
  BY DEF Settled
<1>2. \A x : x \in Settled <=> \E w \in Validators : pc[w] \in Decided /\ x = Outcome(w)
  BY DEF Settled
<1>3. \A w \in Validators \ {v} : pc[w] \in Decided => Outcome(w) # Outcome(v)
  BY OwnRequest DEF Decided, Working, Outcome
<1>4. \A x : x \in Settled' <=> x \in Settled /\ x # Outcome(v)
  BY <1>1, <1>2, <1>3
<1> QED BY <1>2, <1>4

ServiceInv == CoverInv /\ OwnInv /\ PlaceInv

\* Lane 0 is live, so the batch's plot format is that of a block of the window.
LEMMA OwnDeadline ==
    ASSUME OwnInv, NEW v \in Validators, pc[v] \in Working
    PROVE  deadline(v) \in Service!DeadlinesOf(Asked(Req(v)))
<1>1. job[v].creqs[0] \in Window
  <2>1. PICK S : S = Window
    OBVIOUS
  <2>2. AllLive(S) /\ TypeInv
    BY <2>1 DEF OwnInv
  <2> QED BY <2>1, <2>2, WorkingLive
<1>2. /\ start_height \in Nat /\ current_block_.height \in Nat
      /\ job[v].creqs[0].height \in Nat
  BY <1>1, ConstantsAssumption
     DEF OwnInv, TypeInv, TypeOK, Block, Heights, Window, CalcDeadlineReq
<1>3. job[v].creqs[0].height \in start_height .. current_block_.height
  BY <1>1, <1>2 DEF Window
<1>4. /\ Asked(Req(v)).id = job[v].creqs[lane[v]].id
      /\ Asked(Req(v)).height = job[v].creqs[lane[v]].height
  BY DEF Asked, Req
<1> QED BY <1>3, <1>4 DEF Service!DeadlinesOf, deadline, DeadlineIn

\* The step of a validator that decides its request.
LEMMA DecideStep ==
    ASSUME ServiceInv, NEW v \in Validators, Validate(v), pc[v] \in Working \ Decided,
           NEW label \in Decided, Goto(v, label), UNCHANGED <<job, lane>>
    PROVE  /\ Asked(Req(v)) \in Open
           /\ Service!Settle(Asked(Req(v)), deadline(v))
<1>t. PlaceInv /\ TypeInv /\ TypeOK
  BY DEF ServiceInv, PlaceInv, TypeInv
<1>1. InQueues' = InQueues
  BY <1>t, ValidateKeepsBatches, QueuesStay
<1>2. \A w \in Validators \ {v} : /\ UNCHANGED pc[w] /\ Undecided(w)' = Undecided(w)
                                  /\ Outcome(w)' = Outcome(w)
  BY <1>t, OthersStay
<1>3. pc'[v] = label
  BY <1>t DEF Goto, TypeOK
<1>4. Undecided(v)' = LiveFrom(job[v], lane[v] + 1) /\ Outcome(v)' = Outcome(v)
  BY <1>3 DEF Undecided, LiveFrom, Outcome, Req, deadline, DeadlineIn
<1>5. Open' = Open \ {Asked(Req(v))}
  BY <1>t, <1>1, <1>2, <1>4, DecideOpen
<1>6. Settled' = Settled \cup {Outcome(v)}
  BY <1>2, <1>3, <1>4, SettleOne
<1>7. Outcome(v) = [id |-> Asked(Req(v)).id, height |-> Asked(Req(v)).height,
                    deadline |-> deadline(v)]
  BY DEF Outcome, Asked
<1> QED BY <1>t, <1>5, <1>6, <1>7, UndecidedWaits DEF Service!Settle

\* A validator's step that decides nothing is not seen.
LEMMA UnseenStep ==
    ASSUME ServiceInv, NEW v \in Validators, Validate(v),
           UNCHANGED <<job, lane, forwarded, answers>>,
           pc'[v] \in Decided <=> pc[v] \in Decided
    PROVE  Unseen
<1>t. TypeInv
  BY DEF ServiceInv, PlaceInv
<1>1. /\ UNCHANGED <<current_block_, start_height, submitted, dropped>>
      /\ InQueues' = InQueues
  BY <1>t, ValidateKeepsBatches, QueuesStay
<1>2. \A w \in Validators \ {v} : /\ UNCHANGED pc[w] /\ Undecided(w)' = Undecided(w)
                                  /\ Outcome(w)' = Outcome(w)
  BY <1>t, OthersStay
<1>3. Undecided(v)' = Undecided(v) /\ Outcome(v)' = Outcome(v)
  BY UndecidedStays
<1>4. Open' = Open
  BY <1>1, <1>2, <1>3, WaitingStays
<1>5. Settled' = Settled
  BY <1>2, <1>3, SettledStays
<1> QED BY <1>1, <1>4, <1>5 DEF Unseen

LEMMA SessionService ==
    ASSUME ServiceInv,
           \/ RefreshBlock
           \/ \E r \in Requests : RejectUnknownAccount(r) \/ BuildRequest(r)
    PROVE  Service!Next
<1>t. TypeInv /\ TypeOK
  BY DEF ServiceInv, PlaceInv, TypeInv
<1>0. DOMAIN miners_ = Registered
  BY <1>t DEF TypeOK
<1>v. /\ Settled' = Settled
      /\ \A w \in Validators : Undecided(w)' = Undecided(w)
  BY ValidatorsStay DEF RefreshBlock, RejectUnknownAccount, BuildRequest
<1>1. CASE RefreshBlock
  <2>1. InQueues' = InQueues
    BY <1>1, QueuesStay DEF RefreshBlock, distVars
  <2>2. Open' = Open
    BY <1>v, <2>1, WaitingStays
  <2>3. \E h \in 0 .. MaxHeight :
           current_block_.height < h /\ current_block_'.height = h
    BY <1>1 DEF RefreshBlock, Heights
  <2>4. UNCHANGED <<start_height, submitted, dropped, forwarded, answers>>
    BY <1>1 DEF RefreshBlock, historyVars
  <2>5. Service!NewBlock
    BY <1>v, <2>2, <2>3, <2>4 DEF Service!NewBlock
  <2> QED BY <2>5 DEF Service!Next
<1>2. ASSUME NEW r \in Requests, RejectUnknownAccount(r) PROVE Service!Next
  <2>1. InQueues' = InQueues
    BY <1>2, QueuesStay DEF RejectUnknownAccount, distVars
  <2>2. Open' = Open
    BY <1>v, <2>1, WaitingStays
  <2>3. Service!Refuse(r)
    BY <1>0, <1>2, <1>v, <2>2
       DEF RejectUnknownAccount, walletVars, Service!Refuse, Service!Tell, WriteAnswer
  <2> QED BY <2>3 DEF Service!Next
<1>3. ASSUME NEW r \in Requests, BuildRequest(r) PROVE Service!Next
  <2> DEFINE c == [id |-> r, height |-> current_block_.height,
                   base_target |-> current_block_.base_target]
  <2>1. Asked(c) = [id |-> r, height |-> current_block_.height]
    BY DEF Asked
  <2>2. built' = built \cup {c} /\ UNCHANGED <<q_, reqs, pending, posted>>
    BY <1>3 DEF BuildRequest, distVars
  <2> HIDE DEF c
  <2>3. \A x : x \in InQueues' <=> x \in InQueues \/ x = c
    BY <2>2 DEF InQueues, LiveFrom
  <2>4. \A x : x \in Waiting' <=>
          x \in InQueues' \/ \E w \in Validators : x \in Undecided(w)'
    BY DEF Waiting
  <2>5. \A x : x \in Waiting' <=> x \in Waiting \/ x = c
    BY <1>v, <2>3, <2>4, WaitingIs
  <2>6. Open' = {Asked(x) : x \in Waiting'}
    BY DEF Open, Asked
  <2>7. Open' = Open \cup {Asked(c)}
    BY <2>5, <2>6 DEF Open
  <2>8. Service!Ask(r)
    BY <1>0, <1>3, <1>v, <2>1, <2>7 DEF BuildRequest, walletVars, Service!Ask
  <2> QED BY <2>8 DEF Service!Next
<1> QED BY <1>1, <1>2, <1>3

\* Past the first check, the deadline is within the limit.
WithinLimit ==
    \A v \in Validators :
        pc[v] \in Working \ {"check"} => deadline(v) <= deadline_limit_

LEMMA StepWithinLimit ==
    TypeInv /\ WithinLimit /\ [Next]_vars => WithinLimit'
<1> SUFFICES ASSUME TypeInv, WithinLimit, [Next]_vars PROVE WithinLimit'
  OBVIOUS
<1>1. CASE UNCHANGED validVars
  <2>1. \A w \in Validators : pc'[w] = pc[w] /\ deadline(w)' = deadline(w)
    BY <1>1 DEF validVars, deadline, DeadlineIn
  <2> QED BY <2>1 DEF WithinLimit
<1>2. ASSUME NEW v \in Validators, StartBatch(v) \/ Validate(v) PROVE WithinLimit'
  <2>1. \A w \in Validators \ {v} : pc'[w] = pc[w] /\ deadline(w)' = deadline(w)
    BY <1>2, OthersKeepLane
  <2>2. pc \in [Validators -> {"idle", "crashed"} \cup Working]
    BY DEF TypeInv, TypeOK, Working
  <2>3. CASE StartBatch(v) \/ NextLane(v)
    <3>1. pc'[v] \in {"check", "crashed", "idle"}
      BY <2>2, <2>3 DEF StartBatch, NextLane, Goto
    <3> QED BY <2>1, <3>1 DEF WithinLimit, Working
  <2>4. CASE Validate(v) /\ ~NextLane(v)
    <3>1. deadline(v) <= deadline_limit_
      BY <2>4 DEF Validate, RejectOverLimit, GetMinerRound, TryLock, SkipBusyRound,
         Compare, SubmitNonce, StoreDeadline, Unlock, WriteOk, WithinLimit, Working
    <3>2. UNCHANGED <<job, lane>>
      BY <2>4 DEF Validate, RejectOverLimit, GetMinerRound, TryLock, SkipBusyRound,
         Compare, SubmitNonce, StoreDeadline, Unlock, WriteOk
    <3>3. deadline(v)' = deadline(v)
      BY <3>2 DEF deadline, DeadlineIn
    <3> QED BY <2>1, <3>1, <3>3 DEF WithinLimit
  <2> QED BY <1>2, <2>3, <2>4
<1> QED
  BY <1>1, <1>2 DEF Next, vars, RefreshBlock, RejectUnknownAccount, BuildRequest,
     EnqueReq, Distribute, PostBatch, TryDequeue, PollEmpty

\* The owner of a round that has not forwarded anything finds it up to date.
LEMMA OwnerSeesBest ==
    ASSUME RoundInv, NEW v \in Validators, pc[v] \in {"compare", "submit"}
    PROVE  RoundIsBest(Account(v)) /\ Account(v) \in Registered
<1>1. Account(v) \in Registered
  BY WorkingLane DEF RoundInv, Working
<1>2. \A w \in Validators : pc[w] = "store" => Account(w) # Account(v)
  BY DEF RoundInv, MutexOwned, Locked, InRound
<1> QED BY <1>1, <1>2 DEF RoundInv, UpToDate

\* The comparison with the round is one with all that was forwarded.
LEMMA RoundDecides ==
    ASSUME RoundInv, NEW v \in Validators, pc[v] \in {"compare", "submit"}
    PROVE  Improves(v) <=> Service!Improves(Asked(Req(v)), deadline(v))
<1> DEFINE a == Account(v)
           d == deadline(v)
           m == miners_[a].deadline
<1>1. /\ RoundIsBest(a) /\ a \in Registered
      /\ miners_[a].height = start_height
  BY OwnerSeesBest DEF RoundInv, RoundsKeepHeight
<1>2. d \in Nat /\ m \in 0 .. UINT64_MAX /\ UINT64_MAX \in Nat
  BY <1>1, WorkingLane, ConstantsAssumption
     DEF RoundInv, TypeInv, TypeOK, Deadlines, Working
<1>3. /\ Asked(Req(v)).height = Req(v).height
      /\ account_id[Asked(Req(v)).id] = a
  BY DEF Asked, Account
<1>4. \A i \in DOMAIN forwarded : forwarded[i].deadline \in Nat
  <2>1. forwarded \in Seq(Forward)
    BY DEF RoundInv, TypeInv, TypeOK
  <2>2. \A i \in DOMAIN forwarded : forwarded[i] \in Forward
    BY <2>1
  <2> QED BY <2>2, ConstantsAssumption DEF Forward, Deadlines
<1>5. \A i \in DOMAIN forwarded : forwarded[i].account = a => m <= forwarded[i].deadline
  BY <1>1 DEF RoundIsBest
<1>6. \/ m = UINT64_MAX
      \/ \E i \in DOMAIN forwarded : forwarded[i].account = a /\ forwarded[i].deadline = m
  BY <1>1 DEF RoundIsBest
<1>7. Improves(v) <=> Req(v).height = start_height /\ d < m
  BY <1>1, <1>2 DEF Improves
<1>8. Service!Improves(Asked(Req(v)), d) <=>
        /\ Req(v).height = start_height
        /\ d < UINT64_MAX
        /\ \A i \in DOMAIN forwarded :
              forwarded[i].account = a => d < forwarded[i].deadline
  BY <1>3 DEF Service!Improves
<1> HIDE DEF a, d, m
<1>9. d < m <=> /\ d < UINT64_MAX
                /\ \A i \in DOMAIN forwarded :
                      forwarded[i].account = a => d < forwarded[i].deadline
  BY <1>2, <1>4, <1>5, <1>6
<1> QED BY <1>7, <1>8, <1>9 DEF d

LEMMA ValidateService ==
    ASSUME ServiceInv, WithinLimit, NEW v \in Validators, Validate(v)
    PROVE  Service!Next \/ Unseen
<1> DEFINE x == Asked(Req(v))
           d == deadline(v)
<1>t. /\ TypeInv /\ TypeOK /\ RoundInv /\ PlaceInv /\ OwnInv
      /\ pc[v] \in Working
      /\ UNCHANGED <<current_block_, start_height, submitted, dropped>>
      /\ InQueues' = InQueues
  <2>1. TypeInv /\ TypeOK /\ RoundInv /\ PlaceInv /\ OwnInv
    BY DEF ServiceInv, CoverInv, PlaceInv, TypeInv
  <2>2. pc[v] \in Working
    BY DEF Validate, RejectOverLimit, GetMinerRound, TryLock, SkipBusyRound,
       Compare, SubmitNonce, StoreDeadline, Unlock, WriteOk, Working
  <2> QED BY <2>1, <2>2, ValidateKeepsBatches, QueuesStay
<1>d. /\ d \in Service!DeadlinesOf(x)
      /\ pc[v] # "check" => d <= deadline_limit_
      /\ x.id = Req(v).id /\ x.height = Req(v).height
      /\ account_id[x.id] = Account(v)
  BY <1>t, OwnDeadline DEF WithinLimit, Asked, Account
<1>w. \A w \in Validators \ {v} : /\ UNCHANGED pc[w] /\ Undecided(w)' = Undecided(w)
                                  /\ Outcome(w)' = Outcome(w)
  BY <1>t, OthersStay
<1>g. \A label : Goto(v, label) => pc'[v] = label
  BY <1>t DEF Goto, TypeOK
<1> HIDE DEF x, d
<1>1. CASE RejectOverLimit(v)
  <2>1. /\ NextLane(v) /\ pc[v] = "check" /\ d > deadline_limit_
        /\ UNCHANGED forwarded
    BY <1>1 DEF RejectOverLimit, d
  <2>2. Undecided(v)' = LiveFrom(job[v], lane[v] + 1) /\ pc'[v] \notin Decided
    BY <1>t, <2>1, NextLaneUndecided
  <2>3. pc[v] \in Working \ Decided /\ pc[v] \notin Decided
    BY <2>1 DEF Working, Decided
  <2>4. Open' = Open \ {x} /\ x \in Open
    BY <1>t, <1>w, <2>2, <2>3, DecideOpen, UndecidedWaits DEF x
  <2>5. Settled' = Settled
    BY <1>w, <2>2, <2>3, SettledStays
  <2>6. Service!Tell(x.id, "1008", d, x.height)
    BY <1>1, <1>d DEF RejectOverLimit, WriteAnswer, Service!Tell, d
  <2>7. Service!RejectOverLimit(x, d)
    BY <1>t, <2>1, <2>4, <2>5, <2>6 DEF Service!RejectOverLimit
  <2> QED BY <1>d, <2>4, <2>7 DEF Service!Next
<1>2. ASSUME UNCHANGED <<job, lane, forwarded, answers>>, pc[v] \notin Decided,
             NEW label \in Working \ Decided, Goto(v, label)
      PROVE  Unseen
  BY <1>2, <1>g, UnseenStep
<1>3. CASE GetMinerRound(v)
  <2>1. Account(v) \in DOMAIN miners_
    BY <1>t, WorkingLane DEF TypeOK
  <2> QED BY <1>2, <1>3, <2>1 DEF GetMinerRound, Working, Decided
<1>4. CASE TryLock(v)
  BY <1>2, <1>4 DEF TryLock, Working, Decided
<1>5. CASE SkipBusyRound(v)
  <2>1. /\ pc[v] = "try_lock" /\ Goto(v, "answer")
        /\ UNCHANGED <<job, lane, forwarded, answers>>
        /\ miners_[Account(v)].mu # NoThread /\ Account(v) \in Registered
    BY <1>t, <1>5, WorkingLane DEF SkipBusyRound
  <2>2. pc[v] \in Working \ Decided /\ "answer" \in Decided
    BY <2>1 DEF Working, Decided
  <2>3. x \in Open /\ Service!Settle(x, d)
    BY <2>1, <2>2, DecideStep DEF x, d
  <2>4. PICK w \in Validators : pc[w] \in Locked /\ Account(w) = Account(v)
    BY <2>1 DEF ServiceInv, CoverInv, OwnerInRound
  <2>5. w # v /\ pc[w] \in Working
    BY <2>1, <2>4 DEF Locked, InRound, Working
  <2>6. Req(w).id # Req(v).id /\ account_id[Req(w).id] = Account(v)
    BY <1>t, <2>4, <2>5, OwnRequest DEF Account
  <2>7. \E y \in Open \cup Settled : y.id = Req(w).id
    <3>1. CASE pc[w] \in Decided
      <4>1. Outcome(w) \in Settled
        BY <3>1 DEF Settled
      <4> QED BY <4>1 DEF Outcome
    <3>2. CASE pc[w] \notin Decided
      <4>1. Asked(Req(w)) \in Open
        BY <1>t, <2>5, <3>2, UndecidedWaits
      <4> QED BY <4>1 DEF Asked
    <3> QED BY <3>1, <3>2
  <2>8. Service!GiveUp(x, d)
    BY <1>t, <1>d, <2>1, <2>3, <2>6, <2>7 DEF Service!GiveUp
  <2> QED BY <1>d, <2>3, <2>8 DEF Service!Next
<1>6. CASE Compare(v)
  <2>1. pc[v] = "compare" /\ UNCHANGED <<job, lane, forwarded, answers>>
    BY <1>6 DEF Compare
  <2>2. CASE Improves(v)
    BY <1>2, <1>6, <2>1, <2>2 DEF Compare, Working, Decided
  <2>3. CASE ~Improves(v)
    <3>1. Goto(v, "unlock") /\ "unlock" \in Decided /\ pc[v] \in Working \ Decided
      BY <1>6, <2>1, <2>3 DEF Compare, Working, Decided
    <3>2. x \in Open /\ Service!Settle(x, d)
      BY <2>1, <3>1, DecideStep DEF x, d
    <3>3. ~Service!Improves(x, d)
      BY <1>t, <2>1, <2>3, RoundDecides DEF x, d
    <3>4. Service!Beaten(x, d)
      BY <1>t, <1>d, <2>1, <3>2, <3>3 DEF Service!Beaten
    <3> QED BY <1>d, <3>2, <3>4 DEF Service!Next
  <2> QED BY <2>2, <2>3
<1>7. CASE SubmitNonce(v)
  <2>1. /\ pc[v] = "submit" /\ UNCHANGED <<job, lane, answers>>
        /\ Goto(v, "store")
        /\ forwarded' = Append(forwarded,
               [id |-> x.id, account |-> account_id[x.id],
                deadline |-> d, height |-> x.height])
    BY <1>7, <1>d DEF SubmitNonce, d
  <2>2. pc[v] \in Working \ Decided /\ "store" \in Decided
    BY <2>1 DEF Working, Decided
  <2>3. x \in Open /\ Service!Settle(x, d)
    BY <2>1, <2>2, DecideStep DEF x, d
  <2>4. Improves(v)
    <3>1. /\ deadline(v) < miners_[Account(v)].deadline
          /\ Req(v).height = miners_[Account(v)].height
      BY <1>t, <2>1 DEF RoundInv, Beats
    <3> QED
      BY <1>t, <3>1, WorkingLane, ConstantsAssumption
         DEF Improves, TypeOK, Deadlines
  <2>5. Service!Improves(x, d)
    BY <1>t, <2>1, <2>4, RoundDecides DEF x, d
  <2>6. Service!Forward(x, d)
    BY <1>t, <1>d, <2>1, <2>3, <2>5 DEF Service!Forward
  <2> QED BY <1>d, <2>3, <2>6 DEF Service!Next
<1>8. CASE StoreDeadline(v) \/ Unlock(v)
  <2>1. /\ UNCHANGED <<job, lane, forwarded, answers>> /\ pc[v] \in Decided
        /\ \E label \in Decided : Goto(v, label)
    BY <1>8 DEF StoreDeadline, Unlock, Decided
  <2> QED BY <1>g, <2>1, UnseenStep
<1>9. CASE WriteOk(v)
  <2>1. /\ NextLane(v) /\ pc[v] = "answer" /\ UNCHANGED forwarded
        /\ pc[v] \in Decided
    BY <1>9 DEF WriteOk, Decided
  <2>2. Undecided(v)' = LiveFrom(job[v], lane[v] + 1) /\ pc'[v] \notin Decided
    BY <1>t, <2>1, NextLaneUndecided
  <2>3. Undecided(v)' = Undecided(v)
    BY <2>1, <2>2 DEF Undecided
  <2>4. Open' = Open
    BY <1>t, <1>w, <2>3, WaitingStays
  <2>5. Settled' = Settled \ {Outcome(v)} /\ Outcome(v) \in Settled
    BY <1>t, <1>w, <2>1, <2>2, AnswerOne
  <2>6. Service!Tell(Outcome(v).id, "success", Outcome(v).deadline, Outcome(v).height)
    BY <1>9 DEF WriteOk, WriteAnswer, Service!Tell, Outcome
  <2>7. Service!Reply(Outcome(v))
    BY <1>t, <2>1, <2>4, <2>5, <2>6 DEF Service!Reply
  <2> QED BY <2>5, <2>7 DEF Service!Next
<1> QED
  BY <1>1, <1>3, <1>4, <1>5, <1>6, <1>7, <1>8, <1>9 DEF Validate

LEMMA StepService ==
    ServiceInv /\ WithinLimit /\ [Next]_vars => [Service!Next]_(Service!vars)
<1> SUFFICES ASSUME ServiceInv, WithinLimit, [Next]_vars
             PROVE  Service!Next \/ Unseen
  BY UnseenStutters
<1>t. TypeInv /\ TypeOK /\ PlaceInv
  BY DEF ServiceInv, PlaceInv, TypeInv
<1>1. CASE \/ RefreshBlock
           \/ \E r \in Requests : RejectUnknownAccount(r) \/ BuildRequest(r)
  BY <1>1, SessionService
<1>2. ASSUME UNCHANGED <<current_block_, start_height, submitted, dropped>>,
             UNCHANGED <<forwarded, answers>>,
             UNCHANGED validVars, InQueues' = InQueues
      PROVE  Unseen
  BY <1>2, ValidatorsStay, WaitingStays DEF Unseen
<1>3. ASSUME NEW c \in built, EnqueReq(c) PROVE Service!Next \/ Unseen
  <2>1. /\ UNCHANGED <<current_block_, start_height, submitted>>
        /\ UNCHANGED <<forwarded, answers, reqs, pending, posted>>
        /\ UNCHANGED validVars /\ built' = built \ {c}
    BY <1>3 DEF EnqueReq, walletVars, distVars
  <2>2. CASE q_' = q_ \cup {c} /\ UNCHANGED dropped
    BY <1>2, <1>3, <2>1, <2>2, EnqReqStays
  <2>3. CASE dropped' = dropped \cup {c.id} /\ UNCHANGED q_
    <3>1. Open' = Open \ {Asked(c)} /\ Asked(c) \in Open
      BY <1>t, <2>1, <2>3, DropOpen
    <3>2. Settled' = Settled
      BY <2>1, ValidatorsStay
    <3>3. dropped' = dropped \cup {Asked(c).id}
      BY <2>3 DEF Asked
    <3>4. Service!Lose(Asked(c))
      BY <2>1, <3>1, <3>2, <3>3 DEF Service!Lose
    <3> QED BY <3>1, <3>4 DEF Service!Next
  <2> QED BY <1>3, <2>2, <2>3 DEF EnqueReq
<1>4. CASE PostBatch
  BY <1>t, <1>2, <1>4, PostBatchStays DEF PostBatch, walletVars, historyVars
<1>5. CASE TryDequeue
  BY <1>t, <1>2, <1>5, TryDequeueStays DEF TryDequeue, walletVars, historyVars
<1>6. CASE PollEmpty
  BY <1>2, <1>6, QueuesStay DEF PollEmpty, walletVars, historyVars
<1>7. ASSUME NEW v \in Validators, StartBatch(v) PROVE Unseen
  BY <1>t, <1>7, StartBatchStays DEF StartBatch, walletVars, historyVars, Unseen
<1>8. ASSUME NEW v \in Validators, Validate(v) PROVE Service!Next \/ Unseen
  BY <1>8, ValidateService
<1>9. CASE UNCHANGED vars
  BY <1>2, <1>9, QueuesStay DEF vars, walletVars, distVars, historyVars
<1> QED
  BY <1>1, <1>3, <1>4, <1>5, <1>6, <1>7, <1>8, <1>9 DEF Next, Distribute

LEMMA InitService == Init => Service!Init
<1> SUFFICES ASSUME Init PROVE Service!Init
  OBVIOUS
<1>1. \A w \in Validators : pc[w] \notin Decided /\ Undecided(w) = {}
  <2>1. LiveFrom(NoBatch, 0) = {}
    BY DEF LiveFrom, NoBatch
  <2> QED BY <2>1 DEF Init, Undecided, Decided
<1>2. InQueues = {}
  BY InQueuesIs DEF Init
<1>3. Settled = {} /\ Open = {}
  BY <1>1, <1>2 DEF Settled, Open, Waiting
<1> QED BY <1>3 DEF Init, Service!Init, Heights

\* The node implements the service: between process_submit_nonce_req and the
\* answer of validate_deadline each request is decided at one instant, on
\* its own deadline and on everything forwarded for its account so far, and
\* only a request of the same account in progress can keep it from being
\* compared.
THEOREM HandlerImplementsService == Spec => ImplementsDeadlineService
<1>1. Init => ServiceInv /\ WithinLimit
  <2>1. Init => WithinLimit
    BY DEF Init, WithinLimit, Working
  <2> QED BY <2>1, InitCoverInv, InitOwnInv, InitPlaceInv DEF ServiceInv
<1>2. ServiceInv /\ WithinLimit /\ [Next]_vars => (ServiceInv /\ WithinLimit)'
  BY StepCoverInv, StepOwnInv, StepPlaceInv, StepWithinLimit DEF ServiceInv, PlaceInv
<1> QED
  BY <1>1, <1>2, InitService, StepService, PTL
  DEF Spec, ImplementsDeadlineService, Service!Spec
=============================================================================
