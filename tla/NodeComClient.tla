---------------------------- MODULE NodeComClient ----------------------------
(***************************************************************************)
(* NodeComClient: a deadline that improves a miner's round becomes an      *)
(* asynchronous call to the miner's pool, and one thread collects the      *)
(* calls that have finished.  Calls have no time limit and are not tried   *)
(* again; they travel independently of one another.                        *)
(*                                                                         *)
(* The round is that of Wallet and the comparison that of                  *)
(* DeadlineRequestHandler, here without the threads that meet there.       *)
(***************************************************************************)
EXTENDS SubmitNonceRequest, FiniteSets

CONSTANTS Accounts,      \* account ids
          Served,        \* those whose reward recipient is in pool_id_to_addr
          Nonces, Deadlines, Height,
          MaxCalls       \* bound on the calls started

ASSUME AccountsAssumption == Accounts \subseteq Nat \ {0} /\ Served \subseteq Accounts
ASSUME NumbersAssumption ==
    Nonces \subseteq Nat /\ Deadlines \subseteq Nat /\ Height \in Nat

Unset == 1 + CHOOSE d \in Deadlines : \A e \in Deadlines : e <= d
NotRead == [message |-> "not read"]

VARIABLES round,     \* the best deadline of each account, and its nonce
          calls,     \* the calls, in the order they were started
          cq_        \* the completion queue: indexes of calls

vars == <<round, calls, cq_>>

Init == /\ round = [a \in Accounts |-> [deadline |-> Unset, nonce |-> 0]]
        /\ calls = << >> /\ cq_ = << >>

-----------------------------------------------------------------------------
Request(a, nonce, deadline) ==
    [Cleared EXCEPT !.accountid = a, !.nonce = nonce, !.deadline = deadline,
                    !.blockheight = Height]

\* PrepareAsyncSubmitNonce serializes the request; StartCall and Finish hand
\* the call to gRPC, which puts it in cq_ when it is over.
do_submit_nonce(req) ==
    IF req.accountid \notin Served THEN UNCHANGED calls
    ELSE calls' = Append(calls, [req |-> req, phase |-> "sent", got |-> NotRead,
                                 bytes |-> InternalSerializeWithCachedSizesToArray(req),
                                 status |-> "none"])

\* Mutant: any deadline is submitted.
Improves_Always(a, deadline) == round[a].deadline # deadline

Improves(a, deadline) == round[a].deadline > deadline

Submit(a, nonce, deadline) ==
    /\ Len(calls) < MaxCalls /\ Improves(a, deadline)
    /\ do_submit_nonce(Request(a, nonce, deadline))
    /\ round' = [round EXCEPT ![a] = [deadline |-> deadline, nonce |-> nonce]]
    /\ UNCHANGED cq_

-----------------------------------------------------------------------------
(* The network and the pools                                               *)

\* The pool's handler is given a fresh message.
PoolReads(i) ==
    LET parsed == MergePartialFromCodedStream(Cleared, calls[i].bytes)
    IN /\ calls[i].phase = "sent" /\ parsed.ok
       /\ calls' = [calls EXCEPT ![i].phase = "read", ![i].got = parsed.message]
       /\ UNCHANGED <<round, cq_>>

Finished(i, status) ==
    /\ calls' = [calls EXCEPT ![i].phase = "finished", ![i].status = status]
    /\ cq_' = Append(cq_, i)
    /\ UNCHANGED round

\* A newer pool may send fields this node does not know; a reply may be cut.
Replies == {<< >>, <<8, 1>>, <<10, 2, 7>>}

PoolAnswers(i, reply) ==
    /\ calls[i].phase = "read"
    /\ Finished(i, IF ReplyParses(reply) THEN "ok" ELSE "failed")

\* The connection fails, before the pool has read the call or after.
CallFails(i) == calls[i].phase \in {"sent", "read"} /\ Finished(i, "failed")

\* Mutant: the thread ends after a call that failed.
async_complete_rpc_StopsOnFailure ==
    /\ cq_ # << >> /\ \A i \in 1 .. Len(calls) :
                          calls[i].status = "failed" => calls[i].phase = "finished"
    /\ cq_' = Tail(cq_)
    /\ calls' = [calls EXCEPT ![Head(cq_)].phase = "deleted"]
    /\ UNCHANGED round

\* A failure is only logged.
async_complete_rpc ==
    /\ cq_ # << >>
    /\ cq_' = Tail(cq_)
    /\ calls' = [calls EXCEPT ![Head(cq_)].phase = "deleted"]
    /\ UNCHANGED round

Next == \/ \E a \in Accounts, n \in Nonces, d \in Deadlines : Submit(a, n, d)
        \/ \E i \in 1 .. Len(calls) : \/ PoolReads(i)
                                      \/ \E r \in Replies : PoolAnswers(i, r)
                                      \/ CallFails(i)
        \/ async_complete_rpc

Spec == Init /\ [][Next]_vars

\* The completion thread runs; nothing is assumed of the network or the pools.
FairSpec == Spec /\ WF_vars(async_complete_rpc)

-----------------------------------------------------------------------------
\* What a pool reads is what was submitted, zeroes included, although zeroes
\* are not sent: a deadline of 0 is a real deadline.  It was written into an
\* array of the size that was computed for it beforehand (ByteSizeLong,
\* SerializeWithCachedSizes, MergePartialFromCodedStream).
PoolReadsWhatWasSent ==
    \A i \in 1 .. Len(calls) :
        /\ calls[i].got \in {NotRead, calls[i].req}
        /\ Len(calls[i].bytes) = ByteSizeLong(calls[i].req)

\* Calls may overtake one another and only a call that fails is lost: once
\* the pool has read every call of an account, the least deadline it has read
\* is the round's, with its nonce.  So a pool that keeps the least deadline
\* ends with the miner's best (do_submit_nonce and its caller).
PoolCanKnowBest ==
    \A a \in Served :
        LET read == {calls[i].got : i \in {j \in 1 .. Len(calls) :
                                           calls[j].req.accountid = a}}
        IN (round[a].deadline # Unset /\ NotRead \notin read) =>
               \E m \in read : /\ [deadline |-> m.deadline, nonce |-> m.nonce] = round[a]
                               /\ \A l \in read \ {m} : l.deadline > m.deadline

\* A call that is over is deleted, however it ended and whatever calls ended
\* before it (async_complete_rpc).
FinishedCallsAreDeleted ==
    \A i \in 1 .. MaxCalls :
        (i <= Len(calls) /\ calls[i].phase = "finished")
            ~> (i <= Len(calls) /\ calls[i].phase = "deleted")

=============================================================================
