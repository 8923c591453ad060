------------------------------- MODULE Session -------------------------------
(***************************************************************************)
(* Session.{hpp,cpp}: one connection, one request, one response.           *)
(*                                                                         *)
(* Handlers of a session run one at a time on its strand.  A request that  *)
(* is not answered at once goes to DeadlineRequestHandler, and a validator *)
(* thread answers it outside the strand.  The object lives as long as a    *)
(* shared_ptr to it: in the completion handler of an asynchronous          *)
(* operation, or in a CalcDeadlineReq that the queue, the distributor's    *)
(* array or a posted copy of that array holds.                             *)
(*                                                                         *)
(* What DeadlineRequestHandler computes is left out (its own module has    *)
(* it); whom it answers, and what it keeps alive, is here.                 *)
(***************************************************************************)
EXTENDS Integers, FiniteSets

CONSTANTS
    Sessions,     \* connections
    NoSession,    \* a lane no request has reached
    Validators,   \* threads of the handler's io_service_
    Lanes         \* PARALLEL_VALIDATIONS

ASSUME SessionAssumption ==
    /\ Lanes \in Nat \ {0}
    /\ NoSession \notin Sessions

VARIABLES
    peer,       \* external: the client of each connection
    op,         \* asynchronous operation outstanding on each socket
    strand,     \* place of the handler that runs on each strand
    response,   \* the response object on the stack of do_write's caller
    writes,     \* history: how often do_write was called
    shut,       \* do_close was called
    q_,         \* sessions whose request is in the queue
    reqs, pending,  \* the distributor's array, and how many are new in it
    batches,    \* posted to io_service_
    job,        \* of each validator: its batch, the lane it is at, its place
    dropped     \* history: sessions whose request the queue had no memory for

socketVars  == <<op, response, writes>>
handlerVars == <<q_, reqs, pending, batches, job, dropped>>
vars == <<peer, op, strand, response, writes, shut, handlerVars>>

LaneArray == [1 .. Lanes -> Sessions \cup {NoSession}]
Batch == [reqs : LaneArray, pending : 1 .. Lanes]

IdleJob == [reqs |-> [l \in 1 .. Lanes |-> NoSession], pending |-> 1,
            at |-> 1, pc |-> "idle"]

\* What handle_request and process_submit_nonce_req look at, in a request.
Requests ==
    [requestType : {"missing", "getMiningInfo", "submitNonce", "other"},
     accountId : {"malformed", "foreign", "of_pool"},
     nonce : {"malformed", "number"}]

Init ==
    /\ peer = [s \in Sessions |-> "away"]
    /\ op = [s \in Sessions |-> "none"]
    /\ strand = [s \in Sessions |-> "idle"]
    /\ response = [s \in Sessions |-> "none"]
    /\ writes = [s \in Sessions |-> 0]
    /\ shut = [s \in Sessions |-> FALSE]
    /\ q_ = {}
    /\ reqs = IdleJob.reqs
    /\ pending = 0
    /\ batches = {}
    /\ job = [v \in Validators |-> IdleJob]
    /\ dropped = {}

-----------------------------------------------------------------------------
(* Clients                                                                 *)

\* Listener::on_accept makes the session and runs it, up to do_read.
Accept(s) ==
    /\ peer[s] = "away"
    /\ peer' = [peer EXCEPT ![s] = "there"]
    /\ op' = [op EXCEPT ![s] = "read"]
    /\ UNCHANGED <<strand, response, writes, shut, handlerVars>>

PeerLeaves(s) ==
    /\ peer[s] = "there"
    /\ peer' = [peer EXCEPT ![s] = "gone"]
    /\ UNCHANGED <<op, strand, response, writes, shut, handlerVars>>

-----------------------------------------------------------------------------
(* Handlers on the strand                                                  *)

\* on_read with a request: the strand goes on with handle_request.
OnRead(s) ==
    /\ op[s] = "read"
    /\ strand[s] = "idle"
    /\ op' = [op EXCEPT ![s] = "none"]
    /\ strand' = [strand EXCEPT ![s] = "handle"]
    /\ UNCHANGED <<peer, response, writes, shut, handlerVars>>

\* on_read with end_of_stream closes, with another error (a malformed request
\* from a client that is still there, say) only logs.
OnReadFails(s) ==
    /\ op[s] = "read"
    /\ strand[s] = "idle"
    /\ op' = [op EXCEPT ![s] = "none"]
    /\ \E end_of_stream \in BOOLEAN : shut' = [shut EXCEPT ![s] = end_of_stream]
    /\ UNCHANGED <<peer, strand, response, writes, handlerVars>>

\* The request is given to the handler to answer, and not answered at once.
Queues(request, aquired) ==
    /\ request.requestType = "submitNonce"
    /\ aquired
    /\ request.accountId = "of_pool"
    /\ request.nonce = "number"

\* do_write(res): the first send runs at once and takes all of the response
\* or leaves some for the reactor; to a client that left it may also fail.
DoWrite(s) ==
    /\ \E outcome \in {"sending", "sent", "failed"} :
         /\ outcome = "failed" => peer[s] = "gone"
         /\ op' = [op EXCEPT ![s] = outcome]
    /\ response' = [response EXCEPT ![s] = "live"]
    /\ writes' = [writes EXCEPT ![s] = @ + 1]

\* Errors, refusals and mining info are written by handle_request itself.
Respond(s) ==
    /\ strand[s] = "handle"
    /\ \E request \in Requests, aquired \in BOOLEAN : ~Queues(request, aquired)
    /\ DoWrite(s)
    /\ strand' = [strand EXCEPT ![s] = "written"]
    /\ UNCHANGED <<peer, shut, handlerVars>>

\* Mutant: the session reads its next request without waiting for the answer.
Enqueue_ReadsOn(s) ==
    /\ strand[s] = "handle"
    /\ \E request \in Requests, aquired \in BOOLEAN : Queues(request, aquired)
    /\ q_' = q_ \cup {s}
    /\ op' = [op EXCEPT ![s] = "read"]
    /\ strand' = [strand EXCEPT ![s] = "queued"]
    /\ UNCHANGED <<peer, response, writes, shut, reqs, pending, batches, job,
                   dropped>>

\* enque_req does not look at the result of enqueue: without memory in the
\* queue the request is gone, and the session with it.
Enqueue(s) ==
    /\ strand[s] = "handle"
    /\ \E request \in Requests, aquired \in BOOLEAN : Queues(request, aquired)
    /\ \/ q_' = q_ \cup {s} /\ UNCHANGED dropped
       \/ dropped' = dropped \cup {s} /\ UNCHANGED q_
    /\ strand' = [strand EXCEPT ![s] = "queued"]
    /\ UNCHANGED <<peer, socketVars, shut, reqs, pending, batches, job>>

\* A response is a local variable: it dies when its function returns.
Expire(s) == response' = [response EXCEPT ![s] = IF @ = "live" THEN "dead" ELSE @]

\* handle_request returns: the response was its own, or will be a validator's.
Return(s) ==
    /\ strand[s] \in {"written", "queued"}
    /\ strand' = [strand EXCEPT ![s] = "idle"]
    /\ IF strand[s] = "written" THEN Expire(s) ELSE UNCHANGED response
    /\ UNCHANGED <<peer, op, writes, shut, handlerVars>>

\* The reactor sends what the first attempt left, from the response object.
SendRest(s) ==
    /\ op[s] = "sending"
    /\ \E outcome \in {"sent", "failed"} :
         /\ outcome = "failed" => peer[s] = "gone"
         /\ op' = [op EXCEPT ![s] = outcome]
    /\ UNCHANGED <<peer, strand, response, writes, shut, handlerVars>>

\* do_write always binds close = true, so a written response ends the session.
OnWrite(s) ==
    /\ op[s] \in {"sent", "failed"}
    /\ strand[s] = "idle"
    /\ op' = [op EXCEPT ![s] = "none"]
    /\ shut' = [shut EXCEPT ![s] = (op[s] = "sent")]
    /\ UNCHANGED <<peer, strand, response, writes, handlerVars>>

-----------------------------------------------------------------------------
(* DeadlineRequestHandler, as sessions see it                              *)

Dequeue ==
    /\ pending < Lanes
    /\ \E s \in q_ :
         /\ q_' = q_ \ {s}
         /\ reqs' = [reqs EXCEPT ![pending + 1] = s]
    /\ pending' = pending + 1
    /\ UNCHANGED <<peer, strand, socketVars, shut, batches, job, dropped>>

\* Mutant: the loop posts when it has waited, whether or not it has a request.
PostBatch_Empty ==
    /\ batches' = batches \cup {[reqs |-> reqs, pending |-> pending]}
    /\ pending' = 0
    /\ UNCHANGED <<peer, strand, socketVars, shut, q_, reqs, job, dropped>>

\* Mutant: the lanes just posted still count as new.
PostBatch_KeepsPending ==
    /\ pending > 0
    /\ batches' = batches \cup {[reqs |-> reqs, pending |-> pending]}
    /\ UNCHANGED <<peer, strand, socketVars, shut, q_, reqs, pending, job, dropped>>

\* Mutant: the whole array is posted as new.
PostBatch_AllLanes ==
    /\ pending > 0
    /\ batches' = batches \cup {[reqs |-> reqs, pending |-> Lanes]}
    /\ pending' = 0
    /\ UNCHANGED <<peer, strand, socketVars, shut, q_, reqs, job, dropped>>

\* A full batch, or a smaller one that waited; the array is copied, stale
\* lanes and all, and keeps its pointers.
PostBatch ==
    /\ pending > 0
    /\ batches' = batches \cup {[reqs |-> reqs, pending |-> pending]}
    /\ pending' = 0
    /\ UNCHANGED <<peer, strand, socketVars, shut, q_, reqs, job, dropped>>

TakeBatch(v) ==
    /\ job[v].pc = "idle"
    /\ \E b \in batches :
         /\ batches' = batches \ {b}
         /\ job' = [job EXCEPT ![v] = [reqs |-> b.reqs, pending |-> b.pending,
                                       at |-> 1, pc |-> "answer"]]
    /\ UNCHANGED <<peer, strand, socketVars, shut, q_, reqs, pending, dropped>>

\* validate_deadline calls write_ok or writeJSONError of the lane's session.
Answer(v) ==
    /\ job[v].pc = "answer"
    /\ LET s == job[v].reqs[job[v].at]
       IN s \in Sessions /\ DoWrite(s)
    /\ job' = [job EXCEPT ![v].pc = "return"]
    /\ UNCHANGED <<peer, strand, shut, q_, reqs, pending, batches, dropped>>

\* Mutant: the validator never gets past the first lane.
NextLane_FirstOnly(v) ==
    /\ job[v].pc = "return"
    /\ Expire(job[v].reqs[job[v].at])
    /\ job' = [job EXCEPT ![v] = IdleJob]
    /\ UNCHANGED <<peer, op, strand, writes, shut, q_, reqs, pending, batches,
                   dropped>>

\* On to the next new lane; after the last one the batch is dropped.
Onward(j) == IF j.at < j.pending
             THEN [j EXCEPT !.at = j.at + 1, !.pc = "answer"]
             ELSE IdleJob

\* write_ok returns.
NextLane(v) ==
    /\ job[v].pc = "return"
    /\ Expire(job[v].reqs[job[v].at])
    /\ job' = [job EXCEPT ![v] = Onward(@)]
    /\ UNCHANGED <<peer, op, strand, writes, shut, q_, reqs, pending, batches,
                   dropped>>

Validate(v) == TakeBatch(v) \/ Answer(v) \/ NextLane(v)

-----------------------------------------------------------------------------

Handle(s) == Respond(s) \/ Enqueue(s) \/ Return(s) \/ OnWrite(s)

Client(s) == Accept(s) \/ PeerLeaves(s) \/ OnRead(s)

\* Every client came and went, and only a lane's array may still hold one.
Finished ==
    /\ \A s \in Sessions : peer[s] = "gone" /\ op[s] = "none" /\ strand[s] = "idle"
    /\ q_ = {} /\ pending = 0 /\ batches = {}
    /\ \A v \in Validators : job[v].pc = "idle"

Terminated == Finished /\ UNCHANGED vars

Next ==
    \/ \E s \in Sessions :
         Client(s) \/ OnReadFails(s) \/ Handle(s) \/ SendRest(s)
    \/ Dequeue \/ PostBatch
    \/ \E v \in Validators : Validate(v)
    \/ Terminated

Spec == Init /\ [][Next]_vars

\* Threads of both pools, the reactor and the distributor run.  A client need
\* not come, speak or leave, but takes what is sent to it if it stays; one
\* that left is noticed.
FairSpec ==
    /\ Spec
    /\ \A s \in Sessions :
         /\ WF_vars(peer[s] = "gone" /\ OnReadFails(s))
         /\ WF_vars(Handle(s))
         /\ WF_vars(SendRest(s))
    /\ WF_vars(Dequeue) /\ WF_vars(PostBatch)
    /\ \A v \in Validators : WF_vars(Validate(v))

-----------------------------------------------------------------------------
(* Properties                                                              *)

\* Every variable has its type.
TypeOK ==
    /\ peer \in [Sessions -> {"away", "there", "gone"}]
    /\ op \in [Sessions -> {"none", "read", "sending", "sent", "failed"}]
    /\ strand \in [Sessions -> {"idle", "handle", "written", "queued"}]
    /\ response \in [Sessions -> {"none", "live", "dead"}]
    /\ writes \in [Sessions -> Nat]
    /\ shut \in [Sessions -> BOOLEAN]
    /\ q_ \subseteq Sessions
    /\ reqs \in LaneArray
    /\ pending \in 0 .. Lanes
    /\ batches \subseteq Batch
    /\ job \in [Validators -> [reqs : LaneArray, pending : 1 .. Lanes,
                               at : 1 .. Lanes, pc : {"idle", "answer", "return"}]]
    /\ dropped \subseteq Sessions

\* A validator that works on a batch never comes to a lane without a request,
\* whose session it would dereference: every lane counted as new, in the array,
\* in a posted copy or ahead in a validator's copy, holds a session (and no
\* batch is posted empty, by the types).
NewLanesHoldSessions ==
    /\ TypeOK
    /\ \A l \in 1 .. pending : reqs[l] \in Sessions
    /\ \A b \in batches : \A l \in 1 .. b.pending : b.reqs[l] \in Sessions
    /\ \A v \in Validators :
          job[v].pc # "idle" =>
            \A l \in 1 .. job[v].pending : job[v].reqs[l] \in Sessions

\* A connection gets at most one response, although the arrays that
\* validators work on still hold the requests of earlier batches.
AtMostOneResponse == \A s \in Sessions : writes[s] =< 1

\* A validator that is about to write, off the strand, finds no operation
\* outstanding on the socket and no handler of that session that will start
\* one: the code needs no lock because the session waits for the answer.
ValidatorHasSocket ==
    \A v \in Validators :
        job[v].pc = "answer" =>
            LET s == job[v].reqs[job[v].at]
            IN s \in Sessions => /\ op[s] = "none"
                                 /\ strand[s] # "handle"
                                 /\ ~shut[s]

\* The message extends for the duration of the write: what is still to be
\* sent is read from a response that exists.
MessageOutlivesWrite ==
    \A s \in Sessions : op[s] = "sending" => response[s] = "live"

\* Held by something other than the distributor's array.
InUse(s) ==
    \/ op[s] # "none" \/ strand[s] # "idle"
    \/ s \in q_
    \/ \E l \in 1 .. pending : reqs[l] = s
    \/ \E b \in batches : \E l \in 1 .. Lanes : b.reqs[l] = s
    \/ \E v \in Validators : \E l \in 1 .. Lanes : job[v].reqs[l] = s

\* Every request is responded to, unless the queue had no memory for it, and
\* its session is then given up by all but, perhaps, a stale lane of the
\* distributor's array (which a later batch may copy again for a while).
RequestEndsSession ==
    \A s \in Sessions :
        strand[s] = "handle" ~> /\ writes[s] = 1 \/ s \in dropped
                                /\ op[s] = "none" /\ ~InUse(s)
=============================================================================
