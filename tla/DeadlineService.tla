--------------------------- MODULE DeadlineService ---------------------------
(***************************************************************************)
(* What the node promises the miners about submitNonce, without queue,     *)
(* batches, threads or locks: a request is taken with the block of that    *)
(* moment, one instant decides what becomes of it, and the answer tells    *)
(* the deadline it was decided with.                                       *)
(***************************************************************************)
EXTENDS Integers, Sequences

CONSTANTS
    Requests, account_id,     \* each request names one account
    Registered,               \* accounts with a round
    UINT64_MAX,               \* the deadline of a round nobody improved yet
    deadline_limit_, poc2_start_height_, MaxHeight,
    CalculateDeadline(_, _, _)

VARIABLES
    block,       \* height of the newest block
    start,       \* height of the only round there ever is
    asked,       \* requests that have arrived
    open,        \* [id, height] of the requests not decided yet
    settled,     \* [id, height, deadline] of those decided, not answered
    forwarded,   \* what the pools were sent, in order
    answers,     \* what each request was told
    lost         \* requests the node had no memory for

vars == <<block, start, asked, open, settled, forwarded, answers, lost>>

Init ==
    /\ start \in 0 .. MaxHeight
    /\ block = start
    /\ asked = {}
    /\ open = {}
    /\ settled = {}
    /\ forwarded = <<>>
    /\ answers = [r \in Requests |-> <<>>]
    /\ lost = {}

\* The request's own deadline; its plot format may be that of any block the
\* node has seen, since requests of several blocks can share a batch.
DeadlinesOf(x) ==
    {CalculateDeadline(x.id, x.height, h >= poc2_start_height_) :
        h \in start .. block}

Improves(x, d) ==
    /\ x.height = start
    /\ d < UINT64_MAX
    /\ \A i \in DOMAIN forwarded :
          forwarded[i].account = account_id[x.id] => d < forwarded[i].deadline

Tell(r, status, d, h) ==
    answers' = [answers EXCEPT ![r] =
        Append(@, [status |-> status, deadline |-> d, height |-> h])]

Settle(x, d) ==
    /\ open' = open \ {x}
    /\ settled' = settled \cup
          {[id |-> x.id, height |-> x.height, deadline |-> d]}

-----------------------------------------------------------------------------
NewBlock ==
    /\ \E h \in 0 .. MaxHeight : block < h /\ block' = h
    /\ UNCHANGED <<start, asked, open, settled, forwarded, answers, lost>>

Refuse(r) ==
    /\ r \notin asked
    /\ account_id[r] \notin Registered
    /\ asked' = asked \cup {r}
    /\ Tell(r, "1004", 0, 0)
    /\ UNCHANGED <<block, start, open, settled, forwarded, lost>>

Ask(r) ==
    /\ r \notin asked
    /\ account_id[r] \in Registered
    /\ asked' = asked \cup {r}
    /\ open' = open \cup {[id |-> r, height |-> block]}
    /\ UNCHANGED <<block, start, settled, forwarded, answers, lost>>

Lose(x) ==
    /\ open' = open \ {x}
    /\ lost' = lost \cup {x.id}
    /\ UNCHANGED <<block, start, asked, settled, forwarded, answers>>

RejectOverLimit(x, d) ==
    /\ d > deadline_limit_
    /\ open' = open \ {x}
    /\ Tell(x.id, "1008", d, x.height)
    /\ UNCHANGED <<block, start, asked, settled, forwarded, lost>>

Forward(x, d) ==
    /\ d <= deadline_limit_
    /\ Improves(x, d)
    /\ forwarded' = Append(forwarded,
                       [id |-> x.id, account |-> account_id[x.id],
                        deadline |-> d, height |-> x.height])
    /\ Settle(x, d)
    /\ UNCHANGED <<block, start, asked, answers, lost>>

Beaten(x, d) ==
    /\ d <= deadline_limit_
    /\ ~Improves(x, d)
    /\ Settle(x, d)
    /\ UNCHANGED <<block, start, asked, forwarded, answers, lost>>

\* Requests of one account may stand in each other's way, but a request that
\* is alone with its account is always compared.
GiveUp(x, d) ==
    /\ d <= deadline_limit_
    /\ \E y \in open \cup settled :
          y.id # x.id /\ account_id[y.id] = account_id[x.id]
    /\ Settle(x, d)
    /\ UNCHANGED <<block, start, asked, forwarded, answers, lost>>

Reply(s) ==
    /\ settled' = settled \ {s}
    /\ Tell(s.id, "success", s.deadline, s.height)
    /\ UNCHANGED <<block, start, asked, open, forwarded, lost>>

Next ==
    \/ NewBlock
    \/ \E r \in Requests : Refuse(r) \/ Ask(r)
    \/ \E x \in open : Lose(x)
    \/ \E x \in open : \E d \in DeadlinesOf(x) :
          \/ RejectOverLimit(x, d)
          \/ Forward(x, d)
          \/ Beaten(x, d)
          \/ GiveUp(x, d)
    \/ \E s \in settled : Reply(s)

Spec == Init /\ [][Next]_vars
=============================================================================
