------------------------------- MODULE Hashing -------------------------------
(***************************************************************************)
(* The hash contexts of both kernels at work: a context is initialized,    *)
(* fed with chunks of any length and closed; and batches of requests are   *)
(* worked out from the gensig of their block to the deadline.              *)
(*                                                                         *)
(* Every lane shares its context's buffer pointer, block counter and       *)
(* registers with the others.  The properties say that this never shows.   *)
(***************************************************************************)
EXTENDS BurstMath, FiniteSets

CONSTANTS MaxChunks,      \* bound on the calls between init and close
          ChunkLengths    \* the lengths they are given, in words

ASSUME ChunksAssumption == MaxChunks \in Nat /\ ChunkLengths \in SUBSET Nat

VARIABLES kernel,     \* "avx2" or "sse4"
          sc,         \* its context
          idle,       \* the lanes whose chunks are NULL
          fed,        \* the lengths fed so far
          digests,    \* what close returned, or << >>
          batch,      \* the last batch: poc2 and its requests
          deadlines   \* and the deadlines returned for it

vars == <<kernel, sc, idle, fed, digests, batch, deadlines>>

\* The l-th message's i-th word, and the first words of it.
MessageWord(l, i) == (i * i + 7 * i + 5 * l) % 2^WordBits
Message(l, len) == Tuple([i \in 1 .. len |-> MessageWord(l, i)])

FedLength == LET sum[k \in 0 .. Len(fed)] == IF k = 0 THEN 0 ELSE sum[k - 1] + fed[k]
             IN sum[Len(fed)]

\* Two miners' nonces, for two blocks (a batch may span a change of block),
\* and a lane that nobody asked for: what it holds is no miner's request.
Gensig == Message(3, HashWords)
Height(n) == <<n + 2, 1>>
Asked(n) == [base_target |-> n + 2, scoop_nr |-> calculate_scoop(Height(n), Gensig),
             gensig |-> Gensig, addr |-> <<n, 1>>, nonce |-> <<7 * n, n + 1>>]
Unused == [base_target |-> 1, scoop_nr |-> 0, gensig |-> Message(4, HashWords),
           addr |-> <<0, 0>>, nonce |-> <<0, 0>>]
Requests == {Asked(1), Asked(2), Unused}

-----------------------------------------------------------------------------
\* avx2 has no idle lanes; in sse4 one lane at least has data.
Idle(k) == IF k = "avx2" THEN {{}} ELSE (SUBSET (1 .. Lanes4)) \ {1 .. Lanes4}

Init == /\ kernel \in {"avx2", "sse4"}
        /\ idle \in Idle(kernel)
        /\ sc = Fresh(kernel)
        /\ fed = << >> /\ digests = << >> /\ batch = << >> /\ deadlines = << >>

\* The program hashes in one of two ways, and no context outlives a call.
Update(len) ==
    /\ digests = << >> /\ batch = << >> /\ Len(fed) < MaxChunks
    /\ LET Chunk(l) == IF l \in idle THEN NULL
                       ELSE SubSeq(Message(l, FedLength + len),
                                   FedLength + 1, FedLength + len)
       IN sc' = Fed(kernel, sc, Tuple([l \in Lanes(kernel) |-> Chunk(l)]))
    /\ fed' = Append(fed, len)
    /\ UNCHANGED <<kernel, idle, digests, batch, deadlines>>

Close ==
    /\ fed # << >> /\ digests = << >>
    /\ digests' = Closed(kernel, sc)
    /\ UNCHANGED <<kernel, sc, idle, fed, batch, deadlines>>

\* The next init: nothing of the old context is read again.
Again ==
    /\ digests # << >> \/ batch # << >>
    /\ sc' = Fresh(kernel)
    /\ fed' = << >> /\ digests' = << >> /\ batch' = << >> /\ deadlines' = << >>
    /\ UNCHANGED <<kernel, idle>>

\* One call of calculate_deadlines_avx2 or _sse4; the height of the batch's
\* first request decides for all of them whether they are read as poc2.
Calculate(poc2, reqs) ==
    /\ fed = << >> /\ batch = << >> /\ idle = {}
    /\ batch' = [poc2 |-> poc2, reqs |-> reqs]
    /\ deadlines' = IF kernel = "avx2" THEN calculate_deadlines_avx2(poc2, reqs)
                    ELSE calculate_deadlines_sse4(poc2, reqs)
    /\ UNCHANGED <<kernel, sc, idle, fed, digests>>

Next == \/ \E len \in ChunkLengths : Update(len)
        \/ Close
        \/ Again
        \/ \E poc2 \in BOOLEAN, reqs \in [Lanes(kernel) -> Requests] : Calculate(poc2, reqs)

Spec == Init /\ [][Next]_vars

-----------------------------------------------------------------------------
\* The context is what its chunks add up to, wherever they were cut: the
\* buffer holds the words of each lane that no block has taken, and the
\* two-word counter the number of the next block, carries included
\* (mshabal256 and sse4_mshabal; the buffer pointer is shared by the lanes).
ContextIsMessage ==
    /\ sc.ptr = FedLength % BlockWords
    /\ sc.Wlow + 2^CounterBits * sc.Whigh
         = (FedLength \div BlockWords + 1) % 2^(2 * CounterBits)
    /\ \A l \in Lanes(kernel) \ idle, i \in 1 .. sc.ptr :
           sc.buf[l][i] = MessageWord(l, FedLength - sc.ptr + i)

\* Each lane's digest is the one-lane hash of its own message: the
\* interleaving of memory, the register shuffles, the padding and the counter
\* of the closing blocks do not mix lanes up (mshabal256_compress and _close,
\* sse4_mshabal_compress and _close).
DigestIsLaneHash ==
    digests # << >> =>
        \A l \in Lanes(kernel) \ idle : digests[l] = shabal(Message(l, FedLength))

\* The deadline of a request, as the network defines it: one lane, the scoop
\* read as a number of the whole digest, the plot built from its end.
Defined(r, poc2) ==
    LET Longer(t, k) ==
            shabal(SubSeq(t, 1, IF Len(t) < HashCap THEN Len(t) ELSE HashCap)) \o t
        nr == IF r = Unused THEN 0
              ELSE Reversed(shabal(r.gensig \o BigEndian(Height(r.addr[1])))[8])
                     % NUM_SCOOPS
        Clear(gendata, final, h) ==
            Tuple([i \in 1 .. HashWords |-> gendata[HashWords * h + i] (+) final[i]])
        Read(gendata, final) ==
            Clear(gendata, final, 2 * nr)
              \o Clear(gendata, final, IF poc2 THEN 2 * NUM_SCOOPS - 1 - 2 * nr
                                       ELSE 2 * nr + 1)
        Target(gendata) ==
            Strictly(LAMBDA final : shabal(r.gensig \o Read(gendata, final)),
                     shabal(gendata))
    IN Strictly(LAMBDA target : (target[1] + 2^WordBits * target[2]) \div r.base_target,
                Strictly(Target, Iterated(Longer, BigEndian(r.addr) \o BigEndian(r.nonce),
                                          2 * NUM_SCOOPS)))

\* A miner is told the deadline of its own nonce, whatever the other lanes
\* of the batch were given (calculate_deadlines_avx2, _sse4, calculate_scoop).
DeadlineIsOwn ==
    batch # << >> =>
        \A l \in Lanes(kernel) : deadlines[l] = Defined(batch.reqs[l], batch.poc2)

=============================================================================
