------------------------------ MODULE BurstMath ------------------------------
(***************************************************************************)
(* burstmath.c: the scoop of a block and the deadlines of a batch of       *)
(* nonces, one nonce in each lane.                                         *)
(*                                                                         *)
(* A request is what one lane is called with: base_target, scoop_nr,       *)
(* gensig (HashWords words), addr and nonce (two words, the low one first).*)
(***************************************************************************)
EXTENDS Shabal

CONSTANTS ScoopBits,     \* log2 of NUM_SCOOPS: 12
          HashCap        \* HASH_CAP: 1024 words

\* calculate_scoop takes the number from the last two bytes of a digest.
ASSUME ScoopAssumption == ScoopBits \in ByteBits + 1 .. 2 * ByteBits /\ HashCap \in Nat

NUM_SCOOPS == 2^ScoopBits
ScoopWords == 2 * HashWords              \* SCOOP_SIZE
NonceWords == NUM_SCOOPS * ScoopWords    \* NONCE_SIZE

\* A number of two words with its highest byte first.
BigEndian(x) == <<Reversed(x[2]), Reversed(x[1])>>

\* Mutant: the mask of byte 30 lets one bit less through.
calculate_scoop_Mask(height, gensig) ==
    LET last == shabal(gensig \o BigEndian(height))[8]
    IN 2^ByteBits * (Byte(last, 2) % 2^(ScoopBits - ByteBits - 1)) + Byte(last, 3)

\* 0x0F keeps the bits of a scoop number that lie above one byte.
calculate_scoop(height, gensig) ==
    LET last == shabal(gensig \o BigEndian(height))[8]
    IN 2^ByteBits * (Byte(last, 2) % 2^(ScoopBits - ByteBits)) + Byte(last, 3)

-----------------------------------------------------------------------------
(* The two kernels                                                         *)

Lanes(kernel) == 1 .. (IF kernel = "avx2" THEN Lanes256 ELSE Lanes4)

Fresh(kernel) == IF kernel = "avx2" THEN mshabal256_init ELSE sse4_mshabal_init
Fed(kernel, sc, data) ==
    IF kernel = "avx2" THEN mshabal256(sc, data) ELSE sse4_mshabal(sc, data)
Closed(kernel, sc) ==
    IF kernel = "avx2" THEN mshabal256_close(sc) ELSE sse4_mshabal_close(sc)

\* One chunk per lane hashed, and two.
Hash(kernel, data) == Closed(kernel, Fed(kernel, Fresh(kernel), data))
Hash2(kernel, one, two) ==
    Closed(kernel, Fed(kernel, Fed(kernel, Fresh(kernel), one), two))

-----------------------------------------------------------------------------
(* The plot of a nonce: gendata, hashed backwards                          *)

\* memcpy(mem + at, words, ...)
Stored(mem, at, words) ==
    SubSeq(mem, 1, at) \o words \o SubSeq(mem, at + Len(words) + 1, Len(mem))

SET_NONCE(gendata, value, offset) ==
    Stored(gendata, NonceWords + offset, BigEndian(value))

\* gendata is not initialized; what the loops below read they have written.
Seeded(req) ==
    SET_NONCE(SET_NONCE(Tuple([i \in 1 .. NonceWords + 4 |-> 0]), req.addr, 0),
              req.nonce, 2)

\* What is hashed for the words before i.
Span(i) == LET len == NonceWords + 4 - i IN IF len > HashCap THEN HashCap ELSE len

\* gendata after the loop
Generated(kernel, reqs) ==
    LET Written(gendata, i, digests) ==
            Tuple([l \in Lanes(kernel) |->
                       Stored(gendata[l], i - HashWords, digests[l])])
        Step(gendata, i) ==
            Strictly(LAMBDA digests : Written(gendata, i, digests),
                     Hash(kernel, Tuple([l \in Lanes(kernel) |->
                                     SubSeq(gendata[l], i + 1, i + Span(i))])))
    IN Iterated(LAMBDA gendata, k : Step(gendata, NonceWords - HashWords * (k - 1)),
                Tuple([l \in Lanes(kernel) |-> Seeded(reqs[l])]),
                NonceWords \div HashWords)

\* XOR with final
Cleared(kernel, gendata, final) ==
    Tuple([l \in Lanes(kernel) |->
        Tuple([i \in 1 .. NonceWords |->
                   gendata[l][i] (+) final[l][((i - 1) % HashWords) + 1]])])
Plot(kernel, reqs) ==
    Strictly(LAMBDA gendata : Strictly(LAMBDA final : Cleared(kernel, gendata, final),
                                       Hash(kernel, gendata)),
             Generated(kernel, reqs))

-----------------------------------------------------------------------------
(* Deadlines                                                               *)

\* In poc2 the second half comes from the mirrored scoop.
Scoop(plot, scoop_nr, poc2) ==
    LET Half(nr, from) == SubSeq(plot, ScoopWords * nr + from + 1,
                                 ScoopWords * nr + from + HashWords)
    IN Half(scoop_nr, 0)
         \o Half(IF poc2 THEN NUM_SCOOPS - 1 - scoop_nr ELSE scoop_nr, HashWords)

Deadlines(kernel, poc2, reqs) ==
    LET Scoops(plots) ==
            Tuple([l \in Lanes(kernel) |-> Scoop(plots[l], reqs[l].scoop_nr, poc2)])
        Deadline(final, r) == (final[1] + 2^WordBits * final[2]) \div r.base_target
    IN Strictly(LAMBDA final : Tuple([l \in Lanes(kernel) |-> Deadline(final[l], reqs[l])]),
                Hash2(kernel, Tuple([l \in Lanes(kernel) |-> reqs[l].gensig]),
                      Strictly(Scoops, Plot(kernel, reqs))))

calculate_deadlines_avx2(poc2, reqs) == Deadlines("avx2", poc2, reqs)

calculate_deadlines_sse4(poc2, reqs) == Deadlines("sse4", poc2, reqs)

=============================================================================
