------------------------------- MODULE Shabal -------------------------------
(***************************************************************************)
(* The arithmetic of the Shabal hash as both vector kernels do it          *)
(* (mshabal256_avx2.c, mshabal_sse4.c): registers hold one word per lane,  *)
(* in memory the words of the lanes alternate.  The lines that the kernels *)
(* unroll are index formulas here.                                         *)
(*                                                                         *)
(* The unit is the word: every message the node hashes is a whole number   *)
(* of words.  Bytes have ByteBits bits instead of 8, the two words of the   *)
(* block counter CounterBits instead of 32.                                *)
(***************************************************************************)
EXTENDS Integers, Sequences

CONSTANTS ByteBits, CounterBits

ASSUME WidthAssumption == ByteBits \in Nat \ {0} /\ CounterBits \in Nat \ {0}

WordBits == 4 * ByteBits
Word == 0 .. 2^WordBits - 1
Counter == 0 .. 2^CounterBits - 1

BlockWords == 16     \* sizeof buf0: 64 bytes
HashWords == 8       \* 256 bits

\* A counter word is no wider than a message word.  The second assumption is
\* arithmetic: the provers know nothing of exponents.
ASSUME CounterAssumption == CounterBits <= WordBits
ASSUME PowersAssumption ==
    2^0 = 1 /\ 2^1 = 2 /\ \A i, j \in 0 .. WordBits : 2^i \in Nat \ {0} /\ 2^(i + j) = 2^i * 2^j

-----------------------------------------------------------------------------
\* The sequence that a function on 1 .. n is, as a tuple: TLC then evaluates
\* its elements once.
Tuple(f) == f \o << >>

\* F(x), and F(... F(F(x, 1), 2) ..., n).  The sets of one element make TLC
\* evaluate what F is applied to before it applies F.
Strictly(F(_), x) == CHOOSE y \in {F(z) : z \in {x}} : TRUE
Iterated(F(_, _), x, n) ==
    LET run[k \in 0 .. n] ==
            IF k = 0 THEN x ELSE Strictly(LAMBDA r : F(r, k), run[k - 1])
    IN run[n]

-----------------------------------------------------------------------------
(* Words                                                                   *)

\* The exclusive or of two numbers of w bits: the lowest bit, and the others.
xor[w \in 0 .. WordBits] ==
    [x \in 0 .. 2^w - 1 |-> [y \in 0 .. 2^w - 1 |->
        IF w = 0 THEN 0 ELSE ((x + y) % 2) + 2 * xor[w - 1][x \div 2][y \div 2]]]

\* One row after the other.
XorTable == Tuple([z \in 1 .. 2^WordBits * 2^WordBits |->
                      xor[WordBits][(z - 1) \div 2^WordBits][(z - 1) % 2^WordBits]])
x (+) y == XorTable[x * 2^WordBits + y + 1]
Plus(x, y) == (x + y) % 2^WordBits
Minus(x, y) == (x - y) % 2^WordBits
BothSet(x, y) == (x + y - (x (+) y)) \div 2
Complement(x) == 2^WordBits - 1 - x
Rotate(x, n) == LET m == n % WordBits
                IN ((x * 2^m) % 2^WordBits) + (x \div 2^(WordBits - m))

\* The bytes of a word, from the lowest, and a word with its bytes reversed.
Byte(x, i) == (x \div 2^(i * ByteBits)) % 2^ByteBits
Reversed(x) == Byte(x, 0) * 2^(3 * ByteBits) + Byte(x, 1) * 2^(2 * ByteBits)
                 + Byte(x, 2) * 2^ByteBits + Byte(x, 3)

-----------------------------------------------------------------------------
(* Registers of n lanes, and blocks: sequences of words                    *)

\* Mutant: the words of one lane follow each other.
LoadVector_ByLane(n, words, j) ==
    Tuple([l \in 1 .. n |-> words[16 * (l - 1) + j + 1]])

\* The j-th register in memory, counted from 0.
LoadVector(n, words, j) == SubSeq(words, n * j + 1, n * j + n)

LoadVectors(n, words, first, count) ==
    Tuple([j \in 1 .. count |-> LoadVector(n, words, first + j - 1)])

\* U and V of PP.
Times3(x) == Plus(Plus(x, x), x)
Times5(x) == Plus(Plus(Plus(x, x), Plus(x, x)), x)

\* The k-th step of the permutation, on registers that take turns: PP.
RegA(r, k, l) == r.A[(k % 12) + 1][l]
RegB(r, k, l) == r.B[(k % 16) + 1][l]
NextA(r, C, M, k, l) ==
    Times3(RegA(r, k, l) (+) Times5(Rotate(RegA(r, k + 11, l), 15)) (+) C[((8 - k) % 16) + 1][l])
      (+) RegB(r, k + 13, l)
      (+) (BothSet(Complement(RegB(r, k + 6, l)), RegB(r, k + 9, l)) (+) M[(k % 16) + 1][l])
Stepped(n, r, k, xa0) ==
    [A |-> [r.A EXCEPT ![(k % 12) + 1] = xa0],
     B |-> [r.B EXCEPT ![(k % 16) + 1] =
               Tuple([l \in 1 .. n |-> Rotate(RegB(r, k, l), 1) (+) Complement(xa0[l])])]]
PP(n, r, C, M, k) ==
    Strictly(LAMBDA xa0 : Stepped(n, r, k, xa0),
             Tuple([l \in 1 .. n |-> NextA(r, C, M, k, l)]))

\* Before and after the 48 steps.
Prepared(n, r, M, Wlow, Whigh) ==
    LET A0(j, l) == r.A[j][l] (+) IF j = 1 THEN Wlow ELSE IF j = 2 THEN Whigh ELSE 0
    IN [A |-> Tuple([j \in 1 .. 12 |-> Tuple([l \in 1 .. n |-> A0(j, l)])]),
        B |-> Tuple([j \in 1 .. 16 |->
                  Tuple([l \in 1 .. n |-> Rotate(Plus(r.B[j][l], M[j][l]), 17)])])]
Finished(n, C, M, end) ==
    LET A(j, l) == Plus(Plus(end.A[j][l], C[((j + 10) % 16) + 1][l]),
                        Plus(C[((j + 14) % 16) + 1][l], C[((j + 2) % 16) + 1][l]))
    IN Tuple([j \in 1 .. 12 |-> Tuple([l \in 1 .. n |-> A(j, l)])])
         \o Tuple([j \in 1 .. 16 |-> Tuple([l \in 1 .. n |-> Minus(C[j][l], M[j][l])])])
         \o end.B

\* One block: the registers A, B, C come in, and the next A, B, C leave.
Permute(n, r, M, Wlow, Whigh) ==
    Strictly(LAMBDA end : Finished(n, r.C, M, end),
             Iterated(LAMBDA s, k : PP(n, s, r.C, M, k - 1),
                      Prepared(n, r, M, Wlow, Whigh), 48))

-----------------------------------------------------------------------------
(* Contexts of n lanes                                                     *)

\* if (++sc->Wlow == 0) sc->Whigh++
Increment(sc) ==
    LET low == (sc.Wlow + 1) % 2^CounterBits
    IN [sc EXCEPT !.Wlow = low,
                  !.Whigh = (@ + (IF low = 0 THEN 1 ELSE 0)) % 2^CounterBits]

\* if (!sc->Wlow--) sc->Whigh--
Decrement(sc) ==
    [sc EXCEPT !.Wlow = (@ - 1) % 2^CounterBits,
               !.Whigh = (@ - (IF sc.Wlow = 0 THEN 1 ELSE 0)) % 2^CounterBits]

\* The words of the lanes' blocks, taken in turn, and those of registers.
Interleaved(n, bufs) ==
    Tuple([j \in 1 .. BlockWords * n |-> bufs[((j - 1) % n) + 1][((j - 1) \div n) + 1]])
Memory(n, regs) ==
    Tuple([z \in 1 .. 44 * n |-> regs[((z - 1) \div n) + 1][((z - 1) % n) + 1]])

\* bufs are the blocks of the lanes.
Compress(n, sc, bufs) ==
    Increment([sc EXCEPT !.state =
        Strictly(LAMBDA regs : Memory(n, regs),
                 Permute(n, [A |-> LoadVectors(n, sc.state, 0, 12),
                             B |-> LoadVectors(n, sc.state, 12, 16),
                             C |-> LoadVectors(n, sc.state, 28, 16)],
                         LoadVectors(n, Interleaved(n, bufs), 0, 16),
                         sc.Wlow, sc.Whigh))])

\* The two blocks that init hashes hold first + k in their k-th word.
PrefixBlocks(n, first) ==
    Tuple([l \in 1 .. n |->
        Tuple([k \in 1 .. BlockWords |-> (first + k - 1) % 2^WordBits])])

InitContext(n, out_size) ==
    LET Hashed(sc, first) ==
            Strictly(LAMBDA c : Compress(n, c, c.buf),
                     [sc EXCEPT !.buf = PrefixBlocks(n, first)])
    IN Hashed(Hashed([state |-> Tuple([z \in 1 .. 44 * n |-> 0]), ptr |-> 0, buf |-> << >>,
                      Wlow |-> 2^CounterBits - 1, Whigh |-> 2^CounterBits - 1], out_size),
              out_size + 16)

\* memcpy(buf + at, data, len)
Copied(buf, at, data) ==
    SubSeq(buf, 1, at) \o data \o SubSeq(buf, at + Len(data) + 1, BlockWords)

\* Mutant: a chunk that just fills the buffer leaves it full.
FitsInBuffer_Full(sc, len) == sc.ptr # 0 /\ BlockWords - sc.ptr >= len

FitsInBuffer(sc, len) == sc.ptr # 0 /\ BlockWords - sc.ptr > len

\* The words of a chunk from the one after `from' up to the one at `to', for
\* each lane: as a block, and copied into the buffer.
Part(n, data, from, to) == Tuple([l \in 1 .. n |-> SubSeq(data[l], from + 1, to)])
Kept(n, sc, data, from, to) ==
    [sc EXCEPT !.ptr = @ + to - from,
               !.buf = Tuple([l \in 1 .. n |->
                           Copied(@[l], sc.ptr, SubSeq(data[l], from + 1, to))])]

\* A started buffer is filled up and hashed, whole blocks are hashed where
\* they are, and what is left is kept in the buffer.
FillUp(n, sc, data, head) ==
    IF sc.ptr = 0 THEN sc
    ELSE Strictly(LAMBDA c : [Compress(n, c, c.buf) EXCEPT !.ptr = 0],
                  Kept(n, sc, data, 0, head))
Feed(n, sc, data) ==
    LET len  == Len(data[1])
        head == IF sc.ptr = 0 THEN 0 ELSE BlockWords - sc.ptr
        num  == (len - head) \div BlockWords
        From(b) == head + BlockWords * b
    IN IF FitsInBuffer(sc, len) THEN Kept(n, sc, data, 0, len)
       ELSE Strictly(LAMBDA c : Kept(n, c, data, From(num), len),
                     Iterated(LAMBDA c, b : Compress(n, c, Part(n, data, From(b - 1), From(b))),
                              FillUp(n, sc, data, head), num))

\* The last block, ended by the byte 0x80, four times under one counter.
Padded(n, sc) ==
    LET rest == [k \in 1 .. BlockWords - sc.ptr |-> IF k = 1 THEN 2^(ByteBits - 1) ELSE 0]
    IN [sc EXCEPT !.buf = Tuple([l \in 1 .. n |-> Copied(@[l], sc.ptr, rest)])]
CloseContext(n, sc) ==
    Iterated(LAMBDA c, k : Decrement(Compress(n, c, c.buf)), Padded(n, sc), 4)

\* The digests of the lanes: out_size \div 32 words from register `first' on.
Digests(n, sc, first) ==
    Tuple([l \in 1 .. n |->
        Tuple([i \in 1 .. HashWords |-> sc.state[n * (first + i - 1) + l]])])

-----------------------------------------------------------------------------
(* mshabal256_avx2.c: a null chunk is not looked for, so every lane must be *)
(* given one.                                                              *)

CONSTANT Lanes256        \* 8

mshabal256_compress(sc, bufs) == Compress(Lanes256, sc, bufs)

mshabal256_init == InitContext(Lanes256, 256)

mshabal256(sc, data) == Feed(Lanes256, sc, data)

mshabal256_close(sc) ==
    Digests(Lanes256, CloseContext(Lanes256, sc), 36)

-----------------------------------------------------------------------------
(* mshabal_sse4.c: a lane whose chunk is null gets that of another one.    *)

CONSTANTS Lanes4,        \* 4
          NULL

ASSUME LanesAssumption == Lanes256 \in Nat \ {0} /\ Lanes4 \in Nat \ {0}
ASSUME NullAssumption == NULL \notin Seq(Word)

sse4_mshabal_compress(sc, bufs) == Compress(Lanes4, sc, bufs)

\* out_size is set after the prefix has been hashed; every caller passes 256.
sse4_mshabal_init == InitContext(Lanes4, 256)

\* data0 takes the first chunk that is there, the others take data0's.
Aliased(data) ==
    LET given == {l \in 1 .. Lanes4 : data[l] # NULL}
        first == CHOOSE l \in given : \A m \in given : l <= m
    IN Tuple([l \in 1 .. Lanes4 |-> IF l \in given THEN data[l] ELSE data[first]])

sse4_mshabal(sc, data) ==
    IF \A l \in 1 .. Lanes4 : data[l] = NULL THEN sc
    ELSE Feed(Lanes4, sc, Aliased(data))

\* No caller has extra bits (n is 0), and each has a place for every digest.
sse4_mshabal_close(sc) ==
    Digests(Lanes4, CloseContext(Lanes4, sc), 28 + (16 - HashWords))

-----------------------------------------------------------------------------
(* shabal64.s: one message at a time, the definition of the hash.  A block  *)
(* is mixed into the state by two linear recurrences.                       *)

\* One step of the recurrences, k counted from 1.
Recurred(r, C, m, k) ==
    LET v == Rotate(r.a[k + 11], 15)
        u == r.a[k] (+) ((5 * v) % 2^WordBits) (+) C[((9 - k) % 16) + 1]
        x == ((3 * u) % 2^WordBits) (+) r.b[k + 13]
               (+) BothSet(Complement(r.b[k + 6]), r.b[k + 9])
               (+) m[((k - 1) % 16) + 1]
    IN Strictly(LAMBDA z : [a |-> Append(r.a, z),
                            b |-> Append(r.b, Rotate(r.b[k], 1) (+) Complement(z))], x)

Mixed(st, m, w) ==
    LET W(j) == IF j = 1 THEN w % 2^CounterBits
                ELSE IF j = 2 THEN w \div 2^CounterBits ELSE 0
        C(j) == st.C[(j % 16) + 1]
    IN Strictly(LAMBDA end :
                    [A |-> Tuple([j \in 1 .. 12 |->
                        (end.a[48 + j] + C(j + 2) + C(j + 14) + C(j + 10)) % 2^WordBits]),
                     B |-> Tuple([j \in 1 .. 16 |-> Minus(st.C[j], m[j])]),
                     C |-> SubSeq(end.b, 49, 64)],
                Iterated(LAMBDA r, k : Recurred(r, st.C, m, k),
                         [a |-> Tuple([j \in 1 .. 12 |-> st.A[j] (+) W(j)]),
                          b |-> Tuple([j \in 1 .. 16 |-> Rotate(Plus(st.B[j], m[j]), 17)])],
                         48))

\* Two prefix blocks, the padded message, and the last block three times more.
PaddedMessage(message) ==
    Tuple([k \in 1 .. 32 |-> (256 + k - 1) % 2^WordBits]) \o message
      \o Tuple([k \in 1 .. BlockWords - (Len(message) % BlockWords) |->
                   IF k = 1 THEN 2^(ByteBits - 1) ELSE 0])
shabal(message) ==
    LET blocks == 3 + (Len(message) \div BlockWords)
        Block(b) == SubSeq(PaddedMessage(message), BlockWords * (b - 1) + 1, BlockWords * b)
        Last(b)  == IF b < blocks THEN b ELSE blocks
        Zero(n)  == Tuple([j \in 1 .. n |-> 0])
    IN SubSeq(Iterated(LAMBDA st, b : Mixed(st, Block(Last(b)),
                                            (Last(b) - 2) % 2^(2 * CounterBits)),
                       [A |-> Zero(12), B |-> Zero(16), C |-> Zero(16)],
                       blocks + 3).C, 9, 16)

=============================================================================
