--------------------------- MODULE Hashing_proofs ----------------------------
(***************************************************************************)
(* Machine-checked proofs about the hashing kernels: whatever the chunks a *)
(* message is fed in, a context is what the message makes of it, and each  *)
(* lane's digest is the one-lane Shabal of its own message; and each lane  *)
(* of a batch gets the deadline of its own request; for any number of      *)
(* lanes and scoops, any width of a byte and of a counter, any chunk       *)
(* lengths.                                                                *)
(*                                                                         *)
(* A lane is followed along the words it is fed, prefix included (v[l] in  *)
(* the lemmas): after q whole blocks its registers are those of the        *)
(* one-lane definition, and its buffer holds the p words after them.       *)
(***************************************************************************)
EXTENDS Hashing, SequenceTheorems, NaturalsInduction, WellFoundedInduction, TLAPS

-----------------------------------------------------------------------------
(* Numbers                                                                 *)

\* A set of numbers has a least one.
LEMMA NatLeast ==
    ASSUME NEW S \in SUBSET Nat, S # {}
    PROVE  \E x \in S : \A y \in S : x <= y
<1>1. \E x \in S : \A y \in S : ~(<<y, x>> \in OpToRel(<, Nat))
  BY NatLessThanWellFounded, WFMin
<1>2. PICK x \in S : \A y \in S : ~(<<y, x>> \in OpToRel(<, Nat))
  BY <1>1
<1>3. ASSUME NEW y \in S, y < x PROVE FALSE
  <2>1. <<y, x>> \in OpToRel(<, Nat)
    BY <1>3 DEF OpToRel
  <2> QED BY <1>2, <2>1
<1>4. \A y \in S : x <= y
  BY <1>3
<1> QED BY <1>4

\* Division with remainder.
LEMMA ModDef ==
    ASSUME NEW n \in Nat, n > 0, NEW a \in Int
    PROVE  a % n \in 0 .. n-1 /\ a \div n \in Int /\ a = n * (a \div n) + (a % n)
<1>1. a \div n \in Int /\ a % n \in 0 .. n-1
  OBVIOUS
<1>2. a = n * (a \div n) + (a % n)
  OBVIOUS
<1> QED BY <1>1, <1>2

\* A multiple is not less than the number.
LEMMA MulMono ==
    ASSUME NEW n \in Nat, n > 0, NEW d \in Int, d > 0
    PROVE  n * d >= n
<1>1. n * (d - 1) >= 0
  OBVIOUS
<1>2. n * (d - 1) = n * d - n
  OBVIOUS
<1> QED BY <1>1, <1>2

\* The quotient and the remainder are the only ones.
LEMMA ModUnique ==
    ASSUME NEW n \in Nat, n > 0, NEW a \in Int, NEW b \in 0 .. n-1, NEW k \in Int, a = n * k + b
    PROVE  a % n = b /\ a \div n = k
<1>1. PICK d \in Int, r \in 0 .. n-1 : r = a % n /\ d = a \div n /\ a = n * d + r
  BY ModDef
<1>2. n * (d - k) = b - r /\ n * (k - d) = r - b
  BY <1>1
<1>3. ~(d > k)
  <2>1. d > k => n * (d - k) >= n
    BY MulMono
  <2> QED BY <1>2, <2>1
<1>4. ~(k > d)
  <2>1. k > d => n * (k - d) >= n
    BY MulMono
  <2> QED BY <1>2, <2>1
<1> QED BY <1>1, <1>3, <1>4

\* Multiples do not count for a remainder.
LEMMA ModShift ==
    ASSUME NEW n \in Nat, n > 0, NEW a \in Int, NEW k \in Int
    PROVE  (n * k + a) % n = a % n /\ (n * k + a) \div n = k + (a \div n)
<1>1. PICK d \in Int, r \in 0 .. n-1 : r = a % n /\ d = a \div n /\ a = n * d + r
  BY ModDef
<1>2. n * k + a = n * (k + d) + r /\ n * k + a \in Int /\ k + d \in Int
  BY <1>1
<1>3. PICK b \in Int, e \in Int : b = n * k + a /\ e = k + d
  BY <1>2
<1>4. b % n = r /\ b \div n = e
  BY <1>2, <1>3, ModUnique
<1> QED BY <1>1, <1>3, <1>4

-----------------------------------------------------------------------------
(* Sequences and runs                                                      *)

\* A function on 1 .. n is already the sequence Tuple makes of it.
LEMMA TupleIs ==
    ASSUME NEW n \in Nat, NEW S, NEW f \in [1 .. n -> S]
    PROVE  Tuple(f) = f /\ f \in Seq(S) /\ Len(f) = n
BY ConcatEmptySeq DEF Tuple

\* A sequence is a function on 1 .. Len.
LEMMA SeqFunctions ==
    ASSUME NEW S, NEW s \in Seq(S)
    PROVE  Len(s) \in Nat /\ s \in [1 .. Len(s) -> S]
BY LenProperties

\* c is a, of m elements, followed by b, of n elements.
Joined(S, c, a, m, b, n) ==
    /\ c \in [1 .. m + n -> S] /\ Len(c) = m + n /\ c \in Seq(S)
    /\ \A i \in 1 .. m : c[i] = a[i]
    /\ \A i \in 1 .. n : c[m + i] = b[i]

\* Two functions on 1 .. m and 1 .. n, one behind the other.
LEMMA ConcatFunctions ==
    ASSUME NEW S, NEW m \in Nat, NEW n \in Nat, NEW a \in [1 .. m -> S], NEW b \in [1 .. n -> S]
    PROVE  Joined(S, a \o b, a, m, b, n)
<1>1. a \in Seq(S) /\ Len(a) = m /\ b \in Seq(S) /\ Len(b) = n
  BY TupleIs
<1>2. PICK c : c = a \o b /\ c \in Seq(S) /\ Len(c) = Len(a) + Len(b)
               /\ \A i \in 1 .. Len(a) + Len(b) : c[i] = IF i <= Len(a) THEN a[i] ELSE b[i - Len(a)]
  <2>1. a \o b \in Seq(S) /\ Len(a \o b) = Len(a) + Len(b)
    BY <1>1, ConcatProperties
  <2>2. \A i \in 1 .. Len(a) + Len(b) : (a \o b)[i] = IF i <= Len(a) THEN a[i] ELSE b[i - Len(a)]
    BY <1>1, ConcatProperties
  <2> QED BY <2>1, <2>2
<1>3. c \in [1 .. m + n -> S] /\ Len(c) = m + n
  BY <1>1, <1>2, SeqFunctions
<1>4. ASSUME NEW i \in 1 .. m PROVE c[i] = a[i]
  <2>1. i \in 1 .. m + n /\ i <= m
    OBVIOUS
  <2> QED BY <1>1, <1>2, <2>1
<1>5. ASSUME NEW i \in 1 .. n PROVE c[m + i] = b[i]
  <2>1. PICK j : j = m + i /\ j \in 1 .. m + n /\ ~(j <= m) /\ j - m = i
    OBVIOUS
  <2>2. c[j] = b[j - m]
    BY <1>1, <1>2, <2>1
  <2> QED BY <2>1, <2>2
<1> QED BY <1>2, <1>3, <1>4, <1>5 DEF Joined

\* The states that the steps G lead through from x, the k-th one in T[k].
Stepping(n, S, T, x, G) ==
    /\ n \in Nat /\ T \in [0 .. n -> SUBSET S] /\ x \in T[0] /\ G \in [1 .. n -> [S -> S]]
    /\ \A k \in 1 .. n : \A s \in T[k - 1] : G[k][s] \in T[k]
Run(f, n, S, T, x, G) ==
    /\ f \in [0 .. n -> S] /\ f[0] = x
    /\ \A k \in 1 .. n : f[k] = G[k][f[k - 1]] /\ f[k] \in T[k]

\* A step that can always be taken can be taken n times.
LEMMA RunExists ==
    ASSUME NEW n, NEW S, NEW T, NEW x, NEW G, Stepping(n, S, T, x, G)
    PROVE  \E f : Run(f, n, S, T, x, G)
<1>0. /\ n \in Nat /\ T \in [0 .. n -> SUBSET S] /\ x \in T[0] /\ G \in [1 .. n -> [S -> S]]
      /\ \A k \in 1 .. n : \A s \in T[k - 1] : G[k][s] \in T[k]
  BY DEF Stepping
<1> DEFINE Sol(f, m) == /\ f \in [0 .. m -> S] /\ f[0] = x
                        /\ \A k \in 1 .. m : f[k] = G[k][f[k - 1]] /\ f[k] \in T[k]
           Bad == {m \in 0 .. n : ~ \E f : Sol(f, m)}
<1>1. SUFFICES ASSUME Bad # {} PROVE FALSE
  <2>1. n \in 0 .. n
    BY <1>0
  <2>2. ~(\E f : Sol(f, n)) => n \in Bad
    <3> HIDE DEF Sol
    <3> QED BY <2>1
  <2>3. \E f : Sol(f, n)
    <3> HIDE DEF Bad, Sol
    <3> QED BY <1>1, <2>2
  <2> QED BY <2>3 DEF Run
<1>2. Bad \in SUBSET Nat
  BY <1>0
<1>3. PICK m \in Bad : \A k \in Bad : m <= k
  <2> HIDE DEF Bad
  <2> QED BY <1>1, <1>2, NatLeast
<1>4. m \in 0 .. n /\ ~ \E f : Sol(f, m)
  OBVIOUS
<1>5. x \in S
  BY <1>0
<1>6. CASE m = 0
  <2>1. Sol([k \in 0 .. 0 |-> x], 0)
    BY <1>0, <1>5
  <2> QED BY <1>4, <1>6, <2>1
<1>7. CASE m > 0
  <2>1. m - 1 \in 0 .. n /\ m - 1 \notin Bad
    <3>1. m - 1 \in 0 .. n /\ ~(m <= m - 1)
      BY <1>0, <1>4, <1>7
    <3> HIDE DEF Bad
    <3> QED BY <1>3, <3>1
  <2>2. PICK g : Sol(g, m - 1)
    BY <2>1
  <2> DEFINE h == [k \in 0 .. m |-> IF k = m THEN G[m][g[m - 1]] ELSE g[k]]
  <2>3. m \in 1 .. n /\ m - 1 \in 0 .. m - 1
    BY <1>0, <1>4, <1>7
  <2>4. g[m - 1] \in T[m - 1] /\ g[m - 1] \in S
    BY <1>0, <2>2, <2>3
  <2>5. G[m][g[m - 1]] \in T[m] /\ G[m][g[m - 1]] \in S
    BY <1>0, <2>3, <2>4
  <2>6. h \in [0 .. m -> S] /\ h[0] = x /\ h[m] = G[m][g[m - 1]]
    BY <2>2, <2>3, <2>5
  <2>7. \A k \in 0 .. m - 1 : h[k] = g[k]
    BY <2>3
  <2> HIDE DEF h
  <2>8. ASSUME NEW k \in 1 .. m PROVE h[k] = G[k][h[k - 1]] /\ h[k] \in T[k]
    <3>1. CASE k = m
      BY <3>1, <2>3, <2>5, <2>6, <2>7
    <3>2. CASE k # m
      <4>1. k \in 1 .. m - 1 /\ k \in 0 .. m - 1 /\ k - 1 \in 0 .. m - 1
        BY <3>2, <2>3
      <4> QED BY <4>1, <2>2, <2>7
    <3> QED BY <3>1, <3>2
  <2>9. Sol(h, m)
    BY <2>6, <2>8
  <2> QED BY <1>4, <2>9
<1> QED BY <1>4, <1>6, <1>7

\* Counting up from 0.
LEMMA Climb ==
    ASSUME NEW n \in Nat, NEW P, 0 \in P, \A k \in 1 .. n : k - 1 \in P => k \in P
    PROVE  \A k \in 0 .. n : k \in P
<1> DEFINE Bad == {k \in 0 .. n : k \notin P}
<1>1. SUFFICES ASSUME Bad # {} PROVE FALSE
  OBVIOUS
<1>2. Bad \in SUBSET Nat
  OBVIOUS
<1>3. PICK m \in Bad : \A k \in Bad : m <= k
  <2> HIDE DEF Bad
  <2> QED BY <1>1, <1>2, NatLeast
<1>4. m \in 1 .. n /\ m \notin P /\ m - 1 \in 0 .. n
  OBVIOUS
<1>5. m - 1 \notin Bad
  <2>1. ~(m <= m - 1)
    BY <1>4
  <2> HIDE DEF Bad
  <2> QED BY <1>3, <2>1
<1> QED BY <1>4, <1>5

\* Two runs that start alike and step alike are the same.
LEMMA RunsAgree ==
    ASSUME NEW n \in Nat, NEW f, NEW g, f[0] = g[0],
           \A k \in 1 .. n : f[k - 1] = g[k - 1] => f[k] = g[k]
    PROVE  \A k \in 0 .. n : f[k] = g[k]
<1> DEFINE P == {k \in 0 .. n : f[k] = g[k]}
<1>1. 0 \in P /\ \A k \in 1 .. n : k - 1 \in P => k \in P
  OBVIOUS
<1>2. \A k \in 0 .. n : k \in P
  <2> HIDE DEF P
  <2> QED BY <1>1, Climb
<1> QED BY <1>2

-----------------------------------------------------------------------------
(* Words                                                                   *)

\* The numbers of w bits.
Low(w) == 0 .. 2^w - 1

\* A word has four bytes, and a counter fits in one.
LEMMA BitsOfWord ==
    /\ ByteBits \in Nat /\ ByteBits > 0 /\ CounterBits \in Nat /\ CounterBits > 0
    /\ WordBits \in Nat /\ WordBits >= 4 /\ WordBits = 4 * ByteBits /\ CounterBits <= WordBits
BY WidthAssumption, CounterAssumption DEF WordBits

\* The powers of two that the widths need are numbers and add up.
LEMMA Powers ==
    ASSUME NEW i \in 0 .. WordBits, NEW j \in 0 .. WordBits
    PROVE  2^i \in Nat /\ 2^i > 0 /\ 2^(i + j) = 2^i * 2^j
BY PowersAssumption

\* A word splits at any bit.
LEMMA PowerSplit ==
    ASSUME NEW i \in 0 .. WordBits
    PROVE  2^i \in Nat /\ 2^i > 0 /\ 2^(WordBits - i) \in Nat /\ 2^(WordBits - i) > 0
           /\ 2^WordBits = 2^i * 2^(WordBits - i)
<1>1. WordBits - i \in 0 .. WordBits /\ i + (WordBits - i) = WordBits
  BY BitsOfWord
<1>2. 2^(i + (WordBits - i)) = 2^i * 2^(WordBits - i)
  BY <1>1, Powers
<1> QED BY <1>1, <1>2, Powers

\* One more bit doubles.
LEMMA PowerNext ==
    ASSUME NEW w \in 1 .. WordBits
    PROVE  2^w = 2 * 2^(w - 1) /\ 2^(w - 1) \in Nat /\ 2^(w - 1) > 0
<1>1. 1 \in 0 .. WordBits /\ w - 1 \in 0 .. WordBits /\ 1 + (w - 1) = w
  BY BitsOfWord
<1>2. 2^(1 + (w - 1)) = 2^1 * 2^(w - 1)
  BY <1>1, Powers
<1> QED BY <1>1, <1>2, Powers, PowersAssumption

\* Words are the numbers of WordBits bits.
LEMMA WordSize ==
    2^WordBits \in Nat /\ 2^WordBits > 0 /\ Word = Low(WordBits) /\ 0 \in Word
<1>1. WordBits \in 0 .. WordBits
  BY BitsOfWord
<1> QED BY <1>1, Powers DEF Word, Low

\* A row of the table of one bit more.
XorRows(w, s) ==
    [x \in Low(w) |-> [y \in Low(w) |->
        IF w = 0 THEN 0 ELSE ((x + y) % 2) + 2 * s[x \div 2][y \div 2]]]

\* Dropping the lowest bit leaves one bit less.
LEMMA HalfLow ==
    ASSUME NEW w \in 1 .. WordBits, NEW x \in Low(w)
    PROVE  x \div 2 \in Low(w - 1) /\ x \in Nat
<1>1. PICK P \in Nat : P = 2^(w - 1) /\ 2^w = 2 * P
  BY PowerNext
<1> QED BY <1>1 DEF Low

\* The recursive table of exclusive-or satisfies its equation.
LEMMA XorExists ==
    xor = [w \in 0 .. WordBits |-> XorRows(w, xor[w - 1])]
<1> DEFINE Types == [w \in 0 .. WordBits |-> [Low(w) -> [Low(w) -> Nat]]]
           S == UNION {Types[w] : w \in 0 .. WordBits}
           x0 == XorRows(0, 0)
           G == [w \in 1 .. WordBits |-> [s \in S |->
                    IF s \in Types[w - 1] THEN XorRows(w, s) ELSE s]]
<1>1. WordBits \in Nat
  BY BitsOfWord
<1>2. Types \in [0 .. WordBits -> SUBSET S]
  <2>1. ASSUME NEW w \in 0 .. WordBits, NEW t \in Types[w] PROVE t \in S
    <3>1. Types[w] \in {Types[v] : v \in 0 .. WordBits}
      <4> HIDE DEF Types
      <4> QED OBVIOUS
    <3> HIDE DEF Types
    <3> QED BY <3>1
  <2>2. \A w \in 0 .. WordBits : Types[w] \in SUBSET S
    <3> HIDE DEF Types, S
    <3> QED BY <2>1
  <2> HIDE DEF S
  <2> QED BY <2>2
<1>3. x0 \in Types[0]
  BY <1>1 DEF XorRows
<1>4. ASSUME NEW w \in 1 .. WordBits, NEW s \in Types[w - 1]
      PROVE  XorRows(w, s) \in Types[w] /\ s \in S /\ XorRows(w, s) \in S
  <2>1. w - 1 \in 0 .. WordBits /\ w \in 0 .. WordBits /\ w # 0
    BY <1>1
  <2>2. s \in [Low(w - 1) -> [Low(w - 1) -> Nat]]
    BY <2>1
  <2>3. ASSUME NEW x \in Low(w), NEW y \in Low(w)
        PROVE  ((x + y) % 2) + 2 * s[x \div 2][y \div 2] \in Nat
    <3>1. s[x \div 2][y \div 2] \in Nat
      BY <2>2, HalfLow
    <3>2. (x + y) % 2 \in Nat
      BY HalfLow
    <3> QED BY <3>1, <3>2
  <2>4. XorRows(w, s) \in Types[w]
    BY <2>1, <2>3 DEF XorRows
  <2> QED BY <2>1, <2>4
<1>5. G \in [1 .. WordBits -> [S -> S]]
  <2>1. ASSUME NEW w \in 1 .. WordBits, NEW s \in S
        PROVE  (IF s \in Types[w - 1] THEN XorRows(w, s) ELSE s) \in S
    <3> HIDE DEF Types, S
    <3> QED BY <1>4
  <2> HIDE DEF S
  <2> QED BY <2>1
<1>6. \A w \in 1 .. WordBits : \A s \in Types[w - 1] : G[w][s] \in Types[w] /\ G[w][s] = XorRows(w, s)
  <2> HIDE DEF S, Types
  <2> QED BY <1>4
<1>7. PICK f :
         f \in [0 .. WordBits -> S] /\ f[0] = x0 /\ \A w \in 1 .. WordBits : f[w] = G[w][f[w - 1]] /\ f[w] \in Types[w]
  <2>1. \A w \in 1 .. WordBits : \A s \in Types[w - 1] : G[w][s] \in Types[w]
    <3> HIDE DEF S, Types, G, x0
    <3> QED BY <1>6
  <2> HIDE DEF S, Types, G, x0
  <2>2. Stepping(WordBits, S, Types, x0, G)
    BY <1>1, <1>2, <1>3, <1>5, <2>1 DEF Stepping
  <2>3. PICK f : Run(f, WordBits, S, Types, x0, G)
    BY <2>2, RunExists
  <2> QED BY <2>3 DEF Run
<1>8. \A w \in 1 .. WordBits : f[w - 1] \in Types[w - 1]
  <2>1. \A w \in 1 .. WordBits : w - 1 = 0 \/ w - 1 \in 1 .. WordBits
    BY <1>1
  <2> HIDE DEF S, Types, G, x0
  <2> QED BY <1>3, <1>7, <2>1
<1>9. \A w \in 1 .. WordBits : f[w] = XorRows(w, f[w - 1])
  <2> HIDE DEF S, Types, G, x0
  <2> QED BY <1>6, <1>7, <1>8
<1>10. f[0] = XorRows(0, f[0 - 1])
  BY <1>7 DEF XorRows
<1>11. f = [w \in 0 .. WordBits |-> XorRows(w, f[w - 1])]
  <2>1. \A w \in 0 .. WordBits : w = 0 \/ w \in 1 .. WordBits
    BY <1>1
  <2>2. \A w \in 0 .. WordBits : f[w] = XorRows(w, f[w - 1])
    BY <1>9, <1>10, <2>1
  <2> HIDE DEF S
  <2> QED BY <1>7, <2>2
<1>12. xor = CHOOSE g : g = [w \in 0 .. WordBits |-> XorRows(w, g[w - 1])]
  BY DEF xor, XorRows, Low
<1> QED BY <1>11, <1>12

\* The exclusive or of two numbers is no longer than they are.
LEMMA XorType ==
    ASSUME NEW w \in 0 .. WordBits, NEW x \in Low(w), NEW y \in Low(w)
    PROVE  xor[w][x][y] \in Low(w) /\ xor[w][x][y] <= x + y
<1> DEFINE P == {k \in 0 .. WordBits : \A a, b \in Low(k) : xor[k][a][b] \in Low(k) /\ xor[k][a][b] <= a + b}
<1>1. WordBits \in Nat
  BY BitsOfWord
<1>2. 0 \in P
  <2>1. Low(0) = {0}
    BY PowersAssumption DEF Low
  <2>2. xor[0] = XorRows(0, xor[0 - 1])
    BY <1>1, XorExists
  <2>3. \A a, b \in Low(0) : xor[0][a][b] = 0
    BY <2>2 DEF XorRows
  <2> QED BY <1>1, <2>1, <2>3
<1>3. ASSUME NEW k \in 1 .. WordBits, k - 1 \in P PROVE k \in P
  <2>1. xor[k] = XorRows(k, xor[k - 1]) /\ k # 0 /\ k \in 0 .. WordBits
    BY <1>1, XorExists
  <2>2. ASSUME NEW a \in Low(k), NEW b \in Low(k)
        PROVE  xor[k][a][b] \in Low(k) /\ xor[k][a][b] <= a + b
    <3>1. xor[k][a][b] = ((a + b) % 2) + 2 * xor[k - 1][a \div 2][b \div 2]
      BY <2>1 DEF XorRows
    <3>2. PICK N \in Nat : N = 2^(k - 1) /\ 2^k = 2 * N
      BY PowerNext
    <3>3. a \div 2 \in Low(k - 1) /\ b \div 2 \in Low(k - 1)
      BY HalfLow
    <3>4. PICK v : v = xor[k - 1][a \div 2][b \div 2] /\ v \in Low(k - 1) /\ v <= (a \div 2) + (b \div 2)
      BY <1>3, <3>3
    <3>5. v \in 0 .. N - 1 /\ a \in Nat /\ b \in Nat
      BY <3>2, <3>4 DEF Low
    <3>6. ((a + b) % 2) + 2 * v \in 0 .. 2 * N - 1 /\ ((a + b) % 2) + 2 * v <= a + b
      BY <3>4, <3>5
    <3> QED BY <3>1, <3>2, <3>4, <3>6 DEF Low
  <2> QED BY <2>1, <2>2
<1>4. w \in P
  <2> HIDE DEF P
  <2> QED BY <1>1, <1>2, <1>3, Climb
<1> QED BY <1>4

\* Its lowest bit, and the others.
LEMMA XorBits ==
    ASSUME NEW w \in 1 .. WordBits, NEW x \in Low(w), NEW y \in Low(w)
    PROVE  /\ xor[w][x][y] % 2 = (x + y) % 2
           /\ xor[w][x][y] \div 2 = xor[w - 1][x \div 2][y \div 2]
           /\ xor[w][x][y] = ((x + y) % 2) + 2 * xor[w - 1][x \div 2][y \div 2]
<1>1. xor[w] = XorRows(w, xor[w - 1]) /\ w # 0 /\ w - 1 \in 0 .. WordBits
  BY BitsOfWord, XorExists
<1>2. xor[w][x][y] = ((x + y) % 2) + 2 * xor[w - 1][x \div 2][y \div 2]
  BY <1>1 DEF XorRows
<1>3. x \div 2 \in Low(w - 1) /\ y \div 2 \in Low(w - 1) /\ x \in Nat /\ y \in Nat
  BY HalfLow
<1>4. PICK v \in Nat : v = xor[w - 1][x \div 2][y \div 2]
  BY <1>1, <1>3, XorType DEF Low
<1>5. PICK r \in 0 .. 1 : r = (x + y) % 2
  BY <1>3
<1>6. PICK e : e = r + 2 * v /\ e % 2 = r /\ e \div 2 = v
  OBVIOUS
<1>7. xor[w][x][y] = e
  BY <1>2, <1>4, <1>5, <1>6
<1> QED BY <1>4, <1>5, <1>6, <1>7

\* It does not matter which of three numbers are taken first.
LEMMA XorAssociative ==
    ASSUME NEW w \in 0 .. WordBits, NEW x \in Low(w), NEW y \in Low(w), NEW z \in Low(w)
    PROVE  xor[w][xor[w][x][y]][z] = xor[w][x][xor[w][y][z]]
<1> DEFINE P == {k \in 0 .. WordBits :
                    \A a, b, c \in Low(k) : xor[k][xor[k][a][b]][c] = xor[k][a][xor[k][b][c]]}
<1>1. WordBits \in Nat
  BY BitsOfWord
<1>2. 0 \in P
  <2>1. Low(0) = {0}
    BY PowersAssumption DEF Low
  <2>2. xor[0] = XorRows(0, xor[0 - 1])
    BY <1>1, XorExists
  <2>3. \A a, b \in Low(0) : xor[0][a][b] = 0
    BY <2>2 DEF XorRows
  <2> QED BY <1>1, <2>1, <2>3
<1>3. ASSUME NEW k \in 1 .. WordBits, k - 1 \in P PROVE k \in P
  <2>1. k \in 0 .. WordBits
    BY <1>1
  <2>2. ASSUME NEW a \in Low(k), NEW b \in Low(k), NEW c \in Low(k)
        PROVE  xor[k][xor[k][a][b]][c] = xor[k][a][xor[k][b][c]]
    <3>1. PICK ab \in Low(k) : ab = xor[k][a][b]
      BY <2>1, XorType
    <3>2. PICK bc \in Low(k) : bc = xor[k][b][c]
      BY <2>1, XorType
    <3>3. ab % 2 = (a + b) % 2 /\ ab \div 2 = xor[k - 1][a \div 2][b \div 2]
      BY <3>1, XorBits
    <3>4. bc % 2 = (b + c) % 2 /\ bc \div 2 = xor[k - 1][b \div 2][c \div 2]
      BY <3>2, XorBits
    <3>5. xor[k][ab][c] = ((ab + c) % 2) + 2 * xor[k - 1][ab \div 2][c \div 2]
      BY XorBits
    <3>6. xor[k][a][bc] = ((a + bc) % 2) + 2 * xor[k - 1][a \div 2][bc \div 2]
      BY XorBits
    <3>7. /\ a \div 2 \in Low(k - 1) /\ b \div 2 \in Low(k - 1) /\ c \div 2 \in Low(k - 1)
          /\ a \in Nat /\ b \in Nat /\ c \in Nat /\ ab \in Nat /\ bc \in Nat
      BY HalfLow
    <3>8. xor[k - 1][ab \div 2][c \div 2] = xor[k - 1][a \div 2][bc \div 2]
      BY <1>3, <3>3, <3>4, <3>7
    <3>9. (ab + c) % 2 = (a + bc) % 2
      <4>1. ab % 2 = (a + b) % 2 /\ bc % 2 = (b + c) % 2
        BY <3>3, <3>4
      <4>2. PICK p \in Nat, q \in Nat, u \in Nat, v \in Nat, t \in Nat :
                p = a /\ q = b /\ t = c /\ u = ab /\ v = bc
        BY <3>7
      <4>3. u % 2 = (p + q) % 2 /\ v % 2 = (q + t) % 2
        BY <4>1, <4>2
      <4>4. (u + t) % 2 = (p + v) % 2
        BY <4>3
      <4> QED BY <4>2, <4>4
    <3> QED BY <3>1, <3>2, <3>5, <3>6, <3>8, <3>9
  <2> QED BY <2>1, <2>2
<1>4. w \in P
  <2> HIDE DEF P
  <2> QED BY <1>1, <1>2, <1>3, Climb
<1> QED BY <1>4

\* The table holds what it should.
LEMMA XorIs ==
    ASSUME NEW x \in Word, NEW y \in Word
    PROVE  x (+) y = xor[WordBits][x][y]
<1>1. PICK N \in Nat : N = 2^WordBits /\ N > 0 /\ Word = 0 .. N - 1 /\ Word = Low(WordBits)
  BY WordSize DEF Word
<1>2. WordBits \in 0 .. WordBits
  BY BitsOfWord
<1> DEFINE E(z) == xor[WordBits][(z - 1) \div N][(z - 1) % N]
           T == [z \in 1 .. N * N |-> E(z)]
<1>3. N * N \in Nat
  BY <1>1
<1>4. Tuple(T) = T
  <2>1. T \in [1 .. N * N -> {E(z) : z \in 1 .. N * N}]
    OBVIOUS
  <2> HIDE DEF T
  <2> QED BY <1>3, <2>1, TupleIs
<1>5. XorTable = T
  BY <1>1, <1>4 DEF XorTable
<1>6. PICK p \in Nat : p = N * x /\ p = x * N
  BY <1>1
<1>7. PICK z \in Int, c \in Int : z = p + y + 1 /\ c = p + y /\ z - 1 = c /\ x \in Int /\ y \in 0 .. N - 1
  BY <1>1
<1>8. c % N = y /\ c \div N = x /\ z \in 1 .. N * N
  <2>1. c = N * x + y
    BY <1>6, <1>7
  <2>2. N \in Nat /\ N > 0 /\ c \in Int /\ y \in 0 .. N - 1 /\ x \in Int
    BY <1>1, <1>7
  <2>7. c % N = y /\ c \div N = x
    BY ONLY <2>1, <2>2, ModUnique
  <2>3. N * (N - 1 - x) >= 0
    BY <1>1
  <2>4. N * (N - 1 - x) = N * N - N - N * x
    BY <1>1
  <2>5. PICK b \in Int : b = N * N /\ b - N - p >= 0
    BY <1>1, <1>6, <2>3, <2>4
  <2>6. z \in 1 .. b
    <3>1. z = p + y + 1 /\ y \in 0 .. N - 1 /\ p \in Nat /\ N \in Nat
      BY <1>7, <2>2
    <3> QED BY ONLY <2>5, <3>1
  <2> QED BY <2>5, <2>6, <2>7
<1>9. T[z] = xor[WordBits][x][y]
  BY <1>7, <1>8
<1>10. z = x * N + y + 1
  BY <1>6, <1>7
<1> QED BY <1>1, <1>5, <1>9, <1>10 DEF (+)

\* The exclusive-or of words is a word, and not more than their sum.
LEMMA XorWord ==
    ASSUME NEW x \in Word, NEW y \in Word
    PROVE  x (+) y \in Word /\ x (+) y <= x + y
BY BitsOfWord, WordSize, XorIs, XorType

\* Exclusive-or is associative: the order in which PP gathers its operands does
\* not matter.
LEMMA XorAssociates ==
    ASSUME NEW x \in Word, NEW y \in Word, NEW z \in Word
    PROVE  (x (+) y) (+) z = x (+) (y (+) z)
<1>1. x (+) y \in Word /\ y (+) z \in Word
  BY XorWord
<1>2. /\ x (+) y = xor[WordBits][x][y] /\ y (+) z = xor[WordBits][y][z]
      /\ (x (+) y) (+) z = xor[WordBits][x (+) y][z]
      /\ x (+) (y (+) z) = xor[WordBits][x][y (+) z]
  BY <1>1, XorIs
<1> QED BY <1>2, BitsOfWord, WordSize, XorAssociative

\* A remainder may be taken before an addition, or after it.
LEMMA ModPlus ==
    ASSUME NEW n \in Nat, n > 0, NEW a \in Int, NEW b \in Int
    PROVE  ((a % n) + b) % n = (a + b) % n /\ ((a % n) + (b % n)) % n = (a + b) % n
<1>1. PICK d \in Int, r \in 0 .. n - 1 : r = a % n /\ d = a \div n /\ a = n * d + r
  BY ModDef
<1>2. PICK e \in Int, s \in 0 .. n - 1 : s = b % n /\ e = b \div n /\ b = n * e + s
  BY ModDef
<1>3. (n * d + (r + b)) % n = (r + b) % n
  <2>1. PICK c \in Int : c = r + b
    BY <1>1
  <2> QED BY <2>1, ModShift
<1>4. (n * e + (r + s)) % n = (r + s) % n
  <2>1. PICK c \in Int : c = r + s
    BY <1>1, <1>2
  <2> QED BY <2>1, ModShift
<1>5. n * d + (r + b) = a + b /\ n * e + (r + s) = r + b
  BY <1>1, <1>2
<1> QED BY <1>1, <1>2, <1>3, <1>4, <1>5

\* Addition and subtraction wrap to words.
LEMMA PlusIs ==
    ASSUME NEW x \in Int, NEW y \in Int
    PROVE  Plus(x, y) \in Word /\ Minus(x, y) \in Word
<1>1. PICK N \in Nat : N = 2^WordBits /\ N > 0 /\ Word = 0 .. N - 1
  BY WordSize DEF Word
<1>2. (x + y) % N \in 0 .. N - 1 /\ (x - y) % N \in 0 .. N - 1
  BY <1>1
<1> QED BY <1>1, <1>2 DEF Plus, Minus

\* Words are numbers.
LEMMA WordInt ==
    ASSUME NEW x \in Word
    PROVE  x \in Int /\ x \in Nat
BY WordSize DEF Word

\* The complement of a word is a word.
LEMMA ComplementWord ==
    ASSUME NEW x \in Word
    PROVE  Complement(x) \in Word
BY WordSize DEF Word, Complement

\* The bits two words share make a word.
LEMMA BothSetWord ==
    ASSUME NEW x \in Word, NEW y \in Word
    PROVE  BothSet(x, y) \in Word
<1>1. PICK N \in Nat : N = 2^WordBits /\ N > 0 /\ Word = 0 .. N - 1
  BY WordSize DEF Word
<1>2. PICK z \in 0 .. N - 1 : z = x (+) y /\ z <= x + y
  BY <1>1, XorWord
<1>3. (x + y - z) \div 2 \in 0 .. N - 1
  BY <1>1, <1>2
<1> QED BY <1>1, <1>2, <1>3 DEF BothSet

\* A rotated word is a word.
LEMMA RotateWord ==
    ASSUME NEW x \in Word, NEW n \in Nat
    PROVE  Rotate(x, n) \in Word
<1>1. PICK m \in Nat : m = n % WordBits /\ m \in 0 .. WordBits - 1 /\ m \in 0 .. WordBits
  BY BitsOfWord
<1>2. PICK P \in Nat, Q \in Nat : P = 2^m /\ Q = 2^(WordBits - m) /\ P > 0 /\ Q > 0 /\ 2^WordBits = P * Q
  BY <1>1, PowerSplit
<1>3. PICK N \in Nat : N = 2^WordBits /\ N > 0 /\ Word = 0 .. N - 1 /\ N = P * Q
  BY <1>2, WordSize DEF Word
<1>4. PICK d \in Int, r \in 0 .. Q - 1 : d = x \div Q /\ x = Q * d + r /\ x \in Nat
  <2>1. x \in Int
    BY WordInt
  <2> QED BY <1>2, <2>1, ModDef, WordInt, ZenonT(30)
<1>5. d \in 0 .. P - 1
  <2>1. d >= 0
    <3>1. d < 0 => Q * (0 - d) >= Q
      BY <1>2, MulMono
    <3>2. Q * (0 - d) = 0 - Q * d
      OBVIOUS
    <3> QED BY <1>2, <1>4, <3>1, <3>2
  <2>2. d <= P - 1
    <3>1. d >= P => Q * (d - P) >= 0
      BY <1>2
    <3>2. Q * (d - P) = Q * d - N
      BY <1>3
    <3>3. PICK q \in Int : q = Q * d
      OBVIOUS
    <3>4. x < N /\ x = q + r /\ r \in 0 .. Q - 1 /\ N \in Nat /\ (d >= P => q - N >= 0)
      BY <1>3, <1>4, <3>1, <3>2, <3>3
    <3>5. P \in Nat /\ d \in Int /\ q \in Int /\ x \in Int
      BY <1>4
    <3> QED BY ONLY <3>4, <3>5
  <2> QED BY <2>1, <2>2
<1>6. (x * P) % N = P * r
  <2>1. PICK c \in Int : c = P * r /\ c \in 0 .. N - 1
    <3>1. P * r >= 0
      BY <1>2, <1>4
    <3>2. P * (Q - 1 - r) >= 0
      BY <1>2, <1>4
    <3>3. P * (Q - 1 - r) = N - P - P * r
      BY <1>3, <1>4
    <3>4. PICK c \in Int : c = P * r
      BY <1>4
    <3>5. c >= 0 /\ N - P - c >= 0 /\ P > 0 /\ P \in Nat /\ N \in Nat /\ c \in Int
      BY <1>2, <1>3, <3>1, <3>2, <3>3, <3>4
    <3>6. c \in 0 .. N - 1
      BY ONLY <3>5
    <3> QED BY <3>4, <3>6
  <2>2. x * P = N * d + c
    <3>1. x * P = (Q * d) * P + r * P
      BY <1>4
    <3>2. (Q * d) * P = (P * Q) * d /\ r * P = P * r
      OBVIOUS
    <3> QED BY <1>3, <2>1, <3>1, <3>2
  <2>3. PICK a \in Int : a = x * P
    BY <1>4
  <2>4. N \in Nat /\ N > 0 /\ a \in Int /\ c \in 0 .. N - 1 /\ d \in Int /\ a = N * d + c
    BY <1>3, <2>1, <2>2, <2>3
  <2>5. a % N = c
    BY ONLY <2>4, ModUnique
  <2> QED BY <2>1, <2>3, <2>5
<1>7. P * r + d \in 0 .. N - 1
  <2>1. P * (Q - 1 - r) >= 0 /\ P * r >= 0
    BY <1>2, <1>4
  <2>2. P * (Q - 1 - r) = N - P - P * r
    BY <1>3, <1>4
  <2>3. PICK c \in Int : c = P * r
    BY <1>4
  <2>4. c >= 0 /\ N - P - c >= 0 /\ d \in 0 .. P - 1 /\ P \in Nat /\ N \in Nat /\ c \in Int
    BY <1>3, <1>5, <2>1, <2>2, <2>3
  <2>5. c + d \in 0 .. N - 1
    BY ONLY <2>4
  <2> QED BY <2>3, <2>5
<1>8. Rotate(x, n) = ((x * P) % N) + d
  BY <1>1, <1>2, <1>3, <1>4 DEF Rotate
<1> QED BY <1>3, <1>6, <1>7, <1>8

\* Multiplications by additions.
LEMMA TimesIs ==
    ASSUME NEW x \in Word
    PROVE  /\ Times3(x) = (3 * x) % 2^WordBits /\ Times3(x) \in Word
           /\ Times5(x) = (5 * x) % 2^WordBits /\ Times5(x) \in Word
<1>1. PICK N \in Nat : N = 2^WordBits /\ N > 0 /\ Word = 0 .. N - 1 /\ x \in Int
  BY WordSize DEF Word
<1>2. Times3(x) = (((x + x) % N) + x) % N
  BY <1>1 DEF Times3, Plus
<1>3. (((x + x) % N) + x) % N = (x + x + x) % N
  <2>1. PICK a \in Int : a = x + x
    BY <1>1
  <2> QED BY <1>1, <2>1, ModPlus
<1>4. Times5(x) = (((((x + x) % N) + ((x + x) % N)) % N) + x) % N
  BY <1>1 DEF Times5, Plus
<1>5. (((((x + x) % N) + ((x + x) % N)) % N) + x) % N = (x + x + x + x + x) % N
  <2>1. PICK a \in Int : a = x + x
    BY <1>1
  <2>2. ((a % N) + (a % N)) % N = (a + a) % N
    BY <1>1, ModPlus
  <2>3. PICK b \in Int : b = a + a
    OBVIOUS
  <2>4. ((b % N) + x) % N = (b + x) % N
    BY <1>1, ModPlus
  <2>5. b + x = x + x + x + x + x
    BY <1>1, <2>1, <2>3
  <2> QED BY <2>1, <2>2, <2>3, <2>4, <2>5
<1>6. x + x + x = 3 * x /\ x + x + x + x + x = 5 * x
  BY <1>1
<1>7. Times3(x) \in Word /\ Times5(x) \in Word
  BY <1>1, PlusIs, WordInt DEF Times3, Times5
<1> QED BY <1>1, <1>2, <1>3, <1>4, <1>5, <1>6, <1>7

\* Additions that wrap one by one wrap like one sum.
LEMMA PlusFour ==
    ASSUME NEW a \in Word, NEW b \in Word, NEW c \in Word, NEW d \in Word
    PROVE  Plus(Plus(a, b), Plus(c, d)) = (a + d + c + b) % 2^WordBits
<1>1. PICK N \in Nat : N = 2^WordBits /\ N > 0
  BY WordSize
<1>2. a \in Int /\ b \in Int /\ c \in Int /\ d \in Int
  BY WordInt
<1>3. PICK e \in Int, f \in Int : e = a + b /\ f = c + d
  BY <1>2
<1>4. Plus(Plus(a, b), Plus(c, d)) = ((e % N) + (f % N)) % N
  BY <1>1, <1>3 DEF Plus
<1>5. e + f = a + d + c + b
  BY <1>2, <1>3
<1> QED BY <1>1, <1>4, <1>5, ModPlus, ZenonT(30)

-----------------------------------------------------------------------------
(* One block in one lane                                                   *)

\* Registers of n lanes, and what one lane has of them.
Vectors(n, m) == [1 .. m -> [1 .. n -> Word]]
Regs(n) == [A : Vectors(n, 12), B : Vectors(n, 16)]
Lane(regs, m, l) == [j \in 1 .. m |-> regs[j][l]]
Block == [1 .. BlockWords -> Word]

\* What PP computes for register A of a lane is a word.
LEMMA NextAWord ==
    ASSUME NEW n \in Nat, NEW r \in Regs(n), NEW C \in Vectors(n, 16), NEW M \in Vectors(n, 16),
           NEW k \in Nat, NEW l \in 1 .. n
    PROVE  NextA(r, C, M, k, l) \in Word
<1>1. /\ \A i \in Nat : RegA(r, i, l) \in Word /\ RegB(r, i, l) \in Word
      /\ C[((8 - k) % 16) + 1][l] \in Word /\ M[(k % 16) + 1][l] \in Word
  <2>1. /\ \A i \in Nat : (i % 12) + 1 \in 1 .. 12 /\ (i % 16) + 1 \in 1 .. 16
        /\ ((8 - k) % 16) + 1 \in 1 .. 16
    OBVIOUS
  <2>2. r.A \in Vectors(n, 12) /\ r.B \in Vectors(n, 16)
    BY DEF Regs
  <2>3. C[((8 - k) % 16) + 1][l] \in Word /\ M[(k % 16) + 1][l] \in Word
    BY <2>1 DEF Vectors
  <2>4. \A i \in Nat : RegA(r, i, l) \in Word /\ RegB(r, i, l) \in Word
    BY <2>1, <2>2, ZenonT(30) DEF Vectors, RegA, RegB
  <2> QED BY <2>3, <2>4
<1>2. /\ RegA(r, k, l) \in Word /\ RegA(r, k + 11, l) \in Word /\ RegB(r, k + 13, l) \in Word
      /\ RegB(r, k + 6, l) \in Word /\ RegB(r, k + 9, l) \in Word
  BY <1>1
<1>3. Times5(Rotate(RegA(r, k + 11, l), 15)) \in Word
  BY <1>2, RotateWord, TimesIs
<1>4. RegA(r, k, l) (+) Times5(Rotate(RegA(r, k + 11, l), 15)) (+) C[((8 - k) % 16) + 1][l] \in Word
  BY <1>1, <1>2, <1>3, XorWord
<1>5. BothSet(Complement(RegB(r, k + 6, l)), RegB(r, k + 9, l)) (+) M[(k % 16) + 1][l] \in Word
  BY <1>1, <1>2, ComplementWord, BothSetWord, XorWord
<1>6. Times3(RegA(r, k, l) (+) Times5(Rotate(RegA(r, k + 11, l), 15)) (+) C[((8 - k) % 16) + 1][l])
        (+) RegB(r, k + 13, l) \in Word
  BY <1>2, <1>4, TimesIs, XorWord
<1> QED BY <1>5, <1>6, XorWord DEF NextA

\* What a step of the permutation does to a lane: x is the word it computes.
LaneStep(P, r, x, k, l) ==
    /\ \A i \in 1 .. 12 : P.A[i][l] = IF i = (k % 12) + 1 THEN x ELSE r.A[i][l]
    /\ \A i \in 1 .. 16 : P.B[i][l] =
          IF i = (k % 16) + 1 THEN Rotate(r.B[i][l], 1) (+) Complement(x) ELSE r.B[i][l]

\* One step of PP gives registers, and does in every lane what the lane asks.
LEMMA PPIs ==
    ASSUME NEW n \in Nat, NEW r \in Regs(n), NEW C \in Vectors(n, 16), NEW M \in Vectors(n, 16),
           NEW k \in Nat
    PROVE  /\ PP(n, r, C, M, k) \in Regs(n)
           /\ \A l \in 1 .. n : LaneStep(PP(n, r, C, M, k), r, NextA(r, C, M, k, l), k, l)
<1> DEFINE xa0 == [l \in 1 .. n |-> NextA(r, C, M, k, l)]
           xb0 == [l \in 1 .. n |-> Rotate(RegB(r, k, l), 1) (+) Complement(xa0[l])]
<1>1. xa0 \in [1 .. n -> Word]
  BY NextAWord
<1>2. Tuple(xa0) = xa0
  <2> HIDE DEF xa0
  <2> QED BY <1>1, TupleIs
<1>3. r.A \in [1 .. 12 -> [1 .. n -> Word]] /\ r.B \in [1 .. 16 -> [1 .. n -> Word]]
  BY DEF Regs, Vectors
<1>4. (k % 12) + 1 \in 1 .. 12 /\ (k % 16) + 1 \in 1 .. 16
  OBVIOUS
<1>5. \A l \in 1 .. n : RegB(r, k, l) = r.B[(k % 16) + 1][l] /\ RegB(r, k, l) \in Word
  BY <1>3, <1>4 DEF RegB
<1>6. xb0 \in [1 .. n -> Word]
  <2>1. \A l \in 1 .. n : Rotate(RegB(r, k, l), 1) (+) Complement(xa0[l]) \in Word
    <3> HIDE DEF xa0
    <3> QED BY <1>1, <1>5, RotateWord, ComplementWord, XorWord
  <2> HIDE DEF xa0
  <2> QED BY <2>1
<1>7. Tuple(xb0) = xb0
  <2> HIDE DEF xb0
  <2> QED BY <1>6, TupleIs
<1>8. PP(n, r, C, M, k) = Stepped(n, r, k, xa0)
  <2>1. PP(n, r, C, M, k) = Stepped(n, r, k, Tuple(xa0))
    BY DEF PP, Strictly
  <2> QED BY <1>2, <2>1
<1>9. Stepped(n, r, k, xa0) =
         [A |-> [r.A EXCEPT ![(k % 12) + 1] = xa0], B |-> [r.B EXCEPT ![(k % 16) + 1] = xb0]]
  <2> HIDE DEF xa0
  <2> QED BY <1>7 DEF Stepped
<1>10. \A l \in 1 .. n : xa0[l] = NextA(r, C, M, k, l)
                       /\ xb0[l] = Rotate(r.B[(k % 16) + 1][l], 1) (+) Complement(NextA(r, C, M, k, l))
  BY <1>5
<1> HIDE DEF xa0, xb0
<1>11. PP(n, r, C, M, k) \in Regs(n)
  <2>1. [r.A EXCEPT ![(k % 12) + 1] = xa0] \in Vectors(n, 12)
    BY <1>1, <1>3 DEF Vectors
  <2>2. [r.B EXCEPT ![(k % 16) + 1] = xb0] \in Vectors(n, 16)
    BY <1>3, <1>6 DEF Vectors
  <2> QED BY <1>8, <1>9, <2>1, <2>2 DEF Regs
<1>12. PICK P : P = PP(n, r, C, M, k) /\ P.A = [r.A EXCEPT ![(k % 12) + 1] = xa0]
                /\ P.B = [r.B EXCEPT ![(k % 16) + 1] = xb0]
  BY <1>8, <1>9
<1>13. ASSUME NEW l \in 1 .. n
       PROVE  LaneStep(P, r, NextA(r, C, M, k, l), k, l)
  BY <1>3, <1>10, <1>12 DEF LaneStep
<1> QED BY <1>11, <1>12, <1>13

\* A step of the recurrences, without the evaluation order.
Recurrence(r, C, m, k) ==
    ((3 * (r.a[k] (+) ((5 * Rotate(r.a[k + 11], 15)) % 2^WordBits) (+) C[((9 - k) % 16) + 1]))
         % 2^WordBits) (+) r.b[k + 13]
      (+) BothSet(Complement(r.b[k + 6]), r.b[k + 9]) (+) m[((k - 1) % 16) + 1]

\* One step of the recurrence, with its new A named once.
LEMMA RecurredIs ==
    ASSUME NEW r, NEW C, NEW m, NEW k
    PROVE  Recurred(r, C, m, k) =
             [a |-> Append(r.a, Recurrence(r, C, m, k)),
              b |-> Append(r.b, Rotate(r.b[k], 1) (+) Complement(Recurrence(r, C, m, k)))]
BY DEF Recurred, Recurrence, Strictly

\* The two agree when the registers hold the last words of the recurrences:
\* the k-th step of the permutation, counted from 0, is the next recurrence.
HoldWords(q, r, k, l) ==
    /\ \A i \in 0 .. 11 : q.a[k + 1 + i] = RegA(r, k + i, l)
    /\ \A i \in 0 .. 15 : q.b[k + 1 + i] = RegB(r, k + i, l)

\* A lane whose words are in the registers of PP computes the same next A.
LEMMA RecurrenceIsNextA ==
    ASSUME NEW n \in Nat, NEW r \in Regs(n), NEW C \in Vectors(n, 16), NEW M \in Vectors(n, 16),
           NEW h \in 0 .. 47, NEW l \in 1 .. n, NEW q, HoldWords(q, r, h, l)
    PROVE  Recurrence(q, Lane(C, 16, l), Lane(M, 16, l), h + 1) = NextA(r, C, M, h, l)
<1>1. PICK k \in Nat : k = h + 1 /\ h \in Nat
  OBVIOUS
<1>2. /\ q.a[k] = RegA(r, h, l) /\ q.a[k + 11] = RegA(r, h + 11, l)
      /\ q.b[k + 13] = RegB(r, h + 13, l) /\ q.b[k + 6] = RegB(r, h + 6, l)
      /\ q.b[k + 9] = RegB(r, h + 9, l)
  <2>1. h + 1 + 0 = k /\ h + 0 = h
    BY <1>1
  <2>2. q.a[h + 1 + 0] = RegA(r, h + 0, l)
    BY DEF HoldWords
  <2> QED BY <1>1, <2>1, <2>2 DEF HoldWords
<1>3. PICK c, m : c = C[((8 - h) % 16) + 1][l] /\ m = M[(h % 16) + 1][l] /\ c \in Word /\ m \in Word
                  /\ Lane(C, 16, l)[((9 - k) % 16) + 1] = c /\ Lane(M, 16, l)[((k - 1) % 16) + 1] = m
  <2>1. ((8 - h) % 16) + 1 \in 1 .. 16 /\ (h % 16) + 1 \in 1 .. 16
    BY <1>1
  <2>2. 9 - k = 8 - h /\ k - 1 = h
    BY <1>1
  <2> QED BY <2>1, <2>2 DEF Vectors, Lane
<1>4. PICK a0, a11, b13, b6, b9 :
         /\ a0 = RegA(r, h, l) /\ a11 = RegA(r, h + 11, l) /\ b13 = RegB(r, h + 13, l)
         /\ b6 = RegB(r, h + 6, l) /\ b9 = RegB(r, h + 9, l)
         /\ a0 \in Word /\ a11 \in Word /\ b13 \in Word /\ b6 \in Word /\ b9 \in Word
  <2>1. \A i \in Nat : (i % 12) + 1 \in 1 .. 12 /\ (i % 16) + 1 \in 1 .. 16
    OBVIOUS
  <2>2. r.A \in Vectors(n, 12) /\ r.B \in Vectors(n, 16)
    BY DEF Regs
  <2>3. \A i \in Nat : RegA(r, i, l) \in Word /\ RegB(r, i, l) \in Word
    BY <2>1, <2>2, ZenonT(30) DEF Vectors, RegA, RegB
  <2> QED BY <2>3
<1>5. PICK v \in Word : v = Rotate(a11, 15)
  BY <1>4, RotateWord
<1>6. Times5(v) = (5 * v) % 2^WordBits /\ Times5(v) \in Word
  BY TimesIs
<1>7. PICK u \in Word : u = a0 (+) Times5(v) (+) c
  BY <1>3, <1>4, <1>6, XorWord
<1>8. Times3(u) = (3 * u) % 2^WordBits /\ Times3(u) \in Word
  BY TimesIs
<1>9. PICK d \in Word : d = BothSet(Complement(b6), b9)
  BY <1>4, ComplementWord, BothSetWord
<1>10. PICK e \in Word : e = Times3(u) (+) b13
  BY <1>4, <1>8, XorWord
<1>11. NextA(r, C, M, h, l) = e (+) (d (+) m)
  BY <1>3, <1>4, <1>5, <1>7, <1>9, <1>10 DEF NextA
<1>12. Recurrence(q, Lane(C, 16, l), Lane(M, 16, l), k) = e (+) d (+) m
  BY <1>2, <1>3, <1>4, <1>5, <1>6, <1>7, <1>8, <1>9, <1>10 DEF Recurrence
<1>13. e (+) d (+) m = e (+) (d (+) m)
  BY <1>3, XorAssociates
<1> QED BY <1>1, <1>11, <1>12, <1>13

\* Appending the next value of a function continues the sequence.
LEMMA AppendIs ==
    ASSUME NEW m \in Nat, NEW S, NEW h \in [1 .. m + 1 -> S]
    PROVE  Append([i \in 1 .. m |-> h[i]], h[m + 1]) = h
<1> DEFINE s == [i \in 1 .. m |-> h[i]]
<1>1. s \in Seq(S) /\ Len(s) = m /\ \A i \in 1 .. m : s[i] = h[i]
  OBVIOUS
<1> HIDE DEF s
<1>2. PICK t : t = Append(s, h[m + 1]) /\ t \in Seq(S) /\ Len(t) = m + 1
               /\ \A i \in 1 .. m + 1 : t[i] = IF i = m + 1 THEN h[m + 1] ELSE s[i]
  BY <1>1
<1>3. t \in [1 .. m + 1 -> S]
  BY <1>2, LenProperties
<1>4. \A i \in 1 .. m + 1 : t[i] = h[i]
  BY <1>1, <1>2
<1>5. t = h
  BY <1>3, <1>4
<1> QED BY <1>2, <1>5 DEF s

\* The words of the recurrences, as a run of the permutation leaves them.
WordA(f, l) == [i \in 1 .. 60 |-> IF i <= 12 THEN f[0].A[i][l] ELSE f[i - 12].A[((i - 13) % 12) + 1][l]]
WordB(f, l) == [i \in 1 .. 64 |-> IF i <= 16 THEN f[0].B[i][l] ELSE f[i - 16].B[((i - 17) % 16) + 1][l]]
IsPPRun(n, f, C, M) ==
    /\ f \in [0 .. 48 -> Regs(n)]
    /\ \A k \in 1 .. 48 : f[k] = PP(n, f[k - 1], C, M, k - 1)

\* The registers take turns: they hold the last words of each recurrence.
LEMMA LastWords ==
    ASSUME NEW n \in Nat, NEW C \in Vectors(n, 16), NEW M \in Vectors(n, 16), NEW f,
           IsPPRun(n, f, C, M), NEW l \in 1 .. n, NEW k \in 0 .. 48
    PROVE  HoldWords([a |-> WordA(f, l), b |-> WordB(f, l)], f[k], k, l)
<1> DEFINE A(h) == \A i \in 0 .. 11 : WordA(f, l)[h + 1 + i] = RegA(f[h], h + i, l)
           B(h) == \A i \in 0 .. 15 : WordB(f, l)[h + 1 + i] = RegB(f[h], h + i, l)
           P == {h \in 0 .. 48 : A(h) /\ B(h)}
<1>1. 0 \in P
  <2>1. ASSUME NEW i \in 0 .. 11 PROVE WordA(f, l)[0 + 1 + i] = RegA(f[0], 0 + i, l)
    <3>1. 0 + 1 + i \in 1 .. 60 /\ 0 + 1 + i <= 12 /\ ((0 + i) % 12) + 1 = 0 + 1 + i
      OBVIOUS
    <3> QED BY <3>1 DEF WordA, RegA
  <2>2. ASSUME NEW i \in 0 .. 15 PROVE WordB(f, l)[0 + 1 + i] = RegB(f[0], 0 + i, l)
    <3>1. 0 + 1 + i \in 1 .. 64 /\ 0 + 1 + i <= 16 /\ ((0 + i) % 16) + 1 = 0 + 1 + i
      OBVIOUS
    <3> QED BY <3>1 DEF WordB, RegB
  <2> QED BY <2>1, <2>2
<1>2. ASSUME NEW h \in 1 .. 48, h - 1 \in P PROVE h \in P
  <2>1. f[h - 1] \in Regs(n) /\ f[h] = PP(n, f[h - 1], C, M, h - 1) /\ h - 1 \in Nat
    BY DEF IsPPRun
  <2>2. /\ \A i \in 1 .. 12 : i # ((h - 1) % 12) + 1 => f[h].A[i][l] = f[h - 1].A[i][l]
        /\ \A i \in 1 .. 16 : i # ((h - 1) % 16) + 1 => f[h].B[i][l] = f[h - 1].B[i][l]
    <3>1. LaneStep(PP(n, f[h - 1], C, M, h - 1), f[h - 1], NextA(f[h - 1], C, M, h - 1, l), h - 1, l)
      BY <2>1, PPIs
    <3> QED BY <2>1, <3>1 DEF LaneStep
  <2>3. A(h - 1) /\ B(h - 1)
    BY <1>2
  <2>4. ASSUME NEW i \in 0 .. 11 PROVE WordA(f, l)[h + 1 + i] = RegA(f[h], h + i, l)
    <3>1. CASE i = 11
      <4>1. h + 1 + i \in 1 .. 60 /\ ~(h + 1 + i <= 12) /\ h + 1 + i - 12 = h /\ h + 1 + i - 13 = h - 1
        BY <3>1
      <4>2. (h + i) % 12 = (h - 1) % 12
        BY <3>1
      <4> QED BY <4>1, <4>2, SMTT(30) DEF WordA, RegA
    <3>2. CASE i # 11
      <4>1. i + 1 \in 0 .. 11 /\ (h - 1) + 1 + (i + 1) = h + 1 + i /\ (h - 1) + (i + 1) = h + i
        BY <3>2
      <4>2. WordA(f, l)[(h - 1) + 1 + (i + 1)] = RegA(f[h - 1], (h - 1) + (i + 1), l)
        BY <2>3, <4>1
      <4>3. ((h + i) % 12) + 1 \in 1 .. 12 /\ ((h + i) % 12) + 1 # ((h - 1) % 12) + 1
        BY <3>2
      <4> QED BY <2>2, <4>1, <4>2, <4>3 DEF RegA
    <3> QED BY <3>1, <3>2
  <2>5. ASSUME NEW i \in 0 .. 15 PROVE WordB(f, l)[h + 1 + i] = RegB(f[h], h + i, l)
    <3>1. CASE i = 15
      <4>1. h + 1 + i \in 1 .. 64 /\ ~(h + 1 + i <= 16) /\ h + 1 + i - 16 = h /\ h + 1 + i - 17 = h - 1
        BY <3>1
      <4>2. (h + i) % 16 = (h - 1) % 16
        BY <3>1
      <4> QED BY <4>1, <4>2 DEF WordB, RegB
    <3>2. CASE i # 15
      <4>1. i + 1 \in 0 .. 15 /\ (h - 1) + 1 + (i + 1) = h + 1 + i /\ (h - 1) + (i + 1) = h + i
        BY <3>2
      <4>2. WordB(f, l)[(h - 1) + 1 + (i + 1)] = RegB(f[h - 1], (h - 1) + (i + 1), l)
        BY <2>3, <4>1
      <4>3. ((h + i) % 16) + 1 \in 1 .. 16 /\ ((h + i) % 16) + 1 # ((h - 1) % 16) + 1
        BY <3>2
      <4> QED BY <2>2, <4>1, <4>2, <4>3 DEF RegB
    <3> QED BY <3>1, <3>2
  <2> QED BY <2>4, <2>5
<1>3. k \in P
  <2> HIDE DEF P
  <2> QED BY <1>1, <1>2, Climb
<1> QED BY <1>3 DEF HoldWords

\* The words that a run of PP leaves behind in one lane.
LEMMA WordsType ==
    ASSUME NEW n \in Nat, NEW f \in [0 .. 48 -> Regs(n)], NEW l \in 1 .. n
    PROVE  WordA(f, l) \in [1 .. 60 -> Word] /\ WordB(f, l) \in [1 .. 64 -> Word]
<1>1. \A k \in 0 .. 48 : f[k].A \in Vectors(n, 12) /\ f[k].B \in Vectors(n, 16)
  BY DEF Regs
<1>2. ASSUME NEW k \in 0 .. 48
      PROVE  /\ \A i \in 1 .. 12 : f[k].A[i][l] \in Word
             /\ \A i \in 1 .. 16 : f[k].B[i][l] \in Word
  <2>1. PICK A, B : A = f[k].A /\ B = f[k].B /\ A \in Vectors(n, 12) /\ B \in Vectors(n, 16)
    BY <1>1
  <2>2. (\A i \in 1 .. 12 : A[i][l] \in Word) /\ (\A i \in 1 .. 16 : B[i][l] \in Word)
    BY <2>1, ZenonT(30) DEF Vectors
  <2> QED BY <2>1, <2>2
<1>3. ASSUME NEW i \in 1 .. 60
      PROVE  (IF i <= 12 THEN f[0].A[i][l] ELSE f[i - 12].A[((i - 13) % 12) + 1][l]) \in Word
  <2>1. CASE i <= 12
    <3>1. i \in 1 .. 12 /\ 0 \in 0 .. 48
      BY <2>1
    <3> QED BY <1>2, <2>1, <3>1
  <2>2. CASE ~(i <= 12)
    <3>1. PICK k \in 0 .. 48, j \in 1 .. 12 : k = i - 12 /\ j = ((i - 13) % 12) + 1
      BY <2>2
    <3>2. f[k].A[j][l] \in Word
      BY <1>2
    <3> QED BY <2>2, <3>1, <3>2
  <2> QED BY <2>1, <2>2
<1>4. ASSUME NEW i \in 1 .. 64
      PROVE  (IF i <= 16 THEN f[0].B[i][l] ELSE f[i - 16].B[((i - 17) % 16) + 1][l]) \in Word
  <2>1. CASE i <= 16
    <3>1. i \in 1 .. 16 /\ 0 \in 0 .. 48
      BY <2>1
    <3> QED BY <1>2, <2>1, <3>1
  <2>2. CASE ~(i <= 16)
    <3>1. PICK k \in 0 .. 48, j \in 1 .. 16 : k = i - 16 /\ j = ((i - 17) % 16) + 1
      BY <2>2
    <3>2. f[k].B[j][l] \in Word
      BY <1>2
    <3> QED BY <2>2, <3>1, <3>2
  <2> QED BY <2>1, <2>2
<1> QED BY <1>3, <1>4 DEF WordA, WordB

\* The recurrences as a run.
LaneAt(wa, wb, k) == [a |-> [i \in 1 .. 12 + k |-> wa[i]], b |-> [i \in 1 .. 16 + k |-> wb[i]]]
LaneRun(f, l) == [k \in 0 .. 48 |-> LaneAt(WordA(f, l), WordB(f, l), k)]

\* The words of a lane one step on.
LEMMA LaneAtNext ==
    ASSUME NEW wa \in [1 .. 60 -> Word], NEW wb \in [1 .. 64 -> Word], NEW h \in 0 .. 47
    PROVE  LaneAt(wa, wb, h + 1) = [a |-> Append(LaneAt(wa, wb, h).a, wa[h + 13]),
                                    b |-> Append(LaneAt(wa, wb, h).b, wb[h + 17])]
<1>1. Append([i \in 1 .. 12 + h |-> wa[i]], wa[h + 13]) = [i \in 1 .. 12 + (h + 1) |-> wa[i]]
  <2>1. PICK m \in Nat : m = 12 + h /\ m + 1 = 12 + (h + 1) /\ m + 1 = h + 13
                         /\ \A i \in 1 .. m + 1 : i \in 1 .. 60
    OBVIOUS
  <2> DEFINE g == [i \in 1 .. m + 1 |-> wa[i]]
  <2>2. g \in [1 .. m + 1 -> Word]
    BY <2>1
  <2>3. g[m + 1] = wa[h + 13] /\ \A i \in 1 .. m : g[i] = wa[i]
    BY <2>1
  <2>4. [i \in 1 .. m |-> wa[i]] = [i \in 1 .. m |-> g[i]]
    BY <2>3
  <2>5. Append([i \in 1 .. m |-> g[i]], g[m + 1]) = g
    <3> HIDE DEF g
    <3> QED BY <2>2, AppendIs
  <2>6. g = [i \in 1 .. 12 + (h + 1) |-> wa[i]]
    BY <2>1
  <2> HIDE DEF g
  <2> QED BY <2>1, <2>3, <2>4, <2>5, <2>6
<1>2. Append([i \in 1 .. 16 + h |-> wb[i]], wb[h + 17]) = [i \in 1 .. 16 + (h + 1) |-> wb[i]]
  <2>1. PICK m \in Nat : m = 16 + h /\ m + 1 = 16 + (h + 1) /\ m + 1 = h + 17
                         /\ \A i \in 1 .. m + 1 : i \in 1 .. 64
    OBVIOUS
  <2> DEFINE g == [i \in 1 .. m + 1 |-> wb[i]]
  <2>2. g \in [1 .. m + 1 -> Word]
    BY <2>1
  <2>3. g[m + 1] = wb[h + 17] /\ \A i \in 1 .. m : g[i] = wb[i]
    BY <2>1
  <2>4. [i \in 1 .. m |-> wb[i]] = [i \in 1 .. m |-> g[i]]
    BY <2>3
  <2>5. Append([i \in 1 .. m |-> g[i]], g[m + 1]) = g
    <3> HIDE DEF g
    <3> QED BY <2>2, AppendIs
  <2>6. g = [i \in 1 .. 16 + (h + 1) |-> wb[i]]
    BY <2>1
  <2> HIDE DEF g
  <2> QED BY <2>1, <2>3, <2>4, <2>5, <2>6
<1> QED BY <1>1, <1>2 DEF LaneAt

\* Each step of PP is, in every lane, a step of the recurrence of the definition.
LEMMA LaneRunSteps ==
    ASSUME NEW n \in Nat, NEW C \in Vectors(n, 16), NEW M \in Vectors(n, 16), NEW f,
           IsPPRun(n, f, C, M), NEW l \in 1 .. n, NEW h \in 0 .. 47
    PROVE  LaneRun(f, l)[h + 1] = Recurred(LaneRun(f, l)[h], Lane(C, 16, l), Lane(M, 16, l), h + 1)
<1>1. PICK wa, wb : wa = WordA(f, l) /\ wb = WordB(f, l)
                    /\ wa \in [1 .. 60 -> Word] /\ wb \in [1 .. 64 -> Word]
  BY WordsType DEF IsPPRun
<1>2. f[h] \in Regs(n) /\ f[h + 1] = PP(n, f[h], C, M, h) /\ h \in Nat /\ h \in 0 .. 48 /\ h + 1 \in 0 .. 48
  <2>1. h + 1 \in 1 .. 48 /\ (h + 1) - 1 = h
    OBVIOUS
  <2> QED BY <2>1 DEF IsPPRun
<1>3. PICK q : q = LaneRun(f, l)[h] /\ q = LaneAt(wa, wb, h) /\ LaneRun(f, l)[h + 1] = LaneAt(wa, wb, h + 1)
  BY <1>1, <1>2 DEF LaneRun
<1>4. q.a = [i \in 1 .. 12 + h |-> wa[i]] /\ q.b = [i \in 1 .. 16 + h |-> wb[i]]
  BY <1>3 DEF LaneAt
<1>5. HoldWords(q, f[h], h, l)
  <2>1. /\ \A i \in 0 .. 11 : wa[h + 1 + i] = RegA(f[h], h + i, l)
        /\ \A i \in 0 .. 15 : wb[h + 1 + i] = RegB(f[h], h + i, l)
    <3>1. /\ \A i \in 0 .. 11 : WordA(f, l)[h + 1 + i] = RegA(f[h], h + i, l)
          /\ \A i \in 0 .. 15 : WordB(f, l)[h + 1 + i] = RegB(f[h], h + i, l)
      <4>1. HoldWords([a |-> WordA(f, l), b |-> WordB(f, l)], f[h], h, l)
        BY <1>2, LastWords
      <4> QED BY <4>1 DEF HoldWords
    <3> QED BY <1>1, <3>1
  <2>2. /\ \A i \in 0 .. 11 : h + 1 + i \in 1 .. 12 + h
        /\ \A i \in 0 .. 15 : h + 1 + i \in 1 .. 16 + h
    OBVIOUS
  <2> QED BY <1>4, <2>1, <2>2 DEF HoldWords
<1>6. PICK z : z = NextA(f[h], C, M, h, l) /\ z = Recurrence(q, Lane(C, 16, l), Lane(M, 16, l), h + 1)
  BY <1>2, <1>5, RecurrenceIsNextA
<1>7. LaneStep(f[h + 1], f[h], z, h, l)
  BY <1>2, <1>6, PPIs
<1>8. wa[h + 13] = z
  <2>1. h + 13 \in 1 .. 60 /\ ~(h + 13 <= 12) /\ h + 13 - 12 = h + 1 /\ h + 13 - 13 = h /\ (h % 12) + 1 \in 1 .. 12
    OBVIOUS
  <2>2. wa[h + 13] = f[h + 1].A[(h % 12) + 1][l]
    <3>1. PICK i : i = h + 13
      OBVIOUS
    <3>2. WordA(f, l)[i] = f[i - 12].A[((i - 13) % 12) + 1][l]
      BY <2>1, <3>1 DEF WordA
    <3>3. i - 12 = h + 1 /\ i - 13 = h
      BY <3>1
    <3> QED BY <1>1, <3>1, <3>2, <3>3
  <2> QED BY <1>7, <2>1, <2>2 DEF LaneStep
<1>9. wb[h + 17] = Rotate(q.b[h + 1], 1) (+) Complement(z)
  <2>1. h + 17 \in 1 .. 64 /\ ~(h + 17 <= 16) /\ h + 17 - 16 = h + 1 /\ h + 17 - 17 = h /\ (h % 16) + 1 \in 1 .. 16
    OBVIOUS
  <2>2. wb[h + 17] = f[h + 1].B[(h % 16) + 1][l]
    <3>1. PICK i : i = h + 17
      OBVIOUS
    <3>2. WordB(f, l)[i] = f[i - 16].B[((i - 17) % 16) + 1][l]
      BY <2>1, <3>1 DEF WordB
    <3>3. i - 16 = h + 1 /\ i - 17 = h
      BY <3>1
    <3> QED BY <1>1, <3>1, <3>2, <3>3
  <2>3. q.b[h + 1 + 0] = RegB(f[h], h + 0, l) /\ h + 1 + 0 = h + 1 /\ h + 0 = h
    BY <1>5 DEF HoldWords
  <2>4. q.b[h + 1] = f[h].B[(h % 16) + 1][l]
    BY <2>3 DEF RegB
  <2> QED BY <1>7, <2>1, <2>2, <2>4 DEF LaneStep
<1>10. LaneAt(wa, wb, h + 1) = [a |-> Append(q.a, wa[h + 13]), b |-> Append(q.b, wb[h + 17])]
  BY <1>1, <1>3, LaneAtNext
<1>11. Recurred(q, Lane(C, 16, l), Lane(M, 16, l), h + 1) =
          [a |-> Append(q.a, z), b |-> Append(q.b, Rotate(q.b[h + 1], 1) (+) Complement(z))]
  BY <1>6, RecurredIs
<1> QED BY <1>3, <1>8, <1>9, <1>10, <1>11

-----------------------------------------------------------------------------
(* The permutation of a block                                              *)

MixedStart(st, m, w) ==
    LET W(j) == IF j = 1 THEN w % 2^CounterBits
                ELSE IF j = 2 THEN w \div 2^CounterBits ELSE 0
    IN [a |-> Tuple([j \in 1 .. 12 |-> st.A[j] (+) W(j)]),
        b |-> Tuple([j \in 1 .. 16 |-> Rotate(Plus(st.B[j], m[j]), 17)])]
MixedEnd(st, m, end) ==
    LET C(j) == st.C[(j % 16) + 1]
    IN [A |-> Tuple([j \in 1 .. 12 |->
                  (end.a[48 + j] + C(j + 2) + C(j + 14) + C(j + 10)) % 2^WordBits]),
        B |-> Tuple([j \in 1 .. 16 |-> Minus(st.C[j], m[j])]),
        C |-> SubSeq(end.b, 49, 64)]
MixedStep(s, C, m, k) == Strictly(LAMBDA r : Recurred(r, C, m, k), s)
MixedSteps(st, m, w, g) ==
    g = [k \in 0 .. 48 |-> IF k = 0 THEN MixedStart(st, m, w)
                           ELSE MixedStep(g[k - 1], st.C, m, k)]

\* A run of the recurrence, however it is presented, gives Mixed.
LEMMA MixedIs ==
    ASSUME NEW st, NEW m, NEW w, NEW g, DOMAIN g = 0 .. 48, g = [k \in 0 .. 48 |-> g[k]],
           g[0] = MixedStart(st, m, w), \A k \in 1 .. 48 : g[k] = Recurred(g[k - 1], st.C, m, k)
    PROVE  Mixed(st, m, w) = MixedEnd(st, m, g[48])
<1>1. Mixed(st, m, w) = MixedEnd(st, m, (CHOOSE h : MixedSteps(st, m, w, h))[48])
  <2>1. Mixed(st, m, w) =
            Strictly(LAMBDA end : MixedEnd(st, m, end), (CHOOSE h : MixedSteps(st, m, w, h))[48])
    BY DEF Mixed, Iterated, MixedStart, MixedEnd, MixedSteps, MixedStep
  <2> QED BY <2>1 DEF Strictly
<1>2. \A s, k : MixedStep(s, st.C, m, k) = Recurred(s, st.C, m, k)
  BY DEF MixedStep, Strictly
<1>3. MixedSteps(st, m, w, g)
  <2>1. \A k \in 0 .. 48 : g[k] = IF k = 0 THEN MixedStart(st, m, w)
                                  ELSE MixedStep(g[k - 1], st.C, m, k)
    <3>1. \A k \in 0 .. 48 : k = 0 \/ k \in 1 .. 48
      OBVIOUS
    <3> QED BY <1>2, <3>1
  <2> QED BY <2>1 DEF MixedSteps
<1>4. PICK h : h = (CHOOSE q : MixedSteps(st, m, w, q)) /\ MixedSteps(st, m, w, h)
  BY <1>3
<1>5. h[0] = MixedStart(st, m, w) /\ \A k \in 1 .. 48 : h[k] = Recurred(h[k - 1], st.C, m, k)
  <2>1. \A k \in 0 .. 48 : h[k] = IF k = 0 THEN MixedStart(st, m, w) ELSE MixedStep(h[k - 1], st.C, m, k)
    BY <1>4 DEF MixedSteps
  <2>2. 0 \in 0 .. 48 /\ \A k \in 1 .. 48 : k \in 0 .. 48 /\ k # 0
    OBVIOUS
  <2> QED BY <1>2, <2>1, <2>2
<1>6. h[48] = g[48]
  <2>1. \A k \in 1 .. 48 : g[k - 1] = h[k - 1] => g[k] = h[k]
    BY <1>5
  <2>2. \A k \in 0 .. 48 : g[k] = h[k]
    BY <1>5, <2>1, RunsAgree
  <2> QED BY <2>2
<1> QED BY <1>1, <1>4, <1>6

PermuteStep(n, s, C, M, k) == Strictly(LAMBDA q : PP(n, q, C, M, k - 1), s)
PermuteSteps(n, r, M, Wlow, Whigh, g) ==
    g = [k \in 0 .. 48 |-> IF k = 0 THEN Prepared(n, r, M, Wlow, Whigh)
                           ELSE PermuteStep(n, g[k - 1], r.C, M, k)]

\* A run of PP, however it is presented, gives Permute.
LEMMA PermuteIs ==
    ASSUME NEW n \in Nat, NEW r, NEW M, NEW Wlow, NEW Whigh, NEW f, IsPPRun(n, f, r.C, M),
           f[0] = Prepared(n, r, M, Wlow, Whigh)
    PROVE  Permute(n, r, M, Wlow, Whigh) = Finished(n, r.C, M, f[48])
<1>1. Permute(n, r, M, Wlow, Whigh) =
         Finished(n, r.C, M, (CHOOSE h : PermuteSteps(n, r, M, Wlow, Whigh, h))[48])
  <2>1. Permute(n, r, M, Wlow, Whigh) =
            Strictly(LAMBDA end : Finished(n, r.C, M, end),
                     (CHOOSE h : PermuteSteps(n, r, M, Wlow, Whigh, h))[48])
    BY DEF Permute, Iterated, PermuteSteps, PermuteStep
  <2> QED BY <2>1 DEF Strictly
<1>2. \A s, k : PermuteStep(n, s, r.C, M, k) = PP(n, s, r.C, M, k - 1)
  BY DEF PermuteStep, Strictly
<1>3. f \in [0 .. 48 -> Regs(n)] /\ \A k \in 1 .. 48 : f[k] = PP(n, f[k - 1], r.C, M, k - 1)
  BY DEF IsPPRun
<1>4. PermuteSteps(n, r, M, Wlow, Whigh, f)
  <2>1. \A k \in 0 .. 48 : f[k] = IF k = 0 THEN Prepared(n, r, M, Wlow, Whigh)
                                  ELSE PermuteStep(n, f[k - 1], r.C, M, k)
    <3>1. \A k \in 0 .. 48 : k = 0 \/ k \in 1 .. 48
      OBVIOUS
    <3> QED BY <1>2, <1>3, <3>1
  <2> QED BY <1>3, <2>1 DEF PermuteSteps
<1>5. PICK h : h = (CHOOSE q : PermuteSteps(n, r, M, Wlow, Whigh, q)) /\ PermuteSteps(n, r, M, Wlow, Whigh, h)
  BY <1>4
<1>6. h[0] = Prepared(n, r, M, Wlow, Whigh) /\ \A k \in 1 .. 48 : h[k] = PP(n, h[k - 1], r.C, M, k - 1)
  <2>1. \A k \in 0 .. 48 : h[k] = IF k = 0 THEN Prepared(n, r, M, Wlow, Whigh)
                                  ELSE PermuteStep(n, h[k - 1], r.C, M, k)
    BY <1>5 DEF PermuteSteps
  <2>2. 0 \in 0 .. 48 /\ \A k \in 1 .. 48 : k \in 0 .. 48 /\ k # 0
    OBVIOUS
  <2> QED BY <1>2, <2>1, <2>2
<1>7. h[48] = f[48]
  <2>1. \A k \in 1 .. 48 : f[k - 1] = h[k - 1] => f[k] = h[k]
    BY <1>3, <1>6
  <2>2. \A k \in 0 .. 48 : f[k] = h[k]
    BY <1>6, <2>1, RunsAgree
  <2> QED BY <2>2
<1> QED BY <1>1, <1>5, <1>7

\* Counters are words.
LEMMA CounterSize ==
    /\ 2^CounterBits \in Nat /\ 2^CounterBits > 0 /\ 0 \in Counter
    /\ \A x \in Counter : x \in Word /\ x \in Nat
<1>1. PICK i \in 0 .. WordBits : i = CounterBits
  BY BitsOfWord
<1>2. PICK P \in Nat, Q \in Nat : P = 2^CounterBits /\ P > 0 /\ Q > 0 /\ 2^WordBits = P * Q
  BY <1>1, PowerSplit
<1>3. P * Q >= P
  BY <1>2, MulMono
<1> QED BY <1>2, <1>3 DEF Counter, Word

\* The number of a block is kept in two counters and read from them again.
LEMMA CounterSplit ==
    ASSUME NEW Wlow \in Counter, NEW Whigh \in Counter
    PROVE  /\ (Wlow + 2^CounterBits * Whigh) % 2^CounterBits = Wlow
           /\ (Wlow + 2^CounterBits * Whigh) \div 2^CounterBits = Whigh
<1>1. PICK P \in Nat : P = 2^CounterBits /\ P > 0 /\ Wlow \in 0 .. P - 1 /\ Whigh \in Int
  BY CounterSize DEF Counter
<1>2. PICK w \in Int : w = Wlow + P * Whigh /\ w = P * Whigh + Wlow
  BY <1>1
<1>3. w % P = Wlow /\ w \div P = Whigh
  BY <1>1, <1>2, ModUnique
<1> QED BY <1>1, <1>2, <1>3

\* What is added to the first registers.
CounterWord(j, Wlow, Whigh) == IF j = 1 THEN Wlow ELSE IF j = 2 THEN Whigh ELSE 0

PreparedA(n, r, Wlow, Whigh) ==
    [j \in 1 .. 12 |-> [l \in 1 .. n |-> r.A[j][l] (+) CounterWord(j, Wlow, Whigh)]]
PreparedB(n, r, M) ==
    [j \in 1 .. 16 |-> [l \in 1 .. n |-> Rotate(Plus(r.B[j][l], M[j][l]), 17)]]

\* What the permutation starts from: the counter in A, the message in B.
LEMMA PreparedIs ==
    ASSUME NEW n \in Nat, NEW r, r.A \in Vectors(n, 12), r.B \in Vectors(n, 16),
           NEW M \in Vectors(n, 16), NEW Wlow \in Counter, NEW Whigh \in Counter
    PROVE  /\ Prepared(n, r, M, Wlow, Whigh) =
                  [A |-> PreparedA(n, r, Wlow, Whigh), B |-> PreparedB(n, r, M)]
           /\ Prepared(n, r, M, Wlow, Whigh) \in Regs(n)
<1>1. ASSUME NEW j \in 1 .. 12, NEW l \in 1 .. n
      PROVE  r.A[j][l] (+) CounterWord(j, Wlow, Whigh) \in Word
  <2>1. CounterWord(j, Wlow, Whigh) \in Word
    BY CounterSize DEF CounterWord
  <2>2. r.A[j][l] \in Word
    BY DEF Vectors
  <2> QED BY <2>1, <2>2, XorWord
<1>2. ASSUME NEW j \in 1 .. 16, NEW l \in 1 .. n
      PROVE  Rotate(Plus(r.B[j][l], M[j][l]), 17) \in Word
  <2>1. r.B[j][l] \in Word /\ M[j][l] \in Word
    BY DEF Vectors
  <2>2. Plus(r.B[j][l], M[j][l]) \in Word
    BY <2>1, WordInt, PlusIs
  <2> QED BY <2>2, RotateWord
<1> DEFINE A == PreparedA(n, r, Wlow, Whigh)
           B == PreparedB(n, r, M)
<1>3. A \in Vectors(n, 12) /\ B \in Vectors(n, 16)
  <2>1. \A j \in 1 .. 12 : [l \in 1 .. n |-> r.A[j][l] (+) CounterWord(j, Wlow, Whigh)] \in [1 .. n -> Word]
    BY <1>1
  <2>2. \A j \in 1 .. 16 : [l \in 1 .. n |-> Rotate(Plus(r.B[j][l], M[j][l]), 17)] \in [1 .. n -> Word]
    BY <1>2
  <2>3. A \in Vectors(n, 12)
    BY <2>1 DEF Vectors, PreparedA
  <2>4. B \in Vectors(n, 16)
    BY <2>2 DEF Vectors, PreparedB
  <2> QED BY <2>3, <2>4
<1>4. \A j \in 1 .. 12 : Tuple(A[j]) = A[j]
  <2>1. \A j \in 1 .. 12 : A[j] \in [1 .. n -> Word]
    BY <1>3 DEF Vectors
  <2> QED BY <2>1, TupleIs
<1>5. \A j \in 1 .. 16 : Tuple(B[j]) = B[j]
  <2>1. \A j \in 1 .. 16 : B[j] \in [1 .. n -> Word]
    BY <1>3 DEF Vectors
  <2> QED BY <2>1, TupleIs
<1>6. Tuple([j \in 1 .. 12 |->
          Tuple([l \in 1 .. n |-> r.A[j][l] (+) CounterWord(j, Wlow, Whigh)])]) = A
  <2>1. \A j \in 1 .. 12 : Tuple([l \in 1 .. n |-> r.A[j][l] (+) CounterWord(j, Wlow, Whigh)]) = A[j]
    BY <1>4 DEF PreparedA
  <2>2. [j \in 1 .. 12 |-> Tuple([l \in 1 .. n |-> r.A[j][l] (+) CounterWord(j, Wlow, Whigh)])] = A
    BY <1>3, <2>1 DEF Vectors
  <2>3. Tuple(A) = A
    <3> HIDE DEF A
    <3>1. 12 \in Nat /\ A \in [1 .. 12 -> [1 .. n -> Word]]
      BY <1>3 DEF Vectors
    <3> QED BY <3>1, TupleIs
  <2> QED BY <2>2, <2>3
<1>7. Tuple([j \in 1 .. 16 |->
          Tuple([l \in 1 .. n |-> Rotate(Plus(r.B[j][l], M[j][l]), 17)])]) = B
  <2>1. \A j \in 1 .. 16 : Tuple([l \in 1 .. n |-> Rotate(Plus(r.B[j][l], M[j][l]), 17)]) = B[j]
    BY <1>5 DEF PreparedB
  <2>2. [j \in 1 .. 16 |-> Tuple([l \in 1 .. n |-> Rotate(Plus(r.B[j][l], M[j][l]), 17)])] = B
    BY <1>3, <2>1 DEF Vectors
  <2>3. Tuple(B) = B
    <3> HIDE DEF B
    <3>1. 16 \in Nat /\ B \in [1 .. 16 -> [1 .. n -> Word]]
      BY <1>3 DEF Vectors
    <3> QED BY <3>1, TupleIs
  <2> QED BY <2>2, <2>3
<1>8. Prepared(n, r, M, Wlow, Whigh) = [A |-> A, B |-> B]
  BY <1>6, <1>7 DEF Prepared, CounterWord
<1> QED BY <1>3, <1>8 DEF Regs

\* The run of the 48 steps.
LEMMA PPRunExists ==
    ASSUME NEW n \in Nat, NEW C \in Vectors(n, 16), NEW M \in Vectors(n, 16), NEW x \in Regs(n)
    PROVE  \E f : IsPPRun(n, f, C, M) /\ f[0] = x
<1> DEFINE T == [k \in 0 .. 48 |-> Regs(n)]
           G == [k \in 1 .. 48 |-> [s \in Regs(n) |-> PP(n, s, C, M, k - 1)]]
<1>1. \A k \in 1 .. 48 : \A s \in Regs(n) : PP(n, s, C, M, k - 1) \in Regs(n)
  <2>1. \A k \in 1 .. 48 : k - 1 \in Nat
    OBVIOUS
  <2> QED BY <2>1, PPIs
<1>2. T \in [0 .. 48 -> SUBSET Regs(n)] /\ x \in T[0]
  OBVIOUS
<1>3. G \in [1 .. 48 -> [Regs(n) -> Regs(n)]]
  BY <1>1
<1>4. \A k \in 1 .. 48 : T[k - 1] = Regs(n) /\ T[k] = Regs(n)
  OBVIOUS
<1>5. \A k \in 1 .. 48 : \A s \in Regs(n) : G[k][s] = PP(n, s, C, M, k - 1)
  OBVIOUS
<1> HIDE DEF T, G
<1>6. Stepping(48, Regs(n), T, x, G)
  <2>1. \A k \in 1 .. 48 : \A s \in T[k - 1] : G[k][s] \in T[k]
    BY <1>1, <1>4, <1>5
  <2>2. 48 \in Nat
    OBVIOUS
  <2> QED BY <1>2, <1>3, <2>1, <2>2 DEF Stepping
<1>7. PICK f : Run(f, 48, Regs(n), T, x, G)
  BY <1>6, RunExists
<1>8. f \in [0 .. 48 -> Regs(n)] /\ f[0] = x /\ \A k \in 1 .. 48 : f[k] = G[k][f[k - 1]]
  BY <1>7 DEF Run
<1>9. \A k \in 1 .. 48 : f[k - 1] \in Regs(n)
  BY <1>8
<1>10. \A k \in 1 .. 48 : f[k] = PP(n, f[k - 1], C, M, k - 1)
  BY <1>5, <1>8, <1>9
<1> QED BY <1>8, <1>10 DEF IsPPRun

\* Three groups of registers, one after the other.
Registers(S, e, a, b, c) ==
    /\ e \in [1 .. 44 -> S]
    /\ \A j \in 1 .. 12 : e[j] = a[j]
    /\ \A j \in 1 .. 16 : e[12 + j] = b[j] /\ e[28 + j] = c[j]

\* Registers A, B and C behind one another, as the state keeps them.
LEMMA ConcatRegisters ==
    ASSUME NEW S, NEW a \in [1 .. 12 -> S], NEW b \in [1 .. 16 -> S], NEW c \in [1 .. 16 -> S]
    PROVE  Registers(S, a \o b \o c, a, b, c)
<1>1. PICK d : d = a \o b /\ d \in [1 .. 28 -> S]
               /\ (\A j \in 1 .. 12 : d[j] = a[j]) /\ \A j \in 1 .. 16 : d[12 + j] = b[j]
  <2>1. Joined(S, a \o b, a, 12, b, 16)
    BY ConcatFunctions
  <2>2. PICK d : d = a \o b /\ Joined(S, d, a, 12, b, 16)
    BY <2>1
  <2>3. 12 + 16 = 28
    OBVIOUS
  <2>4. d \in [1 .. 28 -> S]
    BY <2>2, <2>3 DEF Joined
  <2>5. (\A j \in 1 .. 12 : d[j] = a[j]) /\ \A j \in 1 .. 16 : d[12 + j] = b[j]
    BY <2>2 DEF Joined
  <2> QED BY <2>2, <2>4, <2>5
<1>2. PICK e : e = d \o c /\ e \in [1 .. 44 -> S]
               /\ (\A j \in 1 .. 28 : e[j] = d[j]) /\ \A j \in 1 .. 16 : e[28 + j] = c[j]
  <2>1. Joined(S, d \o c, d, 28, c, 16)
    BY <1>1, ConcatFunctions
  <2>2. PICK e : e = d \o c /\ Joined(S, e, d, 28, c, 16)
    BY <2>1
  <2>3. 28 + 16 = 44
    OBVIOUS
  <2>4. e \in [1 .. 44 -> S]
    BY <2>2, <2>3 DEF Joined
  <2>5. (\A j \in 1 .. 28 : e[j] = d[j]) /\ \A j \in 1 .. 16 : e[28 + j] = c[j]
    BY <2>2 DEF Joined
  <2> QED BY <2>2, <2>4, <2>5
<1>3. /\ \A j \in 1 .. 12 : j \in 1 .. 28
      /\ \A j \in 1 .. 16 : 12 + j \in 1 .. 28
  OBVIOUS
<1> QED BY <1>1, <1>2, <1>3 DEF Registers

FinishedA(n, C, end) ==
    [j \in 1 .. 12 |-> [l \in 1 .. n |->
        Plus(Plus(end.A[j][l], C[((j + 10) % 16) + 1][l]),
             Plus(C[((j + 14) % 16) + 1][l], C[((j + 2) % 16) + 1][l]))]]
FinishedB(n, C, M) == [j \in 1 .. 16 |-> [l \in 1 .. n |-> Minus(C[j][l], M[j][l])]]

\* What the permutation writes back: the sums in A, the difference in C.
LEMMA FinishedIs ==
    ASSUME NEW n \in Nat, NEW C \in Vectors(n, 16), NEW M \in Vectors(n, 16), NEW end \in Regs(n)
    PROVE  /\ FinishedA(n, C, end) \in Vectors(n, 12) /\ FinishedB(n, C, M) \in Vectors(n, 16)
           /\ Finished(n, C, M, end) = FinishedA(n, C, end) \o FinishedB(n, C, M) \o end.B
<1>0. end.A \in Vectors(n, 12)
  BY DEF Regs
<1>1. ASSUME NEW j \in 1 .. 12, NEW l \in 1 .. n
      PROVE  Plus(Plus(end.A[j][l], C[((j + 10) % 16) + 1][l]),
                  Plus(C[((j + 14) % 16) + 1][l], C[((j + 2) % 16) + 1][l])) \in Word
  <2>1. PICK p, q, s \in 1 .. 16 : p = ((j + 10) % 16) + 1 /\ q = ((j + 14) % 16) + 1 /\ s = ((j + 2) % 16) + 1
    BY SMTT(30)
  <2>2. end.A[j][l] \in Word /\ C[p][l] \in Word /\ C[q][l] \in Word /\ C[s][l] \in Word
    BY <1>0 DEF Vectors
  <2>3. Plus(end.A[j][l], C[p][l]) \in Word /\ Plus(C[q][l], C[s][l]) \in Word
    BY <2>2, WordInt, PlusIs
  <2>4. Plus(Plus(end.A[j][l], C[p][l]), Plus(C[q][l], C[s][l])) \in Word
    BY <2>3, WordInt, PlusIs
  <2> QED BY <2>1, <2>4
<1>2. ASSUME NEW j \in 1 .. 16, NEW l \in 1 .. n
      PROVE  Minus(C[j][l], M[j][l]) \in Word
  <2>1. C[j][l] \in Word /\ M[j][l] \in Word
    BY DEF Vectors
  <2> QED BY <2>1, WordInt, PlusIs
<1> DEFINE A == FinishedA(n, C, end)
           B == FinishedB(n, C, M)
<1>3. A \in Vectors(n, 12) /\ B \in Vectors(n, 16)
  <2>1. A \in Vectors(n, 12)
    BY <1>1 DEF Vectors, FinishedA
  <2>2. B \in Vectors(n, 16)
    BY <1>2 DEF Vectors, FinishedB
  <2> QED BY <2>1, <2>2
<1>4. \A j \in 1 .. 12 : Tuple(A[j]) = A[j]
  <2>1. \A j \in 1 .. 12 : A[j] \in [1 .. n -> Word]
    BY <1>3 DEF Vectors
  <2> QED BY <2>1, TupleIs
<1>5. \A j \in 1 .. 16 : Tuple(B[j]) = B[j]
  <2>1. \A j \in 1 .. 16 : B[j] \in [1 .. n -> Word]
    BY <1>3 DEF Vectors
  <2> QED BY <2>1, TupleIs
<1>6. Tuple([j \in 1 .. 12 |-> Tuple([l \in 1 .. n |->
          Plus(Plus(end.A[j][l], C[((j + 10) % 16) + 1][l]),
               Plus(C[((j + 14) % 16) + 1][l], C[((j + 2) % 16) + 1][l]))])]) = A
  <2>1. [j \in 1 .. 12 |-> Tuple([l \in 1 .. n |->
            Plus(Plus(end.A[j][l], C[((j + 10) % 16) + 1][l]),
                 Plus(C[((j + 14) % 16) + 1][l], C[((j + 2) % 16) + 1][l]))])]
          = [j \in 1 .. 12 |-> Tuple(A[j])]
    BY DEF FinishedA
  <2>2. [j \in 1 .. 12 |-> Tuple(A[j])] = A
    <3>1. \A j \in 1 .. 12 : Tuple(A[j]) = A[j]
      BY <1>4
    <3> HIDE DEF A
    <3> QED BY <1>3, <3>1 DEF Vectors
  <2>3. Tuple(A) = A
    <3> HIDE DEF A
    <3>1. 12 \in Nat /\ A \in [1 .. 12 -> [1 .. n -> Word]]
      BY <1>3 DEF Vectors
    <3> QED BY <3>1, TupleIs
  <2> HIDE DEF A
  <2> QED BY <2>1, <2>2, <2>3
<1>7. Tuple([j \in 1 .. 16 |-> Tuple([l \in 1 .. n |-> Minus(C[j][l], M[j][l])])]) = B
  <2>1. [j \in 1 .. 16 |-> Tuple([l \in 1 .. n |-> Minus(C[j][l], M[j][l])])]
          = [j \in 1 .. 16 |-> Tuple(B[j])]
    BY DEF FinishedB
  <2>2. [j \in 1 .. 16 |-> Tuple(B[j])] = B
    <3>1. \A j \in 1 .. 16 : Tuple(B[j]) = B[j]
      BY <1>5
    <3> HIDE DEF B
    <3> QED BY <1>3, <3>1 DEF Vectors
  <2>3. Tuple(B) = B
    <3> HIDE DEF B
    <3>1. 16 \in Nat /\ B \in [1 .. 16 -> [1 .. n -> Word]]
      BY <1>3 DEF Vectors
    <3> QED BY <3>1, TupleIs
  <2> HIDE DEF B
  <2> QED BY <2>1, <2>2, <2>3
<1>8. Finished(n, C, M, end) = A \o B \o end.B
  <2> HIDE DEF A, B
  <2> QED BY <1>6, <1>7 DEF Finished
<1> QED BY <1>3, <1>8

\* What one lane has of the registers before a block, and after it.
LaneIn(r, l) == [A |-> Lane(r.A, 12, l), B |-> Lane(r.B, 16, l), C |-> Lane(r.C, 16, l)]
LaneOf(P, l) == [A |-> [j \in 1 .. 12 |-> P[j][l]],
                 B |-> [j \in 1 .. 16 |-> P[12 + j][l]],
                 C |-> [j \in 1 .. 16 |-> P[28 + j][l]]]

LaneParts(a, b, c, l) == [A |-> [j \in 1 .. 12 |-> a[j][l]],
                          B |-> [j \in 1 .. 16 |-> b[j][l]],
                          C |-> [j \in 1 .. 16 |-> c[j][l]]]

\* PP starts in every lane where the definition starts.
LEMMA LaneStart ==
    ASSUME NEW n \in Nat, NEW r, r.A \in Vectors(n, 12), r.B \in Vectors(n, 16),
           NEW M \in Vectors(n, 16), NEW Wlow \in Counter, NEW Whigh \in Counter, NEW f, NEW l \in 1 .. n,
           f[0] = [A |-> PreparedA(n, r, Wlow, Whigh), B |-> PreparedB(n, r, M)]
    PROVE  LaneRun(f, l)[0] =
               MixedStart(LaneIn(r, l), Lane(M, 16, l), Wlow + 2^CounterBits * Whigh)
<1> DEFINE a == [j \in 1 .. 12 |-> r.A[j][l] (+) CounterWord(j, Wlow, Whigh)]
           b == [j \in 1 .. 16 |-> Rotate(Plus(r.B[j][l], M[j][l]), 17)]
<1>1. LaneRun(f, l)[0] = [a |-> a, b |-> b]
  <2>1. \A i \in 1 .. 12 : WordA(f, l)[i] = a[i]
    <3>1. ASSUME NEW i \in 1 .. 12 PROVE WordA(f, l)[i] = f[0].A[i][l]
      <4>1. i \in 1 .. 60 /\ i <= 12
        OBVIOUS
      <4> QED BY <4>1 DEF WordA
    <3>2. ASSUME NEW i \in 1 .. 12 PROVE f[0].A[i][l] = a[i]
      BY DEF PreparedA
    <3> QED BY <3>1, <3>2
  <2>2. \A i \in 1 .. 16 : WordB(f, l)[i] = b[i]
    <3>1. ASSUME NEW i \in 1 .. 16 PROVE WordB(f, l)[i] = f[0].B[i][l]
      <4>1. i \in 1 .. 64 /\ i <= 16
        OBVIOUS
      <4> QED BY <4>1 DEF WordB
    <3>2. ASSUME NEW i \in 1 .. 16 PROVE f[0].B[i][l] = b[i]
      BY DEF PreparedB
    <3> QED BY <3>1, <3>2
  <2>3. LaneRun(f, l)[0] = [a |-> [i \in 1 .. 12 |-> WordA(f, l)[i]], b |-> [i \in 1 .. 16 |-> WordB(f, l)[i]]]
    BY DEF LaneRun, LaneAt
  <2>4. [i \in 1 .. 12 |-> WordA(f, l)[i]] = a
    BY <2>1
  <2>5. [i \in 1 .. 16 |-> WordB(f, l)[i]] = b
    BY <2>2
  <2> HIDE DEF a, b
  <2> QED BY <2>3, <2>4, <2>5
<1>2. Tuple(a) = a /\ Tuple(b) = b
  <2>1. a \in [1 .. 12 -> {a[i] : i \in 1 .. 12}] /\ b \in [1 .. 16 -> {b[i] : i \in 1 .. 16}]
    OBVIOUS
  <2> HIDE DEF a, b
  <2> QED BY <2>1, TupleIs
<1>3. PICK st, m, w : st = LaneIn(r, l) /\ m = Lane(M, 16, l) /\ w = Wlow + 2^CounterBits * Whigh
  OBVIOUS
<1>4. w % 2^CounterBits = Wlow /\ w \div 2^CounterBits = Whigh
  BY <1>3, CounterSplit
<1>5. [j \in 1 .. 12 |-> st.A[j] (+) (IF j = 1 THEN w % 2^CounterBits
                                      ELSE IF j = 2 THEN w \div 2^CounterBits ELSE 0)] = a
  <2>1. \A j \in 1 .. 12 : st.A[j] = r.A[j][l]
    BY <1>3 DEF LaneIn, Lane
  <2> QED BY <1>4, <2>1 DEF CounterWord
<1>6. [j \in 1 .. 16 |-> Rotate(Plus(st.B[j], m[j]), 17)] = b
  <2>1. \A j \in 1 .. 16 : st.B[j] = r.B[j][l] /\ m[j] = M[j][l]
    BY <1>3 DEF LaneIn, Lane
  <2> QED BY <2>1
<1>7. MixedStart(st, m, w) = [a |-> Tuple(a), b |-> Tuple(b)]
  <2> HIDE DEF a, b
  <2> QED BY <1>5, <1>6 DEF MixedStart
<1> HIDE DEF a, b
<1> QED BY <1>1, <1>2, <1>3, <1>7

\* PP ends in every lane where the definition ends.
LEMMA LaneEnd ==
    ASSUME NEW n \in Nat, NEW r, NEW M \in Vectors(n, 16), r.C \in Vectors(n, 16), NEW f,
           IsPPRun(n, f, r.C, M), NEW l \in 1 .. n
    PROVE  MixedEnd(LaneIn(r, l), Lane(M, 16, l), LaneRun(f, l)[48]) =
               LaneParts(FinishedA(n, r.C, f[48]), FinishedB(n, r.C, M), f[48].B, l)
<1>1. PICK wa, wb : wa = WordA(f, l) /\ wb = WordB(f, l)
                    /\ wa \in [1 .. 60 -> Word] /\ wb \in [1 .. 64 -> Word]
  BY WordsType DEF IsPPRun
<1>2. HoldWords([a |-> wa, b |-> wb], f[48], 48, l)
  <2>1. 48 \in 0 .. 48
    OBVIOUS
  <2> QED BY <1>1, <2>1, LastWords
<1>3. ASSUME NEW j \in 1 .. 12 PROVE wa[48 + j] = f[48].A[j][l]
  <2>1. PICK i \in 0 .. 11 : i = j - 1 /\ 48 + 1 + i = 48 + j /\ ((48 + i) % 12) + 1 = j
    OBVIOUS
  <2>2. wa[48 + 1 + i] = RegA(f[48], 48 + i, l)
    BY <1>2 DEF HoldWords
  <2> QED BY <2>1, <2>2 DEF RegA
<1>4. ASSUME NEW j \in 1 .. 16 PROVE wb[48 + j] = f[48].B[j][l]
  <2>1. PICK i \in 0 .. 15 : i = j - 1 /\ 48 + 1 + i = 48 + j /\ ((48 + i) % 16) + 1 = j
    OBVIOUS
  <2>2. wb[48 + 1 + i] = RegB(f[48], 48 + i, l)
    BY <1>2 DEF HoldWords
  <2> QED BY <2>1, <2>2 DEF RegB
<1>5. PICK end : end = LaneRun(f, l)[48] /\ end.a = [i \in 1 .. 60 |-> wa[i]] /\ end.b = [i \in 1 .. 64 |-> wb[i]]
  <2>1. LaneRun(f, l)[48] = LaneAt(wa, wb, 48)
    BY <1>1 DEF LaneRun
  <2>2. 12 + 48 = 60 /\ 16 + 48 = 64
    OBVIOUS
  <2>3. LaneAt(wa, wb, 48) = [a |-> [i \in 1 .. 12 + 48 |-> wa[i]], b |-> [i \in 1 .. 16 + 48 |-> wb[i]]]
    BY DEF LaneAt
  <2>4. LaneAt(wa, wb, 48) = [a |-> [i \in 1 .. 60 |-> wa[i]], b |-> [i \in 1 .. 64 |-> wb[i]]]
    BY <2>2, <2>3
  <2>5. LaneAt(wa, wb, 48).a = [i \in 1 .. 60 |-> wa[i]] /\ LaneAt(wa, wb, 48).b = [i \in 1 .. 64 |-> wb[i]]
    BY <2>4
  <2> QED BY <2>1, <2>5
<1>6. end.b = wb /\ \A j \in 1 .. 12 : end.a[48 + j] = wa[48 + j]
  <2>1. \A j \in 1 .. 12 : 48 + j \in 1 .. 60
    OBVIOUS
  <2> QED BY <1>1, <1>5, <2>1
<1>7. PICK st, m : st = LaneIn(r, l) /\ m = Lane(M, 16, l)
  OBVIOUS
<1>8. \A j \in 1 .. 16 : st.C[j] = r.C[j][l] /\ st.C[j] \in Word /\ m[j] = M[j][l]
  BY <1>7 DEF LaneIn, Lane, Vectors
<1> DEFINE a == [j \in 1 .. 12 |-> (end.a[48 + j] + st.C[((j + 2) % 16) + 1]
                     + st.C[((j + 14) % 16) + 1] + st.C[((j + 10) % 16) + 1]) % 2^WordBits]
           b == [j \in 1 .. 16 |-> Minus(st.C[j], m[j])]
<1>9. MixedEnd(st, m, end) = [A |-> Tuple(a), B |-> Tuple(b), C |-> SubSeq(end.b, 49, 64)]
  BY DEF MixedEnd
<1>10. Tuple(a) = a /\ Tuple(b) = b
  <2>1. a \in [1 .. 12 -> {a[i] : i \in 1 .. 12}] /\ b \in [1 .. 16 -> {b[i] : i \in 1 .. 16}]
    OBVIOUS
  <2> HIDE DEF a, b
  <2> QED BY <2>1, TupleIs
<1>11. a = [j \in 1 .. 12 |-> FinishedA(n, r.C, f[48])[j][l]]
  <2>1. ASSUME NEW j \in 1 .. 12 PROVE a[j] = FinishedA(n, r.C, f[48])[j][l]
    <3>1. PICK p, q, s \in 1 .. 16 : p = ((j + 10) % 16) + 1 /\ q = ((j + 14) % 16) + 1 /\ s = ((j + 2) % 16) + 1
      BY SMTT(30)
    <3>2. PICK x \in Word : x = end.a[48 + j] /\ x = f[48].A[j][l]
      <4>1. 48 + j \in 1 .. 60
        OBVIOUS
      <4> QED BY <1>1, <1>3, <1>6, <4>1
    <3>3. Plus(Plus(x, st.C[p]), Plus(st.C[q], st.C[s])) = (x + st.C[s] + st.C[q] + st.C[p]) % 2^WordBits
      <4>1. PICK y \in Word, z \in Word, u \in Word : y = st.C[p] /\ z = st.C[q] /\ u = st.C[s]
        BY <1>8
      <4> QED BY <4>1, PlusFour
    <3>4. FinishedA(n, r.C, f[48])[j][l] = Plus(Plus(x, r.C[p][l]), Plus(r.C[q][l], r.C[s][l]))
      BY <3>1, <3>2 DEF FinishedA
    <3>5. a[j] = (x + st.C[s] + st.C[q] + st.C[p]) % 2^WordBits
      BY <3>1, <3>2
    <3> HIDE DEF a
    <3> QED BY <1>8, <3>3, <3>4, <3>5
  <2>2. a = [j \in 1 .. 12 |-> a[j]]
    OBVIOUS
  <2> HIDE DEF a
  <2> QED BY <2>1, <2>2
<1>12. b = [j \in 1 .. 16 |-> FinishedB(n, r.C, M)[j][l]]
  BY <1>8 DEF FinishedB
<1>13. SubSeq(end.b, 49, 64) = [j \in 1 .. 16 |-> f[48].B[j][l]]
  <2>1. PICK s : s = SubSeq(wb, 49, 64) /\ s \in Seq(Word) /\ Len(s) = 16 /\ \A j \in 1 .. 16 : s[j] = wb[48 + j]
    <3>1. \A i \in 49 .. 64 : wb[i] \in Word
      BY <1>1
    <3>2. SubSeq(wb, 49, 64) \in Seq(Word) /\ Len(SubSeq(wb, 49, 64)) = 16
      BY <3>1, SubSeqProperties
    <3>3. \A i \in 1 .. 64 - 49 + 1 : SubSeq(wb, 49, 64)[i] = wb[49 + i - 1]
      BY <3>1, SubSeqProperties
    <3>4. \A i \in 1 .. 16 : i \in 1 .. 64 - 49 + 1 /\ 49 + i - 1 = 48 + i
      OBVIOUS
    <3>5. \A i \in 1 .. 16 : SubSeq(wb, 49, 64)[i] = wb[48 + i]
      BY <3>3, <3>4
    <3> QED BY <3>2, <3>5
  <2>2. s \in [1 .. 16 -> Word]
    BY <2>1, SeqFunctions
  <2> QED BY <1>4, <1>6, <2>1, <2>2
<1> HIDE DEF a, b
<1> QED BY <1>5, <1>7, <1>9, <1>10, <1>11, <1>12, <1>13 DEF LaneParts


Permuted(n, P, r, M, w) ==
    /\ P \in Vectors(n, 44)
    /\ \A l \in 1 .. n : LaneOf(P, l) = Mixed(LaneIn(r, l), Lane(M, 16, l), w)

\* A block permutes the registers of each lane as if there were no others.
LEMMA PermuteLane ==
    ASSUME NEW n \in Nat, NEW r, r.A \in Vectors(n, 12), r.B \in Vectors(n, 16), r.C \in Vectors(n, 16),
           NEW M \in Vectors(n, 16), NEW Wlow \in Counter, NEW Whigh \in Counter
    PROVE  Permuted(n, Permute(n, r, M, Wlow, Whigh), r, M, Wlow + 2^CounterBits * Whigh)
<1>1. PICK x : x = Prepared(n, r, M, Wlow, Whigh) /\ x \in Regs(n)
               /\ x = [A |-> PreparedA(n, r, Wlow, Whigh), B |-> PreparedB(n, r, M)]
  BY PreparedIs
<1>2. PICK f : IsPPRun(n, f, r.C, M) /\ f[0] = x
  BY <1>1, PPRunExists
<1>3. Permute(n, r, M, Wlow, Whigh) = Finished(n, r.C, M, f[48])
  BY <1>1, <1>2, PermuteIs, ZenonT(30)
<1>4. f[48] \in Regs(n)
  BY <1>2 DEF IsPPRun
<1>5. PICK FA, FB, B : /\ FA = FinishedA(n, r.C, f[48]) /\ FB = FinishedB(n, r.C, M) /\ B = f[48].B
                       /\ FA \in Vectors(n, 12) /\ FB \in Vectors(n, 16) /\ B \in Vectors(n, 16)
                       /\ Finished(n, r.C, M, f[48]) = FA \o FB \o B
  <2>1. f[48].B \in Vectors(n, 16)
    BY <1>4 DEF Regs
  <2>2. FinishedA(n, r.C, f[48]) \in Vectors(n, 12) /\ FinishedB(n, r.C, M) \in Vectors(n, 16)
    BY <1>4, FinishedIs
  <2>3. Finished(n, r.C, M, f[48]) = FinishedA(n, r.C, f[48]) \o FinishedB(n, r.C, M) \o f[48].B
    BY <1>4, FinishedIs
  <2> QED BY <2>1, <2>2, <2>3
<1>6. PICK P : /\ P = FA \o FB \o B /\ P \in Vectors(n, 44)
               /\ \A j \in 1 .. 12 : P[j] = FA[j]
               /\ \A j \in 1 .. 16 : P[12 + j] = FB[j] /\ P[28 + j] = B[j]
  <2>1. FA \in [1 .. 12 -> [1 .. n -> Word]] /\ FB \in [1 .. 16 -> [1 .. n -> Word]]
        /\ B \in [1 .. 16 -> [1 .. n -> Word]]
    BY <1>5 DEF Vectors
  <2>2. Registers([1 .. n -> Word], FA \o FB \o B, FA, FB, B)
    BY <2>1, ConcatRegisters
  <2> QED BY <2>2 DEF Registers, Vectors
<1>7. ASSUME NEW l \in 1 .. n
      PROVE  LaneOf(P, l) = Mixed(LaneIn(r, l), Lane(M, 16, l), Wlow + 2^CounterBits * Whigh)
  <2>1. PICK st, m, w, g : st = LaneIn(r, l) /\ m = Lane(M, 16, l) /\ w = Wlow + 2^CounterBits * Whigh
                           /\ g = LaneRun(f, l)
    OBVIOUS
  <2>2. g[0] = MixedStart(st, m, w)
    BY <1>1, <1>2, <2>1, LaneStart
  <2>3. ASSUME NEW k \in 1 .. 48 PROVE g[k] = Recurred(g[k - 1], st.C, m, k)
    <3>1. PICK h \in 0 .. 47 : h = k - 1 /\ h + 1 = k
      OBVIOUS
    <3>2. g[h + 1] = Recurred(g[h], Lane(r.C, 16, l), m, h + 1)
      BY <1>2, <2>1, LaneRunSteps
    <3>3. st.C = Lane(r.C, 16, l)
      BY <2>1 DEF LaneIn
    <3> QED BY <3>1, <3>2, <3>3
  <2>4. DOMAIN g = 0 .. 48 /\ g = [k \in 0 .. 48 |-> g[k]]
    BY <2>1 DEF LaneRun
  <2>5. Mixed(st, m, w) = MixedEnd(st, m, g[48])
    BY <2>2, <2>3, <2>4, MixedIs
  <2>6. MixedEnd(st, m, g[48]) = LaneParts(FA, FB, B, l)
    BY <1>2, <1>5, <2>1, LaneEnd
  <2>7. LaneOf(P, l) = LaneParts(FA, FB, B, l)
    BY <1>6 DEF LaneOf, LaneParts
  <2> QED BY <2>1, <2>5, <2>6, <2>7
<1> QED BY <1>3, <1>5, <1>6, <1>7 DEF Permuted

-----------------------------------------------------------------------------
(* Memory: the words of the lanes alternate                                *)

\* Where the l-th lane's word of the q-th group of n is, and that it is
\* nowhere else.
LEMMA IndexIs ==
    ASSUME NEW n \in Nat, n > 0, NEW q \in Nat, NEW l \in 1 .. n, NEW m \in Nat, q < m
    PROVE  /\ n * q + l \in 1 .. m * n /\ n * q + l \in Nat
           /\ (n * q + l - 1) % n = l - 1 /\ (n * q + l - 1) \div n = q
<1>1. PICK p \in Nat : p = n * q
  OBVIOUS
<1>2. PICK c \in Int : c = p + l - 1
  OBVIOUS
<1>3. c % n = l - 1 /\ c \div n = q
  <2>1. n \in Nat /\ n > 0 /\ c \in Int /\ l - 1 \in 0 .. n - 1 /\ q \in Int /\ c = n * q + (l - 1)
    BY <1>1, <1>2
  <2> QED BY ONLY <2>1, ModUnique
<1>4. p + l \in 1 .. m * n
  <2>1. n * (m - 1 - q) >= 0
    OBVIOUS
  <2>2. n * (m - 1 - q) = m * n - n - n * q
    OBVIOUS
  <2>3. PICK b \in Int : b = m * n
    OBVIOUS
  <2>4. p \in Nat /\ b \in Int /\ n \in Nat /\ l \in 1 .. n /\ b - n - p >= 0
    BY <1>1, <2>1, <2>2, <2>3
  <2>5. p + l \in 1 .. b
    BY ONLY <2>4
  <2> QED BY <2>3, <2>5
<1> QED BY <1>1, <1>2, <1>3, <1>4

\* A place among words that alternate between n lanes is a register and a lane.
LEMMA IndexOf ==
    ASSUME NEW n \in Nat, n > 0, NEW m \in Nat, NEW z \in 1 .. m * n
    PROVE  /\ (z - 1) \div n \in 0 .. m - 1 /\ ((z - 1) % n) + 1 \in 1 .. n
           /\ z = n * ((z - 1) \div n) + (((z - 1) % n) + 1)
<1>0. m * n \in Int
  OBVIOUS
<1>1. PICK c \in Nat : c = z - 1 /\ c < m * n
  BY <1>0
<1>2. PICK d \in Int, r \in 0 .. n - 1 : r = c % n /\ d = c \div n /\ c = n * d + r
  BY ModDef
<1>3. d \in 0 .. m - 1
  <2>1. d < 0 => n * (0 - d) >= n
    BY MulMono
  <2>2. d >= m => n * (d - m) >= 0
    OBVIOUS
  <2>3. n * (0 - d) = 0 - n * d /\ n * (d - m) = n * d - m * n
    OBVIOUS
  <2>4. PICK p \in Int, b \in Int : p = n * d /\ b = m * n
    OBVIOUS
  <2>5. /\ p \in Int /\ b \in Int /\ n \in Nat /\ c \in Nat /\ d \in Int /\ m \in Nat /\ c < b
        /\ r \in 0 .. n - 1 /\ c = p + r /\ (d < 0 => 0 - p >= n) /\ (d >= m => p - b >= 0)
    BY <1>1, <1>2, <2>1, <2>2, <2>3, <2>4
  <2> QED BY ONLY <2>5
<1>4. z = n * d + (r + 1)
  BY <1>1, <1>2
<1> QED BY <1>1, <1>2, <1>3, <1>4

\* V is what is loaded from memory, the words of bufs in memory, and the memory
\* where regs is stored.
Loaded(n, V, words, first, count) ==
    /\ V \in Vectors(n, count)
    /\ \A j \in 1 .. count : \A l \in 1 .. n : V[j][l] = words[n * (first + j - 1) + l]
Alternate(n, words, bufs) ==
    /\ words \in [1 .. 16 * n -> Word]
    /\ \A l \in 1 .. n : \A k \in 1 .. 16 : words[n * (k - 1) + l] = bufs[l][k]
Remembered(n, words, regs) ==
    /\ words \in [1 .. 44 * n -> Word]
    /\ \A l \in 1 .. n : \A j \in 1 .. 44 : words[n * (j - 1) + l] = regs[j][l]

\* Loading finds the word of each lane in its place.
LEMMA LoadVectorsIs ==
    ASSUME NEW n \in Nat, n > 0, NEW m \in Nat, NEW words \in [1 .. m * n -> Word],
           NEW first \in Nat, NEW count \in Nat, first + count <= m
    PROVE  Loaded(n, LoadVectors(n, words, first, count), words, first, count)
<1> DEFINE V == [j \in 1 .. count |-> LoadVector(n, words, first + j - 1)]
<1>1. ASSUME NEW j \in 1 .. count
      PROVE  /\ V[j] \in [1 .. n -> Word]
             /\ \A l \in 1 .. n : V[j][l] = words[n * (first + j - 1) + l]
  <2>1. PICK q \in Nat : q = first + j - 1 /\ q < m
    OBVIOUS
  <2>2. PICK p \in Nat : p = n * q
    OBVIOUS
  <2>3. \A l \in 1 .. n : words[p + l] \in Word
    <3>1. \A l \in 1 .. n : n * q + l \in 1 .. m * n
      BY <2>1, IndexIs
    <3> QED BY <2>2, <3>1
  <2>4. \A i \in p + 1 .. p + n : words[i] \in Word
    <3>1. \A i \in p + 1 .. p + n : i - p \in 1 .. n /\ p + (i - p) = i
      OBVIOUS
    <3> QED BY <2>3, <3>1
  <2>5. PICK s : s = SubSeq(words, p + 1, p + n) /\ s \in Seq(Word) /\ Len(s) = n
                 /\ \A l \in 1 .. n : s[l] = words[p + l]
    <3>1. p + 1 \in Int /\ p + n \in Int /\ p + n - (p + 1) + 1 = n /\ p + 1 <= p + n
      OBVIOUS
    <3>2. SubSeq(words, p + 1, p + n) \in Seq(Word)
      BY <2>4, <3>1, SubSeqProperties
    <3>3. Len(SubSeq(words, p + 1, p + n)) = n
      BY <2>4, <3>1, SubSeqProperties
    <3>4. \A l \in 1 .. p + n - (p + 1) + 1 : SubSeq(words, p + 1, p + n)[l] = words[p + 1 + l - 1]
      BY <2>4, <3>1, SubSeqProperties
    <3>5. \A l \in 1 .. n : p + 1 + l - 1 = p + l
      OBVIOUS
    <3>6. \A l \in 1 .. n : SubSeq(words, p + 1, p + n)[l] = words[p + l]
      BY <3>1, <3>4, <3>5
    <3> QED BY <3>2, <3>3, <3>6
  <2>6. s \in [1 .. n -> Word]
    BY <2>5, SeqFunctions
  <2>7. V[j] = s
    BY <2>1, <2>2, <2>5 DEF LoadVector
  <2> QED BY <2>1, <2>2, <2>5, <2>6, <2>7
<1>2. V \in [1 .. count -> [1 .. n -> Word]]
  <2>1. V = [j \in 1 .. count |-> V[j]]
    OBVIOUS
  <2> HIDE DEF V
  <2> QED BY <1>1, <2>1
<1>3. LoadVectors(n, words, first, count) = V
  <2>1. Tuple(V) = V
    <3>1. PICK S : S = [1 .. n -> Word]
      OBVIOUS
    <3>2. count \in Nat /\ V \in [1 .. count -> S]
      <4> HIDE DEF V
      <4> QED BY <1>2, <3>1
    <3> HIDE DEF V
    <3> QED BY <3>2, TupleIs
  <2> QED BY <2>1 DEF LoadVectors
<1> HIDE DEF V
<1> QED BY <1>1, <1>2, <1>3 DEF Vectors, Loaded

\* The blocks of the lanes are interleaved word by word, the sequence of unpacks.
LEMMA InterleavedIs ==
    ASSUME NEW n \in Nat, n > 0, NEW bufs \in [1 .. n -> Block]
    PROVE  Alternate(n, Interleaved(n, bufs), bufs)
<1> DEFINE V == [j \in 1 .. 16 * n |-> bufs[((j - 1) % n) + 1][((j - 1) \div n) + 1]]
<1>1. V \in [1 .. 16 * n -> Word]
  <2>1. ASSUME NEW j \in 1 .. 16 * n PROVE bufs[((j - 1) % n) + 1][((j - 1) \div n) + 1] \in Word
    <3>1. PICK l \in 1 .. n, q \in 0 .. 15 : l = ((j - 1) % n) + 1 /\ q = (j - 1) \div n
      BY IndexOf
    <3>2. q + 1 \in 1 .. 16
      OBVIOUS
    <3>3. bufs[l][q + 1] \in Word
      BY <3>2 DEF Block, BlockWords
    <3> QED BY <3>1, <3>3
  <2> QED BY <2>1
<1>2. Interleaved(n, bufs) = V
  <2>1. Tuple(V) = V
    <3> HIDE DEF V
    <3>1. 16 * n \in Nat
      OBVIOUS
    <3> QED BY <1>1, <3>1, TupleIs
  <2> QED BY <2>1 DEF Interleaved, BlockWords
<1>3. ASSUME NEW l \in 1 .. n, NEW k \in 1 .. 16 PROVE V[n * (k - 1) + l] = bufs[l][k]
  <2>1. PICK q \in Nat : q = k - 1 /\ q < 16 /\ q + 1 = k
    OBVIOUS
  <2>2. PICK z \in 1 .. 16 * n : z = n * q + l /\ (z - 1) % n = l - 1 /\ (z - 1) \div n = q
    BY <2>1, IndexIs
  <2>3. V[z] = bufs[(l - 1) + 1][q + 1]
    BY <2>2
  <2>4. (l - 1) + 1 = l
    OBVIOUS
  <2> HIDE DEF V
  <2> QED BY <2>1, <2>2, <2>3, <2>4
<1> HIDE DEF V
<1> QED BY <1>1, <1>2, <1>3 DEF Alternate

\* What is stored to memory is what is loaded from it.
LEMMA MemoryIs ==
    ASSUME NEW n \in Nat, n > 0, NEW regs \in Vectors(n, 44)
    PROVE  Remembered(n, Memory(n, regs), regs)
<1> DEFINE V == [z \in 1 .. 44 * n |-> regs[((z - 1) \div n) + 1][((z - 1) % n) + 1]]
<1>1. V \in [1 .. 44 * n -> Word]
  <2>1. ASSUME NEW z \in 1 .. 44 * n PROVE regs[((z - 1) \div n) + 1][((z - 1) % n) + 1] \in Word
    <3>1. PICK l \in 1 .. n, q \in 0 .. 43 : l = ((z - 1) % n) + 1 /\ q = (z - 1) \div n
      <4>1. 44 \in Nat /\ 44 - 1 = 43
        OBVIOUS
      <4>2. (z - 1) \div n \in 0 .. 44 - 1 /\ ((z - 1) % n) + 1 \in 1 .. n
        BY <4>1, IndexOf
      <4> QED BY <4>1, <4>2
    <3>2. q + 1 \in 1 .. 44
      OBVIOUS
    <3>3. regs[q + 1][l] \in Word
      BY <3>2 DEF Vectors
    <3> QED BY <3>1, <3>3
  <2> QED BY <2>1
<1>2. Memory(n, regs) = V
  <2>1. Tuple(V) = V
    <3> HIDE DEF V
    <3>1. 44 * n \in Nat
      OBVIOUS
    <3> QED BY <1>1, <3>1, TupleIs
  <2> QED BY <2>1 DEF Memory
<1>3. ASSUME NEW l \in 1 .. n, NEW j \in 1 .. 44 PROVE V[n * (j - 1) + l] = regs[j][l]
  <2>1. PICK q \in Nat : q = j - 1 /\ q < 44 /\ q + 1 = j
    OBVIOUS
  <2>2. PICK z \in 1 .. 44 * n : z = n * q + l /\ (z - 1) % n = l - 1 /\ (z - 1) \div n = q
    BY <2>1, IndexIs
  <2>3. V[z] = regs[q + 1][(l - 1) + 1]
    BY <2>2
  <2>4. (l - 1) + 1 = l
    OBVIOUS
  <2> HIDE DEF V
  <2> QED BY <2>1, <2>2, <2>3, <2>4
<1> HIDE DEF V
<1> QED BY <1>1, <1>2, <1>3 DEF Remembered

-----------------------------------------------------------------------------
(* Contexts                                                                *)

Contexts(n) == [state : [1 .. 44 * n -> Word], ptr : 0 .. 16, buf : [1 .. n -> Block],
                Wlow : Counter, Whigh : Counter]

\* The block counter, and what one lane has of the state.
Number(cx) == cx.Wlow + 2^CounterBits * cx.Whigh
StateOf(n, state, l) ==
    [A |-> [j \in 1 .. 12 |-> state[n * (j - 1) + l]],
     B |-> [j \in 1 .. 16 |-> state[n * (12 + j - 1) + l]],
     C |-> [j \in 1 .. 16 |-> state[n * (28 + j - 1) + l]]]

\* Remainders at the boundary of a counter.
LEMMA ModSmall ==
    ASSUME NEW n \in Nat, n > 0
    PROVE  /\ \A a \in 0 .. n - 1 : a % n = a
           /\ n % n = 0 /\ (0 - 1) % n = n - 1
<1>1. ASSUME NEW a \in 0 .. n - 1 PROVE a % n = a
  <2>1. a \in Int /\ 0 \in Int /\ a = n * 0 + a
    OBVIOUS
  <2> QED BY <2>1, ModUnique
<1>2. n % n = 0
  <2>1. 0 \in 0 .. n - 1 /\ n = n * 1 + 0
    OBVIOUS
  <2> QED BY <2>1, ModUnique
<1>3. (0 - 1) % n = n - 1
  <2>1. n - 1 \in 0 .. n - 1 /\ 0 - 1 \in Int /\ 0 - 1 = n * (-1) + (n - 1)
    OBVIOUS
  <2>2. PICK a \in Int, k \in Int, b \in 0 .. n - 1 : a = 0 - 1 /\ k = -1 /\ b = n - 1 /\ a = n * k + b
    BY <2>1
  <2>3. a % n = b
    BY <2>2, ModUnique
  <2> QED BY <2>2, <2>3
<1> QED BY <1>1, <1>2, <1>3

\* Two digits to the base K, the low one first.
LEMMA Digits ==
    ASSUME NEW K \in Nat, K > 0, NEW y \in 0 .. K - 1
    PROVE  /\ K * y \in Nat /\ K * K \in Nat /\ K * y + K <= K * K
           /\ (y + 1 < K => K * y + K < K * K) /\ (y + 1 = K => K * y + K = K * K)
           /\ K * (y + 1) = K * y + K /\ K * (y - 1) = K * y - K
           /\ (y = 0 => K * y = 0) /\ (y > 0 => K * y >= K) /\ K * 0 = 0
<1>1. K * (K - 1 - y) >= 0 /\ K * (K - 1 - y) = K * K - K - K * y
  OBVIOUS
<1>2. y + 1 < K => K * (K - 1 - y) >= K
  <2>1. ASSUME y + 1 < K PROVE K * (K - 1 - y) >= K
    <3>1. PICK d \in Int : d = K - 1 - y /\ d > 0
      BY <2>1
    <3>2. K * d >= K
      BY <3>1, MulMono
    <3> QED BY <3>1, <3>2
  <2> QED BY <2>1
<1>3. PICK p \in Nat, q \in Nat : p = K * y /\ q = K * K
  OBVIOUS
<1>4. p + K <= q /\ (y + 1 < K => p + K < q)
  <2>1. K \in Nat /\ K > 0 /\ q - K - p >= 0 /\ (y + 1 < K => q - K - p >= K)
    BY <1>1, <1>2, <1>3
  <2>2. p \in Nat /\ q \in Nat
    OBVIOUS
  <2> QED BY ONLY <2>1, <2>2
<1>5. K * (y + 1) = K * y + K /\ K * (y - 1) = K * y - K
  OBVIOUS
<1>6. y + 1 = K => p + K = q
  BY <1>3, <1>5
<1>7. (y = 0 => p = 0) /\ (y > 0 => p >= K) /\ K * 0 = 0
  BY <1>3, MulMono
<1> QED BY <1>3, <1>4, <1>5, <1>6, <1>7

\* Wlow carries into Whigh.
LEMMA CarryUp ==
    ASSUME NEW K \in Nat, K > 0, NEW x \in 0 .. K - 1, NEW y \in 0 .. K - 1, NEW low, NEW high,
           low = (x + 1) % K, high = (y + (IF low = 0 THEN 1 ELSE 0)) % K
    PROVE  low \in 0 .. K - 1 /\ high \in 0 .. K - 1 /\ low + K * high = (x + K * y + 1) % (K * K)
<1>1. PICK p \in Nat, q \in Nat : /\ p = K * y /\ q = K * K /\ p + K <= q
                                  /\ (y + 1 < K => p + K < q) /\ (y + 1 = K => p + K = q)
                                  /\ K * (y + 1) = p + K /\ K * 0 = 0
  BY Digits
<1>2. q > 0
  BY <1>1
<1>3. CASE x + 1 < K
  <2>1. x + 1 \in 0 .. K - 1 /\ x + 1 # 0
    BY <1>3
  <2>2. low = x + 1 /\ low # 0
    BY <2>1, ModSmall
  <2>3. high = y
    BY <2>2, ModSmall
  <2>4. PICK c \in Nat : c = x + p + 1
    OBVIOUS
  <2>5. c \in 0 .. q - 1
    <3>1. p \in Nat /\ q \in Nat /\ K \in Nat /\ x \in 0 .. K - 1 /\ c = x + p + 1 /\ p + K <= q /\ x + 1 < K
      BY <1>1, <1>3, <2>4
    <3> QED BY ONLY <3>1
  <2>6. c % q = c
    BY <1>2, <2>5, ModSmall
  <2>7. low + p = c
    BY <2>2, <2>4
  <2> QED BY <1>1, <2>1, <2>2, <2>3, <2>4, <2>6, <2>7
<1>4. CASE x + 1 = K
  <2>1. low = 0
    BY <1>4, ModSmall
  <2>2. high = (y + 1) % K
    BY <2>1
  <2>3. PICK c \in Nat : c = p + K /\ c = x + p + 1
    BY <1>4
  <2>4. CASE y + 1 < K
    <3>1. y + 1 \in 0 .. K - 1
      BY <2>4
    <3>2. high = y + 1
      BY <2>2, <3>1, ModSmall
    <3>3. c \in 0 .. q - 1
      BY <1>1, <2>3, <2>4
    <3>4. c % q = c
      BY <1>2, <3>3, ModSmall
    <3>5. low + K * high = c
      BY <1>1, <2>1, <2>3, <3>2
    <3> QED BY <1>1, <2>1, <2>3, <3>1, <3>2, <3>4, <3>5
  <2>5. CASE y + 1 = K
    <3>1. high = 0
      BY <2>2, <2>5, ModSmall
    <3>2. c = q /\ c % q = 0
      BY <1>1, <1>2, <2>3, <2>5, ModSmall, ZenonT(30)
    <3> QED BY <1>1, <2>1, <2>3, <3>1, <3>2
  <2>6. y + 1 < K \/ y + 1 = K
    OBVIOUS
  <2> QED BY <2>4, <2>5, <2>6
<1>5. x + 1 < K \/ x + 1 = K
  OBVIOUS
<1> QED BY <1>3, <1>4, <1>5

\* Wlow borrows from Whigh.
LEMMA CarryDown ==
    ASSUME NEW K \in Nat, K > 0, NEW x \in 0 .. K - 1, NEW y \in 0 .. K - 1, NEW low, NEW high,
           low = (x - 1) % K, high = (y - (IF x = 0 THEN 1 ELSE 0)) % K
    PROVE  low \in 0 .. K - 1 /\ high \in 0 .. K - 1 /\ low + K * high = (x + K * y - 1) % (K * K)
<1>1. PICK p \in Nat, q \in Nat : /\ p = K * y /\ q = K * K /\ p + K <= q
                                  /\ (y = 0 => p = 0) /\ (y > 0 => p >= K)
                                  /\ K * (y - 1) = p - K
  BY Digits
<1>2. q > 0
  BY <1>1
<1>3. CASE x > 0
  <2>1. x - 1 \in 0 .. K - 1 /\ x # 0
    BY <1>3
  <2>2. low = x - 1
    BY <2>1, ModSmall
  <2>3. high = y
    BY <2>1, ModSmall
  <2>4. PICK c \in Nat : c = x + p - 1
    BY <1>3
  <2>5. c \in 0 .. q - 1
    <3>1. p \in Nat /\ q \in Nat /\ K \in Nat /\ x \in 0 .. K - 1 /\ c = x + p - 1 /\ p + K <= q /\ x > 0
      BY <1>1, <1>3, <2>4
    <3> QED BY ONLY <3>1
  <2>6. c % q = c
    BY <1>2, <2>5, ModSmall
  <2>7. low + p = c
    BY <2>2, <2>4
  <2> QED BY <1>1, <2>1, <2>2, <2>3, <2>4, <2>6, <2>7
<1>4. CASE x = 0
  <2>1. low = K - 1 /\ K - 1 \in 0 .. K - 1
    BY <1>4, ModSmall
  <2>2. high = (y - 1) % K
    BY <1>4
  <2>3. CASE y > 0
    <3>1. y - 1 \in 0 .. K - 1
      BY <2>3
    <3>2. high = y - 1
      BY <2>2, <3>1, ModSmall
    <3>3. PICK c \in Nat : c = p - 1 /\ c = x + p - 1
      BY <1>1, <1>4, <2>3
    <3>4. c \in 0 .. q - 1
      BY <1>1, <3>3
    <3>5. c % q = c
      BY <1>2, <3>4, ModSmall
    <3>6. low + K * high = c
      BY <1>1, <2>1, <3>2, <3>3
    <3> QED BY <1>1, <2>1, <3>1, <3>2, <3>3, <3>5, <3>6
  <2>4. CASE y = 0
    <3>1. high = K - 1
      <4>1. y - 1 = 0 - 1
        BY <2>4
      <4> QED BY <2>2, <4>1, ModSmall
    <3>2. K * high = q - K
      <4>1. K * (K - 1) = K * K - K
        OBVIOUS
      <4> QED BY <1>1, <3>1, <4>1
    <3>3. x + p - 1 = 0 - 1
      BY <1>1, <1>4, <2>4
    <3>4. (x + p - 1) % q = q - 1
      BY <1>2, <3>3, ModSmall
    <3>5. low + K * high = q - 1
      BY <2>1, <3>2
    <3> QED BY <1>1, <2>1, <3>1, <3>4, <3>5
  <2> QED BY <2>3, <2>4
<1> QED BY <1>3, <1>4

\* The two counters together count to the square of one.
LEMMA CounterSquare ==
    2^(2 * CounterBits) = 2^CounterBits * 2^CounterBits
<1>1. PICK i \in 0 .. WordBits : i = CounterBits
  BY BitsOfWord
<1>2. 2^(i + i) = 2^i * 2^i
  BY Powers
<1>3. i + i = 2 * CounterBits
  BY <1>1
<1> QED BY <1>1, <1>2, <1>3

\* The modulus of the block counter.
Rounds == 2^(2 * CounterBits)

\* The number a block can have is bounded.
LEMMA RoundsIs ==
    Rounds \in Nat /\ Rounds > 0
<1>1. PICK K \in Nat : K = 2^CounterBits /\ K > 0 /\ Rounds = K * K
  BY CounterSize, CounterSquare DEF Rounds
<1>2. K * K >= K
  BY <1>1, MulMono
<1> QED BY <1>1, <1>2

\* c is b but for the state and the counter, which is now w.
Counted(n, b, c, state, w) ==
    /\ c \in Contexts(n) /\ c.state = state /\ c.ptr = b.ptr /\ c.buf = b.buf
    /\ Number(c) = w

\* c is cx with the two words of its counter set.
SetTo(n, cx, c, low, high) ==
    /\ c \in Contexts(n) /\ c.Wlow = low /\ c.Whigh = high
    /\ c.state = cx.state /\ c.ptr = cx.ptr /\ c.buf = cx.buf

\* Setting the two counters leaves the rest of a context alone.
LEMMA CounterSet ==
    ASSUME NEW n, NEW cx \in Contexts(n), NEW low \in Counter, NEW high \in Counter
    PROVE  SetTo(n, cx, [cx EXCEPT !.Wlow = low, !.Whigh = high], low, high)
<1>1. PICK c : c = [cx EXCEPT !.Wlow = low, !.Whigh = high]
  OBVIOUS
<1>2. c.Wlow = low /\ c.Whigh = high /\ c.state = cx.state /\ c.ptr = cx.ptr /\ c.buf = cx.buf
  BY <1>1 DEF Contexts
<1>3. c \in Contexts(n)
  BY <1>1 DEF Contexts
<1> QED BY <1>1, <1>2, <1>3 DEF SetTo

\* The count of blocks goes up by one, carry included.
LEMMA IncrementIs ==
    ASSUME NEW n, NEW cx \in Contexts(n)
    PROVE  Counted(n, cx, Increment(cx), cx.state, (Number(cx) + 1) % Rounds)
<1>1. PICK K \in Nat : K = 2^CounterBits /\ K > 0 /\ Counter = 0 .. K - 1 /\ Rounds = K * K
  BY CounterSize, CounterSquare DEF Counter, Rounds
<1>2. cx.Wlow \in 0 .. K - 1 /\ cx.Whigh \in 0 .. K - 1
  BY <1>1 DEF Contexts
<1>3. PICK low, high : low = (cx.Wlow + 1) % K /\ high = (cx.Whigh + (IF low = 0 THEN 1 ELSE 0)) % K
  OBVIOUS
<1>4. low \in 0 .. K - 1 /\ high \in 0 .. K - 1
      /\ low + K * high = (cx.Wlow + K * cx.Whigh + 1) % Rounds
  <2>1. PICK x \in 0 .. K - 1, y \in 0 .. K - 1 : x = cx.Wlow /\ y = cx.Whigh
    BY <1>2
  <2>2. K \in Nat /\ K > 0 /\ low = (x + 1) % K /\ high = (y + (IF low = 0 THEN 1 ELSE 0)) % K
    BY <1>1, <1>3, <2>1
  <2>3. low \in 0 .. K - 1 /\ high \in 0 .. K - 1 /\ low + K * high = (x + K * y + 1) % (K * K)
    BY ONLY <2>2, CarryUp, x \in 0 .. K - 1, y \in 0 .. K - 1
  <2> QED BY <1>1, <2>1, <2>3
<1>5. Increment(cx) = [cx EXCEPT !.Wlow = low, !.Whigh = high]
  BY <1>1, <1>3 DEF Increment
<1>6. PICK c : c = Increment(cx) /\ SetTo(n, cx, c, low, high)
  <2>1. low \in Counter /\ high \in Counter
    BY <1>1, <1>4
  <2>2. SetTo(n, cx, [cx EXCEPT !.Wlow = low, !.Whigh = high], low, high)
    BY <2>1, CounterSet
  <2> QED BY <1>5, <2>2
<1>7. Number(c) = (Number(cx) + 1) % Rounds
  <2>1. Number(c) = low + K * high
    BY <1>1, <1>6 DEF Number, SetTo
  <2>2. Number(cx) = cx.Wlow + K * cx.Whigh
    BY <1>1 DEF Number
  <2>3. PICK N \in Int, a \in Int, b \in Int :
           N = Number(cx) /\ a = cx.Wlow /\ b = K * cx.Whigh /\ N = a + b
    BY <1>2, <2>2
  <2>4. low + K * high = (a + b + 1) % Rounds
    BY <1>4, <2>3
  <2>5. a + b + 1 = N + 1
    BY <2>3
  <2> QED BY <2>1, <2>3, <2>4, <2>5
<1> QED BY <1>6, <1>7 DEF Counted, SetTo

\* The count of blocks goes down by one, borrow included.
LEMMA DecrementIs ==
    ASSUME NEW n, NEW cx \in Contexts(n)
    PROVE  Counted(n, cx, Decrement(cx), cx.state, (Number(cx) - 1) % Rounds)
<1>1. PICK K \in Nat : K = 2^CounterBits /\ K > 0 /\ Counter = 0 .. K - 1 /\ Rounds = K * K
  BY CounterSize, CounterSquare DEF Counter, Rounds
<1>2. cx.Wlow \in 0 .. K - 1 /\ cx.Whigh \in 0 .. K - 1
  BY <1>1 DEF Contexts
<1>3. PICK low, high : low = (cx.Wlow - 1) % K /\ high = (cx.Whigh - (IF cx.Wlow = 0 THEN 1 ELSE 0)) % K
  OBVIOUS
<1>4. low \in 0 .. K - 1 /\ high \in 0 .. K - 1
      /\ low + K * high = (cx.Wlow + K * cx.Whigh - 1) % Rounds
  <2>1. PICK x \in 0 .. K - 1, y \in 0 .. K - 1 : x = cx.Wlow /\ y = cx.Whigh
    BY <1>2
  <2>2. K \in Nat /\ K > 0 /\ low = (x - 1) % K /\ high = (y - (IF x = 0 THEN 1 ELSE 0)) % K
    BY <1>1, <1>3, <2>1
  <2>3. low \in 0 .. K - 1 /\ high \in 0 .. K - 1 /\ low + K * high = (x + K * y - 1) % (K * K)
    BY ONLY <2>2, CarryDown, x \in 0 .. K - 1, y \in 0 .. K - 1
  <2> QED BY <1>1, <2>1, <2>3
<1>5. Decrement(cx) = [cx EXCEPT !.Wlow = low, !.Whigh = high]
  BY <1>1, <1>3 DEF Decrement
<1>6. PICK c : c = Decrement(cx) /\ SetTo(n, cx, c, low, high)
  <2>1. low \in Counter /\ high \in Counter
    BY <1>1, <1>4
  <2>2. SetTo(n, cx, [cx EXCEPT !.Wlow = low, !.Whigh = high], low, high)
    BY <2>1, CounterSet
  <2> QED BY <1>5, <2>2
<1>7. Number(c) = (Number(cx) - 1) % Rounds
  <2>1. Number(c) = low + K * high
    BY <1>1, <1>6 DEF Number, SetTo
  <2>2. Number(cx) = cx.Wlow + K * cx.Whigh
    BY <1>1 DEF Number
  <2>3. PICK N \in Int, a \in Int, b \in Int :
           N = Number(cx) /\ a = cx.Wlow /\ b = K * cx.Whigh /\ N = a + b
    BY <1>2, <2>2
  <2>4. low + K * high = (a + b - 1) % Rounds
    BY <1>4, <2>3
  <2>5. a + b - 1 = N - 1
    BY <2>3
  <2> QED BY <2>1, <2>3, <2>4, <2>5
<1> QED BY <1>6, <1>7 DEF Counted, SetTo

\* A block of each lane is mixed into the lane's state, under the number of the
\* block, and counted.
LEMMA CompressIs ==
    ASSUME NEW n \in Nat, n > 0, NEW cx \in Contexts(n), NEW bufs \in [1 .. n -> Block]
    PROVE  \E state \in [1 .. 44 * n -> Word] :
              /\ Counted(n, cx, Compress(n, cx, bufs), state, (Number(cx) + 1) % Rounds)
              /\ \A l \in 1 .. n :
                    StateOf(n, state, l) = Mixed(StateOf(n, cx.state, l), bufs[l], Number(cx))
<1>1. cx.state \in [1 .. 44 * n -> Word] /\ cx.Wlow \in Counter /\ cx.Whigh \in Counter
  BY DEF Contexts
<1>2. PICK rA, rB, rC : /\ rA = LoadVectors(n, cx.state, 0, 12) /\ Loaded(n, rA, cx.state, 0, 12)
                        /\ rB = LoadVectors(n, cx.state, 12, 16) /\ Loaded(n, rB, cx.state, 12, 16)
                        /\ rC = LoadVectors(n, cx.state, 28, 16) /\ Loaded(n, rC, cx.state, 28, 16)
  <2>1. 44 \in Nat /\ 0 \in Nat /\ 12 \in Nat /\ 16 \in Nat /\ 28 \in Nat
        /\ 0 + 12 <= 44 /\ 12 + 16 <= 44 /\ 28 + 16 <= 44
    OBVIOUS
  <2>2. Loaded(n, LoadVectors(n, cx.state, 0, 12), cx.state, 0, 12)
    BY <1>1, <2>1, LoadVectorsIs
  <2>3. Loaded(n, LoadVectors(n, cx.state, 12, 16), cx.state, 12, 16)
    BY <1>1, <2>1, LoadVectorsIs
  <2>4. Loaded(n, LoadVectors(n, cx.state, 28, 16), cx.state, 28, 16)
    BY <1>1, <2>1, LoadVectorsIs
  <2> QED BY <2>2, <2>3, <2>4
<1>3. PICK M : /\ M = LoadVectors(n, Interleaved(n, bufs), 0, 16) /\ M \in Vectors(n, 16)
               /\ \A l \in 1 .. n : Lane(M, 16, l) = bufs[l]
  <2>1. PICK words : words = Interleaved(n, bufs) /\ Alternate(n, words, bufs)
    BY InterleavedIs
  <2>2. 0 \in Nat /\ 16 \in Nat /\ 0 + 16 <= 16 /\ words \in [1 .. 16 * n -> Word]
    BY <2>1 DEF Alternate
  <2>3. PICK M : M = LoadVectors(n, words, 0, 16) /\ Loaded(n, M, words, 0, 16)
    BY <2>2, LoadVectorsIs
  <2>4. \A j \in 1 .. 16 : 0 + j - 1 = j - 1
    OBVIOUS
  <2>5. ASSUME NEW l \in 1 .. n PROVE Lane(M, 16, l) = bufs[l]
    <3>1. bufs[l] \in [1 .. 16 -> Word]
      BY DEF Block, BlockWords
    <3>2. ASSUME NEW j \in 1 .. 16 PROVE M[j][l] = bufs[l][j]
      <4>1. M[j][l] = words[n * (0 + j - 1) + l]
        BY <2>3 DEF Loaded
      <4>2. words[n * (j - 1) + l] = bufs[l][j]
        BY <2>1 DEF Alternate
      <4> QED BY <2>4, <4>1, <4>2
    <3> QED BY <3>1, <3>2 DEF Lane
  <2>6. M \in Vectors(n, 16)
    BY <2>3 DEF Loaded
  <2> QED BY <2>1, <2>3, <2>5, <2>6
<1>4. PICK r : r = [A |-> rA, B |-> rB, C |-> rC]
  OBVIOUS
<1>5. PICK P : P = Permute(n, r, M, cx.Wlow, cx.Whigh) /\ Permuted(n, P, r, M, Number(cx))
  <2>1. r.A \in Vectors(n, 12) /\ r.B \in Vectors(n, 16) /\ r.C \in Vectors(n, 16)
    BY <1>2, <1>4 DEF Loaded
  <2>2. Permuted(n, Permute(n, r, M, cx.Wlow, cx.Whigh), r, M, cx.Wlow + 2^CounterBits * cx.Whigh)
    BY <1>1, <1>3, <2>1, PermuteLane
  <2> QED BY <2>2 DEF Number
<1>6. PICK state : state = Memory(n, P) /\ Remembered(n, state, P) /\ state \in [1 .. 44 * n -> Word]
  <2>1. P \in Vectors(n, 44)
    BY <1>5 DEF Permuted
  <2>2. Remembered(n, Memory(n, P), P)
    BY <2>1, MemoryIs
  <2> QED BY <2>2 DEF Remembered
<1>7. Compress(n, cx, bufs) = Increment([cx EXCEPT !.state = state])
  <2>1. \A regs : Strictly(LAMBDA q : Memory(n, q), regs) = Memory(n, regs)
    BY DEF Strictly
  <2>2. Compress(n, cx, bufs) = Increment([cx EXCEPT !.state = Memory(n, P)])
    BY <1>2, <1>3, <1>4, <1>5 DEF Compress, Strictly
  <2> QED BY <1>6, <2>2
<1>8. PICK b : /\ b = [cx EXCEPT !.state = state] /\ b \in Contexts(n) /\ b.state = state
               /\ b.ptr = cx.ptr /\ b.buf = cx.buf /\ Number(b) = Number(cx)
  <2>1. PICK b : b = [cx EXCEPT !.state = state]
    OBVIOUS
  <2>2. /\ b.state = state /\ b.ptr = cx.ptr /\ b.buf = cx.buf
        /\ b.Wlow = cx.Wlow /\ b.Whigh = cx.Whigh /\ b \in Contexts(n)
    BY <1>6, <2>1 DEF Contexts
  <2> QED BY <2>1, <2>2 DEF Number
<1>9. Counted(n, b, Increment(b), state, (Number(cx) + 1) % Rounds)
  BY <1>8, IncrementIs
<1>10. Counted(n, cx, Compress(n, cx, bufs), state, (Number(cx) + 1) % Rounds)
  BY <1>7, <1>8, <1>9 DEF Counted
<1>11. ASSUME NEW l \in 1 .. n
       PROVE  StateOf(n, state, l) = Mixed(StateOf(n, cx.state, l), bufs[l], Number(cx))
  <2>1. StateOf(n, state, l) = LaneOf(P, l)
    <3>1. /\ \A j \in 1 .. 12 : j \in 1 .. 44
          /\ \A j \in 1 .. 16 : 12 + j \in 1 .. 44 /\ 28 + j \in 1 .. 44
      OBVIOUS
    <3>2. /\ \A j \in 1 .. 12 : state[n * (j - 1) + l] = P[j][l]
          /\ \A j \in 1 .. 16 : state[n * (12 + j - 1) + l] = P[12 + j][l]
          /\ \A j \in 1 .. 16 : state[n * (28 + j - 1) + l] = P[28 + j][l]
      <4>1. \A j \in 1 .. 44 : state[n * (j - 1) + l] = P[j][l]
        BY <1>6 DEF Remembered
      <4> QED BY <3>1, <4>1
    <3> QED BY <3>2 DEF StateOf, LaneOf
  <2>2. StateOf(n, cx.state, l) = LaneIn(r, l)
    <3>1. \A j \in 1 .. 12 : 0 + j - 1 = j - 1
      OBVIOUS
    <3>2. /\ \A j \in 1 .. 12 : rA[j][l] = cx.state[n * (0 + j - 1) + l]
          /\ \A j \in 1 .. 16 : rB[j][l] = cx.state[n * (12 + j - 1) + l]
          /\ \A j \in 1 .. 16 : rC[j][l] = cx.state[n * (28 + j - 1) + l]
      BY <1>2 DEF Loaded
    <3>3. \A j \in 1 .. 12 : rA[j][l] = cx.state[n * (j - 1) + l]
      BY <3>1, <3>2
    <3> QED BY <1>4, <3>2, <3>3 DEF StateOf, LaneIn, Lane
  <2>3. LaneOf(P, l) = Mixed(LaneIn(r, l), Lane(M, 16, l), Number(cx))
    BY <1>5 DEF Permuted
  <2> QED BY <1>3, <2>1, <2>2, <2>3
<1> QED BY <1>6, <1>10, <1>11


-----------------------------------------------------------------------------
(* What a lane has been through                                            *)

\* c is the n elements of s that follow the p-th.
Cut(S, c, s, p, n) ==
    /\ c \in [1 .. n -> S] /\ c \in Seq(S) /\ Len(c) = n
    /\ \A i \in 1 .. n : c[i] = s[p + i]

\* The words a SubSeq cuts out.
LEMMA SubSeqIs ==
    ASSUME NEW S, NEW s, NEW p \in Int, NEW n \in Nat, \A i \in 1 .. n : s[p + i] \in S
    PROVE  Cut(S, SubSeq(s, p + 1, p + n), s, p, n)
<1>1. \A i \in p + 1 .. p + n : s[i] \in S
  <2>1. \A i \in p + 1 .. p + n : i - p \in 1 .. n /\ p + (i - p) = i
    OBVIOUS
  <2> QED BY <2>1
<1>2. p + 1 \in Int /\ p + n \in Int /\ p + n - (p + 1) + 1 = n
      /\ (IF p + 1 <= p + n THEN p + n - (p + 1) + 1 ELSE 0) = n
  OBVIOUS
<1>3. PICK c : c = SubSeq(s, p + 1, p + n)
  OBVIOUS
<1>4. c \in Seq(S) /\ Len(c) = n /\ \A i \in 1 .. n : c[i] = s[p + 1 + i - 1]
  BY <1>1, <1>2, <1>3, SubSeqProperties
<1>5. \A i \in 1 .. n : p + 1 + i - 1 = p + i
  OBVIOUS
<1>6. c \in [1 .. n -> S]
  BY <1>4, SeqFunctions
<1> QED BY <1>3, <1>4, <1>5, <1>6 DEF Cut

\* b is buf but for the words of data, which it has after the first at words.
Patched(b, buf, at, data, len) ==
    /\ b \in Block
    /\ \A i \in 1 .. at : b[i] = buf[i]
    /\ \A i \in 1 .. len : b[at + i] = data[i]

\* memcpy to the middle of a buffer changes these words and no others.
LEMMA CopiedIs ==
    ASSUME NEW buf \in Block, NEW at \in Nat, NEW len \in Nat, at + len <= 16,
           NEW data \in [1 .. len -> Word]
    PROVE  Patched(Copied(buf, at, data), buf, at, data, len)
<1>1. buf \in [1 .. 16 -> Word]
  BY DEF Block, BlockWords
<1>2. Len(data) = len
  BY TupleIs
<1>3. PICK a : a = SubSeq(buf, 1, at) /\ Cut(Word, a, buf, 0, at)
  <2>1. PICK o \in Int : o = 0
    OBVIOUS
  <2>2. \A i \in 1 .. at : buf[o + i] \in Word
    <3>1. \A i \in 1 .. at : o + i \in 1 .. 16
      BY <2>1
    <3> QED BY <1>1, <3>1
  <2>3. Cut(Word, SubSeq(buf, o + 1, o + at), buf, o, at)
    BY <2>2, SubSeqIs
  <2>4. o + 1 = 1 /\ o + at = at
    BY <2>1
  <2> QED BY <2>1, <2>3, <2>4
<1>4. PICK z : z = SubSeq(buf, at + len + 1, 16) /\ Cut(Word, z, buf, at + len, 16 - at - len)
  <2>1. PICK p \in Nat, m \in Nat : p = at + len /\ m = 16 - at - len /\ p + m = 16
    OBVIOUS
  <2>2. \A i \in 1 .. m : buf[p + i] \in Word
    <3>1. \A i \in 1 .. m : p + i \in 1 .. 16
      BY <2>1
    <3> QED BY <1>1, <3>1
  <2>3. p \in Int
    OBVIOUS
  <2>4. Cut(Word, SubSeq(buf, p + 1, p + m), buf, p, m)
    BY <2>2, <2>3, SubSeqIs
  <2> QED BY <2>1, <2>4
<1>5. PICK b : b = a \o data /\ Joined(Word, b, a, at, data, len)
  BY <1>3, ConcatFunctions DEF Cut
<1>6. PICK c : c = b \o z /\ Joined(Word, c, b, at + len, z, 16 - at - len)
  <2>1. at + len \in Nat /\ 16 - at - len \in Nat
    OBVIOUS
  <2>2. b \in [1 .. at + len -> Word] /\ z \in [1 .. 16 - at - len -> Word]
    BY <1>4, <1>5 DEF Cut, Joined
  <2> QED BY <2>1, <2>2, ConcatFunctions
<1>7. c = Copied(buf, at, data)
  BY <1>2, <1>3, <1>4, <1>5, <1>6 DEF Copied, BlockWords
<1>8. c \in Block
  <2>1. at + len + (16 - at - len) = 16
    OBVIOUS
  <2> QED BY <1>6, <2>1 DEF Block, BlockWords, Joined
<1>9. \A i \in 1 .. at : c[i] = buf[i]
  <2>1. \A i \in 1 .. at : i \in 1 .. at + len
    OBVIOUS
  <2>2. \A i \in 1 .. at : c[i] = b[i]
    BY <1>6, <2>1 DEF Joined
  <2>3. \A i \in 1 .. at : b[i] = a[i]
    BY <1>5 DEF Joined
  <2>4. \A i \in 1 .. at : a[i] = buf[i]
    <3>1. \A i \in 1 .. at : 0 + i = i
      OBVIOUS
    <3> QED BY <1>3, <3>1 DEF Cut
  <2> QED BY <2>2, <2>3, <2>4
<1>10. \A i \in 1 .. len : c[at + i] = data[i]
  <2>1. \A i \in 1 .. len : at + i \in 1 .. at + len
    OBVIOUS
  <2>2. \A i \in 1 .. len : c[at + i] = b[at + i]
    BY <1>6, <2>1 DEF Joined
  <2>3. \A i \in 1 .. len : b[at + i] = data[i]
    BY <1>5 DEF Joined
  <2> QED BY <2>2, <2>3
<1> QED BY <1>7, <1>8, <1>9, <1>10 DEF Patched

\* The words of a lane from the first on, its k-th block, and the states that
\* the first k blocks lead through.
Streams(n) == [1 .. n -> [Nat -> Word]]
BlockAt(w, k) == [j \in 1 .. 16 |-> w[16 * (k - 1) + j]]
ZeroState == [A |-> [j \in 1 .. 12 |-> 0], B |-> [j \in 1 .. 16 |-> 0],
              C |-> [j \in 1 .. 16 |-> 0]]
Trace(f, w, k) ==
    /\ f = [i \in 0 .. k |-> f[i]] /\ f[0] = ZeroState
    /\ \A i \in 1 .. k : f[i] = Mixed(f[i - 1], BlockAt(w, i), (i - 2) % Rounds)
Traced(w, k, st) == \E f : Trace(f, w, k) /\ f[k] = st

\* A lane that saw no block is all zeros.
LEMMA TracedZero ==
    ASSUME NEW w
    PROVE  Traced(w, 0, ZeroState)
<1>1. PICK f : f = [i \in 0 .. 0 |-> ZeroState]
  OBVIOUS
<1>2. Trace(f, w, 0) /\ f[0] = ZeroState
  BY <1>1 DEF Trace
<1> QED BY <1>2 DEF Traced

\* A lane takes one more block.
LEMMA TracedNext ==
    ASSUME NEW w, NEW k \in Nat, NEW st, Traced(w, k, st)
    PROVE  Traced(w, k + 1, Mixed(st, BlockAt(w, k + 1), (k - 1) % Rounds))
<1>1. PICK f : Trace(f, w, k) /\ f[k] = st
  BY DEF Traced
<1>2. PICK z : z = Mixed(st, BlockAt(w, k + 1), (k - 1) % Rounds)
  OBVIOUS
<1>3. PICK g : g = [i \in 0 .. k + 1 |-> IF i = k + 1 THEN z ELSE f[i]]
  OBVIOUS
<1>4. g[0] = ZeroState /\ g[k + 1] = z /\ g = [i \in 0 .. k + 1 |-> g[i]]
      /\ \A i \in 0 .. k : g[i] = f[i]
  <2>1. k + 1 \in 0 .. k + 1 /\ 0 \in 0 .. k /\ \A i \in 0 .. k : i \in 0 .. k + 1 /\ i # k + 1
    OBVIOUS
  <2>2. \A i \in 0 .. k : g[i] = f[i]
    BY <1>3, <2>1
  <2>3. g[k + 1] = z
    BY <1>3, <2>1
  <2>4. g[0] = ZeroState
    BY <1>1, <2>1, <2>2 DEF Trace
  <2> QED BY <1>3, <2>2, <2>3, <2>4
<1>5. ASSUME NEW i \in 1 .. k + 1
      PROVE  g[i] = Mixed(g[i - 1], BlockAt(w, i), (i - 2) % Rounds)
  <2>1. CASE i = k + 1
    <3>1. i - 1 = k /\ k \in 0 .. k /\ i - 2 = k - 1
      BY <2>1
    <3> QED BY <1>1, <1>2, <1>4, <2>1, <3>1
  <2>2. CASE i # k + 1
    <3>1. i \in 1 .. k /\ i \in 0 .. k /\ i - 1 \in 0 .. k
      BY <2>2
    <3> QED BY <1>1, <1>4, <3>1 DEF Trace
  <2> QED BY <2>1, <2>2
<1>6. Trace(g, w, k + 1)
  BY <1>4, <1>5 DEF Trace
<1> QED BY <1>2, <1>4, <1>6 DEF Traced

\* The context has taken the first q blocks of each lane.
Chained(n, c, q, v) ==
    /\ c \in Contexts(n) /\ q \in Nat /\ Number(c) = (q - 1) % Rounds
    /\ \A l \in 1 .. n : Traced(v[l], q, StateOf(n, c.state, l))

\* The numbers of successive blocks, the wrap included.
LEMMA NextNumber ==
    ASSUME NEW q \in Nat
    PROVE  /\ (((q - 1) % Rounds) + 1) % Rounds = (q + 1 - 1) % Rounds
           /\ (q + 1 - 1) % Rounds = q % Rounds /\ (q - 1) % Rounds \in Int
           /\ ((q % Rounds) - 1) % Rounds = (q - 1) % Rounds
<1>1. PICK R \in Nat : R = Rounds /\ R > 0
  BY RoundsIs
<1>2. PICK p \in Int, m \in Int, a \in Int, r \in Int, t \in Int :
         p = q - 1 /\ m = -1 /\ a = q /\ r = q % R /\ t = p % R /\ p = q + m
  BY <1>1
<1>3. ((p % R) + 1) % R = (p + 1) % R
  <2>1. R \in Nat /\ R > 0 /\ p \in Int /\ 1 \in Int
    BY <1>1
  <2> QED BY ONLY <2>1, ModPlus
<1>4. ((a % R) + m) % R = (a + m) % R
  <2>1. R \in Nat /\ R > 0 /\ a \in Int /\ m \in Int
    BY <1>1
  <2> QED BY ONLY <2>1, ModPlus
<1>5. p + 1 = q /\ q + 1 - 1 = q /\ a + m = p
  BY <1>2
<1>6. (a % R) + m = r - 1
  BY <1>2
<1> QED BY <1>1, <1>2, <1>3, <1>4, <1>5, <1>6

\* One compression takes every lane one block on.
LEMMA ChainedNext ==
    ASSUME NEW n \in Nat, n > 0, NEW c, NEW q, NEW v, Chained(n, c, q, v),
           NEW bufs \in [1 .. n -> Block], \A l \in 1 .. n : bufs[l] = BlockAt(v[l], q + 1)
    PROVE  /\ Chained(n, Compress(n, c, bufs), q + 1, v)
           /\ Compress(n, c, bufs).ptr = c.ptr /\ Compress(n, c, bufs).buf = c.buf
<1>0. c \in Contexts(n) /\ q \in Nat /\ Number(c) = (q - 1) % Rounds
      /\ \A l \in 1 .. n : Traced(v[l], q, StateOf(n, c.state, l))
  BY DEF Chained
<1>1. PICK d, state : /\ d = Compress(n, c, bufs)
                      /\ Counted(n, c, d, state, (Number(c) + 1) % Rounds)
                      /\ \A l \in 1 .. n : StateOf(n, state, l) =
                             Mixed(StateOf(n, c.state, l), bufs[l], Number(c))
  BY <1>0, CompressIs
<1>2. d \in Contexts(n) /\ d.state = state /\ d.ptr = c.ptr /\ d.buf = c.buf
      /\ Number(d) = (Number(c) + 1) % Rounds
  BY <1>1 DEF Counted
<1>3. Number(d) = (q + 1 - 1) % Rounds
  BY <1>0, <1>2, NextNumber
<1>4. ASSUME NEW l \in 1 .. n PROVE Traced(v[l], q + 1, StateOf(n, d.state, l))
  <2>1. Traced(v[l], q + 1, Mixed(StateOf(n, c.state, l), BlockAt(v[l], q + 1), (q - 1) % Rounds))
    BY <1>0, TracedNext
  <2> QED BY <1>0, <1>1, <1>2, <2>1
<1>5. Chained(n, d, q + 1, v)
  BY <1>0, <1>2, <1>3, <1>4 DEF Chained
<1> QED BY <1>1, <1>2, <1>5


-----------------------------------------------------------------------------
(* Feeding a context                                                       *)

\* The context has taken the first q blocks of each lane, and holds the p words
\* that follow them.
Absorbed(n, c, q, p, v) ==
    /\ Chained(n, c, q, v) /\ p \in 0 .. 15 /\ c.ptr = p
    /\ \A l \in 1 .. n : \A i \in 1 .. p : c.buf[l][i] = v[l][16 * q + i]

\* data is what follows the first at words of each lane.
Follows(n, data, len, v, at) ==
    \A l \in 1 .. n : \A i \in 1 .. len : data[l][i] = v[l][at + i]

\* d is c with m words of data, from the one after `from' on, in its buffer.
Held(n, d, c, m, data, from) ==
    /\ d \in Contexts(n) /\ d.state = c.state /\ Number(d) = Number(c) /\ d.ptr = c.ptr + m
    /\ \A l \in 1 .. n : /\ \A i \in 1 .. c.ptr : d.buf[l][i] = c.buf[l][i]
                         /\ \A i \in 1 .. m : d.buf[l][c.ptr + i] = data[l][from + i]

\* The words that do not fill a block are kept behind those already there.
LEMMA KeptIs ==
    ASSUME NEW n \in Nat, NEW c \in Contexts(n), NEW len \in Nat,
           NEW data \in [1 .. n -> [1 .. len -> Word]], NEW from \in Nat, NEW m \in Nat,
           from + m <= len, c.ptr + m <= 16
    PROVE  Held(n, Kept(n, c, data, from, from + m), c, m, data, from)
<1>1. PICK at \in 0 .. 16 : at = c.ptr /\ at + m <= 16
  BY DEF Contexts
<1> DEFINE buf == [l \in 1 .. n |-> Copied(c.buf[l], at, SubSeq(data[l], from + 1, from + m))]
<1>2. ASSUME NEW l \in 1 .. n
      PROVE  /\ buf[l] \in Block
             /\ \A i \in 1 .. at : buf[l][i] = c.buf[l][i]
             /\ \A i \in 1 .. m : buf[l][at + i] = data[l][from + i]
  <2>1. PICK d : d = data[l] /\ d \in [1 .. len -> Word]
    OBVIOUS
  <2>2. \A i \in 1 .. m : d[from + i] \in Word
    <3>1. \A i \in 1 .. m : from + i \in 1 .. len
      OBVIOUS
    <3> QED BY <2>1, <3>1
  <2>3. PICK s : s = SubSeq(d, from + 1, from + m) /\ Cut(Word, s, d, from, m)
    <3>1. from \in Int
      OBVIOUS
    <3> QED BY <2>2, <3>1, SubSeqIs
  <2>4. c.buf[l] \in Block
    BY DEF Contexts
  <2>5. Patched(Copied(c.buf[l], at, s), c.buf[l], at, s, m)
    <3>1. s \in [1 .. m -> Word] /\ at \in Nat
      BY <2>3 DEF Cut
    <3> QED BY <1>1, <2>4, <3>1, CopiedIs
  <2>6. buf[l] = Copied(c.buf[l], at, s)
    BY <2>1, <2>3
  <2>7. \A i \in 1 .. m : s[i] = d[from + i]
    BY <2>3 DEF Cut
  <2> HIDE DEF buf
  <2> QED BY <2>1, <2>5, <2>6, <2>7 DEF Patched
<1>3. buf \in [1 .. n -> Block] /\ Tuple(buf) = buf
  <2>1. buf \in [1 .. n -> Block]
    <3>1. \A l \in 1 .. n : Copied(c.buf[l], at, SubSeq(data[l], from + 1, from + m)) \in Block
      BY <1>2
    <3> QED BY <3>1
  <2> HIDE DEF buf
  <2> QED BY <2>1, TupleIs
<1>4. PICK d : d = Kept(n, c, data, from, from + m)
  OBVIOUS
<1>5. d = [c EXCEPT !.ptr = at + (from + m) - from, !.buf = buf]
  <2>1. d = [c EXCEPT !.ptr = at + (from + m) - from, !.buf = Tuple(buf)]
    BY <1>1, <1>4 DEF Kept
  <2> HIDE DEF buf
  <2> QED BY <1>3, <2>1
<1>6. at + (from + m) - from = at + m
  OBVIOUS
<1>7. d \in Contexts(n) /\ d.state = c.state /\ d.Wlow = c.Wlow /\ d.Whigh = c.Whigh
      /\ d.ptr = at + m /\ d.buf = buf
  <2> HIDE DEF buf
  <2>1. at + m \in 0 .. 16
    <3>1. at \in 0 .. 16 /\ m \in Nat /\ at + m <= 16
      BY <1>1
    <3> QED BY ONLY <3>1
  <2>2. d = [c EXCEPT !.ptr = at + m, !.buf = buf]
    BY <1>5, <1>6
  <2> QED BY <1>3, <2>1, <2>2 DEF Contexts
<1>8. Number(d) = Number(c)
  BY <1>7 DEF Number
<1> HIDE DEF buf
<1> QED BY <1>1, <1>2, <1>4, <1>7, <1>8 DEF Held

\* What chaining does not look at.
LEMMA ChainedSame ==
    ASSUME NEW n, NEW c, NEW q, NEW v, Chained(n, c, q, v), NEW d \in Contexts(n),
           d.state = c.state, Number(d) = Number(c)
    PROVE  Chained(n, d, q, v)
BY DEF Chained

\* Words that leave room in the buffer.
LEMMA KeptAbsorbed ==
    ASSUME NEW n \in Nat, NEW c, NEW q, NEW p, NEW v, Absorbed(n, c, q, p, v), NEW len \in Nat,
           NEW data \in [1 .. n -> [1 .. len -> Word]], NEW from \in Nat, NEW m \in Nat,
           from + m <= len, p + m <= 15, NEW at \in Nat, Follows(n, data, len, v, at),
           16 * q + p = at + from
    PROVE  Absorbed(n, Kept(n, c, data, from, from + m), q, p + m, v)
<1>1. c \in Contexts(n) /\ q \in Nat /\ p \in 0 .. 15 /\ c.ptr = p
      /\ \A l \in 1 .. n : \A i \in 1 .. p : c.buf[l][i] = v[l][16 * q + i]
  BY DEF Absorbed, Chained
<1>2. PICK d : d = Kept(n, c, data, from, from + m) /\ Held(n, d, c, m, data, from)
  <2>1. c.ptr + m <= 16
    BY <1>1
  <2> QED BY <1>1, <2>1, KeptIs
<1>3. Chained(n, d, q, v)
  <2>1. Chained(n, c, q, v)
    BY DEF Absorbed
  <2> QED BY <1>2, <2>1, ChainedSame DEF Held
<1>4. ASSUME NEW l \in 1 .. n, NEW i \in 1 .. p + m PROVE d.buf[l][i] = v[l][16 * q + i]
  <2>1. CASE i <= p
    <3>1. i \in 1 .. p
      BY <1>1, <2>1
    <3>2. d.buf[l][i] = c.buf[l][i]
      BY <1>1, <1>2, <3>1 DEF Held
    <3> QED BY <1>1, <3>1, <3>2
  <2>2. CASE ~(i <= p)
    <3>1. PICK j \in 1 .. m : i = p + j
      <4>1. i - p \in 1 .. m /\ i = p + (i - p)
        BY <1>1, <2>2
      <4> QED BY <4>1
    <3>2. d.buf[l][i] = data[l][from + j]
      BY <1>1, <1>2, <3>1 DEF Held
    <3>3. from + j \in 1 .. len /\ at + (from + j) = 16 * q + i
      BY <1>1, <3>1
    <3>4. data[l][from + j] = v[l][at + (from + j)]
      BY <3>3 DEF Follows
    <3> QED BY <3>2, <3>3, <3>4
  <2> QED BY <2>1, <2>2
<1>5. p + m \in 0 .. 15 /\ d.ptr = p + m
  <2>1. d.ptr = c.ptr + m
    BY <1>2 DEF Held
  <2>2. p \in 0 .. 15 /\ m \in Nat /\ p + m <= 15
    BY <1>1
  <2>3. p + m \in 0 .. 15
    BY ONLY <2>2
  <2> QED BY <1>1, <2>1, <2>3
<1> QED BY <1>2, <1>3, <1>4, <1>5 DEF Absorbed

\* The head of a chunk completes the block begun before it.
LEMMA FillUpAbsorbed ==
    ASSUME NEW n \in Nat, n > 0, NEW c, NEW q, NEW p, NEW v, Absorbed(n, c, q, p, v),
           NEW len \in Nat, NEW data \in [1 .. n -> [1 .. len -> Word]],
           Follows(n, data, len, v, 16 * q + p), p # 0, NEW head, head = 16 - p, head <= len
    PROVE  Absorbed(n, FillUp(n, c, data, head), q + 1, 0, v)
<1>1. c \in Contexts(n) /\ q \in Nat /\ p \in 0 .. 15 /\ c.ptr = p
      /\ \A l \in 1 .. n : \A i \in 1 .. p : c.buf[l][i] = v[l][16 * q + i]
  BY DEF Absorbed, Chained
<1>2. PICK d : d = Kept(n, c, data, 0, head) /\ Held(n, d, c, head, data, 0)
  <2>1. c.ptr + head <= 16 /\ head \in Nat /\ 0 \in Nat /\ 0 + head <= len /\ 0 + head = head
    BY <1>1
  <2> QED BY <1>1, <2>1, KeptIs
<1>3. Chained(n, d, q, v)
  <2>1. Chained(n, c, q, v)
    BY DEF Absorbed
  <2> QED BY <1>2, <2>1, ChainedSame DEF Held
<1>4. ASSUME NEW l \in 1 .. n PROVE d.buf[l] = BlockAt(v[l], q + 1)
  <2>1. ASSUME NEW i \in 1 .. 16 PROVE d.buf[l][i] = v[l][16 * q + i]
    <3>1. CASE i <= p
      <4>1. i \in 1 .. p
        BY <1>1, <3>1
      <4>2. d.buf[l][i] = c.buf[l][i]
        BY <1>1, <1>2, <4>1 DEF Held
      <4> QED BY <1>1, <4>1, <4>2
    <3>2. CASE ~(i <= p)
      <4>1. PICK j \in 1 .. head : i = p + j
        <5>1. i - p \in 1 .. head /\ i = p + (i - p)
          BY <1>1, <3>2
        <5> QED BY <5>1
      <4>2. d.buf[l][i] = data[l][0 + j]
        BY <1>1, <1>2, <4>1 DEF Held
      <4>3. j \in 1 .. len /\ 0 + j = j /\ 16 * q + p + j = 16 * q + i
        BY <1>1, <4>1
      <4>4. data[l][j] = v[l][16 * q + p + j]
        BY <4>3 DEF Follows
      <4> QED BY <4>2, <4>3, <4>4
    <3> QED BY <3>1, <3>2
  <2>2. d.buf[l] \in [1 .. 16 -> Word]
    BY <1>2 DEF Held, Contexts, Block, BlockWords
  <2>3. PICK k \in Nat, z \in Nat : k = q + 1 /\ z = 16 * q /\ 16 * (k - 1) = z
    BY <1>1
  <2>4. \A i \in 1 .. 16 : d.buf[l][i] = v[l][z + i]
    BY <2>1, <2>3
  <2>5. d.buf[l] = [j \in 1 .. 16 |-> v[l][z + j]]
    BY <2>2, <2>4
  <2>6. BlockAt(v[l], k) = [j \in 1 .. 16 |-> v[l][z + j]]
    BY <2>3 DEF BlockAt
  <2> QED BY <2>3, <2>5, <2>6
<1>5. PICK e : e = Compress(n, d, d.buf) /\ Chained(n, e, q + 1, v)
  <2>1. d.buf \in [1 .. n -> Block]
    BY <1>2 DEF Held, Contexts
  <2> QED BY <1>3, <1>4, <2>1, ChainedNext
<1>6. FillUp(n, c, data, head) = [e EXCEPT !.ptr = 0]
  <2>1. FillUp(n, c, data, head) = [Compress(n, d, d.buf) EXCEPT !.ptr = 0]
    BY <1>1, <1>2 DEF FillUp, Strictly
  <2> QED BY <1>5, <2>1
<1>7. PICK f : f = [e EXCEPT !.ptr = 0] /\ f \in Contexts(n) /\ f.ptr = 0 /\ f.state = e.state
               /\ f.Wlow = e.Wlow /\ f.Whigh = e.Whigh
  <2>1. e \in Contexts(n)
    BY <1>5 DEF Chained
  <2>2. PICK f : f = [e EXCEPT !.ptr = 0]
    OBVIOUS
  <2>3. 0 \in 0 .. 16
    OBVIOUS
  <2>4. f.ptr = 0 /\ f.state = e.state /\ f.Wlow = e.Wlow /\ f.Whigh = e.Whigh /\ f.buf = e.buf
    BY <2>1, <2>2 DEF Contexts
  <2>5. f \in Contexts(n)
    BY <2>1, <2>2, <2>3 DEF Contexts
  <2> QED BY <2>2, <2>4, <2>5
<1>8. Chained(n, f, q + 1, v)
  <2>1. Number(f) = Number(e)
    BY <1>7 DEF Number
  <2> QED BY <1>5, <1>7, <2>1, ChainedSame
<1>9. 0 \in 0 .. 15 /\ \A i \in 1 .. 0 : FALSE
  OBVIOUS
<1> QED BY <1>6, <1>7, <1>8, <1>9 DEF Absorbed

\* The whole blocks of a chunk, from the head on.
BlockStep(n, s, data, head, k) ==
    Strictly(LAMBDA c : Compress(n, c, Part(n, data, head + BlockWords * (k - 1),
                                            head + BlockWords * k)), s)
BlockSteps(n, c, data, head, num, g) ==
    g = [k \in 0 .. num |-> IF k = 0 THEN c ELSE BlockStep(n, g[k - 1], data, head, k)]
Blocks(n, c, data, head, num) == (CHOOSE g : BlockSteps(n, c, data, head, num, g))[num]

\* bufs are the words of each lane from the one after `from' on.
IsPart(n, bufs, data, from) ==
    /\ bufs \in [1 .. n -> Block]
    /\ \A l \in 1 .. n : \A i \in 1 .. 16 : bufs[l][i] = data[l][from + i]

\* A block of a chunk, in every lane.
LEMMA PartIs ==
    ASSUME NEW n \in Nat, NEW len \in Nat, NEW data \in [1 .. n -> [1 .. len -> Word]],
           NEW from \in Nat, from + 16 <= len
    PROVE  IsPart(n, Part(n, data, from, from + 16), data, from)
<1> DEFINE B == [l \in 1 .. n |-> SubSeq(data[l], from + 1, from + 16)]
<1>1. ASSUME NEW l \in 1 .. n
      PROVE  B[l] \in Block /\ \A i \in 1 .. 16 : B[l][i] = data[l][from + i]
  <2>1. PICK d : d = data[l] /\ d \in [1 .. len -> Word]
    OBVIOUS
  <2>2. \A i \in 1 .. 16 : d[from + i] \in Word
    <3>1. \A i \in 1 .. 16 : from + i \in 1 .. len
      OBVIOUS
    <3> QED BY <2>1, <3>1
  <2>3. Cut(Word, SubSeq(d, from + 1, from + 16), d, from, 16)
    <3>1. from \in Int /\ 16 \in Nat
      OBVIOUS
    <3> QED BY <2>2, <3>1, SubSeqIs
  <2>4. B[l] = SubSeq(d, from + 1, from + 16)
    BY <2>1
  <2> HIDE DEF B
  <2> QED BY <2>1, <2>3, <2>4 DEF Cut, Block, BlockWords
<1>2. B \in [1 .. n -> Block]
  <2>1. \A l \in 1 .. n : SubSeq(data[l], from + 1, from + 16) \in Block
    BY <1>1
  <2> QED BY <2>1
<1>3. Tuple(B) = B
  <2> HIDE DEF B
  <2> QED BY <1>2, TupleIs
<1>4. Part(n, data, from, from + 16) = Tuple(B)
  BY DEF Part
<1>5. \A l \in 1 .. n : \A i \in 1 .. 16 : B[l][i] = data[l][from + i]
  BY <1>1
<1> HIDE DEF B
<1>6. IsPart(n, B, data, from)
  BY ONLY <1>2, <1>5, Zenon DEF IsPart
<1>7. Part(n, data, from, from + 16) = B
  BY <1>3, <1>4
<1> QED BY <1>6, <1>7

\* The whole blocks of a chunk are taken one by one.
LEMMA BlocksAbsorbed ==
    ASSUME NEW n \in Nat, n > 0, NEW c, NEW q, NEW v, Absorbed(n, c, q, 0, v),
           NEW len \in Nat, NEW data \in [1 .. n -> [1 .. len -> Word]],
           NEW at \in Nat, Follows(n, data, len, v, at), NEW head \in Nat, NEW num \in Nat,
           head + 16 * num <= len, 16 * q = at + head
    PROVE  Absorbed(n, Blocks(n, c, data, head, num), q + num, 0, v)
<1>1. c \in Contexts(n) /\ q \in Nat
  BY DEF Absorbed, Chained
<1> DEFINE Bufs(k) == Part(n, data, head + BlockWords * (k - 1), head + BlockWords * k)
           S == Contexts(n)
           T == [k \in 0 .. num |-> {s \in Contexts(n) : Absorbed(n, s, q + k, 0, v)}]
           G == [k \in 1 .. num |-> [s \in Contexts(n) |-> Compress(n, s, Bufs(k))]]
<1>2. ASSUME NEW k \in 1 .. num
      PROVE  Bufs(k) \in [1 .. n -> Block]
             /\ \A l \in 1 .. n : Bufs(k)[l] = BlockAt(v[l], q + (k - 1) + 1)
  <2>1. PICK from \in Nat : from = head + 16 * (k - 1) /\ from + 16 = head + 16 * k /\ from + 16 <= len
    OBVIOUS
  <2>2. Bufs(k) = Part(n, data, from, from + 16)
    BY <2>1 DEF BlockWords
  <2>3. PICK bufs : bufs = Bufs(k) /\ IsPart(n, bufs, data, from)
    BY <2>1, <2>2, PartIs
  <2>4. ASSUME NEW l \in 1 .. n PROVE bufs[l] = BlockAt(v[l], q + (k - 1) + 1)
    <3>1. PICK z \in Nat, m \in Nat : m = q + (k - 1) + 1 /\ z = 16 * (m - 1) /\ z = at + from
      BY <1>1, <2>1
    <3>2. ASSUME NEW i \in 1 .. 16 PROVE bufs[l][i] = v[l][z + i]
      <4>1. bufs[l][i] = data[l][from + i]
        BY <2>3 DEF IsPart
      <4>2. from + i \in 1 .. len /\ at + (from + i) = z + i
        <5>1. from + 16 <= len /\ z = at + from
          BY <2>1, <3>1
        <5> QED BY ONLY <5>1, from \in Nat, len \in Nat, at \in Nat, i \in 1 .. 16
      <4>3. data[l][from + i] = v[l][at + (from + i)]
        BY <4>2 DEF Follows
      <4> QED BY <4>1, <4>2, <4>3
    <3>3. bufs[l] \in [1 .. 16 -> Word]
      BY <2>3 DEF IsPart, Block, BlockWords
    <3>4. bufs[l] = [j \in 1 .. 16 |-> v[l][z + j]]
      BY <3>2, <3>3
    <3>5. BlockAt(v[l], m) = [j \in 1 .. 16 |-> v[l][z + j]]
      BY <3>1 DEF BlockAt
    <3> QED BY <3>1, <3>4, <3>5
  <2> QED BY <2>3, <2>4 DEF IsPart
<1>3. ASSUME NEW k \in 1 .. num, NEW s, Absorbed(n, s, q + (k - 1), 0, v)
      PROVE  Absorbed(n, Compress(n, s, Bufs(k)), q + k, 0, v)
  <2>1. PICK m \in Nat : m = q + (k - 1) /\ m + 1 = q + k
    BY <1>1
  <2>2. PICK bufs : bufs = Bufs(k) /\ bufs \in [1 .. n -> Block]
                    /\ \A l \in 1 .. n : bufs[l] = BlockAt(v[l], m + 1)
    <3> HIDE DEF Bufs
    <3> QED BY <1>2, <2>1
  <2>3. Chained(n, s, m, v) /\ s.ptr = 0
    BY <1>3, <2>1 DEF Absorbed
  <2>4. Chained(n, Compress(n, s, bufs), m + 1, v) /\ Compress(n, s, bufs).ptr = 0
    <3>1. n \in Nat /\ n > 0 /\ Chained(n, s, m, v) /\ bufs \in [1 .. n -> Block]
      BY <2>2, <2>3
    <3>2. \A l \in 1 .. n : bufs[l] = BlockAt(v[l], m + 1)
      BY <2>2
    <3>3. Chained(n, Compress(n, s, bufs), m + 1, v)
      BY ONLY <3>1, <3>2, ChainedNext
    <3>4. Compress(n, s, bufs).ptr = s.ptr
      BY ONLY <3>1, <3>2, ChainedNext
    <3> QED BY <2>3, <3>3, <3>4
  <2>5. 0 \in 0 .. 15 /\ \A i \in 1 .. 0 : FALSE
    OBVIOUS
  <2>6. Absorbed(n, Compress(n, s, bufs), m + 1, 0, v)
    BY <2>4, <2>5 DEF Absorbed
  <2> HIDE DEF Bufs
  <2> QED BY <2>1, <2>2, <2>6
<1>4. ASSUME NEW k \in 1 .. num, NEW s \in Contexts(n)
      PROVE  Compress(n, s, Bufs(k)) \in Contexts(n)
  <2> HIDE DEF Bufs
  <2>1. \E state : Counted(n, s, Compress(n, s, Bufs(k)), state, (Number(s) + 1) % Rounds)
    BY <1>2, CompressIs
  <2> QED BY <2>1 DEF Counted
<1>5. Stepping(num, S, T, c, G)
  <2> HIDE DEF Bufs
  <2>1. T \in [0 .. num -> SUBSET S]
    OBVIOUS
  <2>2. c \in T[0]
    <3>1. q + 0 = q /\ 0 \in 0 .. num
      BY <1>1
    <3>2. T[0] = {s \in Contexts(n) : Absorbed(n, s, q + 0, 0, v)}
      BY <3>1
    <3> QED BY <1>1, <3>1, <3>2
  <2>3. G \in [1 .. num -> [S -> S]]
    BY <1>4
  <2>4. ASSUME NEW k \in 1 .. num, NEW s \in T[k - 1] PROVE G[k][s] \in T[k]
    <3>1. k - 1 \in 0 .. num /\ k \in 0 .. num
      OBVIOUS
    <3>2. s \in Contexts(n) /\ Absorbed(n, s, q + (k - 1), 0, v)
      BY <2>4, <3>1
    <3>3. G[k][s] = Compress(n, s, Bufs(k))
      BY <3>2
    <3>4. Absorbed(n, G[k][s], q + k, 0, v) /\ G[k][s] \in Contexts(n)
      BY <1>3, <1>4, <3>2, <3>3
    <3> QED BY <3>1, <3>4
  <2> HIDE DEF S, T, G
  <2> QED BY <2>1, <2>2, <2>3, <2>4 DEF Stepping
<1>6. PICK f : Run(f, num, S, T, c, G)
  <2> HIDE DEF S, T, G
  <2> QED BY <1>5, RunExists
<1>7. f \in [0 .. num -> Contexts(n)] /\ f[0] = c
      /\ \A k \in 1 .. num : f[k] = Compress(n, f[k - 1], Bufs(k))
  <2> HIDE DEF Bufs
  <2>1. f \in [0 .. num -> S] /\ f[0] = c /\ \A k \in 1 .. num : f[k] = G[k][f[k - 1]]
    <3> HIDE DEF S, T, G
    <3> QED BY <1>6 DEF Run
  <2>2. \A k \in 1 .. num : k - 1 \in 0 .. num
    OBVIOUS
  <2>3. \A k \in 1 .. num : f[k - 1] \in Contexts(n)
    BY <2>1, <2>2
  <2> QED BY <2>1, <2>3
<1>8. Absorbed(n, f[num], q + num, 0, v)
  <2> HIDE DEF Bufs
  <2>1. CASE num = 0
    <3>1. q + num = q
      BY <1>1, <2>1
    <3> QED BY <1>7, <2>1, <3>1
  <2>2. CASE num # 0
    <3>1. num \in 1 .. num /\ num \in 0 .. num
      BY <2>2
    <3>2. f[num] \in T[num]
      <4> HIDE DEF S, T, G
      <4> QED BY <1>6, <3>1 DEF Run
    <3> QED BY <3>1, <3>2
  <2> QED BY <2>1, <2>2
<1>9. \A s, k : BlockStep(n, s, data, head, k) = Compress(n, s, Bufs(k))
  BY DEF BlockStep, Strictly
<1> HIDE DEF Bufs, S, T, G
<1>10. BlockSteps(n, c, data, head, num, f)
  <2>1. \A k \in 0 .. num : f[k] = IF k = 0 THEN c ELSE BlockStep(n, f[k - 1], data, head, k)
    <3>1. \A k \in 0 .. num : k = 0 \/ k \in 1 .. num
      OBVIOUS
    <3> QED BY <1>7, <1>9, <3>1
  <2> QED BY <1>7, <2>1 DEF BlockSteps
<1>11. PICK h : h = (CHOOSE g : BlockSteps(n, c, data, head, num, g)) /\ BlockSteps(n, c, data, head, num, h)
  BY <1>10
<1>12. h[0] = c /\ \A k \in 1 .. num : h[k] = Compress(n, h[k - 1], Bufs(k))
  <2>1. \A k \in 0 .. num : h[k] = IF k = 0 THEN c ELSE BlockStep(n, h[k - 1], data, head, k)
    BY <1>11 DEF BlockSteps
  <2>2. 0 \in 0 .. num /\ \A k \in 1 .. num : k \in 0 .. num /\ k # 0
    OBVIOUS
  <2> QED BY <1>9, <2>1, <2>2
<1>13. h[num] = f[num]
  <2>1. \A k \in 1 .. num : f[k - 1] = h[k - 1] => f[k] = h[k]
    BY <1>7, <1>12
  <2>2. f[0] = h[0] /\ num \in Nat
    BY <1>7, <1>12
  <2>3. \A k \in 0 .. num : f[k] = h[k]
    BY ONLY <2>1, <2>2, RunsAgree
  <2>4. num \in 0 .. num
    OBVIOUS
  <2> QED BY <2>3, <2>4
<1> QED BY <1>8, <1>11, <1>13 DEF Blocks

FedWith(n, c, data, len, head, num) ==
    IF FitsInBuffer(c, len) THEN Kept(n, c, data, 0, len)
    ELSE Kept(n, Blocks(n, FillUp(n, c, data, head), data, head, num),
              data, head + BlockWords * num, len)

\* Feed, with the length, the head and the number of blocks named.
LEMMA FeedUnfold ==
    ASSUME NEW n, NEW c, NEW data
    PROVE  Feed(n, c, data) =
             FedWith(n, c, data, Len(data[1]), IF c.ptr = 0 THEN 0 ELSE BlockWords - c.ptr,
                     (Len(data[1]) - (IF c.ptr = 0 THEN 0 ELSE BlockWords - c.ptr)) \div BlockWords)
<1> DEFINE len == Len(data[1])
           head == IF c.ptr = 0 THEN 0 ELSE BlockWords - c.ptr
           num == (len - head) \div BlockWords
<1>1. Feed(n, c, data) =
         IF FitsInBuffer(c, len) THEN Kept(n, c, data, 0, len)
         ELSE Strictly(LAMBDA b : Kept(n, b, data, head + BlockWords * num, len),
                       Blocks(n, FillUp(n, c, data, head), data, head, num))
  BY DEF Feed, Blocks, BlockSteps, BlockStep, Iterated
<1>2. \A b : Strictly(LAMBDA d : Kept(n, d, data, head + BlockWords * num, len), b)
                = Kept(n, b, data, head + BlockWords * num, len)
  BY DEF Strictly
<1> QED BY <1>1, <1>2 DEF FedWith

\* The context has taken the first `at' words of each lane.
Reached(n, c, at, v) ==
    \E q \in Nat, p \in 0 .. 15 : Absorbed(n, c, q, p, v) /\ 16 * q + p = at

\* A chunk of any length is absorbed: its head, its whole blocks, its tail.
LEMMA FeedAbsorbed ==
    ASSUME NEW n \in Nat, n > 0, NEW c, NEW q, NEW p, NEW v, Absorbed(n, c, q, p, v),
           NEW len \in Nat, NEW data \in [1 .. n -> [1 .. len -> Word]],
           NEW at \in Nat, at = 16 * q + p, Follows(n, data, len, v, at)
    PROVE  Reached(n, Feed(n, c, data), at + len, v)
<1>1. c \in Contexts(n) /\ q \in Nat /\ p \in 0 .. 15 /\ c.ptr = p
  BY DEF Absorbed, Chained
<1>2. Len(data[1]) = len
  <2>1. data[1] \in [1 .. len -> Word]
    OBVIOUS
  <2> QED BY <2>1, TupleIs
<1>4. PICK head \in Nat : head = IF p = 0 THEN 0 ELSE 16 - p
  <2>1. 0 \in Nat /\ 16 - p \in Nat
    BY <1>1
  <2>2. (IF p = 0 THEN 0 ELSE 16 - p) \in Nat
    BY ONLY <2>1
  <2> QED BY <2>2
<1>5. CASE p # 0 /\ 16 - p > len
  <2>1. Feed(n, c, data) = Kept(n, c, data, 0, len)
    BY <1>1, <1>2, <1>5 DEF Feed, FitsInBuffer, BlockWords
  <2>2. 0 \in Nat /\ 0 + len = len /\ p + len <= 15 /\ 16 * q + p = at + 0 /\ 0 + len <= len
    BY <1>1, <1>5
  <2>4. Absorbed(n, Kept(n, c, data, 0, 0 + len), q, p + len, v)
    BY <2>2, KeptAbsorbed
  <2>5. p + len \in 0 .. 15 /\ 16 * q + (p + len) = at + len
    BY <1>1, <1>5
  <2> QED BY <1>1, <2>1, <2>2, <2>4, <2>5 DEF Reached
<1>6. CASE ~(p # 0 /\ 16 - p > len)
  <2>1. head <= len
    BY <1>1, <1>4, <1>6
  <2>2. PICK num \in Nat, m \in 0 .. 15 : num = (len - head) \div 16 /\ len = head + 16 * num + m
    <3>1. PICK a \in Nat : a = len - head
      BY <2>1
    <3>2. a \div 16 \in Nat /\ a % 16 \in 0 .. 15 /\ a = 16 * (a \div 16) + (a % 16)
      OBVIOUS
    <3>3. len = head + 16 * (a \div 16) + (a % 16)
      BY <3>1, <3>2
    <3> QED BY <3>1, <3>2, <3>3
  <2>3. PICK e : e = FillUp(n, c, data, head)
    OBVIOUS
  <2>4. PICK q1 \in Nat : Absorbed(n, e, q1, 0, v) /\ 16 * q1 = at + head
    <3>1. CASE p = 0
      <4>1. e = c
        BY <1>1, <2>3, <3>1 DEF FillUp
      <4>2. 16 * q = at + head
        BY <1>1, <1>4, <3>1
      <4> QED BY <1>1, <3>1, <4>1, <4>2
    <3>2. CASE p # 0
      <4>1. head = 16 - p
        BY <1>4, <3>2
      <4>2. Absorbed(n, e, q + 1, 0, v)
        BY <2>1, <2>3, <3>2, <4>1, FillUpAbsorbed
      <4>3. q + 1 \in Nat /\ 16 * (q + 1) = at + head
        BY <1>1, <4>1
      <4> QED BY <4>2, <4>3
    <3> QED BY <3>1, <3>2
  <2>5. PICK d : d = Blocks(n, e, data, head, num)
    OBVIOUS
  <2>7. Absorbed(n, d, q1 + num, 0, v)
    <3>1. head + 16 * num <= len
      BY <2>2
    <3> QED BY <2>4, <2>5, <3>1, BlocksAbsorbed
  <2>8. Feed(n, c, data) = Kept(n, d, data, head + 16 * num, len)
    <3>1. Feed(n, c, data) = FedWith(n, c, data, len, head, num)
      BY <1>1, <1>2, <1>4, <2>2, FeedUnfold DEF BlockWords
    <3>2. ~ FitsInBuffer(c, len)
      BY <1>1, <1>6 DEF FitsInBuffer, BlockWords
    <3> QED BY <2>3, <2>5, <3>1, <3>2 DEF FedWith, BlockWords
  <2>9. PICK from \in Nat, q2 \in Nat : from = head + 16 * num /\ q2 = q1 + num
    OBVIOUS
  <2>10. Absorbed(n, Kept(n, d, data, from, from + m), q2, 0 + m, v)
    <3>0. from + m <= len /\ m \in Nat /\ 0 + m <= 15
      BY <2>2, <2>9
    <3>1. 16 * q2 + 0 = at + from
      <4>1. /\ 16 * q1 = at + head /\ from = head + 16 * num /\ q2 = q1 + num /\ q1 \in Nat
            /\ head \in Nat /\ num \in Nat /\ at \in Nat /\ from \in Nat /\ q2 \in Nat
        BY <2>4, <2>9
      <4> QED BY ONLY <4>1
    <3>2. Absorbed(n, d, q2, 0, v)
      BY <2>7, <2>9
    <3> QED BY <3>0, <3>1, <3>2, KeptAbsorbed
  <2>11. from + m = len /\ 0 + m = m /\ 16 * q2 + m = at + len
    BY <1>1, <2>2, <2>4, <2>9
  <2> QED BY <2>2, <2>8, <2>9, <2>10, <2>11 DEF Reached
<1> QED BY <1>5, <1>6

\* Fed a chunk, a context has reached the end of that chunk.
LEMMA FeedIs ==
    ASSUME NEW n \in Nat, n > 0, NEW c, NEW at, NEW v, Reached(n, c, at, v), NEW len \in Nat,
           NEW data \in [1 .. n -> [1 .. len -> Word]], Follows(n, data, len, v, at)
    PROVE  Reached(n, Feed(n, c, data), at + len, v)
<1>1. PICK q \in Nat, p \in 0 .. 15 : Absorbed(n, c, q, p, v) /\ 16 * q + p = at
  BY DEF Reached
<1>2. at \in Nat /\ at = 16 * q + p
  BY <1>1
<1> QED BY <1>1, <1>2, FeedAbsorbed


-----------------------------------------------------------------------------
(* A new context                                                           *)

\* The words that every lane's blocks start with.
Prefixed(n, v) == \A l \in 1 .. n : \A i \in 1 .. 32 : v[l][i] = (256 + i - 1) % 2^WordBits

IsPrefix(n, P, first) ==
    /\ P \in [1 .. n -> Block]
    /\ \A l \in 1 .. n : \A k \in 1 .. 16 : P[l][k] = (first + k - 1) % 2^WordBits

\* The words of the prefix, 256 and on, the same in every lane.
LEMMA PrefixIs ==
    ASSUME NEW n \in Nat, NEW first \in Nat
    PROVE  IsPrefix(n, PrefixBlocks(n, first), first)
<1> DEFINE P == [k \in 1 .. BlockWords |-> (first + k - 1) % 2^WordBits]
<1>1. PICK N \in Nat : N = 2^WordBits /\ N > 0 /\ Word = 0 .. N - 1
  BY WordSize DEF Word
<1>2. P \in [1 .. 16 -> Word] /\ \A k \in 1 .. 16 : P[k] = (first + k - 1) % 2^WordBits
  <2>1. \A k \in 1 .. 16 : (first + k - 1) % N \in 0 .. N - 1
    <3>1. \A k \in 1 .. 16 : first + k - 1 \in Int
      OBVIOUS
    <3>2. \A a \in Int : a % N \in 0 .. N - 1
      BY <1>1
    <3> QED BY <3>1, <3>2
  <2> QED BY <1>1, <2>1 DEF BlockWords
<1> HIDE DEF P
<1>3. Tuple(P) = P
  BY <1>2, TupleIs
<1>4. PICK F : F = [l \in 1 .. n |-> P] /\ F \in [1 .. n -> Block]
  <2>1. P \in Block
    BY <1>2 DEF Block, BlockWords
  <2>2. [l \in 1 .. n |-> P] \in [1 .. n -> Block]
    BY <2>1
  <2> QED BY <2>2
<1>5. Tuple(F) = F
  BY <1>4, TupleIs, ZenonT(30)
<1>6. PrefixBlocks(n, first) = Tuple([l \in 1 .. n |-> Tuple(P)])
  BY DEF PrefixBlocks, P
<1>7. PrefixBlocks(n, first) = F
  BY <1>3, <1>4, <1>5, <1>6
<1> QED BY <1>2, <1>4, <1>7 DEF IsPrefix

\* A context with another buffer.
WithBuffer(d, c, buf) == d.buf = buf /\ d.ptr = c.ptr

\* Filling the buffer does not touch the state.
LEMMA Refilled ==
    ASSUME NEW n, NEW c, NEW q, NEW v, Chained(n, c, q, v), NEW buf \in [1 .. n -> Block]
    PROVE  /\ Chained(n, [c EXCEPT !.buf = buf], q, v)
           /\ WithBuffer([c EXCEPT !.buf = buf], c, buf)
<1>1. c \in Contexts(n)
  BY DEF Chained
<1>2. PICK d : d = [c EXCEPT !.buf = buf]
  OBVIOUS
<1>3. d.buf = buf /\ d.ptr = c.ptr /\ d.state = c.state /\ d.Wlow = c.Wlow /\ d.Whigh = c.Whigh
  BY <1>1, <1>2 DEF Contexts
<1>4. d \in Contexts(n)
  BY <1>1, <1>2 DEF Contexts
<1>5. Number(d) = Number(c)
  BY <1>3 DEF Number
<1>6. Chained(n, d, q, v)
  BY <1>3, <1>4, <1>5, ChainedSame
<1> QED BY <1>2, <1>3, <1>6 DEF WithBuffer

\* Compressing the buffer, with its block in it, takes the lanes one block on.
LEMMA ChainedTo ==
    ASSUME NEW n \in Nat, n > 0, NEW c, NEW q, NEW v, Chained(n, c, q, v), NEW r, r = q + 1,
           c.buf \in [1 .. n -> Block], \A l \in 1 .. n : c.buf[l] = BlockAt(v[l], r)
    PROVE  Chained(n, Compress(n, c, c.buf), r, v) /\ WithBuffer(Compress(n, c, c.buf), c, c.buf)
<1>1. PICK bufs : bufs = c.buf /\ bufs \in [1 .. n -> Block]
  OBVIOUS
<1>2. \A l \in 1 .. n : bufs[l] = BlockAt(v[l], q + 1)
  BY <1>1
<1>3. Chained(n, Compress(n, c, bufs), q + 1, v)
  BY <1>1, <1>2, ChainedNext
<1>4. Compress(n, c, bufs).ptr = c.ptr /\ Compress(n, c, bufs).buf = c.buf
  BY <1>1, <1>2, ChainedNext
<1> QED BY <1>1, <1>3, <1>4 DEF WithBuffer

\* A zeroed context, its count at minus one, has been through nothing.
LEMMA StartChained ==
    ASSUME NEW n \in Nat, n > 0, NEW v, NEW buf \in [1 .. n -> Block]
    PROVE  Chained(n, [state |-> Tuple([z \in 1 .. 44 * n |-> 0]), ptr |-> 0, buf |-> buf,
                       Wlow |-> 2^CounterBits - 1, Whigh |-> 2^CounterBits - 1], 0, v)
<1>0. PICK m \in Nat : m = 44 * n
  OBVIOUS
<1>1. PICK state : state = [z \in 1 .. m |-> 0] /\ state \in [1 .. m -> Word]
  <2>1. 0 \in Word
    BY WordSize
  <2>2. [z \in 1 .. m |-> 0] \in [1 .. m -> Word]
    BY <2>1
  <2> QED BY <2>2
<1>2. Tuple([z \in 1 .. 44 * n |-> 0]) = state
  <2>1. Tuple(state) = state
    BY <1>1, TupleIs
  <2> QED BY <1>0, <1>1, <2>1
<1>3. PICK K \in Nat : K = 2^CounterBits /\ K > 0 /\ Counter = 0 .. K - 1 /\ Rounds = K * K
  BY CounterSize, CounterSquare DEF Counter, Rounds
<1>4. PICK c : c = [state |-> state, ptr |-> 0, buf |-> buf, Wlow |-> K - 1, Whigh |-> K - 1]
  OBVIOUS
<1>5. c \in Contexts(n)
  <2>1. K - 1 \in Counter /\ 0 \in 0 .. 16
    BY <1>3
  <2> QED BY <1>0, <1>1, <1>4, <2>1 DEF Contexts
<1>6. Number(c) = (0 - 1) % Rounds
  <2>1. Number(c) = K - 1 + K * (K - 1)
    BY <1>3, <1>4 DEF Number
  <2>2. K * (K - 1) = K * K - K
    OBVIOUS
  <2>3. PICK r \in Nat : r = K * K /\ r = Rounds /\ r > 0
    BY <1>3, RoundsIs
  <2>4. (0 - 1) % r = r - 1
    BY <2>3, ModSmall
  <2>5. Number(c) = r - 1
    <3>1. PICK b \in Int : b = K * (K - 1) /\ b = r - K
      BY <2>2, <2>3
    <3>2. K - 1 + b = r - 1
      BY <3>1
    <3> QED BY <2>1, <3>1, <3>2
  <2> QED BY <2>3, <2>4, <2>5
<1>7. ASSUME NEW l \in 1 .. n PROVE Traced(v[l], 0, StateOf(n, c.state, l))
  <2>1. StateOf(n, c.state, l) = ZeroState
    <3>1. \A q \in 0 .. 43 : state[n * q + l] = 0
      <4>1. ASSUME NEW q \in 0 .. 43 PROVE n * q + l \in 1 .. 44 * n
        <5>1. q \in Nat /\ 44 \in Nat /\ q < 44
          OBVIOUS
        <5> QED BY <5>1, IndexIs
      <4> QED BY <1>0, <1>1, <4>1
    <3>2. /\ \A j \in 1 .. 12 : j - 1 \in 0 .. 43
          /\ \A j \in 1 .. 16 : 12 + j - 1 \in 0 .. 43 /\ 28 + j - 1 \in 0 .. 43
      OBVIOUS
    <3>3. /\ \A j \in 1 .. 12 : state[n * (j - 1) + l] = 0
          /\ \A j \in 1 .. 16 : state[n * (12 + j - 1) + l] = 0
          /\ \A j \in 1 .. 16 : state[n * (28 + j - 1) + l] = 0
      BY <3>1, <3>2
    <3>4. c.state = state
      BY <1>4
    <3> QED BY <3>3, <3>4 DEF StateOf, ZeroState
  <2> QED BY <2>1, TracedZero
<1>8. Chained(n, c, 0, v)
  BY <1>5, <1>6, <1>7 DEF Chained
<1> QED BY <1>2, <1>3, <1>4, <1>8

InitRecord(n, buf) ==
    [state |-> Tuple([z \in 1 .. 44 * n |-> 0]), ptr |-> 0, buf |-> buf,
     Wlow |-> 2^CounterBits - 1, Whigh |-> 2^CounterBits - 1]

Twice(n, p1, p2) ==
    LET c0 == InitRecord(n, p1)
        c1 == Compress(n, c0, c0.buf)
        d1 == [c1 EXCEPT !.buf = p2]
    IN Compress(n, d1, d1.buf)

\* The first blocks of a context, with the two compressions named.
LEMMA InitUnfold ==
    ASSUME NEW n
    PROVE  InitContext(n, 256) = Twice(n, PrefixBlocks(n, 256), PrefixBlocks(n, 256 + 16))
<1> DEFINE p1 == PrefixBlocks(n, 256)
           p2 == PrefixBlocks(n, 256 + 16)
           c0 == InitRecord(n, p1)
           c1 == Compress(n, c0, c0.buf)
           d1 == [c1 EXCEPT !.buf = p2]
<1> DEFINE Hashed(cx, first) ==
        Strictly(LAMBDA c : Compress(n, c, c.buf), [cx EXCEPT !.buf = PrefixBlocks(n, first)])
<1>1. \A cx, first : Hashed(cx, first) =
          Compress(n, [cx EXCEPT !.buf = PrefixBlocks(n, first)],
                   [cx EXCEPT !.buf = PrefixBlocks(n, first)].buf)
  BY DEF Strictly
<1>2. InitContext(n, 256) = Hashed(Hashed(InitRecord(n, << >>), 256), 256 + 16)
  BY DEF InitContext, InitRecord
<1>3. [InitRecord(n, << >>) EXCEPT !.buf = p1] = c0
  <2>1. PICK s, w, e : s = Tuple([z \in 1 .. 44 * n |-> 0]) /\ w = 2^CounterBits - 1 /\ e = << >>
    OBVIOUS
  <2>2. PICK r : r = [state |-> s, ptr |-> 0, buf |-> e, Wlow |-> w, Whigh |-> w]
    OBVIOUS
  <2>3. [r EXCEPT !.buf = p1] = [state |-> s, ptr |-> 0, buf |-> p1, Wlow |-> w, Whigh |-> w]
    BY ONLY <2>2
  <2>4. InitRecord(n, << >>) = r /\ c0 = [state |-> s, ptr |-> 0, buf |-> p1, Wlow |-> w, Whigh |-> w]
    BY <2>1, <2>2 DEF InitRecord
  <2> QED BY <2>3, <2>4
<1> HIDE DEF Hashed
<1>4. Hashed(InitRecord(n, << >>), 256) = c1
  BY <1>1, <1>3
<1>5. Hashed(c1, 256 + 16) = Compress(n, d1, d1.buf)
  BY <1>1
<1> QED BY <1>2, <1>4, <1>5 DEF Twice

\* A new context has been through the two blocks of the prefix.
LEMMA InitIs ==
    ASSUME NEW n \in Nat, n > 0, NEW v, Prefixed(n, v)
    PROVE  Absorbed(n, InitContext(n, 256), 2, 0, v)
<1>0. PICK f1 \in Nat, f2 \in Nat : f1 = 256 /\ f2 = 256 + 16
  OBVIOUS
<1>1. PICK p1, p2 : /\ p1 = PrefixBlocks(n, 256) /\ IsPrefix(n, p1, f1)
                    /\ p2 = PrefixBlocks(n, 256 + 16) /\ IsPrefix(n, p2, f2)
  <2>1. IsPrefix(n, PrefixBlocks(n, f1), f1) /\ IsPrefix(n, PrefixBlocks(n, f2), f2)
    BY PrefixIs
  <2> QED BY <1>0, <2>1
<1>2. p1 \in [1 .. n -> Block] /\ p2 \in [1 .. n -> Block]
  BY <1>1 DEF IsPrefix
<1>3. ASSUME NEW l \in 1 .. n
      PROVE  p1[l] = BlockAt(v[l], 1) /\ p2[l] = BlockAt(v[l], 2)
  <2>1. p1[l] \in [1 .. 16 -> Word] /\ p2[l] \in [1 .. 16 -> Word]
    BY <1>2 DEF Block, BlockWords
  <2>2. \A k \in 1 .. 16 : p1[l][k] = (f1 + k - 1) % 2^WordBits
                           /\ p2[l][k] = (f2 + k - 1) % 2^WordBits
    <3>1. \A k \in 1 .. 16 : p1[l][k] = (f1 + k - 1) % 2^WordBits
      BY ONLY <1>1, l \in 1 .. n DEF IsPrefix
    <3>2. \A k \in 1 .. 16 : p2[l][k] = (f2 + k - 1) % 2^WordBits
      BY ONLY <1>1, l \in 1 .. n DEF IsPrefix
    <3> QED BY <3>1, <3>2
  <2>3. \A k \in 1 .. 16 : /\ k \in 1 .. 32 /\ 16 + k \in 1 .. 32
                           /\ f1 + k - 1 = 256 + k - 1 /\ f2 + k - 1 = 256 + (16 + k) - 1
                           /\ 16 * (1 - 1) + k = k /\ 16 * (2 - 1) + k = 16 + k
    BY <1>0
  <2>4. \A k \in 1 .. 16 : p1[l][k] = v[l][k]
    BY <2>2, <2>3 DEF Prefixed
  <2>5. \A k \in 1 .. 16 : p2[l][k] = v[l][16 + k]
    <3>1. \A k \in 1 .. 16 : v[l][16 + k] = (256 + (16 + k) - 1) % 2^WordBits
      BY <2>3 DEF Prefixed
    <3>2. \A k \in 1 .. 16 : p2[l][k] = (256 + (16 + k) - 1) % 2^WordBits
      BY <2>2, <2>3
    <3> QED BY <3>1, <3>2
  <2>6. p1[l] = BlockAt(v[l], 1)
    BY <2>1, <2>3, <2>4 DEF BlockAt
  <2>7. p2[l] = BlockAt(v[l], 2)
    BY <2>1, <2>3, <2>5 DEF BlockAt
  <2> QED BY <2>6, <2>7
<1>4. PICK c0 : c0 = InitRecord(n, p1) /\ Chained(n, c0, 0, v) /\ c0.buf = p1 /\ c0.ptr = 0
  <2>1. Chained(n, InitRecord(n, p1), 0, v)
    BY <1>2, StartChained DEF InitRecord
  <2> QED BY <2>1 DEF InitRecord
<1>5. PICK c1 : c1 = Compress(n, c0, c0.buf) /\ Chained(n, c1, 1, v) /\ c1.ptr = 0
  <2>1. 1 = 0 + 1 /\ c0.buf \in [1 .. n -> Block] /\ \A l \in 1 .. n : c0.buf[l] = BlockAt(v[l], 1)
    BY <1>2, <1>3, <1>4
  <2>2. Chained(n, Compress(n, c0, c0.buf), 1, v) /\ WithBuffer(Compress(n, c0, c0.buf), c0, c0.buf)
    BY <1>4, <2>1, ChainedTo
  <2> QED BY <1>4, <2>2 DEF WithBuffer
<1>6. PICK d1 : d1 = [c1 EXCEPT !.buf = p2] /\ Chained(n, d1, 1, v) /\ d1.buf = p2 /\ d1.ptr = 0
  <2>1. Chained(n, [c1 EXCEPT !.buf = p2], 1, v) /\ WithBuffer([c1 EXCEPT !.buf = p2], c1, p2)
    BY <1>2, <1>5, Refilled
  <2> QED BY <1>5, <2>1 DEF WithBuffer
<1>7. PICK c2 : c2 = Compress(n, d1, d1.buf) /\ Chained(n, c2, 2, v) /\ c2.ptr = 0
  <2>1. 2 = 1 + 1 /\ d1.buf \in [1 .. n -> Block] /\ \A l \in 1 .. n : d1.buf[l] = BlockAt(v[l], 2)
    BY <1>2, <1>3, <1>6
  <2>2. Chained(n, Compress(n, d1, d1.buf), 2, v) /\ WithBuffer(Compress(n, d1, d1.buf), d1, d1.buf)
    <3>1. n \in Nat /\ n > 0 /\ Chained(n, d1, 1, v)
      BY <1>6
    <3> QED BY ONLY <2>1, <3>1, ChainedTo
  <2> QED BY <1>6, <2>2 DEF WithBuffer
<1>8. InitContext(n, 256) = c2
  <2>1. /\ p1 = PrefixBlocks(n, 256) /\ p2 = PrefixBlocks(n, 256 + 16)
        /\ c0 = InitRecord(n, p1) /\ c1 = Compress(n, c0, c0.buf)
        /\ d1 = [c1 EXCEPT !.buf = p2] /\ c2 = Compress(n, d1, d1.buf)
    BY <1>1, <1>4, <1>5, <1>6, <1>7
  <2>2. c2 = Twice(n, p1, p2)
    BY ONLY <2>1 DEF Twice
  <2>3. InitContext(n, 256) = Twice(n, PrefixBlocks(n, 256), PrefixBlocks(n, 256 + 16))
    BY InitUnfold
  <2> QED BY <2>1, <2>2, <2>3
<1>9. 0 \in 0 .. 15 /\ \A i \in 1 .. 0 : FALSE
  OBVIOUS
<1> QED BY <1>7, <1>8, <1>9 DEF Absorbed


-----------------------------------------------------------------------------
(* Closing a context                                                       *)

\* A block started with p words of a lane and ended by the byte 0x80, and what
\* four times that block make of a state.
PadWord(j) == IF j = 1 THEN 2^(ByteBits - 1) ELSE 0
PadBlock(w, q, p) == [j \in 1 .. 16 |-> IF j <= p THEN w[16 * q + j] ELSE PadWord(j - p)]
Four(st, b, w) == Mixed(Mixed(Mixed(Mixed(st, b, w), b, w), b, w), b, w)

\* The padding is made of words.
LEMMA PadWordIs ==
    ASSUME NEW j \in Int
    PROVE  PadWord(j) \in Word
<1>1. PICK i \in 0 .. WordBits : i = ByteBits - 1 /\ WordBits - i \in 1 .. WordBits
  BY BitsOfWord
<1>2. PICK P \in Nat, Q \in Nat : P = 2^i /\ P > 0 /\ Q = 2^(WordBits - i) /\ 2^WordBits = P * Q
  BY PowerSplit
<1>3. PICK h \in Nat : Q = 2 * h /\ h > 0
  BY <1>1, <1>2, PowerNext
<1>4. P * (Q - 1) >= P
  <2>1. PICK d \in Int : d = Q - 1 /\ d > 0
    BY <1>3
  <2> QED BY <1>2, <2>1, MulMono
<1>5. P * (Q - 1) = P * Q - P
  OBVIOUS
<1>6. P \in Word
  <2>1. PICK r \in Int : r = P * Q /\ r - P >= P
    BY <1>4, <1>5
  <2>2. P \in 0 .. r - 1
    <3>1. r \in Int /\ P \in Nat /\ P > 0 /\ r - P >= P
      BY <1>2, <2>1
    <3> QED BY ONLY <3>1
  <2> QED BY <1>2, <2>1, <2>2 DEF Word
<1>7. 2^(ByteBits - 1) \in Word
  BY <1>1, <1>2, <1>6
<1> QED BY <1>7, WordSize DEF PadWord

\* d is c with the last block of each lane in its buffer.
Ready(n, d, c, q, p, v) ==
    /\ Chained(n, d, q, v)
    /\ d.buf \in [1 .. n -> Block]
    /\ \A l \in 1 .. n : d.buf[l] = PadBlock(v[l], q, p)

\* Padding leaves the words of a lane and ends them with 0x80 and zeros.
LEMMA PaddedIs ==
    ASSUME NEW n \in Nat, NEW c, NEW q, NEW p, NEW v, Absorbed(n, c, q, p, v)
    PROVE  Ready(n, Padded(n, c), c, q, p, v)
<1>1. Chained(n, c, q, v) /\ c \in Contexts(n) /\ q \in Nat /\ p \in 0 .. 15 /\ c.ptr = p
      /\ \A l \in 1 .. n : \A i \in 1 .. p : c.buf[l][i] = v[l][16 * q + i]
  BY DEF Absorbed, Chained
<1>2. PICK m \in Nat : m = 16 - p /\ p + m = 16
  <2>1. PICK m : m = 16 - p
    OBVIOUS
  <2>2. m \in Nat /\ p + m = 16
    BY <1>1, <2>1
  <2> QED BY <2>1, <2>2
<1>3. PICK rest : rest = [k \in 1 .. m |-> PadWord(k)] /\ rest \in [1 .. m -> Word]
  <2>1. \A k \in 1 .. m : PadWord(k) \in Word
    BY PadWordIs
  <2>2. [k \in 1 .. m |-> PadWord(k)] \in [1 .. m -> Word]
    BY <2>1, Zenon
  <2> QED BY <2>2
<1>4. [k \in 1 .. BlockWords - c.ptr |-> IF k = 1 THEN 2^(ByteBits - 1) ELSE 0] = rest
  BY <1>1, <1>2, <1>3 DEF PadWord, BlockWords
<1> DEFINE buf == [l \in 1 .. n |-> Copied(c.buf[l], p, rest)]
<1>5. ASSUME NEW l \in 1 .. n PROVE buf[l] \in Block /\ buf[l] = PadBlock(v[l], q, p)
  <2>1. c.buf[l] \in Block
    BY <1>1 DEF Contexts
  <2>2. PICK b : b = Copied(c.buf[l], p, rest) /\ Patched(b, c.buf[l], p, rest, m)
    <3>1. p \in Nat /\ p + m <= 16
      BY <1>1, <1>2
    <3> QED BY <1>3, <2>1, <3>1, CopiedIs
  <2>3. b \in [1 .. 16 -> Word]
    BY <2>2 DEF Patched, Block, BlockWords
  <2>4. ASSUME NEW j \in 1 .. 16 PROVE b[j] = IF j <= p THEN v[l][16 * q + j] ELSE PadWord(j - p)
    <3>1. CASE j <= p
      <4>1. j \in 1 .. p
        BY <1>1, <3>1
      <4>2. b[j] = c.buf[l][j]
        BY <2>2, <4>1 DEF Patched
      <4> QED BY <1>1, <3>1, <4>1, <4>2
    <3>2. CASE ~(j <= p)
      <4>1. PICK k \in 1 .. m : k = j - p /\ j = p + k
        <5>1. j - p \in 1 .. m /\ j = p + (j - p)
          BY <1>1, <1>2, <3>2
        <5> QED BY <5>1
      <4>2. b[p + k] = rest[k]
        BY <2>2 DEF Patched
      <4> QED BY <1>3, <3>2, <4>1, <4>2
    <3> QED BY <3>1, <3>2
  <2>5. b = PadBlock(v[l], q, p)
    BY <2>3, <2>4 DEF PadBlock
  <2>6. buf[l] = b
    BY <2>2
  <2> HIDE DEF buf
  <2> QED BY <2>2, <2>5, <2>6 DEF Patched
<1>6. buf \in [1 .. n -> Block]
  <2>1. \A l \in 1 .. n : Copied(c.buf[l], p, rest) \in Block
    BY <1>5
  <2> QED BY <2>1
<1>7. Padded(n, c) = [c EXCEPT !.buf = Tuple(buf)]
  BY <1>1, <1>4 DEF Padded
<1> HIDE DEF buf
<1>8. Tuple(buf) = buf
  BY <1>6, TupleIs
<1>9. PICK d : d = Padded(n, c) /\ d = [c EXCEPT !.buf = buf]
  BY <1>7, <1>8
<1>10. Chained(n, d, q, v) /\ d.buf = buf
  <2>1. Chained(n, [c EXCEPT !.buf = buf], q, v) /\ WithBuffer([c EXCEPT !.buf = buf], c, buf)
    BY <1>1, <1>6, Refilled
  <2> QED BY <1>9, <2>1 DEF WithBuffer
<1> QED BY <1>5, <1>6, <1>9, <1>10 DEF Ready

\* d is c with the block in its buffer mixed in once more, under the same number.
CountedBack(n, d, c, N) ==
    /\ d \in Contexts(n) /\ d.buf = c.buf /\ Number(d) = N
    /\ \A l \in 1 .. n : StateOf(n, d.state, l) = Mixed(StateOf(n, c.state, l), c.buf[l], N)

\* A compression with the count restored leaves the number of the block alone.
LEMMA OnceMore ==
    ASSUME NEW n \in Nat, n > 0, NEW c \in Contexts(n), NEW q \in Nat, NEW N, N = (q - 1) % Rounds,
           Number(c) = N
    PROVE  CountedBack(n, Decrement(Compress(n, c, c.buf)), c, N)
<1>1. c.buf \in [1 .. n -> Block]
  BY DEF Contexts
<1>2. PICK d, state : /\ d = Compress(n, c, c.buf)
                      /\ Counted(n, c, d, state, (Number(c) + 1) % Rounds)
                      /\ \A l \in 1 .. n : StateOf(n, state, l) =
                             Mixed(StateOf(n, c.state, l), c.buf[l], Number(c))
  <2>1. PICK bufs \in [1 .. n -> Block] : bufs = c.buf
    BY <1>1
  <2>2. PICK state :
           /\ Counted(n, c, Compress(n, c, bufs), state, (Number(c) + 1) % Rounds)
           /\ \A l \in 1 .. n : StateOf(n, state, l) = Mixed(StateOf(n, c.state, l), bufs[l], Number(c))
    BY CompressIs, SMTT(30)
  <2> QED BY <2>1, <2>2
<1>3. d \in Contexts(n) /\ d.state = state /\ d.buf = c.buf /\ Number(d) = (N + 1) % Rounds
  BY <1>2 DEF Counted
<1>4. PICK e : e = Decrement(d) /\ Counted(n, d, e, d.state, (Number(d) - 1) % Rounds)
  BY <1>3, DecrementIs
<1>5. e \in Contexts(n) /\ e.state = state /\ e.buf = c.buf /\ Number(e) = (Number(d) - 1) % Rounds
  BY <1>3, <1>4 DEF Counted
<1>6. Number(e) = N
  <2>1. Number(d) = q % Rounds
    BY <1>3, NextNumber
  <2>2. ((q % Rounds) - 1) % Rounds = (q - 1) % Rounds
    BY NextNumber
  <2> QED BY <1>5, <2>1, <2>2
<1> QED BY <1>2, <1>4, <1>5, <1>6 DEF CountedBack

CloseStep(n, s, k) == Strictly(LAMBDA c : Decrement(Compress(n, c, c.buf)), s)
CloseSteps(n, c, g) == g = [k \in 0 .. 4 |-> IF k = 0 THEN c ELSE CloseStep(n, g[k - 1], k)]

\* Closing a context: the padded block and four compressions of it.
LEMMA CloseUnfold ==
    ASSUME NEW n, NEW c, NEW f, DOMAIN f = 0 .. 4, f = [k \in 0 .. 4 |-> f[k]],
           f[0] = Padded(n, c),
           \A k \in 1 .. 4 : f[k] = Decrement(Compress(n, f[k - 1], f[k - 1].buf))
    PROVE  CloseContext(n, c) = f[4]
<1>1. CloseContext(n, c) = (CHOOSE g : CloseSteps(n, Padded(n, c), g))[4]
  BY DEF CloseContext, Iterated, CloseSteps, CloseStep
<1>2. \A s, k : CloseStep(n, s, k) = Decrement(Compress(n, s, s.buf))
  BY DEF CloseStep, Strictly
<1>3. CloseSteps(n, Padded(n, c), f)
  <2>1. \A k \in 0 .. 4 : f[k] = IF k = 0 THEN Padded(n, c) ELSE CloseStep(n, f[k - 1], k)
    <3>1. \A k \in 0 .. 4 : k = 0 \/ k \in 1 .. 4
      OBVIOUS
    <3> QED BY <1>2, <3>1
  <2> QED BY <2>1 DEF CloseSteps
<1>4. PICK h : h = (CHOOSE g : CloseSteps(n, Padded(n, c), g)) /\ CloseSteps(n, Padded(n, c), h)
  BY <1>3
<1>5. h[0] = Padded(n, c) /\ \A k \in 1 .. 4 : h[k] = Decrement(Compress(n, h[k - 1], h[k - 1].buf))
  <2>1. \A k \in 0 .. 4 : h[k] = IF k = 0 THEN Padded(n, c) ELSE CloseStep(n, h[k - 1], k)
    BY <1>4 DEF CloseSteps
  <2>2. 0 \in 0 .. 4 /\ \A k \in 1 .. 4 : k \in 0 .. 4 /\ k # 0
    OBVIOUS
  <2> QED BY <1>2, <2>1, <2>2
<1>6. h[4] = f[4]
  <2>1. \A k \in 1 .. 4 : f[k - 1] = h[k - 1] => f[k] = h[k]
    BY <1>5
  <2>2. \A k \in 0 .. 4 : f[k] = h[k]
    BY <1>5, <2>1, RunsAgree
  <2> QED BY <2>2
<1> QED BY <1>1, <1>4, <1>6

\* The context after the closing blocks.
Finish(n, d, q, p, v) ==
    /\ d \in Contexts(n)
    /\ \A l \in 1 .. n : \E st : /\ Traced(v[l], q, st)
                                 /\ StateOf(n, d.state, l) =
                                      Four(st, PadBlock(v[l], q, p), (q - 1) % Rounds)

\* Closed, every lane holds the four permutations of its last block.
LEMMA CloseIs ==
    ASSUME NEW n \in Nat, n > 0, NEW c, NEW q, NEW p, NEW v, Absorbed(n, c, q, p, v)
    PROVE  Finish(n, CloseContext(n, c), q, p, v)
<1>1. PICK c0 : c0 = Padded(n, c) /\ Ready(n, c0, c, q, p, v)
  BY PaddedIs
<1>2. PICK N : N = (q - 1) % Rounds
  OBVIOUS
<1>3. c0 \in Contexts(n) /\ q \in Nat /\ Number(c0) = N
      /\ \A l \in 1 .. n : Traced(v[l], q, StateOf(n, c0.state, l)) /\ c0.buf[l] = PadBlock(v[l], q, p)
  BY <1>1, <1>2 DEF Ready, Chained
<1>4. PICK c1 : c1 = Decrement(Compress(n, c0, c0.buf)) /\ CountedBack(n, c1, c0, N)
  BY <1>2, <1>3, OnceMore
<1>5. PICK c2 : c2 = Decrement(Compress(n, c1, c1.buf)) /\ CountedBack(n, c2, c1, N)
  <2>1. c1 \in Contexts(n) /\ Number(c1) = N
    BY <1>4 DEF CountedBack
  <2> QED BY <1>2, <1>3, <2>1, OnceMore
<1>6. PICK c3 : c3 = Decrement(Compress(n, c2, c2.buf)) /\ CountedBack(n, c3, c2, N)
  <2>1. c2 \in Contexts(n) /\ Number(c2) = N
    BY <1>5 DEF CountedBack
  <2> QED BY <1>2, <1>3, <2>1, OnceMore
<1>7. PICK c4 : c4 = Decrement(Compress(n, c3, c3.buf)) /\ CountedBack(n, c4, c3, N)
  <2>1. c3 \in Contexts(n) /\ Number(c3) = N
    BY <1>6 DEF CountedBack
  <2> QED BY <1>2, <1>3, <2>1, OnceMore
<1>8. CloseContext(n, c) = c4
  <2>1. PICK f : f = [k \in 0 .. 4 |-> IF k = 0 THEN c0 ELSE IF k = 1 THEN c1
                                       ELSE IF k = 2 THEN c2 ELSE IF k = 3 THEN c3 ELSE c4]
    OBVIOUS
  <2>2. f[0] = c0 /\ f[1] = c1 /\ f[2] = c2 /\ f[3] = c3 /\ f[4] = c4
        /\ DOMAIN f = 0 .. 4 /\ f = [k \in 0 .. 4 |-> f[k]]
    BY <2>1
  <2>3. ASSUME NEW k \in 1 .. 4 PROVE f[k] = Decrement(Compress(n, f[k - 1], f[k - 1].buf))
    <3>1. (k = 1 /\ k - 1 = 0) \/ (k = 2 /\ k - 1 = 1) \/ (k = 3 /\ k - 1 = 2) \/ (k = 4 /\ k - 1 = 3)
      OBVIOUS
    <3> QED BY <1>4, <1>5, <1>6, <1>7, <2>2, <3>1
  <2> QED BY <1>1, <2>2, <2>3, CloseUnfold
<1>9. ASSUME NEW l \in 1 .. n
      PROVE  StateOf(n, c4.state, l) = Four(StateOf(n, c0.state, l), PadBlock(v[l], q, p), N)
  <2>1. PICK b : b = PadBlock(v[l], q, p) /\ c0.buf[l] = b /\ c1.buf[l] = b /\ c2.buf[l] = b /\ c3.buf[l] = b
    BY <1>3, <1>4, <1>5, <1>6 DEF CountedBack
  <2>2. /\ StateOf(n, c1.state, l) = Mixed(StateOf(n, c0.state, l), b, N)
        /\ StateOf(n, c2.state, l) = Mixed(StateOf(n, c1.state, l), b, N)
        /\ StateOf(n, c3.state, l) = Mixed(StateOf(n, c2.state, l), b, N)
        /\ StateOf(n, c4.state, l) = Mixed(StateOf(n, c3.state, l), b, N)
    BY <1>4, <1>5, <1>6, <1>7, <2>1 DEF CountedBack
  <2> QED BY <2>1, <2>2 DEF Four
<1>10. c4 \in Contexts(n)
  BY <1>7 DEF CountedBack
<1> QED BY <1>2, <1>3, <1>8, <1>9, <1>10 DEF Finish


-----------------------------------------------------------------------------
(* The hash of one lane's message                                          *)

\* w starts with the prefix and the words of m.
Carries(w, m) ==
    /\ \A i \in 1 .. 32 : w[i] = (256 + i - 1) % 2^WordBits
    /\ \A i \in 1 .. Len(m) : w[32 + i] = m[i]

\* P is m with its prefix and its padding.
IsPaddedMessage(P, m, len, pad) ==
    /\ P \in [1 .. 32 + len + pad -> Word]
    /\ \A i \in 1 .. 32 : P[i] = (256 + i - 1) % 2^WordBits
    /\ \A i \in 1 .. len : P[32 + i] = m[i]
    /\ \A j \in 1 .. pad : P[32 + len + j] = PadWord(j)

\* The padding the definition adds to a message.
LEMMA PaddedMessageIs ==
    ASSUME NEW m \in Seq(Word), NEW len \in Nat, len = Len(m),
           NEW pad \in Nat, pad = 16 - (len % 16)
    PROVE  IsPaddedMessage(PaddedMessage(m), m, len, pad)
<1>1. m \in [1 .. len -> Word]
  BY SeqFunctions
<1>2. PICK N \in Nat : N = 2^WordBits /\ N > 0 /\ Word = 0 .. N - 1
  BY WordSize DEF Word
<1>3. PICK a : a = [k \in 1 .. 32 |-> (256 + k - 1) % 2^WordBits] /\ a \in [1 .. 32 -> Word]
  <2>1. \A k \in 1 .. 32 : (256 + k - 1) % N \in 0 .. N - 1
    <3>1. \A k \in 1 .. 32 : 256 + k - 1 \in Int
      OBVIOUS
    <3>2. \A x \in Int : x % N \in 0 .. N - 1
      BY <1>2
    <3> QED BY <3>1, <3>2
  <2>2. \A k \in 1 .. 32 : (256 + k - 1) % 2^WordBits \in Word
    BY <1>2, <2>1
  <2>3. [k \in 1 .. 32 |-> (256 + k - 1) % 2^WordBits] \in [1 .. 32 -> Word]
    BY <2>2, Zenon
  <2> QED BY <2>3
<1>4. PICK z : z = [k \in 1 .. pad |-> PadWord(k)] /\ z \in [1 .. pad -> Word]
  <2>1. \A k \in 1 .. pad : PadWord(k) \in Word
    BY PadWordIs
  <2>2. [k \in 1 .. pad |-> PadWord(k)] \in [1 .. pad -> Word]
    BY <2>1, Zenon
  <2> QED BY <2>2
<1>5. Tuple(a) = a /\ Tuple(z) = z
  <2>1. 32 \in Nat
    OBVIOUS
  <2>2. Tuple(a) = a
    <3>1. a \in [1 .. 32 -> Word]
      BY <1>3
    <3> QED BY ONLY <2>1, <3>1, TupleIs
  <2>3. Tuple(z) = z
    BY <1>4, TupleIs, ZenonT(30)
  <2> QED BY <2>2, <2>3
<1>6. PaddedMessage(m) = (a \o m) \o z
  <2>1. [k \in 1 .. BlockWords - (Len(m) % BlockWords) |-> IF k = 1 THEN 2^(ByteBits - 1) ELSE 0] = z
    BY <1>4 DEF PadWord, BlockWords
  <2> QED BY <1>3, <1>5, <2>1 DEF PaddedMessage
<1>7. PICK b : b = a \o m /\ Joined(Word, b, a, 32, m, len)
  <2>1. 32 \in Nat
    OBVIOUS
  <2> QED BY <1>1, <1>3, <2>1, ConcatFunctions
<1>8. PICK P : P = b \o z /\ Joined(Word, P, b, 32 + len, z, pad)
  <2>1. 32 + len \in Nat
    OBVIOUS
  <2>2. b \in [1 .. 32 + len -> Word]
    BY <1>7 DEF Joined
  <2> QED BY <1>4, <2>1, <2>2, ConcatFunctions
<1>9. P \in [1 .. 32 + len + pad -> Word]
  BY <1>8 DEF Joined
<1>10. \A i \in 1 .. 32 : P[i] = (256 + i - 1) % 2^WordBits
  <2>1. \A i \in 1 .. 32 : i \in 1 .. 32 + len
    OBVIOUS
  <2>2. \A i \in 1 .. 32 : P[i] = b[i]
    BY <1>8, <2>1 DEF Joined
  <2>3. \A i \in 1 .. 32 : b[i] = a[i]
    BY <1>7 DEF Joined
  <2> QED BY <1>3, <2>2, <2>3
<1>11. \A i \in 1 .. len : P[32 + i] = m[i]
  <2>1. \A i \in 1 .. len : 32 + i \in 1 .. 32 + len
    OBVIOUS
  <2>2. \A i \in 1 .. len : P[32 + i] = b[32 + i]
    BY <1>8, <2>1 DEF Joined
  <2>3. \A i \in 1 .. len : b[32 + i] = m[i]
    BY <1>7 DEF Joined
  <2> QED BY <2>2, <2>3
<1>12. \A j \in 1 .. pad : P[32 + len + j] = PadWord(j)
  <2>1. \A j \in 1 .. pad : P[32 + len + j] = z[j]
    BY <1>8 DEF Joined
  <2> QED BY <1>4, <2>1
<1> QED BY <1>6, <1>7, <1>8, <1>9, <1>10, <1>11, <1>12, ZenonT(30) DEF IsPaddedMessage

\* What shabal calls Block, blocks and Last.
MessageBlock(m, b) == SubSeq(PaddedMessage(m), BlockWords * (b - 1) + 1, BlockWords * b)
MessageBlocks(m) == 3 + (Len(m) \div BlockWords)
LastBlock(m, b) == IF b < MessageBlocks(m) THEN b ELSE MessageBlocks(m)

\* The blocks of the message are those of w, and the last one is ended.
InBlocks(m, w, q, p) ==
    /\ MessageBlocks(m) = q + 1
    /\ \A b \in 1 .. q : MessageBlock(m, b) = BlockAt(w, b)
    /\ MessageBlock(m, q + 1) = PadBlock(w, q, p)

\* The blocks of a padded message are the blocks of the lane that carries it.
LEMMA MessageBlocksAre ==
    ASSUME NEW m \in Seq(Word), NEW w, Carries(w, m), NEW q \in Nat, NEW p \in 0 .. 15,
           16 * q + p = 32 + Len(m)
    PROVE  InBlocks(m, w, q, p)
<1>1. PICK len \in Nat : len = Len(m) /\ 16 * q + p = 32 + len
  BY SeqFunctions
<1>2. len % 16 = p /\ len \div 16 = q - 2
  BY <1>1
<1>3. PICK pad \in 1 .. 16 : pad = 16 - (len % 16) /\ pad = 16 - p
  BY <1>2
<1>4. PICK P : P = PaddedMessage(m) /\ IsPaddedMessage(P, m, len, pad)
  <2>1. pad \in Nat
    OBVIOUS
  <2> QED BY <1>1, <1>3, <2>1, PaddedMessageIs
<1>5. PICK z \in Nat : z = 16 * q
  OBVIOUS
<1>6. P \in [1 .. z + 16 -> Word]
  <2>1. 32 + len + pad = z + 16
    BY <1>1, <1>3, <1>5
  <2> QED BY <1>4, <2>1 DEF IsPaddedMessage
<1>7. \A i \in 1 .. z + p : P[i] = w[i]
  <2>1. ASSUME NEW i \in 1 .. z + p PROVE P[i] = w[i]
    <3>1. CASE i <= 32
      <4>1. i \in 1 .. 32
        BY <3>1
      <4> QED BY <1>4, <4>1, ZenonT(30) DEF IsPaddedMessage, Carries
    <3>2. CASE ~(i <= 32)
      <4>1. PICK k \in 1 .. len : i = 32 + k
        <5>1. i - 32 \in 1 .. len /\ i = 32 + (i - 32)
          BY <1>1, <1>5, <3>2
        <5> QED BY <5>1
      <4>2. P[32 + k] = m[k]
        BY <1>4 DEF IsPaddedMessage
      <4>3. w[32 + k] = m[k]
        BY <1>1 DEF Carries
      <4> QED BY <4>1, <4>2, <4>3
    <3> QED BY <3>1, <3>2
  <2> QED BY <2>1
<1>8. \A j \in 1 .. pad : P[z + p + j] = PadWord(j)
  <2>1. \A j \in 1 .. pad : P[32 + len + j] = PadWord(j)
    BY <1>4 DEF IsPaddedMessage
  <2>2. \A j \in 1 .. pad : 32 + len + j = z + p + j
    BY <1>1, <1>5
  <2> QED BY <2>1, <2>2
<1>9. ASSUME NEW b \in 1 .. q + 1
      PROVE  MessageBlock(m, b) \in [1 .. 16 -> Word]
             /\ \A j \in 1 .. 16 : MessageBlock(m, b)[j] = P[16 * (b - 1) + j]
  <2>1. PICK x \in Nat : x = 16 * (b - 1) /\ x + 16 = 16 * b /\ x + 16 <= z + 16
    BY <1>5
  <2>2. \A j \in 1 .. 16 : P[x + j] \in Word
    <3>1. \A j \in 1 .. 16 : x + j \in 1 .. z + 16
      BY <2>1
    <3> QED BY <1>6, <3>1
  <2>3. Cut(Word, SubSeq(P, x + 1, x + 16), P, x, 16)
    <3>1. x \in Int /\ 16 \in Nat
      OBVIOUS
    <3> QED BY <2>2, <3>1, SubSeqIs
  <2>4. MessageBlock(m, b) = SubSeq(P, x + 1, x + 16)
    BY <1>4, <2>1 DEF MessageBlock, BlockWords
  <2> QED BY <2>1, <2>3, <2>4 DEF Cut
<1>10. ASSUME NEW b \in 1 .. q PROVE MessageBlock(m, b) = BlockAt(w, b)
  <2>1. b \in 1 .. q + 1 /\ \A j \in 1 .. 16 : 16 * (b - 1) + j \in 1 .. z + p
    BY <1>5
  <2>2. \A j \in 1 .. 16 : MessageBlock(m, b)[j] = w[16 * (b - 1) + j]
    BY <1>7, <1>9, <2>1
  <2>3. MessageBlock(m, b) \in [1 .. 16 -> Word]
    BY <1>9, <2>1
  <2> QED BY <2>2, <2>3 DEF BlockAt
<1>11. MessageBlock(m, q + 1) = PadBlock(w, q, p)
  <2>1. PICK b : b = q + 1 /\ b \in 1 .. q + 1 /\ 16 * (b - 1) = z
    BY <1>5
  <2>2. ASSUME NEW j \in 1 .. 16
        PROVE  MessageBlock(m, b)[j] = IF j <= p THEN w[16 * q + j] ELSE PadWord(j - p)
    <3>1. MessageBlock(m, b)[j] = P[z + j]
      BY <1>9, <2>1
    <3>2. CASE j <= p
      <4>1. z + j \in 1 .. z + p
        BY <3>2
      <4>2. P[z + j] = w[z + j]
        BY <1>7, <4>1
      <4> QED BY <1>5, <3>1, <3>2, <4>2
    <3>3. CASE ~(j <= p)
      <4>1. PICK k \in 1 .. pad : k = j - p /\ z + j = z + p + k
        <5>1. j - p \in 1 .. pad /\ z + j = z + p + (j - p)
          BY <1>3, <3>3
        <5> QED BY <5>1
      <4> QED BY <1>8, <3>1, <3>3, <4>1
    <3> QED BY <3>2, <3>3
  <2>3. MessageBlock(m, b) \in [1 .. 16 -> Word]
    BY <1>9, <2>1
  <2>4. MessageBlock(m, b) = PadBlock(w, q, p)
    BY <2>2, <2>3 DEF PadBlock
  <2> QED BY <2>1, <2>4
<1>12. MessageBlocks(m) = q + 1
  BY <1>1, <1>2 DEF MessageBlocks, BlockWords
<1> QED BY <1>10, <1>11, <1>12 DEF InBlocks

ShabalStep(m, s, b) ==
    Strictly(LAMBDA st : Mixed(st, MessageBlock(m, LastBlock(m, b)),
                               (LastBlock(m, b) - 2) % 2^(2 * CounterBits)), s)
ShabalSteps(m, z, g) ==
    g = [k \in 0 .. MessageBlocks(m) + 3 |-> IF k = 0 THEN z ELSE ShabalStep(m, g[k - 1], k)]

IsShabalRun(m, f, e) ==
    /\ e \in Nat /\ e = MessageBlocks(m) + 3
    /\ f = [k \in 0 .. e |-> f[k]] /\ f[0] = ZeroState
    /\ \A k \in 1 .. e : f[k] = Mixed(f[k - 1], MessageBlock(m, LastBlock(m, k)),
                                       (LastBlock(m, k) - 2) % Rounds)

\* A run over the blocks of a message, however it is presented, gives shabal.
LEMMA ShabalUnfold ==
    ASSUME NEW m, NEW f, NEW e, IsShabalRun(m, f, e)
    PROVE  shabal(m) = SubSeq(f[e].C, 9, 16)
<1>0. e \in Nat /\ e = MessageBlocks(m) + 3 /\ f = [k \in 0 .. e |-> f[k]] /\ f[0] = ZeroState
      /\ \A k \in 1 .. e : f[k] = Mixed(f[k - 1], MessageBlock(m, LastBlock(m, k)),
                                         (LastBlock(m, k) - 2) % Rounds)
  BY DEF IsShabalRun
<1> DEFINE Zero(n) == Tuple([j \in 1 .. n |-> 0])
           z == [A |-> Zero(12), B |-> Zero(16), C |-> Zero(16)]
<1>1. shabal(m) = SubSeq((CHOOSE g : ShabalSteps(m, z, g))[MessageBlocks(m) + 3].C, 9, 16)
  BY DEF shabal, Iterated, ShabalSteps, ShabalStep, MessageBlock, MessageBlocks, LastBlock
<1>2. z = ZeroState
  <2>1. Tuple([j \in 1 .. 12 |-> 0]) = [j \in 1 .. 12 |-> 0]
    <3>1. PICK t : t = [j \in 1 .. 12 |-> 0]
      OBVIOUS
    <3>2. 12 \in Nat /\ t \in [1 .. 12 -> Int]
      BY <3>1
    <3>3. Tuple(t) = t
      BY ONLY <3>2, TupleIs
    <3> QED BY <3>1, <3>3
  <2>2. Tuple([j \in 1 .. 16 |-> 0]) = [j \in 1 .. 16 |-> 0]
    <3>1. PICK t : t = [j \in 1 .. 16 |-> 0]
      OBVIOUS
    <3>2. 16 \in Nat /\ t \in [1 .. 16 -> Int]
      BY <3>1
    <3>3. Tuple(t) = t
      BY ONLY <3>2, TupleIs
    <3> QED BY <3>1, <3>3
  <2> QED BY <2>1, <2>2 DEF ZeroState
<1> HIDE DEF z
<1>3. \A s, k : ShabalStep(m, s, k) = Mixed(s, MessageBlock(m, LastBlock(m, k)),
                                            (LastBlock(m, k) - 2) % Rounds)
  BY DEF ShabalStep, Strictly, Rounds
<1>4. ShabalSteps(m, z, f)
  <2>1. \A k \in 0 .. e : f[k] = IF k = 0 THEN z ELSE ShabalStep(m, f[k - 1], k)
    <3>1. \A k \in 0 .. e : k = 0 \/ (k \in 1 .. e /\ k # 0)
      BY <1>0
    <3>2. f[0] = z
      BY <1>0, <1>2
    <3>3. ASSUME NEW k \in 1 .. e PROVE f[k] = ShabalStep(m, f[k - 1], k)
      <4>1. PICK s : s = f[k - 1]
        OBVIOUS
      <4>2. f[k] = Mixed(s, MessageBlock(m, LastBlock(m, k)), (LastBlock(m, k) - 2) % Rounds)
        BY <1>0, <4>1
      <4>3. ShabalStep(m, s, k) = Mixed(s, MessageBlock(m, LastBlock(m, k)), (LastBlock(m, k) - 2) % Rounds)
        BY <1>3
      <4> QED BY <4>1, <4>2, <4>3
    <3> QED BY ONLY <3>1, <3>2, <3>3
  <2> QED BY <1>0, <2>1 DEF ShabalSteps
<1>5. PICK h : h = (CHOOSE g : ShabalSteps(m, z, g)) /\ ShabalSteps(m, z, h)
  BY <1>4
<1>6. h[0] = ZeroState /\ \A k \in 1 .. e : h[k] = Mixed(h[k - 1], MessageBlock(m, LastBlock(m, k)),
                                                         (LastBlock(m, k) - 2) % Rounds)
  <2>1. \A k \in 0 .. e : h[k] = IF k = 0 THEN z ELSE ShabalStep(m, h[k - 1], k)
    BY <1>0, <1>5 DEF ShabalSteps
  <2>2. 0 \in 0 .. e /\ \A k \in 1 .. e : k \in 0 .. e /\ k # 0
    BY <1>0
  <2> QED BY <1>2, <1>3, <2>1, <2>2
<1>7. h[e] = f[e]
  <2>1. \A k \in 1 .. e : f[k - 1] = h[k - 1] => f[k] = h[k]
    BY <1>0, <1>6
  <2>2. f[0] = h[0] /\ e \in Nat
    BY <1>0, <1>6
  <2>3. \A k \in 0 .. e : f[k] = h[k]
    BY ONLY <2>1, <2>2, RunsAgree
  <2>4. e \in 0 .. e
    BY <1>0
  <2> QED BY <2>3, <2>4
<1> QED BY <1>0, <1>1, <1>5, <1>7

\* The digest of a message is what a lane that carries it ends with.
LEMMA ShabalIs ==
    ASSUME NEW m \in Seq(Word), NEW w, Carries(w, m), NEW q \in Nat, NEW p \in 0 .. 15,
           16 * q + p = 32 + Len(m), NEW st, Traced(w, q, st)
    PROVE  shabal(m) = SubSeq(Four(st, PadBlock(w, q, p), (q - 1) % Rounds).C, 9, 16)
<1>1. InBlocks(m, w, q, p)
  BY MessageBlocksAre
<1>2. PICK f : Trace(f, w, q) /\ f[q] = st
  BY DEF Traced
<1>3. PICK b, N : b = PadBlock(w, q, p) /\ N = (q - 1) % Rounds
  OBVIOUS
<1>4. PICK s1, s2, s3, s4 : s1 = Mixed(st, b, N) /\ s2 = Mixed(s1, b, N) /\ s3 = Mixed(s2, b, N)
                            /\ s4 = Mixed(s3, b, N)
  OBVIOUS
<1>5. PICK e \in Nat : e = q + 4
  OBVIOUS
<1>6. PICK g : g = [k \in 0 .. e |-> IF k <= q THEN f[k] ELSE IF k = q + 1 THEN s1
                                     ELSE IF k = q + 2 THEN s2 ELSE IF k = q + 3 THEN s3 ELSE s4]
  OBVIOUS
<1>7. g = [k \in 0 .. e |-> g[k]] /\ \A k \in 0 .. q : g[k] = f[k]
  <2>1. \A k \in 0 .. q : k \in 0 .. e /\ k <= q
    BY <1>5
  <2> QED BY <1>6, <2>1
<1>8. g[q + 1] = s1 /\ g[q + 2] = s2 /\ g[q + 3] = s3 /\ g[q + 4] = s4
  <2>1. q + 1 \in 0 .. e /\ q + 2 \in 0 .. e /\ q + 3 \in 0 .. e /\ q + 4 \in 0 .. e
    BY <1>5
  <2> QED BY <1>6, <2>1
<1>9. ASSUME NEW k \in 1 .. e
      PROVE  g[k] = Mixed(g[k - 1], MessageBlock(m, LastBlock(m, k)), (LastBlock(m, k) - 2) % Rounds)
  <2>1. CASE k <= q
    <3>1. k \in 1 .. q /\ k \in 0 .. q /\ k - 1 \in 0 .. q /\ k < q + 1
      BY <2>1
    <3>2. LastBlock(m, k) = k
      BY <1>1, <3>1 DEF InBlocks, LastBlock
    <3>3. f[k] = Mixed(f[k - 1], BlockAt(w, k), (k - 2) % Rounds)
      BY <1>2, <3>1 DEF Trace
    <3>4. MessageBlock(m, k) = BlockAt(w, k)
      BY <1>1, <3>1 DEF InBlocks
    <3> QED BY <1>7, <3>1, <3>2, <3>3, <3>4
  <2>2. CASE ~(k <= q)
    <3>1. LastBlock(m, k) = q + 1
      <4>1. ~(k < q + 1)
        BY <2>2
      <4>2. MessageBlocks(m) = q + 1
        BY <1>1 DEF InBlocks
      <4> QED BY <4>1, <4>2 DEF LastBlock
    <3>2. MessageBlock(m, q + 1) = b
      BY <1>1, <1>3 DEF InBlocks
    <3>3. q + 1 - 2 = q - 1
      OBVIOUS
    <3>4. (LastBlock(m, k) - 2) % Rounds = N
      BY <1>3, <3>1, <3>3
    <3>5. g[q] = st
      <4>1. q \in 0 .. q
        OBVIOUS
      <4> QED BY <1>2, <1>7, <4>1
    <3>6. g[k] = Mixed(g[k - 1], b, N)
      <4>1. \/ k = q + 1 /\ k - 1 = q
            \/ k = q + 2 /\ k - 1 = q + 1
            \/ k = q + 3 /\ k - 1 = q + 2
            \/ k = q + 4 /\ k - 1 = q + 3
        BY <1>5, <2>2
      <4> QED BY <1>4, <1>8, <3>5, <4>1
    <3> QED BY <3>1, <3>2, <3>4, <3>6
  <2> QED BY <2>1, <2>2
<1>10. e = MessageBlocks(m) + 3
  <2>1. MessageBlocks(m) = q + 1
    BY <1>1 DEF InBlocks
  <2> QED BY <1>5, <2>1
<1>11. g[0] = ZeroState
  <2>1. 0 \in 0 .. q
    OBVIOUS
  <2> QED BY <1>2, <1>7, <2>1 DEF Trace
<1>12. shabal(m) = SubSeq(g[e].C, 9, 16)
  <2>1. e \in Nat /\ g = [k \in 0 .. e |-> g[k]]
    BY <1>7
  <2>2. IsShabalRun(m, g, e)
    BY ONLY <1>9, <1>10, <1>11, <2>1 DEF IsShabalRun
  <2> QED BY <2>2, ShabalUnfold
<1>13. s4 = Four(st, b, N)
  BY <1>4 DEF Four
<1> QED BY <1>3, <1>5, <1>8, <1>12, <1>13

\* The last eight words of C.
LEMMA DigestsAre ==
    ASSUME NEW n \in Nat, n > 0, NEW d \in Contexts(n), NEW l \in 1 .. n, NEW first, first = 36
    PROVE  /\ Digests(n, d, first)[l] = SubSeq(StateOf(n, d.state, l).C, 9, 16)
           /\ Digests(n, d, first) \in [1 .. n -> [1 .. 8 -> Word]]
<1>0. PICK m \in Nat : m = 44 * n
  OBVIOUS
<1>1. d.state \in [1 .. m -> Word]
  BY <1>0 DEF Contexts
<1>2. ASSUME NEW k \in 1 .. n, NEW i \in 1 .. 8
      PROVE  d.state[n * (first + i - 1) + k] \in Word
             /\ n * (first + i - 1) + k = n * (28 + (8 + i) - 1) + k
  <2>1. PICK x \in Nat : x = first + i - 1 /\ x < 44 /\ x = 28 + (8 + i) - 1
    OBVIOUS
  <2>2. n * x + k \in 1 .. 44 * n
    BY <2>1, IndexIs
  <2> QED BY <1>0, <1>1, <2>1, <2>2
<1> DEFINE F(k) == [i \in 1 .. 8 |-> d.state[n * (first + i - 1) + k]]
           D == [k \in 1 .. n |-> F(k)]
<1>3. \A k \in 1 .. n : F(k) \in [1 .. 8 -> Word]
  BY <1>2
<1>4. \A k \in 1 .. n : Tuple(F(k)) = F(k)
  <2> HIDE DEF F
  <2>1. 8 \in Nat
    OBVIOUS
  <2> QED BY <1>3, <2>1, TupleIs
<1>5. D \in [1 .. n -> [1 .. 8 -> Word]] /\ Tuple(D) = D
  <2>1. D \in [1 .. n -> [1 .. 8 -> Word]]
    <3> HIDE DEF F
    <3> QED BY <1>3
  <2>2. PICK S : S = [1 .. 8 -> Word]
    OBVIOUS
  <2> HIDE DEF D
  <2>3. D \in [1 .. n -> S]
    BY <2>1, <2>2
  <2>4. Tuple(D) = D
    BY ONLY <2>3, n \in Nat, TupleIs
  <2> QED BY <2>1, <2>4
<1>6. Digests(n, d, first) = Tuple([k \in 1 .. n |-> Tuple(F(k))])
  BY DEF Digests, HashWords
<1>7. Digests(n, d, first) = D
  <2>1. [k \in 1 .. n |-> Tuple(F(k))] = D
    <3> HIDE DEF F
    <3> QED BY <1>4
  <2> HIDE DEF F, D
  <2> QED BY <1>5, <1>6, <2>1
<1>8. PICK C : C = StateOf(n, d.state, l).C /\ C = [j \in 1 .. 16 |-> d.state[n * (28 + j - 1) + l]]
  BY DEF StateOf
<1>9. ASSUME NEW i \in 1 .. 8 PROVE C[8 + i] = d.state[n * (first + i - 1) + l] /\ C[8 + i] \in Word
  <2>1. 8 + i \in 1 .. 16
    OBVIOUS
  <2>2. C[8 + i] = d.state[n * (28 + (8 + i) - 1) + l]
    BY <1>8, <2>1
  <2> QED BY <1>2, <2>2
<1>10. Cut(Word, SubSeq(C, 8 + 1, 8 + 8), C, 8, 8)
  <2>1. 8 \in Int /\ 8 \in Nat
    OBVIOUS
  <2> QED BY <1>9, <2>1, SubSeqIs
<1>11. PICK s : s = SubSeq(C, 9, 16) /\ s \in [1 .. 8 -> Word] /\ \A i \in 1 .. 8 : s[i] = C[8 + i]
  <2>1. 8 + 1 = 9 /\ 8 + 8 = 16
    OBVIOUS
  <2> QED BY <1>10, <2>1 DEF Cut
<1>12. F(l) = s
  BY <1>3, <1>9, <1>11
<1> QED BY <1>5, <1>7, <1>8, <1>11, <1>12


-----------------------------------------------------------------------------
(* The kernels                                                             *)

Width(k) == IF k = "avx2" THEN Lanes256 ELSE Lanes4

\* Every kernel has lanes.
LEMMA WidthIs ==
    ASSUME NEW k
    PROVE  Width(k) \in Nat /\ Width(k) > 0 /\ Lanes(k) = 1 .. Width(k)
<1>1. Lanes256 \in Nat /\ Lanes256 > 0 /\ Lanes4 \in Nat /\ Lanes4 > 0
  BY LanesAssumption
<1>2. Lanes(k) = 1 .. Width(k)
  BY DEF Lanes, Width
<1> QED BY <1>1, <1>2 DEF Width

\* A copied initial context has been through the prefix, in each kernel.
LEMMA FreshIs ==
    ASSUME NEW k, NEW v, Prefixed(Width(k), v)
    PROVE  Reached(Width(k), Fresh(k), 32, v)
<1>1. Fresh(k) = InitContext(Width(k), 256)
  BY DEF Fresh, Width, mshabal256_init, sse4_mshabal_init
<1>2. Absorbed(Width(k), Fresh(k), 2, 0, v)
  BY <1>1, WidthIs, InitIs
<1>3. 2 \in Nat /\ 0 \in 0 .. 15 /\ 16 * 2 + 0 = 32
  OBVIOUS
<1> QED BY <1>2, <1>3 DEF Reached

\* What close returns are the hashes of the messages that the lanes carry.
LEMMA ClosedIs ==
    ASSUME NEW k, NEW c, NEW at, NEW v, Reached(Width(k), c, at, v),
           NEW l \in Lanes(k), NEW m \in Seq(Word), Carries(v[l], m), at = 32 + Len(m)
    PROVE  Closed(k, c)[l] = shabal(m) /\ Closed(k, c) \in [Lanes(k) -> [1 .. 8 -> Word]]
<1>0. PICK q \in Nat, p \in 0 .. 15 : Absorbed(Width(k), c, q, p, v) /\ 16 * q + p = at
  BY DEF Reached
<1>1. PICK n \in Nat : n = Width(k) /\ n > 0 /\ Lanes(k) = 1 .. n
  BY WidthIs
<1>2. PICK d : d = CloseContext(n, c) /\ Finish(n, d, q, p, v)
  BY <1>0, <1>1, CloseIs
<1>3. Closed(k, c) = Digests(n, d, 36)
  BY <1>1, <1>2 DEF Closed, Width, mshabal256_close, sse4_mshabal_close, HashWords
<1>4. q \in Nat /\ p \in 0 .. 15 /\ 16 * q + p = 32 + Len(m)
  BY <1>0
<1>5. PICK st : /\ Traced(v[l], q, st)
                /\ StateOf(n, d.state, l) = Four(st, PadBlock(v[l], q, p), (q - 1) % Rounds)
  BY <1>1, <1>2 DEF Finish
<1>6. shabal(m) = SubSeq(StateOf(n, d.state, l).C, 9, 16)
  BY <1>4, <1>5, ShabalIs
<1>7. /\ Digests(n, d, 36)[l] = SubSeq(StateOf(n, d.state, l).C, 9, 16)
      /\ Digests(n, d, 36) \in [1 .. n -> [1 .. 8 -> Word]]
  <2>1. d \in Contexts(n)
    BY <1>2 DEF Finish
  <2>2. PICK e : e = 36
    OBVIOUS
  <2>3. l \in 1 .. n
    BY <1>1
  <2>4. /\ Digests(n, d, e)[l] = SubSeq(StateOf(n, d.state, l).C, 9, 16)
        /\ Digests(n, d, e) \in [1 .. n -> [1 .. 8 -> Word]]
    BY <1>1, <2>1, <2>2, <2>3, DigestsAre, SMTT(30)
  <2> QED BY <2>2, <2>4
<1> QED BY <1>1, <1>3, <1>6, <1>7

\* A chunk for each lane, but for the idle ones.
Source(k, none, l) ==
    IF l \in none THEN CHOOSE j \in Lanes(k) \ none : \A i \in Lanes(k) \ none : j <= i ELSE l
Chunks(k, data, none, words, len) ==
    /\ words \in [Lanes(k) -> [1 .. len -> Word]]
    /\ data = [l \in Lanes(k) |-> IF l \in none THEN NULL ELSE words[l]]
Continues(k, none, words, len, v, at) ==
    \A l \in Lanes(k) : \A i \in 1 .. len : words[Source(k, none, l)][i] = v[l][at + i]

\* A lane that nobody feeds is fed another lane's data; any other its own.
LEMMA SourceIs ==
    ASSUME NEW k, NEW none \in Idle(k), NEW l \in Lanes(k)
    PROVE  /\ Source(k, none, l) \in Lanes(k) \ none
           /\ l \notin none => Source(k, none, l) = l
           /\ k = "avx2" => none = {}
<1>1. PICK n \in Nat : n > 0 /\ Lanes(k) = 1 .. n /\ n = Width(k)
  BY WidthIs
<1>2. none \in SUBSET (1 .. n) /\ none # 1 .. n /\ (k = "avx2" => none = {})
  <2>1. CASE k = "avx2"
    <3>1. none = {}
      BY <2>1 DEF Idle
    <3>2. 1 \in 1 .. n
      BY <1>1
    <3> QED BY <3>1, <3>2
  <2>2. CASE k # "avx2"
    <3>1. n = Lanes4
      BY <1>1, <2>2 DEF Width
    <3> QED BY <2>2, <3>1 DEF Idle
  <2> QED BY <2>1, <2>2
<1>3. PICK G : G = Lanes(k) \ none /\ G \in SUBSET Nat /\ G # {}
  <2>1. Lanes(k) \ none \in SUBSET Nat
    BY <1>1
  <2>2. Lanes(k) \ none # {}
    BY <1>1, <1>2
  <2> QED BY <2>1, <2>2
<1>4. \E j \in G : \A i \in G : j <= i
  BY <1>3, NatLeast
<1>5. (CHOOSE j \in G : \A i \in G : j <= i) \in G
  BY <1>4
<1>6. Source(k, none, l) \in G
  BY <1>3, <1>5 DEF Source
<1>7. l \notin none => Source(k, none, l) = l
  BY DEF Source
<1> QED BY <1>2, <1>3, <1>6, <1>7

\* Each kernel's update feeds its lanes, idle ones with the pointer of another.
LEMMA FedIs ==
    ASSUME NEW k \in {"avx2", "sse4"}, NEW none \in Idle(k), NEW c, NEW at, NEW v,
           Reached(Width(k), c, at, v), NEW len \in Nat, NEW data, NEW words,
           Chunks(k, data, none, words, len), Continues(k, none, words, len, v, at)
    PROVE  Reached(Width(k), Fed(k, c, data), at + len, v)
<1>1. PICK n \in Nat : n = Width(k) /\ n > 0 /\ Lanes(k) = 1 .. n
  BY WidthIs
<1>2. PICK given : given = [l \in 1 .. n |-> words[Source(k, none, l)]]
                   /\ given \in [1 .. n -> [1 .. len -> Word]]
  <2>1. \A l \in 1 .. n : words[Source(k, none, l)] \in [1 .. len -> Word]
    BY <1>1, SourceIs DEF Chunks
  <2>2. [l \in 1 .. n |-> words[Source(k, none, l)]] \in [1 .. n -> [1 .. len -> Word]]
    BY <2>1, Zenon
  <2> QED BY <2>2
<1>3. Follows(n, given, len, v, at)
  BY <1>1, <1>2 DEF Follows, Continues
<1>4. words \in [1 .. n -> [1 .. len -> Word]]
      /\ data = [l \in 1 .. n |-> IF l \in none THEN NULL ELSE words[l]]
  BY <1>1 DEF Chunks
<1>7. Reached(Width(k), Feed(n, c, given), at + len, v)
  BY <1>1, <1>2, <1>3, FeedIs
<1>5. CASE k = "avx2"
  <2>1. none = {}
    <3>1. 1 \in Lanes(k)
      BY <1>1
    <3> QED BY <1>5, <3>1, SourceIs
  <2>2. \A l \in 1 .. n : given[l] = words[l]
    <3>1. \A l \in 1 .. n : Source(k, none, l) = l
      BY <2>1 DEF Source
    <3> QED BY <1>2, <3>1
  <2>3. data = words
    BY <1>4, <2>1
  <2>4. given = words
    BY <1>2, <1>4, <2>2
  <2>5. Fed(k, c, data) = Feed(n, c, given)
    BY <1>1, <1>5, <2>3, <2>4 DEF Fed, Width, mshabal256
  <2> QED BY <1>7, <2>5
<1>6. CASE k = "sse4"
  <2>1. n = Lanes4 /\ k # "avx2"
    BY <1>1, <1>6 DEF Width
  <2>2. \A l \in 1 .. n : words[l] # NULL
    <3>1. ASSUME NEW l \in 1 .. n PROVE words[l] \in Seq(Word)
      <4>1. words[l] \in [1 .. len -> Word]
        BY <1>4
      <4> QED BY <4>1, TupleIs
    <3> QED BY <3>1, NullAssumption
  <2>3. \A l \in 1 .. n : data[l] # NULL <=> l \notin none
    BY <1>4, <2>2
  <2>4. {l \in 1 .. Lanes4 : data[l] # NULL} = Lanes(k) \ none
    BY <1>1, <2>1, <2>3
  <2>5. PICK first : first = (CHOOSE j \in Lanes(k) \ none : \A i \in Lanes(k) \ none : j <= i)
    OBVIOUS
  <2>6. Aliased(data) = Tuple([l \in 1 .. n |-> IF l \in Lanes(k) \ none THEN data[l] ELSE data[first]])
    <3>1. PICK G : G = {l \in 1 .. Lanes4 : data[l] # NULL}
      OBVIOUS
    <3>2. Aliased(data) = Tuple([l \in 1 .. Lanes4 |->
              IF l \in G THEN data[l] ELSE data[CHOOSE j \in G : \A i \in G : j <= i]])
      BY <3>1 DEF Aliased
    <3>3. G = Lanes(k) \ none
      BY <2>4, <3>1
    <3> QED BY <2>1, <2>5, <3>2, <3>3
  <2>7. \A l \in 1 .. n : Source(k, none, l) = IF l \in none THEN first ELSE l
    BY <2>5 DEF Source
  <2>8. ASSUME NEW l \in 1 .. n
        PROVE  (IF l \in Lanes(k) \ none THEN data[l] ELSE data[first]) = given[l]
    <3>1. Source(k, none, l) \in 1 .. n /\ Source(k, none, l) \notin none
      BY <1>1, SourceIs
    <3>2. data[Source(k, none, l)] = words[Source(k, none, l)]
      BY <1>4, <3>1
    <3>3. given[l] = data[Source(k, none, l)]
      BY <1>2, <3>2
    <3> QED BY <1>1, <2>7, <3>3
  <2>9. [l \in 1 .. n |-> IF l \in Lanes(k) \ none THEN data[l] ELSE data[first]] = given
    BY <1>2, <2>8
  <2>10. Tuple(given) = given
    <3>1. PICK S : S = [1 .. len -> Word]
      OBVIOUS
    <3>2. given \in [1 .. n -> S]
      BY <1>2, <3>1
    <3> QED BY <3>2, TupleIs
  <2>11. ~ \A l \in 1 .. Lanes4 : data[l] = NULL
    <3>1. 1 \in 1 .. n
      BY <1>1
    <3>2. Source(k, none, 1) \in 1 .. n /\ Source(k, none, 1) \notin none
      BY <1>1, <3>1, SourceIs
    <3> QED BY <2>1, <2>3, <3>2
  <2>12. Fed(k, c, data) = Feed(n, c, given)
    BY <2>1, <2>6, <2>9, <2>10, <2>11 DEF Fed, sse4_mshabal
  <2> QED BY <1>7, <2>12
<1> QED BY <1>5, <1>6


-----------------------------------------------------------------------------
(* What has been fed                                                       *)

Total(s) == LET sum[k \in 0 .. Len(s)] == IF k = 0 THEN 0 ELSE sum[k - 1] + s[k]
            IN sum[Len(s)]
IsSum(s, f) ==
    /\ f \in [0 .. Len(s) -> Nat] /\ f[0] = 0 /\ \A k \in 1 .. Len(s) : f[k] = f[k - 1] + s[k]
TotalSteps(s, g) == g = [k \in 0 .. Len(s) |-> IF k = 0 THEN 0 ELSE g[k - 1] + s[k]]

\* Every sequence of numbers has its running sums.
LEMMA SumExists ==
    ASSUME NEW s \in Seq(Nat)
    PROVE  \E f : IsSum(s, f)
<1>1. PICK n \in Nat : n = Len(s) /\ s \in [1 .. n -> Nat]
  BY SeqFunctions
<1> DEFINE S == Nat
           T == [k \in 0 .. n |-> Nat]
           G == [k \in 1 .. n |-> [x \in Nat |-> x + s[k]]]
<1>2. Stepping(n, S, T, 0, G)
  <2>1. G \in [1 .. n -> [S -> S]]
    BY <1>1
  <2>2. T \in [0 .. n -> SUBSET S] /\ 0 \in T[0]
    BY <1>1
  <2>3. \A k \in 1 .. n : \A x \in T[k - 1] : G[k][x] \in T[k]
    BY <1>1, SMTT(30)
  <2> HIDE DEF S, T, G
  <2> QED BY <2>1, <2>2, <2>3 DEF Stepping
<1>3. PICK f : Run(f, n, S, T, 0, G)
  <2> HIDE DEF S, T, G
  <2> QED BY <1>2, RunExists
<1>4. f \in [0 .. n -> Nat] /\ f[0] = 0 /\ \A k \in 1 .. n : f[k] = G[k][f[k - 1]]
  <2>1. f \in [0 .. n -> S] /\ f[0] = 0 /\ \A k \in 1 .. n : f[k] = G[k][f[k - 1]]
    <3> HIDE DEF S, T, G
    <3> QED BY <1>3 DEF Run
  <2> QED BY <2>1
<1>5. \A k \in 1 .. n : f[k] = f[k - 1] + s[k]
  <2>1. \A k \in 1 .. n : k - 1 \in 0 .. n
    OBVIOUS
  <2> QED BY <1>4, <2>1
<1> QED BY <1>1, <1>4, <1>5 DEF IsSum

\* The total is the last of the running sums.
LEMMA TotalIs ==
    ASSUME NEW s \in Seq(Nat), NEW f, IsSum(s, f)
    PROVE  Total(s) = f[Len(s)] /\ Total(s) \in Nat
<1>1. PICK n \in Nat : n = Len(s) /\ s \in [1 .. n -> Nat]
  BY SeqFunctions
<1>2. f \in [0 .. n -> Nat] /\ f[0] = 0 /\ \A k \in 1 .. n : f[k] = f[k - 1] + s[k]
  BY <1>1 DEF IsSum
<1>3. TotalSteps(s, f)
  <2>1. \A k \in 0 .. n : f[k] = IF k = 0 THEN 0 ELSE f[k - 1] + s[k]
    <3>1. \A k \in 0 .. n : k = 0 \/ (k \in 1 .. n /\ k # 0)
      OBVIOUS
    <3> QED BY <1>2, <3>1
  <2>2. f = [k \in 0 .. n |-> f[k]]
    BY <1>2
  <2>3. f = [k \in 0 .. n |-> IF k = 0 THEN 0 ELSE f[k - 1] + s[k]]
    BY <2>1, <2>2
  <2> QED BY <1>1, <2>3 DEF TotalSteps
<1>4. PICK h : h = (CHOOSE g : TotalSteps(s, g)) /\ TotalSteps(s, h)
  BY <1>3
<1>5. Total(s) = h[n]
  BY <1>1, <1>4 DEF Total, TotalSteps
<1>6. h[0] = 0 /\ \A k \in 1 .. n : h[k] = h[k - 1] + s[k]
  <2>1. \A k \in 0 .. n : h[k] = IF k = 0 THEN 0 ELSE h[k - 1] + s[k]
    BY <1>1, <1>4 DEF TotalSteps
  <2>2. 0 \in 0 .. n /\ \A k \in 1 .. n : k \in 0 .. n /\ k # 0
    OBVIOUS
  <2> QED BY <2>1, <2>2
<1>7. h[n] = f[n]
  <2>1. f[0] = h[0] /\ \A k \in 1 .. n : f[k - 1] = h[k - 1] => f[k] = h[k]
    BY <1>2, <1>6
  <2>2. \A k \in 0 .. n : f[k] = h[k]
    BY ONLY <2>1, n \in Nat, RunsAgree, ZenonT(30)
  <2> QED BY <2>2
<1> QED BY <1>1, <1>2, <1>5, <1>7

\* Nothing fed makes a total of zero.
LEMMA TotalZero ==
    Total(<< >>) = 0
<1>1. << >> \in Seq(Nat) /\ Len(<< >>) = 0
  OBVIOUS
<1>2. PICK f : IsSum(<< >>, f)
  BY <1>1, SumExists
<1>3. Total(<< >>) = f[0]
  BY <1>1, <1>2, TotalIs
<1> QED BY <1>2, <1>3 DEF IsSum

\* A chunk adds its length to the total.
LEMMA TotalNext ==
    ASSUME NEW s \in Seq(Nat), NEW x \in Nat
    PROVE  Total(Append(s, x)) = Total(s) + x
<1>1. PICK n \in Nat : n = Len(s) /\ s \in [1 .. n -> Nat]
  BY SeqFunctions
<1>2. PICK t : t = Append(s, x) /\ t \in Seq(Nat) /\ Len(t) = n + 1 /\ t[n + 1] = x
               /\ \A i \in 1 .. n : t[i] = s[i]
  <2>1. Append(s, x) \in Seq(Nat) /\ Len(Append(s, x)) = Len(s) + 1
    BY AppendProperties
  <2>2. Append(s, x)[Len(s) + 1] = x
    BY AppendProperties
  <2>3. \A i \in 1 .. Len(s) : Append(s, x)[i] = s[i]
    BY AppendProperties
  <2> QED BY <1>1, <2>1, <2>2, <2>3
<1>3. PICK f : IsSum(t, f)
  BY <1>2, SumExists
<1>4. f \in [0 .. n + 1 -> Nat] /\ f[0] = 0 /\ \A k \in 1 .. n + 1 : f[k] = f[k - 1] + t[k]
  BY <1>2, <1>3 DEF IsSum
<1>5. PICK g : g = [k \in 0 .. n |-> f[k]]
  OBVIOUS
<1>6. IsSum(s, g)
  <2>1. \A k \in 0 .. n : k \in 0 .. n + 1
    OBVIOUS
  <2>2. g \in [0 .. n -> Nat] /\ g[0] = 0
    BY <1>4, <1>5, <2>1
  <2>3. ASSUME NEW k \in 1 .. n PROVE g[k] = g[k - 1] + s[k]
    <3>1. k \in 1 .. n + 1 /\ k \in 0 .. n /\ k - 1 \in 0 .. n
      OBVIOUS
    <3>2. f[k] = f[k - 1] + t[k]
      BY <1>4, <3>1
    <3> QED BY <1>2, <1>5, <3>1, <3>2
  <2> QED BY <1>1, <2>2, <2>3 DEF IsSum
<1>7. Total(s) = g[n]
  BY <1>1, <1>6, TotalIs
<1>8. Total(t) = f[n + 1]
  BY <1>2, <1>3, TotalIs
<1>9. f[n + 1] = f[n] + x
  <2>1. n + 1 \in 1 .. n + 1 /\ n + 1 - 1 = n
    OBVIOUS
  <2> QED BY <1>2, <1>4, <2>1
<1>10. g[n] = f[n]
  BY <1>5
<1> QED BY <1>2, <1>7, <1>8, <1>9, <1>10

\* The words fed so far are the total of the chunks.
LEMMA FedLengthIs ==
    FedLength = Total(fed)
BY DEF FedLength, Total


-----------------------------------------------------------------------------
(* The invariant                                                           *)

\* What the lanes are fed, with the prefix; an idle lane is fed another one's.
LaneStream(k, none, l) ==
    [i \in Nat |-> IF i <= 32 THEN (256 + i - 1) % 2^WordBits
                   ELSE MessageWord(Source(k, none, l), i - 32)]
LaneStreams(k, none) == [l \in Lanes(k) |-> LaneStream(k, none, l)]

\* A message is made of words.
LEMMA MessageWordIs ==
    ASSUME NEW l \in Nat, NEW i \in Nat
    PROVE  MessageWord(l, i) \in Word
<1>1. PICK N \in Nat : N = 2^WordBits /\ N > 0 /\ Word = 0 .. N - 1
  BY WordSize DEF Word
<1>2. PICK x \in Int : x = i * i + 7 * i + 5 * l
  OBVIOUS
<1>3. x % N \in 0 .. N - 1
  BY <1>1
<1> QED BY <1>1, <1>2, <1>3 DEF MessageWord

\* The message of a lane is a sequence of words of the length asked for.
LEMMA MessageIs ==
    ASSUME NEW l \in Nat, NEW len \in Nat
    PROVE  /\ Message(l, len) \in [1 .. len -> Word] /\ Message(l, len) \in Seq(Word)
           /\ Len(Message(l, len)) = len
           /\ \A i \in 1 .. len : Message(l, len)[i] = MessageWord(l, i)
<1>1. PICK f : f = [i \in 1 .. len |-> MessageWord(l, i)] /\ f \in [1 .. len -> Word]
  <2>1. \A i \in 1 .. len : MessageWord(l, i) \in Word
    BY MessageWordIs
  <2>2. [i \in 1 .. len |-> MessageWord(l, i)] \in [1 .. len -> Word]
    BY <2>1, Zenon
  <2> QED BY <2>2
<1>2. Message(l, len) = Tuple(f)
  BY <1>1 DEF Message
<1>3. f \in [1 .. len -> Word]
  BY <1>1
<1>4. Tuple(f) = f /\ f \in Seq(Word) /\ Len(f) = len
  BY ONLY <1>3, len \in Nat, TupleIs
<1> QED BY <1>1, <1>2, <1>3, <1>4

\* What a lane is fed begins with the prefix.
LEMMA StreamPrefixed ==
    ASSUME NEW k, NEW none
    PROVE  Prefixed(Width(k), LaneStreams(k, none))
<1>1. ASSUME NEW l \in 1 .. Width(k), NEW i \in 1 .. 32
      PROVE  LaneStreams(k, none)[l][i] = (256 + i - 1) % 2^WordBits
  <2>1. l \in Lanes(k)
    BY WidthIs
  <2>2. LaneStreams(k, none)[l] = LaneStream(k, none, l)
    BY <2>1 DEF LaneStreams
  <2>3. i \in Nat /\ i <= 32
    OBVIOUS
  <2>4. LaneStream(k, none, l)[i] = (256 + i - 1) % 2^WordBits
    BY <2>3 DEF LaneStream
  <2> QED BY <2>2, <2>4
<1> QED BY <1>1 DEF Prefixed

\* What a lane is fed goes on with the message of the lane it is fed from.
LEMMA StreamWord ==
    ASSUME NEW k, NEW none, NEW l \in Lanes(k), NEW i \in Nat, i > 0
    PROVE  LaneStreams(k, none)[l][32 + i] = MessageWord(Source(k, none, l), i)
<1>1. PICK j \in Nat : j = 32 + i /\ ~(j <= 32) /\ j - 32 = i
  OBVIOUS
<1>2. LaneStreams(k, none)[l] = LaneStream(k, none, l)
  BY DEF LaneStreams
<1>3. LaneStream(k, none, l)[j] = MessageWord(Source(k, none, l), j - 32)
  BY <1>1 DEF LaneStream
<1> QED BY <1>1, <1>2, <1>3

\* A lane that is fed its own data carries its message.
LEMMA StreamCarries ==
    ASSUME NEW k, NEW none \in Idle(k), NEW l \in Lanes(k), l \notin none, NEW len \in Nat
    PROVE  Carries(LaneStreams(k, none)[l], Message(l, len))
<1>1. l \in Nat /\ Source(k, none, l) = l /\ l \in 1 .. Width(k)
  BY WidthIs, SourceIs
<1>2. \A i \in 1 .. 32 : LaneStreams(k, none)[l][i] = (256 + i - 1) % 2^WordBits
  BY <1>1, StreamPrefixed DEF Prefixed
<1>3. ASSUME NEW i \in 1 .. len PROVE LaneStreams(k, none)[l][32 + i] = Message(l, len)[i]
  <2>1. Message(l, len)[i] = MessageWord(l, i)
    BY <1>1, MessageIs
  <2>2. i \in Nat /\ i > 0
    OBVIOUS
  <2> QED BY <1>1, <2>1, <2>2, StreamWord
<1>4. Len(Message(l, len)) = len
  BY <1>1, MessageIs
<1> QED BY <1>2, <1>3, <1>4 DEF Carries

\* The context has taken what has been fed, in every lane.
Taken == Reached(Width(kernel), sc, 32 + FedLength, LaneStreams(kernel, idle))
Fixed == kernel \in {"avx2", "sse4"} /\ idle \in Idle(kernel) /\ fed \in Seq(Nat)
HInv == Fixed /\ Taken /\ DigestIsLaneHash

\* A context that was only set up has been through the prefix.
LEMMA HInit == Init => HInv
<1> SUFFICES ASSUME Init PROVE HInv
  OBVIOUS
<1>1. Fixed
  BY DEF Init, Fixed
<1>2. FedLength = 0
  BY FedLengthIs, TotalZero DEF Init
<1>3. Reached(Width(kernel), sc, 32, LaneStreams(kernel, idle))
  <2>1. sc = Fresh(kernel)
    BY DEF Init
  <2> QED BY <2>1, StreamPrefixed, FreshIs
<1>4. Taken
  <2>1. 32 + FedLength = 32
    BY <1>2
  <2> QED BY <1>3, <2>1 DEF Taken
<1>5. DigestIsLaneHash
  BY DEF Init, DigestIsLaneHash
<1> QED BY <1>1, <1>4, <1>5 DEF HInv

\* A call of update keeps every lane at the end of what it was fed.
LEMMA UpdateStep ==
    ASSUME HInv, NEW len \in ChunkLengths, Update(len)
    PROVE  HInv'
<1>1. len \in Nat /\ fed \in Seq(Nat) /\ FedLength \in Nat
  <2>1. len \in Nat /\ fed \in Seq(Nat)
    BY ChunksAssumption DEF HInv, Fixed
  <2>2. \E f : IsSum(fed, f)
    BY <2>1, SumExists
  <2> QED BY <2>1, <2>2, TotalIs, FedLengthIs
<1>2. PICK k, none, F : k = kernel /\ none = idle /\ F = FedLength /\ F \in Nat
                        /\ k \in {"avx2", "sse4"} /\ none \in Idle(k)
  BY <1>1 DEF HInv, Fixed
<1>3. kernel' = kernel /\ idle' = idle /\ digests' = digests /\ digests = << >> /\ fed' = Append(fed, len)
  BY DEF Update
<1>4. FedLength' = F + len
  <2>1. FedLength' = Total(fed')
    BY DEF FedLength, Total
  <2> QED BY <1>1, <1>2, <1>3, <2>1, FedLengthIs, TotalNext
<1> DEFINE Words == [l \in Lanes(k) |-> SubSeq(Message(l, F + len), F + 1, F + len)]
           Data == [l \in Lanes(k) |-> IF l \in none THEN NULL
                                       ELSE SubSeq(Message(l, F + len), F + 1, F + len)]
<1>5. ASSUME NEW l \in Lanes(k)
      PROVE  /\ Words[l] \in [1 .. len -> Word] /\ Words[l] \in Seq(Word)
             /\ \A i \in 1 .. len : Words[l][i] = MessageWord(l, F + i)
  <2>1. l \in Nat /\ F + len \in Nat /\ F \in Int
    BY <1>1, <1>2, WidthIs
  <2>2. PICK m : m = Message(l, F + len) /\ m \in [1 .. F + len -> Word]
                 /\ \A i \in 1 .. F + len : m[i] = MessageWord(l, i)
    BY <2>1, MessageIs, ZenonT(30)
  <2>3. \A i \in 1 .. len : F + i \in 1 .. F + len
    BY <1>1, <1>2
  <2>4. \A i \in 1 .. len : m[F + i] \in Word
    BY <2>2, <2>3
  <2>5. Cut(Word, SubSeq(m, F + 1, F + len), m, F, len)
    BY <1>1, <2>1, <2>4, SubSeqIs
  <2>6. Words[l] = SubSeq(m, F + 1, F + len)
    BY <2>2
  <2> HIDE DEF Words
  <2> QED BY <2>2, <2>3, <2>5, <2>6 DEF Cut
<1>6. Words \in [Lanes(k) -> [1 .. len -> Word]]
  <2>1. \A l \in Lanes(k) : SubSeq(Message(l, F + len), F + 1, F + len) \in [1 .. len -> Word]
    BY <1>5
  <2> QED BY <2>1
<1>7. Data = [l \in Lanes(k) |-> IF l \in none THEN NULL ELSE Words[l]]
  OBVIOUS
<1>8. sc' = Fed(k, sc, Tuple(Data))
  BY <1>2 DEF Update
<1>9. Tuple(Data) = Data
  <2>1. PICK S : S = Seq(Word) \cup {NULL}
    OBVIOUS
  <2>2. \A l \in Lanes(k) : (IF l \in none THEN NULL ELSE Words[l]) \in S
    <3> HIDE DEF Words
    <3> QED BY <1>5, <2>1
  <2>3. Data \in [Lanes(k) -> S]
    <3> HIDE DEF Words, Data
    <3> QED BY <1>7, <2>2
  <2> HIDE DEF Data
  <2>4. PICK n \in Nat : Lanes(k) = 1 .. n
    BY WidthIs
  <2> QED BY <2>3, <2>4, TupleIs
<1> HIDE DEF Words, Data
<1>10. Chunks(k, Data, none, Words, len)
  BY <1>6, <1>7 DEF Chunks
<1>11. Continues(k, none, Words, len, LaneStreams(k, none), 32 + F)
  <2>1. ASSUME NEW l \in Lanes(k), NEW i \in 1 .. len
        PROVE  Words[Source(k, none, l)][i] = LaneStreams(k, none)[l][32 + F + i]
    <3>1. PICK j \in Nat : j = F + i /\ j > 0 /\ 32 + F + i = 32 + j
      BY <1>1, <1>2
    <3>2. LaneStreams(k, none)[l][32 + j] = MessageWord(Source(k, none, l), j)
      BY <3>1, StreamWord
    <3>3. Source(k, none, l) \in Lanes(k)
      BY <1>2, SourceIs
    <3>4. Words[Source(k, none, l)][i] = MessageWord(Source(k, none, l), F + i)
      BY <1>5, <3>3
    <3> QED BY <3>1, <3>2, <3>4
  <2> QED BY <2>1 DEF Continues
<1>12. Reached(Width(k), sc, 32 + F, LaneStreams(k, none))
  BY <1>2 DEF HInv, Taken
<1>13. Reached(Width(k), Fed(k, sc, Data), 32 + F + len, LaneStreams(k, none))
  BY <1>1, <1>2, <1>10, <1>11, <1>12, FedIs
<1>14. Taken'
  <2>1. 32 + F + len = 32 + (F + len)
    BY <1>1, <1>2
  <2> QED BY <1>2, <1>3, <1>4, <1>8, <1>9, <1>13, <2>1 DEF Taken
<1>15. Fixed'
  <2>1. Append(fed, len) \in Seq(Nat)
    BY <1>1, AppendProperties
  <2> QED BY <1>3, <2>1 DEF HInv, Fixed
<1>16. DigestIsLaneHash'
  BY <1>3 DEF DigestIsLaneHash
<1> QED BY <1>14, <1>15, <1>16 DEF HInv

\* Closing leaves in each lane the digest of its message.
LEMMA CloseStepIs ==
    ASSUME HInv, Close
    PROVE  HInv'
<1>1. /\ kernel' = kernel /\ idle' = idle /\ sc' = sc /\ fed' = fed
      /\ digests' = Closed(kernel, sc)
  BY DEF Close
<1>2. kernel \in {"avx2", "sse4"} /\ idle \in Idle(kernel) /\ fed \in Seq(Nat) /\ Taken
  BY DEF HInv, Fixed
<1>3. FedLength' = FedLength
  <2>1. FedLength' = Total(fed')
    BY DEF FedLength, Total
  <2> QED BY <1>1, <2>1, FedLengthIs
<1>4. FedLength \in Nat
  <2>1. \E f : IsSum(fed, f)
    BY <1>2, SumExists
  <2> QED BY <1>2, <2>1, TotalIs, FedLengthIs
<1>5. ASSUME NEW l \in Lanes(kernel) \ idle
      PROVE  Closed(kernel, sc)[l] = shabal(Message(l, FedLength))
  <2>1. PICK m : m = Message(l, FedLength) /\ m \in Seq(Word) /\ Len(m) = FedLength
    <3>1. l \in Nat
      BY WidthIs
    <3> QED BY <1>4, <3>1, MessageIs
  <2>2. Carries(LaneStreams(kernel, idle)[l], m)
    BY <1>2, <1>4, <2>1, StreamCarries
  <2>3. Reached(Width(kernel), sc, 32 + Len(m), LaneStreams(kernel, idle))
    BY <1>2, <2>1 DEF Taken
  <2> QED BY <2>1, <2>2, <2>3, ClosedIs
<1>6. DigestIsLaneHash'
  BY <1>1, <1>3, <1>5 DEF DigestIsLaneHash
<1>7. Taken'
  BY <1>1, <1>2, <1>3 DEF Taken
<1>8. Fixed'
  BY <1>1, <1>2 DEF Fixed
<1> QED BY <1>6, <1>7, <1>8 DEF HInv

\* A context that is set up again is as good as new.
LEMMA AgainStep ==
    ASSUME HInv, Again
    PROVE  HInv'
<1>1. /\ kernel' = kernel /\ idle' = idle /\ sc' = Fresh(kernel) /\ fed' = << >> /\ digests' = << >>
  BY DEF Again
<1>2. kernel \in {"avx2", "sse4"} /\ idle \in Idle(kernel)
  BY DEF HInv, Fixed
<1>3. FedLength' = 0
  <2>1. FedLength' = Total(fed')
    BY DEF FedLength, Total
  <2> QED BY <1>1, <2>1, TotalZero
<1>4. Reached(Width(kernel), Fresh(kernel), 32, LaneStreams(kernel, idle))
  BY StreamPrefixed, FreshIs
<1>5. Taken'
  <2>1. 32 + FedLength' = 32
    BY <1>3
  <2> QED BY <1>1, <1>4, <2>1 DEF Taken
<1>6. Fixed'
  <2>1. << >> \in Seq(Nat)
    OBVIOUS
  <2> QED BY <1>1, <1>2, <2>1 DEF Fixed
<1>7. DigestIsLaneHash'
  BY <1>1 DEF DigestIsLaneHash
<1> QED BY <1>5, <1>6, <1>7 DEF HInv

\* Neither a batch nor a stuttering step touches what is hashed.
LEMMA OtherStep ==
    ASSUME HInv, UNCHANGED <<kernel, sc, idle, fed, digests>>
    PROVE  HInv'
<1>1. FedLength' = FedLength
  <2>1. FedLength' = Total(fed')
    BY DEF FedLength, Total
  <2> QED BY <2>1, FedLengthIs
<1>2. Taken'
  BY <1>1 DEF HInv, Taken
<1>3. Fixed'
  BY DEF HInv, Fixed
<1>4. DigestIsLaneHash'
  BY <1>1 DEF HInv, DigestIsLaneHash
<1> QED BY <1>2, <1>3, <1>4 DEF HInv

\* Every step keeps the invariant.
LEMMA HStep == HInv /\ [Next]_vars => HInv'
<1> SUFFICES ASSUME HInv, [Next]_vars PROVE HInv'
  OBVIOUS
<1>1. ASSUME NEW len \in ChunkLengths, Update(len) PROVE HInv'
  BY <1>1, UpdateStep
<1>2. CASE Close
  BY <1>2, CloseStepIs
<1>3. CASE Again
  BY <1>3, AgainStep
<1>4. ASSUME NEW poc2 \in BOOLEAN, NEW reqs \in [Lanes(kernel) -> Requests], Calculate(poc2, reqs)
      PROVE  HInv'
  <2>1. UNCHANGED <<kernel, sc, idle, fed, digests>>
    BY <1>4 DEF Calculate
  <2> QED BY <2>1, OtherStep
<1>5. CASE UNCHANGED vars
  <2>1. UNCHANGED <<kernel, sc, idle, fed, digests>>
    BY <1>5 DEF vars
  <2> QED BY <2>1, OtherStep
<1> QED BY <1>1, <1>2, <1>3, <1>4, <1>5 DEF Next

\* Under the invariant every lane of an open context is where the one-lane
\* definition is after the same words.
LEMMA HContext == HInv => ContextIsMessage
<1> SUFFICES ASSUME HInv PROVE ContextIsMessage
  OBVIOUS
<1>1. PICK F \in Nat : F = FedLength
  <2>1. fed \in Seq(Nat)
    BY DEF HInv, Fixed
  <2>2. \E f : IsSum(fed, f)
    BY <2>1, SumExists
  <2> QED BY <2>1, <2>2, TotalIs, FedLengthIs
<1>2. PICK n : n = Width(kernel) /\ Lanes(kernel) = 1 .. n
  BY WidthIs
<1>3. PICK v : v = LaneStreams(kernel, idle)
  OBVIOUS
<1>4. PICK q \in Nat, p \in 0 .. 15 : Absorbed(n, sc, q, p, v) /\ 16 * q + p = 32 + F
  <2>1. Reached(n, sc, 32 + F, v)
    BY <1>1, <1>2, <1>3 DEF HInv, Taken
  <2> QED BY <2>1 DEF Reached
<1>5. sc.ptr = p /\ Number(sc) = (q - 1) % Rounds
      /\ \A l \in 1 .. n : \A i \in 1 .. p : sc.buf[l][i] = v[l][16 * q + i]
  BY <1>4 DEF Absorbed, Chained
<1>6. p = F % 16 /\ q - 1 = (F \div 16) + 1
  BY <1>4
<1>7. sc.ptr = F % BlockWords
  BY <1>5, <1>6 DEF BlockWords
<1>8. sc.Wlow + 2^CounterBits * sc.Whigh = ((F \div BlockWords) + 1) % 2^(2 * CounterBits)
  BY <1>5, <1>6 DEF BlockWords, Number, Rounds
<1>9. ASSUME NEW l \in Lanes(kernel) \ idle, NEW i \in 1 .. p
      PROVE  sc.buf[l][i] = MessageWord(l, F - p + i)
  <2>1. PICK j \in Nat : j = F - p + i /\ j > 0 /\ 16 * q + i = 32 + j
    <3>1. q >= 2 /\ F - p + i = 16 * q - 32 + i
      BY <1>4
    <3> QED BY <3>1
  <2>2. v[l][32 + j] = MessageWord(Source(kernel, idle, l), j)
    BY <1>3, <2>1, StreamWord
  <2>3. Source(kernel, idle, l) = l
    BY DEF Source
  <2>4. sc.buf[l][i] = v[l][16 * q + i]
    BY <1>2, <1>5
  <2> QED BY <2>1, <2>2, <2>3, <2>4
<1> QED BY <1>1, <1>5, <1>7, <1>8, <1>9 DEF ContextIsMessage

\* Wherever the chunks are cut, a context of avx2 or of sse4 holds the words no
\* block has taken, and counts the blocks (mshabal256, sse4_mshabal: the head,
\* the whole blocks and the tail of a call, the carry of Wlow to Whigh).
THEOREM ContextAlwaysMessage == Spec => []ContextIsMessage
<1>1. Spec => []HInv
  BY HInit, HStep, PTL DEF Spec
<1> QED BY <1>1, HContext, PTL

\* The digest of each lane is the one-lane hash of its own message
\* (mshabal256_close, sse4_mshabal_close and the compressions before).
THEOREM DigestAlwaysLaneHash == Spec => []DigestIsLaneHash
<1>1. HInv => DigestIsLaneHash
  BY DEF HInv
<1>2. Spec => []HInv
  BY HInit, HStep, PTL DEF Spec
<1> QED BY <1>1, <1>2, PTL


-----------------------------------------------------------------------------
(* Whole messages, one for each lane                                       *)

\* The words of a lane that is fed its message.
MessageStreams(k, msgs) ==
    [l \in Lanes(k) |-> [i \in Nat |-> IF i <= 32 THEN (256 + i - 1) % 2^WordBits
                                       ELSE msgs[l][i - 32]]]

\* Where no lane is idle each is fed its own data.
LEMMA NobodyIdle ==
    ASSUME NEW k
    PROVE  {} \in Idle(k) /\ \A l : Source(k, {}, l) = l
<1>1. 1 \in 1 .. Lanes4 /\ {} \in SUBSET (1 .. Lanes4)
  BY LanesAssumption
<1>2. {} \in (SUBSET (1 .. Lanes4)) \ {1 .. Lanes4}
  BY <1>1
<1>3. {} \in Idle(k)
  BY <1>2 DEF Idle
<1> QED BY <1>3 DEF Source

\* A lane that is fed its message carries it.
LEMMA StreamsCarry ==
    ASSUME NEW k, NEW msgs, NEW l \in Lanes(k), Len(msgs[l]) \in Nat
    PROVE  Carries(MessageStreams(k, msgs)[l], msgs[l])
<1>1. ASSUME NEW i \in 1 .. 32
      PROVE  MessageStreams(k, msgs)[l][i] = (256 + i - 1) % 2^WordBits
  BY DEF MessageStreams
<1>2. ASSUME NEW i \in 1 .. Len(msgs[l])
      PROVE  MessageStreams(k, msgs)[l][32 + i] = msgs[l][i]
  <2>1. PICK j \in Nat : j = 32 + i /\ ~(j <= 32) /\ j - 32 = i
    OBVIOUS
  <2>2. MessageStreams(k, msgs)[l][j] = msgs[l][j - 32]
    BY <2>1 DEF MessageStreams
  <2> QED BY <2>1, <2>2
<1> QED BY <1>1, <1>2 DEF Carries

\* Every lane begins with the prefix.
LEMMA StreamsPrefixed ==
    ASSUME NEW k, NEW msgs
    PROVE  Prefixed(Width(k), MessageStreams(k, msgs))
<1>1. ASSUME NEW l \in 1 .. Width(k), NEW i \in 1 .. 32
      PROVE  MessageStreams(k, msgs)[l][i] = (256 + i - 1) % 2^WordBits
  <2>1. l \in Lanes(k)
    BY WidthIs
  <2> QED BY <2>1 DEF MessageStreams
<1> QED BY <1>1 DEF Prefixed

\* chunk is what follows the first `done' words of each message.
IsChunk(k, msgs, done, chunk, len) ==
    /\ chunk \in [Lanes(k) -> [1 .. len -> Word]]
    /\ \A l \in Lanes(k) : \A i \in 1 .. len : chunk[l][i] = msgs[l][done + i]

\* A chunk of every lane's message takes the context to its end.
LEMMA FedOn ==
    ASSUME NEW k \in {"avx2", "sse4"}, NEW msgs, NEW c, NEW done \in Nat,
           Reached(Width(k), c, 32 + done, MessageStreams(k, msgs)),
           NEW len \in Nat, NEW chunk, IsChunk(k, msgs, done, chunk, len)
    PROVE  Reached(Width(k), Fed(k, c, chunk), 32 + done + len, MessageStreams(k, msgs))
<1>1. chunk \in [Lanes(k) -> [1 .. len -> Word]]
      /\ \A l \in Lanes(k) : \A i \in 1 .. len : chunk[l][i] = msgs[l][done + i]
  BY DEF IsChunk
<1>2. Chunks(k, chunk, {}, chunk, len)
  <2>1. chunk = [l \in Lanes(k) |-> IF l \in {} THEN NULL ELSE chunk[l]]
    BY <1>1
  <2> QED BY <1>1, <2>1 DEF Chunks
<1>3. PICK at \in Nat : at = 32 + done
  OBVIOUS
<1>4. Continues(k, {}, chunk, len, MessageStreams(k, msgs), at)
  <2>1. ASSUME NEW l \in Lanes(k), NEW i \in 1 .. len
        PROVE  chunk[Source(k, {}, l)][i] = MessageStreams(k, msgs)[l][at + i]
    <3>1. PICK j \in Nat : j = at + i /\ ~(j <= 32) /\ j - 32 = done + i
      BY <1>3
    <3>2. MessageStreams(k, msgs)[l][j] = msgs[l][j - 32]
      BY <3>1 DEF MessageStreams
    <3>3. Source(k, {}, l) = l
      BY NobodyIdle
    <3> QED BY <1>1, <3>1, <3>2, <3>3
  <2> QED BY <2>1 DEF Continues
<1>5. Reached(Width(k), Fed(k, c, chunk), at + len, MessageStreams(k, msgs))
  BY <1>2, <1>3, <1>4, NobodyIdle, FedIs
<1> QED BY <1>3, <1>5

\* hs are the hashes of the messages of the lanes.
AreHashes(k, hs, msgs) ==
    /\ hs \in [Lanes(k) -> [1 .. 8 -> Word]]
    /\ \A l \in Lanes(k) : hs[l] = shabal(msgs[l])

\* Closed where its messages end, a context gives their hashes.
LEMMA ClosedHashes ==
    ASSUME NEW k, NEW len \in Nat, NEW msgs \in [Lanes(k) -> [1 .. len -> Word]], NEW c,
           Reached(Width(k), c, 32 + len, MessageStreams(k, msgs))
    PROVE  AreHashes(k, Closed(k, c), msgs)
<1>1. ASSUME NEW l \in Lanes(k)
      PROVE  /\ Closed(k, c)[l] = shabal(msgs[l])
             /\ Closed(k, c) \in [Lanes(k) -> [1 .. 8 -> Word]]
  <2>1. PICK m : m = msgs[l] /\ m \in [1 .. len -> Word]
    OBVIOUS
  <2>2. m \in Seq(Word) /\ Len(m) = len
    BY ONLY <2>1, len \in Nat, TupleIs
  <2>3. Carries(MessageStreams(k, msgs)[l], m)
    BY <2>1, <2>2, StreamsCarry
  <2>4. PICK at \in Nat : at = 32 + Len(m) /\ Reached(Width(k), c, at, MessageStreams(k, msgs))
    BY <2>2
  <2> QED BY <2>1, <2>2, <2>3, <2>4, ClosedIs
<1>2. 1 \in Lanes(k)
  BY WidthIs
<1>3. Closed(k, c) \in [Lanes(k) -> [1 .. 8 -> Word]]
  BY <1>1, <1>2
<1> QED BY <1>1, <1>3 DEF AreHashes

\* Hash gives each lane the hash of its message.
LEMMA HashIs ==
    ASSUME NEW k \in {"avx2", "sse4"}, NEW len \in Nat,
           NEW msgs \in [Lanes(k) -> [1 .. len -> Word]]
    PROVE  AreHashes(k, Hash(k, msgs), msgs)
<1>1. PICK z \in Nat : z = 0 /\ 32 + z = 32 /\ 32 + z + len = 32 + len
  OBVIOUS
<1>2. Reached(Width(k), Fresh(k), 32 + z, MessageStreams(k, msgs))
  BY <1>1, StreamsPrefixed, FreshIs
<1>3. IsChunk(k, msgs, z, msgs, len)
  BY <1>1 DEF IsChunk
<1>4. Reached(Width(k), Fed(k, Fresh(k), msgs), 32 + len, MessageStreams(k, msgs))
  BY <1>1, <1>2, <1>3, FedOn
<1> QED BY <1>4, ClosedHashes DEF Hash

\* Hash2 gives each lane the hash of its two chunks.
LEMMA Hash2Is ==
    ASSUME NEW k \in {"avx2", "sse4"}, NEW m \in Nat, NEW n \in Nat,
           NEW one \in [Lanes(k) -> [1 .. m -> Word]],
           NEW two \in [Lanes(k) -> [1 .. n -> Word]]
    PROVE  AreHashes(k, Hash2(k, one, two), [l \in Lanes(k) |-> one[l] \o two[l]])
<1> DEFINE msgs == [l \in Lanes(k) |-> one[l] \o two[l]]
<1>1. ASSUME NEW l \in Lanes(k) PROVE Joined(Word, msgs[l], one[l], m, two[l], n)
  BY ConcatFunctions
<1>2. msgs \in [Lanes(k) -> [1 .. m + n -> Word]]
  <2>1. \A l \in Lanes(k) : one[l] \o two[l] \in [1 .. m + n -> Word]
    BY <1>1 DEF Joined
  <2> QED BY <2>1, Zenon
<1>3. PICK ms : ms = msgs
  OBVIOUS
<1> HIDE DEF msgs
<1>4. PICK z \in Nat : z = 0 /\ 32 + z = 32 /\ 32 + z + m = 32 + m
  OBVIOUS
<1>5. Reached(Width(k), Fresh(k), 32 + z, MessageStreams(k, ms))
  BY <1>4, StreamsPrefixed, FreshIs
<1>6. IsChunk(k, ms, z, one, m)
  BY <1>1, <1>3, <1>4 DEF IsChunk, Joined
<1>7. Reached(Width(k), Fed(k, Fresh(k), one), 32 + m, MessageStreams(k, ms))
  BY <1>4, <1>5, <1>6, FedOn
<1>8. IsChunk(k, ms, m, two, n)
  BY <1>1, <1>3 DEF IsChunk, Joined
<1>9. PICK len \in Nat : len = m + n /\ 32 + m + n = 32 + len
  OBVIOUS
<1>10. Reached(Width(k), Fed(k, Fed(k, Fresh(k), one), two), 32 + len, MessageStreams(k, ms))
  BY <1>7, <1>8, <1>9, FedOn
<1>11. AreHashes(k, Hash2(k, one, two), ms)
  BY <1>2, <1>3, <1>9, <1>10, ClosedHashes DEF Hash2
<1> QED BY <1>3, <1>11 DEF msgs

\* A hash has eight words.
LEMMA ShabalWords ==
    ASSUME NEW len \in Nat, NEW m \in [1 .. len -> Word]
    PROVE  shabal(m) \in [1 .. 8 -> Word]
<1>1. PICK msgs : msgs = [l \in Lanes("avx2") |-> m] /\ msgs \in [Lanes("avx2") -> [1 .. len -> Word]]
  <2>1. PICK T : T = [1 .. len -> Word]
    OBVIOUS
  <2>2. [l \in Lanes("avx2") |-> m] \in [Lanes("avx2") -> T]
    BY <2>1
  <2> QED BY <2>1, <2>2
<1>2. AreHashes("avx2", Hash("avx2", msgs), msgs)
  BY <1>1, HashIs
<1>3. 1 \in Lanes("avx2")
  BY WidthIs
<1>4. PICK hs : hs = Hash("avx2", msgs)
  OBVIOUS
<1>5. hs[1] \in [1 .. 8 -> Word] /\ hs[1] = shabal(msgs[1])
  BY <1>2, <1>3, <1>4 DEF AreHashes
<1> QED BY <1>1, <1>3, <1>5

-----------------------------------------------------------------------------
(* Bytes                                                                   *)

\* A digit more.
LEMMA DigitIn ==
    ASSUME NEW M \in Nat, NEW N \in Nat, NEW a \in 0 .. M - 1, NEW b \in 0 .. N - 1
    PROVE  a * N + b \in 0 .. M * N - 1
<1>1. (M - 1 - a) * N >= 0 /\ a * N >= 0
  OBVIOUS
<1>2. (M - 1 - a) * N = M * N - N - a * N
  OBVIOUS
<1>3. PICK x \in Int, y \in Int : x = a * N /\ y = M * N
  OBVIOUS
<1>4. x >= 0 /\ y - N - x >= 0
  BY <1>1, <1>2, <1>3
<1>5. x + b \in 0 .. y - 1
  BY <1>4
<1> QED BY <1>3, <1>5

\* The bytes of a word: digits to the base of 2^ByteBits.
LEMMA ByteSize ==
    /\ 2^ByteBits \in Nat /\ 2^ByteBits > 0
    /\ 2^(2 * ByteBits) = 2^ByteBits * 2^ByteBits
    /\ 2^(3 * ByteBits) = 2^ByteBits * 2^ByteBits * 2^ByteBits
    /\ 2^WordBits = 2^ByteBits * 2^ByteBits * 2^ByteBits * 2^ByteBits
<1>1. PICK b \in Nat : b = ByteBits /\ b \in 0 .. WordBits /\ 2 * b \in 0 .. WordBits
                       /\ 3 * b \in 0 .. WordBits /\ WordBits = 4 * b
  BY BitsOfWord
<1>2. 2^b \in Nat /\ 2^b > 0 /\ 2^(b + b) = 2^b * 2^b
  BY <1>1, Powers
<1>3. 2^(2 * b) = 2^b * 2^b
  <2>1. 2 * b = b + b
    OBVIOUS
  <2> QED BY <1>2, <2>1
<1>4. 2^(3 * b) = 2^b * 2^b * 2^b
  <2>1. 2^(2 * b + b) = 2^(2 * b) * 2^b
    BY <1>1, Powers
  <2>2. 3 * b = 2 * b + b
    OBVIOUS
  <2> QED BY <1>3, <2>1, <2>2
<1>5. 2^(4 * b) = 2^b * 2^b * 2^b * 2^b
  <2>1. 2^(3 * b + b) = 2^(3 * b) * 2^b
    BY <1>1, Powers
  <2>2. 4 * b = 3 * b + b
    OBVIOUS
  <2> QED BY <1>4, <2>1, <2>2
<1> QED BY <1>1, <1>2, <1>3, <1>4, <1>5

\* A byte is a digit.
LEMMA ByteIn ==
    ASSUME NEW x \in Nat, NEW i \in 0 .. 3
    PROVE  Byte(x, i) \in 0 .. 2^ByteBits - 1
<1>1. PICK N \in Nat : N = 2^ByteBits /\ N > 0
  BY ByteSize
<1>2. PICK d \in Int : d = x \div 2^(i * ByteBits)
  <2>1. i * ByteBits \in 0 .. WordBits
    <3>1. i = 0 \/ i = 1 \/ i = 2 \/ i = 3
      OBVIOUS
    <3> QED BY <3>1, BitsOfWord
  <2>2. 2^(i * ByteBits) \in Nat /\ 2^(i * ByteBits) > 0
    BY <2>1, PowerSplit
  <2> QED BY <2>2
<1>3. d % N \in 0 .. N - 1
  BY <1>1
<1> QED BY <1>1, <1>2, <1>3 DEF Byte

\* The bytes in reverse, as digits.
LEMMA ReversedIs ==
    ASSUME NEW x \in Nat, NEW N, N = 2^ByteBits, NEW b0, b0 = Byte(x, 0), NEW b1, b1 = Byte(x, 1),
           NEW b2, b2 = Byte(x, 2), NEW b3, b3 = Byte(x, 3)
    PROVE  /\ Reversed(x) = ((b0 * N + b1) * N + b2) * N + b3
           /\ N \in Nat /\ N > 0 /\ {b0, b1, b2, b3} \subseteq 0 .. N - 1
           /\ Reversed(x) \in Word
<1>1. N \in Nat /\ N > 0
  BY ByteSize
<1>2. b0 \in 0 .. N - 1 /\ b1 \in 0 .. N - 1 /\ b2 \in 0 .. N - 1 /\ b3 \in 0 .. N - 1
  BY ByteIn
<1>3. Reversed(x) = b0 * (N * N * N) + b1 * (N * N) + b2 * N + b3
  BY ByteSize DEF Reversed
<1>4. ((b0 * N + b1) * N + b2) * N + b3 = b0 * (N * N * N) + b1 * (N * N) + b2 * N + b3
  BY ONLY <1>1, <1>2
<1>5. PICK M2 \in Nat, M3 \in Nat, M4 \in Nat : M2 = N * N /\ M3 = M2 * N /\ M4 = M3 * N
  BY <1>1
<1>6. PICK h2 : h2 = b0 * N + b1 /\ h2 \in 0 .. M2 - 1
  BY <1>1, <1>2, <1>5, DigitIn
<1>7. PICK h3 : h3 = h2 * N + b2 /\ h3 \in 0 .. M3 - 1
  BY <1>1, <1>2, <1>5, <1>6, DigitIn
<1>8. h3 * N + b3 \in 0 .. M4 - 1
  BY <1>1, <1>2, <1>5, <1>7, DigitIn
<1>9. Word = 0 .. M4 - 1
  BY <1>5, ByteSize DEF Word
<1>10. Reversed(x) \in Word
  BY <1>3, <1>4, <1>6, <1>7, <1>8, <1>9
<1> QED BY <1>1, <1>2, <1>3, <1>4, <1>10

\* The number of scoops.
LEMMA ScoopsNumber ==
    /\ NUM_SCOOPS \in Nat /\ NUM_SCOOPS > 0
    /\ 2^(ScoopBits - ByteBits) \in Nat /\ 2^(ScoopBits - ByteBits) > 0
    /\ NUM_SCOOPS = 2^ByteBits * 2^(ScoopBits - ByteBits)
    /\ \E L \in Nat : 2^ByteBits * 2^ByteBits = NUM_SCOOPS * L
<1>1. PICK b \in Nat, s \in Nat :
          b = ByteBits /\ s = ScoopBits /\ s \in b + 1 .. 2 * b /\ WordBits = 4 * b
  BY ScoopAssumption, BitsOfWord
<1>2. s \in 0 .. WordBits /\ s - b \in 0 .. WordBits /\ 2 * b - s \in 0 .. WordBits /\ b \in 0 .. WordBits
  BY <1>1
<1>3. 2^s \in Nat /\ 2^s > 0
  BY <1>2, PowerSplit
<1>4. 2^(s - b) \in Nat /\ 2^(s - b) > 0
  BY <1>2, PowerSplit
<1>5. 2^(b + (s - b)) = 2^b * 2^(s - b)
  BY <1>2, Powers
<1>6. b + (s - b) = s /\ s + (2 * b - s) = 2 * b
  BY <1>1
<1>7. 2^(2 * b - s) \in Nat
  BY <1>2, PowerSplit
<1>8. 2^(s + (2 * b - s)) = 2^s * 2^(2 * b - s)
  BY <1>2, Powers
<1>9. 2^(2 * b) = 2^b * 2^b
  BY <1>1, ByteSize
<1>10. 2^s = 2^b * 2^(s - b)
  BY <1>5, <1>6
<1>11. 2^b * 2^b = 2^s * 2^(2 * b - s)
  BY <1>6, <1>8, <1>9
<1>12. NUM_SCOOPS = 2^s
  BY <1>1 DEF NUM_SCOOPS
<1>13. \E L \in Nat : 2^b * 2^b = NUM_SCOOPS * L
  BY <1>7, <1>11, <1>12
<1> QED BY <1>1, <1>3, <1>4, <1>10, <1>12, <1>13

\* The mask of calculate_scoop, taken on two bytes, is a remainder of the whole
\* number.
LEMMA ScoopIs ==
    ASSUME NEW x \in Nat
    PROVE  /\ 2^ByteBits * (Byte(x, 2) % 2^(ScoopBits - ByteBits)) + Byte(x, 3)
                = Reversed(x) % NUM_SCOOPS
           /\ Reversed(x) % NUM_SCOOPS \in 0 .. NUM_SCOOPS - 1
<1>1. PICK N, b0, b1, b2, b3 :
          /\ N = 2^ByteBits /\ b0 = Byte(x, 0) /\ b1 = Byte(x, 1) /\ b2 = Byte(x, 2)
          /\ b3 = Byte(x, 3)
  OBVIOUS
<1>2. /\ Reversed(x) = ((b0 * N + b1) * N + b2) * N + b3
      /\ N \in Nat /\ N > 0 /\ b0 \in 0 .. N - 1 /\ b1 \in 0 .. N - 1
      /\ b2 \in 0 .. N - 1 /\ b3 \in 0 .. N - 1
  BY <1>1, ReversedIs
<1>3. PICK K \in Nat, S \in Nat, L \in Nat :
          /\ K = 2^(ScoopBits - ByteBits) /\ K > 0 /\ S = NUM_SCOOPS /\ S > 0
          /\ S = N * K /\ N * N = S * L
  BY <1>1, ScoopsNumber
<1>4. PICK q \in Int, r \in 0 .. K - 1 : r = b2 % K /\ q = b2 \div K /\ b2 = K * q + r
  <2>1. b2 \in Int /\ K \in Nat /\ K > 0
    BY <1>2, <1>3
  <2>2. b2 % K \in 0 .. K - 1 /\ b2 \div K \in Int /\ b2 = K * (b2 \div K) + (b2 % K)
    BY ONLY <2>1, ModDef
  <2> QED BY <2>2
<1>5. r * N + b3 \in 0 .. K * N - 1
  BY <1>2, <1>3, <1>4, DigitIn
<1>6. PICK c \in Int : c = b0 * N + b1
  BY <1>2
<1>7. (c * N + b2) * N + b3 = S * (L * c + q) + (r * N + b3)
  <2>1. (c * N + b2) * N + b3 = c * (N * N) + b2 * N + b3
    BY ONLY <1>2, <1>6
  <2>2. c * (N * N) = S * (L * c)
    <3>1. c * (N * N) = c * (S * L)
      BY <1>3
    <3>2. c * (S * L) = S * (L * c)
      BY ONLY c \in Int, S \in Nat, L \in Nat
    <3> QED BY <3>1, <3>2
  <2>3. b2 * N = S * q + r * N
    <3>1. (K * q + r) * N = (N * K) * q + r * N
      BY ONLY <1>2, <1>3, <1>4
    <3> QED BY <1>3, <1>4, <3>1
  <2>4. S * (L * c) + S * q = S * (L * c + q)
    BY ONLY c \in Int, S \in Nat, L \in Nat, q \in Int
  <2>5. PICK t \in Int, u \in Int, w \in Int : t = S * (L * c) /\ u = S * q /\ w = r * N
    <3>1. \A x1 \in Int, x2 \in Int : x1 * x2 \in Int
      OBVIOUS
    <3>2. S \in Int /\ L * c \in Int /\ q \in Int /\ r \in Int /\ N \in Int
      BY <1>2, <1>3, <1>4, <3>1
    <3> QED BY ONLY <3>1, <3>2
  <2>6. c * (N * N) + b2 * N + b3 = (t + u) + (w + b3)
    BY <1>2, <2>2, <2>3, <2>5
  <2> QED BY <2>1, <2>4, <2>5, <2>6
<1>8. PICK v \in Int, k \in Int : v = Reversed(x) /\ k = L * c + q /\ v = S * k + (r * N + b3)
  BY <1>2, <1>4, <1>6, <1>7
<1>9. PICK e : e = r * N + b3 /\ e \in 0 .. S - 1
  <2>1. K * N = S
    BY <1>2, <1>3
  <2> QED BY <1>5, <2>1
<1>10. v % S = e
  <2>1. v = S * k + e
    BY <1>8, <1>9
  <2> QED BY ONLY <2>1, <1>3, <1>9, S \in Nat, v \in Int, k \in Int, ModUnique
<1>11. N * (b2 % K) + b3 = e
  <2>1. N * r = r * N
    BY ONLY <1>2, r \in 0 .. K - 1, K \in Nat
  <2> QED BY <1>4, <1>9, <2>1
<1> QED BY <1>1, <1>3, <1>8, <1>9, <1>10, <1>11

-----------------------------------------------------------------------------
(* memcpy to gendata                                                       *)

\* mem2 is mem with words from the place behind the first `at' on.
Overwritten(mem2, mem, at, words, m, n) ==
    /\ mem2 \in [1 .. n -> Word]
    /\ \A i \in 1 .. at : mem2[i] = mem[i]
    /\ \A i \in 1 .. m : mem2[at + i] = words[i]
    /\ \A i \in at + m + 1 .. n : mem2[i] = mem[i]

\* The words from the place behind the first p on, to a place in range.
LEMMA CutIs ==
    ASSUME NEW n \in Nat, NEW s \in [1 .. n -> Word], NEW p \in Nat, NEW m \in Nat, p + m <= n
    PROVE  /\ Cut(Word, SubSeq(s, p + 1, p + m), s, p, m)
           /\ SubSeq(s, p + 1, p + m) \in [1 .. m -> Word]
<1>1. \A i \in 1 .. m : p + i \in 1 .. n
  OBVIOUS
<1>2. \A i \in 1 .. m : s[p + i] \in Word
  BY <1>1
<1>3. p \in Int
  OBVIOUS
<1>4. Cut(Word, SubSeq(s, p + 1, p + m), s, p, m)
  BY <1>2, <1>3, SubSeqIs
<1> QED BY <1>4 DEF Cut

\* memcpy changes the words at its destination and no others.
LEMMA StoredIs ==
    ASSUME NEW n \in Nat, NEW mem \in [1 .. n -> Word], NEW m \in Nat,
           NEW words \in [1 .. m -> Word], NEW at \in Nat, at + m <= n
    PROVE  Overwritten(Stored(mem, at, words), mem, at, words, m, n)
<1>1. Len(words) = m /\ Len(mem) = n
  BY TupleIs
<1>2. PICK z \in Nat, last \in Nat, rest \in Nat :
          /\ z = 0 /\ z + 1 = 1 /\ z + at = at /\ last = at + m /\ rest = n - last
          /\ last + rest = n
  <2>1. 0 \in Nat /\ at + m \in Nat /\ n - (at + m) \in Nat
    OBVIOUS
  <2> QED BY <2>1
<1>3. PICK a : a = SubSeq(mem, z + 1, z + at)
  OBVIOUS
<1>4. PICK c : c = SubSeq(mem, last + 1, last + rest)
  OBVIOUS
<1>5. Cut(Word, a, mem, z, at) /\ a \in [1 .. at -> Word]
  BY <1>2, <1>3, CutIs
<1>6. Cut(Word, c, mem, last, rest) /\ c \in [1 .. rest -> Word]
  BY <1>2, <1>4, CutIs
<1>7. PICK b : b = a \o words
  OBVIOUS
<1>8. Joined(Word, b, a, at, words, m)
  BY <1>5, <1>7, ConcatFunctions
<1>9. b \in [1 .. last -> Word]
  BY <1>2, <1>8 DEF Joined
<1>10. PICK r : r = b \o c
  OBVIOUS
<1>11. Joined(Word, r, b, last, c, rest)
  BY <1>6, <1>9, <1>10, ConcatFunctions
<1>12. r = Stored(mem, at, words)
  BY <1>1, <1>2, <1>3, <1>4, <1>7, <1>10 DEF Stored
<1>13. r \in [1 .. n -> Word]
  BY <1>2, <1>11 DEF Joined
<1>14. \A i \in 1 .. at : r[i] = mem[i]
  <2>1. ASSUME NEW i \in 1 .. at PROVE r[i] = mem[i]
    <3>1. i \in 1 .. last /\ z + i = i
      BY <1>2
    <3>2. r[i] = b[i]
      BY <1>11, <3>1 DEF Joined
    <3>3. b[i] = a[i]
      BY <1>8 DEF Joined
    <3>4. a[i] = mem[z + i]
      BY <1>5 DEF Cut
    <3> QED BY <3>1, <3>2, <3>3, <3>4
  <2> QED BY <2>1
<1>15. \A i \in 1 .. m : r[at + i] = words[i]
  <2>1. ASSUME NEW i \in 1 .. m PROVE r[at + i] = words[i]
    <3>1. at + i \in 1 .. last
      BY <1>2
    <3>2. r[at + i] = b[at + i]
      BY <1>11, <3>1 DEF Joined
    <3>3. b[at + i] = words[i]
      BY <1>8 DEF Joined
    <3> QED BY <3>2, <3>3
  <2> QED BY <2>1
<1>16. \A i \in at + m + 1 .. n : r[i] = mem[i]
  <2>1. ASSUME NEW i \in at + m + 1 .. n PROVE r[i] = mem[i]
    <3>1. PICK j \in 1 .. rest : last + j = i
      <4>1. i - last \in 1 .. rest /\ last + (i - last) = i
        BY <1>2
      <4> QED BY <4>1
    <3>2. r[last + j] = c[j]
      BY <1>11 DEF Joined
    <3>3. c[j] = mem[last + j]
      BY <1>6 DEF Cut
    <3> QED BY <3>1, <3>2, <3>3
  <2> QED BY <2>1
<1> QED BY <1>12, <1>13, <1>14, <1>15, <1>16 DEF Overwritten

\* What a lane is called with.
IsRequest(r) ==
    /\ r.addr \in [1 .. 2 -> Word] /\ r.nonce \in [1 .. 2 -> Word]
    /\ r.gensig \in [1 .. 8 -> Word] /\ r.scoop_nr \in 0 .. NUM_SCOOPS - 1

\* The length of gendata, and the words hashed first.
PlotWords == NonceWords + 4
Seed(r) == BigEndian(r.addr) \o BigEndian(r.nonce)

\* A number in two words, highest byte first.
LEMMA BigEndianWords ==
    ASSUME NEW x \in [1 .. 2 -> Word]
    PROVE  BigEndian(x) \in [1 .. 2 -> Word]
<1>1. x[1] \in Nat /\ x[2] \in Nat
  <2>1. x[1] \in Word /\ x[2] \in Word
    OBVIOUS
  <2> QED BY <2>1, WordInt
<1>2. Reversed(x[1]) \in Word /\ Reversed(x[2]) \in Word
  BY <1>1, ReversedIs
<1>3. PICK a \in Word, b \in Word : a = Reversed(x[2]) /\ b = Reversed(x[1])
  BY <1>2
<1>4. <<a, b>> \in [1 .. 2 -> Word]
  OBVIOUS
<1> QED BY <1>3, <1>4 DEF BigEndian

\* A nonce has as many words as its scoops.
LEMMA NonceSize ==
    /\ NonceWords \in Nat /\ NonceWords = 16 * NUM_SCOOPS /\ NonceWords > 0
    /\ NonceWords \div HashWords = 2 * NUM_SCOOPS
    /\ PlotWords \in Nat /\ PlotWords = NonceWords + 4
<1>1. PICK s \in Nat : s = NUM_SCOOPS /\ s > 0
  BY ScoopsNumber
<1>2. NonceWords = s * (2 * 8)
  BY <1>1 DEF NonceWords, ScoopWords, HashWords
<1>3. s * (2 * 8) = 16 * s /\ (16 * s) \div 8 = 2 * s
  OBVIOUS
<1>4. NonceWords = 16 * s
  BY <1>2, <1>3
<1>5. PICK n \in Nat : n = NonceWords /\ n = 16 * s /\ n > 0 /\ n \div 8 = 2 * s
  BY <1>1, <1>3, <1>4
<1> QED BY <1>1, <1>5 DEF PlotWords, HashWords

\* SET_NONCE writes two words of the seed behind the scoops.
LEMMA SetNonceIs ==
    ASSUME NEW mem \in [1 .. PlotWords -> Word], NEW x \in [1 .. 2 -> Word], NEW off \in {0, 2}
    PROVE  Overwritten(SET_NONCE(mem, x, off), mem, NonceWords + off, BigEndian(x), 2, PlotWords)
<1>1. PICK w : w = BigEndian(x) /\ w \in [1 .. 2 -> Word]
  BY BigEndianWords
<1>2. PICK n \in Nat, at \in Nat : n = PlotWords /\ at = NonceWords + off /\ at + 2 <= n
  BY NonceSize
<1>3. 2 \in Nat /\ mem \in [1 .. n -> Word]
  BY <1>2
<1>4. Overwritten(Stored(mem, at, w), mem, at, w, 2, n)
  BY ONLY <1>1, <1>2, <1>3, n \in Nat, at \in Nat, StoredIs
<1> QED BY <1>1, <1>2, <1>4 DEF SET_NONCE

\* The seed: the account and the nonce of the request.
LEMMA SeedIs ==
    ASSUME NEW r, IsRequest(r)
    PROVE  /\ Seed(r) \in [1 .. 4 -> Word]
           /\ Joined(Word, Seed(r), BigEndian(r.addr), 2, BigEndian(r.nonce), 2)
<1>1. BigEndian(r.addr) \in [1 .. 2 -> Word] /\ BigEndian(r.nonce) \in [1 .. 2 -> Word]
  BY BigEndianWords DEF IsRequest
<1>2. PICK a, b : a = BigEndian(r.addr) /\ b = BigEndian(r.nonce)
  OBVIOUS
<1>3. 2 \in Nat /\ a \in [1 .. 2 -> Word] /\ b \in [1 .. 2 -> Word]
  BY <1>1, <1>2
<1>4. Joined(Word, a \o b, a, 2, b, 2)
  BY ONLY <1>3, ConcatFunctions
<1>5. a \o b \in [1 .. 4 -> Word]
  BY <1>4 DEF Joined
<1> QED BY <1>2, <1>4, <1>5 DEF Seed

\* Before the loop the seed stands behind the scoops.
LEMMA SeededIs ==
    ASSUME NEW r, IsRequest(r)
    PROVE  Seeded(r) = [i \in 1 .. PlotWords |->
                            IF i > NonceWords THEN Seed(r)[i - NonceWords] ELSE 0]
<1>0. r.addr \in [1 .. 2 -> Word] /\ r.nonce \in [1 .. 2 -> Word]
  BY DEF IsRequest
<1>1. PICK zero : zero = [i \in 1 .. PlotWords |-> 0] /\ zero \in [1 .. PlotWords -> Word]
  <2>1. \A i \in 1 .. PlotWords : 0 \in Word
    BY WordSize
  <2>2. [i \in 1 .. PlotWords |-> 0] \in [1 .. PlotWords -> Word]
    BY <2>1, Zenon
  <2> QED BY <2>2
<1>2. PICK n \in Nat, p \in Nat : n = NonceWords /\ p = PlotWords /\ p = n + 4
  BY NonceSize
<1>3. Tuple([i \in 1 .. NonceWords + 4 |-> 0]) = zero
  <2>1. p \in Nat /\ zero \in [1 .. p -> Word]
    BY <1>1, <1>2
  <2>2. Tuple(zero) = zero
    BY ONLY <2>1, TupleIs
  <2> QED BY <1>1, <2>2 DEF PlotWords
<1>4. PICK one : one = SET_NONCE(zero, r.addr, 0)
  OBVIOUS
<1>5. PICK two : two = SET_NONCE(one, r.nonce, 2)
  OBVIOUS
<1>6. Overwritten(one, zero, n + 0, BigEndian(r.addr), 2, p)
  BY <1>0, <1>1, <1>2, <1>4, SetNonceIs
<1>7. one \in [1 .. PlotWords -> Word]
  BY <1>2, <1>6 DEF Overwritten
<1>8. Overwritten(two, one, n + 2, BigEndian(r.nonce), 2, p)
  BY <1>0, <1>2, <1>5, <1>7, SetNonceIs
<1>9. Seeded(r) = two
  BY <1>3, <1>4, <1>5 DEF Seeded
<1>10. PICK a, b, s : a = BigEndian(r.addr) /\ b = BigEndian(r.nonce) /\ s = Seed(r)
  OBVIOUS
<1>11. s[1] = a[1] /\ s[2] = a[2] /\ s[3] = b[1] /\ s[4] = b[2]
  <2>1. Joined(Word, s, a, 2, b, 2)
    BY <1>10, SeedIs
  <2>2. s[1] = a[1] /\ s[2] = a[2] /\ s[2 + 1] = b[1] /\ s[2 + 2] = b[2]
    BY <2>1 DEF Joined
  <2>3. 2 + 1 = 3 /\ 2 + 2 = 4
    OBVIOUS
  <2> QED BY <2>2, <2>3
<1>12. \A i \in 1 .. n : two[i] = 0
  <2>1. \A i \in 1 .. n : i \in 1 .. n + 0 /\ i \in 1 .. n + 2 /\ i \in 1 .. p
    BY <1>2
  <2>2. \A i \in 1 .. n : two[i] = one[i]
    BY <1>8, <2>1 DEF Overwritten
  <2>3. \A i \in 1 .. n : one[i] = zero[i]
    BY <1>6, <2>1 DEF Overwritten
  <2> QED BY <1>1, <1>2, <2>1, <2>2, <2>3
<1>13. two[n + 1] = s[1] /\ two[n + 2] = s[2]
  <2>1. n + 1 \in 1 .. n + 2 /\ n + 2 \in 1 .. n + 2 /\ n + 0 = n
    BY <1>2
  <2>2. two[n + 1] = one[n + 1] /\ two[n + 2] = one[n + 2]
    BY <1>8, <2>1 DEF Overwritten
  <2>3. one[n + 1] = a[1] /\ one[n + 2] = a[2]
    BY <1>6, <1>10, <2>1 DEF Overwritten
  <2> QED BY <1>11, <2>2, <2>3
<1>14. two[n + 3] = s[3] /\ two[n + 4] = s[4]
  <2>1. (n + 2) + 1 = n + 3 /\ (n + 2) + 2 = n + 4
    OBVIOUS
  <2>2. two[(n + 2) + 1] = b[1] /\ two[(n + 2) + 2] = b[2]
    BY <1>8, <1>10 DEF Overwritten
  <2> QED BY <1>11, <2>1, <2>2
<1>15. \A i \in 1 .. p : two[i] = IF i > n THEN s[i - n] ELSE 0
  <2>1. \A i \in 1 .. p : i \in 1 .. n \/ i = n + 1 \/ i = n + 2 \/ i = n + 3 \/ i = n + 4
    BY <1>2
  <2>2. \A i \in 1 .. n : ~(i > n)
    OBVIOUS
  <2>3. /\ n + 1 > n /\ n + 1 - n = 1 /\ n + 2 > n /\ n + 2 - n = 2
        /\ n + 3 > n /\ n + 3 - n = 3 /\ n + 4 > n /\ n + 4 - n = 4
    OBVIOUS
  <2> QED BY <1>12, <1>13, <1>14, <2>1, <2>2, <2>3
<1>16. two \in [1 .. p -> Word]
  BY <1>8 DEF Overwritten
<1>17. two = [i \in 1 .. p |-> IF i > n THEN s[i - n] ELSE 0]
  BY <1>15, <1>16
<1> QED BY <1>2, <1>9, <1>10, <1>17

-----------------------------------------------------------------------------
(* The plot, built from its end                                            *)

\* One hash more in front.
Capped(n) == IF n < HashCap THEN n ELSE HashCap
Longer(t) == shabal(SubSeq(t, 1, Capped(Len(t)))) \o t
LongerStep(t, k) == Strictly(LAMBDA u : Longer(u), t)
LongerSteps(r, g) ==
    g = [k \in 0 .. 2 * NUM_SCOOPS |->
            IF k = 0 THEN Seed(r) ELSE LongerStep(g[k - 1], k)]

\* The words there are after each hash.
Grown(f, r) ==
    /\ f = [k \in 0 .. 2 * NUM_SCOOPS |-> f[k]] /\ f[0] = Seed(r)
    /\ \A k \in 1 .. 2 * NUM_SCOOPS : f[k] = Longer(f[k - 1])
    /\ \A k \in 0 .. 2 * NUM_SCOOPS : f[k] \in [1 .. 8 * k + 4 -> Word]

\* What is hashed is no longer than the cap.
LEMMA CappedIs ==
    ASSUME NEW n \in Nat
    PROVE  Capped(n) \in Nat /\ Capped(n) <= n
BY ScoopAssumption DEF Capped

\* A hash puts eight words in front.
LEMMA LongerIs ==
    ASSUME NEW n \in Nat, NEW t \in [1 .. n -> Word]
    PROVE  /\ Longer(t) \in [1 .. n + 8 -> Word]
           /\ Longer(t) = shabal(SubSeq(t, 1, Capped(n))) \o t
           /\ \A i \in 1 .. 8 : Longer(t)[i] = shabal(SubSeq(t, 1, Capped(n)))[i]
           /\ \A i \in 1 .. n : Longer(t)[8 + i] = t[i]
<1>1. Len(t) = n
  BY TupleIs
<1>2. PICK c \in Nat : c = Capped(n) /\ c <= n
  BY CappedIs
<1>3. PICK z \in Nat : z = 0 /\ z + 1 = 1 /\ z + c = c /\ z + c <= n
  BY <1>2
<1>4. SubSeq(t, z + 1, z + c) \in [1 .. c -> Word]
  BY <1>3, CutIs
<1>5. PICK h : h = shabal(SubSeq(t, 1, c)) /\ h \in [1 .. 8 -> Word]
  BY <1>3, <1>4, ShabalWords
<1>6. PICK u : u = h \o t
  OBVIOUS
<1>7. Joined(Word, u, h, 8, t, n)
  <2>1. 8 \in Nat
    OBVIOUS
  <2> QED BY ONLY <1>5, <1>6, <2>1, n \in Nat, t \in [1 .. n -> Word], ConcatFunctions
<1>8. u = Longer(t) /\ u = shabal(SubSeq(t, 1, Capped(n))) \o t
  BY <1>1, <1>2, <1>5, <1>6 DEF Longer
<1>9. u \in [1 .. n + 8 -> Word]
  <2>1. 8 + n = n + 8
    OBVIOUS
  <2> QED BY <1>7, <2>1 DEF Joined
<1>10. \A i \in 1 .. 8 : u[i] = h[i]
  BY <1>7 DEF Joined
<1>11. \A i \in 1 .. n : u[8 + i] = t[i]
  BY <1>7 DEF Joined
<1> QED BY <1>2, <1>5, <1>8, <1>9, <1>10, <1>11

\* The plot can be built, step by step.
LEMMA GrownExists ==
    ASSUME NEW r, IsRequest(r)
    PROVE  \E f : Grown(f, r)
<1> DEFINE e == 2 * NUM_SCOOPS
           T == [k \in 0 .. e |-> [1 .. 8 * k + 4 -> Word]]
           S == Seq(Word)
           G == [k \in 1 .. e |-> [t \in S |-> Longer(t)]]
<1>1. e \in Nat
  BY ScoopsNumber
<1>2. ASSUME NEW t \in S PROVE Longer(t) \in S
  <2>1. PICK n \in Nat : t \in [1 .. n -> Word]
    BY SeqFunctions
  <2>2. Longer(t) \in [1 .. n + 8 -> Word] /\ n + 8 \in Nat
    BY <2>1, LongerIs
  <2> QED BY <2>2, TupleIs
<1>3. G \in [1 .. e -> [S -> S]]
  <2>1. [t \in S |-> Longer(t)] \in [S -> S]
    BY <1>2, Zenon
  <2>2. \A k \in 1 .. e : [t \in S |-> Longer(t)] \in [S -> S]
    BY <2>1
  <2>3. PICK X, Y : X = [t \in S |-> Longer(t)] /\ Y = [S -> S] /\ X \in Y
    BY <2>1
  <2>4. [k \in 1 .. e |-> X] \in [1 .. e -> Y]
    BY <2>3
  <2> QED BY <2>3, <2>4
<1>4. T \in [0 .. e -> SUBSET S]
  <2>1. \A k \in 0 .. e : [1 .. 8 * k + 4 -> Word] \in SUBSET S
    <3>1. ASSUME NEW k \in 0 .. e, NEW t \in [1 .. 8 * k + 4 -> Word] PROVE t \in S
      <4>1. 8 * k + 4 \in Nat
        BY <1>1
      <4> QED BY <4>1, TupleIs
    <3> QED BY <3>1
  <2> QED BY <2>1, Zenon
<1>5. Seed(r) \in T[0]
  <2>1. PICK z : z = 0 /\ z \in 0 .. e /\ 8 * z + 4 = 4
    BY <1>1
  <2>2. T[z] = [1 .. 8 * z + 4 -> Word]
    BY <2>1
  <2> QED BY <2>1, <2>2, SeedIs
<1>6. ASSUME NEW k \in 1 .. e, NEW t \in T[k - 1] PROVE G[k][t] \in T[k]
  <2>1. k - 1 \in 0 .. e /\ k \in 0 .. e
    BY <1>1
  <2>2. PICK n \in Nat : n = 8 * (k - 1) + 4 /\ n + 8 = 8 * k + 4
    BY <1>1
  <2>3. T[k - 1] = [1 .. 8 * (k - 1) + 4 -> Word] /\ T[k] = [1 .. 8 * k + 4 -> Word]
    BY <2>1
  <2>4. t \in [1 .. n -> Word]
    BY <2>2, <2>3
  <2>5. Longer(t) \in [1 .. n + 8 -> Word]
    BY <2>4, LongerIs
  <2>6. t \in S
    BY <2>4, TupleIs
  <2>7. G[k][t] = Longer(t)
    BY <2>6
  <2> QED BY <2>2, <2>3, <2>5, <2>7
<1>7. PICK TT, GG, SS : TT = T /\ GG = G /\ SS = S
  OBVIOUS
<1>8. Stepping(e, SS, TT, Seed(r), GG)
  BY <1>1, <1>3, <1>4, <1>5, <1>6, <1>7 DEF Stepping
<1>9. PICK f : Run(f, e, SS, TT, Seed(r), GG)
  BY <1>8, RunExists
<1>10. f \in [0 .. e -> S] /\ f[0] = Seed(r)
       /\ \A k \in 1 .. e : f[k] = GG[k][f[k - 1]] /\ f[k] \in TT[k]
  BY <1>7, <1>9 DEF Run
<1>11. \A k \in 0 .. e : f[k] \in [1 .. 8 * k + 4 -> Word]
  <2>1. ASSUME NEW k \in 0 .. e PROVE f[k] \in T[k]
    <3>1. k = 0 \/ k \in 1 .. e
      OBVIOUS
    <3> QED BY <1>5, <1>7, <1>10, <3>1
  <2>2. \A k \in 0 .. e : T[k] = [1 .. 8 * k + 4 -> Word]
    OBVIOUS
  <2> QED BY <2>1, <2>2
<1>12. \A k \in 1 .. e : f[k] = Longer(f[k - 1])
  <2>1. ASSUME NEW k \in 1 .. e PROVE f[k] = Longer(f[k - 1])
    <3>1. k - 1 \in 0 .. e
      BY <1>1
    <3>2. f[k - 1] \in S
      BY <1>10, <3>1
    <3>3. G[k][f[k - 1]] = Longer(f[k - 1])
      BY <3>2
    <3> QED BY <1>7, <1>10, <3>3
  <2> QED BY <2>1
<1>13. f = [k \in 0 .. e |-> f[k]]
  BY <1>10
<1> QED BY <1>10, <1>11, <1>12, <1>13 DEF Grown

\* A plot that was built, however it is presented, is what the definition says.
LEMMA LongerUnfold ==
    ASSUME NEW r, NEW f, Grown(f, r)
    PROVE  (CHOOSE g : LongerSteps(r, g))[2 * NUM_SCOOPS] = f[2 * NUM_SCOOPS]
<1>1. PICK e \in Nat : e = 2 * NUM_SCOOPS
  BY ScoopsNumber
<1>2. f = [k \in 0 .. e |-> f[k]] /\ f[0] = Seed(r) /\ \A k \in 1 .. e : f[k] = Longer(f[k - 1])
  BY <1>1 DEF Grown
<1>3. \A t, k : LongerStep(t, k) = Longer(t)
  BY DEF Strictly, LongerStep
<1>4. \A g : LongerSteps(r, g) <=>
                 g = [k \in 0 .. e |-> IF k = 0 THEN Seed(r) ELSE Longer(g[k - 1])]
  BY <1>1, <1>3 DEF LongerSteps
<1>5. LongerSteps(r, f)
  <2>1. \A k \in 0 .. e : f[k] = IF k = 0 THEN Seed(r) ELSE Longer(f[k - 1])
    <3>1. \A k \in 0 .. e : k = 0 \/ (k \in 1 .. e /\ k # 0)
      OBVIOUS
    <3> QED BY ONLY <1>2, <3>1
  <2> QED BY <1>2, <1>4, <2>1
<1>6. PICK h : h = (CHOOSE g : LongerSteps(r, g)) /\ LongerSteps(r, h)
  BY <1>5
<1>7. h[0] = Seed(r) /\ \A k \in 1 .. e : h[k] = Longer(h[k - 1])
  <2>1. \A k \in 0 .. e : h[k] = IF k = 0 THEN Seed(r) ELSE Longer(h[k - 1])
    BY <1>4, <1>6
  <2>2. 0 \in 0 .. e /\ \A k \in 1 .. e : k \in 0 .. e /\ k # 0
    OBVIOUS
  <2> QED BY <2>1, <2>2
<1>8. \A k \in 0 .. e : f[k] = h[k]
  <2>1. \A k \in 1 .. e : f[k - 1] = h[k - 1] => f[k] = h[k]
    BY <1>2, <1>7
  <2>2. f[0] = h[0]
    BY <1>2, <1>7
  <2> QED BY ONLY <2>1, <2>2, e \in Nat, RunsAgree
<1>9. e \in 0 .. e
  OBVIOUS
<1> QED BY <1>1, <1>6, <1>8, <1>9

\* gendata of a lane after k hashes.
Partial(f, k) ==
    [j \in 1 .. PlotWords |-> IF j > NonceWords - 8 * k THEN f[k][j - (NonceWords - 8 * k)]
                              ELSE 0]

\* Where the k-th hash reads, and how much.
LEMMA RoundPlace ==
    ASSUME NEW k \in 1 .. 2 * NUM_SCOOPS
    PROVE  \E i \in Nat, n \in Nat :
              /\ i = NonceWords - 8 * (k - 1) /\ n = 8 * (k - 1) + 4 /\ n + 8 = 8 * k + 4
              /\ i + n = PlotWords /\ i >= 8 /\ i - 8 = NonceWords - 8 * k /\ i - 8 \in Nat
              /\ i <= NonceWords
<1>1. PICK s \in Nat : s = NUM_SCOOPS
  BY ScoopsNumber
<1>2. NonceWords = 16 * s /\ PlotWords = 16 * s + 4
  BY <1>1, NonceSize
<1>3. k \in Int /\ k >= 1 /\ k <= 2 * s
  BY <1>1
<1>4. PICK i \in Int, n \in Int : i = 16 * s - 8 * (k - 1) /\ n = 8 * (k - 1) + 4
  BY <1>3
<1>5. /\ i \in Nat /\ n \in Nat /\ n + 8 = 8 * k + 4 /\ i + n = 16 * s + 4 /\ i >= 8
      /\ i - 8 = 16 * s - 8 * k /\ i - 8 \in Nat /\ i <= 16 * s
  BY ONLY <1>3, <1>4, s \in Nat
<1> QED BY <1>2, <1>4, <1>5

\* A hash of the words in front of a lane's gendata, stored before them, is one
\* step of the definition.
LEMMA LaneGrows ==
    ASSUME NEW r, NEW f, Grown(f, r), NEW k \in 1 .. 2 * NUM_SCOOPS, NEW i \in Nat,
           i = NonceWords - 8 * (k - 1), NEW mem, mem = Partial(f, k - 1),
           NEW c, c = Capped(PlotWords - i)
    PROVE  /\ mem \in [1 .. PlotWords -> Word]
           /\ SubSeq(mem, i + 1, i + c) \in [1 .. c -> Word] /\ c \in Nat
           /\ Stored(mem, i - 8, shabal(SubSeq(mem, i + 1, i + c))) = Partial(f, k)
<1>1. PICK n \in Nat : /\ n = 8 * (k - 1) + 4 /\ n + 8 = 8 * k + 4 /\ i + n = PlotWords
                       /\ i >= 8 /\ i - 8 = NonceWords - 8 * k /\ i - 8 \in Nat
  BY RoundPlace
<1>2. PICK p \in Nat, at \in Nat : p = PlotWords /\ i + n = p /\ at = i - 8 /\ p - i = n /\ at + 8 = i
                                   /\ at + 8 <= p
  BY <1>1, NonceSize
<1>3. k - 1 \in 0 .. 2 * NUM_SCOOPS /\ k \in 0 .. 2 * NUM_SCOOPS
  BY ScoopsNumber
<1>4. PICK t : t = f[k - 1] /\ t \in [1 .. n -> Word]
  BY <1>1, <1>3 DEF Grown
<1>5. PICK u : u = f[k] /\ u = Longer(t)
  BY <1>4 DEF Grown
<1>6. mem = [j \in 1 .. p |-> IF j > i THEN t[j - i] ELSE 0]
  BY <1>2, <1>4 DEF Partial
<1>7. \A j \in 1 .. p : mem[j] = IF j > i THEN t[j - i] ELSE 0
  BY <1>6
<1>8. mem \in [1 .. p -> Word]
  <2>1. \A j \in 1 .. p : (IF j > i THEN t[j - i] ELSE 0) \in Word
    <3>1. ASSUME NEW j \in 1 .. p, j > i PROVE t[j - i] \in Word
      <4>1. j - i \in 1 .. n
        BY <1>2, <3>1
      <4> QED BY <1>4, <4>1
    <3> QED BY <3>1, WordSize
  <2>2. [j \in 1 .. p |-> IF j > i THEN t[j - i] ELSE 0] \in [1 .. p -> Word]
    BY <2>1, Zenon
  <2> QED BY <1>6, <2>2
<1>9. c \in Nat /\ c <= n /\ c = Capped(n)
  BY <1>2, CappedIs
<1>10. PICK z \in Nat : z = 0 /\ z + 1 = 1 /\ z + c = c /\ z + c <= n /\ i + c <= p
  BY <1>2, <1>9
<1>11. PICK front : front = SubSeq(mem, i + 1, i + c)
  OBVIOUS
<1>12. Cut(Word, front, mem, i, c) /\ front \in [1 .. c -> Word]
  BY ONLY <1>8, <1>10, <1>9, <1>11, i \in Nat, p \in Nat, CutIs
<1>13. PICK head : head = SubSeq(t, z + 1, z + c)
  OBVIOUS
<1>14. Cut(Word, head, t, z, c) /\ head \in [1 .. c -> Word]
  BY ONLY <1>4, <1>10, <1>9, <1>13, z \in Nat, n \in Nat, CutIs
<1>15. front = head
  <2>1. ASSUME NEW j \in 1 .. c PROVE front[j] = head[j]
    <3>1. i + j \in 1 .. p /\ i + j > i /\ i + j - i = j /\ z + j = j
      BY <1>9, <1>10
    <3>2. front[j] = mem[i + j]
      BY <1>12 DEF Cut
    <3>3. mem[i + j] = t[j]
      BY <1>7, <3>1
    <3>4. head[j] = t[z + j]
      BY <1>14 DEF Cut
    <3> QED BY <3>1, <3>2, <3>3, <3>4
  <2>2. \A j \in 1 .. c : front[j] = head[j]
    BY <2>1
  <2>3. front = [j \in 1 .. c |-> front[j]] /\ head = [j \in 1 .. c |-> head[j]]
    BY <1>12, <1>14, Zenon
  <2> QED BY ONLY <2>2, <2>3
<1>16. PICK h : h = shabal(front) /\ h \in [1 .. 8 -> Word]
  BY <1>9, <1>12, ShabalWords
<1>17. h = shabal(SubSeq(t, 1, Capped(n)))
  BY <1>9, <1>10, <1>13, <1>15, <1>16
<1>18. /\ u \in [1 .. n + 8 -> Word] /\ \A j \in 1 .. 8 : u[j] = h[j]
       /\ \A j \in 1 .. n : u[8 + j] = t[j]
  <2>1. /\ Longer(t) \in [1 .. n + 8 -> Word]
        /\ \A j \in 1 .. 8 : Longer(t)[j] = shabal(SubSeq(t, 1, Capped(n)))[j]
        /\ \A j \in 1 .. n : Longer(t)[8 + j] = t[j]
    BY <1>4, LongerIs
  <2> QED BY <1>5, <1>17, <2>1
<1>19. PICK new : new = Stored(mem, at, h)
  OBVIOUS
<1>20. Overwritten(new, mem, at, h, 8, p)
  <2>1. 8 \in Nat
    OBVIOUS
  <2> QED BY ONLY <1>2, <1>8, <1>16, <1>19, <2>1, at \in Nat, p \in Nat, StoredIs
<1>21. ASSUME NEW j \in 1 .. p PROVE new[j] = IF j > at THEN u[j - at] ELSE 0
  <2>1. CASE j <= at
    <3>1. j \in 1 .. at /\ ~(j > at) /\ ~(j > i)
      BY <1>2, <2>1
    <3>2. new[j] = mem[j]
      BY <1>20, <3>1 DEF Overwritten
    <3> QED BY <1>7, <3>1, <3>2
  <2>2. CASE j > at /\ j <= i
    <3>1. PICK x \in 1 .. 8 : x = j - at /\ at + x = j
      <4>1. at + 8 = i
        BY <1>2
      <4>2. j - at \in 1 .. 8 /\ at + (j - at) = j
        BY ONLY <2>2, <4>1, at \in Nat, i \in Nat, j \in 1 .. p, p \in Nat
      <4> QED BY <4>2
    <3>2. new[at + x] = h[x]
      BY <1>20 DEF Overwritten
    <3> QED BY <1>18, <2>2, <3>1, <3>2
  <2>3. CASE j > i
    <3>1. PICK x \in 1 .. n : x = j - i /\ 8 + x = j - at /\ j > at
      <4>1. j - i \in 1 .. n /\ 8 + (j - i) = j - at /\ j > at
        BY <1>2, <2>3
      <4> QED BY <4>1
    <3>2. j \in at + 8 + 1 .. p
      BY <1>2, <2>3
    <3>3. new[j] = mem[j]
      BY <1>20, <3>2 DEF Overwritten
    <3>4. mem[j] = t[x]
      BY <1>7, <2>3, <3>1
    <3>5. u[8 + x] = t[x]
      BY <1>18
    <3> QED BY <3>1, <3>3, <3>4, <3>5
  <2> QED BY <2>1, <2>2, <2>3
<1>22. new = [j \in 1 .. p |-> IF j > at THEN u[j - at] ELSE 0]
  <2>1. new \in [1 .. p -> Word]
    BY <1>20 DEF Overwritten
  <2> QED BY <1>21, <2>1
<1>23. new = Partial(f, k)
  BY <1>1, <1>2, <1>5, <1>22 DEF Partial
<1>24. Stored(mem, i - 8, shabal(SubSeq(mem, i + 1, i + c))) = new
  BY <1>2, <1>11, <1>16, <1>19
<1> QED BY <1>2, <1>8, <1>9, <1>11, <1>12, <1>23, <1>24

\* Before the first hash, and after the last one.
LEMMA PartialEnds ==
    ASSUME NEW r, IsRequest(r), NEW f, Grown(f, r)
    PROVE  /\ Partial(f, 0) = Seeded(r)
           /\ Partial(f, 2 * NUM_SCOOPS) = f[2 * NUM_SCOOPS]
           /\ f[2 * NUM_SCOOPS] \in [1 .. PlotWords -> Word]
<1>1. PICK n \in Nat, p \in Nat, e \in Nat :
          /\ n = NonceWords /\ p = PlotWords /\ p = n + 4 /\ e = 2 * NUM_SCOOPS /\ n = 8 * e
  <2>1. PICK s \in Nat : s = NUM_SCOOPS
    BY ScoopsNumber
  <2>2. NonceWords = 16 * s /\ 16 * s = 8 * (2 * s) /\ 2 * s \in Nat
    BY <2>1, NonceSize
  <2> QED BY <2>1, <2>2, NonceSize
<1>2. Partial(f, 0) = [j \in 1 .. p |-> IF j > n THEN f[0][j - n] ELSE 0]
  <2>1. PICK z : z = 0 /\ n - 8 * z = n
    BY <1>1
  <2> QED BY <1>1, <2>1 DEF Partial
<1>3. f[0] = Seed(r)
  BY DEF Grown
<1>4. Seeded(r) = [j \in 1 .. p |-> IF j > n THEN Seed(r)[j - n] ELSE 0]
  BY <1>1, SeededIs
<1>5. f[e] \in [1 .. 8 * e + 4 -> Word]
  <2>1. e \in 0 .. e
    BY <1>1
  <2> QED BY <1>1, <2>1 DEF Grown
<1>6. PICK t : t = f[e] /\ t \in [1 .. p -> Word]
  BY <1>1, <1>5
<1>7. Partial(f, e) = [j \in 1 .. p |-> t[j]]
  <2>1. \A j \in 1 .. p : j > n - 8 * e /\ j - (n - 8 * e) = j
    BY <1>1
  <2> QED BY <1>1, <1>6, <2>1 DEF Partial
<1> QED BY <1>1, <1>2, <1>3, <1>4, <1>6, <1>7

\* One round of the loop that generates the plots, and all of them.
GenStep(K, gd, i) ==
    Strictly(LAMBDA hs : Tuple([l \in Lanes(K) |-> Stored(gd[l], i - HashWords, hs[l])]),
             Hash(K, Tuple([l \in Lanes(K) |-> SubSeq(gd[l], i + 1, i + Span(i))])))
GenRound(K, gd, k) ==
    Strictly(LAMBDA u : GenStep(K, u, NonceWords - HashWords * (k - 1)), gd)
GenSteps(K, reqs, g) ==
    g = [k \in 0 .. NonceWords \div HashWords |->
            IF k = 0 THEN Tuple([l \in Lanes(K) |-> Seeded(reqs[l])]) ELSE GenRound(K, g[k - 1], k)]

\* The words the plots are generated to, unfolded.
LEMMA GeneratedUnfold ==
    ASSUME NEW K, NEW reqs
    PROVE  Generated(K, reqs) = (CHOOSE g : GenSteps(K, reqs, g))[NonceWords \div HashWords]
BY DEF Generated, Iterated, GenSteps, GenRound, GenStep

\* gendata of all lanes after k hashes.
Gens(K, F, k) == [l \in Lanes(K) |-> Partial(F[l], k)]
AllGrown(K, F, reqs) == \A l \in Lanes(K) : IsRequest(reqs[l]) /\ Grown(F[l], reqs[l])

\* One round of the loop takes every lane one step on.
LEMMA GenStepIs ==
    ASSUME NEW K \in {"avx2", "sse4"}, NEW reqs, NEW F, AllGrown(K, F, reqs),
           NEW k \in 1 .. 2 * NUM_SCOOPS
    PROVE  GenRound(K, Gens(K, F, k - 1), k) = Gens(K, F, k)
<1>1. PICK n \in Nat : n = Width(K) /\ Lanes(K) = 1 .. n
  BY WidthIs
<1>2. PICK i \in Nat : i = NonceWords - 8 * (k - 1) /\ i <= PlotWords
  <2>1. PICK i \in Nat, m \in Nat : i = NonceWords - 8 * (k - 1) /\ i + m = PlotWords
    BY RoundPlace
  <2>2. i <= PlotWords
    BY <2>1, NonceSize
  <2> QED BY <2>1, <2>2
<1>3. PICK gd : gd = Gens(K, F, k - 1)
  OBVIOUS
<1>4. PICK c : c = Capped(PlotWords - i) /\ c = Span(i)
  <2>1. Span(i) = Capped(PlotWords - i)
    <3>1. PICK x \in Int : x = PlotWords - i /\ x = NonceWords + 4 - i
      BY NonceSize
    <3>2. Span(i) = IF x > HashCap THEN HashCap ELSE x
      BY <3>1 DEF Span
    <3>3. Capped(x) = IF x < HashCap THEN x ELSE HashCap
      BY DEF Capped
    <3>4. HashCap \in Nat
      BY ScoopAssumption
    <3>5. (IF x > HashCap THEN HashCap ELSE x) = (IF x < HashCap THEN x ELSE HashCap)
      BY <3>4
    <3> QED BY <3>1, <3>2, <3>3, <3>5
  <2> QED BY <2>1
<1>5. ASSUME NEW l \in Lanes(K)
      PROVE  /\ gd[l] \in [1 .. PlotWords -> Word]
             /\ SubSeq(gd[l], i + 1, i + c) \in [1 .. c -> Word] /\ c \in Nat
             /\ Stored(gd[l], i - 8, shabal(SubSeq(gd[l], i + 1, i + c))) = Partial(F[l], k)
  <2>1. PICK f : f = F[l] /\ Grown(f, reqs[l])
    BY DEF AllGrown
  <2>2. PICK mem : mem = gd[l] /\ mem = Partial(f, k - 1)
    BY <1>3, <2>1 DEF Gens
  <2>3. /\ mem \in [1 .. PlotWords -> Word]
        /\ SubSeq(mem, i + 1, i + c) \in [1 .. c -> Word] /\ c \in Nat
        /\ Stored(mem, i - 8, shabal(SubSeq(mem, i + 1, i + c))) = Partial(f, k)
    BY <1>2, <1>4, <2>1, <2>2, LaneGrows
  <2> QED BY <2>1, <2>2, <2>3
<1>6. PICK parts : parts = [l \in Lanes(K) |-> SubSeq(gd[l], i + 1, i + c)]
  OBVIOUS
<1>7. parts \in [Lanes(K) -> [1 .. c -> Word]]
  <2>1. \A l \in Lanes(K) : SubSeq(gd[l], i + 1, i + c) \in [1 .. c -> Word]
    BY <1>5
  <2>2. [l \in Lanes(K) |-> SubSeq(gd[l], i + 1, i + c)] \in [Lanes(K) -> [1 .. c -> Word]]
    BY <2>1, Zenon
  <2> QED BY <1>6, <2>2
<1>8. c \in Nat
  <2>1. 1 \in Lanes(K)
    BY WidthIs
  <2> QED BY <1>5, <2>1
<1>9. Tuple(parts) = parts
  <2>1. PICK T : T = [1 .. c -> Word]
    OBVIOUS
  <2>2. parts \in [1 .. n -> T]
    BY <1>1, <1>7, <2>1
  <2> QED BY ONLY <2>2, n \in Nat, TupleIs
<1>10. PICK hs : hs = Hash(K, parts) /\ AreHashes(K, hs, parts)
  BY <1>7, <1>8, HashIs
<1>11. PICK new : new = [l \in Lanes(K) |-> Stored(gd[l], i - HashWords, hs[l])]
  OBVIOUS
<1>12. new = Gens(K, F, k)
  <2>1. ASSUME NEW l \in Lanes(K) PROVE Stored(gd[l], i - HashWords, hs[l]) = Partial(F[l], k)
    <3>1. hs[l] = shabal(SubSeq(gd[l], i + 1, i + c))
      BY <1>6, <1>10 DEF AreHashes
    <3> QED BY <1>5, <3>1 DEF HashWords
  <2>2. \A l \in Lanes(K) : Stored(gd[l], i - HashWords, hs[l]) = Partial(F[l], k)
    BY <2>1
  <2>3. [l \in Lanes(K) |-> Stored(gd[l], i - HashWords, hs[l])] = [l \in Lanes(K) |-> Partial(F[l], k)]
    BY <2>2, Zenon
  <2> QED BY <1>11, <2>3 DEF Gens
<1>13. new \in [Lanes(K) -> [1 .. PlotWords -> Word]]
  <2>1. ASSUME NEW l \in Lanes(K) PROVE Partial(F[l], k) \in [1 .. PlotWords -> Word]
    <3>1. PICK f : f = F[l] /\ Grown(f, reqs[l]) /\ IsRequest(reqs[l])
      BY DEF AllGrown
    <3>2. CASE k = 2 * NUM_SCOOPS
      BY <3>1, <3>2, PartialEnds
    <3>3. CASE k # 2 * NUM_SCOOPS
      <4>1. PICK e \in Nat : e = 2 * NUM_SCOOPS
        BY ScoopsNumber
      <4>2. PICK j \in 1 .. 2 * NUM_SCOOPS : j = k + 1 /\ j - 1 = k
        BY <3>3, <4>1
      <4>3. \E x \in Nat : x = NonceWords - 8 * (j - 1)
        BY RoundPlace
      <4>4. Partial(f, j - 1) \in [1 .. PlotWords -> Word]
        BY <3>1, <4>3, LaneGrows
      <4> QED BY <3>1, <4>2, <4>4
    <3> QED BY <3>2, <3>3
  <2>2. \A l \in Lanes(K) : Partial(F[l], k) \in [1 .. PlotWords -> Word]
    BY <2>1
  <2>3. [l \in Lanes(K) |-> Partial(F[l], k)] \in [Lanes(K) -> [1 .. PlotWords -> Word]]
    BY <2>2, Zenon
  <2> QED BY <1>12, <2>3 DEF Gens
<1>14. Tuple(new) = new
  <2>1. PICK T : T = [1 .. PlotWords -> Word]
    OBVIOUS
  <2>2. new \in [1 .. n -> T]
    BY <1>1, <1>13, <2>1
  <2> QED BY ONLY <2>2, n \in Nat, TupleIs
<1>15. GenStep(K, gd, i) = Tuple(new)
  <2>1. Hash(K, Tuple([l \in Lanes(K) |-> SubSeq(gd[l], i + 1, i + Span(i))])) = hs
    BY <1>4, <1>6, <1>9, <1>10
  <2>2. GenStep(K, gd, i) = Tuple([l \in Lanes(K) |-> Stored(gd[l], i - HashWords, hs[l])])
    BY <2>1 DEF GenStep, Strictly
  <2> QED BY <1>11, <2>2
<1>16. GenRound(K, gd, k) = GenStep(K, gd, i)
  BY <1>2 DEF GenRound, Strictly, HashWords
<1> QED BY <1>3, <1>12, <1>14, <1>15, <1>16

\* Each lane ends with the words of the definition for its own request.
LEMMA GeneratedIs ==
    ASSUME NEW K \in {"avx2", "sse4"}, NEW reqs, \A l \in Lanes(K) : IsRequest(reqs[l])
    PROVE  \E F : /\ AllGrown(K, F, reqs)
                  /\ Generated(K, reqs) = [l \in Lanes(K) |-> F[l][2 * NUM_SCOOPS]]
                  /\ \A l \in Lanes(K) : F[l][2 * NUM_SCOOPS] \in [1 .. PlotWords -> Word]
<1>1. PICK F : F = [l \in Lanes(K) |-> CHOOSE f : Grown(f, reqs[l])]
  OBVIOUS
<1>2. ASSUME NEW l \in Lanes(K) PROVE IsRequest(reqs[l]) /\ Grown(F[l], reqs[l])
  <2>1. \E f : Grown(f, reqs[l])
    BY GrownExists
  <2>2. Grown((CHOOSE f : Grown(f, reqs[l])), reqs[l])
    BY <2>1
  <2>3. F[l] = CHOOSE f : Grown(f, reqs[l])
    BY <1>1
  <2> QED BY <2>2, <2>3
<1>3. AllGrown(K, F, reqs)
  BY <1>2 DEF AllGrown
<1>4. PICK n \in Nat : n = Width(K) /\ Lanes(K) = 1 .. n
  BY WidthIs
<1>5. PICK e \in Nat : e = 2 * NUM_SCOOPS /\ NonceWords \div HashWords = e
  BY NonceSize, ScoopsNumber
<1>6. ASSUME NEW l \in Lanes(K)
      PROVE  /\ Partial(F[l], 0) = Seeded(reqs[l]) /\ Partial(F[l], e) = F[l][e]
             /\ F[l][e] \in [1 .. PlotWords -> Word]
  <2>1. PICK f : f = F[l] /\ Grown(f, reqs[l]) /\ IsRequest(reqs[l])
    BY <1>2
  <2> QED BY <1>5, <2>1, PartialEnds
<1>7. PICK start : start = Tuple([l \in Lanes(K) |-> Seeded(reqs[l])])
  OBVIOUS
<1>8. start = Gens(K, F, 0)
  <2>1. PICK s : s = [l \in Lanes(K) |-> Seeded(reqs[l])]
    OBVIOUS
  <2>2. \A l \in Lanes(K) : Seeded(reqs[l]) = Partial(F[l], 0)
    BY <1>6
  <2>3. s = Gens(K, F, 0)
    BY <2>1, <2>2, Zenon DEF Gens
  <2>4. PICK T : T = {Seeded(reqs[l]) : l \in Lanes(K)}
    OBVIOUS
  <2>5. s \in [1 .. n -> T]
    <3>1. \A l \in Lanes(K) : Seeded(reqs[l]) \in T
      BY <2>4
    <3>2. s \in [Lanes(K) -> T]
      BY <2>1, <3>1, Zenon
    <3> QED BY <1>4, <3>2
  <2>6. Tuple(s) = s
    BY ONLY <2>5, n \in Nat, TupleIs
  <2> QED BY <1>7, <2>1, <2>3, <2>6
<1>9. PICK f : f = [k \in 0 .. e |-> Gens(K, F, k)]
  OBVIOUS
<1>10. f[0] = start /\ \A k \in 1 .. e : f[k] = GenRound(K, f[k - 1], k)
  <2>1. 0 \in 0 .. e
    OBVIOUS
  <2>2. ASSUME NEW k \in 1 .. e PROVE f[k] = GenRound(K, f[k - 1], k)
    <3>1. k \in 0 .. e /\ k - 1 \in 0 .. e
      OBVIOUS
    <3>2. f[k] = Gens(K, F, k) /\ f[k - 1] = Gens(K, F, k - 1)
      BY <1>9, <3>1
    <3>3. GenRound(K, Gens(K, F, k - 1), k) = Gens(K, F, k)
      BY <1>3, <1>5, GenStepIs
    <3> QED BY <3>2, <3>3
  <2> QED BY <1>8, <1>9, <2>1, <2>2
<1>11. \A g : GenSteps(K, reqs, g) <=>
                  g = [k \in 0 .. e |-> IF k = 0 THEN start ELSE GenRound(K, g[k - 1], k)]
  BY <1>5, <1>7 DEF GenSteps
<1>12. GenSteps(K, reqs, f)
  <2>1. \A k \in 0 .. e : f[k] = IF k = 0 THEN start ELSE GenRound(K, f[k - 1], k)
    <3>1. \A k \in 0 .. e : k = 0 \/ (k \in 1 .. e /\ k # 0)
      OBVIOUS
    <3> QED BY ONLY <1>10, <3>1
  <2>2. f = [k \in 0 .. e |-> f[k]]
    BY <1>9
  <2>3. f = [k \in 0 .. e |-> IF k = 0 THEN start ELSE GenRound(K, f[k - 1], k)]
    BY ONLY <2>1, <2>2
  <2> QED BY <1>11, <2>3
<1>13. PICK h : h = (CHOOSE g : GenSteps(K, reqs, g)) /\ GenSteps(K, reqs, h)
  BY <1>12
<1>14. h[0] = start /\ \A k \in 1 .. e : h[k] = GenRound(K, h[k - 1], k)
  <2>1. h = [k \in 0 .. e |-> IF k = 0 THEN start ELSE GenRound(K, h[k - 1], k)]
    BY <1>11, <1>13
  <2>2. \A k \in 0 .. e : h[k] = IF k = 0 THEN start ELSE GenRound(K, h[k - 1], k)
    BY ONLY <2>1
  <2>3. 0 \in 0 .. e /\ \A k \in 1 .. e : k \in 0 .. e /\ k # 0
    OBVIOUS
  <2> QED BY ONLY <2>2, <2>3
<1>15. \A k \in 0 .. e : f[k] = h[k]
  <2>1. \A k \in 1 .. e : f[k - 1] = h[k - 1] => f[k] = h[k]
    BY <1>10, <1>14
  <2>2. f[0] = h[0]
    BY <1>10, <1>14
  <2> QED BY ONLY <2>1, <2>2, e \in Nat, RunsAgree
<1>16. Generated(K, reqs) = f[e]
  <2>1. Generated(K, reqs) = (CHOOSE g : GenSteps(K, reqs, g))[e]
    BY <1>5, GeneratedUnfold
  <2>2. e \in 0 .. e
    OBVIOUS
  <2> QED BY <1>13, <1>15, <2>1, <2>2
<1>17. f[e] = [l \in Lanes(K) |-> F[l][e]]
  <2>1. e \in 0 .. e
    OBVIOUS
  <2>2. f[e] = Gens(K, F, e)
    BY <1>9, <2>1
  <2>3. \A l \in Lanes(K) : Partial(F[l], e) = F[l][e]
    BY <1>6
  <2> QED BY <2>2, <2>3, Zenon DEF Gens
<1> QED BY <1>3, <1>5, <1>6, <1>16, <1>17

-----------------------------------------------------------------------------
(* The deadline                                                            *)

\* What of the definition's plot is read for the scoop: h counts hashes.
Clear(gendata, final, h) ==
    Tuple([i \in 1 .. HashWords |-> gendata[HashWords * h + i] (+) final[i]])
ReadAt(gendata, final, nr, poc2) ==
    Clear(gendata, final, 2 * nr)
      \o Clear(gendata, final, IF poc2 THEN 2 * NUM_SCOOPS - 1 - 2 * nr ELSE 2 * nr + 1)

\* A lane's plot.
ClearedLane(g, final) ==
    Tuple([i \in 1 .. NonceWords |-> g[i] (+) final[((i - 1) % HashWords) + 1]])

\* A lane's plot has the words of gendata, each with its word of the final hash.
LEMMA ClearedLaneIs ==
    ASSUME NEW g \in [1 .. PlotWords -> Word], NEW final \in [1 .. 8 -> Word]
    PROVE  /\ ClearedLane(g, final) \in [1 .. NonceWords -> Word]
           /\ \A i \in 1 .. NonceWords :
                 ClearedLane(g, final)[i] = g[i] (+) final[((i - 1) % 8) + 1]
<1>1. PICK n \in Nat : n = NonceWords /\ PlotWords = n + 4
  BY NonceSize
<1>2. ASSUME NEW i \in 1 .. n PROVE g[i] (+) final[((i - 1) % 8) + 1] \in Word
  <2>1. i \in 1 .. PlotWords
    BY <1>1
  <2>2. ((i - 1) % 8) + 1 \in 1 .. 8
    OBVIOUS
  <2>3. g[i] \in Word /\ final[((i - 1) % 8) + 1] \in Word
    BY <2>1, <2>2
  <2> QED BY <2>3, XorWord
<1>3. PICK f : f = [i \in 1 .. n |-> g[i] (+) final[((i - 1) % 8) + 1]] /\ f \in [1 .. n -> Word]
  <2>1. \A i \in 1 .. n : g[i] (+) final[((i - 1) % 8) + 1] \in Word
    BY <1>2
  <2>2. [i \in 1 .. n |-> g[i] (+) final[((i - 1) % 8) + 1]] \in [1 .. n -> Word]
    BY <2>1, Zenon
  <2> QED BY <2>2
<1>4. f \in [1 .. n -> Word]
  BY <1>3
<1>5. Tuple(f) = f
  BY ONLY <1>4, n \in Nat, TupleIs
<1>6. ClearedLane(g, final) = Tuple(f)
  BY <1>1, <1>3 DEF ClearedLane, HashWords
<1>7. \A i \in 1 .. n : f[i] = g[i] (+) final[((i - 1) % 8) + 1]
  BY <1>3
<1> QED BY <1>1, <1>4, <1>5, <1>6, <1>7

\* Eight words of the plot from a multiple of eight on are a hash that was cleared.
LEMMA HalfIs ==
    ASSUME NEW g \in [1 .. PlotWords -> Word], NEW final \in [1 .. 8 -> Word],
           NEW h \in Nat, 8 * h + 8 <= NonceWords, NEW at, at = 8 * h
    PROVE  /\ SubSeq(ClearedLane(g, final), at + 1, at + 8) = Clear(g, final, h)
           /\ Clear(g, final, h) \in [1 .. 8 -> Word]
<1>1. PICK n \in Nat, p \in Nat : n = NonceWords /\ p = 8 * h /\ at = p /\ p + 8 <= n
  BY NonceSize
<1>2. PICK c : c = ClearedLane(g, final)
  OBVIOUS
<1>3. c \in [1 .. n -> Word] /\ \A i \in 1 .. n : c[i] = g[i] (+) final[((i - 1) % 8) + 1]
  BY <1>1, <1>2, ClearedLaneIs
<1>4. PICK s : s = SubSeq(c, p + 1, p + 8)
  OBVIOUS
<1>5. Cut(Word, s, c, p, 8) /\ s \in [1 .. 8 -> Word]
  <2>1. 8 \in Nat /\ c \in [1 .. n -> Word] /\ p + 8 <= n
    BY <1>1, <1>3
  <2> QED BY ONLY <1>4, <2>1, n \in Nat, p \in Nat, CutIs
<1>6. ASSUME NEW i \in 1 .. 8 PROVE s[i] = g[8 * h + i] (+) final[i]
  <2>1. PICK j \in 1 .. n : j = p + i /\ j = 8 * h + i
    <3>1. p + i \in 1 .. n
      BY <1>1
    <3> QED BY <1>1, <3>1
  <2>2. ((j - 1) % 8) + 1 = i
    <3>1. PICK m \in Int : m = h /\ j - 1 = 8 * m + (i - 1)
      BY <2>1
    <3>2. i - 1 \in 0 .. 7 /\ j - 1 \in Int
      OBVIOUS
    <3>3. (j - 1) % 8 = i - 1
      BY ONLY <3>1, <3>2
    <3> QED BY <3>3
  <2>3. s[i] = c[j]
    BY <1>5, <2>1 DEF Cut
  <2>4. c[j] = g[j] (+) final[((j - 1) % 8) + 1]
    BY <1>3
  <2> QED BY <2>1, <2>2, <2>3, <2>4
<1>7. s = [i \in 1 .. 8 |-> g[8 * h + i] (+) final[i]]
  <2>1. s = [i \in 1 .. 8 |-> s[i]]
    BY <1>5
  <2>2. \A i \in 1 .. 8 : s[i] = g[8 * h + i] (+) final[i]
    BY <1>6
  <2> QED BY ONLY <2>1, <2>2, Zenon
<1>8. Tuple(s) = s
  <2>1. 8 \in Nat /\ s \in [1 .. 8 -> Word]
    BY <1>5
  <2> QED BY ONLY <2>1, TupleIs
<1>9. Clear(g, final, h) = s
  BY <1>7, <1>8 DEF Clear, HashWords
<1> QED BY <1>1, <1>2, <1>4, <1>5, <1>9

\* The two halves of a scoop are what the definition reads, mirrored or not.
LEMMA ScoopReads ==
    ASSUME NEW g \in [1 .. PlotWords -> Word], NEW final \in [1 .. 8 -> Word],
           NEW nr \in 0 .. NUM_SCOOPS - 1, NEW poc2 \in BOOLEAN
    PROVE  /\ Scoop(ClearedLane(g, final), nr, poc2) = ReadAt(g, final, nr, poc2)
           /\ ReadAt(g, final, nr, poc2) \in [1 .. 16 -> Word]
<1>1. PICK s \in Nat : s = NUM_SCOOPS /\ s > 0 /\ NonceWords = 16 * s
  BY ScoopsNumber, NonceSize
<1>2. PICK m \in Nat : m = (IF poc2 THEN s - 1 - nr ELSE nr) /\ m <= s - 1
  <2>1. PICK x : x = (IF poc2 THEN s - 1 - nr ELSE nr)
    OBVIOUS
  <2>2. CASE poc2
    <3>1. x = s - 1 - nr
      BY <2>1, <2>2
    <3>2. x \in Nat /\ x <= s - 1
      BY <1>1, <3>1
    <3> QED BY <2>1, <3>2
  <2>3. CASE ~poc2
    <3>1. x = nr
      BY <2>1, <2>3
    <3>2. x \in Nat /\ x <= s - 1
      BY <1>1, <3>1
    <3> QED BY <2>1, <3>2
  <2> QED BY <2>2, <2>3
<1>3. PICK h1 \in Nat, h2 \in Nat :
          /\ h1 = 2 * nr /\ h2 = (IF poc2 THEN 2 * s - 1 - 2 * nr ELSE 2 * nr + 1)
          /\ h2 = 2 * m + 1
  <2>1. 2 * nr \in Nat /\ 2 * m + 1 \in Nat
    BY <1>1
  <2>2. (IF poc2 THEN 2 * s - 1 - 2 * nr ELSE 2 * nr + 1) = 2 * m + 1
    <3>1. poc2 => 2 * s - 1 - 2 * nr = 2 * m + 1
      BY <1>1, <1>2
    <3>2. ~poc2 => m = nr
      BY <1>2
    <3> QED BY <3>1, <3>2
  <2> QED BY <2>1, <2>2
<1>4. /\ 8 * h1 + 8 <= NonceWords /\ 8 * h2 + 8 <= NonceWords
      /\ 8 * h1 = 16 * nr + 0 /\ 8 * h2 = 16 * m + 8
  BY <1>1, <1>2, <1>3
<1>5. PICK c : c = ClearedLane(g, final)
  OBVIOUS
<1>6. /\ SubSeq(c, 16 * nr + 0 + 1, 16 * nr + 0 + 8) = Clear(g, final, h1)
      /\ Clear(g, final, h1) \in [1 .. 8 -> Word]
  <2>1. PICK at : at = 16 * nr + 0 /\ at = 8 * h1
    BY <1>4
  <2>2. SubSeq(c, at + 1, at + 8) = Clear(g, final, h1) /\ Clear(g, final, h1) \in [1 .. 8 -> Word]
    BY <1>4, <1>5, <2>1, HalfIs
  <2> QED BY <2>1, <2>2
<1>7. /\ SubSeq(c, 16 * m + 8 + 1, 16 * m + 8 + 8) = Clear(g, final, h2)
      /\ Clear(g, final, h2) \in [1 .. 8 -> Word]
  <2>1. PICK at : at = 16 * m + 8 /\ at = 8 * h2
    BY <1>4
  <2>2. SubSeq(c, at + 1, at + 8) = Clear(g, final, h2) /\ Clear(g, final, h2) \in [1 .. 8 -> Word]
    BY <1>4, <1>5, <2>1, HalfIs
  <2> QED BY <2>1, <2>2
<1>8. Scoop(c, nr, poc2) = SubSeq(c, 16 * nr + 0 + 1, 16 * nr + 0 + 8)
                             \o SubSeq(c, 16 * m + 8 + 1, 16 * m + 8 + 8)
  <2>1. ScoopWords = 16 /\ HashWords = 8
    BY DEF ScoopWords, HashWords
  <2>2. m = IF poc2 THEN NUM_SCOOPS - 1 - nr ELSE nr
    BY <1>1, <1>2
  <2> QED BY <2>1, <2>2 DEF Scoop
<1>9. ReadAt(g, final, nr, poc2) = Clear(g, final, h1) \o Clear(g, final, h2)
  BY <1>1, <1>3 DEF ReadAt
<1>10. PICK x, y : x = Clear(g, final, h1) /\ y = Clear(g, final, h2)
                   /\ x \in [1 .. 8 -> Word] /\ y \in [1 .. 8 -> Word]
  BY <1>6, <1>7
<1>11. x \o y \in [1 .. 16 -> Word]
  <2>1. 8 \in Nat /\ x \in [1 .. 8 -> Word] /\ y \in [1 .. 8 -> Word]
    BY <1>10
  <2>2. Joined(Word, x \o y, x, 8, y, 8)
    BY ONLY <2>1, ConcatFunctions
  <2>3. x \o y \in [1 .. 8 + 8 -> Word]
    BY <2>2 DEF Joined
  <2>4. 8 + 8 = 16
    OBVIOUS
  <2> QED BY <2>3, <2>4
<1> QED BY <1>5, <1>6, <1>7, <1>8, <1>9, <1>10, <1>11

\* The deadline that the definition reads off a plot.
DeadlineOf(r, target) == (target[1] + 2^WordBits * target[2]) \div r.base_target
Target(r, g, nr, poc2) == shabal(r.gensig \o ReadAt(g, shabal(g), nr, poc2))

ScoopsOf(K, poc2, reqs, plots) ==
    Tuple([l \in Lanes(K) |-> Scoop(plots[l], reqs[l].scoop_nr, poc2)])
Answers(K, poc2, reqs, plots) ==
    Hash2(K, Tuple([l \in Lanes(K) |-> reqs[l].gensig]), ScoopsOf(K, poc2, reqs, plots))

\* The plots of the lanes, unfolded.
LEMMA PlotUnfold ==
    ASSUME NEW K, NEW reqs, NEW gd, gd = Generated(K, reqs), NEW hs, hs = Hash(K, gd)
    PROVE  Plot(K, reqs) = Tuple([l \in Lanes(K) |-> ClearedLane(gd[l], hs[l])])
<1>1. Plot(K, reqs) = Cleared(K, gd, hs)
  BY DEF Plot, Strictly
<1> QED BY <1>1 DEF Cleared, ClearedLane

\* The deadlines of a batch, unfolded.
LEMMA DeadlinesUnfold ==
    ASSUME NEW K, NEW poc2, NEW reqs, NEW plots, plots = Plot(K, reqs),
           NEW as, as = Answers(K, poc2, reqs, plots)
    PROVE  Deadlines(K, poc2, reqs) = Tuple([l \in Lanes(K) |-> DeadlineOf(reqs[l], as[l])])
<1>1. as = Hash2(K, Tuple([l \in Lanes(K) |-> reqs[l].gensig]),
                 Tuple([l \in Lanes(K) |-> Scoop(plots[l], reqs[l].scoop_nr, poc2)]))
  BY DEF Answers, ScoopsOf
<1> QED BY <1>1 DEF Deadlines, Strictly, DeadlineOf

\* The words a lane's gendata ends with, as the definition has them.
Built(r) == (CHOOSE g : LongerSteps(r, g))[2 * NUM_SCOOPS]

\* A function on the lanes is a tuple.
LEMMA LaneTuple ==
    ASSUME NEW K, NEW T, NEW s \in [Lanes(K) -> T]
    PROVE  Tuple(s) = s
<1>1. PICK n \in Nat : Lanes(K) = 1 .. n
  BY WidthIs
<1>2. s \in [1 .. n -> T]
  BY <1>1
<1> QED BY ONLY <1>2, n \in Nat, TupleIs

\* Each lane's deadline is read off its own plot.
LEMMA DeadlinesAre ==
    ASSUME NEW K \in {"avx2", "sse4"}, NEW poc2 \in BOOLEAN, NEW reqs,
           \A l \in Lanes(K) : IsRequest(reqs[l]), NEW lane \in Lanes(K)
    PROVE  Deadlines(K, poc2, reqs)[lane] =
             DeadlineOf(reqs[lane], Target(reqs[lane], Built(reqs[lane]), reqs[lane].scoop_nr, poc2))
<1>1. PICK F : /\ AllGrown(K, F, reqs)
               /\ Generated(K, reqs) = [l \in Lanes(K) |-> F[l][2 * NUM_SCOOPS]]
               /\ \A l \in Lanes(K) : F[l][2 * NUM_SCOOPS] \in [1 .. PlotWords -> Word]
  BY GeneratedIs
<1>2. PICK gd : gd = Generated(K, reqs)
  OBVIOUS
<1>3. ASSUME NEW l \in Lanes(K)
      PROVE  gd[l] = Built(reqs[l]) /\ gd[l] \in [1 .. PlotWords -> Word]
  <2>1. PICK f : f = F[l] /\ Grown(f, reqs[l])
    BY <1>1 DEF AllGrown
  <2>2. Built(reqs[l]) = f[2 * NUM_SCOOPS]
    BY <2>1, LongerUnfold DEF Built
  <2>3. gd[l] = F[l][2 * NUM_SCOOPS]
    BY <1>1, <1>2
  <2> QED BY <1>1, <2>1, <2>2, <2>3
<1>4. gd \in [Lanes(K) -> [1 .. PlotWords -> Word]]
  <2>1. gd = [l \in Lanes(K) |-> gd[l]]
    BY <1>1, <1>2
  <2>2. \A l \in Lanes(K) : gd[l] \in [1 .. PlotWords -> Word]
    BY <1>3
  <2>3. [l \in Lanes(K) |-> gd[l]] \in [Lanes(K) -> [1 .. PlotWords -> Word]]
    BY <2>2, Zenon
  <2> QED BY <2>1, <2>3
<1>5. PICK hs : hs = Hash(K, gd) /\ AreHashes(K, hs, gd)
  <2>1. PlotWords \in Nat
    BY NonceSize
  <2> QED BY <1>4, <2>1, HashIs
<1>6. ASSUME NEW l \in Lanes(K) PROVE hs[l] \in [1 .. 8 -> Word] /\ hs[l] = shabal(gd[l])
  BY <1>5 DEF AreHashes
<1>7. PICK plots : plots = [l \in Lanes(K) |-> ClearedLane(gd[l], hs[l])]
  OBVIOUS
<1>8. Plot(K, reqs) = plots
  <2>1. \A l \in Lanes(K) : ClearedLane(gd[l], hs[l]) \in [1 .. NonceWords -> Word]
    BY <1>3, <1>6, ClearedLaneIs
  <2>2. [l \in Lanes(K) |-> ClearedLane(gd[l], hs[l])] \in [Lanes(K) -> [1 .. NonceWords -> Word]]
    BY <2>1, Zenon
  <2>3. Tuple(plots) = plots
    BY <1>7, <2>2, LaneTuple
  <2>4. Plot(K, reqs) = Tuple(plots)
    BY <1>2, <1>5, <1>7, PlotUnfold
  <2> QED BY <2>3, <2>4
<1>9. PICK one : one = [l \in Lanes(K) |-> reqs[l].gensig]
                 /\ one \in [Lanes(K) -> [1 .. 8 -> Word]]
  <2>1. \A l \in Lanes(K) : reqs[l].gensig \in [1 .. 8 -> Word]
    BY DEF IsRequest
  <2>2. [l \in Lanes(K) |-> reqs[l].gensig] \in [Lanes(K) -> [1 .. 8 -> Word]]
    BY <2>1, Zenon
  <2> QED BY <2>2
<1>10. ASSUME NEW l \in Lanes(K)
       PROVE  /\ Scoop(plots[l], reqs[l].scoop_nr, poc2)
                   = ReadAt(gd[l], shabal(gd[l]), reqs[l].scoop_nr, poc2)
              /\ Scoop(plots[l], reqs[l].scoop_nr, poc2) \in [1 .. 16 -> Word]
  <2>1. PICK g, final, nr : g = gd[l] /\ final = hs[l] /\ nr = reqs[l].scoop_nr
    OBVIOUS
  <2>2. /\ g \in [1 .. PlotWords -> Word] /\ final \in [1 .. 8 -> Word]
        /\ final = shabal(g) /\ nr \in 0 .. NUM_SCOOPS - 1
    BY <1>3, <1>6, <2>1 DEF IsRequest
  <2>3. plots[l] = ClearedLane(g, final)
    BY <1>7, <2>1
  <2>4. /\ Scoop(ClearedLane(g, final), nr, poc2) = ReadAt(g, final, nr, poc2)
        /\ ReadAt(g, final, nr, poc2) \in [1 .. 16 -> Word]
    BY <2>2, ScoopReads
  <2> QED BY <2>1, <2>2, <2>3, <2>4
<1>11. PICK two : two = [l \in Lanes(K) |-> Scoop(plots[l], reqs[l].scoop_nr, poc2)]
                  /\ two \in [Lanes(K) -> [1 .. 16 -> Word]]
  <2>1. \A l \in Lanes(K) : Scoop(plots[l], reqs[l].scoop_nr, poc2) \in [1 .. 16 -> Word]
    BY <1>10
  <2>2. [l \in Lanes(K) |-> Scoop(plots[l], reqs[l].scoop_nr, poc2)]
            \in [Lanes(K) -> [1 .. 16 -> Word]]
    BY <2>1, Zenon
  <2> QED BY <2>2
<1>12. Tuple(one) = one /\ Tuple(two) = two
  BY <1>9, <1>11, LaneTuple
<1>13. PICK as : as = Answers(K, poc2, reqs, plots)
  OBVIOUS
<1>14. as = Hash2(K, one, two)
  BY <1>9, <1>11, <1>12, <1>13 DEF Answers, ScoopsOf
<1>15. AreHashes(K, as, [l \in Lanes(K) |-> one[l] \o two[l]])
  <2>1. 8 \in Nat /\ 16 \in Nat
    OBVIOUS
  <2> QED BY <1>9, <1>11, <1>14, <2>1, Hash2Is
<1>16. as[lane] = shabal(one[lane] \o two[lane])
  BY <1>15 DEF AreHashes
<1>17. as[lane] = Target(reqs[lane], Built(reqs[lane]), reqs[lane].scoop_nr, poc2)
  <2>1. one[lane] = reqs[lane].gensig
    BY <1>9
  <2>2. two[lane] = ReadAt(gd[lane], shabal(gd[lane]), reqs[lane].scoop_nr, poc2)
    BY <1>10, <1>11
  <2> QED BY <1>3, <1>16, <2>1, <2>2 DEF Target
<1>18. PICK ds : ds = [l \in Lanes(K) |-> DeadlineOf(reqs[l], as[l])]
  OBVIOUS
<1>19. Tuple(ds) = ds
  <2>1. PICK T : T = {DeadlineOf(reqs[l], as[l]) : l \in Lanes(K)}
    OBVIOUS
  <2>2. \A l \in Lanes(K) : DeadlineOf(reqs[l], as[l]) \in T
    BY <2>1
  <2>3. ds \in [Lanes(K) -> T]
    BY <1>18, <2>2, Zenon
  <2> QED BY <2>3, LaneTuple
<1>20. Deadlines(K, poc2, reqs) = Tuple(ds)
  BY <1>8, <1>13, <1>18, DeadlinesUnfold
<1> QED BY <1>17, <1>18, <1>19, <1>20

\* The number of the scoop a request is read from, as the definition has it.
DefinedNr(r) ==
    IF r = Unused THEN 0
    ELSE Reversed(shabal(r.gensig \o BigEndian(Height(r.addr[1])))[8]) % NUM_SCOOPS

\* The definition of a deadline, unfolded.
LEMMA DefinedUnfold ==
    ASSUME NEW r, NEW poc2
    PROVE  Defined(r, poc2) = DeadlineOf(r, Target(r, Built(r), DefinedNr(r), poc2))
<1>1. PICK nr : nr = DefinedNr(r)
  OBVIOUS
<1>2. PICK b : b = Built(r)
  OBVIOUS
<1>3. PICK t : t = Target(r, b, nr, poc2)
  OBVIOUS
<1>4. t = shabal(r.gensig \o ReadAt(b, shabal(b), nr, poc2))
  BY <1>3 DEF Target
<1> QED
  BY <1>1, <1>2, <1>3 DEF Defined, Iterated, Strictly, Built, LongerSteps, LongerStep, Longer,
       Capped, Seed, DefinedNr, Target, ReadAt, Clear, DeadlineOf

\* A word holds more than fourteen numbers.
LEMMA SmallWords == 0 .. 14 \subseteq Word
<1>1. PICK N \in Nat : N = 2^ByteBits /\ N >= 2
  <2>1. ByteBits \in 1 .. WordBits
    BY BitsOfWord
  <2>2. PICK h \in Nat : h = 2^(ByteBits - 1) /\ h > 0 /\ 2^ByteBits = 2 * h
    BY <2>1, PowerNext
  <2>3. 2 * h >= 2 /\ 2 * h \in Nat
    BY <2>2
  <2> QED BY <2>2, <2>3
<1>2. PICK s \in Nat : s = N * N /\ s >= 4
  <2>1. N * N >= 2 * N /\ N * N \in Nat
    BY <1>1
  <2> QED BY <1>1, <2>1
<1>3. PICK t \in Nat : t = s * N /\ t >= 8
  <2>1. s * N >= 4 * N /\ s * N \in Nat
    BY <1>1, <1>2
  <2> QED BY <1>1, <2>1
<1>4. PICK w \in Nat : w = t * N /\ w >= 16
  <2>1. t * N >= 8 * N /\ t * N \in Nat
    BY <1>1, <1>3
  <2> QED BY <1>1, <2>1
<1>5. 2^WordBits = w
  BY <1>1, <1>2, <1>3, <1>4, ByteSize
<1>6. Word = 0 .. w - 1
  BY <1>5, WordSize DEF Low
<1> QED BY <1>4, <1>6

\* Two small numbers make a number of two words.
LEMMA TwoWords ==
    ASSUME NEW a \in 0 .. 14, NEW b \in 0 .. 14
    PROVE  <<a, b>> \in [1 .. 2 -> Word]
<1>1. a \in Word /\ b \in Word
  BY SmallWords
<1>2. <<a, b>> \in Seq(Word) /\ Len(<<a, b>>) = 2
  BY <1>1
<1> QED BY <1>2, SeqFunctions

\* The scoop of a block is the one of the whole digest.
LEMMA BlockScoop ==
    ASSUME NEW sig \in [1 .. 8 -> Word], NEW h \in [1 .. 2 -> Word]
    PROVE  /\ calculate_scoop(h, sig) = Reversed(shabal(sig \o BigEndian(h))[8]) % NUM_SCOOPS
           /\ calculate_scoop(h, sig) \in 0 .. NUM_SCOOPS - 1
<1>1. PICK m : m = sig \o BigEndian(h) /\ m \in [1 .. 10 -> Word]
  <2>1. BigEndian(h) \in [1 .. 2 -> Word] /\ 8 \in Nat /\ 2 \in Nat
    BY BigEndianWords
  <2>2. Joined(Word, sig \o BigEndian(h), sig, 8, BigEndian(h), 2)
    BY ONLY <2>1, sig \in [1 .. 8 -> Word], ConcatFunctions
  <2>3. sig \o BigEndian(h) \in [1 .. 8 + 2 -> Word]
    BY <2>2 DEF Joined
  <2>4. 8 + 2 = 10
    OBVIOUS
  <2> QED BY <2>3, <2>4
<1>2. shabal(m) \in [1 .. 8 -> Word]
  <2>1. 10 \in Nat
    OBVIOUS
  <2> QED BY ONLY <1>1, <2>1, ShabalWords
<1>3. PICK x \in Nat : x = shabal(m)[8]
  <2>1. shabal(m)[8] \in Word
    BY <1>2
  <2>2. \A v \in Word : v \in Nat
    BY WordSize DEF Word
  <2> QED BY <2>1, <2>2
<1>4. calculate_scoop(h, sig)
        = 2^ByteBits * (Byte(x, 2) % 2^(ScoopBits - ByteBits)) + Byte(x, 3)
  BY <1>1, <1>3 DEF calculate_scoop
<1> QED BY <1>1, <1>3, <1>4, ScoopIs

\* What a miner asks for is a request, and its scoop the one of its block.
LEMMA AskedIs ==
    ASSUME NEW n \in {1, 2}
    PROVE  IsRequest(Asked(n)) /\ Asked(n).scoop_nr = DefinedNr(Asked(n))
<1>1. PICK r : r = Asked(n)
  OBVIOUS
<1>2. /\ r.addr = <<n, 1>> /\ r.nonce = <<7 * n, n + 1>> /\ r.gensig = Gensig
      /\ r.scoop_nr = calculate_scoop(Height(n), Gensig)
  BY <1>1 DEF Asked
<1>3. Gensig \in [1 .. 8 -> Word]
  <2>1. 3 \in Nat /\ 8 \in Nat /\ HashWords = 8
    BY DEF HashWords
  <2> QED BY <2>1, MessageIs DEF Gensig
<1>4. Height(n) \in [1 .. 2 -> Word]
  <2>1. n + 2 \in 0 .. 14 /\ 1 \in 0 .. 14
    OBVIOUS
  <2> QED BY <2>1, TwoWords DEF Height
<1>5. r.addr \in [1 .. 2 -> Word]
  <2>1. n \in 0 .. 14 /\ 1 \in 0 .. 14
    OBVIOUS
  <2> QED BY <1>2, <2>1, TwoWords
<1>6. r.nonce \in [1 .. 2 -> Word]
  <2>1. 7 * n \in 0 .. 14 /\ n + 1 \in 0 .. 14
    OBVIOUS
  <2> QED BY <1>2, <2>1, TwoWords
<1>7. /\ r.scoop_nr = Reversed(shabal(Gensig \o BigEndian(Height(n)))[8]) % NUM_SCOOPS
      /\ r.scoop_nr \in 0 .. NUM_SCOOPS - 1
  BY <1>2, <1>3, <1>4, BlockScoop
<1>8. r # Unused
  <2>1. Unused.addr = <<0, 0>>
    BY DEF Unused
  <2>2. r.addr[1] = n /\ Unused.addr[1] = 0
    BY <1>2, <2>1
  <2> QED BY <2>2
<1>9. DefinedNr(r) = r.scoop_nr
  <2>1. r.addr[1] = n
    BY <1>2
  <2> QED BY <1>2, <1>7, <1>8, <2>1 DEF DefinedNr
<1>10. IsRequest(r)
  BY <1>2, <1>3, <1>5, <1>6, <1>7 DEF IsRequest
<1> QED BY <1>1, <1>9, <1>10

\* An unused lane holds a request as well, though nobody's.
LEMMA UnusedIs == IsRequest(Unused) /\ Unused.scoop_nr = DefinedNr(Unused)
<1>1. PICK r : r = Unused
  OBVIOUS
<1>2. r.addr = <<0, 0>> /\ r.nonce = <<0, 0>> /\ r.gensig = Message(4, HashWords) /\ r.scoop_nr = 0
  BY <1>1 DEF Unused
<1>3. r.gensig \in [1 .. 8 -> Word]
  <2>1. PICK l \in Nat, n \in Nat : l = 4 /\ n = 8 /\ HashWords = 8
    BY DEF HashWords
  <2>2. Message(l, n) \in [1 .. n -> Word]
    BY MessageIs
  <2> QED BY <1>2, <2>1, <2>2
<1>4. r.addr \in [1 .. 2 -> Word] /\ r.nonce \in [1 .. 2 -> Word]
  <2>1. 0 \in 0 .. 14
    OBVIOUS
  <2> QED BY <1>2, <2>1, TwoWords
<1>5. r.scoop_nr \in 0 .. NUM_SCOOPS - 1
  <2>1. PICK s \in Nat : s = NUM_SCOOPS /\ s > 0
    BY ScoopsNumber
  <2> QED BY <1>2, <2>1
<1>6. IsRequest(r)
  BY <1>3, <1>4, <1>5 DEF IsRequest
<1>7. DefinedNr(r) = 0
  BY <1>1 DEF DefinedNr
<1> QED BY <1>1, <1>2, <1>6, <1>7

\* A batch is of requests, each for the scoop of its block.
LEMMA RequestsAre ==
    ASSUME NEW r \in Requests
    PROVE  IsRequest(r) /\ r.scoop_nr = DefinedNr(r)
BY AskedIs, UnusedIs DEF Requests

\* No batch, or the deadlines of one.
Answered == kernel \in {"avx2", "sse4"} /\ DeadlineIsOwn

\* At first there is no batch.
LEMMA AnsweredInit == Init => Answered
BY DEF Init, Answered, DeadlineIsOwn

\* A call returns the deadline of each lane's own request.
LEMMA CalculateStep ==
    ASSUME Answered, NEW poc2 \in BOOLEAN, NEW reqs \in [Lanes(kernel) -> Requests],
           Calculate(poc2, reqs)
    PROVE  Answered'
<1>1. PICK K \in {"avx2", "sse4"} : K = kernel /\ kernel' = K
  BY DEF Answered, Calculate
<1>2. deadlines' = Deadlines(K, poc2, reqs)
  BY <1>1 DEF Calculate, calculate_deadlines_avx2, calculate_deadlines_sse4
<1>3. batch'.reqs = reqs /\ batch'.poc2 = poc2
  BY DEF Calculate
<1>4. \A l \in Lanes(K) : IsRequest(reqs[l]) /\ reqs[l].scoop_nr = DefinedNr(reqs[l])
  BY <1>1, RequestsAre
<1>5. ASSUME NEW l \in Lanes(K) PROVE deadlines'[l] = Defined(reqs[l], poc2)
  <2>1. Deadlines(K, poc2, reqs)[l]
          = DeadlineOf(reqs[l], Target(reqs[l], Built(reqs[l]), reqs[l].scoop_nr, poc2))
    BY <1>4, DeadlinesAre
  <2> QED BY <1>2, <1>4, <2>1, DefinedUnfold
<1>6. \A l \in Lanes(kernel') : deadlines'[l] = Defined(batch'.reqs[l], batch'.poc2)
  BY <1>1, <1>3, <1>5
<1> QED BY <1>1, <1>6 DEF Answered, DeadlineIsOwn

\* And nothing else touches them.
LEMMA AnsweredStep == Answered /\ [Next]_vars => Answered'
<1> SUFFICES ASSUME Answered, [Next]_vars PROVE Answered'
  OBVIOUS
<1>1. ASSUME UNCHANGED <<kernel, batch, deadlines>> PROVE Answered'
  BY <1>1 DEF Answered, DeadlineIsOwn
<1>2. ASSUME NEW len \in ChunkLengths, Update(len) PROVE Answered'
  BY <1>1, <1>2 DEF Update
<1>3. CASE Close
  BY <1>1, <1>3 DEF Close
<1>4. CASE Again
  BY <1>4 DEF Again, Answered, DeadlineIsOwn
<1>5. ASSUME NEW poc2 \in BOOLEAN, NEW reqs \in [Lanes(kernel) -> Requests], Calculate(poc2, reqs)
      PROVE  Answered'
  BY <1>5, CalculateStep
<1>6. CASE UNCHANGED vars
  BY <1>1, <1>6 DEF vars
<1> QED BY <1>2, <1>3, <1>4, <1>5, <1>6 DEF Next

\* A miner is told the deadline of its own nonce, whatever the other lanes of
\* the batch were given (calculate_deadlines_avx2, _sse4, calculate_scoop).
THEOREM DeadlineAlwaysOwn == Spec => []DeadlineIsOwn
<1>1. Answered => DeadlineIsOwn
  BY DEF Answered
<1>2. Spec => []Answered
  BY AnsweredInit, AnsweredStep, PTL DEF Spec
<1> QED BY <1>1, <1>2, PTL
=============================================================================
