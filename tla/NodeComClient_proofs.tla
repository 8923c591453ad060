------------------------ MODULE NodeComClient_proofs -------------------------
(***************************************************************************)
(* Machine-checked proofs about the coding of requests and the calls to    *)
(* the pools.                                                              *)
(*                                                                         *)
(* A varint, its reading and the reading of a message are recursive        *)
(* functions, and TLA+ gives a recursive definition a meaning only if such *)
(* a function exists.  RecursiveFunction shows that it does when each      *)
(* argument leads to one of smaller rank; what the functions compute is    *)
(* then proved from a least counterexample (NatLeast).                     *)
(***************************************************************************)
EXTENDS NodeComClient, SequenceTheorems, NaturalsInduction, WellFoundedInduction, TLAPS

-----------------------------------------------------------------------------
(* Induction                                                               *)

\* A set of numbers has a least one.
LEMMA NatLeast ==
    ASSUME NEW S \in SUBSET Nat, S # {}
    PROVE  \E x \in S : \A y \in S : x <= y
<1>1. \E x \in S : \A y \in S : ~(<<y, x>> \in OpToRel(<, Nat))
  BY NatLessThanWellFounded, WFMin
<1>2. PICK x \in S : \A y \in S : ~(<<y, x>> \in OpToRel(<, Nat))
  BY <1>1
<1>3. ASSUME NEW y \in S, y < x PROVE FALSE
  <2>1. <<y, x>> \in OpToRel(<, Nat)
    BY <1>3 DEF OpToRel
  <2> QED BY <1>2, <2>1
<1> QED BY <1>3

-----------------------------------------------------------------------------
(* Recursive functions                                                     *)

\* f is defined on the elements of D up to rank n: by A on Base, and by G from
\* the value at the element P leads to elsewhere.
Low(D, rank, n) == {x \in D : rank[x] <= n}
DefinedUpTo(f, D, S, rank, Base, P, A, G, n) ==
    /\ f \in [Low(D, rank, n) -> S]
    /\ \A x \in Low(D, rank, n) : f[x] = IF x \in Base THEN A[x] ELSE G[x][f[P[x]]]

LEMMA DefinedAt ==
    ASSUME NEW D, NEW S, NEW rank \in [D -> Nat], NEW Base, NEW P,
           NEW A \in [D -> S], NEW G \in [D -> [S -> S]],
           \A x \in D \ Base : P[x] \in D /\ rank[P[x]] < rank[x],
           NEW n \in Nat
    PROVE  \E f : DefinedUpTo(f, D, S, rank, Base, P, A, G, n)
<1> DEFINE Sol(f, k) == DefinedUpTo(f, D, S, rank, Base, P, A, G, k)
           L(k) == Low(D, rank, k)
           T == {k \in Nat : ~ \E f : Sol(f, k)}
<1>1. SUFFICES ASSUME T # {} PROVE FALSE
  OBVIOUS
<1>2. T \in SUBSET Nat
  OBVIOUS
<1>3. PICK m \in T : \A k \in T : m <= k
  <2> HIDE DEF T
  <2> QED BY <1>1, <1>2, NatLeast
<1>4. m \in Nat /\ ~ \E f : Sol(f, m)
  OBVIOUS
<1>5. CASE m = 0
  <2>1. \A x \in L(0) : x \in D /\ x \in Base
    BY DEF Low
  <2>2. Sol([x \in L(0) |-> A[x]], 0)
    BY <2>1 DEF DefinedUpTo
  <2> QED BY <1>4, <1>5, <2>2
<1>6. CASE m > 0
  <2>1. m - 1 \in Nat /\ m - 1 \notin T
    <3>1. m - 1 \in Nat /\ ~(m <= m - 1)
      BY <1>4, <1>6
    <3> HIDE DEF T
    <3> QED BY <1>3, <3>1
  <2>2. PICK g : Sol(g, m - 1)
    BY <2>1
  <2> DEFINE h == [x \in L(m) |-> IF x \in Base THEN A[x] ELSE G[x][g[P[x]]]]
  <2>3. \A x \in L(m) : x \in D /\ (x \notin Base => P[x] \in L(m - 1) /\ P[x] \in L(m))
    BY <1>4, <2>1 DEF Low
  <2>4. g \in [L(m - 1) -> S]
        /\ \A x \in L(m - 1) : g[x] = IF x \in Base THEN A[x] ELSE G[x][g[P[x]]]
    BY <2>2 DEF DefinedUpTo
  <2>5. \A x \in L(m - 1) : x \in L(m)
    BY <1>4 DEF Low
  <2> HIDE DEF L
  <2>6. h \in [L(m) -> S]
    BY <2>3, <2>4
  <2>7. \A x \in L(m - 1) : h[x] = g[x]
    BY <2>4, <2>5
  <2>8. \A x \in L(m) : h[x] = IF x \in Base THEN A[x] ELSE G[x][h[P[x]]]
    BY <2>3, <2>7
  <2> HIDE DEF h
  <2>9. Sol(h, m)
    BY <2>6, <2>8 DEF DefinedUpTo, L
  <2> QED BY <1>4, <2>9
<1> QED BY <1>4, <1>5, <1>6

LEMMA DefinedOnce ==
    ASSUME NEW D, NEW S, NEW rank \in [D -> Nat], NEW Base, NEW P,
           NEW A \in [D -> S], NEW G \in [D -> [S -> S]],
           \A x \in D \ Base : P[x] \in D /\ rank[P[x]] < rank[x],
           NEW n \in Nat, NEW k \in Nat, NEW f, NEW g,
           DefinedUpTo(f, D, S, rank, Base, P, A, G, n),
           DefinedUpTo(g, D, S, rank, Base, P, A, G, k),
           NEW x \in D, rank[x] <= n, rank[x] <= k
    PROVE  f[x] = g[x]
<1> DEFINE Bad == {r \in Nat : \E y \in D : rank[y] = r /\ r <= n /\ r <= k /\ f[y] # g[y]}
<1>1. SUFFICES ASSUME Bad # {} PROVE FALSE
  OBVIOUS
<1>2. Bad \in SUBSET Nat
  OBVIOUS
<1>3. PICK r \in Bad : \A s \in Bad : r <= s
  <2> HIDE DEF Bad
  <2> QED BY <1>1, <1>2, NatLeast
<1>4. PICK y \in D : rank[y] = r /\ r <= n /\ r <= k /\ f[y] # g[y]
  OBVIOUS
<1>5. y \notin Base /\ f[y] = G[y][f[P[y]]] /\ g[y] = G[y][g[P[y]]]
  BY <1>4 DEF DefinedUpTo, Low
<1>6. P[y] \in D /\ rank[P[y]] \in Nat /\ rank[P[y]] < r
  BY <1>4, <1>5
<1>7. f[P[y]] # g[P[y]]
  BY <1>4, <1>5
<1>8. r \in Nat
  OBVIOUS
<1>9. rank[P[y]] \in Bad /\ ~(r <= rank[P[y]])
  BY <1>4, <1>6, <1>7, <1>8
<1> HIDE DEF Bad
<1> QED BY <1>3, <1>9

\* A recursive function that calls itself at most once, for an argument of a
\* smaller rank, exists.
Descends(D, S, rank, Base, P, A, G) ==
    /\ rank \in [D -> Nat] /\ A \in [D -> S] /\ G \in [D -> [S -> S]]
    /\ \A x \in D \ Base : P[x] \in D /\ rank[P[x]] < rank[x]

LEMMA RecursiveFunction ==
    ASSUME NEW D, NEW S, NEW rank, NEW Base, NEW P, NEW A, NEW G,
           Descends(D, S, rank, Base, P, A, G)
    PROVE  \E f \in [D -> S] :
              \A x \in D : f[x] = IF x \in Base THEN A[x] ELSE G[x][f[P[x]]]
<1>1. /\ rank \in [D -> Nat] /\ A \in [D -> S] /\ G \in [D -> [S -> S]]
      /\ \A x \in D \ Base : P[x] \in D /\ rank[P[x]] < rank[x]
  BY DEF Descends
<1> DEFINE Sol(f, k) == DefinedUpTo(f, D, S, rank, Base, P, A, G, k)
           part == [n \in Nat |-> CHOOSE f : Sol(f, n)]
           f == [x \in D |-> part[rank[x]][x]]
<1>2. \A n \in Nat : Sol(part[n], n)
  <2>1. \A n \in Nat : \E g : Sol(g, n)
    BY <1>1, DefinedAt
  <2> HIDE DEF Sol
  <2> QED BY <2>1
<1>3. \A x \in D : rank[x] \in Nat /\ x \in Low(D, rank, rank[x])
  BY <1>1 DEF Low
<1> HIDE DEF part
<1>4. f \in [D -> S]
  BY <1>2, <1>3 DEF DefinedUpTo
<1>5. ASSUME NEW x \in D PROVE f[x] = IF x \in Base THEN A[x] ELSE G[x][f[P[x]]]
  <2>1. part[rank[x]][x] = IF x \in Base THEN A[x] ELSE G[x][part[rank[x]][P[x]]]
    BY <1>2, <1>3 DEF DefinedUpTo
  <2>2. x \notin Base => part[rank[x]][P[x]] = part[rank[P[x]]][P[x]]
    <3> SUFFICES ASSUME x \notin Base PROVE part[rank[x]][P[x]] = part[rank[P[x]]][P[x]]
      OBVIOUS
    <3>1. P[x] \in D /\ rank[P[x]] \in Nat /\ rank[x] \in Nat
          /\ rank[P[x]] <= rank[x] /\ rank[P[x]] <= rank[P[x]]
      BY <1>1
    <3>2. Sol(part[rank[x]], rank[x]) /\ Sol(part[rank[P[x]]], rank[P[x]])
      BY <1>2, <3>1
    <3> QED BY <1>1, <3>1, <3>2, DefinedOnce
  <2>3. f[x] = part[rank[x]][x] /\ (x \notin Base => f[P[x]] = part[rank[P[x]]][P[x]])
    BY <1>1
  <2> HIDE DEF f
  <2> QED BY <2>1, <2>2, <2>3
<1> QED BY <1>4, <1>5

-----------------------------------------------------------------------------
(* Sequences of bytes                                                      *)

LEMMA FirstByte ==
    ASSUME NEW b \in Nat, NEW s \in Seq(Nat)
    PROVE  /\ <<b>> \o s \in Seq(Nat) /\ <<b>> \o s # << >>
           /\ Head(<<b>> \o s) = b /\ Tail(<<b>> \o s) = s
           /\ Len(<<b>> \o s) = 1 + Len(s)
<1>1. <<b>> \in Seq(Nat) /\ Len(<<b>>) = 1 /\ <<b>>[1] = b
  OBVIOUS
<1>2. PICK t : t = <<b>> \o s
  OBVIOUS
<1>3. /\ t \in Seq(Nat) /\ Len(t) = 1 + Len(s) /\ Len(s) \in Nat
      /\ \A i \in 1 .. 1 + Len(s) : t[i] = IF i <= 1 THEN b ELSE s[i - 1]
  BY <1>1, <1>2, ConcatProperties, LenProperties
<1>4. t # << >>
  BY <1>3
<1>5. Head(t) = t[1]
  BY <1>3, <1>4
<1>6. Tail(t) = s
  <2>1. /\ Tail(t) \in Seq(Nat) /\ Len(Tail(t)) = Len(s)
        /\ \A i \in 1 .. Len(Tail(t)) : Tail(t)[i] = t[i + 1]
    BY <1>3, <1>4, HeadTailProperties
  <2>2. \A i \in 1 .. Len(s) : t[i + 1] = s[i]
    BY <1>3
  <2> QED BY <2>1, <2>2, SeqEqual
<1> QED BY <1>2, <1>3, <1>4, <1>5, <1>6

\* Both halves of a sequence that was put together.
LEMMA Halves ==
    ASSUME NEW s \in Seq(Nat), NEW t \in Seq(Nat)
    PROVE  /\ SubSeq(s \o t, 1, Len(s)) = s
           /\ SubSeq(s \o t, Len(s) + 1, Len(s \o t)) = t
<1>1. PICK u : u = s \o t
  OBVIOUS
<1>2. PICK m \in Nat, n \in Nat : m = Len(s) /\ n = Len(t)
  BY LenProperties
<1>3. /\ u \in Seq(Nat) /\ Len(u) = m + n
      /\ \A i \in 1 .. m + n : u[i] = IF i <= m THEN s[i] ELSE t[i - m]
  BY <1>1, <1>2, ConcatProperties
<1>4. \A i \in 1 .. m + n : u[i] \in Nat
  BY <1>3, ElementOfSeq
<1>5. SubSeq(u, 1, m) = s
  <2>1. /\ SubSeq(u, 1, m) \in Seq(Nat) /\ Len(SubSeq(u, 1, m)) = m
        /\ \A i \in 1 .. m : SubSeq(u, 1, m)[i] = u[i]
    <3>1. \A i \in 1 .. m : u[i] \in Nat
      BY <1>4
    <3>2. /\ SubSeq(u, 1, m) \in Seq(Nat)
          /\ Len(SubSeq(u, 1, m)) = IF 1 <= m THEN m - 1 + 1 ELSE 0
          /\ \A i \in 1 .. m - 1 + 1 : SubSeq(u, 1, m)[i] = u[1 + i - 1]
      BY <3>1, SubSeqProperties
    <3> QED BY <3>2
  <2> QED BY <1>2, <1>3, <2>1, SeqEqual
<1>6. SubSeq(u, m + 1, m + n) = t
  <2>1. /\ SubSeq(u, m + 1, m + n) \in Seq(Nat) /\ Len(SubSeq(u, m + 1, m + n)) = n
        /\ \A i \in 1 .. n : SubSeq(u, m + 1, m + n)[i] = u[m + i]
    <3>1. \A i \in m + 1 .. m + n : u[i] \in Nat
      BY <1>4
    <3>2. PICK p \in Int, q \in Int : p = m + 1 /\ q = m + n
      OBVIOUS
    <3>3. /\ SubSeq(u, p, q) \in Seq(Nat)
          /\ Len(SubSeq(u, p, q)) = IF p <= q THEN q - p + 1 ELSE 0
          /\ \A i \in 1 .. q - p + 1 : SubSeq(u, p, q)[i] = u[p + i - 1]
      BY <3>1, <3>2, SubSeqProperties
    <3>4. \A i \in 1 .. n : p + i - 1 = m + i
      BY <3>2
    <3>5. \A i \in 1 .. n : SubSeq(u, p, q)[i] = u[m + i]
      BY <3>2, <3>3, <3>4
    <3> QED BY <3>2, <3>3, <3>5
  <2>2. \A i \in 1 .. n : u[m + i] = t[i]
    BY <1>3
  <2> QED BY <1>2, <2>1, <2>2, SeqEqual
<1> QED BY <1>1, <1>2, <1>3, <1>5, <1>6

-----------------------------------------------------------------------------
(* Varints                                                                 *)

LEMMA Divided ==
    ASSUME NEW n \in Nat
    PROVE  /\ n \div 128 \in Nat /\ n % 128 \in 0 .. 127
           /\ n = 128 * (n \div 128) + (n % 128)
           /\ n >= 128 => n \div 128 < n
OBVIOUS

LEMMA VarintDef ==
    \A n \in Nat :
        /\ Varint(n) \in Seq(Nat)
        /\ Varint(n) = IF n < 128 THEN <<n>> ELSE <<128 + (n % 128)>> \o Varint(n \div 128)
<1> DEFINE bytes == CHOOSE f : f = [x \in Nat |-> IF x < 128 THEN <<x>>
                                                ELSE <<128 + (x % 128)>> \o f[x \div 128]]
           Base == 0 .. 127
           rank == [x \in Nat |-> x]
           P == [x \in Nat |-> x \div 128]
           A == [x \in Nat |-> <<x>>]
           G == [x \in Nat |-> [s \in Seq(Nat) |-> <<128 + (x % 128)>> \o s]]
<1>1. \A n : Varint(n) = bytes[n]
  BY DEF Varint
<1>2. \A x \in Nat \ Base : P[x] \in Nat /\ rank[P[x]] < rank[x]
  BY Divided
<1>3. \A x \in Nat : 128 + (x % 128) \in Nat
  BY Divided
<1>4. \A x \in Nat, s \in Seq(Nat) : <<128 + (x % 128)>> \o s \in Seq(Nat)
  BY <1>3, FirstByte
<1>5. /\ rank \in [Nat -> Nat] /\ A \in [Nat -> Seq(Nat)]
      /\ G \in [Nat -> [Seq(Nat) -> Seq(Nat)]]
  BY <1>4
<1>6. PICK f \in [Nat -> Seq(Nat)] :
         \A x \in Nat : f[x] = IF x \in Base THEN A[x] ELSE G[x][f[P[x]]]
  <2>1. Descends(Nat, Seq(Nat), rank, Base, P, A, G)
    BY <1>2, <1>5 DEF Descends
  <2> DEFINE D == Nat
             S == Seq(Nat)
  <2>2. Descends(D, S, rank, Base, P, A, G)
    BY <2>1
  <2> HIDE DEF bytes, Base, rank, P, A, G, D, S
  <2>3. \E f \in [D -> S] : \A x \in D : f[x] = IF x \in Base THEN A[x] ELSE G[x][f[P[x]]]
    BY <2>2, RecursiveFunction
  <2> QED BY <2>3 DEF D, S
<1>7. \A x \in Nat : f[x] = IF x < 128 THEN <<x>> ELSE <<128 + (x % 128)>> \o f[x \div 128]
  <2>1. SUFFICES ASSUME NEW x \in Nat
                 PROVE  f[x] = IF x < 128 THEN <<x>>
                               ELSE <<128 + (x % 128)>> \o f[x \div 128]
    OBVIOUS
  <2>2. x \div 128 \in Nat /\ (x \in Base <=> x < 128)
    BY Divided
  <2> QED BY <1>6, <2>2
<1>8. f = [x \in Nat |-> IF x < 128 THEN <<x>> ELSE <<128 + (x % 128)>> \o f[x \div 128]]
  BY <1>7
<1>9. bytes = [x \in Nat |-> IF x < 128 THEN <<x>>
                             ELSE <<128 + (x % 128)>> \o bytes[x \div 128]]
  BY <1>8
<1> HIDE DEF bytes
<1>10. \A x \in Nat : bytes[x] = IF x < 128 THEN <<x>>
                                 ELSE <<128 + (x % 128)>> \o bytes[x \div 128]
  BY <1>9
<1>11. \A x \in Nat : x >= 128 => bytes[x] = <<128 + (x % 128)>> \o bytes[x \div 128]
  <2>1. SUFFICES ASSUME NEW x \in Nat, x >= 128
                 PROVE  bytes[x] = <<128 + (x % 128)>> \o bytes[x \div 128]
    OBVIOUS
  <2>2. ~(x < 128)
    BY <2>1
  <2>3. PICK d : d = bytes[x \div 128]
    OBVIOUS
  <2>4. bytes[x] = IF x < 128 THEN <<x>> ELSE <<128 + (x % 128)>> \o d
    BY <1>10, <2>3
  <2> QED BY <2>2, <2>3, <2>4
<1>12. \A x \in Nat : bytes[x] \in Seq(Nat)
  <2> DEFINE Bad == {x \in Nat : bytes[x] \notin Seq(Nat)}
  <2>1. SUFFICES ASSUME Bad # {} PROVE FALSE
    OBVIOUS
  <2>2. Bad \in SUBSET Nat
    OBVIOUS
  <2>3. PICK m \in Bad : \A y \in Bad : m <= y
    <3> HIDE DEF Bad
    <3> QED BY <2>1, <2>2, NatLeast
  <2>4. m \in Nat /\ bytes[m] \notin Seq(Nat)
    OBVIOUS
  <2> HIDE DEF Bad
  <2>5. m >= 128
    <3>1. m < 128 => bytes[m] = <<m>>
      BY <1>10, <2>4
    <3>2. <<m>> \in Seq(Nat)
      BY <2>4
    <3>3. ~(m < 128)
      BY <2>4, <3>1, <3>2, Zenon
    <3> QED BY <2>4, <3>3
  <2>6. m \div 128 \in Nat /\ m \div 128 < m
    BY <2>4, <2>5, Divided
  <2>7. m \div 128 \notin Bad
    BY <2>3, <2>4, <2>6
  <2>8. bytes[m \div 128] \in Seq(Nat)
    BY <2>6, <2>7 DEF Bad
  <2>9. bytes[m] = <<128 + (m % 128)>> \o bytes[m \div 128]
    BY <1>11, <2>4, <2>5
  <2> QED BY <1>4, <2>4, <2>8, <2>9
<1> QED BY <1>1, <1>10, <1>12

LEMMA VarintSizeDef ==
    \A n \in Nat :
        /\ VarintSize(n) \in Nat
        /\ n < 128 => VarintSize(n) = 1
        /\ n >= 128 => VarintSize(n) = 1 + VarintSize(n \div 128)
<1> DEFINE size == CHOOSE f : f = [x \in Nat |-> IF x < 128 THEN 1 ELSE 1 + f[x \div 128]]
           Base == 0 .. 127
           rank == [x \in Nat |-> x]
           P == [x \in Nat |-> x \div 128]
           A == [x \in Nat |-> 1]
           G == [x \in Nat |-> [k \in Nat |-> 1 + k]]
<1>1. \A n : VarintSize(n) = size[n]
  BY DEF VarintSize
<1>2. \A x \in Nat \ Base : P[x] \in Nat /\ rank[P[x]] < rank[x]
  BY Divided
<1>3. rank \in [Nat -> Nat] /\ A \in [Nat -> Nat] /\ G \in [Nat -> [Nat -> Nat]]
  OBVIOUS
<1>4. PICK f \in [Nat -> Nat] :
         \A x \in Nat : f[x] = IF x \in Base THEN A[x] ELSE G[x][f[P[x]]]
  <2>1. Descends(Nat, Nat, rank, Base, P, A, G)
    BY <1>2, <1>3 DEF Descends
  <2> DEFINE D == Nat
  <2>2. Descends(D, D, rank, Base, P, A, G)
    BY <2>1
  <2> HIDE DEF size, Base, rank, P, A, G, D
  <2>3. \E f \in [D -> D] : \A x \in D : f[x] = IF x \in Base THEN A[x] ELSE G[x][f[P[x]]]
    BY <2>2, RecursiveFunction
  <2> QED BY <2>3 DEF D
<1>5. \A x \in Nat : f[x] = IF x < 128 THEN 1 ELSE 1 + f[x \div 128]
  <2>1. SUFFICES ASSUME NEW x \in Nat
                 PROVE  f[x] = IF x < 128 THEN 1 ELSE 1 + f[x \div 128]
    OBVIOUS
  <2>2. x \div 128 \in Nat /\ (x \in Base <=> x < 128)
    BY Divided
  <2> QED BY <1>4, <2>2
<1>6. f = [x \in Nat |-> IF x < 128 THEN 1 ELSE 1 + f[x \div 128]]
  BY <1>5
<1>7. size = [x \in Nat |-> IF x < 128 THEN 1 ELSE 1 + size[x \div 128]]
  BY <1>6
<1> HIDE DEF size
<1>8. \A x \in Nat : size[x] = IF x < 128 THEN 1 ELSE 1 + size[x \div 128]
  BY <1>7
<1>9. \A x \in Nat : x >= 128 => size[x] = 1 + size[x \div 128]
  <2>1. SUFFICES ASSUME NEW x \in Nat, x >= 128
                 PROVE  size[x] = 1 + size[x \div 128]
    OBVIOUS
  <2>2. ~(x < 128)
    BY <2>1
  <2>3. PICK d : d = size[x \div 128]
    OBVIOUS
  <2>4. size[x] = IF x < 128 THEN 1 ELSE 1 + d
    BY <1>8, <2>3
  <2> QED BY <2>2, <2>3, <2>4
<1>10. \A x \in Nat : x < 128 => size[x] = 1
  BY <1>8
<1>11. \A x \in Nat : size[x] \in Nat
  <2> DEFINE Bad == {x \in Nat : size[x] \notin Nat}
  <2>1. SUFFICES ASSUME Bad # {} PROVE FALSE
    OBVIOUS
  <2>2. Bad \in SUBSET Nat
    OBVIOUS
  <2>3. PICK m \in Bad : \A y \in Bad : m <= y
    <3> HIDE DEF Bad
    <3> QED BY <2>1, <2>2, NatLeast
  <2>4. m \in Nat /\ size[m] \notin Nat
    OBVIOUS
  <2> HIDE DEF Bad
  <2>5. m >= 128
    BY <1>10, <2>4
  <2>6. m \div 128 \in Nat /\ m \div 128 < m
    BY <2>4, <2>5, Divided
  <2>7. m \div 128 \notin Bad
    BY <2>3, <2>4, <2>6
  <2>8. size[m \div 128] \in Nat
    BY <2>6, <2>7 DEF Bad
  <2>9. size[m] = 1 + size[m \div 128]
    BY <1>9, <2>4, <2>5
  <2> QED BY <2>4, <2>8, <2>9
<1> QED BY <1>1, <1>9, <1>10, <1>11

\* A varint has the length that was computed for it.
LEMMA VarintLength ==
    \A n \in Nat : Len(Varint(n)) = VarintSize(n) /\ Len(Varint(n)) > 0
<1> DEFINE Bad == {x \in Nat : ~(Len(Varint(x)) = VarintSize(x) /\ Len(Varint(x)) > 0)}
<1>1. SUFFICES ASSUME Bad # {} PROVE FALSE
  OBVIOUS
<1>2. Bad \in SUBSET Nat
  OBVIOUS
<1>3. PICK m \in Bad : \A y \in Bad : m <= y
  <2> HIDE DEF Bad
  <2> QED BY <1>1, <1>2, NatLeast
<1>4. m \in Nat /\ ~(Len(Varint(m)) = VarintSize(m) /\ Len(Varint(m)) > 0)
  OBVIOUS
<1> HIDE DEF Bad
<1>5. m >= 128
  <2>1. SUFFICES ASSUME m < 128 PROVE FALSE
    BY <1>4
  <2>2. Varint(m) = <<m>> /\ VarintSize(m) = 1
    BY <1>4, <2>1, VarintDef, VarintSizeDef
  <2>3. Len(<<m>>) = 1
    OBVIOUS
  <2> QED BY <1>4, <2>2, <2>3
<1>6. PICK d \in Nat, b \in Nat : d = m \div 128 /\ b = 128 + (m % 128) /\ d < m
  BY <1>4, <1>5, Divided
<1>7. d \notin Bad
  BY <1>3, <1>4, <1>6
<1>8. Len(Varint(d)) = VarintSize(d) /\ Len(Varint(d)) > 0
  BY <1>6, <1>7 DEF Bad
<1>9. Varint(m) = <<b>> \o Varint(d) /\ VarintSize(m) = 1 + VarintSize(d)
  <2>1. ~(m < 128)
    BY <1>4, <1>5
  <2> QED BY <1>4, <1>5, <1>6, <2>1, VarintDef, VarintSizeDef
<1>10. Varint(d) \in Seq(Nat) /\ VarintSize(d) \in Nat
  BY <1>6, VarintDef, VarintSizeDef
<1>11. Len(<<b>> \o Varint(d)) = 1 + Len(Varint(d))
  BY <1>6, <1>10, FirstByte
<1> QED BY <1>4, <1>8, <1>9, <1>10, <1>11

Readings == [length : Nat, value : Nat]

LEMMA ReadVarintDef ==
    /\ \A s \in Seq(Nat) : ReadVarint(s) \in Readings
    /\ \A b \in Nat, s \in Seq(Nat) :
          /\ b < 128 => ReadVarint(<<b>> \o s) = [length |-> 1, value |-> b]
          /\ b >= 128 /\ ReadVarint(s).length > 0 =>
                ReadVarint(<<b>> \o s) = [length |-> ReadVarint(s).length + 1,
                                          value |-> (b % 128) + 128 * ReadVarint(s).value]
<1> DEFINE Longer(r, low) == IF r.length = 0 THEN r
                             ELSE [length |-> r.length + 1, value |-> low + 128 * r.value]
           read == CHOOSE f : f =
                      [s \in Seq(Nat) |->
                          IF s = << >> THEN [length |-> 0, value |-> 0]
                          ELSE IF Head(s) < 128 THEN [length |-> 1, value |-> Head(s)]
                          ELSE Longer(f[Tail(s)], Head(s) % 128)]
           Base == {s \in Seq(Nat) : s = << >> \/ Head(s) < 128}
           rank == [s \in Seq(Nat) |-> Len(s)]
           P == [s \in Seq(Nat) |-> Tail(s)]
           A == [s \in Seq(Nat) |-> IF s = << >> THEN [length |-> 0, value |-> 0]
                                    ELSE [length |-> 1, value |-> Head(s)]]
           G == [s \in Seq(Nat) |-> [r \in Readings |->
                    IF s \in Base THEN r ELSE Longer(r, Head(s) % 128)]]
<1>1. \A s : ReadVarint(s) = read[s]
  BY DEF ReadVarint
<1>2. \A s \in Seq(Nat) : s # << >> =>
         Head(s) \in Nat /\ Tail(s) \in Seq(Nat) /\ Len(Tail(s)) < Len(s)
  <2>1. SUFFICES ASSUME NEW s \in Seq(Nat), s # << >>
                 PROVE  Head(s) \in Nat /\ Tail(s) \in Seq(Nat) /\ Len(Tail(s)) < Len(s)
    OBVIOUS
  <2>2. Head(s) \in Nat /\ Tail(s) \in Seq(Nat) /\ Len(Tail(s)) = Len(s) - 1
    BY <2>1, HeadTailProperties
  <2>3. Len(s) \in Nat
    BY LenProperties
  <2> QED BY <2>2, <2>3
<1>3. \A s \in Seq(Nat) \ Base : P[s] \in Seq(Nat) /\ rank[P[s]] < rank[s]
  <2>1. SUFFICES ASSUME NEW s \in Seq(Nat), s # << >>
                 PROVE  P[s] \in Seq(Nat) /\ rank[P[s]] < rank[s]
    OBVIOUS
  <2> QED BY <1>2, <2>1
<1>4. \A r \in Readings, low \in Nat : Longer(r, low) \in Readings
  BY DEF Readings
<1>5. rank \in [Seq(Nat) -> Nat]
  BY LenProperties
<1>6. A \in [Seq(Nat) -> Readings]
  BY <1>2 DEF Readings
<1>7. G \in [Seq(Nat) -> [Readings -> Readings]]
  <2>1. \A s \in Seq(Nat) : s \notin Base => Head(s) % 128 \in Nat
    <3>1. SUFFICES ASSUME NEW s \in Seq(Nat), s # << >> PROVE Head(s) % 128 \in Nat
      OBVIOUS
    <3>2. PICK h \in Nat : h = Head(s)
      BY <1>2, <3>1
    <3> QED BY <3>2, Divided
  <2> HIDE DEF Longer, Base
  <2>2. \A s \in Seq(Nat), r \in Readings :
           (IF s \in Base THEN r ELSE Longer(r, Head(s) % 128)) \in Readings
    BY <1>4, <2>1
  <2> QED BY <2>2
<1>8. PICK f \in [Seq(Nat) -> Readings] :
         \A s \in Seq(Nat) : f[s] = IF s \in Base THEN A[s] ELSE G[s][f[P[s]]]
  <2>1. Descends(Seq(Nat), Readings, rank, Base, P, A, G)
    BY <1>3, <1>5, <1>6, <1>7 DEF Descends
  <2> DEFINE D == Seq(Nat)
  <2>2. Descends(D, Readings, rank, Base, P, A, G)
    BY <2>1
  <2> HIDE DEF read, Base, rank, P, A, G, D
  <2>3. \E f \in [D -> Readings] :
           \A x \in D : f[x] = IF x \in Base THEN A[x] ELSE G[x][f[P[x]]]
    BY <2>2, RecursiveFunction
  <2> QED BY <2>3 DEF D
<1>9. \A s \in Seq(Nat) :
         f[s] = IF s = << >> THEN [length |-> 0, value |-> 0]
                ELSE IF Head(s) < 128 THEN [length |-> 1, value |-> Head(s)]
                ELSE Longer(f[Tail(s)], Head(s) % 128)
  <2>1. SUFFICES ASSUME NEW s \in Seq(Nat)
                 PROVE  f[s] = IF s = << >> THEN [length |-> 0, value |-> 0]
                               ELSE IF Head(s) < 128 THEN [length |-> 1, value |-> Head(s)]
                               ELSE Longer(f[Tail(s)], Head(s) % 128)
    OBVIOUS
  <2>2. CASE s \in Base
    <3>1. f[s] = A[s]
      BY <1>8, <2>2
    <3> HIDE DEF Longer
    <3> QED BY <2>2, <3>1
  <2>3. CASE s \notin Base
    <3>1. s # << >> /\ ~(Head(s) < 128)
      BY <2>3
    <3>2. Tail(s) \in Seq(Nat) /\ P[s] = Tail(s)
      BY <1>2, <3>1
    <3>3. PICK r \in Readings : r = f[Tail(s)]
      BY <3>2
    <3>4. f[s] = G[s][r]
      BY <1>8, <2>3, <3>2, <3>3
    <3> HIDE DEF Longer, Base
    <3>5. G[s][r] = Longer(r, Head(s) % 128)
      BY <2>3
    <3> QED BY <3>1, <3>3, <3>4, <3>5
  <2> QED BY <2>2, <2>3
<1>10. f = [s \in Seq(Nat) |->
              IF s = << >> THEN [length |-> 0, value |-> 0]
              ELSE IF Head(s) < 128 THEN [length |-> 1, value |-> Head(s)]
              ELSE Longer(f[Tail(s)], Head(s) % 128)]
  <2> HIDE DEF Longer
  <2> QED BY <1>9
<1>11. read = [s \in Seq(Nat) |->
              IF s = << >> THEN [length |-> 0, value |-> 0]
              ELSE IF Head(s) < 128 THEN [length |-> 1, value |-> Head(s)]
              ELSE Longer(read[Tail(s)], Head(s) % 128)]
  <2> HIDE DEF Longer
  <2> QED BY <1>10
<1> HIDE DEF read
<1>12. \A s \in Seq(Nat) :
         read[s] = IF s = << >> THEN [length |-> 0, value |-> 0]
                   ELSE IF Head(s) < 128 THEN [length |-> 1, value |-> Head(s)]
                   ELSE Longer(read[Tail(s)], Head(s) % 128)
  <2> HIDE DEF Longer
  <2> QED BY <1>11
<1>13. ASSUME NEW b \in Nat, NEW s \in Seq(Nat)
       PROVE  read[<<b>> \o s] = IF b < 128 THEN [length |-> 1, value |-> b]
                                 ELSE Longer(read[s], b % 128)
  <2>1. PICK t : t = <<b>> \o s
    OBVIOUS
  <2>2. t \in Seq(Nat) /\ t # << >> /\ Head(t) = b /\ Tail(t) = s
    BY <2>1, FirstByte
  <2> HIDE DEF Longer
  <2> QED BY <1>12, <2>1, <2>2
<1>14. \A s \in Seq(Nat) : read[s] \in Readings
  <2> DEFINE Bad == {n \in Nat : \E s \in Seq(Nat) : Len(s) = n /\ read[s] \notin Readings}
  <2>1. SUFFICES ASSUME Bad # {} PROVE FALSE
    BY LenProperties
  <2>2. Bad \in SUBSET Nat
    OBVIOUS
  <2>3. PICK m \in Bad : \A y \in Bad : m <= y
    <3> HIDE DEF Bad
    <3> QED BY <2>1, <2>2, NatLeast
  <2>4. PICK s \in Seq(Nat) : Len(s) = m /\ read[s] \notin Readings
    OBVIOUS
  <2>5. m \in Nat
    OBVIOUS
  <2>6. s # << >> /\ ~(Head(s) < 128)
    <3>1. [length |-> 0, value |-> 0] \in Readings
      BY DEF Readings
    <3>2. s # << >>
      BY <1>12, <2>4, <3>1
    <3>3. Head(s) \in Nat
      BY <1>2, <3>2
    <3>4. [length |-> 1, value |-> Head(s)] \in Readings
      BY <3>3 DEF Readings
    <3> QED BY <1>12, <2>4, <3>2, <3>4
  <2>7. Tail(s) \in Seq(Nat) /\ Len(Tail(s)) < m /\ Head(s) \in Nat
    BY <1>2, <2>4, <2>6
  <2>8. Len(Tail(s)) \in Nat
    BY <2>7, LenProperties
  <2> HIDE DEF Bad
  <2>9. Len(Tail(s)) \notin Bad
    BY <2>3, <2>5, <2>7, <2>8
  <2>10. read[Tail(s)] \in Readings
    BY <2>7, <2>8, <2>9 DEF Bad
  <2>11. Head(s) % 128 \in Nat
    BY <2>7, Divided
  <2> HIDE DEF Longer
  <2>12. read[s] = Longer(read[Tail(s)], Head(s) % 128)
    BY <1>12, <2>4, <2>6
  <2> QED BY <1>4, <2>4, <2>10, <2>11, <2>12
<1>15. ASSUME NEW b \in Nat, NEW s \in Seq(Nat), b < 128
       PROVE  read[<<b>> \o s] = [length |-> 1, value |-> b]
  BY <1>13, <1>15
<1>16. ASSUME NEW b \in Nat, NEW s \in Seq(Nat), b >= 128, read[s].length > 0
       PROVE  read[<<b>> \o s] = [length |-> read[s].length + 1,
                                  value |-> (b % 128) + 128 * read[s].value]
  <2>1. ~(b < 128) /\ read[s].length # 0
    BY <1>14, <1>16 DEF Readings
  <2>2. read[<<b>> \o s] = Longer(read[s], b % 128)
    <3> HIDE DEF Longer
    <3> QED BY <1>13, <2>1
  <2> QED BY <2>1, <2>2
<1>17. \A s \in Seq(Nat) : ReadVarint(s) \in Readings
  BY <1>1, <1>14
<1>18. ASSUME NEW b \in Nat, NEW s \in Seq(Nat), b < 128
       PROVE  ReadVarint(<<b>> \o s) = [length |-> 1, value |-> b]
  BY <1>1, <1>15, <1>18
<1>19. ASSUME NEW b \in Nat, NEW s \in Seq(Nat), b >= 128, ReadVarint(s).length > 0
       PROVE  ReadVarint(<<b>> \o s) = [length |-> ReadVarint(s).length + 1,
                                         value |-> (b % 128) + 128 * ReadVarint(s).value]
  BY <1>1, <1>16, <1>19
<1> QED BY <1>17, <1>18, <1>19

\* What was written is read, whatever follows it.
LEMMA VarintRead ==
    \A n \in Nat, s \in Seq(Nat) :
        ReadVarint(Varint(n) \o s) = [length |-> Len(Varint(n)), value |-> n]
<1> DEFINE Reads(n) == \A s \in Seq(Nat) :
              ReadVarint(Varint(n) \o s) = [length |-> Len(Varint(n)), value |-> n]
           Bad == {n \in Nat : ~Reads(n)}
<1>1. SUFFICES ASSUME Bad # {} PROVE FALSE
  OBVIOUS
<1>2. Bad \in SUBSET Nat
  OBVIOUS
<1>3. PICK m \in Bad : \A y \in Bad : m <= y
  <2> HIDE DEF Bad
  <2> QED BY <1>1, <1>2, NatLeast
<1>4. PICK s \in Seq(Nat) :
         m \in Nat /\ ReadVarint(Varint(m) \o s) # [length |-> Len(Varint(m)), value |-> m]
  OBVIOUS
<1> HIDE DEF Bad
<1>5. m >= 128
  <2>1. SUFFICES ASSUME m < 128 PROVE FALSE
    BY <1>4
  <2>2. Varint(m) = <<m>>
    BY <1>4, <2>1, VarintDef
  <2>3. Len(<<m>>) = 1
    OBVIOUS
  <2>4. ReadVarint(<<m>> \o s) = [length |-> 1, value |-> m]
    BY <1>4, <2>1, ReadVarintDef
  <2> QED BY <1>4, <2>2, <2>3, <2>4
<1>6. PICK d \in Nat, b \in Nat, l \in Nat :
         /\ d = m \div 128 /\ l = m % 128 /\ b = 128 + l /\ d < m
         /\ l < 128 /\ m = 128 * d + l
  BY <1>4, <1>5, Divided
<1>7. d \notin Bad
  BY <1>3, <1>4, <1>6
<1>8. PICK v \in Seq(Nat) : v = Varint(d) /\ Len(v) \in Nat /\ Len(v) > 0
  <2>1. Varint(d) \in Seq(Nat)
    BY <1>6, VarintDef
  <2>2. Len(Varint(d)) > 0 /\ Len(Varint(d)) \in Nat
    BY <1>6, <2>1, VarintLength, LenProperties
  <2> QED BY <2>1, <2>2
<1>9. ReadVarint(v \o s) = [length |-> Len(v), value |-> d]
  BY <1>6, <1>7, <1>8 DEF Bad
<1>10. Varint(m) = <<b>> \o v
  <2>1. ~(m < 128)
    BY <1>4, <1>5
  <2> QED BY <1>4, <1>6, <1>8, <2>1, VarintDef
<1>11. Varint(m) \o s = <<b>> \o (v \o s) /\ v \o s \in Seq(Nat)
  <2>1. <<b>> \in Seq(Nat)
    BY <1>6
  <2> QED BY <1>10, <2>1, ConcatAssociative, ConcatProperties
<1>12. ReadVarint(Varint(m) \o s) = [length |-> Len(v) + 1, value |-> (b % 128) + 128 * d]
  <2>1. PICK r : r = ReadVarint(v \o s)
    OBVIOUS
  <2>2. r.length = Len(v) /\ r.value = d
    BY <1>9, <2>1
  <2>3. b >= 128 /\ r.length > 0
    BY <1>6, <1>8, <2>2
  <2>4. ReadVarint(<<b>> \o (v \o s)) = [length |-> r.length + 1,
                                          value |-> (b % 128) + 128 * r.value]
    BY <1>11, <2>1, <2>3, ReadVarintDef
  <2> QED BY <1>11, <2>2, <2>4
<1>13. b % 128 = l
  BY <1>6
<1>14. Len(Varint(m)) = 1 + Len(v)
  BY <1>6, <1>8, <1>10, FirstByte
<1>15. (b % 128) + 128 * d = m /\ Len(v) + 1 = Len(Varint(m))
  BY <1>6, <1>8, <1>13, <1>14
<1> QED BY <1>4, <1>12, <1>15

-----------------------------------------------------------------------------
(* Fields                                                                  *)

Fields == Numbers \cup {"secret"}

LEMMA Tags ==
    /\ \A f \in Fields : Tag(f) \in Nat /\ Tag(f) # 0
    /\ \A f \in Numbers : Tag(f) % 8 = 0
    /\ Tag("secret") % 8 = 2
    /\ \A f, g \in Fields : Tag(f) = Tag(g) => f = g
BY DEF Fields, Numbers, Tag, FieldNumber

\* Bytes from one place to another that are there.
LEMMA Piece ==
    ASSUME NEW s \in Seq(Nat), NEW i \in Nat, i > 0, NEW j \in Int, j <= Len(s)
    PROVE  SubSeq(s, i, j) \in Seq(Nat)
           /\ Len(SubSeq(s, i, j)) = IF i <= j THEN j - i + 1 ELSE 0
<1>1. \A k \in i .. j : s[k] \in Nat
  <2>1. Len(s) \in Nat
    BY LenProperties
  <2>2. \A k \in i .. j : k \in 1 .. Len(s)
    BY <2>1
  <2> QED BY <2>2, ElementOfSeq
<1> QED BY <1>1, SubSeqProperties

LEMMA SkippedTyped ==
    ASSUME NEW tag \in Nat, NEW s \in Seq(Nat)
    PROVE  SkippedField(tag, s) \in Int /\ SkippedField(tag, s) <= Len(s)
<1>1. PICK v \in Readings : v = ReadVarint(s)
  BY ReadVarintDef
<1>2. v.length \in Nat /\ v.value \in Nat
  BY <1>1 DEF Readings
<1>3. Len(s) \in Nat
  BY LenProperties
<1> QED BY <1>1, <1>2, <1>3 DEF SkippedField

LEMMA MergedTyped ==
    ASSUME NEW m \in Messages, NEW tag \in Nat, NEW s \in Seq(Nat)
    PROVE  Merged(m, tag, s) \in Messages
<1>1. PICK v \in Readings : v = ReadVarint(s)
  BY ReadVarintDef
<1>2. PICK n \in Nat, k \in Nat : n = v.value /\ k = v.length + 1 /\ k > 0
  BY <1>1 DEF Readings
<1>3. PICK x \in Seq(Nat) : x = SubSeq(s, k, SkippedField(tag, s))
  BY <1>2, SkippedTyped, Piece
<1>4. Merged(m, tag, s) = [f \in DOMAIN m |-> IF tag # Tag(f) THEN m[f]
                                              ELSE IF f \in Numbers THEN n ELSE x]
  BY <1>1, <1>2, <1>3 DEF Merged
<1>5. DOMAIN m = {"accountid", "nonce", "deadline", "blockheight", "secret"}
  BY DEF Messages
<1>6. \A f \in DOMAIN m : f # "secret" <=> f \in Numbers
  BY <1>5 DEF Numbers
<1>7. /\ m["accountid"] \in Nat /\ m["nonce"] \in Nat /\ m["deadline"] \in Nat
      /\ m["blockheight"] \in Nat /\ m["secret"] \in Seq(Nat)
  BY DEF Messages
<1>8. PICK r : r = Merged(m, tag, s)
  OBVIOUS
<1>9. r = [f \in {"accountid", "nonce", "deadline", "blockheight", "secret"} |->
              IF tag # Tag(f) THEN m[f] ELSE IF f \in Numbers THEN n ELSE x]
  BY <1>4, <1>5, <1>8
<1>10. /\ r["accountid"] \in Nat /\ r["nonce"] \in Nat /\ r["deadline"] \in Nat
       /\ r["blockheight"] \in Nat /\ r["secret"] \in Seq(Nat)
  BY <1>7, <1>9 DEF Numbers
<1>11. r = [accountid |-> r["accountid"], nonce |-> r["nonce"], deadline |-> r["deadline"],
            blockheight |-> r["blockheight"], secret |-> r["secret"]]
  BY <1>9
<1> QED BY <1>8, <1>10, <1>11 DEF Messages

Inputs == [message : Messages, bytes : Seq(Nat)]
Outcomes == [message : Messages, ok : BOOLEAN]

LEMMA MergeDef ==
    /\ \A m \in Messages :
          MergePartialFromCodedStream(m, << >>) = [message |-> m, ok |-> TRUE]
    /\ \A m \in Messages, tag \in Nat, rest \in Seq(Nat) :
          tag # 0 /\ SkippedField(tag, rest) >= 0 =>
             MergePartialFromCodedStream(m, <<tag>> \o rest) =
                MergePartialFromCodedStream(Merged(m, tag, rest),
                    SubSeq(rest, SkippedField(tag, rest) + 1, Len(rest)))
<1> DEFINE Over(i) == i.bytes = << >> \/ Head(i.bytes) = 0
           Skip(i) == SkippedField(Head(i.bytes), Tail(i.bytes))
           Good(i) == [message |-> i.message, ok |-> TRUE]
           Poor(i) == [message |-> i.message, ok |-> FALSE]
           After(i) == [message |-> Merged(i.message, Head(i.bytes), Tail(i.bytes)),
                        bytes |-> SubSeq(Tail(i.bytes), Skip(i) + 1, Len(Tail(i.bytes)))]
           merge == CHOOSE f : f = [i \in Inputs |->
                       IF Over(i) THEN Good(i) ELSE IF Skip(i) < 0 THEN Poor(i)
                       ELSE f[After(i)]]
           Base == {i \in Inputs : Over(i) \/ Skip(i) < 0}
           rank == [i \in Inputs |-> Len(i.bytes)]
           P == [i \in Inputs |-> After(i)]
           A == [i \in Inputs |-> IF Over(i) THEN Good(i) ELSE Poor(i)]
           G == [i \in Inputs |-> [r \in Outcomes |-> r]]
<1>1. \A m, s : MergePartialFromCodedStream(m, s) = merge[[message |-> m, bytes |-> s]]
  BY DEF MergePartialFromCodedStream, Inputs
<1>2. \A i \in Inputs : i.message \in Messages /\ i.bytes \in Seq(Nat)
  BY DEF Inputs
<1>3. \A i \in Inputs : ~Over(i) =>
         /\ Head(i.bytes) \in Nat /\ Tail(i.bytes) \in Seq(Nat) /\ Len(i.bytes) \in Nat
         /\ Len(Tail(i.bytes)) = Len(i.bytes) - 1
         /\ Skip(i) \in Int /\ Skip(i) <= Len(Tail(i.bytes))
  <2>1. SUFFICES ASSUME NEW i \in Inputs, i.bytes # << >>
                 PROVE  /\ Head(i.bytes) \in Nat /\ Tail(i.bytes) \in Seq(Nat)
                        /\ Len(i.bytes) \in Nat
                        /\ Len(Tail(i.bytes)) = Len(i.bytes) - 1
                        /\ Skip(i) \in Int /\ Skip(i) <= Len(Tail(i.bytes))
    OBVIOUS
  <2>2. /\ Head(i.bytes) \in Nat /\ Tail(i.bytes) \in Seq(Nat)
        /\ Len(Tail(i.bytes)) = Len(i.bytes) - 1
    BY <1>2, <2>1, HeadTailProperties
  <2>3. Len(i.bytes) \in Nat
    BY <1>2, LenProperties
  <2> QED BY <2>2, <2>3, SkippedTyped
<1>4. \A i \in Inputs : i \notin Base =>
         After(i) \in Inputs /\ Len(After(i).bytes) < Len(i.bytes)
  <2>1. SUFFICES ASSUME NEW i \in Inputs, ~Over(i), ~(Skip(i) < 0)
                 PROVE  After(i) \in Inputs /\ Len(After(i).bytes) < Len(i.bytes)
    OBVIOUS
  <2> HIDE DEF Over, Skip
  <2>2. PICK h, t, l, k :
           h = Head(i.bytes) /\ t = Tail(i.bytes) /\ l = Len(i.bytes) /\ k = Skip(i)
    OBVIOUS
  <2>3. /\ h \in Nat /\ t \in Seq(Nat) /\ l \in Nat /\ k \in Int
        /\ Len(t) = l - 1 /\ k <= Len(t) /\ ~(k < 0)
    BY <1>3, <2>1, <2>2
  <2>4. PICK n \in Int : n = Len(t) /\ n = l - 1
    BY <2>3
  <2>5. Merged(i.message, h, t) \in Messages
    BY <1>2, <2>3, MergedTyped
  <2>6. PICK p \in Nat, q \in Int : p = k + 1 /\ q = n /\ p > 0 /\ q < l /\ l > 0
    BY <2>3, <2>4
  <2>7. /\ SubSeq(t, p, q) \in Seq(Nat)
        /\ Len(SubSeq(t, p, q)) = IF p <= q THEN q - p + 1 ELSE 0
    BY <2>3, <2>4, <2>6, Piece
  <2>8. PICK u \in Seq(Nat) : u = SubSeq(t, p, q) /\ Len(u) < l
    <3>1. (IF p <= q THEN q - p + 1 ELSE 0) < l
      BY <2>3, <2>6
    <3> QED BY <2>7, <3>1
  <2>9. After(i) = [message |-> Merged(i.message, h, t), bytes |-> u]
    BY <2>2, <2>4, <2>6, <2>8
  <2> HIDE DEF After
  <2>10. After(i) \in Inputs /\ After(i).bytes = u
    BY <2>5, <2>9 DEF Inputs
  <2> QED BY <2>2, <2>8, <2>10
<1>5. rank \in [Inputs -> Nat]
  BY <1>2, LenProperties
<1>6. A \in [Inputs -> Outcomes] /\ G \in [Inputs -> [Outcomes -> Outcomes]]
  <2>1. \A i \in Inputs : Good(i) \in Outcomes /\ Poor(i) \in Outcomes
    BY <1>2 DEF Outcomes
  <2> HIDE DEF Good, Poor, Over
  <2> QED BY <2>1
<1>7. \A i \in Inputs \ Base : P[i] \in Inputs /\ rank[P[i]] < rank[i]
  <2> HIDE DEF Base, After
  <2> QED BY <1>4
<1>8. PICK f \in [Inputs -> Outcomes] :
         \A i \in Inputs : f[i] = IF i \in Base THEN A[i] ELSE G[i][f[P[i]]]
  <2>1. Descends(Inputs, Outcomes, rank, Base, P, A, G)
    <3> HIDE DEF Base, rank, P, A, G
    <3> QED BY <1>5, <1>6, <1>7 DEF Descends
  <2> HIDE DEF merge, Base, rank, P, A, G
  <2> QED BY <2>1, RecursiveFunction
<1>9. \A i \in Inputs :
         f[i] = IF Over(i) THEN Good(i) ELSE IF Skip(i) < 0 THEN Poor(i) ELSE f[After(i)]
  <2>1. SUFFICES ASSUME NEW i \in Inputs
                 PROVE  f[i] = IF Over(i) THEN Good(i)
                               ELSE IF Skip(i) < 0 THEN Poor(i) ELSE f[After(i)]
    OBVIOUS
  <2> HIDE DEF Over, Skip, Good, Poor, After
  <2>2. CASE i \in Base
    BY <1>8, <2>2
  <2>3. CASE i \notin Base
    <3>1. ~Over(i) /\ ~(Skip(i) < 0)
      BY <2>3
    <3>2. After(i) \in Inputs /\ P[i] = After(i)
      BY <1>4, <2>3
    <3>3. G[i][f[After(i)]] = f[After(i)]
      BY <3>2
    <3> HIDE DEF Base, G, P
    <3> QED BY <1>8, <2>3, <3>1, <3>2, <3>3
  <2> QED BY <2>2, <2>3
<1>10. merge = [i \in Inputs |-> IF Over(i) THEN Good(i) ELSE IF Skip(i) < 0 THEN Poor(i)
                                 ELSE merge[After(i)]]
  <2> HIDE DEF Over, Skip, Good, Poor, After
  <2>1. f = [i \in Inputs |-> IF Over(i) THEN Good(i) ELSE IF Skip(i) < 0 THEN Poor(i)
                              ELSE f[After(i)]]
    BY <1>9
  <2> QED BY <2>1
<1> HIDE DEF merge
<1>11. \A i \in Inputs : merge[i] = IF Over(i) THEN Good(i)
                                    ELSE IF Skip(i) < 0 THEN Poor(i) ELSE merge[After(i)]
  <2> HIDE DEF Over, Skip, Good, Poor, After
  <2> QED BY <1>10
<1>12. ASSUME NEW m \in Messages
       PROVE  MergePartialFromCodedStream(m, << >>) = [message |-> m, ok |-> TRUE]
  <2>1. PICK i : i = [message |-> m, bytes |-> << >>]
    OBVIOUS
  <2>2. i \in Inputs /\ Over(i) /\ i.message = m
    BY <2>1, EmptySeq DEF Inputs
  <2>3. merge[i] = Good(i)
    <3> HIDE DEF Over, Skip, Good, Poor, After
    <3> QED BY <1>11, <2>2
  <2> QED BY <1>1, <2>1, <2>2, <2>3
<1>13. ASSUME NEW m \in Messages, NEW tag \in Nat, NEW rest \in Seq(Nat),
              tag # 0, SkippedField(tag, rest) >= 0
       PROVE  MergePartialFromCodedStream(m, <<tag>> \o rest) =
                MergePartialFromCodedStream(Merged(m, tag, rest),
                    SubSeq(rest, SkippedField(tag, rest) + 1, Len(rest)))
  <2>1. PICK t : t = <<tag>> \o rest
    OBVIOUS
  <2>2. t \in Seq(Nat) /\ t # << >> /\ Head(t) = tag /\ Tail(t) = rest
    BY <2>1, FirstByte
  <2>3. PICK i : i = [message |-> m, bytes |-> t]
    OBVIOUS
  <2>4. i \in Inputs /\ i.message = m /\ i.bytes = t
    BY <2>2, <2>3 DEF Inputs
  <2>5. ~Over(i) /\ Skip(i) = SkippedField(tag, rest)
    BY <1>13, <2>2, <2>4
  <2>6. ~(Skip(i) < 0)
    BY <1>13, <2>5, SkippedTyped
  <2>7. merge[i] = merge[After(i)]
    <3> HIDE DEF Over, Skip, Good, Poor, After
    <3> QED BY <1>11, <2>4, <2>5, <2>6
  <2>8. After(i) = [message |-> Merged(m, tag, rest),
                    bytes |-> SubSeq(rest, SkippedField(tag, rest) + 1, Len(rest))]
    <3> HIDE DEF Skip
    <3> QED BY <2>2, <2>4, <2>5
  <2> HIDE DEF After
  <2> QED BY <1>1, <2>1, <2>3, <2>7, <2>8
<1> QED BY <1>12, <1>13

LEMMA Regrouped ==
    ASSUME NEW b \in Nat, NEW s \in Seq(Nat), NEW t \in Seq(Nat)
    PROVE  (<<b>> \o s) \o t = <<b>> \o (s \o t)
<1>1. \A r \in Seq(Nat) : (r \o s) \o t = r \o (s \o t)
  BY ConcatAssociative
<1>2. <<b>> \in Seq(Nat)
  OBVIOUS
<1> QED BY <1>1, <1>2

LEMMA MessageFields ==
    ASSUME NEW m \in Messages
    PROVE  /\ DOMAIN m = Fields /\ m = [f \in Fields |-> m[f]]
           /\ \A f \in Numbers : m[f] \in Nat
           /\ m.secret \in Seq(Nat)
BY DEF Messages, Fields, Numbers

LEMMA MessageExcept ==
    ASSUME NEW m \in Messages
    PROVE  /\ \A f \in Numbers, n \in Nat : [m EXCEPT ![f] = n] \in Messages
           /\ \A x \in Seq(Nat) : [m EXCEPT !.secret = x] \in Messages
BY DEF Messages, Numbers

\* The bytes of a number, and of a secret.
Number(f, n) == IF n = 0 THEN << >> ELSE <<Tag(f)>> \o Varint(n)
Secret(x) == IF x = << >> THEN << >> ELSE <<Tag("secret")>> \o Varint(Len(x)) \o x

\* A number that was written is read into its field.
LEMMA NumberRead ==
    ASSUME NEW m \in Messages, NEW f \in Numbers, m[f] = 0, NEW n \in Nat,
           NEW s \in Seq(Nat)
    PROVE  MergePartialFromCodedStream(m, Number(f, n) \o s) =
              MergePartialFromCodedStream([m EXCEPT ![f] = n], s)
<1>1. CASE n = 0
  <2>1. [m EXCEPT ![f] = n] = m
    BY <1>1, MessageFields
  <2>2. << >> \o s = s
    BY ConcatEmptySeq
  <2> QED BY <1>1, <2>1, <2>2 DEF Number
<1>2. CASE n # 0
  <2>1. PICK tag \in Nat, c \in Seq(Nat), k \in Nat :
           /\ tag = Tag(f) /\ tag # 0 /\ tag % 8 = 0
           /\ c = Varint(n) /\ k = Len(c) /\ k > 0
    <3>1. Tag(f) \in Nat /\ Tag(f) # 0 /\ Tag(f) % 8 = 0
      BY Tags DEF Fields
    <3>2. Varint(n) \in Seq(Nat) /\ Len(Varint(n)) > 0
      BY VarintDef, VarintLength
    <3>3. Len(Varint(n)) \in Nat
      BY <3>2, LenProperties
    <3> QED BY <3>1, <3>2, <3>3
  <2>2. PICK rest \in Seq(Nat) : rest = c \o s /\ (<<tag>> \o c) \o s = <<tag>> \o rest
    <3>1. c \o s \in Seq(Nat)
      BY ConcatProperties
    <3>2. (<<tag>> \o c) \o s = <<tag>> \o (c \o s)
      BY Regrouped
    <3> QED BY <3>1, <3>2
  <2>3. Len(rest) \in Nat /\ k <= Len(rest) /\ SubSeq(rest, k + 1, Len(rest)) = s
    <3>1. Len(c \o s) = Len(c) + Len(s) /\ Len(s) \in Nat
      BY ConcatProperties, LenProperties
    <3>2. SubSeq(c \o s, Len(c) + 1, Len(c \o s)) = s
      BY Halves
    <3> QED BY <2>1, <2>2, <3>1, <3>2
  <2>4. ReadVarint(rest) = [length |-> k, value |-> n]
    BY <2>1, <2>2, VarintRead
  <2>5. SkippedField(tag, rest) = k
    <3>1. PICK v : v = ReadVarint(rest)
      OBVIOUS
    <3>2. v.length = k
      BY <2>4, <3>1
    <3> QED BY <2>1, <2>3, <3>1, <3>2 DEF SkippedField
  <2>6. Merged(m, tag, rest) = [m EXCEPT ![f] = n]
    <3>1. \A g \in Fields : tag = Tag(g) <=> g = f
      BY <2>1, Tags DEF Fields
    <3>2. PICK v : v = ReadVarint(rest)
      OBVIOUS
    <3>3. v.value = n
      BY <2>4, <3>2
    <3>4. PICK x : x = SubSeq(rest, v.length + 1, SkippedField(tag, rest))
      OBVIOUS
    <3>5. Merged(m, tag, rest) = [g \in Fields |-> IF tag # Tag(g) THEN m[g]
                                                   ELSE IF g \in Numbers THEN n ELSE x]
      BY <3>2, <3>3, <3>4, MessageFields DEF Merged
    <3>6. [m EXCEPT ![f] = n] = [g \in Fields |-> IF g = f THEN n ELSE m[g]]
      BY MessageFields
    <3> QED BY <3>1, <3>5, <3>6
  <2>7. SkippedField(tag, rest) >= 0
    BY <2>1, <2>5
  <2>8. MergePartialFromCodedStream(m, <<tag>> \o rest) =
           MergePartialFromCodedStream([m EXCEPT ![f] = n], s)
    <3>1. MergePartialFromCodedStream(m, <<tag>> \o rest) =
             MergePartialFromCodedStream(Merged(m, tag, rest),
                 SubSeq(rest, SkippedField(tag, rest) + 1, Len(rest)))
      BY <2>1, <2>7, MergeDef
    <3> QED BY <2>3, <2>5, <2>6, <3>1
  <2> QED BY <1>2, <2>1, <2>2, <2>8 DEF Number
<1> QED BY <1>1, <1>2

\* So is the secret, which is the last field.
LEMMA SecretRead ==
    ASSUME NEW m \in Messages, m.secret = << >>, NEW x \in Seq(Nat)
    PROVE  MergePartialFromCodedStream(m, Secret(x)) =
              [message |-> [m EXCEPT !.secret = x], ok |-> TRUE]
<1>1. CASE x = << >>
  <2>1. [m EXCEPT !.secret = x] = m
    BY <1>1, MessageFields
  <2> QED BY <1>1, <2>1, MergeDef DEF Secret
<1>2. CASE x # << >>
  <2>1. PICK tag \in Nat, n \in Nat, c \in Seq(Nat), k \in Nat :
           /\ tag = Tag("secret") /\ tag # 0 /\ tag % 8 = 2 /\ n = Len(x)
           /\ c = Varint(n) /\ k = Len(c) /\ k > 0
    <3>1. Tag("secret") \in Nat /\ Tag("secret") # 0 /\ Tag("secret") % 8 = 2
      BY Tags DEF Fields
    <3>2. PICK n \in Nat : n = Len(x)
      BY LenProperties
    <3>3. Varint(n) \in Seq(Nat) /\ Len(Varint(n)) > 0
      BY VarintDef, VarintLength
    <3>4. Len(Varint(n)) \in Nat
      BY <3>3, LenProperties
    <3> QED BY <3>1, <3>2, <3>3, <3>4
  <2>2. PICK rest \in Seq(Nat) : rest = c \o x /\ (<<tag>> \o c) \o x = <<tag>> \o rest
    <3>1. c \o x \in Seq(Nat)
      BY ConcatProperties
    <3>2. (<<tag>> \o c) \o x = <<tag>> \o (c \o x)
      BY Regrouped
    <3> QED BY <3>1, <3>2
  <2>3. Len(rest) = k + n /\ SubSeq(rest, k + 1, k + n) = x
    <3>1. Len(c \o x) = Len(c) + Len(x)
      BY ConcatProperties
    <3>2. SubSeq(c \o x, Len(c) + 1, Len(c \o x)) = x
      BY Halves
    <3> QED BY <2>1, <2>2, <3>1, <3>2
  <2>4. ReadVarint(rest) = [length |-> k, value |-> n]
    BY <2>1, <2>2, VarintRead
  <2>5. SkippedField(tag, rest) = k + n
    <3>1. PICK v : v = ReadVarint(rest)
      OBVIOUS
    <3>2. v.length = k /\ v.value = n
      BY <2>4, <3>1
    <3> QED BY <2>1, <2>3, <3>1, <3>2 DEF SkippedField
  <2>6. Merged(m, tag, rest) = [m EXCEPT !.secret = x]
    <3>1. \A g \in Fields : tag = Tag(g) <=> g = "secret"
      BY <2>1, Tags DEF Fields
    <3>2. PICK v : v = ReadVarint(rest)
      OBVIOUS
    <3>3. v.length = k
      BY <2>4, <3>2
    <3>4. SubSeq(rest, v.length + 1, SkippedField(tag, rest)) = x
      BY <2>3, <2>5, <3>3
    <3>5. PICK y : y = v.value
      OBVIOUS
    <3>6. Merged(m, tag, rest) = [g \in Fields |-> IF tag # Tag(g) THEN m[g]
                                                   ELSE IF g \in Numbers THEN y ELSE x]
      BY <3>2, <3>4, <3>5, MessageFields DEF Merged
    <3>7. [m EXCEPT !.secret = x] = [g \in Fields |-> IF g = "secret" THEN x ELSE m[g]]
      BY MessageFields
    <3>8. "secret" \notin Numbers
      BY DEF Numbers
    <3> QED BY <3>1, <3>6, <3>7, <3>8
  <2>7. SkippedField(tag, rest) >= 0
    BY <2>1, <2>5
  <2>8. SubSeq(rest, SkippedField(tag, rest) + 1, Len(rest)) = << >>
    BY <2>1, <2>3, <2>5, SubSeqEmpty
  <2>9. MergePartialFromCodedStream(m, <<tag>> \o rest) =
           MergePartialFromCodedStream([m EXCEPT !.secret = x], << >>)
    <3>1. MergePartialFromCodedStream(m, <<tag>> \o rest) =
             MergePartialFromCodedStream(Merged(m, tag, rest),
                 SubSeq(rest, SkippedField(tag, rest) + 1, Len(rest)))
      BY <2>1, <2>7, MergeDef
    <3> QED BY <2>6, <2>8, <3>1
  <2>10. MergePartialFromCodedStream([m EXCEPT !.secret = x], << >>) =
            [message |-> [m EXCEPT !.secret = x], ok |-> TRUE]
    BY MessageExcept, MergeDef
  <2> QED BY <1>2, <2>1, <2>2, <2>9, <2>10 DEF Secret
<1> QED BY <1>1, <1>2

\* They have the sizes that are computed for them.
Size(n) == IF n = 0 THEN 0 ELSE 1 + VarintSize(n)
SecretSize(x) == IF x = << >> THEN 0 ELSE 1 + VarintSize(Len(x)) + Len(x)

LEMMA NumberLength ==
    ASSUME NEW f \in Numbers, NEW n \in Nat
    PROVE  Number(f, n) \in Seq(Nat) /\ Len(Number(f, n)) = Size(n)
<1>1. PICK tag \in Nat : tag = Tag(f)
  BY Tags DEF Fields
<1>2. Varint(n) \in Seq(Nat) /\ Len(Varint(n)) = VarintSize(n)
  BY VarintDef, VarintLength
<1>3. /\ <<tag>> \o Varint(n) \in Seq(Nat)
      /\ Len(<<tag>> \o Varint(n)) = 1 + Len(Varint(n))
  BY <1>2, FirstByte
<1>4. CASE n = 0
  <2>1. Number(f, n) = << >> /\ Size(n) = 0
    BY <1>4 DEF Number, Size
  <2> QED BY <2>1, EmptySeq
<1>5. CASE n # 0
  <2>1. Number(f, n) = <<tag>> \o Varint(n) /\ Size(n) = 1 + VarintSize(n)
    BY <1>1, <1>5 DEF Number, Size
  <2> QED BY <1>2, <1>3, <2>1
<1> QED BY <1>4, <1>5

LEMMA SecretLength ==
    ASSUME NEW x \in Seq(Nat)
    PROVE  Secret(x) \in Seq(Nat) /\ Len(Secret(x)) = SecretSize(x)
<1>1. PICK tag \in Nat, n \in Nat : tag = Tag("secret") /\ n = Len(x)
  <2>1. Tag("secret") \in Nat
    BY Tags DEF Fields
  <2>2. Len(x) \in Nat
    BY LenProperties
  <2> QED BY <2>1, <2>2
<1>2. PICK v \in Seq(Nat), l \in Nat : v = Varint(n) /\ l = Len(v) /\ l = VarintSize(n)
  <2>1. Varint(n) \in Seq(Nat) /\ Len(Varint(n)) = VarintSize(n) /\ VarintSize(n) \in Nat
    BY VarintDef, VarintSizeDef, VarintLength
  <2> QED BY <2>1
<1>3. PICK t \in Seq(Nat) : t = <<tag>> \o v /\ Len(t) = 1 + l
  <2>1. <<tag>> \o v \in Seq(Nat) /\ Len(<<tag>> \o v) = 1 + Len(v)
    BY FirstByte
  <2> QED BY <1>2, <2>1
<1>4. t \o x \in Seq(Nat) /\ Len(t \o x) = 1 + l + n
  BY <1>1, <1>3, ConcatProperties
<1>5. CASE x = << >>
  <2>1. Secret(x) = << >> /\ SecretSize(x) = 0
    BY <1>5 DEF Secret, SecretSize
  <2> QED BY <2>1, EmptySeq
<1>6. CASE x # << >>
  <2>1. Secret(x) = t \o x /\ SecretSize(x) = 1 + l + n
    BY <1>1, <1>2, <1>3, <1>6 DEF Secret, SecretSize
  <2> QED BY <1>4, <2>1
<1> QED BY <1>5, <1>6

-----------------------------------------------------------------------------
(* Messages                                                                *)

Cat(s, t) == s \o t

LEMMA Associated ==
    ASSUME NEW r \in Seq(Nat), NEW s \in Seq(Nat), NEW t \in Seq(Nat)
    PROVE  Cat(r, s) \in Seq(Nat) /\ Cat(Cat(r, s), t) = Cat(r, Cat(s, t))
<1>1. (r \o s) \o t = r \o (s \o t)
  BY ConcatAssociative
<1>2. r \o s \in Seq(Nat)
  BY ConcatProperties
<1> QED BY <1>1, <1>2 DEF Cat

With(m, f, n) == [m EXCEPT ![f] = n]

\* NumberRead for the provers, who lose sight of an EXCEPT.
LEMMA NumberReadWith ==
    ASSUME NEW m \in Messages, NEW f \in Numbers, m[f] = 0, NEW n \in Nat,
           NEW s \in Seq(Nat)
    PROVE  MergePartialFromCodedStream(m, Number(f, n) \o s) =
              MergePartialFromCodedStream(With(m, f, n), s)
BY NumberRead, Zenon DEF With

\* SubmitNonceRequest: every message, with whatever zeroes and secret, is read
\* by MergePartialFromCodedStream as it was written, and fills exactly the
\* array that ByteSizeLong asked for.
THEOREM RequestRoundTrip ==
    ASSUME NEW m \in Messages
    PROVE  LET bytes == InternalSerializeWithCachedSizesToArray(m)
           IN /\ MergePartialFromCodedStream(Cleared, bytes) = [message |-> m, ok |-> TRUE]
              /\ bytes \in Seq(Nat) /\ Len(bytes) = ByteSizeLong(m)
<1> DEFINE bytes == InternalSerializeWithCachedSizesToArray(m)
           Merge(r, s) == MergePartialFromCodedStream(r, s)
<1>1. PICK n1 \in Nat, n2 \in Nat, n3 \in Nat, n4 \in Nat, x \in Seq(Nat) :
         /\ n1 = m.accountid /\ n2 = m.nonce /\ n3 = m.deadline /\ n4 = m.blockheight
         /\ x = m.secret
  BY DEF Messages
<1>2. /\ bytes = Number("accountid", n1) \o Number("nonce", n2) \o Number("deadline", n3)
                    \o Number("blockheight", n4) \o Secret(x)
      /\ ByteSizeLong(m) = Size(n1) + Size(n2) + Size(n3) + Size(n4) + SecretSize(x)
  BY <1>1 DEF InternalSerializeWithCachedSizesToArray, ByteSizeLong, Number, Secret, Size,
             SecretSize
<1>3. PICK a \in Seq(Nat), b \in Seq(Nat), c \in Seq(Nat), d \in Seq(Nat), e \in Seq(Nat) :
         /\ a = Number("accountid", n1) /\ b = Number("nonce", n2)
         /\ c = Number("deadline", n3) /\ d = Number("blockheight", n4) /\ e = Secret(x)
  BY NumberLength, SecretLength DEF Numbers
<1>4. /\ Len(a) = Size(n1) /\ Len(b) = Size(n2) /\ Len(c) = Size(n3) /\ Len(d) = Size(n4)
      /\ Len(e) = SecretSize(x)
  BY <1>3, NumberLength, SecretLength DEF Numbers
<1>5. PICK de \in Seq(Nat), ce \in Seq(Nat), be \in Seq(Nat), ae \in Seq(Nat) :
         /\ de = d \o e /\ ce = c \o de /\ be = b \o ce /\ ae = a \o be
  BY ConcatProperties
<1>6. bytes = ae
  <2>1. bytes = Cat(Cat(Cat(Cat(a, b), c), d), e)
    BY <1>2, <1>3 DEF Cat
  <2>2. Cat(a, b) \in Seq(Nat) /\ Cat(Cat(a, b), c) \in Seq(Nat)
    BY Associated
  <2>3. de = Cat(d, e) /\ ce = Cat(c, de) /\ be = Cat(b, ce) /\ ae = Cat(a, be)
    BY <1>5 DEF Cat
  <2>4. Cat(Cat(Cat(Cat(a, b), c), d), e) = Cat(Cat(Cat(a, b), c), Cat(d, e))
    BY <2>2, Associated
  <2>5. Cat(Cat(Cat(a, b), c), de) = Cat(Cat(a, b), Cat(c, de))
    BY <2>2, Associated
  <2>6. Cat(Cat(a, b), ce) = Cat(a, Cat(b, ce))
    BY Associated
  <2> HIDE DEF bytes
  <2> QED BY <2>1, <2>3, <2>4, <2>5, <2>6
<1>7. Merge(Cleared, bytes) = [message |-> m, ok |-> TRUE]
  <2>1. PICK r0 : r0 = Cleared
    OBVIOUS
  <2>2. r0 \in Messages /\ r0["accountid"] = 0 /\ r0["nonce"] = 0 /\ r0["deadline"] = 0
        /\ r0["blockheight"] = 0 /\ r0.secret = << >>
    BY <2>1, EmptySeq DEF Cleared, Messages
  <2>3. PICK r1 \in Messages : r1 = [r0 EXCEPT !["accountid"] = n1]
    BY <2>2, MessageExcept DEF Numbers
  <2>4. PICK r2 \in Messages : r2 = [r1 EXCEPT !["nonce"] = n2]
    BY MessageExcept DEF Numbers
  <2>5. PICK r3 \in Messages : r3 = [r2 EXCEPT !["deadline"] = n3]
    BY MessageExcept DEF Numbers
  <2>6. PICK r4 \in Messages : r4 = [r3 EXCEPT !["blockheight"] = n4]
    BY MessageExcept DEF Numbers
  <2>7. /\ r1["nonce"] = 0 /\ r1["deadline"] = 0 /\ r1["blockheight"] = 0 /\ r1.secret = << >>
        /\ r2["deadline"] = 0 /\ r2["blockheight"] = 0 /\ r2.secret = << >>
        /\ r3["blockheight"] = 0 /\ r3.secret = << >> /\ r4.secret = << >>
    BY <2>2, <2>3, <2>4, <2>5, <2>6 DEF Messages
  <2>8. [r4 EXCEPT !.secret = x] = m
    BY <1>1, <2>2, <2>3, <2>4, <2>5, <2>6 DEF Messages
  <2>9. /\ "accountid" \in Numbers /\ "nonce" \in Numbers
        /\ "deadline" \in Numbers /\ "blockheight" \in Numbers
    BY DEF Numbers
  <2>10. Merge(r0, a \o be) = Merge(r1, be)
    <3>1. With(r0, "accountid", n1) = r1
      BY <2>3 DEF With
    <3>2. r0["accountid"] = 0
      BY <2>2
    <3>3. MergePartialFromCodedStream(r0, Number("accountid", n1) \o be) =
             MergePartialFromCodedStream(With(r0, "accountid", n1), be)
      BY <2>2, <2>9, <3>2, NumberReadWith
    <3> QED BY <1>3, <3>1, <3>3
  <2>11. Merge(r1, b \o ce) = Merge(r2, ce)
    <3>1. With(r1, "nonce", n2) = r2
      BY <2>4 DEF With
    <3>2. r1["nonce"] = 0
      BY <2>7
    <3>3. MergePartialFromCodedStream(r1, Number("nonce", n2) \o ce) =
             MergePartialFromCodedStream(With(r1, "nonce", n2), ce)
      BY <2>2, <2>9, <3>2, NumberReadWith
    <3> QED BY <1>3, <3>1, <3>3
  <2>12. Merge(r2, c \o de) = Merge(r3, de)
    <3>1. With(r2, "deadline", n3) = r3
      BY <2>5 DEF With
    <3>2. r2["deadline"] = 0
      BY <2>7
    <3>3. MergePartialFromCodedStream(r2, Number("deadline", n3) \o de) =
             MergePartialFromCodedStream(With(r2, "deadline", n3), de)
      BY <2>2, <2>9, <3>2, NumberReadWith
    <3> QED BY <1>3, <3>1, <3>3
  <2>13. Merge(r3, d \o e) = Merge(r4, e)
    <3>1. With(r3, "blockheight", n4) = r4
      BY <2>6 DEF With
    <3>2. r3["blockheight"] = 0
      BY <2>7
    <3>3. MergePartialFromCodedStream(r3, Number("blockheight", n4) \o e) =
             MergePartialFromCodedStream(With(r3, "blockheight", n4), e)
      BY <2>2, <2>9, <3>2, NumberReadWith
    <3> QED BY <1>3, <3>1, <3>3
  <2>14. Merge(r4, e) = [message |-> [r4 EXCEPT !.secret = x], ok |-> TRUE]
    BY <1>3, <2>7, SecretRead
  <2> HIDE DEF bytes, Merge
  <2> QED BY <1>5, <1>6, <2>1, <2>8, <2>10, <2>11, <2>12, <2>13, <2>14
<1>8. Len(bytes) = ByteSizeLong(m)
  <2>1. /\ Len(a) \in Nat /\ Len(b) \in Nat /\ Len(c) \in Nat /\ Len(d) \in Nat /\ Len(e) \in Nat
    BY LenProperties
  <2>2. /\ Len(de) = Len(d) + Len(e) /\ Len(ce) = Len(c) + Len(de)
        /\ Len(be) = Len(b) + Len(ce) /\ Len(ae) = Len(a) + Len(be)
    BY <1>5, ConcatProperties
  <2>3. Len(ae) = Len(a) + Len(b) + Len(c) + Len(d) + Len(e)
    BY <2>1, <2>2
  <2> HIDE DEF bytes
  <2> QED BY <1>2, <1>4, <1>6, <2>3
<1> HIDE DEF bytes
<1>9. bytes \in Seq(Nat)
  BY <1>5, <1>6
<1> QED BY <1>7, <1>8, <1>9 DEF bytes

-----------------------------------------------------------------------------
(* The calls                                                               *)

\* A call holds its request, the bytes of it, and what the pool has read.
Calls == {c \in [req : Messages, phase : {"sent", "read", "finished", "deleted"},
                 got : Messages \cup {NotRead}, bytes : Seq(Nat),
                 status : {"none", "ok", "failed"}] :
             /\ c.bytes = InternalSerializeWithCachedSizesToArray(c.req)
             /\ c.got \in {NotRead, c.req}}

TypeInv == /\ calls \in Seq(Calls)
           /\ cq_ \in Seq(1 .. Len(calls))
           /\ round \in [Accounts -> [deadline : Deadlines \cup {Unset}, nonce : Nat]]

OfAccount(i, a) == calls[i].req.accountid = a

\* One call has the round's deadline, and the others of the account were worse.
IsBest(j, a) ==
    /\ OfAccount(j, a)
    /\ calls[j].req.deadline = round[a].deadline /\ calls[j].req.nonce = round[a].nonce
    /\ \A i \in 1 .. Len(calls) :
           (OfAccount(i, a) /\ i # j) => calls[i].req.deadline > round[a].deadline

BestInv ==
    \A a \in Served :
        \/ round[a].deadline = Unset /\ \A i \in 1 .. Len(calls) : ~OfAccount(i, a)
        \/ round[a].deadline \in Deadlines /\ \E j \in 1 .. Len(calls) : IsBest(j, a)

Inv == TypeInv /\ BestInv

LEMMA RequestFields ==
    ASSUME NEW a \in Accounts, NEW n \in Nonces, NEW d \in Deadlines
    PROVE  /\ Request(a, n, d) \in Messages
           /\ Request(a, n, d).accountid = a /\ Request(a, n, d).nonce = n
           /\ Request(a, n, d).deadline = d
<1>1. Cleared \in Messages
  BY EmptySeq DEF Cleared, Messages
<1>2. a \in Nat /\ n \in Nat /\ d \in Nat /\ Height \in Nat
  BY AccountsAssumption, NumbersAssumption
<1> QED BY <1>1, <1>2 DEF Request, Messages

\* A call that is new, and what may happen to a call.
LEMMA CallKinds ==
    /\ \A req \in Messages :
           [req |-> req, phase |-> "sent", got |-> NotRead,
            bytes |-> InternalSerializeWithCachedSizesToArray(req),
            status |-> "none"] \in Calls
    /\ \A c \in Calls :
           /\ [c EXCEPT !.phase = "read", !.got = c.req] \in Calls
           /\ [c EXCEPT !.phase = "deleted"] \in Calls
           /\ \A s \in {"ok", "failed"} :
                  [c EXCEPT !.phase = "finished", !.status = s] \in Calls
<1>1. ASSUME NEW req \in Messages
      PROVE  [req |-> req, phase |-> "sent", got |-> NotRead,
              bytes |-> InternalSerializeWithCachedSizesToArray(req),
              status |-> "none"] \in Calls
  <2>1. InternalSerializeWithCachedSizesToArray(req) \in Seq(Nat)
    BY RequestRoundTrip
  <2> QED BY <2>1 DEF Calls
<1>2. ASSUME NEW c \in Calls
      PROVE  /\ [c EXCEPT !.phase = "read", !.got = c.req] \in Calls
             /\ [c EXCEPT !.phase = "deleted"] \in Calls
             /\ \A s \in {"ok", "failed"} :
                    [c EXCEPT !.phase = "finished", !.status = s] \in Calls
  BY DEF Calls
<1> QED BY <1>1, <1>2

\* A step that changes one call and not its request.
LEMMA OneCallChanges ==
    ASSUME Inv, NEW i \in 1 .. Len(calls), NEW c \in Calls, c.req = calls[i].req,
           calls' = [calls EXCEPT ![i] = c], UNCHANGED round
    PROVE  /\ calls' \in Seq(Calls) /\ Len(calls') = Len(calls)
           /\ round' \in [Accounts -> [deadline : Deadlines \cup {Unset}, nonce : Nat]]
           /\ BestInv'
<1>1. /\ calls' \in Seq(Calls) /\ Len(calls') = Len(calls)
      /\ \A j \in 1 .. Len(calls) : calls'[j] = IF j = i THEN c ELSE calls[j]
  BY ExceptSeq DEF Inv, TypeInv
<1>2. \A j \in 1 .. Len(calls) : calls'[j].req = calls[j].req
  BY <1>1
<1>3. BestInv'
  BY <1>1, <1>2 DEF Inv, BestInv, IsBest, OfAccount
<1> QED BY <1>1, <1>3 DEF Inv, TypeInv

-----------------------------------------------------------------------------
(* The steps                                                               *)

LEMMA InvInit == Init => Inv
<1> SUFFICES ASSUME Init PROVE Inv
  OBVIOUS
<1>1. calls = << >> /\ cq_ = << >> /\ Len(calls) = 0
  BY EmptySeq DEF Init
<1>2. TypeInv
  BY <1>1, EmptySeq DEF Init, TypeInv
<1>3. BestInv
  <2>1. \A a \in Served : round[a].deadline = Unset
    BY AccountsAssumption DEF Init
  <2>2. \A i \in 1 .. Len(calls) : FALSE
    BY <1>1
  <2> QED BY <2>1, <2>2 DEF BestInv
<1> QED BY <1>2, <1>3 DEF Inv

LEMMA InvSubmit ==
    ASSUME Inv, NEW a \in Accounts, NEW n \in Nonces, NEW d \in Deadlines, Submit(a, n, d)
    PROVE  Inv'
<1>1. PICK req \in Messages : req = Request(a, n, d)
  BY RequestFields
<1>2. req.accountid = a /\ req.nonce = n /\ req.deadline = d
  BY <1>1, RequestFields
<1>3. /\ round' = [round EXCEPT ![a] = [deadline |-> d, nonce |-> n]]
      /\ cq_' = cq_ /\ round[a].deadline > d
  BY DEF Submit, Improves
<1>4. n \in Nat /\ d \in Nat /\ Deadlines \subseteq Nat /\ Served \subseteq Accounts
  BY AccountsAssumption, NumbersAssumption
<1>5. /\ round' \in [Accounts -> [deadline : Deadlines \cup {Unset}, nonce : Nat]]
      /\ round'[a].deadline = d /\ round'[a].nonce = n
      /\ \A b \in Accounts : b # a => round'[b] = round[b]
  BY <1>3, <1>4 DEF Inv, TypeInv
<1>6. CASE a \notin Served
  <2>1. calls' = calls
    BY <1>1, <1>2, <1>6 DEF Submit, do_submit_nonce
  <2>2. \A b \in Served : round'[b] = round[b]
    BY <1>4, <1>5, <1>6
  <2>3. BestInv'
    BY <2>1, <2>2 DEF Inv, BestInv, IsBest, OfAccount
  <2> QED BY <1>3, <1>5, <2>1, <2>3 DEF Inv, TypeInv
<1>7. CASE a \in Served
  <2>1. PICK call \in Calls : call.req = req /\ calls' = Append(calls, call)
    <3>1. PICK call : call = [req |-> req, phase |-> "sent", got |-> NotRead,
                              bytes |-> InternalSerializeWithCachedSizesToArray(req),
                              status |-> "none"]
      OBVIOUS
    <3>2. call \in Calls /\ call.req = req
      BY <3>1, CallKinds
    <3>3. calls' = Append(calls, call)
      BY <1>1, <1>2, <1>7, <3>1 DEF Submit, do_submit_nonce
    <3> QED BY <3>2, <3>3
  <2>2. PICK k \in Nat : k = Len(calls)
    BY LenProperties DEF Inv, TypeInv
  <2>3. /\ calls' \in Seq(Calls) /\ Len(calls') = k + 1 /\ calls'[k + 1] = call
        /\ \A i \in 1 .. k : calls'[i] = calls[i]
    BY <2>1, <2>2, AppendProperties DEF Inv, TypeInv
  <2>4. cq_' \in Seq(1 .. Len(calls'))
    <3>1. 1 .. k \subseteq 1 .. (k + 1)
      OBVIOUS
    <3>2. cq_ \in Seq(1 .. k)
      BY <2>2 DEF Inv, TypeInv
    <3>3. cq_ \in Seq(1 .. (k + 1))
      BY <3>1, <3>2
    <3> QED BY <1>3, <2>3, <3>3
  <2>5. ASSUME NEW b \in Served, b # a
        PROVE  \/ round'[b].deadline = Unset /\ \A i \in 1 .. Len(calls') : ~OfAccount(i, b)'
               \/ round'[b].deadline \in Deadlines
                    /\ \E j \in 1 .. Len(calls') : IsBest(j, b)'
    <3>1. round'[b] = round[b]
      BY <1>4, <1>5, <2>5
    <3>2. \A i \in 1 .. (k + 1) :
             OfAccount(i, b)' <=> i \in 1 .. k /\ OfAccount(i, b)
      BY <1>2, <2>1, <2>3, <2>5 DEF OfAccount
    <3>3. CASE round[b].deadline = Unset /\ \A i \in 1 .. k : ~OfAccount(i, b)
      BY <2>3, <3>1, <3>2, <3>3
    <3>4. CASE round[b].deadline \in Deadlines /\ \E j \in 1 .. k : IsBest(j, b)
      <4>1. PICK j \in 1 .. k : IsBest(j, b)
        BY <3>4
      <4>2. j \in 1 .. (k + 1) /\ calls'[j] = calls[j]
        BY <2>3
      <4>3. \A i \in 1 .. (k + 1) : (OfAccount(i, b)' /\ i # j)
                => calls'[i].req.deadline > round[b].deadline
        BY <2>2, <2>3, <3>2, <4>1 DEF IsBest
      <4>4. IsBest(j, b)'
        BY <2>3, <3>1, <3>2, <4>1, <4>2, <4>3 DEF IsBest
      <4> QED BY <2>3, <3>1, <3>4, <4>2, <4>4
    <3> QED BY <2>2, <3>3, <3>4 DEF Inv, BestInv
  <2>6. round'[a].deadline \in Deadlines /\ \E j \in 1 .. Len(calls') : IsBest(j, a)'
    <3>1. ASSUME NEW i \in 1 .. k, OfAccount(i, a)
          PROVE  calls[i].req.deadline > d
      <4>1. PICK j \in 1 .. k : round[a].deadline \in Deadlines /\ IsBest(j, a)
        BY <1>7, <2>2, <3>1 DEF Inv, BestInv
      <4>2. calls[i] \in Calls
        BY <2>2, ElementOfSeq DEF Inv, TypeInv
      <4>3. calls[i].req.deadline \in Nat
        BY <4>2 DEF Calls, Messages
      <4>4. \/ calls[i].req.deadline = round[a].deadline
            \/ calls[i].req.deadline > round[a].deadline
        BY <2>2, <3>1, <4>1 DEF IsBest
      <4>5. PICK x \in Nat, y \in Nat : x = round[a].deadline /\ y = calls[i].req.deadline
        BY <1>4, <4>1, <4>3
      <4>6. x > d /\ (y = x \/ y > x)
        BY <1>3, <4>4, <4>5
      <4>7. y > d
        BY <1>4, <4>6
      <4> QED BY <4>5, <4>7
    <3>2. OfAccount(k + 1, a)' /\ calls'[k + 1].req.deadline = d
          /\ calls'[k + 1].req.nonce = n
      BY <1>2, <2>1, <2>3 DEF OfAccount
    <3>3. \A i \in 1 .. (k + 1) : (OfAccount(i, a)' /\ i # k + 1)
              => calls'[i].req.deadline > d
      <4> SUFFICES ASSUME NEW i \in 1 .. (k + 1), OfAccount(i, a)', i # k + 1
                   PROVE  calls'[i].req.deadline > d
        OBVIOUS
      <4>1. i \in 1 .. k
        OBVIOUS
      <4>2. calls'[i] = calls[i]
        BY <2>3, <4>1
      <4> QED BY <3>1, <4>1, <4>2 DEF OfAccount
    <3>4. k + 1 \in 1 .. Len(calls')
      BY <2>3
    <3>5. IsBest(k + 1, a)'
      BY <1>5, <2>3, <3>2, <3>3 DEF IsBest
    <3> QED BY <1>5, <3>4, <3>5
  <2>7. BestInv'
    BY <2>5, <2>6 DEF BestInv
  <2> QED BY <1>5, <2>3, <2>4, <2>7 DEF Inv, TypeInv
<1> QED BY <1>6, <1>7

LEMMA InvFinished ==
    ASSUME Inv, NEW i \in 1 .. Len(calls), NEW s \in {"ok", "failed"}, Finished(i, s)
    PROVE  Inv'
<1>1. PICK c \in Calls : c = [calls[i] EXCEPT !.phase = "finished", !.status = s]
  <2>1. calls[i] \in Calls
    BY ElementOfSeq DEF Inv, TypeInv
  <2> QED BY <2>1, CallKinds
<1>2. c.req = calls[i].req
  <2>1. calls[i] \in Calls
    BY ElementOfSeq DEF Inv, TypeInv
  <2> QED BY <1>1, <2>1 DEF Calls
<1>3. calls' = [calls EXCEPT ![i] = c] /\ round' = round
  BY <1>1 DEF Finished
<1>4. cq_' \in Seq(1 .. Len(calls))
  BY AppendProperties DEF Finished, Inv, TypeInv
<1> QED BY <1>2, <1>3, <1>4, OneCallChanges DEF Inv, TypeInv

LEMMA InvPoolReads ==
    ASSUME Inv, NEW i \in 1 .. Len(calls), PoolReads(i)
    PROVE  Inv'
<1>1. PICK old \in Calls : old = calls[i]
  BY ElementOfSeq DEF Inv, TypeInv
<1>2. PICK req \in Messages : req = old.req /\ calls[i].bytes =
                                InternalSerializeWithCachedSizesToArray(req)
  BY <1>1 DEF Calls
<1>3. MergePartialFromCodedStream(Cleared, calls[i].bytes) = [message |-> req, ok |-> TRUE]
  BY <1>2, RequestRoundTrip
<1>4. PICK c \in Calls : c = [old EXCEPT !.phase = "read", !.got = req]
  BY <1>2, CallKinds
<1>5. c.req = calls[i].req
  BY <1>1, <1>4 DEF Calls
<1>6. calls' = [calls EXCEPT ![i] = c] /\ round' = round /\ cq_' = cq_
  <2>1. PICK parsed : /\ parsed = MergePartialFromCodedStream(Cleared, calls[i].bytes)
                      /\ parsed = [message |-> req, ok |-> TRUE]
    BY <1>3
  <2>2. parsed.message = req
    BY <2>1
  <2>3. calls' = [calls EXCEPT ![i].phase = "read", ![i].got = parsed.message]
    BY <2>1 DEF PoolReads
  <2>4. calls' = [calls EXCEPT ![i].phase = "read", ![i].got = req]
    BY <2>2, <2>3
  <2>5. [calls EXCEPT ![i].phase = "read", ![i].got = req] = [calls EXCEPT ![i] = c]
    BY <1>1, <1>4
  <2> QED BY <2>4, <2>5 DEF PoolReads
<1> QED BY <1>5, <1>6, OneCallChanges DEF Inv, TypeInv

LEMMA InvComplete ==
    ASSUME Inv, async_complete_rpc
    PROVE  Inv'
<1>1. PICK i \in 1 .. Len(calls) : i = Head(cq_) /\ cq_' \in Seq(1 .. Len(calls))
  BY HeadTailProperties DEF async_complete_rpc, Inv, TypeInv
<1>2. PICK old \in Calls : old = calls[i]
  BY ElementOfSeq DEF Inv, TypeInv
<1>3. PICK c \in Calls : c = [old EXCEPT !.phase = "deleted"]
  BY CallKinds
<1>4. c.req = calls[i].req
  BY <1>2, <1>3 DEF Calls
<1>5. calls' = [calls EXCEPT ![i] = c] /\ round' = round
  BY <1>1, <1>2, <1>3 DEF async_complete_rpc
<1> QED BY <1>1, <1>4, <1>5, OneCallChanges DEF Inv, TypeInv

LEMMA InvNext == Inv /\ [Next]_vars => Inv'
<1> SUFFICES ASSUME Inv, [Next]_vars PROVE Inv'
  OBVIOUS
<1>1. ASSUME NEW a \in Accounts, NEW n \in Nonces, NEW d \in Deadlines, Submit(a, n, d)
      PROVE  Inv'
  BY <1>1, InvSubmit
<1>2. ASSUME NEW i \in 1 .. Len(calls), PoolReads(i)
      PROVE  Inv'
  BY <1>2, InvPoolReads
<1>3. ASSUME NEW i \in 1 .. Len(calls), NEW r \in Replies, PoolAnswers(i, r)
      PROVE  Inv'
  <2>1. PICK s \in {"ok", "failed"} : Finished(i, s)
    BY <1>3 DEF PoolAnswers
  <2> QED BY <2>1, InvFinished
<1>4. ASSUME NEW i \in 1 .. Len(calls), CallFails(i)
      PROVE  Inv'
  BY <1>4, InvFinished DEF CallFails
<1>5. CASE async_complete_rpc
  BY <1>5, InvComplete
<1>6. CASE UNCHANGED vars
  BY <1>6 DEF vars, Inv, TypeInv, BestInv, IsBest, OfAccount
<1> QED BY <1>1, <1>2, <1>3, <1>4, <1>5, <1>6 DEF Next

LEMMA InvAlways == Spec => []Inv
BY InvInit, InvNext, PTL DEF Spec

\* What a pool reads of a call is what the node submitted, and it was written
\* into an array of the size computed for it, for any numbers and any pools
\* (do_submit_nonce, MergePartialFromCodedStream).
THEOREM SubmissionsReadAsSent == Spec => []PoolReadsWhatWasSent
<1>1. Inv => PoolReadsWhatWasSent
  <2> SUFFICES ASSUME Inv, NEW i \in 1 .. Len(calls)
               PROVE  /\ calls[i].got \in {NotRead, calls[i].req}
                      /\ Len(calls[i].bytes) = ByteSizeLong(calls[i].req)
    BY DEF PoolReadsWhatWasSent
  <2>1. calls[i] \in Calls
    BY ElementOfSeq DEF Inv, TypeInv
  <2>2. /\ calls[i].got \in {NotRead, calls[i].req} /\ calls[i].req \in Messages
        /\ calls[i].bytes = InternalSerializeWithCachedSizesToArray(calls[i].req)
    BY <2>1 DEF Calls
  <2> QED BY <2>2, RequestRoundTrip
<1> QED BY <1>1, InvAlways, PTL

\* However calls overtake one another and whichever fail after they were read,
\* a pool that has read all calls of an account has read the round's deadline,
\* and every other it read was larger (do_submit_nonce, validate_deadline).
THEOREM SubmissionsLetPoolKnowBest == Spec => []PoolCanKnowBest
<1>1. Inv => PoolCanKnowBest
  <2> DEFINE Got(a) == {calls[i].got : i \in {j \in 1 .. Len(calls) :
                                             calls[j].req.accountid = a}}
  <2> SUFFICES ASSUME Inv, NEW a \in Served, round[a].deadline # Unset,
                      NotRead \notin Got(a)
               PROVE  \E m \in Got(a) :
                          /\ [deadline |-> m.deadline, nonce |-> m.nonce] = round[a]
                          /\ \A l \in Got(a) \ {m} : l.deadline > m.deadline
    BY DEF PoolCanKnowBest
  <2>1. PICK j \in 1 .. Len(calls) : IsBest(j, a)
    BY DEF Inv, BestInv
  <2>2. ASSUME NEW i \in 1 .. Len(calls), OfAccount(i, a)
        PROVE  calls[i].got = calls[i].req
    <3>1. calls[i] \in Calls
      BY ElementOfSeq DEF Inv, TypeInv
    <3>2. calls[i].got \in {NotRead, calls[i].req}
      BY <3>1 DEF Calls
    <3>3. calls[i].got # NotRead
      BY <2>2 DEF OfAccount
    <3> QED BY <3>2, <3>3
  <2>3. PICK m : m = calls[j].got /\ m = calls[j].req
    BY <2>1, <2>2 DEF IsBest
  <2>4. m.deadline = round[a].deadline /\ m.nonce = round[a].nonce
    BY <2>1, <2>3 DEF IsBest
  <2>5. round[a] \in [deadline : Deadlines \cup {Unset}, nonce : Nat]
    BY AccountsAssumption DEF Inv, TypeInv
  <2>6. [deadline |-> m.deadline, nonce |-> m.nonce] = round[a]
    BY <2>4, <2>5
  <2>7. ASSUME NEW i \in 1 .. Len(calls), OfAccount(i, a), calls[i].got # m
        PROVE  calls[i].got.deadline > m.deadline
    BY <2>1, <2>2, <2>3, <2>4, <2>7 DEF IsBest
  <2>8. m \in Got(a)
    BY <2>1, <2>3 DEF IsBest, OfAccount
  <2>9. ASSUME NEW l \in Got(a) \ {m}
        PROVE  l.deadline > m.deadline
    <3>1. PICK i \in 1 .. Len(calls) : OfAccount(i, a) /\ calls[i].got = l
      BY DEF OfAccount
    <3> QED BY <2>7, <3>1
  <2> QED BY <2>6, <2>8, <2>9
<1> QED BY <1>1, InvAlways, PTL

=============================================================================
