-------------------------- MODULE HandshakeProofs --------------------------
(***************************************************************************)
(* Proof that a connection is opened with the configuration of the call of *)
(* open(), and that a server reads the cookies that were set, for every    *)
(* set of URLs, names and values.                                          *)
(***************************************************************************)
EXTENDS Handshake, GWSocketProofs, FiniteSetTheorems

----------------------------------------------------------------------------
(* Texts that are put together.  What holds for every number of them is    *)
(* shown by the least number for which it would not.                       *)

LEMMA LeastNumber ==
  ASSUME NEW T \in SUBSET Nat, T # {}
  PROVE  \E n \in T : \A m \in T : n <= m
<1> DEFINE R == OpToRel(<, Nat)
<1>1. IsWellFoundedOn(R, Nat)
  BY NatLessThanWellFounded
<1>2. PICK n \in T : \A m \in T : ~(<<m, n>> \in R)
  <2> HIDE DEF R
  <2> QED
    BY <1>1, WFMin
<1>3. \A m \in T : ~(m < n)
  BY <1>2 DEF OpToRel
<1> QED
  BY <1>3

Cat(a, b) == a \o b

\* f[i] is what the first i of the texts make up.
Accumulates(C, seqs, f) ==
  /\ seqs \in Seq(Seq(C)) /\ f \in [0 .. Len(seqs) -> Seq(C)]
  /\ f[0] = << >>
  /\ \A i \in 1 .. Len(seqs) : f[i] = Cat(f[i - 1], seqs[i])

LEMMA AccumulatesExists ==
  ASSUME NEW C, NEW seqs \in Seq(Seq(C))
  PROVE  \E f : Accumulates(C, seqs, f)
<1> DEFINE n       == Len(seqs)
           Upto(k) == \E f \in [0 .. k -> Seq(C)] :
                         /\ f[0] = << >>
                         /\ \A i \in 1 .. k : f[i] = Cat(f[i - 1], seqs[i])
           T       == {k \in 0 .. n : ~Upto(k)}
<1>1. n \in Nat /\ \A i \in 1 .. n : seqs[i] \in Seq(C)
  OBVIOUS
<1>2. T = {}
  <2> SUFFICES ASSUME T # {} PROVE FALSE
    OBVIOUS
  <2>1. PICK k \in T : \A m \in T : k <= m
    <3>1. T \in SUBSET Nat
      <4> HIDE DEF Upto
      <4> QED
        BY <1>1
    <3> HIDE DEF T
    <3> QED
      BY <3>1, LeastNumber
  <2>2. k \in 0 .. n /\ ~Upto(k)
    BY <2>1
  <2>3. CASE k = 0
    <3> DEFINE e == [i \in 0 .. 0 |-> << >>]
    <3>1. e \in [0 .. 0 -> Seq(C)] /\ e[0] = << >>
      OBVIOUS
    <3>2. \A i \in 1 .. 0 : e[i] = Cat(e[i - 1], seqs[i])
      OBVIOUS
    <3> QED
      BY <2>2, <2>3, <3>1, <3>2
  <2>4. CASE k # 0
    <3>1. k - 1 \in 0 .. n /\ ~(k <= k - 1) /\ k \in 1 .. n
      BY <1>1, <2>2, <2>4
    <3>2. Upto(k - 1)
      BY <2>1, <3>1
    <3>3. PICK f \in [0 .. k - 1 -> Seq(C)] :
            /\ f[0] = << >>
            /\ \A i \in 1 .. k - 1 : f[i] = Cat(f[i - 1], seqs[i])
      BY <3>2
    <3> DEFINE x == Cat(f[k - 1], seqs[k])
               g == [i \in 0 .. k |-> IF i = k THEN x ELSE f[i]]
    <3>4. x \in Seq(C)
      BY <1>1, <3>1, <3>3 DEF Cat
    <3> HIDE DEF x
    <3>5. g \in [0 .. k -> Seq(C)] /\ g[0] = << >>
      BY <3>1, <3>3, <3>4
    <3>6. \A i \in 1 .. k : g[i] = Cat(g[i - 1], seqs[i])
      <4> TAKE i \in 1 .. k
      <4>1. CASE i = k
        <5>1. g[i] = x /\ g[i - 1] = f[k - 1]
          BY <3>1, <4>1
        <5> QED
          BY <4>1, <5>1 DEF x
      <4>2. CASE i # k
        <5>1. i \in 1 .. k - 1 /\ g[i] = f[i] /\ g[i - 1] = f[i - 1]
          BY <3>1, <4>2
        <5> QED
          BY <3>3, <5>1
      <4> QED
        BY <4>1, <4>2
    <3> HIDE DEF g
    <3> QED
      BY <2>2, <3>5, <3>6
  <2> QED
    BY <2>3, <2>4
<1>3. Upto(n)
  <2> HIDE DEF Upto
  <2> QED
    BY <1>1, <1>2
<1>4. PICK f \in [0 .. n -> Seq(C)] :
        /\ f[0] = << >>
        /\ \A i \in 1 .. n : f[i] = Cat(f[i - 1], seqs[i])
  BY <1>3
<1>5. Accumulates(C, seqs, f)
  BY <1>4 DEF Accumulates
<1> QED
  BY <1>5

LEMMA FlattenIs ==
  ASSUME NEW C, NEW seqs, NEW f, Accumulates(C, seqs, f), seqs # << >>
  PROVE  FlattenSeq(seqs) = f[Len(seqs)]
<1> DEFINE n       == Len(seqs)
           Def(h)  == [i \in 1 .. n |-> IF i = 1 THEN seqs[i]
                                        ELSE Cat(h[i - 1], seqs[i])]
           flatten == CHOOSE h : h = Def(h)
           g       == [i \in 1 .. n |-> f[i]]
           T       == {i \in 1 .. n : flatten[i] # f[i]}
<1>1. n \in Nat \ {0} /\ \A i \in 1 .. n : seqs[i] \in Seq(C)
  BY DEF Accumulates
<1>2. FlattenSeq(seqs) = flatten[n]
  <2>1. Len(seqs) # 0
    BY <1>1
  <2> QED
    BY <2>1, Zenon DEF FlattenSeq, Cat
<1>3. f[1] = seqs[1] /\ \A i \in 2 .. n : f[i] = Cat(f[i - 1], seqs[i])
  <2>1. \A i \in 1 .. n : f[i] = Cat(f[i - 1], seqs[i])
    BY DEF Accumulates
  <2>2. f[1] = Cat(<< >>, seqs[1])
    <3>1. 1 \in 1 .. n /\ 1 - 1 = 0
      BY <1>1
    <3> QED
      BY <2>1, <3>1 DEF Accumulates
  <2>3. Cat(<< >>, seqs[1]) = seqs[1]
    BY <1>1 DEF Cat
  <2> QED
    BY <1>1, <2>1, <2>2, <2>3
<1>4. g = Def(g)
  BY <1>1, <1>3
<1>5. flatten = Def(flatten)
  <2>1. \E h : h = Def(h)
    BY <1>4
  <2> HIDE DEF Def
  <2> QED
    BY <2>1
<1>6. T = {}
  <2> HIDE DEF flatten
  <2> SUFFICES ASSUME T # {} PROVE FALSE
    OBVIOUS
  <2>1. PICK k \in T : \A m \in T : k <= m
    <3>1. T \in SUBSET Nat
      BY <1>1
    <3> HIDE DEF T
    <3> QED
      BY <3>1, LeastNumber
  <2>2. k \in 1 .. n /\ flatten[k] # f[k]
    BY <2>1
  <2>3. flatten[k] = IF k = 1 THEN seqs[k] ELSE Cat(flatten[k - 1], seqs[k])
    BY <1>5, <2>2
  <2>4. CASE k = 1
    BY <1>3, <2>2, <2>3, <2>4
  <2>5. CASE k # 1
    <3>1. k - 1 \in 1 .. n /\ ~(k <= k - 1) /\ k \in 2 .. n
      BY <1>1, <2>2, <2>5
    <3>2. flatten[k - 1] = f[k - 1]
      BY <2>1, <3>1
    <3> QED
      BY <1>3, <2>2, <2>3, <2>5, <3>1, <3>2
  <2> QED
    BY <2>4, <2>5
<1>7. flatten[n] = f[n]
  <2>1. n \in 1 .. n
    BY <1>1
  <2> HIDE DEF flatten, n
  <2> QED
    BY <1>6, <2>1
<1> QED
  BY <1>2, <1>7

LEMMA AccumulatesTypes ==
  ASSUME NEW C, NEW seqs, NEW f, Accumulates(C, seqs, f)
  PROVE  /\ Len(seqs) \in Nat /\ Len(f[0]) = 0
         /\ \A k \in 0 .. Len(seqs) : f[k] \in Seq(C) /\ Len(f[k]) \in Nat
         /\ \A k \in 1 .. Len(seqs) : seqs[k] \in Seq(C) /\ Len(seqs[k]) \in Nat
<1>1. seqs \in Seq(Seq(C)) /\ f \in [0 .. Len(seqs) -> Seq(C)]
      /\ f[0] = << >>
  BY DEF Accumulates
<1>2. Len(seqs) \in Nat
  BY <1>1
<1>3. \A k \in 0 .. Len(seqs) : f[k] \in Seq(C)
  BY <1>1
<1>4. \A k \in 1 .. Len(seqs) : seqs[k] \in Seq(C)
  BY <1>1
<1>5. \A s \in Seq(C) : Len(s) \in Nat
  OBVIOUS
<1>6. Len(f[0]) = 0
  BY <1>1
<1> QED
  BY <1>2, <1>3, <1>4, <1>5, <1>6, Zenon

\* What the first texts make up is a beginning of what more of them do.
LEMMA AccumulatesPrefix ==
  ASSUME NEW C, NEW seqs, NEW f, Accumulates(C, seqs, f),
         NEW i \in 0 .. Len(seqs), NEW j \in i .. Len(seqs)
  PROVE  /\ Len(f[i]) <= Len(f[j])
         /\ \A p \in 1 .. Len(f[i]) : f[j][p] = f[i][p]
<1> DEFINE n       == Len(seqs)
           Good(k) == /\ Len(f[i]) <= Len(f[k])
                      /\ \A p \in 1 .. Len(f[i]) : f[k][p] = f[i][p]
           T       == {k \in i .. n : ~Good(k)}
<1>1. n \in Nat /\ \A k \in 0 .. n : f[k] \in Seq(C) /\ Len(f[k]) \in Nat
  BY AccumulatesTypes
<1>2. T = {}
  <2> SUFFICES ASSUME T # {} PROVE FALSE
    OBVIOUS
  <2>1. PICK k \in T : \A m \in T : k <= m
    <3>1. T \in SUBSET Nat
      <4> HIDE DEF Good
      <4> QED
        BY <1>1
    <3> HIDE DEF T
    <3> QED
      BY <3>1, LeastNumber
  <2>2. k \in i .. n /\ ~Good(k)
    BY <2>1
  <2>3. k # i
    BY <1>1, <2>2
  <2>4. k - 1 \in i .. n /\ ~(k <= k - 1) /\ k \in 1 .. n
        /\ k - 1 \in 0 .. n /\ k \in 0 .. n
    BY <1>1, <2>2, <2>3
  <2>5. Good(k - 1)
    <3> HIDE DEF Good
    <3> QED
      BY <2>1, <2>4
  <2>6. f[k] = Cat(f[k - 1], seqs[k]) /\ seqs[k] \in Seq(C)
    BY <2>4, AccumulatesTypes DEF Accumulates
  <2>7. /\ Len(f[k]) = Len(f[k - 1]) + Len(seqs[k]) /\ Len(seqs[k]) \in Nat
        /\ \A p \in 1 .. Len(f[k - 1]) : f[k][p] = f[k - 1][p]
    <3> DEFINE a == f[k - 1]
               b == seqs[k]
    <3>1. a \in Seq(C) /\ b \in Seq(C) /\ f[k] = Cat(a, b)
      BY <1>1, <2>4, <2>6
    <3>2. Len(b) \in Nat
      BY <3>1
    <3> HIDE DEF a, b
    <3>3. /\ Len(Cat(a, b)) = Len(a) + Len(b)
          /\ \A p \in 1 .. Len(a) : Cat(a, b)[p] = a[p]
      BY <3>1 DEF Cat
    <3>4. /\ Len(f[k]) = Len(a) + Len(b)
          /\ \A p \in 1 .. Len(a) : f[k][p] = a[p]
      BY <3>1, <3>3, Zenon
    <3> QED
      BY <3>2, <3>4, Zenon DEF a, b
  <2>8. Good(k)
    <3> DEFINE a == f[k - 1]
               c == f[k]
               l == Len(f[i])
    <3>1. l \in Nat /\ Len(a) \in Nat /\ Len(c) \in Nat /\ l <= Len(a)
      BY <1>1, <2>4, <2>5
    <3>2. Len(a) <= Len(c)
      <4> DEFINE d == Len(seqs[k])
      <4>1. Len(c) = Len(a) + d /\ d \in Nat /\ Len(a) \in Nat
        BY <2>7, <3>1, Zenon
      <4> HIDE DEF a, c, d
      <4> QED
        BY <4>1
    <3>3. /\ \A p \in 1 .. Len(a) : c[p] = a[p]
          /\ \A p \in 1 .. l : a[p] = f[i][p]
      BY <2>5, <2>7, Zenon
    <3> HIDE DEF a, c, l
    <3>4. l <= Len(c) /\ \A p \in 1 .. l : p \in 1 .. Len(a)
      BY <3>1, <3>2
    <3>5. \A p \in 1 .. l : c[p] = f[i][p]
      BY <3>3, <3>4, Zenon
    <3> QED
      BY <3>4, <3>5, Zenon DEF c, l
  <2> QED
    BY <2>2, <2>8
<1>3. Good(j)
  <2> HIDE DEF Good
  <2> QED
    BY <1>2
<1> QED
  BY <1>3

\* The i-th text in the whole.
Placed(seqs, f, i) ==
  /\ Len(f[i]) = Len(f[i - 1]) + Len(seqs[i])
  /\ \A p \in 1 .. Len(seqs[i]) :
       f[Len(seqs)][Len(f[i - 1]) + p] = seqs[i][p]

LEMMA AccumulatesPieces ==
  ASSUME NEW C, NEW seqs, NEW f, Accumulates(C, seqs, f),
         NEW i \in 1 .. Len(seqs)
  PROVE  Placed(seqs, f, i)
<1> DEFINE n == Len(seqs)
<1>1. /\ n \in Nat /\ i - 1 \in 0 .. n /\ i \in 0 .. n /\ n \in i .. n
      /\ seqs[i] \in Seq(C) /\ f[i - 1] \in Seq(C) /\ f[i] \in Seq(C)
      /\ Len(f[i - 1]) \in Nat /\ Len(seqs[i]) \in Nat
  <2>1. n \in Nat /\ i - 1 \in 0 .. n /\ i \in 0 .. n /\ n \in i .. n
    BY AccumulatesTypes
  <2> QED
    BY <2>1, AccumulatesTypes, Zenon
<1>2. f[i] = Cat(f[i - 1], seqs[i])
  BY DEF Accumulates
<1>3. /\ Len(f[i]) = Len(f[i - 1]) + Len(seqs[i])
      /\ \A p \in 1 .. Len(seqs[i]) : f[i][Len(f[i - 1]) + p] = seqs[i][p]
  <2> DEFINE a == f[i - 1]
             b == seqs[i]
  <2>1. a \in Seq(C) /\ b \in Seq(C) /\ f[i] = Cat(a, b)
    BY <1>1, <1>2, Zenon
  <2> HIDE DEF a, b
  <2>2. /\ Len(Cat(a, b)) = Len(a) + Len(b)
        /\ \A p \in 1 .. Len(b) : Cat(a, b)[Len(a) + p] = b[p]
    BY <2>1 DEF Cat
  <2>3. /\ Len(f[i]) = Len(a) + Len(b)
        /\ \A p \in 1 .. Len(b) : f[i][Len(a) + p] = b[p]
    BY <2>1, <2>2, Zenon
  <2> QED
    BY <2>3, Zenon DEF a, b
<1>4. \A p \in 1 .. Len(f[i]) : f[n][p] = f[i][p]
  <2>1. \A j \in i .. Len(seqs), p \in 1 .. Len(f[i]) : f[j][p] = f[i][p]
    BY <1>1, AccumulatesPrefix
  <2> QED
    BY <1>1, <2>1, Zenon
<1>5. ASSUME NEW p \in 1 .. Len(seqs[i])
      PROVE  f[n][Len(f[i - 1]) + p] = seqs[i][p]
  <2>1. Len(f[i - 1]) + p \in 1 .. Len(f[i])
    <3> DEFINE a == Len(f[i - 1])
               b == Len(seqs[i])
    <3>1. a \in Nat /\ b \in Nat /\ p \in 1 .. b /\ Len(f[i]) = a + b
      BY <1>1, <1>3, Zenon
    <3> HIDE DEF a, b
    <3>2. a + p \in 1 .. a + b
      BY <3>1
    <3> QED
      BY <3>1, <3>2, Zenon DEF a
  <2> QED
    BY <1>3, <1>4, <2>1
<1> QED
  BY <1>3, <1>5, Zenon DEF Placed

\* Every character of the whole is one of some text.
LEMMA AccumulatesCovers ==
  ASSUME NEW C, NEW seqs, NEW f, Accumulates(C, seqs, f),
         NEW p \in 1 .. Len(f[Len(seqs)])
  PROVE  \E i \in 1 .. Len(seqs) : p \in Len(f[i - 1]) + 1 .. Len(f[i])
<1> DEFINE n == Len(seqs)
           T == {k \in 0 .. n : p <= Len(f[k])}
<1>1. /\ n \in Nat /\ n \in 0 .. n
      /\ \A k \in 0 .. n : f[k] \in Seq(C) /\ Len(f[k]) \in Nat
  BY AccumulatesTypes
<1>2. n \in T /\ T \in SUBSET Nat /\ p \in Nat
  BY <1>1
<1>3. PICK k \in T : \A m \in T : k <= m
  <2> HIDE DEF T
  <2> QED
    BY <1>2, LeastNumber
<1>4. k # 0
  <2>1. Len(f[0]) = 0
    BY AccumulatesTypes
  <2> QED
    BY <1>3, <2>1
<1>5. k \in 1 .. n /\ k - 1 \in 0 .. n /\ ~(k <= k - 1)
  BY <1>1, <1>3, <1>4
<1>6. ~(p <= Len(f[k - 1]))
  BY <1>3, <1>5
<1> QED
  BY <1>1, <1>2, <1>3, <1>5, <1>6

----------------------------------------------------------------------------
(* How a server reads one cookie.                                          *)

LEMMA MinIs ==
  ASSUME NEW S \in SUBSET Nat, NEW m \in S, \A j \in S : m <= j
  PROVE  Min(S) = m
<1> DEFINE x == Min(S)
<1>1. x \in S /\ \A j \in S : x <= j
  BY DEF Min
<1> HIDE DEF x
<1>2. x \in Nat /\ m \in Nat /\ x <= m /\ m <= x
  BY <1>1
<1>3. x = m
  BY <1>2
<1> QED
  BY <1>3 DEF x

\* The characters of a name, "=" and a value at place b of a text.
PairAt(t, b, k, v) ==
  /\ \A p \in 1 .. Len(k) : t[b + p] = k[p]
  /\ t[b + Len(k) + 1] = "="
  /\ \A p \in 1 .. Len(v) : t[b + Len(k) + 1 + p] = v[p]

IsPair(k, v) ==
  /\ k \in Seq(Char) /\ isToken(k)
  /\ v \in Seq(Char) /\ isCookieValue(v)

LEMMA PairFacts ==
  ASSUME NEW k, NEW v, IsPair(k, v)
  PROVE  /\ k \in Seq(Char) /\ v \in Seq(Char)
         /\ Len(k) \in Nat \ {0} /\ Len(v) \in Nat
         /\ \A p \in 1 .. Len(k) : k[p] = "x"
         /\ \A p \in 1 .. Len(v) : v[p] # "semi"
<1>1. /\ k \in Seq(Char) /\ v \in Seq(Char) /\ k # << >>
      /\ \A i \in DOMAIN k : k[i] \in {"x"}
      /\ \A i \in DOMAIN v : v[i] \in {"x", "="}
  BY Zenon DEF IsPair, isToken, isCookieValue, Consists
<1>2. /\ Len(k) \in Nat \ {0} /\ Len(v) \in Nat
      /\ DOMAIN k = 1 .. Len(k) /\ DOMAIN v = 1 .. Len(v)
  BY <1>1
<1> QED
  BY <1>1, <1>2

LEMMA SubSeqIs ==
  ASSUME NEW C, NEW t \in Seq(C), NEW b \in Nat, NEW n \in Nat,
         b + n <= Len(t)
  PROVE  SubSeq(t, b + 1, b + n) = [p \in 1 .. n |-> t[b + p]]
<1>1. SubSeq(t, b + 1, b + n)
        = [p \in 1 .. (b + n) - (b + 1) + 1 |-> t[p + (b + 1) - 1]]
  OBVIOUS
<1>2. (b + n) - (b + 1) + 1 = n /\ \A p \in 1 .. n : p + (b + 1) - 1 = b + p
  OBVIOUS
<1> QED
  BY <1>1, <1>2

LEMMA PairIsRead ==
  ASSUME NEW t \in Seq(Char), NEW k, NEW v, IsPair(k, v),
         NEW b \in Nat, NEW e \in Nat, e = b + Len(k) + 1 + Len(v),
         e <= Len(t), PairAt(t, b, k, v)
  PROVE  PairOf(SubSeq(t, b + 1, e)) = <<k, v>>
<1> DEFINE s == SubSeq(t, b + 1, e)
           l == Len(k)
           m == Len(v)
           E == {i \in DOMAIN s : s[i] = "="} \cup {Len(s) + 1}
<1>1. /\ k \in Seq(Char) /\ v \in Seq(Char) /\ l \in Nat \ {0} /\ m \in Nat
      /\ \A p \in 1 .. l : k[p] = "x"
  BY PairFacts
<1>2. e = b + l + 1 + m
  OBVIOUS
<1>3. /\ s \in Seq(Char) /\ Len(s) = l + 1 + m
      /\ \A p \in 1 .. l + 1 + m : s[p] = t[b + p]
  <2>1. b + 1 \in 1 .. Len(t) + 1 /\ Len(t) \in Nat
    BY <1>1, <1>2
  <2>2. b \in Nat /\ l \in Nat /\ m \in Nat /\ e = b + (l + 1 + m)
    BY <1>1, <1>2
  <2> HIDE DEF l, m
  <2>3. /\ s \in Seq(Char) /\ Len(s) = l + 1 + m
    BY <2>1, <2>2
  <2>4. \A p \in 1 .. l + 1 + m : s[p] = t[b + p]
    <3> DEFINE n == l + 1 + m
    <3>1. n \in Nat /\ e = b + n /\ b + n <= Len(t)
      BY <2>2
    <3> HIDE DEF n
    <3>2. s = [p \in 1 .. n |-> t[b + p]]
      BY <3>1, SubSeqIs
    <3> HIDE DEF s
    <3> QED
      BY <3>2 DEF n
  <2> QED
    BY <2>3, <2>4
<1> HIDE DEF s, l, m
<1>4. /\ \A p \in 1 .. l : s[p] = k[p]
      /\ s[l + 1] = "="
      /\ \A p \in 1 .. m : s[l + 1 + p] = v[p]
  <2>1. /\ \A p \in 1 .. l : t[b + p] = k[p]
        /\ t[b + (l + 1)] = "="
        /\ \A p \in 1 .. m : t[b + (l + 1 + p)] = v[p]
    <3>1. b + (l + 1) = b + l + 1 /\ \A p \in 1 .. m : b + (l + 1 + p) = b + l + 1 + p
      BY <1>1
    <3> QED
      BY <3>1 DEF PairAt, l, m
  <2>2. /\ \A p \in 1 .. l : p \in 1 .. l + 1 + m
        /\ l + 1 \in 1 .. l + 1 + m
        /\ \A p \in 1 .. m : l + 1 + p \in 1 .. l + 1 + m
    BY <1>1
  <2> QED
    BY <1>3, <2>1, <2>2
<1>5. DOMAIN s = 1 .. l + 1 + m
  BY <1>3
<1>6. E \in SUBSET Nat /\ l + 1 \in E /\ \A i \in E : l + 1 <= i
  <2> DEFINE S == {i \in 1 .. l + 1 + m : s[i] = "="}
  <2>1. E = S \cup {l + 1 + m + 1}
    BY <1>3, <1>5, Zenon
  <2>2. l + 1 \in S
    BY <1>1, <1>4
  <2>3. ASSUME NEW i \in S PROVE i \in Nat /\ l + 1 <= i
    <3>1. i \in 1 .. l + 1 + m /\ s[i] = "="
      OBVIOUS
    <3>2. i \notin 1 .. l
      <4> SUFFICES ASSUME i \in 1 .. l PROVE FALSE
        OBVIOUS
      <4>1. s[i] = "x"
        BY <1>1, <1>4
      <4> QED
        BY <3>1, <4>1
    <3> QED
      BY <1>1, <3>1, <3>2
  <2> HIDE DEF S, E
  <2> QED
    BY <1>1, <2>1, <2>2, <2>3
<1>7. Min(E) = l + 1
  <2> HIDE DEF E
  <2> QED
    BY <1>6, MinIs
<1>8. SubSeq(s, 1, l) = k
  <2>1. SubSeq(s, 1, l) = [p \in 1 .. l |-> s[p]]
    BY <1>1, <1>3
  <2>2. k = [p \in 1 .. l |-> k[p]]
    BY <1>1 DEF l
  <2> QED
    BY <1>4, <2>1, <2>2
<1>9. SubSeq(s, l + 2, Len(s)) = v
  <2>1. SubSeq(s, l + 1 + 1, l + 1 + m) = [p \in 1 .. m |-> s[l + 1 + p]]
    <3> DEFINE b1 == l + 1
    <3>1. b1 \in Nat /\ m \in Nat /\ b1 + m <= Len(s) /\ s \in Seq(Char)
      BY <1>1, <1>3
    <3> HIDE DEF b1
    <3>2. SubSeq(s, b1 + 1, b1 + m) = [p \in 1 .. m |-> s[b1 + p]]
      BY <3>1, SubSeqIs
    <3> QED
      BY <3>2, Zenon DEF b1
  <2>3. l + 1 + 1 = l + 2
    BY <1>1
  <2>2. v = [p \in 1 .. m |-> v[p]]
    BY <1>1 DEF m
  <2> QED
    BY <1>3, <1>4, <2>1, <2>2, <2>3
<1>10. PairOf(s) = <<SubSeq(s, 1, Min(E) - 1), SubSeq(s, Min(E) + 1, Len(s))>>
  BY Zenon DEF PairOf
<1>11. PairOf(s) = <<k, v>>
  <2> DEFINE q == Min(E)
  <2>1. q = l + 1
    BY <1>7, Zenon
  <2>2. PairOf(s) = <<SubSeq(s, 1, q - 1), SubSeq(s, q + 1, Len(s))>>
    BY <1>10, Zenon
  <2> HIDE DEF q
  <2>3. SubSeq(s, 1, q - 1) = k /\ SubSeq(s, q + 1, Len(s)) = v
    <3>1. q - 1 = l /\ q + 1 = l + 2
      BY <1>1, <2>1
    <3> QED
      BY <1>8, <1>9, <3>1, Zenon
  <2> QED
    BY <2>2, <2>3, Zenon
<1> QED
  BY <1>11, Zenon DEF s

----------------------------------------------------------------------------
(* How it reads a text of several cookies.                                 *)

\* Where the i-th cookie of a text begins, when e[i] is where it ends.
Begin(e, i) == IF i = 1 THEN 0 ELSE e[i - 1] + 2
CutOf(e, i) == IF i = 1 THEN 0 ELSE e[i - 1] + 1


Within(e, i, p) == p \in e[i - 1] + 1 .. e[i]

\* A text of n cookies.
Layout(t, n, e, K, V) ==
  /\ t \in Seq(Char) /\ n \in Nat \ {0} /\ e \in [0 .. n -> Nat]
  /\ e[0] = 0 /\ e[n] = Len(t)
  /\ \A i \in 0 .. n, j \in 0 .. n : i <= j => e[i] <= e[j]
  /\ \A p \in 1 .. Len(t) : \E i \in 1 .. n : Within(e, i, p)
  /\ \A i \in 1 .. n :
       /\ IsPair(K[i], V[i]) /\ PairAt(t, Begin(e, i), K[i], V[i])
       /\ e[i] = Begin(e, i) + Len(K[i]) + 1 + Len(V[i])
       /\ i # 1 => t[e[i - 1] + 1] = "semi" /\ t[e[i - 1] + 2] = "blank"

LEMMA LayoutNumbers ==
  ASSUME NEW t, NEW n, NEW e, NEW K, NEW V, Layout(t, n, e, K, V),
         NEW i \in 1 .. n
  PROVE  /\ n \in Nat /\ i - 1 \in 0 .. n /\ i \in 0 .. n /\ n \in 0 .. n
         /\ e[i - 1] \in Nat /\ e[i] \in Nat /\ Len(t) \in Nat
         /\ e[i] <= Len(t) /\ Begin(e, i) \in Nat
         /\ CutOf(e, i) \in Nat /\ CutOf(e, i) < e[i] + 1
         /\ Begin(e, i) = e[i - 1] + (IF i = 1 THEN 0 ELSE 2)
         /\ Begin(e, i) < e[i]
<1>1. n \in Nat \ {0} /\ e \in [0 .. n -> Nat] /\ t \in Seq(Char)
  BY DEF Layout
<1>2. i - 1 \in 0 .. n /\ i \in 0 .. n /\ n \in 0 .. n /\ n \in Nat /\ i <= n
  BY <1>1
<1>3. e[i - 1] \in Nat /\ e[i] \in Nat /\ Len(t) \in Nat
  BY <1>1, <1>2
<1>4. e[i] <= Len(t) /\ e[0] = 0
  BY <1>2 DEF Layout
<1>5. /\ i = 1 => e[i - 1] = 0
      /\ Begin(e, i) = IF i = 1 THEN 0 ELSE e[i - 1] + 2
      /\ CutOf(e, i) = IF i = 1 THEN 0 ELSE e[i - 1] + 1
  BY <1>4 DEF Begin, CutOf
<1>6. /\ Begin(e, i) \in Nat
      /\ CutOf(e, i) \in Nat /\ CutOf(e, i) <= Begin(e, i)
      /\ Begin(e, i) = e[i - 1] + (IF i = 1 THEN 0 ELSE 2)
  BY <1>3, <1>5
<1>7. Begin(e, i) < e[i]
  <2> DEFINE l == Len(K[i])
             m == Len(V[i])
             b == Begin(e, i)
  <2>1. IsPair(K[i], V[i]) /\ e[i] = b + l + 1 + m
    BY Zenon DEF Layout
  <2>2. l \in Nat /\ m \in Nat /\ b \in Nat
    BY <1>6, <2>1, PairFacts
  <2> HIDE DEF l, m, b
  <2>3. b < e[i]
    BY <2>1, <2>2
  <2> QED
    BY <2>3 DEF b
<1>8. CutOf(e, i) < e[i] + 1
  BY <1>3, <1>6, <1>7
<1> QED
  BY <1>2, <1>3, <1>4, <1>6, <1>7, <1>8

\* Between a and the end of a cookie there is a semicolon only in front.
InFront(t, k, v, a, b, p) ==
  /\ IsPair(k, v) /\ PairAt(t, b, k, v)
  /\ a \in Nat /\ b \in Nat /\ p \in Nat /\ (b = a \/ b = a + 2)
  /\ b = a + 2 => t[a + 2] = "blank"
  /\ a < p /\ p <= b + Len(k) + 1 + Len(v) /\ t[p] = "semi"

LEMMA OnlyInFront ==
  ASSUME NEW t, NEW k, NEW v, NEW a, NEW b, NEW p,
         InFront(t, k, v, a, b, p)
  PROVE  b = a + 2 /\ p = a + 1
<1> DEFINE l == Len(k)
           m == Len(v)
<1>1. /\ IsPair(k, v) /\ PairAt(t, b, k, v)
      /\ a \in Nat /\ b \in Nat /\ p \in Nat /\ (b = a \/ b = a + 2)
      /\ b = a + 2 => t[a + 2] = "blank"
      /\ a < p /\ p <= b + l + 1 + m /\ t[p] = "semi"
  BY Zenon DEF InFront
<1>2. /\ l \in Nat /\ m \in Nat /\ \A q \in 1 .. l : k[q] = "x"
      /\ \A q \in 1 .. m : v[q] # "semi"
  BY <1>1, PairFacts
<1>3. /\ \A q \in 1 .. l : t[b + q] = k[q]
      /\ t[b + l + 1] = "="
      /\ \A q \in 1 .. m : t[b + l + 1 + q] = v[q]
  BY <1>1, Zenon DEF PairAt
<1> HIDE DEF l, m
<1>4. ASSUME b < p, p <= b + l PROVE FALSE
  <2> DEFINE q == p - b
  <2>1. q \in 1 .. l /\ b + q = p
    BY <1>2, <1>1, <1>4
  <2> HIDE DEF q
  <2>2. t[p] = "x"
    BY <1>2, <1>3, <2>1
  <2> QED
    BY <1>1, <2>2
<1>5. ASSUME b + l + 1 < p PROVE FALSE
  <2> DEFINE q == p - (b + l + 1)
  <2>1. q \in 1 .. m /\ b + l + 1 + q = p
    BY <1>2, <1>1, <1>5
  <2> HIDE DEF q
  <2>2. t[p] = v[q] /\ v[q] # "semi"
    BY <1>2, <1>3, <2>1
  <2> QED
    BY <1>1, <2>2
<1>6. p # b + l + 1
  BY <1>3, <1>1
<1>7. p <= b
  BY <1>2, <1>1, <1>4, <1>5, <1>6
<1>8. b = a + 2 /\ (p = a + 1 \/ p = a + 2)
  BY <1>1, <1>7
<1>9. p # a + 2
  BY <1>1, <1>8
<1> QED
  BY <1>8, <1>9

LEMMA SemicolonInFront ==
  ASSUME NEW t, NEW n, NEW e, NEW K, NEW V, Layout(t, n, e, K, V),
         NEW i \in 1 .. n, NEW p, Within(e, i, p), t[p] = "semi"
  PROVE  i # 1 /\ p = e[i - 1] + 1
<1> DEFINE k == K[i]
           v == V[i]
           b == Begin(e, i)
           a == e[i - 1]
           c == e[i]
           l == Len(k)
           m == Len(v)
<1>1. IsPair(k, v) /\ PairAt(t, b, k, v) /\ c = b + l + 1 + m
      /\ (i # 1 => t[a + 2] = "blank")
  BY Zenon DEF Layout
<1>2. /\ a \in Nat /\ b \in Nat /\ c \in Nat
      /\ b = a + (IF i = 1 THEN 0 ELSE 2)
  BY LayoutNumbers
<1>3. p \in a + 1 .. c
  BY DEF Within
<1>4. l \in Nat /\ m \in Nat /\ l = Len(k) /\ m = Len(v)
  BY <1>1, PairFacts
<1> HIDE DEF k, v, b, a, c, l, m
<1>5. p \in Nat /\ a < p /\ p <= b + l + 1 + m
  BY <1>1, <1>2, <1>3
<1>6. (b = a \/ b = a + 2) /\ (b = a + 2 <=> i # 1)
  BY <1>2
<1>7. b = a + 2 /\ p = a + 1
  <2>1. b = a + 2 => t[a + 2] = "blank"
    BY <1>1, <1>6
  <2>2. InFront(t, k, v, a, b, p)
    BY <1>1, <1>2, <1>5, <1>6, <1>4, <2>1, Zenon DEF InFront
  <2> QED
    BY <2>2, OnlyInFront
<1>8. i # 1 /\ p = a + 1
  BY <1>6, <1>7
<1> QED
  BY <1>8 DEF a

\* The cuts of such a text are its ends and those behind its cookies.
LEMMA CutsAre ==
  ASSUME NEW t, NEW n, NEW e, NEW K, NEW V, Layout(t, n, e, K, V)
  PROVE  Cuts(t) = {0} \cup {e[i] + 1 : i \in 1 .. n}
<1>1. n \in Nat \ {0} /\ t \in Seq(Char) /\ n \in 1 .. n /\ e[n] = Len(t)
      /\ DOMAIN t = 1 .. Len(t) /\ Len(t) \in Nat
  <2>1. n \in Nat \ {0} /\ t \in Seq(Char) /\ e[n] = Len(t)
    BY Zenon DEF Layout
  <2> QED
    BY <2>1
<1>2. ASSUME NEW p \in DOMAIN t, t[p] = "semi"
      PROVE  \E i \in 1 .. n : p = e[i] + 1
  <2>1. PICK i \in 1 .. n : Within(e, i, p)
    <3>1. p \in 1 .. Len(t)
      BY <1>1
    <3> QED
      BY <3>1 DEF Layout
  <2>2. i # 1 /\ p = e[i - 1] + 1
    BY <1>2, <2>1, SemicolonInFront
  <2>3. i - 1 \in 1 .. n
    BY <1>1, <2>1, <2>2
  <2> QED
    BY <2>2, <2>3
<1>3. ASSUME NEW i \in 1 .. n
      PROVE  e[i] + 1 \in Cuts(t)
  <2>1. CASE i = n
    BY <1>1, <2>1, Zenon DEF Cuts
  <2>2. CASE i # n
    <3> DEFINE j == i + 1
    <3>1. j \in 1 .. n /\ j # 1 /\ j - 1 = i
      BY <1>1, <2>2
    <3> HIDE DEF j
    <3>2. t[e[j - 1] + 1] = "semi"
      BY <3>1, Zenon DEF Layout
    <3>3. /\ e[j - 1] \in Nat /\ e[j] \in Nat /\ Len(t) \in Nat /\ e[j] <= Len(t)
          /\ Begin(e, j) = e[j - 1] + (IF j = 1 THEN 0 ELSE 2)
          /\ Begin(e, j) < e[j]
      BY <3>1, LayoutNumbers
    <3>4. e[j - 1] + 1 \in 1 .. Len(t)
      BY <3>1, <3>3
    <3>5. e[i] + 1 \in DOMAIN t /\ t[e[i] + 1] = "semi"
      BY <1>1, <3>1, <3>2, <3>4
    <3> QED
      BY <3>5, Zenon DEF Cuts
  <2> QED
    BY <2>1, <2>2
<1>4. ASSUME NEW c \in Cuts(t)
      PROVE  c \in {0} \cup {e[i] + 1 : i \in 1 .. n}
  <2>1. c = 0 \/ c = Len(t) + 1 \/ (c \in DOMAIN t /\ t[c] = "semi")
    BY DEF Cuts
  <2> QED
    BY <1>1, <1>2, <2>1
<1>5. 0 \in Cuts(t)
  BY DEF Cuts
<1> QED
  BY <1>3, <1>4, <1>5

LEMMA NextCut ==
  ASSUME NEW t, NEW n, NEW e, NEW K, NEW V, Layout(t, n, e, K, V),
         NEW i \in 1 .. n
  PROVE  Min({c \in Cuts(t) : c > CutOf(e, i)}) = e[i] + 1
<1> DEFINE a == CutOf(e, i)
           S == {c \in Cuts(t) : c > a}
           z == e[i] + 1
<1>1. n \in Nat \ {0} /\ \A j \in 1 .. n : e[j] \in Nat
  BY LayoutNumbers DEF Layout
<1>2. a \in Nat /\ a < z /\ z \in Nat
  BY LayoutNumbers
<1>3. z \in S
  BY <1>2, CutsAre
<1>4. Cuts(t) \in SUBSET Nat
  BY <1>1, CutsAre
<1>5. ASSUME NEW c \in S PROVE z <= c
  <2>1. c \in Cuts(t) /\ c > a
    OBVIOUS
  <2>2. PICK j \in 1 .. n : c = e[j] + 1
    BY <1>2, <2>1, CutsAre
  <2>3. i <= j
    <3> SUFFICES ASSUME j < i PROVE FALSE
      BY <1>1
    <3>1. j \in 0 .. n /\ i - 1 \in 0 .. n /\ j <= i - 1 /\ i # 1
      BY <1>1
    <3>2. e[j] <= e[i - 1]
      BY <3>1 DEF Layout
    <3>3. a = e[i - 1] + 1 /\ e[i - 1] \in Nat /\ e[j] \in Nat
      BY <1>1, <3>1, LayoutNumbers DEF CutOf
    <3> HIDE DEF a
    <3> QED
      BY <2>1, <2>2, <3>2, <3>3
  <2>4. e[i] <= e[j] /\ e[i] \in Nat /\ e[j] \in Nat
    <3>1. i \in 0 .. n /\ j \in 0 .. n
      BY <1>1
    <3> QED
      BY <1>1, <2>3, <3>1 DEF Layout
  <2> QED
    BY <2>2, <2>4
<1>6. S \in SUBSET Nat
  BY <1>4
<1>7. Min(S) = z
  <2> HIDE DEF S, z
  <2> QED
    BY <1>3, <1>5, <1>6, MinIs
<1> QED
  BY <1>7, Zenon

LEMMA CookieIsRead ==
  ASSUME NEW t, NEW n, NEW e, NEW K, NEW V, Layout(t, n, e, K, V),
         NEW i \in 1 .. n
  PROVE  PairOf(PieceAt(t, CutOf(e, i))) = <<K[i], V[i]>>
<1> DEFINE a == CutOf(e, i)
           b == Begin(e, i)
           c == e[i]
           x == Min({d \in Cuts(t) : d > a})
<1>1. /\ b \in Nat /\ c \in Nat /\ c <= Len(t)
  BY LayoutNumbers
<1>2. b + 1 = IF a = 0 THEN 1 ELSE a + 2
  BY LayoutNumbers DEF CutOf, Begin
<1>3. x = c + 1
  BY NextCut, Zenon
<1>4. PieceAt(t, a) = SubSeq(t, IF a = 0 THEN 1 ELSE a + 2, x - 1)
  BY Zenon DEF PieceAt
<1>5. /\ t \in Seq(Char) /\ IsPair(K[i], V[i]) /\ PairAt(t, b, K[i], V[i])
      /\ c = b + Len(K[i]) + 1 + Len(V[i])
  BY Zenon DEF Layout
<1> HIDE DEF a, b, c, x
<1>6. x - 1 = c
  BY <1>1, <1>3
<1>7. PieceAt(t, a) = SubSeq(t, b + 1, c)
  BY <1>2, <1>4, <1>6, Zenon
<1>8. PairOf(SubSeq(t, b + 1, c)) = <<K[i], V[i]>>
  <2> DEFINE k == K[i]
             v == V[i]
  <2>1. /\ t \in Seq(Char) /\ IsPair(k, v) /\ PairAt(t, b, k, v)
        /\ c = b + Len(k) + 1 + Len(v)
    BY <1>5
  <2> HIDE DEF k, v
  <2>2. PairOf(SubSeq(t, b + 1, c)) = <<k, v>>
    BY <1>1, <2>1, PairIsRead
  <2> QED
    BY <2>2 DEF k, v
<1>9. PairOf(PieceAt(t, a)) = <<K[i], V[i]>>
  BY <1>7, <1>8, Zenon
<1> QED
  BY <1>9, Zenon DEF a

LEMMA CutsOfCookies ==
  ASSUME NEW t, NEW n, NEW e, NEW K, NEW V, Layout(t, n, e, K, V)
  PROVE  /\ t # << >>
         /\ Cuts(t) \ {Len(t) + 1} = {CutOf(e, i) : i \in 1 .. n}
<1>1. n \in Nat \ {0} /\ e[n] = Len(t) /\ t \in Seq(Char) /\ Len(t) \in Nat
      /\ 1 \in 1 .. n
  BY DEF Layout
<1>2. ASSUME NEW i \in 1 .. n
      PROVE  /\ CutOf(e, i) \in Nat /\ e[i] \in Nat /\ e[i] <= Len(t)
             /\ CutOf(e, i) < e[i] + 1
             /\ i # 1 => CutOf(e, i) = e[i - 1] + 1
             /\ CutOf(e, 1) = 0
  <2>1. /\ CutOf(e, i) \in Nat /\ e[i] \in Nat /\ e[i] <= Len(t)
        /\ CutOf(e, i) < e[i] + 1
    BY LayoutNumbers
  <2>2. (i # 1 => CutOf(e, i) = e[i - 1] + 1) /\ CutOf(e, 1) = 0
    BY DEF CutOf
  <2> QED
    BY <2>1, <2>2
<1>3. Len(t) # 0
  <2>1. e[1] <= Len(t) /\ Begin(e, 1) < e[1] /\ Begin(e, 1) \in Nat
        /\ e[1] \in Nat
    BY <1>1, LayoutNumbers
  <2> QED
    BY <1>1, <2>1
<1>4. ASSUME NEW i \in 1 .. n PROVE CutOf(e, i) \in Cuts(t) \ {Len(t) + 1}
  <2>1. CutOf(e, i) # Len(t) + 1
    <3> DEFINE a == CutOf(e, i)
               l == Len(t)
               c == e[i]
    <3>1. a \in Nat /\ c \in Nat /\ l \in Nat /\ c <= l /\ a < c + 1
      BY <1>1, <1>2, Zenon
    <3> HIDE DEF a, l, c
    <3>2. a # l + 1
      BY <3>1
    <3> QED
      BY <3>2 DEF a, l
  <2>2. CASE i = 1
    BY <1>2, <2>1, <2>2, CutsAre
  <2>3. CASE i # 1
    <3>1. i - 1 \in 1 .. n
      BY <1>1, <2>3
    <3> QED
      BY <1>2, <2>1, <2>3, <3>1, CutsAre
  <2> QED
    BY <2>2, <2>3
<1>5. ASSUME NEW c \in Cuts(t) \ {Len(t) + 1}
      PROVE  \E i \in 1 .. n : c = CutOf(e, i)
  <2>1. CASE c = 0
    BY <1>1, <1>2, <2>1
  <2>2. CASE c # 0
    <3>1. PICK j \in 1 .. n : c = e[j] + 1
      BY <2>2, CutsAre
    <3>2. j # n
      BY <1>1, <3>1
    <3> DEFINE i == j + 1
    <3>3. i \in 1 .. n /\ i # 1 /\ i - 1 = j
      BY <1>1, <3>1, <3>2
    <3> HIDE DEF i
    <3>4. c = CutOf(e, i)
      BY <1>2, <3>1, <3>3
    <3> QED
      BY <3>3, <3>4
  <2> QED
    BY <2>1, <2>2
<1> QED
  BY <1>1, <1>3, <1>4, <1>5

LEMMA CookiesAreRead ==
  ASSUME NEW t, NEW n, NEW e, NEW K, NEW V, Layout(t, n, e, K, V)
  PROVE  ReadCookies(t) = {<<K[i], V[i]>> : i \in 1 .. n}
<1>1. ReadCookies(t) = {PairOf(PieceAt(t, c)) : c \in Cuts(t) \ {Len(t) + 1}}
  BY CutsOfCookies, Zenon DEF ReadCookies
<1>2. Cuts(t) \ {Len(t) + 1} = {CutOf(e, i) : i \in 1 .. n}
  BY CutsOfCookies
<1>3. ReadCookies(t) = {PairOf(PieceAt(t, CutOf(e, i))) : i \in 1 .. n}
  <2> DEFINE D == Cuts(t) \ {Len(t) + 1}
  <2>1. ReadCookies(t) = {PairOf(PieceAt(t, c)) : c \in D}
        /\ D = {CutOf(e, i) : i \in 1 .. n}
    BY <1>1, <1>2, Zenon
  <2> HIDE DEF D
  <2> QED
    BY <2>1, Zenon
<1>4. \A i \in 1 .. n : PairOf(PieceAt(t, CutOf(e, i))) = <<K[i], V[i]>>
  BY CookieIsRead
<1> QED
  BY <1>3, <1>4, Zenon

----------------------------------------------------------------------------
(* The text of the cookies of a socket.                                    *)

IsCat(a, b, c) ==
  /\ c \in Seq(Char) /\ Len(c) = Len(a) + Len(b)
  /\ \A p \in 1 .. Len(a) : c[p] = a[p]
  /\ \A p \in 1 .. Len(b) : c[Len(a) + p] = b[p]

LEMMA CatFacts ==
  ASSUME NEW a \in Seq(Char), NEW b \in Seq(Char)
  PROVE  IsCat(a, b, Cat(a, b))
BY DEF Cat, IsCat

LEMMA PieceShape ==
  ASSUME NEW a \in Seq(Char), NEW k, NEW v, IsPair(k, v)
  PROVE  /\ a \o k \o <<"=">> \o v \in Seq(Char)
         /\ Len(a \o k \o <<"=">> \o v) = Len(a) + Len(k) + 1 + Len(v)
         /\ \A p \in 1 .. Len(a) : (a \o k \o <<"=">> \o v)[p] = a[p]
         /\ PairAt(a \o k \o <<"=">> \o v, Len(a), k, v)
<1> DEFINE q == <<"=">>
           ak == Cat(a, k)
           akq == Cat(ak, q)
           s == Cat(akq, v)
<1>1. k \in Seq(Char) /\ v \in Seq(Char) /\ q \in Seq(Char) /\ Len(q) = 1
      /\ q[1] = "="
  BY PairFacts DEF Char
<1>2. Len(a) \in Nat /\ Len(k) \in Nat /\ Len(v) \in Nat
  BY <1>1
<1> HIDE DEF q
<1>3. /\ ak \in Seq(Char) /\ Len(ak) = Len(a) + Len(k)
      /\ \A p \in 1 .. Len(a) : ak[p] = a[p]
      /\ \A p \in 1 .. Len(k) : ak[Len(a) + p] = k[p]
  BY <1>1, CatFacts, Zenon DEF IsCat
<1> HIDE DEF ak
<1>4. /\ akq \in Seq(Char) /\ Len(akq) = Len(ak) + 1
      /\ \A p \in 1 .. Len(ak) : akq[p] = ak[p]
      /\ akq[Len(ak) + 1] = "="
  <2>1. IsCat(ak, q, akq)
    BY <1>1, <1>3, CatFacts, Zenon
  <2> HIDE DEF akq
  <2>2. 1 \in 1 .. Len(q)
    BY <1>1
  <2> QED
    BY <1>1, <2>1, <2>2, Zenon DEF IsCat
<1> HIDE DEF akq
<1>5. /\ s \in Seq(Char) /\ Len(s) = Len(akq) + Len(v)
      /\ \A p \in 1 .. Len(akq) : s[p] = akq[p]
      /\ \A p \in 1 .. Len(v) : s[Len(akq) + p] = v[p]
  BY <1>1, <1>4, CatFacts, Zenon DEF IsCat
<1> HIDE DEF s
<1> DEFINE x == Len(a)
           y == Len(k)
           z == Len(v)
<1>6. x \in Nat /\ y \in Nat /\ z \in Nat /\ Len(ak) = x + y
      /\ Len(akq) = x + y + 1 /\ Len(s) = x + y + 1 + z
  BY <1>2, <1>3, <1>4, <1>5
<1> HIDE DEF x, y, z
<1>7. \A p \in 1 .. x : s[p] = a[p]
  <2> TAKE p \in 1 .. x
  <2>1. p \in 1 .. x + y /\ p \in 1 .. x + y + 1
    BY <1>6
  <2> QED
    BY <1>3, <1>4, <1>5, <1>6, <2>1, Zenon DEF x
<1>8. \A p \in 1 .. y : s[x + p] = k[p]
  <2> TAKE p \in 1 .. y
  <2>1. x + p \in 1 .. x + y /\ x + p \in 1 .. x + y + 1
    BY <1>6
  <2> QED
    BY <1>3, <1>4, <1>5, <1>6, <2>1, Zenon DEF x, y
<1>9. s[x + y + 1] = "="
  <2>1. x + y + 1 \in 1 .. x + y + 1
    BY <1>6
  <2> QED
    BY <1>4, <1>5, <1>6, <2>1, Zenon
<1>10. \A p \in 1 .. z : s[x + y + 1 + p] = v[p]
  BY <1>5, <1>6, Zenon DEF z
<1>11. PairAt(s, x, k, v)
  BY <1>8, <1>9, <1>10, Zenon DEF PairAt, y, z
<1>12. s = a \o k \o <<"=">> \o v
  BY Zenon DEF s, akq, ak, q, Cat
<1> QED
  BY <1>5, <1>6, <1>7, <1>11, <1>12, Zenon DEF x, y, z

Jar(m) == /\ IsFiniteSet(DOMAIN m)
          /\ \A key \in DOMAIN m : IsPair(key, m[key])

\* The text of the cookies m in an order.
Between(i) == IF i = 1 THEN << >> ELSE <<"semi", "blank">>
Piece(m, order, i) == Between(i) \o order[i] \o <<"=">> \o m[order[i]]
Pieces(m, order) == [i \in DOMAIN order |-> Piece(m, order, i)]

IsOrder(m, order) == Jar(m) /\ order \in SetToSeqs(DOMAIN m)

LEMMA OrderFacts ==
  ASSUME NEW m, NEW order, IsOrder(m, order)
  PROVE  /\ Cardinality(DOMAIN m) \in Nat
         /\ DOMAIN order = 1 .. Cardinality(DOMAIN m)
         /\ \A i \in DOMAIN order : order[i] \in DOMAIN m
         /\ \A key \in DOMAIN m : \E i \in DOMAIN order : key = order[i]
<1> DEFINE D == DOMAIN m
           n == Cardinality(D)
<1>1. IsFiniteSet(D) /\ n \in Nat
  BY FS_CardinalityType DEF IsOrder, Jar
<1>2. order \in [1 .. n -> D] /\ \A i, j \in 1 .. n : i # j => order[i] # order[j]
  BY Zenon DEF IsOrder, SetToSeqs
<1>3. IsFiniteSet(1 .. n) /\ Cardinality(1 .. n) = n
  BY <1>1, FS_Interval
<1> HIDE DEF n, D
<1>4. order \in Injection(1 .. n, D)
  BY <1>2 DEF Injection, IsInjective
<1>5. order \in Surjection(1 .. n, D)
  BY <1>1, <1>3, <1>4, FS_Injection DEF n
<1>6. \A key \in D : \E i \in 1 .. n : key = order[i]
  BY <1>5 DEF Surjection
<1> QED
  BY <1>1, <1>2, <1>6 DEF n, D

\* The text s of the i-th cookie.
Gap(i) == IF i = 1 THEN 0 ELSE 2

PieceForm(s, i, k, v) ==
  /\ s \in Seq(Char) /\ IsPair(k, v)
  /\ Len(s) = Gap(i) + Len(k) + 1 + Len(v) /\ PairAt(s, Gap(i), k, v)
  /\ i # 1 => s[1] = "semi" /\ s[2] = "blank"

LEMMA PieceIs ==
  ASSUME NEW m, NEW order, IsOrder(m, order), NEW i \in DOMAIN order
  PROVE  PieceForm(Pieces(m, order)[i], i, order[i], m[order[i]])
<1> DEFINE k == order[i]
           v == m[order[i]]
           a == Between(i)
           s == Pieces(m, order)[i]
           d == Gap(i)
<1>1. IsPair(k, v)
  BY OrderFacts DEF IsOrder, Jar
<1>2. a \in Seq(Char) /\ Len(a) = d
  <2>1. <<"semi", "blank">> \in Seq(Char) /\ Len(<<"semi", "blank">>) = 2
    BY DEF Char
  <2>2. << >> \in Seq(Char) /\ Len(<< >>) = 0
    OBVIOUS
  <2>3. CASE i = 1
    <3>1. a = << >> /\ d = 0
      BY <2>3 DEF Between, Gap
    <3> HIDE DEF a, d
    <3> QED
      BY <2>2, <3>1
  <2>4. CASE i # 1
    BY <2>1, <2>4, Zenon DEF Between, Gap
  <2> QED
    BY <2>3, <2>4
<1>3. i # 1 => 1 \in 1 .. Len(a) /\ 2 \in 1 .. Len(a) /\ a[1] = "semi" /\ a[2] = "blank"
  BY DEF Between
<1>4. s = a \o k \o <<"=">> \o v
  BY Zenon DEF Pieces, Piece
<1> HIDE DEF k, v, a, s, d
<1>5. /\ s \in Seq(Char) /\ Len(s) = d + Len(k) + 1 + Len(v)
      /\ \A p \in 1 .. Len(a) : s[p] = a[p]
      /\ PairAt(s, d, k, v)
  <2>1. /\ a \o k \o <<"=">> \o v \in Seq(Char)
        /\ Len(a \o k \o <<"=">> \o v) = Len(a) + Len(k) + 1 + Len(v)
        /\ \A p \in 1 .. Len(a) : (a \o k \o <<"=">> \o v)[p] = a[p]
        /\ PairAt(a \o k \o <<"=">> \o v, Len(a), k, v)
    BY <1>1, <1>2, PieceShape
  <2> QED
    BY <1>2, <1>4, <2>1, Zenon
<1>6. i # 1 => s[1] = "semi" /\ s[2] = "blank"
  BY <1>3, <1>5
<1> QED
  BY <1>1, <1>5, <1>6, Zenon DEF k, v, s, d, PieceForm

\* f accumulates the pieces of the cookies.
Made(m, order, f) == /\ IsOrder(m, order) /\ DOMAIN m # {}
                     /\ Accumulates(Char, Pieces(m, order), f)

EndsOf(f, n) == [i \in 0 .. n |-> Len(f[i])]
Values(m, order) == [i \in DOMAIN order |-> m[order[i]]]

LEMMA MadeFacts ==
  ASSUME NEW m, NEW order, NEW f, Made(m, order, f)
  PROVE  LET n == Len(Pieces(m, order)) IN
         /\ n \in Nat \ {0} /\ DOMAIN order = 1 .. n
         /\ \A i \in 0 .. n : f[i] \in Seq(Char) /\ Len(f[i]) \in Nat
         /\ Len(f[0]) = 0
         /\ FlattenSeq(Pieces(m, order)) = f[n]
<1> DEFINE s == Pieces(m, order)
           n == Len(s)
<1>1. s \in Seq(Seq(Char)) /\ DOMAIN s = DOMAIN order
  BY DEF Made, Accumulates, Pieces
<1>2. Accumulates(Char, s, f)
  BY DEF Made
<1>3. Cardinality(DOMAIN m) \in Nat \ {0}
  BY OrderFacts, FS_EmptySet DEF Made, IsOrder, Jar
<1>4. DOMAIN order = 1 .. Cardinality(DOMAIN m)
  BY OrderFacts DEF Made
<1> HIDE DEF s
<1>5. DOMAIN s = 1 .. n /\ n \in Nat
  BY <1>1
<1>6. n # 0
  <2>1. 1 \in DOMAIN s
    BY <1>1, <1>3, <1>4
  <2> QED
    BY <1>5, <2>1
<1>7. FlattenSeq(s) = f[n]
  <2>1. s # << >>
    BY <1>5, <1>6
  <2> QED
    BY <1>2, <2>1, FlattenIs
<1>8. /\ \A i \in 0 .. n : f[i] \in Seq(Char) /\ Len(f[i]) \in Nat
      /\ Len(f[0]) = 0
  BY <1>2, AccumulatesTypes
<1> QED
  BY <1>1, <1>5, <1>6, <1>7, <1>8, Zenon DEF s

\* The i-th piece in the whole.
CookieAt(f, n, i, k, v) ==
  /\ IsPair(k, v) /\ PairAt(f[n], Len(f[i - 1]) + Gap(i), k, v)
  /\ Len(f[i]) = Len(f[i - 1]) + Gap(i) + Len(k) + 1 + Len(v)
  /\ i # 1 => /\ f[n][Len(f[i - 1]) + 1] = "semi"
              /\ f[n][Len(f[i - 1]) + 2] = "blank"

LEMMA MadePiece ==
  ASSUME NEW m, NEW order, NEW f, Made(m, order, f),
         NEW n, n = Len(Pieces(m, order)), NEW i \in 1 .. n
  PROVE  CookieAt(f, n, i, order[i], m[order[i]])
<1> DEFINE d == Gap(i)
           k == order[i]
           v == m[order[i]]
           s == Pieces(m, order)
           c == s[i]
           x == Len(f[i - 1])
           y == Len(k)
           z == Len(v)
           t == f[n]
<1>1. n \in Nat \ {0} /\ i \in DOMAIN order
  BY MadeFacts
<1>2. i - 1 \in 0 .. n
  BY <1>1
<1>3. x \in Nat
  BY <1>2, MadeFacts
<1>4. /\ IsPair(k, v) /\ Len(c) = d + y + 1 + z /\ PairAt(c, d, k, v)
      /\ i # 1 => c[1] = "semi" /\ c[2] = "blank"
  <2>1. IsOrder(m, order)
    BY DEF Made
  <2> QED
    <3>1. PieceForm(c, i, k, v)
      BY <1>1, <2>1, PieceIs
    <3> QED
      BY <3>1, Zenon DEF PieceForm
<1>5. /\ Len(f[i]) = x + Len(c)
      /\ \A p \in 1 .. Len(c) : t[x + p] = c[p]
  <2>1. Accumulates(Char, s, f) /\ i \in 1 .. Len(s)
    BY DEF Made
  <2> HIDE DEF s
  <2>2. Placed(s, f, i)
    BY <2>1, AccumulatesPieces
  <2> QED
    BY <2>2, Zenon DEF s, Placed
<1>6. y \in Nat /\ z \in Nat /\ d \in Nat /\ (i # 1 => d = 2)
  BY <1>4, PairFacts DEF Gap
<1>7. /\ \A p \in 1 .. y : c[d + p] = k[p]
      /\ c[d + y + 1] = "="
      /\ \A p \in 1 .. z : c[d + y + 1 + p] = v[p]
  BY <1>4, Zenon DEF PairAt
<1> HIDE DEF d, k, v, c, x, y, z, t
<1>8. Len(f[i]) = x + d + y + 1 + z
  BY <1>3, <1>4, <1>5, <1>6
<1>9. i # 1 => t[x + 1] = "semi" /\ t[x + 2] = "blank"
  <2> HAVE i # 1
  <2>1. 1 \in 1 .. Len(c) /\ 2 \in 1 .. Len(c)
    BY <1>4, <1>6
  <2> QED
    BY <1>4, <1>5, <2>1
<1>10. PairAt(t, x + d, k, v)
  <2>1. \A p \in 1 .. y : t[x + d + p] = k[p]
    <3> TAKE p \in 1 .. y
    <3>1. d + p \in 1 .. Len(c) /\ x + d + p = x + (d + p)
      BY <1>3, <1>4, <1>6
    <3> QED
      BY <1>5, <1>7, <3>1
  <2>2. t[x + d + y + 1] = "="
    <3>1. d + y + 1 \in 1 .. Len(c) /\ x + d + y + 1 = x + (d + y + 1)
      BY <1>3, <1>4, <1>6
    <3> QED
      BY <1>5, <1>7, <3>1
  <2>3. \A p \in 1 .. z : t[x + d + y + 1 + p] = v[p]
    <3> TAKE p \in 1 .. z
    <3>1. d + y + 1 + p \in 1 .. Len(c)
          /\ x + d + y + 1 + p = x + (d + y + 1 + p)
      BY <1>3, <1>4, <1>6
    <3> QED
      BY <1>5, <1>7, <3>1
  <2> QED
    BY <2>1, <2>2, <2>3, Zenon DEF PairAt, y, z
<1> QED
  BY <1>4, <1>8, <1>9, <1>10, Zenon DEF d, k, v, x, y, z, t, CookieAt

LEMMA MadeLayout ==
  ASSUME NEW m, NEW order, NEW f, Made(m, order, f),
         NEW n, n = Len(Pieces(m, order))
  PROVE  Layout(f[n], n, EndsOf(f, n), order, Values(m, order))
<1> DEFINE t == f[n]
           e == EndsOf(f, n)
           V == Values(m, order)
<1>1. /\ n \in Nat \ {0} /\ DOMAIN order = 1 .. n
      /\ \A i \in 0 .. n : f[i] \in Seq(Char) /\ Len(f[i]) \in Nat
      /\ Len(f[0]) = 0 /\ n \in 0 .. n /\ 0 \in 0 .. n
  BY MadeFacts
<1>2. \A i \in 0 .. n : e[i] = Len(f[i])
  BY DEF EndsOf
<1>3. t \in Seq(Char) /\ e[0] = 0 /\ e[n] = Len(t)
  BY <1>1, <1>2, Zenon
<1>4. e \in [0 .. n -> Nat]
  BY <1>1 DEF EndsOf
<1>5. Accumulates(Char, Pieces(m, order), f)
  BY DEF Made
<1>6. ASSUME NEW i \in 0 .. n, NEW j \in 0 .. n, i <= j
      PROVE  e[i] <= e[j]
  <2>1. j \in i .. n
    BY <1>1, <1>6
  <2>2. Len(f[i]) <= Len(f[j])
    BY <1>5, <2>1, AccumulatesPrefix
  <2> QED
    BY <1>2, <2>2, Zenon
<1>7. ASSUME NEW p \in 1 .. Len(t)
      PROVE  \E i \in 1 .. n : Within(e, i, p)
  <2>1. PICK i \in 1 .. n : p \in Len(f[i - 1]) + 1 .. Len(f[i])
    BY <1>5, AccumulatesCovers
  <2>2. i - 1 \in 0 .. n /\ i \in 0 .. n
    BY <1>1
  <2> QED
    BY <1>2, <2>1, <2>2, Zenon DEF Within
<1>8. ASSUME NEW i \in 1 .. n
      PROVE  /\ IsPair(order[i], V[i])
             /\ PairAt(t, Begin(e, i), order[i], V[i])
             /\ e[i] = Begin(e, i) + Len(order[i]) + 1 + Len(V[i])
             /\ i # 1 => t[e[i - 1] + 1] = "semi" /\ t[e[i - 1] + 2] = "blank"
  <2> DEFINE d == Gap(i)
             k == order[i]
             v == m[order[i]]
             x == Len(f[i - 1])
  <2>1. i - 1 \in 0 .. n /\ i \in 0 .. n
    BY <1>1
  <2>2. /\ IsPair(k, v) /\ PairAt(t, x + d, k, v)
        /\ Len(f[i]) = x + d + Len(k) + 1 + Len(v)
        /\ i # 1 => t[x + 1] = "semi" /\ t[x + 2] = "blank"
    <3>1. CookieAt(f, n, i, k, v)
      BY MadePiece
    <3> QED
      BY <3>1, Zenon DEF CookieAt
  <2>3. V[i] = v /\ e[i] = Len(f[i]) /\ e[i - 1] = x /\ x \in Nat
    BY <1>1, <1>2, <2>1, Zenon DEF Values
  <2>4. Begin(e, i) = x + d
    <3>1. i = 1 => x = 0
      BY <1>1
    <3> HIDE DEF x, e
    <3> QED
      BY <2>3, <3>1 DEF Begin, Gap
  <2> HIDE DEF d, k, v, x
  <2> QED
    BY <2>2, <2>3, <2>4, Zenon DEF k
<1> HIDE DEF t, e, V
<1>9. Layout(t, n, e, order, V)
  BY <1>1, <1>3, <1>4, <1>6, <1>7, <1>8, Zenon DEF Layout
<1> QED
  BY <1>9, Zenon DEF t, e, V

\* What is read of the text of the cookies, in any order, are the cookies.
LEMMA CookiesReadBack ==
  ASSUME NEW m, NEW order, IsOrder(m, order)
  PROVE  ReadCookies(FlattenSeq(Pieces(m, order)))
           = {<<key, m[key]>> : key \in DOMAIN m}
<1>1. CASE DOMAIN m = {}
  <2>1. Cardinality(DOMAIN m) = 0
    BY <1>1, FS_EmptySet
  <2>2. DOMAIN order = {}
    BY <2>1, OrderFacts
  <2>3. Pieces(m, order) = << >>
    BY <2>2 DEF Pieces
  <2>4. FlattenSeq(<< >>) = << >>
    BY DEF FlattenSeq
  <2> QED
    BY <1>1, <2>3, <2>4 DEF ReadCookies
<1>2. CASE DOMAIN m # {}
  <2> DEFINE s == Pieces(m, order)
             n == Len(s)
  <2>1. s \in Seq(Seq(Char))
    <3>1. \A i \in DOMAIN order : s[i] \in Seq(Char)
      BY PieceIs, Zenon DEF PieceForm
    <3>2. DOMAIN s = 1 .. Cardinality(DOMAIN m) /\ Cardinality(DOMAIN m) \in Nat
          /\ s = [i \in DOMAIN order |-> s[i]] /\ DOMAIN s = DOMAIN order
      BY OrderFacts DEF Pieces
    <3> HIDE DEF s
    <3> QED
      BY <3>1, <3>2
  <2>2. PICK f : Accumulates(Char, s, f)
    BY <2>1, AccumulatesExists
  <2>3. Made(m, order, f)
    BY <1>2, <2>2 DEF Made
  <2>4. FlattenSeq(s) = f[n] /\ DOMAIN order = 1 .. n
    BY <2>3, MadeFacts
  <2>5. ReadCookies(f[n]) = {<<order[i], Values(m, order)[i]>> : i \in 1 .. n}
    BY <2>3, MadeLayout, CookiesAreRead
  <2>6. \A i \in 1 .. n : Values(m, order)[i] = m[order[i]]
    BY <2>4 DEF Values
  <2>7. /\ \A i \in 1 .. n : order[i] \in DOMAIN m
        /\ \A key \in DOMAIN m : \E i \in 1 .. n : key = order[i]
    BY <2>4, OrderFacts
  <2> HIDE DEF n, s
  <2>8. {<<order[i], Values(m, order)[i]>> : i \in 1 .. n}
          = {<<key, m[key]>> : key \in DOMAIN m}
    <3>1. {<<order[i], Values(m, order)[i]>> : i \in 1 .. n}
            = {<<order[i], m[order[i]]>> : i \in 1 .. n}
      BY <2>6, Zenon
    <3>2. {<<order[i], m[order[i]]>> : i \in 1 .. n}
            = {<<key, m[key]>> : key \in DOMAIN m}
      BY <2>7
    <3> QED
      BY <3>1, <3>2, Zenon
  <2> QED
    BY <2>4, <2>5, <2>8, Zenon DEF s
<1> QED
  BY <1>1, <1>2

----------------------------------------------------------------------------
(* What a step of the socket means for its connection.                     *)

StartedIn(s, t, kind) == \E op \in t.pending \ s.pending : op.kind = kind

\* open() starts the lookup on the stream of an earlier connection.
Opens(s, t) ==
  /\ s.state = "DISCONNECTED" /\ t.state # "DISCONNECTED"
  /\ t.generation = s.generation + 1 /\ t.stream = s.stream
  /\ StartedIn(s, t, "resolve") /\ ~StartedIn(s, t, "handshake")

Ends(s, t) ==
  /\ t.state = "DISCONNECTED"
  /\ ~StartedIn(s, t, "resolve") /\ ~StartedIn(s, t, "handshake")

\* The WebSocket handshake starts on a stream of this connection.
GoesOn(s, t) ==
  /\ t.state = "DISCONNECTED" <=> s.state = "DISCONNECTED"
  /\ t.generation = s.generation
  /\ t.stream = s.stream \/ t.stream = s.generation
  /\ ~StartedIn(s, t, "resolve")
  /\ StartedIn(s, t, "handshake") =>
       t.stream = t.generation /\ t.state # "DISCONNECTED"

LEMMA PumpGoesOn ==
  ASSUME NEW u, NEW t, MayPump(u, t)
  PROVE  GoesOn(u, t) /\ ~StartedIn(u, t, "handshake")
<1>1. CASE t = u
  BY <1>1 DEF GoesOn, StartedIn
<1>2. CASE PumpStep(u, t)
  <2>1. /\ u.state # "DISCONNECTED" /\ t.state # "DISCONNECTED"
        /\ t.generation = u.generation /\ t.stream = u.stream
    BY <1>2 DEF PumpStep, SameConnection
  <2>2. PICK kind \in {"write", "close"} :
          t.pending = u.pending \cup {NewOp(u, kind)}
    BY <1>2 DEF PumpStep
  <2> QED
    BY <2>1, <2>2, NewOpFields DEF GoesOn, StartedIn
<1> QED
  BY <1>1, <1>2 DEF MayPump

\* The pump at the end of a step starts neither a lookup nor a handshake.
LEMMA ThenPump ==
  ASSUME NEW s, NEW u, NEW t, GoesOn(s, u), ~StartedIn(s, u, "handshake"),
         MayPump(u, t)
  PROVE  GoesOn(s, t)
BY PumpGoesOn DEF GoesOn, StartedIn

LEMMA OtherConnection ==
  ASSUME NEW s, Core(s), Streams(s), NEW t, OtherStep(s, t)
  PROVE  Opens(s, t) \/ Ends(s, t) \/ GoesOn(s, t)
<1>1. CASE OpenStep(s, t)
  <2>1. NewOp(t, "resolve") \notin s.pending
    BY <1>1, CoreTypes, NewOpFields DEF OpenStep
  <2> QED
    BY <1>1, <2>1, NewOpFields DEF OpenStep, Opens, StartedIn
<1>2. CASE EndStep(s, t)
  BY <1>2 DEF EndStep, Ends, StartedIn
<1>3. CASE StaleStep(s, t)
  BY <1>3 DEF StaleStep, SameConnection, GoesOn, StartedIn
<1>4. CASE DeliverStep(s, t)
  BY <1>4 DEF DeliverStep, SameConnection, GoesOn, StartedIn
<1>5. CASE ConnectStep(s, t)
  <2>1. PICK op \in Current(s), kind \in ConnectPhase \ {"resolve"} :
          /\ op.kind \in ConnectPhase
          /\ t.state = s.state /\ t.generation = s.generation
          /\ t.pending = (s.pending \ {op}) \cup {NewOp(t, kind)}
          /\ IF op.kind = "resolve" THEN t.stream = s.generation
                                    ELSE t.stream = s.stream
    BY <1>5 DEF ConnectStep
  <2>2. op.kind # "resolve" => s.stream = s.generation
    BY <2>1 DEF Streams, Incoming
  <2>3. s.state # "DISCONNECTED"
    BY <2>1 DEF Core, Alive
  <2> QED
    BY <2>1, <2>2, <2>3, NewOpFields DEF GoesOn, StartedIn
<1>6. CASE ReceiveStep(s, t)
  BY <1>6, NewOpFields DEF ReceiveStep, SameConnection, GoesOn, StartedIn
<1>7. CASE GiveUpStep(s, t)
  BY <1>7 DEF GiveUpStep, GoesOn, StartedIn
<1>8. CASE AskCloseStep(s, t)
  <2>1. PICK u : RequestStep(s, u) /\ MayPump(u, t)
    BY <1>8 DEF AskCloseStep, MayPump
  <2>2. GoesOn(s, u) /\ ~StartedIn(s, u, "handshake")
    BY <2>1 DEF RequestStep, SameConnection, GoesOn, StartedIn
  <2> QED
    BY <2>1, <2>2, ThenPump
<1>9. CASE ResumeStep(s, t)
  <2>1. PICK u : /\ EstablishStep(s, u) \/ AcknowledgeStep(s, u)
                 /\ MayPump(u, t)
    BY <1>9 DEF ResumeStep
  <2>2. CASE EstablishStep(s, u)
    <3>1. GoesOn(s, u) /\ ~StartedIn(s, u, "handshake")
      BY <2>2, NewOpFields DEF EstablishStep, GoesOn, StartedIn
    <3> QED
      BY <2>1, <3>1, ThenPump
  <2>3. CASE AcknowledgeStep(s, u)
    <3>1. GoesOn(s, u) /\ ~StartedIn(s, u, "handshake")
      BY <2>3 DEF AcknowledgeStep, SameConnection, GoesOn, StartedIn
    <3> QED
      BY <2>1, <3>1, ThenPump
  <2> QED
    BY <2>1, <2>2, <2>3
<1> QED
  BY <1>1, <1>2, <1>3, <1>4, <1>5, <1>6, <1>7, <1>8, <1>9 DEF OtherStep

LEMMA NextConnection ==
  ASSUME Core(sock), Streams(sock), Next
  PROVE  \/ Opens(sock, sock') \/ Ends(sock, sock')
         \/ GoesOn(sock, sock')
<1>1. CASE WriteStep(sock, sock')
  <2>1. PICK u : QueueStep(sock, u) /\ MayPump(u, sock')
    BY <1>1 DEF WriteStep
  <2>2. GoesOn(sock, u) /\ ~StartedIn(sock, u, "handshake")
    BY <2>1 DEF QueueStep, SameConnection, GoesOn, StartedIn
  <2> QED
    BY <2>1, <2>2, ThenPump
<1>2. CASE ClearStep(sock, sock')
  BY <1>2 DEF ClearStep, SameConnection, GoesOn, StartedIn
<1>3. CASE OtherStep(sock, sock')
  BY <1>3, OtherConnection
<1> QED
  BY <1>1, <1>2, <1>3, NextStep

----------------------------------------------------------------------------
(* The inductive invariant.                                                *)

Fields == {<<key, headers[key]>> : key \in DOMAIN headers}

CookieTexts == {CookieText(order) : order \in SetToSeqs(DOMAIN cookies)}

HInv ==
  /\ Core(sock) /\ Streams(sock)
  /\ created.outcome = "none" => ~request.sent
  /\ sock.state = "DISCONNECTED" => ~request.sent
  /\ sock.state # "DISCONNECTED" => configured = config
  /\ sock.state # "DISCONNECTED" /\ sock.stream = sock.generation =>
       streamOptions = options
  /\ request.sent => /\ sock.stream = sock.generation
                     /\ request.fields = Fields
                     /\ request.cookie \in CookieTexts
  /\ Jar(cookies)

\* A socket that was just created.
LEMMA CreatedSocket ==
  ASSUME NEW kind \in Kind
  PROVE  /\ Core(NewSocket(kind)) /\ Streams(NewSocket(kind))
         /\ NewSocket(kind).state = "DISCONNECTED"
<1>1. Core(NewSocket(kind))
  BY NewSocketCore
<1>2. Streams(NewSocket(kind)) /\ NewSocket(kind).state = "DISCONNECTED"
  BY DEF NewSocket, Streams, Current
<1> QED
  BY <1>1, <1>2

LEMMA CreatedKind ==
  ASSUME NEW text, NEW verify
  PROVE  createWebSocketFromURL(text, verify).kind \in Kind
BY DEF createWebSocketFromURL, NoSocket, Kind

LEMMA InitHInv == HandshakeInit => HInv
<1> SUFFICES ASSUME HandshakeInit PROVE HInv
  OBVIOUS
<1>1. Core(sock) /\ Streams(sock) /\ sock.state = "DISCONNECTED"
  BY CreatedSocket DEF HandshakeInit, Kind
<1>2. ~request.sent
  BY DEF HandshakeInit, NoRequest
<1>3. Jar(cookies)
  BY FS_EmptySet DEF HandshakeInit, Jar
<1> QED
  BY <1>1, <1>2, <1>3 DEF HInv

\* The setters change the configuration of a disconnected socket only.
LEMMA ConfigureKeeps ==
  ASSUME HInv, sock.state = "DISCONNECTED", Configures, Jar(cookies')
  PROVE  HInv'
BY DEF HInv, Configures, address

\* setCookie puts only names and values into the jar that it has checked.
LEMMA SetCookieKeepsJar ==
  ASSUME Jar(cookies), NEW key \in CookieNames, NEW value \in CookieValues,
         setCookie(key, value)
  PROVE  Jar(cookies')
<1>1. IsPair(key, value)
  BY TextAssumption DEF setCookie, IsPair
<1>2. cookies' = [k \in {key} \cup DOMAIN cookies |->
                    IF k = key THEN value ELSE cookies[k]]
  BY DEF setCookie, Assign
<1>3. DOMAIN cookies' = {key} \cup DOMAIN cookies
  BY <1>2
<1>4. IsFiniteSet(DOMAIN cookies')
  BY <1>3, FS_AddElement DEF Jar
<1>5. \A k \in DOMAIN cookies' : IsPair(k, cookies'[k])
  BY <1>1, <1>2, <1>3 DEF Jar
<1> QED
  BY <1>4, <1>5 DEF Jar

LEMMA CreateKeeps ==
  ASSUME HInv, NEW verify \in BOOLEAN, createWebSocketOf(verify)
  PROVE  HInv'
<1>1. ~request'.sent
  BY DEF createWebSocketOf, HInv
<1>2. created'.kind \in Kind
  BY CreatedKind DEF createWebSocketOf
<1>3. Core(sock') /\ Streams(sock') /\ sock'.state = "DISCONNECTED"
  BY <1>2, CreatedSocket DEF createWebSocketOf
<1>4. Jar(cookies')
  BY DEF createWebSocketOf, config, HInv
<1> QED
  BY <1>1, <1>3, <1>4 DEF HInv

LEMMA SocketStepKeeps ==
  ASSUME HInv, SocketStep
  PROVE  HInv'
<1>1. Core(sock') /\ Streams(sock')
  <2>1. Core(sock) /\ Streams(sock) /\ Next
    BY DEF HInv, SocketStep
  <2>2. Core(sock')
    BY <2>1, LuaCallCore, CompletionCore, DrainCore DEF Next
  <2> QED
    BY <2>1, <2>2, StreamsStep
<1>2. created.outcome = "socket" /\ created' = created
  BY DEF SocketStep, address
<1>3. /\ UNCHANGED <<cookies, headers, options>>
      /\ config' = config /\ Fields' = Fields
      /\ CookieTexts' = CookieTexts
  BY DEF SocketStep, config, Fields, CookieTexts, CookieText
<1>12. Jar(cookies')
  BY <1>3 DEF HInv
<1>4. /\ streamOptions' = options \/ streamOptions' = streamOptions
      /\ sock'.stream # sock.stream => streamOptions' = options
  BY DEF SocketStep
<1>5. /\ Starts("resolve") => configured' = config
      /\ ~Starts("resolve") /\ sock'.state = "DISCONNECTED" =>
           configured' = NoConfig
      /\ ~Starts("resolve") /\ sock'.state # "DISCONNECTED" =>
           configured' = configured
  BY DEF SocketStep
<1>6. /\ Starts("handshake") => /\ request'.fields = Fields
                               /\ request'.cookie \in CookieTexts
      /\ ~Starts("handshake") /\ sock'.state = "DISCONNECTED" =>
           ~request'.sent
      /\ ~Starts("handshake") /\ sock'.state # "DISCONNECTED" =>
           request' = request
  <2>1. CASE Starts("handshake")
    <3>1. request' \in Decorated
      BY <2>1 DEF SocketStep
    <3> QED
      BY <2>1, <3>1 DEF Decorated, Fields, CookieTexts
  <2>2. CASE ~Starts("handshake")
    BY <2>2 DEF SocketStep, NoRequest
  <2> QED
    BY <2>1, <2>2
<1>7. \A kind : Starts(kind) <=> StartedIn(sock, sock', kind)
  BY DEF Starts, StartedIn
<1>8. sock.generation \in Nat /\ sock.stream \in Nat
      /\ sock.stream <= sock.generation
  BY CoreTypes DEF HInv, Streams
<1>9. CASE Opens(sock, sock')
  BY <1>1, <1>2, <1>3, <1>4, <1>5, <1>6, <1>7, <1>8, <1>9,
     <1>12 DEF HInv, Opens
<1>10. CASE Ends(sock, sock')
  BY <1>1, <1>2, <1>3, <1>6, <1>7, <1>10, <1>12 DEF HInv, Ends
<1>11. CASE GoesOn(sock, sock')
  BY <1>1, <1>2, <1>3, <1>4, <1>5, <1>6, <1>7, <1>11, <1>12 DEF HInv, GoesOn
<1> QED
  BY <1>9, <1>10, <1>11, NextConnection DEF HInv, SocketStep

\* From open() on the configuration does not change, and the stream and the
\* request of the connection take it over.
THEOREM HandshakeInvariant == HandshakeSpec => []HInv
<1>1. HInv /\ [HandshakeNext]_hvars => HInv'
  <2> SUFFICES ASSUME HInv, [HandshakeNext]_hvars PROVE HInv'
    OBVIOUS
  <2>1. CASE \E verify \in BOOLEAN : createWebSocketOf(verify)
    BY <2>1, CreateKeeps
  <2>2. CASE \E key \in CookieNames, value \in CookieValues :
               socketSetCookie(key, value)
    <3>1. PICK key \in CookieNames, value \in CookieValues :
            socketSetCookie(key, value)
      BY <2>2
    <3>2. setCookie(key, value) /\ Configures /\ sock.state = "DISCONNECTED"
      BY <3>1 DEF socketSetCookie, setCookie
    <3>3. Jar(cookies')
      BY <3>2, SetCookieKeepsJar DEF HInv
    <3> QED
      BY <3>2, <3>3, ConfigureKeeps
  <2>3. CASE \E key \in HeaderNames, value \in HeaderValues :
               socketSetHeader(key, value)
    BY <2>3, ConfigureKeeps DEF socketSetHeader, setHeader, HInv
  <2>4. CASE \E value \in BOOLEAN : socketSetMessageCompression(value)
    BY <2>4, ConfigureKeeps
       DEF socketSetMessageCompression, setPerMessageDeflate, HInv
  <2>5. CASE \E value \in BOOLEAN : socketSetDisableContextTakeover(value)
    BY <2>5, ConfigureKeeps
       DEF socketSetDisableContextTakeover, setDisableContextTakeover, HInv
  <2>6. CASE SocketStep
    BY <2>6, SocketStepKeeps
  <2>7. CASE UNCHANGED hvars
    BY <2>7 DEF hvars, address, config, HInv, Fields, CookieTexts, CookieText
  <2> QED
    BY <2>1, <2>2, <2>3, <2>4, <2>5, <2>6, <2>7 DEF HandshakeNext
<1> QED
  BY <1>1, InitHInv, PTL DEF HandshakeSpec

\* A connection is opened with the headers and the compression options of the
\* call of open(), many frames before the stream and the request are made,
\* whatever the script calls and however often it reconnects.
THEOREM ConfigurationKept == HandshakeSpec => []OpenedAsConfigured
<1>1. HInv => OpenedAsConfigured
  BY DEF HInv, OpenedAsConfigured, Fields, config
<1> QED
  BY <1>1, HandshakeInvariant, PTL

\* The server reads the cookies of the call of open() and no others, whatever
\* names and values the script tries to set, however many there are and in
\* whatever order the map gives them.
THEOREM CookiesReadBackExactly == HandshakeSpec => []CookiesArrive
<1>1. HInv => CookiesArrive
  <2> SUFFICES ASSUME HInv, request.sent
               PROVE  ReadCookies(request.cookie)
                        = {<<key, configured[1][key]>> :
                             key \in DOMAIN configured[1]}
    BY DEF CookiesArrive
  <2>1. configured[1] = cookies
    BY DEF HInv, config
  <2>2. PICK order \in SetToSeqs(DOMAIN cookies) :
          request.cookie = CookieText(order)
    BY DEF HInv, CookieTexts
  <2>3. CookieText(order) = FlattenSeq(Pieces(cookies, order))
    BY Zenon DEF CookieText, Pieces, Piece, Between
  <2>4. IsOrder(cookies, order)
    BY DEF HInv, IsOrder
  <2> QED
    BY <2>1, <2>2, <2>3, <2>4, CookiesReadBack
<1> QED
  BY <1>1, HandshakeInvariant, PTL
=============================================================================
