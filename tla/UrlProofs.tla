----------------------------- MODULE UrlProofs -----------------------------
(***************************************************************************)
(* Proof that of the URLs with a documented scheme exactly the well-formed *)
(* ones make a socket, and that every socket asks the host, the port and   *)
(* the path of its URL, for every set of URLs and every limit MaxUrl:      *)
(* parse_url takes no part for another; the readings of the port, of 32    *)
(* bits in is_uint, of 31 in std::stoi and of 16 in the socket, agree on   *)
(* every number that they let through; and the stack of normalize_path     *)
(* holds the names that no later ".." takes away.                          *)
(***************************************************************************)
EXTENDS HandshakeProofs

----------------------------------------------------------------------------
(* Cutting a text at a character.                                          *)

\* The first of the characters q is where no earlier one is.
LEMMA FirstOf ==
  ASSUME NEW C, NEW s \in Seq(C), NEW q, NEW p \in 1 .. Len(s) + 1,
         \A i \in 1 .. p - 1 : s[i] \notin q, p <= Len(s) => s[p] \in q
  PROVE  find_first_of(s, q) = p
<1> DEFINE S == {i \in DOMAIN s : s[i] \in q} \cup {Len(s) + 1}
<1>1. DOMAIN s = 1 .. Len(s) /\ Len(s) \in Nat
  OBVIOUS
<1>2. S \in SUBSET Nat /\ p \in S
  BY <1>1
<1>3. \A j \in S : p <= j
  BY <1>1
<1> HIDE DEF S
<1>4. Min(S) = p
  BY <1>2, <1>3, MinIs
<1> QED
  BY <1>4 DEF find_first_of, S

\* A text without such a character is not cut ...
LEMMA CutNone ==
  ASSUME NEW C, NEW q, NEW a \in Seq(C \ q)
  PROVE  /\ find_first_of(a, q) = Len(a) + 1
         /\ ~(Len(a) + 1 <= Len(a))
         /\ Before(a, Len(a) + 1) = a /\ After(a, Len(a) + 1) = << >>
<1>1. Len(a) \in Nat /\ \A i \in 1 .. Len(a) : a[i] \notin q
  OBVIOUS
<1>2. find_first_of(a, q) = Len(a) + 1
  BY <1>1, FirstOf
<1>3. Before(a, Len(a) + 1) = a /\ After(a, Len(a) + 1) = << >>
  BY <1>1 DEF Before, After
<1> QED
  BY <1>1, <1>2, <1>3

\* Texts that are put together: s of a and b, and b of the character c and d.
Joins(s, a, b)  == s = a \o b
Headed(b, c, d) == b = <<c>> \o d

\* ... one is cut in front of what begins with it ...
IsCut(s, q, p, a, b) ==
  /\ find_first_of(s, q) = p /\ p <= Len(s) /\ s[p] = b[1]
  /\ Before(s, p) = a /\ After(s, p - 1) = b

LEMMA CutBefore ==
  ASSUME NEW C, NEW q, NEW a \in Seq(C \ q), NEW b \in Seq(C),
         b # << >>, b[1] \in q, NEW s, Joins(s, a, b)
  PROVE  IsCut(s, q, Len(a) + 1, a, b)
<1> DEFINE m == Len(a)
           n == Len(b)
<1>1. /\ m \in Nat /\ n \in Nat \ {0} /\ a \in Seq(C)
      /\ \A i \in 1 .. m : a[i] \notin q
  OBVIOUS
<1>2. /\ s \in Seq(C) /\ Len(s) = m + n
      /\ \A i \in 1 .. m : s[i] = a[i]
      /\ \A i \in 1 .. n : s[m + i] = b[i]
  BY <1>1 DEF Joins
<1>3. s[m + 1] = b[1]
  BY <1>1, <1>2
<1>4. find_first_of(s, q) = m + 1
  <2> DEFINE p == m + 1
  <2> HIDE DEF m, n
  <2>1. /\ p \in 1 .. Len(s) + 1 /\ \A i \in 1 .. p - 1 : s[i] \notin q
        /\ s[p] \in q
    BY <1>1, <1>2, <1>3
  <2> HIDE DEF p
  <2>2. find_first_of(s, q) = p
    BY <1>2, <2>1, FirstOf
  <2> QED
    BY <2>2 DEF p
<1>5. Before(s, m + 1) = a
  <2>1. SubSeq(s, 1, m) = [i \in 1 .. m |-> s[i]]
    BY <1>1, <1>2
  <2>2. a = [i \in 1 .. m |-> a[i]]
    OBVIOUS
  <2>3. (m + 1) - 1 = m
    BY <1>1
  <2> HIDE DEF m
  <2>4. SubSeq(s, 1, m) = a
    BY <1>2, <2>1, <2>2
  <2> QED
    BY <2>3, <2>4 DEF Before
<1>6. After(s, (m + 1) - 1) = b
  <2>1. SubSeq(s, m + 1, m + n) = [i \in 1 .. n |-> s[m + i]]
    <3> HIDE DEF m, n
    <3>1. SubSeq(s, m + 1, m + n)
            = [i \in 1 .. (m + n) - (m + 1) + 1 |-> s[i + (m + 1) - 1]]
      BY <1>1, <1>2
    <3>2. /\ (m + n) - (m + 1) + 1 = n
          /\ \A i \in 1 .. n : i + (m + 1) - 1 = m + i
      BY <1>1
    <3> QED
      BY <3>1, <3>2
  <2>2. b = [i \in 1 .. n |-> b[i]]
    OBVIOUS
  <2>3. ((m + 1) - 1) + 1 = m + 1
    BY <1>1
  <2> HIDE DEF m, n
  <2> QED
    BY <1>2, <2>1, <2>2, <2>3 DEF After
<1> HIDE DEF m, n
<1>7. m + 1 <= Len(s)
  BY <1>1, <1>2
<1> QED
  BY <1>3, <1>4, <1>5, <1>6, <1>7 DEF m, IsCut

\* ... and behind it.
LEMMA CutBehind ==
  ASSUME NEW C, NEW q, NEW a \in Seq(C \ q), NEW c \in C \cap q,
         NEW d \in Seq(C), NEW b, Headed(b, c, d), NEW s, Joins(s, a, b)
  PROVE  /\ find_first_of(s, q) = Len(a) + 1
         /\ Len(a) + 1 <= Len(s) /\ s[Len(a) + 1] = c
         /\ Before(s, Len(a) + 1) = a
         /\ After(s, Len(a) + 1) = d
<1> DEFINE m == Len(a)
           n == Len(d)
<1>1. /\ b \in Seq(C) /\ b # << >> /\ b[1] = c /\ Len(b) = n + 1
      /\ \A i \in 1 .. n : b[i + 1] = d[i]
      /\ m \in Nat /\ n \in Nat /\ a \in Seq(C)
  BY DEF Headed
<1>2. /\ s \in Seq(C) /\ Len(s) = m + (n + 1)
      /\ \A i \in 1 .. n + 1 : s[m + i] = b[i]
  BY <1>1 DEF Joins
<1>3. /\ find_first_of(s, q) = m + 1 /\ m + 1 <= Len(s) /\ s[m + 1] = c
      /\ Before(s, m + 1) = a
  <2>1. b[1] \in q
    BY <1>1
  <2>2. b \in Seq(C) /\ b # << >>
    BY <1>1
  <2> HIDE DEF m
  <2>3. IsCut(s, q, Len(a) + 1, a, b)
    BY <2>1, <2>2, CutBefore
  <2>4. /\ find_first_of(s, q) = m + 1 /\ m + 1 <= Len(s) /\ s[m + 1] = b[1]
        /\ Before(s, m + 1) = a
    BY <2>3 DEF m, IsCut
  <2> QED
    BY <1>1, <2>4
<1>4. d = [i \in 1 .. n |-> d[i]]
  OBVIOUS
<1> HIDE DEF m, n
<1>5. After(s, m + 1) = d
  <2>1. SubSeq(s, (m + 1) + 1, Len(s))
          = [i \in 1 .. Len(s) - ((m + 1) + 1) + 1 |->
               s[i + ((m + 1) + 1) - 1]]
    BY <1>1, <1>2
  <2>2. Len(s) - ((m + 1) + 1) + 1 = n
    BY <1>1, <1>2
  <2>3. ASSUME NEW i \in 1 .. n PROVE s[i + ((m + 1) + 1) - 1] = d[i]
    <3>1. i + ((m + 1) + 1) - 1 = m + (i + 1) /\ i + 1 \in 1 .. n + 1
      BY <1>1
    <3> QED
      BY <1>1, <1>2, <3>1
  <2>4. [i \in 1 .. n |-> s[i + ((m + 1) + 1) - 1]] = [i \in 1 .. n |-> d[i]]
    BY <2>3
  <2> QED
    BY <1>4, <2>1, <2>2, <2>4, Zenon DEF After
<1> QED
  BY <1>3, <1>5 DEF m

----------------------------------------------------------------------------
(* The steps of parse_url.                                                 *)

Delimiters == {":", "/", "?", "#", "@"}

\* The scheme ends at the first colon ...
LEMMA SchemeFound ==
  ASSUME NEW C, Delimiters \subseteq C,
         NEW a \in Seq(C \ {":", "/", "?", "#"}), NEW d \in Seq(C), NEW b,
         Headed(b, ":", d), NEW s, Joins(s, a, b)
  PROVE  SplitScheme(s) = [found |-> TRUE, scheme |-> a, rest |-> d]
<1> DEFINE p == Len(a) + 1
           q == {":", "/", "?", "#"}
           c == ":"
<1>1. c \in C \cap q /\ Headed(b, c, d)
  BY DEF Delimiters
<1> HIDE DEF c
<1> HIDE DEF q
<1>2. a \in Seq(C \ q)
  BY DEF q
<1>3. /\ find_first_of(s, q) = p /\ p <= Len(s) /\ s[p] = c
      /\ Before(s, p) = a /\ After(s, p) = d
  BY <1>1, <1>2, CutBehind
<1> HIDE DEF p
<1>4. SplitScheme(s) = [found |-> TRUE, scheme |-> a, rest |-> d]
  BY <1>3, Zenon DEF SplitScheme, q, c
<1> QED
  BY <1>4

\* ... and is missing when a slash comes first.
LEMMA SchemeNone ==
  ASSUME NEW C, NEW s \in Seq(C), s # << >>, s[1] = "/"
  PROVE  SplitScheme(s) = [found |-> FALSE, scheme |-> << >>, rest |-> s]
<1>1. find_first_of(s, {":", "/", "?", "#"}) = 1
  <2> DEFINE q == {":", "/", "?", "#"}
             p == 1
  <2>1. /\ p \in 1 .. Len(s) + 1 /\ s[p] \in q
        /\ \A i \in 1 .. p - 1 : s[i] \notin q
    OBVIOUS
  <2> HIDE DEF p, q
  <2>2. find_first_of(s, q) = p
    BY <2>1, FirstOf
  <2> QED
    BY <2>2 DEF p, q
<1>2. s[1] # ":"
  OBVIOUS
<1> QED
  BY <1>1, <1>2, Zenon DEF SplitScheme

Slashed(rest, x) == rest = <<"/", "/">> \o x

IsConcat(C, a, b, c) ==
  /\ c \in Seq(C) /\ Len(c) = Len(a) + Len(b)
  /\ \A i \in 1 .. Len(a) : c[i] = a[i]
  /\ \A i \in 1 .. Len(b) : c[Len(a) + i] = b[i]

\* What one text behind the other is.
LEMMA ConcatFacts ==
  ASSUME NEW C, NEW a \in Seq(C), NEW b \in Seq(C), NEW c, c = a \o b
  PROVE  IsConcat(C, a, b, c)
BY DEF IsConcat

\* Two slashes and what is behind them.
LEMMA BehindSlashes ==
  ASSUME NEW C, NEW s \in Seq(C), NEW rest, Slashed(rest, s)
  PROVE  /\ rest \in Seq(C \cup {"/"}) /\ Len(rest) > 1
         /\ rest[1] = "/" /\ rest[2] = "/" /\ After(rest, 2) = s
<1> DEFINE n   == Len(s)
           two == <<"/", "/">>
           D   == C \cup {"/"}
<1>1. /\ two \in Seq(D) /\ s \in Seq(D) /\ n \in Nat
      /\ Len(two) = 2 /\ two[1] = "/" /\ two[2] = "/"
  OBVIOUS
<1>2. rest = two \o s
  BY DEF Slashed
<1> HIDE DEF two, D
<1>3. /\ rest \in Seq(D) /\ Len(rest) = n + 2
      /\ rest[1] = two[1] /\ rest[2] = two[2]
      /\ \A i \in 1 .. n : rest[2 + i] = s[i]
  <2>1. /\ rest \in Seq(D) /\ Len(rest) = 2 + n
        /\ \A i \in 1 .. 2 : rest[i] = two[i]
        /\ \A i \in 1 .. n : rest[2 + i] = s[i]
    <3>1. IsConcat(D, two, s, rest)
      BY <1>1, <1>2, ConcatFacts
    <3> QED
      BY <1>1, <3>1, Zenon DEF IsConcat
  <2> HIDE DEF n
  <2> QED
    BY <1>1, <2>1
<1>4. s = [i \in 1 .. n |-> s[i]]
  OBVIOUS
<1> HIDE DEF n
<1>5. After(rest, 2) = s
  <2>1. SubSeq(rest, 2 + 1, Len(rest))
          = [i \in 1 .. Len(rest) - (2 + 1) + 1 |-> rest[i + (2 + 1) - 1]]
    BY <1>1, <1>3
  <2>2. Len(rest) - (2 + 1) + 1 = n
    BY <1>1, <1>3
  <2>3. \A i \in 1 .. n : rest[i + (2 + 1) - 1] = s[i]
    <3> TAKE i \in 1 .. n
    <3>1. i + (2 + 1) - 1 = 2 + i
      BY <1>1
    <3> QED
      BY <1>3, <3>1
  <2>4. [i \in 1 .. n |-> rest[i + (2 + 1) - 1]] = [i \in 1 .. n |-> s[i]]
    BY <2>3
  <2> QED
    BY <1>4, <2>1, <2>2, <2>4, Zenon DEF After
<1> QED
  BY <1>1, <1>3, <1>5 DEF D

\* The authority is between two slashes and what may end it.
LEMMA AuthorityFound ==
  ASSUME NEW C, NEW a \in Seq(C \ {"/", "?", "#"}), NEW b \in Seq(C),
         b # << >> => b[1] \in {"/", "?", "#"},
         NEW s, Joins(s, a, b), NEW rest, Slashed(rest, s)
  PROVE  SplitAuthority(rest) = [authority |-> a, tail |-> b]
<1> DEFINE p == Len(a) + 1
           q == {"/", "?", "#"}
<1>1. s \in Seq(C) /\ Len(a) \in Nat /\ a \in Seq(C)
  BY DEF Joins
<1>2. find_first_of(s, q) = p /\ Before(s, p) = a /\ After(s, p - 1) = b
  <2>1. CASE b = << >>
    <3>1. s = a
      BY <2>1 DEF Joins
    <3>2. find_first_of(a, q) = p /\ Before(a, p) = a
      BY CutNone
    <3>3. After(a, p - 1) = << >>
      BY <1>1 DEF After
    <3> QED
      BY <2>1, <3>1, <3>2, <3>3, Zenon
  <2>2. CASE b # << >>
    <3> HIDE DEF q
    <3>1. b[1] \in q /\ a \in Seq(C \ q)
      BY <2>2 DEF q
    <3>2. IsCut(s, q, Len(a) + 1, a, b)
      BY <2>2, <3>1, CutBefore
    <3> QED
      BY <3>2 DEF IsCut
  <2> QED
    BY <2>1, <2>2
<1> HIDE DEF p, q
<1>3. Len(rest) > 1 /\ rest[1] = "/" /\ rest[2] = "/" /\ After(rest, 2) = s
  BY <1>1, BehindSlashes
<1> QED
  BY <1>2, <1>3, Zenon DEF SplitAuthority, q

\* The user info ends at the first "@" ...
LEMMA UserFound ==
  ASSUME NEW C, Delimiters \subseteq C, NEW a \in Seq(C \ {"@"}),
         NEW d \in Seq(C), NEW b, Headed(b, "@", d), NEW s, Joins(s, a, b)
  PROVE  SplitUser(s) = [user |-> a, address |-> d]
<1> DEFINE p == Len(a) + 1
           q == {"@"}
<1>1. "@" \in C \cap q
  BY DEF Delimiters
<1> HIDE DEF q
<1>2. a \in Seq(C \ q)
  BY DEF q
<1>3. /\ find_first_of(s, q) = p /\ p <= Len(s)
      /\ Before(s, p) = a /\ After(s, p) = d
  BY <1>1, <1>2, CutBehind
<1> HIDE DEF p
<1>4. SplitUser(s) = [user |-> a, address |-> d]
  BY <1>3, Zenon DEF SplitUser, q
<1> QED
  BY <1>4

\* ... and is missing without one.
LEMMA UserNone ==
  ASSUME NEW C, NEW a \in Seq(C \ {"@"})
  PROVE  SplitUser(a) = [user |-> << >>, address |-> a]
<1>1. /\ find_first_of(a, {"@"}) = Len(a) + 1 /\ ~(Len(a) + 1 <= Len(a))
  BY CutNone
<1> QED
  BY <1>1, Zenon DEF SplitUser

\* The port begins behind the first colon ...
LEMMA PortFound ==
  ASSUME NEW C, Delimiters \subseteq C, NEW a \in Seq(C \ {":"}),
         NEW d \in Seq(C), NEW b, Headed(b, ":", d), NEW s, Joins(s, a, b)
  PROVE  SplitPort(s) = [host |-> a, found |-> TRUE, port |-> d]
<1> DEFINE p == Len(a) + 1
           q == {":"}
<1>1. ":" \in C \cap q
  BY DEF Delimiters
<1> HIDE DEF q
<1>2. a \in Seq(C \ q)
  BY DEF q
<1>3. /\ find_first_of(s, q) = p /\ p <= Len(s)
      /\ Before(s, p) = a /\ After(s, p) = d
  BY <1>1, <1>2, CutBehind
<1> HIDE DEF p
<1>4. SplitPort(s) = [host |-> a, found |-> TRUE, port |-> d]
  BY <1>3, Zenon DEF SplitPort, q
<1> QED
  BY <1>4

\* ... and is missing without one.
LEMMA PortNone ==
  ASSUME NEW C, NEW a \in Seq(C \ {":"})
  PROVE  SplitPort(a) = [host |-> a, found |-> FALSE, port |-> << >>]
<1>1. /\ find_first_of(a, {":"}) = Len(a) + 1
      /\ ~(Len(a) + 1 <= Len(a))
  BY CutNone
<1> QED
  BY <1>1, Zenon DEF SplitPort

TailOf(path, query, fragment) ==
  [path |-> path, query |-> query, fragment |-> fragment]

\* A path alone.
LEMMA TailPath ==
  ASSUME NEW C, NEW a \in Seq(C \ {"?", "#"})
  PROVE  SplitTail(a) = TailOf(a, << >>, << >>)
<1>1. /\ find_first_of(a, {"?", "#"}) = Len(a) + 1 /\ ~(Len(a) + 1 <= Len(a))
      /\ Before(a, Len(a) + 1) = a /\ After(a, Len(a) + 1) = << >>
  BY CutNone
<1>3. LET h == find_first_of(<< >>, {"#"})
      IN  Before(<< >>, h) = << >> /\ After(<< >>, h) = << >>
  <2> DEFINE e == << >>
             q == {"#"}
             h == find_first_of(e, q)
  <2>1. e \in Seq(C \ q)
    OBVIOUS
  <2> HIDE DEF e, q
  <2>2. h = Len(e) + 1 /\ Before(e, Len(e) + 1) = e
        /\ After(e, Len(e) + 1) = << >>
    BY <2>1, CutNone
  <2>3. Before(e, h) = e /\ After(e, h) = << >>
    BY <2>2
  <2> QED
    BY <2>3 DEF e, q
<1> QED
  BY <1>1, <1>3, Zenon DEF SplitTail, TailOf

HashAt(c, d) == IF c = "#" THEN 0 ELSE find_first_of(d, {"#"})

TailMark(c) == c \in {"?", "#"}

\* What is behind the path, from a "?" or "#" on.
LEMMA TailCut ==
  ASSUME NEW C, Delimiters \subseteq C, NEW a \in Seq(C \ {"?", "#"}),
         NEW c, TailMark(c), NEW d \in Seq(C), NEW b, Headed(b, c, d),
         NEW s, Joins(s, a, b), NEW p, p = HashAt(c, d)
  PROVE  SplitTail(s) = TailOf(a, Before(d, p), After(d, p))
<1> DEFINE e == Len(a) + 1
           q == {"?", "#"}
<1>1. c \in C \cap q
  BY DEF Delimiters, TailMark
<1> HIDE DEF q
<1>2. a \in Seq(C \ q)
  BY DEF q
<1>3. /\ find_first_of(s, q) = e /\ e <= Len(s) /\ s[e] = c
      /\ Before(s, e) = a /\ After(s, e) = d
  BY <1>1, <1>2, CutBehind
<1> HIDE DEF e
<1>4. SplitTail(s) = TailOf(a, Before(d, p), After(d, p))
  BY <1>3, Zenon DEF SplitTail, TailOf, q, HashAt
<1> QED
  BY <1>4

\* A path with a fragment, ...
LEMMA TailFragment ==
  ASSUME NEW C, Delimiters \subseteq C, NEW a \in Seq(C \ {"?", "#"}),
         NEW d \in Seq(C), NEW b, Headed(b, "#", d),
         NEW s, Joins(s, a, b)
  PROVE  SplitTail(s) = TailOf(a, << >>, d)
<1>1. Before(d, 0) = << >>
  BY DEF Before
<1>2. After(d, 0) = d
  <2>1. SubSeq(d, 1, Len(d)) = d
    OBVIOUS
  <2>2. 0 + 1 = 1
    OBVIOUS
  <2> QED
    BY <2>1, <2>2, Zenon DEF After
<1> DEFINE c == "#"
           p == 0
<1>3. TailMark(c) /\ p = HashAt(c, d)
      /\ Headed(b, c, d)
  BY DEF HashAt, TailMark
<1> HIDE DEF c, p
<1>4. SplitTail(s) = TailOf(a, Before(d, p), After(d, p))
  BY <1>3, TailCut
<1> QED
  BY <1>1, <1>2, <1>4, Zenon DEF p

\* ... with a question mark, ...
SplitsAt(s, a, d, p) == SplitTail(s) = TailOf(a, Before(d, p), After(d, p))

LEMMA TailQuestion ==
  ASSUME NEW C, Delimiters \subseteq C, NEW a \in Seq(C \ {"?", "#"}),
         NEW d \in Seq(C), NEW b, Headed(b, "?", d), NEW s, Joins(s, a, b)
  PROVE  SplitsAt(s, a, d, find_first_of(d, {"#"}))
<1> DEFINE c == "?"
           p == find_first_of(d, {"#"})
<1>1. TailMark(c) /\ p = HashAt(c, d) /\ Headed(b, c, d)
  BY DEF HashAt, TailMark
<1> HIDE DEF c, p
<1>2. SplitTail(s) = TailOf(a, Before(d, p), After(d, p))
  BY <1>1, TailCut
<1> QED
  BY <1>2, Zenon DEF SplitsAt, p

\* ... with a query ...
LEMMA TailQuery ==
  ASSUME NEW C, Delimiters \subseteq C, NEW a \in Seq(C \ {"?", "#"}),
         NEW d \in Seq(C \ {"#"}), NEW b, Headed(b, "?", d),
         NEW s, Joins(s, a, b)
  PROVE  SplitTail(s) = TailOf(a, d, << >>)
<1> DEFINE p == find_first_of(d, {"#"})
<1>1. p = Len(d) + 1 /\ Before(d, p) = d /\ After(d, p) = << >>
  BY CutNone
<1>2. d \in Seq(C)
  OBVIOUS
<1>3. SplitsAt(s, a, d, p)
  BY <1>2, TailQuestion, Zenon
<1> HIDE DEF p
<1> QED
  BY <1>1, <1>3, Zenon DEF SplitsAt

\* ... and with a query and a fragment.
LEMMA TailBoth ==
  ASSUME NEW C, Delimiters \subseteq C, NEW a \in Seq(C \ {"?", "#"}),
         NEW d \in Seq(C \ {"#"}), NEW f \in Seq(C), NEW g, Headed(g, "#", f),
         NEW e, Joins(e, d, g), NEW b, Headed(b, "?", e),
         NEW s, Joins(s, a, b)
  PROVE  SplitTail(s) = TailOf(a, d, f)
<1> DEFINE h == "#"
           q == {"#"}
           p == find_first_of(e, q)
<1>1. h \in C \cap q /\ Headed(g, h, f)
  BY DEF Delimiters
<1>2. e \in Seq(C)
  BY DEF Delimiters, Headed, Joins
<1>3. SplitsAt(s, a, e, p)
  BY <1>2, TailQuestion, Zenon
<1> HIDE DEF h, q
<1>4. d \in Seq(C \ q)
  BY DEF q
<1>5. p = Len(d) + 1 /\ Before(e, p) = d /\ After(e, p) = f
  BY <1>1, <1>4, CutBehind
<1> QED
  BY <1>3, <1>5, Zenon DEF SplitsAt

\* Without two slashes in front there is no authority.
LEMMA NoAuthority ==
  ASSUME NEW C, NEW a \in Seq(C \ {"/", "?", "#"}), NEW b \in Seq(C),
         b # << >> => b[1] \in {"/", "?", "#"},
         Len(b) > 1 /\ b[1] = "/" => b[2] # "/"
  PROVE  SplitAuthority(SplitScheme(a \o b).rest).authority = << >>
<1> DEFINE s == a \o b
           m == Len(a)
           p == find_first_of(s, {":", "/", "?", "#"})
           r == SplitScheme(s).rest
<1>1. /\ s \in Seq(C) /\ m \in Nat /\ Len(b) \in Nat /\ Len(s) = m + Len(b)
      /\ \A i \in 1 .. m : s[i] = a[i] /\ a[i] \notin {"/", "?", "#"}
      /\ \A i \in 1 .. Len(b) : s[m + i] = b[i]
      /\ b # << >> => Len(b) # 0
  OBVIOUS
<1> HIDE DEF s, m
<1>2. /\ p \in 1 .. Len(s) + 1
      /\ \A i \in 1 .. p - 1 : s[i] \notin {":", "/", "?", "#"}
  <2> DEFINE S == {i \in DOMAIN s : s[i] \in {":", "/", "?", "#"}}
                    \cup {Len(s) + 1}
  <2>1. S \in SUBSET Nat /\ S # {} /\ DOMAIN s = 1 .. Len(s) /\ Len(s) \in Nat
    BY <1>1
  <2> DEFINE x == CHOOSE x \in S : \A y \in S : x <= y
  <2>2. x \in S /\ \A y \in S : x <= y
    <3>1. \E n \in S : \A y \in S : n <= y
      <4> HIDE DEF S
      <4> QED
        BY <2>1, LeastNumber
    <3> HIDE DEF S
    <3> QED
      BY <3>1
  <2>3. p = x
    BY Zenon DEF find_first_of, Min
  <2> HIDE DEF x, p
  <2> QED
    BY <2>1, <2>2, <2>3
<1> HIDE DEF p
<1>3. \E k \in 0 .. Len(s) : /\ r = SubSeq(s, k + 1, Len(s))
                             /\ \A i \in 1 .. k : s[i] \notin {"/", "?", "#"}
  <2>1. CASE p <= Len(s) /\ s[p] = ":"
    <3>1. r = SubSeq(s, p + 1, Len(s))
      BY <2>1, Zenon DEF SplitScheme, p, After
    <3>2. p \in 0 .. Len(s) /\ \A i \in 1 .. p : i \in 1 .. p - 1 \/ i = p
      BY <1>1, <1>2, <2>1
    <3>3. \A i \in 1 .. p : s[i] \notin {"/", "?", "#"}
      BY <1>2, <2>1, <3>2
    <3> QED
      BY <3>1, <3>2, <3>3
  <2>2. CASE ~(p <= Len(s) /\ s[p] = ":")
    <3>1. r = s
      BY <2>2, Zenon DEF SplitScheme, p
    <3>2. SubSeq(s, 0 + 1, Len(s)) = s /\ 0 \in 0 .. Len(s)
      BY <1>1
    <3> QED
      BY <3>1, <3>2
  <2> QED
    BY <2>1, <2>2
<1>4. PICK k \in 0 .. Len(s) : /\ r = SubSeq(s, k + 1, Len(s))
                               /\ \A i \in 1 .. k : s[i] \notin {"/", "?", "#"}
  BY <1>3
<1> HIDE DEF r
<1>5. ~(Len(r) > 1 /\ r[1] = "/" /\ r[2] = "/")
  <2> SUFFICES ASSUME Len(r) > 1, r[1] = "/", r[2] = "/" PROVE FALSE
    OBVIOUS
  <2>1. /\ Len(r) = Len(s) - k
        /\ r[1] = s[k + 1] /\ r[2] = s[k + 2]
    BY <1>1, <1>4
  <2>2. k + 2 <= Len(s)
    BY <1>1, <1>4, <2>1
  <2>3. k + 1 > m
    <3> SUFFICES ASSUME k + 1 <= m PROVE FALSE
      BY <1>1
    <3>1. k + 1 \in 1 .. m
      BY <1>1
    <3>2. s[k + 1] = a[k + 1] /\ a[k + 1] \notin {"/", "?", "#"}
      BY <1>1, <3>1, Zenon
    <3> QED
      BY <2>1, <3>2, Zenon
  <2>4. k = m
    <3> SUFFICES ASSUME k > m PROVE FALSE
      BY <1>1, <1>4, <2>3
    <3>1. m + 1 \in 1 .. k /\ 1 \in 1 .. Len(b)
      BY <1>1, <1>4, <2>2
    <3>2. s[m + 1] = b[1] /\ b # << >>
      BY <1>1, <3>1
    <3> QED
      BY <1>4, <3>1, <3>2
  <2>5. s[m + 1] = b[1] /\ s[m + 2] = b[2] /\ Len(b) > 1
    BY <1>1, <2>2, <2>4
  <2> QED
    BY <2>1, <2>4, <2>5
<1>6. SplitAuthority(r).authority = << >>
  BY <1>5, Zenon DEF SplitAuthority
<1> QED
  BY <1>6 DEF r, s

----------------------------------------------------------------------------
(* Reading a number digit by digit.                                        *)

\* What the three readings of a numeral are, digit by digit.
NumberRead(s, n, v) ==
  /\ v \in [0 .. n -> Nat] /\ v[0] = 0 /\ Number(s) = v[n]
  /\ \A i \in 1 .. n : v[i] = NextNumber(v[i - 1], s[i])

StoiRead(s, n, w) ==
  /\ w \in [0 .. n -> Int] /\ w[0] = 0 /\ stoi(s) = w[n]
  /\ \A i \in 1 .. n : w[i] = NextInt(w[i - 1], s[i])

UintRead(s, n, x) ==
  /\ x \in [0 .. n -> Nat \X Nat] /\ x[0] = <<0, 0>> /\ uint32(s) = x[n]
  /\ \A i \in 1 .. n : x[i] = Next32(x[i - 1], s[i])

\* g[s] is what the numbers in s make of base, from the least to the largest.
Folded(S, n, base, step, g) ==
  /\ g \in [SUBSET (1 .. n) -> S]
  /\ \A s \in SUBSET (1 .. n) :
       g[s] = IF s = {} THEN base ELSE step[g[s \ {Max(s)}], Max(s)]

IsStep(S, n, base, step) == /\ n \in Nat /\ base \in S
                            /\ step \in [S \X (1 .. n) -> S]

\* The largest of a set of numbers.
LEMMA MaxIs ==
  ASSUME NEW S \in SUBSET Nat, NEW m \in S, \A j \in S : j <= m
  PROVE  Max(S) = m
<1> DEFINE x == Max(S)
<1>1. x \in S /\ \A j \in S : j <= x
  BY DEF Max
<1> HIDE DEF x
<1>2. x \in Nat /\ m \in Nat /\ x <= m /\ m <= x
  BY <1>1
<1>3. x = m
  BY <1>2
<1> QED
  BY <1>3 DEF x

\* Every step has such a function.
LEMMA FoldedExists ==
  ASSUME NEW S, NEW n, NEW base, NEW step, IsStep(S, n, base, step)
  PROVE  \E g : Folded(S, n, base, step, g)
<1> DEFINE Upto(k) == \E g \in [SUBSET (1 .. k) -> S] :
                        \A s \in SUBSET (1 .. k) :
                          g[s] = IF s = {} THEN base
                                 ELSE step[g[s \ {Max(s)}], Max(s)]
           T       == {k \in 0 .. n : ~Upto(k)}
<1>1. n \in Nat /\ base \in S /\ step \in [S \X (1 .. n) -> S]
  BY DEF IsStep
<1>2. T = {}
  <2> SUFFICES ASSUME T # {} PROVE FALSE
    OBVIOUS
  <2>1. PICK k \in T : \A m \in T : k <= m
    <3>1. T \in SUBSET Nat
      <4> HIDE DEF Upto
      <4> QED
        BY <1>1
    <3> HIDE DEF T
    <3> QED
      BY <3>1, LeastNumber
  <2>2. k \in 0 .. n /\ ~Upto(k)
    BY <2>1
  <2>5. \A j \in 0 .. n : j < k => Upto(j)
    <3> HIDE DEF Upto
    <3> QED
      BY <1>1, <2>1, <2>2
  <2> HIDE DEF T, Upto
  <2>3. CASE k = 0
    <3> DEFINE e == [s \in SUBSET (1 .. 0) |-> base]
    <3>1. e \in [SUBSET (1 .. 0) -> S]
      BY <1>1
    <3>2. \A s \in SUBSET (1 .. 0) : s = {} /\ e[s] = base
      <4>1. 1 .. 0 = {}
        OBVIOUS
      <4> QED
        BY <4>1
    <3> HIDE DEF e
    <3> QED
      BY <2>2, <2>3, <3>1, <3>2 DEF Upto
  <2>4. CASE k # 0
    <3> DEFINE j == k - 1
    <3>1. j \in 0 .. n /\ j < k /\ k \in 1 .. n /\ k = j + 1 /\ j \in Nat
      BY <1>1, <2>2, <2>4
    <3> HIDE DEF j
    <3>2. Upto(j)
      BY <2>5, <3>1
    <3>3. PICK g \in [SUBSET (1 .. j) -> S] :
            \A s \in SUBSET (1 .. j) :
              g[s] = IF s = {} THEN base
                     ELSE step[g[s \ {Max(s)}], Max(s)]
      BY <3>2 DEF Upto
    <3> DEFINE h == [s \in SUBSET (1 .. k) |->
                       IF k \in s THEN step[g[s \ {k}], k] ELSE g[s]]
    <3>4. ASSUME NEW s \in SUBSET (1 .. k)
          PROVE  /\ k \notin s => s \in SUBSET (1 .. j)
                 /\ s \ {k} \in SUBSET (1 .. j)
      BY <3>1
    <3>5. h \in [SUBSET (1 .. k) -> S]
      BY <1>1, <3>1, <3>3, <3>4
    <3>6. ASSUME NEW s \in SUBSET (1 .. k)
          PROVE  h[s] = IF s = {} THEN base
                        ELSE step[h[s \ {Max(s)}], Max(s)]
      <4>1. CASE k \in s
        <5>1. s \in SUBSET Nat /\ \A i \in s : i <= k
          BY <3>1
        <5>2. Max(s) = k
          BY <4>1, <5>1, MaxIs
        <5>3. h[s \ {k}] = g[s \ {k}] /\ h[s] = step[g[s \ {k}], k]
          BY <3>4, <4>1
        <5> QED
          BY <4>1, <5>2, <5>3, Zenon
      <4>2. CASE k \notin s
        <5>1. s \in SUBSET (1 .. j) /\ h[s] = g[s]
          BY <3>4, <4>2
        <5>2. k \notin s \ {Max(s)} /\ s \ {Max(s)} \in SUBSET (1 .. k)
          BY <4>2
        <5>3. h[s \ {Max(s)}] = g[s \ {Max(s)}]
          BY <5>2
        <5>4. g[s] = IF s = {} THEN base
                     ELSE step[g[s \ {Max(s)}], Max(s)]
          BY <3>3, <5>1
        <5> QED
          BY <5>1, <5>3, <5>4, Zenon
      <4> QED
        BY <4>1, <4>2
    <3> HIDE DEF h
    <3> QED
      BY <2>2, <3>5, <3>6 DEF Upto
  <2> QED
    BY <2>3, <2>4
<1>3. Upto(n)
  <2> HIDE DEF Upto
  <2> QED
    BY <1>1, <1>2
<1> QED
  BY <1>3 DEF Folded

\* v[i] is what the first i of n steps make of base.
Chain(S, n, base, step, v) ==
  /\ v \in [0 .. n -> S] /\ v[0] = base
  /\ \A i \in 1 .. n : v[i] = step[v[i - 1], i]

\* The largest number is one of them.
LEMMA MaxIn ==
  ASSUME NEW n \in Nat, NEW S \in SUBSET (1 .. n), S # {}
  PROVE  Max(S) \in S
<1> DEFINE T == {n - i : i \in S}
<1>1. T \in SUBSET Nat /\ T # {}
  <2>1. \A i \in S : n - i \in Nat
    OBVIOUS
  <2> QED
    BY <2>1, Zenon
<1>2. PICK m \in T : \A j \in T : m <= j
  <2> HIDE DEF T
  <2> QED
    BY <1>1, LeastNumber
<1>3. PICK x \in S : m = n - x
  BY <1>2
<1>4. \A i \in S : i <= x
  <2> TAKE i \in S
  <2>1. n - i \in T /\ i \in 1 .. n /\ x \in 1 .. n
    OBVIOUS
  <2>2. n - x <= n - i
    BY <1>2, <1>3, <2>1
  <2> HIDE DEF T
  <2> QED
    BY <2>1, <2>2
<1>5. S \in SUBSET Nat
  OBVIOUS
<1> QED
  BY <1>4, <1>5, MaxIs

\* The numbers up to k without the largest are those up to k - 1.
LEMMA MaxOfFirst ==
  ASSUME NEW i \in Nat \ {0}
  PROVE  Max(1 .. i) = i /\ (1 .. i) \ {i} = 1 .. (i - 1) /\ 1 .. i # {}
<1> DEFINE s == 1 .. i
<1>1. s \in SUBSET Nat /\ i \in s /\ \A j \in s : j <= i
  OBVIOUS
<1>2. s \ {i} = 1 .. (i - 1)
  OBVIOUS
<1> HIDE DEF s
<1>3. Max(s) = i /\ s # {}
  BY <1>1, MaxIs
<1> QED
  BY <1>2, <1>3, Zenon DEF s

\* A function with this recursion on sets of numbers runs along a chain.
Recurs(S, n, base, step, g) ==
  /\ g[{}] = base
  /\ \A k \in 1 .. n : g[1 .. (k - 1)] \in S =>
                         g[1 .. k] = step[g[1 .. (k - 1)], k]

\* It follows the steps one by one.
LEMMA FoldedChain ==
  ASSUME NEW S, NEW n, NEW base, NEW step, IsStep(S, n, base, step),
         NEW g, Recurs(S, n, base, step, g)
  PROVE  Chain(S, n, base, step, [i \in 0 .. n |-> g[1 .. i]])
<1> DEFINE v == [i \in 0 .. n |-> g[1 .. i]]
           T == {i \in 0 .. n : v[i] \notin S}
<1>1. n \in Nat /\ base \in S /\ step \in [S \X (1 .. n) -> S]
  BY DEF IsStep
<1>2. v[0] = base
  <2>1. 1 .. 0 = {} /\ 0 \in 0 .. n
    BY <1>1
  <2>2. v[0] = g[1 .. 0]
    BY <2>1
  <2> QED
    BY <2>1, <2>2, Zenon DEF Recurs
<1>3. ASSUME NEW k \in 1 .. n
      PROVE  v[k - 1] \in S => v[k] = step[v[k - 1], k] /\ v[k] \in S
  <2>1. k \in 0 .. n /\ k - 1 \in 0 .. n
    BY <1>1
  <2>2. v[k] = g[1 .. k] /\ v[k - 1] = g[1 .. (k - 1)]
    BY <2>1
  <2> HIDE DEF v
  <2>3. v[k - 1] \in S => v[k] = step[v[k - 1], k]
    BY <2>2, Zenon DEF Recurs
  <2> QED
    BY <1>1, <2>3
<1>4. T = {}
  <2> HIDE DEF v
  <2> SUFFICES ASSUME T # {} PROVE FALSE
    OBVIOUS
  <2>1. PICK k \in T : \A m \in T : k <= m
    <3>1. T \in SUBSET Nat
      BY <1>1
    <3> HIDE DEF T
    <3> QED
      BY <3>1, LeastNumber
  <2>2. k \in 0 .. n /\ v[k] \notin S /\ k # 0
    BY <1>1, <1>2, <2>1
  <2>3. k \in 1 .. n /\ k - 1 \in 0 .. n /\ ~(k <= k - 1)
    BY <1>1, <2>2
  <2>4. v[k - 1] \in S
    BY <2>1, <2>3
  <2> QED
    BY <1>3, <2>2, <2>3, <2>4
<1>5. \A i \in 0 .. n : v[i] \in S
  <2> HIDE DEF v
  <2> QED
    BY <1>4
<1>6. v \in [0 .. n -> S]
  BY <1>5
<1>7. \A k \in 1 .. n : k - 1 \in 0 .. n
  BY <1>1
<1> HIDE DEF v
<1>8. Chain(S, n, base, step, v)
  BY <1>2, <1>3, <1>5, <1>6, <1>7, Zenon DEF Chain
<1> QED
  BY <1>8 DEF v

\* What passes from each number to the next holds up to n.
LEMMA CountUp ==
  ASSUME NEW n \in Nat, NEW G, 0 \in G,
         \A k \in 1 .. n : k - 1 \in G => k \in G
  PROVE  \A k \in 0 .. n : k \in G
<1> DEFINE T == {k \in 0 .. n : k \notin G}
<1>1. T = {}
  <2> SUFFICES ASSUME T # {} PROVE FALSE
    OBVIOUS
  <2>1. PICK k \in T : \A m \in T : k <= m
    <3>1. T \in SUBSET Nat
      OBVIOUS
    <3> HIDE DEF T
    <3> QED
      BY <3>1, LeastNumber
  <2>2. k \in 0 .. n /\ k \notin G /\ k # 0
    OBVIOUS
  <2>3. k \in 1 .. n /\ k - 1 \in 0 .. n /\ ~(k <= k - 1)
    BY <2>2
  <2>4. k - 1 \in G
    BY <2>1, <2>3
  <2> QED
    BY <2>2, <2>3, <2>4
<1> QED
  BY <1>1

IsNumeral(s, n) == /\ n \in Nat /\ s \in [1 .. n -> ToSet(Digits)]

\* The value of a digit.
LEMMA DigitIs ==
  ASSUME NEW c, is_num(c)
  PROVE  digit(c) \in 0 .. 9 /\ (digit(c) = 0 => c = "0")
<1>1. PICK j \in 1 .. 10 : Digits[j] = c
  BY DEF is_num, Digits, ToSet
<1> DEFINE i == CHOOSE i \in 1 .. 10 : Digits[i] = c
<1>2. i \in 1 .. 10 /\ Digits[i] = c
  BY <1>1
<1> HIDE DEF i
<1>3. i - 1 \in 0 .. 9 /\ (i - 1 = 0 => c = "0")
  BY <1>2 DEF Digits
<1> QED
  BY <1>3 DEF digit, i

\* Two halves again.
LEMMA Next32Type ==
  ASSUME NEW a \in Nat, NEW b \in Nat, NEW c, is_num(c)
  PROVE  Next32(<<a, b>>, c) \in Nat \X Nat
<1> DEFINE d == digit(c)
           low == b * 10 + d
           high == a * 10 + low \div 65536
<1>1. d \in 0 .. 9
  BY DigitIs
<1> HIDE DEF d
<1>2. low \in Nat
  BY <1>1
<1> HIDE DEF low
<1>3. high \in Nat /\ low % 65536 \in Nat
  BY <1>2
<1> HIDE DEF high
<1>4. high % 65536 \in Nat
  BY <1>3
<1>5. Next32(<<a, b>>, c) = <<high % 65536, low % 65536>>
  BY DEF Next32, high, low, d
<1> QED
  BY <1>3, <1>4, <1>5

\* The number that digits denote, ...
LEMMA NumberChain ==
  ASSUME NEW s, NEW n, IsNumeral(s, n)
  PROVE  \E v : NumberRead(s, n, v)
<1> DEFINE Def(h) == [u \in SUBSET (1 .. n) |->
                        IF u = {} THEN 0
                        ELSE NextNumber(h[u \ {Max(u)}], s[Max(u)])]
           it     == CHOOSE h : h = Def(h)
           step   == [p \in (Nat) \X (1 .. n) |-> NextNumber(p[1], s[p[2]])]
           v      == [i \in 0 .. n |-> it[1 .. i]]
<1>1. n \in Nat /\ DOMAIN s = 1 .. n /\ \A i \in 1 .. n : is_num(s[i])
  BY DEF IsNumeral, is_num
<1>2. Number(s) = it[1 .. n]
  BY <1>1, Zenon DEF Number, FoldLeft, MapThenFoldSet
<1>3. \A i \in 1 .. n, k \in Nat : NextNumber(k, s[i]) \in Nat
  BY <1>1, DigitIs DEF NextNumber
<1>4. IsStep(Nat, n, 0, step)
  BY <1>1, <1>3 DEF IsStep
<1>5. \A k \in Nat, i \in 1 .. n : step[k, i] = NextNumber(k, s[i])
  OBVIOUS
<1>6. PICK g : Folded(Nat, n, 0, step, g)
  BY <1>4, FoldedExists
<1> HIDE DEF step
<1>7. g = Def(g)
  <2>1. ASSUME NEW u \in SUBSET (1 .. n), u # {}
        PROVE  g[u] = NextNumber(g[u \ {Max(u)}], s[Max(u)])
    <3>1. Max(u) \in 1 .. n
      BY <1>1, <2>1, MaxIn
    <3>2. g[u \ {Max(u)}] \in Nat
      BY <1>6 DEF Folded
    <3>3. g[u] = step[g[u \ {Max(u)}], Max(u)]
      BY <1>6, <2>1 DEF Folded
    <3> QED
      BY <1>5, <3>1, <3>2, <3>3
  <2>2. g[{}] = 0 /\ g \in [SUBSET (1 .. n) -> Nat]
    BY <1>6 DEF Folded
  <2> QED
    BY <2>1, <2>2
<1>8. it = Def(it)
  <2>1. \E h : h = Def(h)
    BY <1>7
  <2> HIDE DEF Def
  <2> QED
    BY <2>1
<1> HIDE DEF it
<1>9. it[{}] = 0
  BY <1>8
<1>10. ASSUME NEW k \in 1 .. n
       PROVE  it[1 .. k] = NextNumber(it[1 .. (k - 1)], s[k])
  <2> DEFINE u == 1 .. k
  <2>1. u \in SUBSET (1 .. n) /\ k \in Nat \ {0}
    BY <1>1
  <2>2. Max(u) = k /\ u \ {k} = 1 .. (k - 1) /\ u # {}
    BY <2>1, MaxOfFirst
  <2> HIDE DEF u
  <2>3. it[u] = NextNumber(it[u \ {Max(u)}], s[Max(u)])
    BY <1>8, <2>1, <2>2
  <2> QED
    BY <2>2, <2>3, Zenon DEF u
<1>11. Chain(Nat, n, 0, step, v)
  <2>1. Recurs(Nat, n, 0, step, it)
    BY <1>5, <1>9, <1>10, Zenon DEF Recurs
  <2> QED
    BY <1>4, <2>1, FoldedChain
<1>12. v[n] = it[1 .. n]
  BY <1>1
<1> HIDE DEF v
<1>13. \A i \in 1 .. n : i - 1 \in 0 .. n
  BY <1>1
<1>14. /\ v \in [0 .. n -> Nat] /\ v[0] = 0 /\ Number(s) = v[n]
       /\ \A i \in 1 .. n : v[i] = NextNumber(v[i - 1], s[i])
  BY <1>2, <1>5, <1>11, <1>12, <1>13 DEF Chain
<1>15. NumberRead(s, n, v)
  BY <1>14 DEF NumberRead
<1> QED
  BY <1>15

\* ... what std::stoi makes of them ...
LEMMA StoiChain ==
  ASSUME NEW s, NEW n, IsNumeral(s, n)
  PROVE  \E v : StoiRead(s, n, v)
<1> DEFINE Def(h) == [u \in SUBSET (1 .. n) |->
                        IF u = {} THEN 0
                        ELSE NextInt(h[u \ {Max(u)}], s[Max(u)])]
           it     == CHOOSE h : h = Def(h)
           step   == [p \in (Int) \X (1 .. n) |-> NextInt(p[1], s[p[2]])]
           v      == [i \in 0 .. n |-> it[1 .. i]]
<1>1. n \in Nat /\ DOMAIN s = 1 .. n /\ \A i \in 1 .. n : is_num(s[i])
  BY DEF IsNumeral, is_num
<1>2. stoi(s) = it[1 .. n]
  BY <1>1, Zenon DEF stoi, FoldLeft, MapThenFoldSet
<1>3. \A i \in 1 .. n, k \in Int : NextInt(k, s[i]) \in Int
  <2> TAKE i \in 1 .. n, k \in Int
  <2>1. digit(s[i]) \in 0 .. 9
    BY <1>1, DigitIs
  <2> QED
    BY <2>1 DEF NextInt, IntMax
<1>4. IsStep(Int, n, 0, step)
  BY <1>1, <1>3 DEF IsStep
<1>5. \A k \in Int, i \in 1 .. n : step[k, i] = NextInt(k, s[i])
  OBVIOUS
<1>6. PICK g : Folded(Int, n, 0, step, g)
  BY <1>4, FoldedExists
<1> HIDE DEF step
<1>7. g = Def(g)
  <2>1. ASSUME NEW u \in SUBSET (1 .. n), u # {}
        PROVE  g[u] = NextInt(g[u \ {Max(u)}], s[Max(u)])
    <3>1. Max(u) \in 1 .. n
      BY <1>1, <2>1, MaxIn
    <3>2. g[u \ {Max(u)}] \in Int
      BY <1>6 DEF Folded
    <3>3. g[u] = step[g[u \ {Max(u)}], Max(u)]
      BY <1>6, <2>1 DEF Folded
    <3> QED
      BY <1>5, <3>1, <3>2, <3>3
  <2>2. g[{}] = 0 /\ g \in [SUBSET (1 .. n) -> Int]
    BY <1>6 DEF Folded
  <2> QED
    BY <2>1, <2>2
<1>8. it = Def(it)
  <2>1. \E h : h = Def(h)
    BY <1>7
  <2> HIDE DEF Def
  <2> QED
    BY <2>1
<1> HIDE DEF it
<1>9. it[{}] = 0
  BY <1>8
<1>10. ASSUME NEW k \in 1 .. n
       PROVE  it[1 .. k] = NextInt(it[1 .. (k - 1)], s[k])
  <2> DEFINE u == 1 .. k
  <2>1. u \in SUBSET (1 .. n) /\ k \in Nat \ {0}
    BY <1>1
  <2>2. Max(u) = k /\ u \ {k} = 1 .. (k - 1) /\ u # {}
    BY <2>1, MaxOfFirst
  <2> HIDE DEF u
  <2>3. it[u] = NextInt(it[u \ {Max(u)}], s[Max(u)])
    BY <1>8, <2>1, <2>2
  <2> QED
    BY <2>2, <2>3, Zenon DEF u
<1>11. Chain(Int, n, 0, step, v)
  <2>1. Recurs(Int, n, 0, step, it)
    BY <1>5, <1>9, <1>10, Zenon DEF Recurs
  <2> QED
    BY <1>4, <2>1, FoldedChain
<1>12. v[n] = it[1 .. n]
  BY <1>1
<1> HIDE DEF v
<1>13. \A i \in 1 .. n : i - 1 \in 0 .. n
  BY <1>1
<1>14. /\ v \in [0 .. n -> Int] /\ v[0] = 0 /\ stoi(s) = v[n]
       /\ \A i \in 1 .. n : v[i] = NextInt(v[i - 1], s[i])
  BY <1>2, <1>5, <1>11, <1>12, <1>13 DEF Chain
<1>15. StoiRead(s, n, v)
  BY <1>14 DEF StoiRead
<1> QED
  BY <1>15

\* ... and what is_uint makes of them.
LEMMA Uint32Chain ==
  ASSUME NEW s, NEW n, IsNumeral(s, n)
  PROVE  \E v : UintRead(s, n, v)
<1> DEFINE Def(h) == [u \in SUBSET (1 .. n) |->
                        IF u = {} THEN <<0, 0>>
                        ELSE Next32(h[u \ {Max(u)}], s[Max(u)])]
           it     == CHOOSE h : h = Def(h)
           step   == [p \in (Nat \X Nat) \X (1 .. n) |-> Next32(p[1], s[p[2]])]
           v      == [i \in 0 .. n |-> it[1 .. i]]
<1>1. n \in Nat /\ DOMAIN s = 1 .. n /\ \A i \in 1 .. n : is_num(s[i])
  BY DEF IsNumeral, is_num
<1>2. uint32(s) = it[1 .. n]
  BY <1>1, Zenon DEF uint32, FoldLeft, MapThenFoldSet
<1>3. \A i \in 1 .. n, k \in Nat \X Nat : Next32(k, s[i]) \in Nat \X Nat
  BY <1>1, Next32Type
<1>4. IsStep(Nat \X Nat, n, <<0, 0>>, step)
  BY <1>1, <1>3 DEF IsStep
<1>5. \A k \in Nat \X Nat, i \in 1 .. n : step[k, i] = Next32(k, s[i])
  OBVIOUS
<1>6. PICK g : Folded(Nat \X Nat, n, <<0, 0>>, step, g)
  BY <1>4, FoldedExists
<1> HIDE DEF step
<1>7. g = Def(g)
  <2>1. ASSUME NEW u \in SUBSET (1 .. n), u # {}
        PROVE  g[u] = Next32(g[u \ {Max(u)}], s[Max(u)])
    <3>1. Max(u) \in 1 .. n
      BY <1>1, <2>1, MaxIn
    <3>2. g[u \ {Max(u)}] \in Nat \X Nat
      BY <1>6 DEF Folded
    <3>3. g[u] = step[g[u \ {Max(u)}], Max(u)]
      BY <1>6, <2>1 DEF Folded
    <3> QED
      BY <1>5, <3>1, <3>2, <3>3
  <2>2. g[{}] = <<0, 0>> /\ g \in [SUBSET (1 .. n) -> Nat \X Nat]
    BY <1>6 DEF Folded
  <2> QED
    BY <2>1, <2>2
<1>8. it = Def(it)
  <2>1. \E h : h = Def(h)
    BY <1>7
  <2> HIDE DEF Def
  <2> QED
    BY <2>1
<1> HIDE DEF it
<1>9. it[{}] = <<0, 0>>
  BY <1>8
<1>10. ASSUME NEW k \in 1 .. n
       PROVE  it[1 .. k] = Next32(it[1 .. (k - 1)], s[k])
  <2> DEFINE u == 1 .. k
  <2>1. u \in SUBSET (1 .. n) /\ k \in Nat \ {0}
    BY <1>1
  <2>2. Max(u) = k /\ u \ {k} = 1 .. (k - 1) /\ u # {}
    BY <2>1, MaxOfFirst
  <2> HIDE DEF u
  <2>3. it[u] = Next32(it[u \ {Max(u)}], s[Max(u)])
    BY <1>8, <2>1, <2>2
  <2> QED
    BY <2>2, <2>3, Zenon DEF u
<1>11. Chain(Nat \X Nat, n, <<0, 0>>, step, v)
  <2>1. Recurs(Nat \X Nat, n, <<0, 0>>, step, it)
    BY <1>5, <1>9, <1>10, Zenon DEF Recurs
  <2> QED
    BY <1>4, <2>1, FoldedChain
<1>12. v[n] = it[1 .. n]
  BY <1>1
<1> HIDE DEF v
<1>13. \A i \in 1 .. n : i - 1 \in 0 .. n
  BY <1>1
<1>14. /\ v \in [0 .. n -> Nat \X Nat] /\ v[0] = <<0, 0>> /\ uint32(s) = v[n]
       /\ \A i \in 1 .. n : v[i] = Next32(v[i - 1], s[i])
  BY <1>2, <1>5, <1>11, <1>12, <1>13 DEF Chain
<1>15. UintRead(s, n, v)
  BY <1>14 DEF UintRead
<1> QED
  BY <1>15

\* The three readings of a numeral, digit by digit.
Readings(s, n, v, w, x) ==
  /\ n \in Nat \ {0} /\ \A i \in 1 .. n : is_num(s[i])
  /\ v \in [0 .. n -> Nat] /\ v[0] = 0
  /\ w \in [0 .. n -> Int] /\ w[0] = 0
  /\ x \in [0 .. n -> Nat \X Nat] /\ x[0] = <<0, 0>>
  /\ \A i \in 1 .. n : /\ v[i] = NextNumber(v[i - 1], s[i])
                       /\ w[i] = NextInt(w[i - 1], s[i])
                       /\ x[i] = Next32(x[i - 1], s[i])

Fits(y)   == y <= IntMax
Halves(y) == <<y \div 65536, y % 65536>>

\* One digit more, for the mathematical number and the others.
LEMMA StoiDigit ==
  ASSUME NEW v \in Nat, NEW c, is_num(c)
  PROVE  /\ NextNumber(v, c) \in Nat /\ v <= NextNumber(v, c)
         /\ v >= 1 => NextNumber(v, c) >= 10 * v
         /\ Fits(NextNumber(v, c)) => Fits(v)
         /\ Fits(v) => NextInt(v, c) = IF Fits(NextNumber(v, c))
                                        THEN NextNumber(v, c) ELSE -1
         /\ NextInt(-1, c) = -1
<1> DEFINE d == digit(c)
<1>1. d \in 0 .. 9
  BY DigitIs
<1>2. NextNumber(v, c) = v * 10 + d
  BY DEF NextNumber
<1>3. NextInt(v, c) = IF v = -1 \/ v > (IntMax - d) \div 10 THEN -1
                       ELSE v * 10 + d
  BY DEF NextInt
<1>4. NextInt(-1, c) = -1
  BY DEF NextInt
<1> HIDE DEF d
<1>5. v > (IntMax - d) \div 10 <=> v * 10 + d > IntMax
  BY <1>1 DEF IntMax
<1> DEFINE y == v * 10 + d
<1>6. y \in Nat /\ v <= y /\ (v >= 1 => y >= 10 * v)
      /\ v # -1
  BY <1>1
<1>7. NextInt(v, c) = IF y > IntMax THEN -1 ELSE y
  BY <1>3, <1>5, <1>6
<1>8. IntMax \in Int
  BY DEF IntMax
<1> HIDE DEF y
<1> QED
  BY <1>2, <1>4, <1>6, <1>7, <1>8 DEF y, Fits

\* The halves of a number.
LEMMA HalvesOf ==
  ASSUME NEW x \in Nat
  PROVE  /\ x \div 65536 \in Nat /\ x % 65536 \in Nat /\ x % 65536 < 65536
         /\ x = 65536 * (x \div 65536) + (x % 65536)
<1>1. x \div 65536 \in Nat
  BY SMT
<1>2. x % 65536 \in Nat /\ x % 65536 < 65536
  BY SMT
<1>3. x = 65536 * (x \div 65536) + (x % 65536)
  BY SMT
<1> QED
  BY <1>1, <1>2, <1>3, SMT

\* They are the only ones.
LEMMA HalvesAre ==
  ASSUME NEW x \in Nat, NEW a \in Nat, NEW b \in Nat, b < 65536,
         x = 65536 * a + b
  PROVE  x \div 65536 = a /\ x % 65536 = b
<1> DEFINE h == x \div 65536
           l == x % 65536
<1>1. h \in Nat /\ l \in Nat /\ l < 65536 /\ x = 65536 * h + l
  BY HalvesOf, SMT
<1> HIDE DEF h, l
<1>2. h = a /\ l = b
  BY <1>1, SMT
<1> QED
  BY <1>2, SMT DEF h, l

\* One digit more, in halves.
LEMMA UintDigit ==
  ASSUME NEW v \in Nat, NEW c, is_num(c), Fits(NextNumber(v, c))
  PROVE  Next32(Halves(v), c) = Halves(NextNumber(v, c))
<1> DEFINE d    == digit(c)
           h    == v \div 65536
           l    == v % 65536
           low  == l * 10 + d
           m    == low \div 65536
           b    == low % 65536
           high == h * 10 + m
           y    == v * 10 + d
<1>1. d \in Nat
  BY DigitIs, SMT
<1>2. Next32(<<h, l>>, c) = <<high % 65536, b>>
  BY SMT DEF Next32
<1>3. NextNumber(v, c) = y /\ Fits(y)
  BY SMT DEF NextNumber
<1>4. h \in Nat /\ l \in Nat /\ v = 65536 * h + l
  BY HalvesOf, SMT
<1>5. Halves(v) = <<h, l>>
  BY SMT DEF Halves
<1> HIDE DEF d, h, l
<1>6. low \in Nat /\ y \in Nat
  BY <1>1, <1>4, SMT
<1>7. m \in Nat /\ b \in Nat /\ b < 65536 /\ low = 65536 * m + b
  <2> HIDE DEF low
  <2> QED
    BY <1>6, HalvesOf, SMT
<1> HIDE DEF m, b
<1>8. l * 10 + d = 65536 * m + b
  BY <1>7, SMT
<1>9. y = (65536 * h + l) * 10 + d
  BY <1>4, SMT
<1> HIDE DEF y, low
<1>10. /\ y = 65536 * high + b /\ high \in Nat
       /\ Fits(y) => high < 65536
  <2>1. /\ h \in Nat /\ l \in Nat /\ d \in Nat
        /\ m \in Nat /\ b \in Nat /\ y \in Nat
    BY <1>1, <1>4, <1>6, <1>7, SMT
  <2>2. high \in Nat
    BY <2>1, SMT
  <2>3. y = 65536 * high + b
    BY <2>1, <1>8, <1>9, SMT
  <2> HIDE DEF high
  <2>4. Fits(y) => high < 65536
    BY <2>1, <2>2, <2>3, SMT DEF Fits, IntMax
  <2> QED
    BY <2>2, <2>3, <2>4, SMT
<1> HIDE DEF high
<1>11. high % 65536 = high
  BY <1>3, <1>10, SMT
<1>12. y \div 65536 = high /\ y % 65536 = b
  BY <1>6, <1>7, <1>10, HalvesAre, SMT
<1>13. Halves(y) = <<high, b>>
  BY <1>12, SMT DEF Halves
<1> QED
  BY <1>2, <1>3, <1>5, <1>11, <1>13, SMT

\* Up to IntMax the three agree; std::stoi gives up on anything larger.
Agree(v, w, x, k) ==
  IF Fits(v[k]) THEN w[k] = v[k] /\ x[k] = Halves(v[k]) ELSE w[k] = -1

\* That is so after every digit, and no digit makes the number less.
LEMMA ReadingsAgree ==
  ASSUME NEW s, NEW n, NEW v, NEW w, NEW x, Readings(s, n, v, w, x)
  PROVE  \A k \in 0 .. n : v[k] <= v[n] /\ Agree(v, w, x, k)
<1>1. n \in Nat \ {0} /\ v[0] = 0 /\ w[0] = 0 /\ x[0] = <<0, 0>>
      /\ (\A k \in 0 .. n : v[k] \in Nat) /\ IntMax \in Nat
  BY DEF Readings, IntMax
<1>2. ASSUME NEW k \in 1 .. n
      PROVE  /\ v[k - 1] \in Nat /\ v[k] \in Nat /\ v[k - 1] <= v[k]
             /\ Agree(v, w, x, k - 1) => Agree(v, w, x, k)
  <2> DEFINE a == v[k - 1]
             c == s[k]
             b == NextNumber(a, c)
  <2>1. k - 1 \in 0 .. n /\ k \in 0 .. n
    BY <1>1
  <2>2. a \in Nat /\ is_num(c)
    BY <1>1, <2>1 DEF Readings
  <2>3. v[k] = b /\ w[k] = NextInt(w[k - 1], c) /\ x[k] = Next32(x[k - 1], c)
    BY Zenon DEF Readings
  <2> HIDE DEF a, c
  <2>4. /\ b \in Nat /\ a <= b
        /\ Fits(b) => Fits(a)
        /\ Fits(a) => NextInt(a, c) = IF Fits(b) THEN b ELSE -1
        /\ NextInt(-1, c) = -1
    BY <2>2, StoiDigit
  <2>5. Fits(b) => Next32(Halves(a), c) = Halves(b)
    BY <2>2, UintDigit
  <2> HIDE DEF b
  <2>6. ASSUME Agree(v, w, x, k - 1) PROVE Agree(v, w, x, k)
    <3> DEFINE minus == -1
    <3>4. NextInt(minus, c) = minus
          /\ (Fits(a) => NextInt(a, c) = IF Fits(b) THEN b ELSE minus)
      BY <2>4
    <3>1. IF Fits(a) THEN w[k - 1] = a /\ x[k - 1] = Halves(a)
          ELSE w[k - 1] = minus
      BY <2>6, Zenon DEF Agree, a
    <3> HIDE DEF minus
    <3>2. CASE Fits(b)
      <4>1. Fits(a)
        BY <2>4, <3>2
      <4>2. w[k] = b /\ x[k] = Halves(b)
        BY <2>3, <2>5, <3>1, <3>2, <3>4, <4>1, Zenon
      <4> QED
        BY <2>3, <3>2, <4>2, Zenon DEF Agree
    <3>3. CASE ~Fits(b)
      <4>1. w[k] = minus
        BY <2>3, <3>1, <3>3, <3>4, Zenon
      <4> QED
        BY <2>3, <3>3, <4>1, Zenon DEF Agree, minus
    <3> QED
      BY <3>2, <3>3
  <2> QED
    BY <2>2, <2>3, <2>4, <2>6, Zenon DEF a
<1>3. \A k \in 0 .. n : Agree(v, w, x, k)
  <2> DEFINE G == {k \in 0 .. n : Agree(v, w, x, k)}
  <2>1. 0 \in G
    <3>1. Halves(0) = <<0, 0>> /\ Fits(0) /\ 0 \in 0 .. n
      BY <1>1 DEF Halves, Fits
    <3> QED
      BY <1>1, <3>1, Zenon DEF Agree
  <2>2. \A k \in 1 .. n : k - 1 \in G => k \in G
    <3>1. \A k \in 1 .. n : k \in 0 .. n
      BY <1>1
    <3> QED
      BY <1>2, <3>1, Zenon
  <2> HIDE DEF G
  <2>3. \A k \in 0 .. n : k \in G
    BY <1>1, <2>1, <2>2, CountUp
  <2> QED
    BY <2>3 DEF G
<1>4. \A k \in 0 .. n : v[k] <= v[n]
  <2> DEFINE G == {k \in 0 .. n : \A j \in 0 .. k : v[j] <= v[k]}
  <2>1. 0 \in G
    BY <1>1
  <2>2. ASSUME NEW k \in 1 .. n, k - 1 \in G PROVE k \in G
    <3>1. /\ k \in 0 .. n /\ k - 1 \in 0 .. n
          /\ \A j \in 0 .. k : j = k \/ j \in 0 .. k - 1
      BY <1>1
    <3>2. ASSUME NEW j \in 0 .. k PROVE v[j] <= v[k]
      <4>1. CASE j = k
        BY <1>2, <4>1
      <4>2. CASE j # k
        <5>1. j \in 0 .. k - 1 /\ j \in 0 .. n
          BY <1>1, <3>1, <4>2
        <5>2. v[j] <= v[k - 1] /\ v[j] \in Nat
          BY <1>1, <2>2, <5>1
        <5> QED
          BY <1>2, <5>2
      <4> QED
        BY <4>1, <4>2
    <3> QED
      BY <3>1, <3>2
  <2> HIDE DEF G
  <2>3. n \in G
    <3>1. \A k \in 0 .. n : k \in G
      BY <1>1, <2>1, <2>2, CountUp
    <3> QED
      BY <1>1, <3>1
  <2> QED
    BY <2>3 DEF G
<1> QED
  BY <1>3, <1>4

\* A port as RestWellFormed has it, but for its value.
Numeral(s) == /\ s # << >> /\ \A i \in DOMAIN s : is_num(s[i])
              /\ s[1] = "0" => Len(s) = 1

\* The readings of a numeral up to its end.
LEMMA NumeralRead ==
  ASSUME NEW C, NEW s \in Seq(C), Numeral(s)
  PROVE  \E v, w, x : /\ Readings(s, Len(s), v, w, x)
                      /\ Number(s) = v[Len(s)] /\ stoi(s) = w[Len(s)]
                      /\ uint32(s) = x[Len(s)]
<1> DEFINE n == Len(s)
<1>1. n \in Nat \ {0} /\ DOMAIN s = 1 .. n /\ \A i \in 1 .. n : is_num(s[i])
  BY DEF Numeral
<1>2. IsNumeral(s, n)
  <2>1. \A i \in 1 .. n : s[i] \in ToSet(Digits)
    BY <1>1, Zenon DEF is_num
  <2>2. s \in [1 .. n -> ToSet(Digits)]
    BY <1>1, <2>1
  <2> QED
    BY <1>1, <2>2 DEF IsNumeral
<1> HIDE DEF n
<1>3. PICK v : NumberRead(s, n, v)
  BY <1>2, NumberChain, Zenon
<1>4. PICK w : StoiRead(s, n, w)
  BY <1>2, StoiChain, Zenon
<1>5. PICK x : UintRead(s, n, x)
  BY <1>2, Uint32Chain, Zenon
<1>6. Readings(s, n, v, w, x)
  BY <1>1, <1>3, <1>4, <1>5, Zenon
    DEF Readings, NumberRead, StoiRead, UintRead
<1> QED
  BY <1>3, <1>4, <1>5, <1>6, Zenon
    DEF NumberRead, StoiRead, UintRead, n

\* A number of more than five digits, the first of them not 0, is above 65535.
LEMMA LongNumeral ==
  ASSUME NEW s, NEW n, NEW v, NEW w, NEW x, Readings(s, n, v, w, x),
         n > 5, s[1] # "0"
  PROVE  ~(v[n] <= MaxPort)
<1>1. n \in Nat /\ v[0] = 0 /\ (\A k \in 0 .. n : v[k] \in Nat)
  BY DEF Readings
<1>2. \A k \in 1 .. n : is_num(s[k]) /\ v[k] = NextNumber(v[k - 1], s[k])
  BY DEF Readings
<1>3. v[1] >= 1
  <2>1. 1 \in 1 .. n /\ 1 - 1 = 0
    BY <1>1
  <2>2. is_num(s[1]) /\ v[1] = NextNumber(0, s[1])
    BY <1>1, <1>2, <2>1
  <2>3. digit(s[1]) \in 0 .. 9 /\ digit(s[1]) # 0
    BY <2>2, DigitIs
  <2>4. v[1] = 0 * 10 + digit(s[1])
    BY <2>2 DEF NextNumber
  <2> QED
    BY <2>3, <2>4
<1>4. ASSUME NEW k \in 2 .. n, v[k - 1] >= 1
      PROVE  v[k] >= 10 * v[k - 1]
  <2>1. v[k - 1] \in Nat /\ k \in 1 .. n
    BY <1>1
  <2>2. is_num(s[k]) /\ v[k] = NextNumber(v[k - 1], s[k])
    BY <1>2, <2>1
  <2> QED
    BY <1>4, <2>1, <2>2, StoiDigit
<1>5. v[2] >= 10
  <2>1. 2 \in 2 .. n /\ 2 - 1 = 1 /\ v[1] \in Nat /\ v[2] \in Nat
    BY <1>1
  <2>2. v[2] >= 10 * v[1]
    BY <1>3, <1>4, <2>1
  <2> QED
    BY <1>3, <2>1, <2>2
<1>6. v[3] >= 100
  <2>1. 3 \in 2 .. n /\ 3 - 1 = 2 /\ v[2] \in Nat /\ v[3] \in Nat
    BY <1>1
  <2>2. v[3] >= 10 * v[2]
    BY <1>4, <1>5, <2>1
  <2> QED
    BY <1>5, <2>1, <2>2
<1>7. v[4] >= 1000
  <2>1. 4 \in 2 .. n /\ 4 - 1 = 3 /\ v[3] \in Nat /\ v[4] \in Nat
    BY <1>1
  <2>2. v[4] >= 10 * v[3]
    BY <1>4, <1>6, <2>1
  <2> QED
    BY <1>6, <2>1, <2>2
<1>8. v[5] >= 10000
  <2>1. 5 \in 2 .. n /\ 5 - 1 = 4 /\ v[4] \in Nat /\ v[5] \in Nat
    BY <1>1
  <2>2. v[5] >= 10 * v[4]
    BY <1>4, <1>7, <2>1, SMT
  <2> QED
    BY <1>7, <2>1, <2>2, SMT
<1>9. v[6] >= 100000
  <2>1. 6 \in 2 .. n /\ 6 - 1 = 5 /\ v[5] \in Nat /\ v[6] \in Nat
    BY <1>1
  <2>2. v[6] >= 10 * v[5]
    BY <1>4, <1>8, <2>1, SMT
  <2> QED
    BY <1>8, <2>1, <2>2, SMT
<1>10. v[6] <= v[n] /\ v[6] \in Nat /\ v[n] \in Nat
  <2>1. 6 \in 0 .. n /\ n \in 0 .. n
    BY <1>1, SMT
  <2>2. v[6] <= v[n]
    BY <2>1, ReadingsAgree, Zenon
  <2> QED
    BY <1>1, <2>1, <2>2, Zenon
<1> QED
  BY <1>9, <1>10, SMT DEF MaxPort

\* What MaxPort means for the readings.
LEMMA PortRange ==
  ASSUME NEW y \in Nat
  PROVE  /\ y <= MaxPort => Fits(y) /\ uint16(y) = y
         /\ Halves(y)[1] = 0 <=> y <= MaxPort
<1>1. y <= MaxPort => Fits(y)
  BY SMT DEF Fits, IntMax, MaxPort
<1>2. y <= MaxPort => uint16(y) = y
  BY SMT DEF uint16, MaxPort
<1>3. Halves(y)[1] = y \div 65536
  BY SMT DEF Halves
<1>4. y \div 65536 = 0 <=> y <= MaxPort
  BY SMT DEF MaxPort
<1> QED
  BY <1>1, <1>2, <1>3, <1>4, SMT

IsPort(s) == /\ Len(s) \in 1 .. 5 /\ \A i \in DOMAIN s : is_num(s[i])
             /\ s[1] = "0" => Len(s) = 1
             /\ Number(s) <= MaxPort

\* A port is the number that its digits denote: what is_uint and std::stoi
\* make of it agrees, and neither wraps around.
LEMMA PortAgrees ==
  ASSUME NEW C, NEW s \in Seq(C)
  PROVE  /\ is_port(s) /\ stoi(s) # -1 <=> IsPort(s)
         /\ IsPort(s) => uint16(stoi(s)) = Number(s)
<1> DEFINE n == Len(s)
           num == Number(s)
           minus == -1
<1>1. CASE ~Numeral(s)
  <2>1. ~is_port(s)
    BY <1>1, Zenon DEF is_port, Numeral
  <2>2. n \in 1 .. 5 => s # << >>
    OBVIOUS
  <2> HIDE DEF n
  <2>3. IsPort(s) => Numeral(s)
    BY <2>2, Zenon DEF IsPort, Numeral, n
  <2> QED
    BY <1>1, <2>1, <2>3, Zenon
<1>2. CASE Numeral(s)
  <2>1. PICK v, w, x : /\ Readings(s, Len(s), v, w, x)
                       /\ Number(s) = v[Len(s)] /\ stoi(s) = w[Len(s)]
                       /\ uint32(s) = x[Len(s)]
    BY <1>2, NumeralRead, Zenon
  <2> HIDE DEF num, n
  <2>2. /\ Readings(s, n, v, w, x) /\ num = v[n] /\ stoi(s) = w[n]
        /\ uint32(s) = x[n]
    BY <2>1, Zenon DEF n, num
  <2>3. n \in Nat \ {0} /\ num \in Nat /\ n \in 0 .. n
    BY <2>2, SMT DEF Readings
  <2>4. Agree(v, w, x, n)
    BY <2>2, <2>3, ReadingsAgree, Zenon
  <2> HIDE DEF minus
  <2>5. IF Fits(num) THEN stoi(s) = num /\ uint32(s) = Halves(num)
                     ELSE stoi(s) = minus
    BY <2>2, <2>4, Zenon DEF Agree, minus
  <2>6. num # minus
    BY <2>3, SMT DEF minus
  <2>7. num <= MaxPort => n \in 1 .. 5
    <3>1. CASE n > 5
      <4>1. s[1] # "0"
        BY <1>2, <3>1, SMT DEF Numeral, n
      <4>2. ~(num <= MaxPort)
        BY <2>2, <3>1, <4>1, LongNumeral, Zenon
      <4> QED
        BY <4>2, Zenon
    <3>2. CASE ~(n > 5)
      BY <2>3, <3>2, SMT
    <3> QED
      BY <3>1, <3>2, Zenon
  <2>8. /\ num <= MaxPort => Fits(num) /\ uint16(num) = num
        /\ Halves(num)[1] = 0 <=> num <= MaxPort
    BY <2>3, PortRange, Zenon
  <2>9. is_port(s) <=> uint32(s)[1] = 0
    BY <1>2, Zenon DEF is_port, Numeral
  <2>10. is_port(s) /\ stoi(s) # minus <=> num <= MaxPort
    <3>1. CASE Fits(num)
      <4>1. uint32(s)[1] = 0 <=> num <= MaxPort
        BY <2>5, <2>8, <3>1, Zenon
      <4>2. stoi(s) # minus
        BY <2>5, <2>6, <3>1, Zenon
      <4> QED
        BY <2>9, <4>1, <4>2, Zenon
    <3>2. CASE ~Fits(num)
      BY <2>5, <2>8, <3>2, Zenon
    <3> QED
      BY <3>1, <3>2, Zenon
  <2>11. num <= MaxPort => uint16(stoi(s)) = num
    BY <2>5, <2>8, Zenon
  <2>12. IsPort(s) <=> num <= MaxPort
    <3>1. (\A i \in DOMAIN s : is_num(s[i])) /\ (s[1] = "0" => n = 1)
      BY <1>2, Zenon DEF Numeral, n
    <3> QED
      BY <2>7, <3>1, Zenon DEF IsPort, n, num
  <2> QED
    BY <2>10, <2>11, <2>12, Zenon DEF num, minus
<1> QED
  BY <1>1, <1>2, Zenon

----------------------------------------------------------------------------
(* The text of a URL, taken apart.                                         *)

\* What a part that may be missing is read as.
PartOf(part) == IF part = << >> THEN << >> ELSE part[1]

\* Its characters.
LEMMA PartIs ==
  ASSUME NEW ends, NEW part, Optional(part, ends)
  PROVE  /\ PartOf(part) \in Seq(UrlChar \ ends)
         /\ PartOf(part) \in Seq(UrlChar)
         /\ part # << >> => part[1] = PartOf(part)
<1>1. part \in Seq(Seq(UrlChar \ ends)) /\ Len(part) <= 1
  BY DEF Optional
<1>2. PartOf(part) \in Seq(UrlChar \ ends)
  BY <1>1 DEF PartOf
<1>3. PartOf(part) \in Seq(UrlChar)
  BY <1>2
<1>4. part # << >> => part[1] = PartOf(part)
  BY DEF PartOf
<1> QED
  BY <1>2, <1>3, <1>4

\* The delimiters are characters of a URL.
LEMMA DelimitersAre == Delimiters \subseteq UrlChar
BY DEF Delimiters, UrlChar, QueryChar, PathChar

\* b is the rest, with the part in front if there is one.
IsLed(C, b, m, part, rest) ==
  /\ b \in Seq(C)
  /\ part = << >> => b = rest
  /\ part # << >> => /\ Headed(b, m, PartOf(part) \o rest)
                     /\ b # << >> /\ b[1] = m

\* What a part with a mark in front is.
LEMMA LedIs ==
  ASSUME NEW C, NEW m \in C, NEW part, PartOf(part) \in Seq(C),
         NEW rest \in Seq(C)
  PROVE  IsLed(C, LedBy(m, part, rest), m, part, rest)
<1>1. CASE part = << >>
  BY <1>1 DEF LedBy, IsLed
<1>2. CASE part # << >>
  <2> DEFINE d == PartOf(part) \o rest
  <2>1. d \in Seq(C) /\ part[1] = PartOf(part)
    <3>1. part[1] = PartOf(part)
      BY <1>2 DEF PartOf
    <3> QED
      BY <3>1
  <2>2. LedBy(m, part, rest) = <<m>> \o d
    BY <1>2, <2>1, Zenon DEF LedBy
  <2> HIDE DEF d
  <2>3. <<m>> \o d \in Seq(C) /\ <<m>> \o d # << >> /\ (<<m>> \o d)[1] = m
    BY <2>1
  <2>4. /\ Headed(LedBy(m, part, rest), m, d)
    BY <2>2, Zenon DEF Headed
  <2> QED
    BY <1>2, <2>2, <2>3, <2>4, Zenon DEF d, IsLed
<1> QED
  BY <1>1, <1>2

\* s is the rest behind the part and the mark that ends it, if there is one.
IsEnded(C, s, m, part, rest) ==
  /\ s \in Seq(C)
  /\ part = << >> => s = rest
  /\ part # << >> => \E b \in Seq(C) : /\ Headed(b, m, rest)
                                       /\ Joins(s, PartOf(part), b)

\* What a part with a mark behind it is.
LEMMA EndedIs ==
  ASSUME NEW C, NEW m \in C, NEW part, PartOf(part) \in Seq(C),
         NEW rest \in Seq(C)
  PROVE  IsEnded(C, EndedBy(part, m, rest), m, part, rest)
<1>1. CASE part = << >>
  BY <1>1 DEF EndedBy, IsEnded
<1>2. CASE part # << >>
  <2> DEFINE b == <<m>> \o rest
             a == PartOf(part)
  <2>1. b \in Seq(C)
    OBVIOUS
  <2>2. EndedBy(part, m, rest) = a \o b
    <3>1. part[1] = a
      BY <1>2, Zenon DEF PartOf
    <3> QED
      BY <1>2, <3>1, Zenon DEF EndedBy
  <2>3. Headed(b, m, rest) /\ Joins(EndedBy(part, m, rest), a, b)
    BY <2>2, Zenon DEF Headed, Joins
  <2> HIDE DEF a, b
  <2>4. a \o b \in Seq(C)
    <3>1. a \in Seq(C)
      BY DEF a
    <3> QED
      BY <2>1, <3>1
  <2> QED
    BY <1>2, <2>1, <2>2, <2>3, <2>4, Zenon DEF IsEnded, a
<1> QED
  BY <1>1, <1>2

\* Path, query and fragment are told apart.
LEMMA ResourceSplit ==
  ASSUME NEW u, InParts(u)
  PROVE  /\ Resource(u) \in Seq(UrlChar)
         /\ Resource(u) # << >> => Resource(u)[1] \in {"/", "?", "#"}
         /\ u.slashes = << >> /\ Len(Resource(u)) > 1 /\ Resource(u)[1] = "/"
              => Resource(u)[2] # "/"
         /\ SplitTail(Resource(u))
              = TailOf(u.path, PartOf(u.query), PartOf(u.fragment))
<1> DEFINE a == u.path
           d == PartOf(u.query)
           f == PartOf(u.fragment)
           g == LedBy("#", u.fragment, << >>)
           b == LedBy("?", u.query, g)
           s == Resource(u)
           C == UrlChar
<1>1. a \in Seq(C \ {"?", "#"}) /\ a \in Seq(C) /\ (a # << >> => a[1] = "/")
  BY DEF InParts
<1>2. Optional(u.query, {"#"}) /\ Optional(u.fragment, {})
  BY DEF InParts
<1>3. Delimiters \subseteq C /\ "?" \in C /\ "#" \in C
  BY DelimitersAre DEF Delimiters
<1>4. d \in Seq(C \ {"#"}) /\ d \in Seq(C) /\ f \in Seq(C)
  BY <1>2, PartIs
<1>5. << >> \in Seq(C) /\ d \o << >> = d /\ f \o << >> = f /\ a \o << >> = a
  <2> HIDE DEF a, d, f, C
  <2> QED
    BY <1>1, <1>4
<1>6. /\ g \in Seq(C) /\ (u.fragment = << >> => g = << >>)
      /\ u.fragment # << >> => Headed(g, "#", f) /\ g # << >> /\ g[1] = "#"
  <2> HIDE DEF d, a, b, s
  <2>1. /\ g \in Seq(UrlChar) /\ (u.fragment = << >> => g = << >>)
        /\ u.fragment # << >> =>
             /\ Headed(g, "#", PartOf(u.fragment) \o << >>)
             /\ g # << >> /\ g[1] = "#"
    <3>1. PartOf(u.fragment) \in Seq(UrlChar) /\ << >> \in Seq(UrlChar)
          /\ "#" \in UrlChar
      BY <1>3, <1>4, <1>5
    <3>2. IsLed(UrlChar, g, "#", u.fragment, << >>)
      BY <3>1, LedIs
    <3> QED
      BY <3>2, Zenon DEF IsLed
  <2>2. PartOf(u.fragment) \o << >> = f
    BY <1>5, Zenon
  <2> HIDE DEF g, f
  <2> QED
    BY <2>1, <2>2, Zenon
<1>7. /\ b \in Seq(C) /\ (u.query = << >> => b = g)
      /\ u.query # << >> => Headed(b, "?", d \o g) /\ b # << >> /\ b[1] = "?"
  <2>1. IsLed(UrlChar, b, "?", u.query, g)
    <3> HIDE DEF g, f, a, s
    <3> QED
      BY <1>3, <1>4, <1>6, LedIs
  <2> HIDE DEF b, g, a, s
  <2> QED
    BY <2>1, Zenon DEF IsLed
<1>8. Joins(s, a, b)
  BY Zenon DEF Joins, Resource
<1> HIDE DEF a, d, f, g, b, s, C
<1>9. s \in Seq(C)
  BY <1>1, <1>7, <1>8 DEF Joins
<1>10. b # << >> => b[1] \in {"?", "#"}
  BY <1>6, <1>7, Zenon
<1>12. s # << >> => s[1] \in {"/", "?", "#"}
  <2>1. CASE a = << >>
    <3>1. s = b
      BY <1>7, <1>8, <2>1 DEF Joins
    <3> QED
      BY <1>10, <3>1
  <2>2. CASE a # << >>
    <3>1. s[1] = a[1]
      BY <1>1, <1>7, <1>8, <2>2 DEF Joins
    <3> QED
      BY <1>1, <2>2, <3>1
  <2> QED
    BY <2>1, <2>2
<1>13. ASSUME u.slashes = << >>, Len(s) > 1, s[1] = "/"
       PROVE  s[2] # "/"
  <2>1. Len(a) > 1 => a[2] # "/"
    BY <1>13 DEF InParts, a
  <2>2. CASE Len(a) > 1
    <3>1. s[2] = a[2]
      BY <1>1, <1>7, <1>8, <2>2 DEF Joins
    <3> QED
      BY <2>1, <2>2, <3>1
  <2>3. CASE Len(a) = 1
    <3>1. IsConcat(C, a, b, s)
      BY <1>1, <1>7, <1>8, ConcatFacts, Zenon DEF Joins
    <3>2. Len(s) = 1 + Len(b) /\ \A i \in 1 .. Len(b) : s[1 + i] = b[i]
      BY <2>3, <3>1, Zenon DEF IsConcat
    <3>3. Len(b) \in Nat /\ 1 \in 1 .. Len(b) /\ b # << >>
      BY <1>7, <1>13, <3>2
    <3>4. s[2] = b[1] /\ b # << >>
      BY <3>2, <3>3
    <3> QED
      BY <1>10, <3>4
  <2>4. CASE a = << >>
    <3>1. s = b
      BY <1>7, <1>8, <2>4 DEF Joins
    <3> QED
      BY <1>10, <1>13, <3>1
  <2>5. Len(a) > 1 \/ Len(a) = 1 \/ a = << >>
    <3>1. a \in Seq(C)
      BY <1>1, Zenon
    <3>2. Len(a) \in Nat /\ (Len(a) = 0 => a = << >>)
      BY <3>1, SMT
    <3>3. \A k \in Nat : k > 1 \/ k = 1 \/ k = 0
      OBVIOUS
    <3> QED
      BY <3>2, <3>3, Zenon
  <2> QED
    BY <2>2, <2>3, <2>4, <2>5
<1>11. SplitTail(s) = TailOf(a, d, f)
  <2>1. CASE u.query = << >> /\ u.fragment = << >>
    <3>1. s = a /\ d = << >> /\ f = << >>
      BY <1>5, <1>6, <1>7, <1>8, <2>1, Zenon DEF Joins, d, f, PartOf
    <3> QED
      BY <1>1, <3>1, TailPath, Zenon
  <2>2. CASE u.query = << >> /\ u.fragment # << >>
    <3>1. b = g /\ Headed(b, "#", f) /\ d = << >>
      BY <1>6, <1>7, <2>2, Zenon DEF d, PartOf
    <3> QED
      BY <1>1, <1>3, <1>4, <1>8, <3>1, TailFragment, Zenon
  <2>3. CASE u.query # << >> /\ u.fragment = << >>
    <3>1. f = << >> /\ Headed(b, "?", d)
      BY <1>5, <1>6, <1>7, <2>3, Zenon DEF f, PartOf
    <3> QED
      BY <1>1, <1>3, <1>4, <1>8, <3>1, TailQuery, Zenon
  <2>4. CASE u.query # << >> /\ u.fragment # << >>
    <3> DEFINE e == d \o g
    <3>1. Headed(b, "?", e) /\ Headed(g, "#", f)
      BY <1>6, <1>7, <2>4, Zenon
    <3>2. Joins(e, d, g)
      BY Zenon DEF Joins
    <3> HIDE DEF e
    <3> QED
      BY <1>1, <1>3, <1>4, <1>8, <3>1, <3>2, TailBoth, Zenon
  <2> QED
    BY <2>1, <2>2, <2>3, <2>4, Zenon
<1> QED
  BY <1>9, <1>11, <1>12, <1>13, Zenon DEF a, d, f, s, C

\* User, host and port are told apart.
LEMMA AuthoritySplit ==
  ASSUME NEW u, InParts(u)
  PROVE  /\ Authority(u) \in Seq(UrlChar \ {"/", "?", "#"})
         /\ SplitUser(Authority(u)).user = PartOf(u.user)
         /\ SplitPort(SplitUser(Authority(u)).address)
              = [host |-> u.host, found |-> u.port # << >>,
                 port |-> PartOf(u.port)]
<1> DEFINE C == UrlChar
           D == UrlChar \ {"/", "?", "#"}
           E == UrlChar \ {"@", "/", "?", "#"}
           h == u.host
           n == PartOf(u.user)
           p == PartOf(u.port)
           b == LedBy(":", u.port, << >>)
           x == h \o b
           s == Authority(u)
<1>1. Delimiters \subseteq C /\ "@" \in D /\ ":" \in E
  BY DelimitersAre DEF Delimiters
<1>2. h \in Seq(UrlChar \ {"@", ":", "/", "?", "#"})
  BY DEF InParts
<1>3. h \in Seq(E) /\ h \in Seq(C \ {":"})
  <2>1. UrlChar \ {"@", ":", "/", "?", "#"} \subseteq E \cap (C \ {":"})
    OBVIOUS
  <2> QED
    BY <1>2, <2>1
<1>4. n \in Seq(E) /\ p \in Seq(E)
  BY PartIs DEF InParts
<1>5. E \subseteq D /\ D \subseteq C /\ E \subseteq C \ {"@"}
  OBVIOUS
<1> HIDE DEF C, D, E
<1>6. /\ n \in Seq(D) /\ n \in Seq(C \ {"@"}) /\ p \in Seq(C)
      /\ << >> \in Seq(E) /\ p \o << >> = p
  BY <1>4, <1>5
<1>7. IsLed(E, b, ":", u.port, << >>)
  BY <1>1, <1>4, <1>6, LedIs
<1>8. b \in Seq(E) /\ x \in Seq(E) /\ x \in Seq(D) /\ x \in Seq(C)
      /\ x \in Seq(C \ {"@"})
  <2> HIDE DEF b, h
  <2>1. b \in Seq(E)
    BY <1>7 DEF IsLed
  <2>2. x \in Seq(E)
    BY <1>3, <2>1
  <2> HIDE DEF x
  <2> QED
    BY <1>5, <2>1, <2>2
<1>9. IsEnded(D, s, "@", u.user, x)
  BY <1>1, <1>6, <1>8, EndedIs, Zenon DEF Authority
<1>10. SplitPort(x) = [host |-> h, found |-> u.port # << >>, port |-> p]
  <2>1. CASE u.port = << >>
    <3>1. b = << >> /\ p = << >>
      BY <1>7, <2>1, Zenon DEF IsLed, PartOf
    <3>2. x = h
      <4> HIDE DEF b, h
      <4> QED
        BY <1>3, <3>1
    <3>3. SplitPort(x) = [host |-> h, found |-> FALSE, port |-> << >>]
      BY <1>3, <3>2, PortNone, Zenon
    <3> QED
      BY <2>1, <3>1, <3>3, Zenon
  <2>2. CASE u.port # << >>
    <3>1. Headed(b, ":", p) /\ Joins(x, h, b)
      BY <1>6, <1>7, <2>2, Zenon DEF IsLed, Joins
    <3>2. SplitPort(x) = [host |-> h, found |-> TRUE, port |-> p]
      BY <1>1, <1>3, <1>6, <3>1, PortFound, Zenon
    <3> QED
      BY <2>2, <3>2, Zenon
  <2> QED
    BY <2>1, <2>2, Zenon
<1>11. SplitUser(s) = [user |-> n, address |-> x]
  <2>1. CASE u.user = << >>
    <3>1. s = x /\ n = << >>
      BY <1>9, <2>1, Zenon DEF IsEnded, PartOf
    <3> QED
      BY <1>8, <3>1, UserNone, Zenon
  <2>2. CASE u.user # << >>
    <3>1. PICK c : Headed(c, "@", x) /\ Joins(s, n, c)
      BY <1>9, <2>2, Zenon DEF IsEnded
    <3> QED
      BY <1>1, <1>6, <1>8, <3>1, UserFound, Zenon
  <2> QED
    BY <2>1, <2>2, Zenon
<1>12. s \in Seq(D)
  BY <1>9, Zenon DEF IsEnded
<1> HIDE DEF x, h, n, p
<1>13. SplitUser(s).user = n /\ SplitUser(s).address = x
  BY <1>11
<1> QED
  BY <1>10, <1>12, <1>13, Zenon DEF D, h, n, p

\* With two slashes, scheme, authority and the rest are told apart.
LEMMA TextSplit ==
  ASSUME NEW u, InParts(u), u.slashes # << >>
  PROVE  LET s == SplitScheme(Text(u)) IN
         /\ s.found <=> u.scheme # << >>
         /\ s.scheme = PartOf(u.scheme)
         /\ SplitAuthority(s.rest)
              = [authority |-> Authority(u), tail |-> Resource(u)]
<1> DEFINE C == UrlChar
           a == Authority(u)
           b == Resource(u)
           x == a \o b
           r == u.slashes \o x
           n == PartOf(u.scheme)
           t == Text(u)
           s == SplitScheme(t)
<1>1. Delimiters \subseteq C /\ ":" \in C /\ "/" \in C
  BY DelimitersAre DEF Delimiters
<1>2. /\ a \in Seq(C \ {"/", "?", "#"})
      /\ b \in Seq(C) /\ (b # << >> => b[1] \in {"/", "?", "#"})
  BY AuthoritySplit, ResourceSplit, Zenon
<1>3. n \in Seq(C \ {":", "/", "?", "#"}) /\ n \in Seq(C)
  BY PartIs DEF InParts
<1>4. u.slashes = <<"/", "/">>
  BY DEF InParts
<1>5. t = EndedBy(u.scheme, ":", r)
  BY Zenon DEF Text
<1>6. Joins(x, a, b)
  BY Zenon DEF Joins
<1> HIDE DEF C, a, b, n, t
<1>7. x \in Seq(C)
  BY <1>2
<1> HIDE DEF x
<1>8. Slashed(r, x)
  BY <1>4, Zenon DEF Slashed
<1> HIDE DEF r
<1>9. r \in Seq(C) /\ Len(r) > 1 /\ r[1] = "/"
  <2>1. r \in Seq(C \cup {"/"}) /\ Len(r) > 1 /\ r[1] = "/"
    BY <1>7, <1>8, BehindSlashes
  <2>2. C \cup {"/"} = C
    BY <1>1
  <2> QED
    BY <2>1, <2>2
<1>10. SplitAuthority(r) = [authority |-> a, tail |-> b]
  BY <1>2, <1>6, <1>8, AuthorityFound, Zenon
<1>11. IsEnded(C, t, ":", u.scheme, r)
  BY <1>1, <1>3, <1>5, <1>9, EndedIs, Zenon DEF n
<1>12. s = [found |-> u.scheme # << >>, scheme |-> n, rest |-> r]
  <2>1. CASE u.scheme = << >>
    <3>1. t = r /\ n = << >>
      BY <1>11, <2>1, Zenon DEF IsEnded, PartOf, n
    <3>2. r # << >>
      BY <1>9
    <3>3. SplitScheme(r) = [found |-> FALSE, scheme |-> << >>, rest |-> r]
      BY <1>9, <3>2, SchemeNone, Zenon
    <3> QED
      BY <2>1, <3>1, <3>3, Zenon
  <2>2. CASE u.scheme # << >>
    <3>1. PICK c : Headed(c, ":", r) /\ Joins(t, n, c)
      BY <1>11, <2>2, Zenon DEF IsEnded, n
    <3>2. SplitScheme(t) = [found |-> TRUE, scheme |-> n, rest |-> r]
      BY <1>1, <1>3, <1>9, <3>1, SchemeFound, Zenon
    <3> QED
      BY <2>2, <3>2, Zenon
  <2> QED
    BY <2>1, <2>2, Zenon
<1> HIDE DEF s
<1>13. s.found = (u.scheme # << >>) /\ s.scheme = n /\ s.rest = r
  BY <1>12
<1> QED
  BY <1>10, <1>13, Zenon DEF s, t, n, a, b

\* Without them there is no authority, whatever is in front of the path.
LEMMA NoSlashes ==
  ASSUME NEW u, InParts(u), u.slashes = << >>
  PROVE  SplitAuthority(SplitScheme(Text(u)).rest).authority = << >>
<1> DEFINE C == UrlChar
           D == UrlChar \ {"/", "?", "#"}
           a == Authority(u)
           b == Resource(u)
           n == PartOf(u.scheme)
           m == <<":">>
           c == EndedBy(u.scheme, ":", a)
<1>1. a \in Seq(D) /\ b \in Seq(C) /\ (b # << >> => b[1] \in {"/", "?", "#"})
      /\ (Len(b) > 1 /\ b[1] = "/" => b[2] # "/")
  BY AuthoritySplit, ResourceSplit
<1>2. n \in Seq(D) /\ m \in Seq(D) /\ ":" \in D
  <2>1. n \in Seq(UrlChar \ {":", "/", "?", "#"})
    BY PartIs DEF InParts
  <2>2. ":" \in D
    BY DelimitersAre DEF Delimiters
  <2> QED
    BY <2>1, <2>2
<1>3. D \subseteq C
  OBVIOUS
<1> HIDE DEF C, D, a, b, n
<1>4. << >> \o (a \o b) = a \o b /\ (m \o a) \o b = m \o (a \o b)
      /\ m \o a \in Seq(D) /\ a \in Seq(C) /\ m \o a \in Seq(C)
  <2> HIDE DEF m
  <2>1. Seq(D) \subseteq Seq(C)
    BY <1>3
  <2>2. a \in Seq(C) /\ m \in Seq(C) /\ m \o a \in Seq(D)
    BY <1>1, <1>2, <2>1
  <2>3. (m \o a) \o b = m \o (a \o b)
    BY <1>1, <2>2
  <2>4. << >> \o (a \o b) = a \o b
    BY <1>1, <2>2
  <2> QED
    BY <2>1, <2>2, <2>3, <2>4
<1> HIDE DEF m
<1>5. (n \o (m \o a)) \o b = n \o ((m \o a) \o b) /\ n \o (m \o a) \in Seq(D)
  <2> DEFINE k == m \o a
  <2>1. k \in Seq(D) /\ k \in Seq(C) /\ n \in Seq(C)
    BY <1>2, <1>3, <1>4
  <2> HIDE DEF k
  <2>2. (n \o k) \o b = n \o (k \o b) /\ n \o k \in Seq(D)
    BY <1>1, <1>2, <2>1
  <2> QED
    BY <2>2 DEF k
<1>6. c \in Seq(D) /\ Text(u) = c \o b
  <2>1. Text(u) = EndedBy(u.scheme, ":", << >> \o (a \o b))
    BY Zenon DEF Text, a, b
  <2>2. CASE u.scheme = << >>
    BY <1>1, <1>4, <2>1, <2>2, Zenon DEF EndedBy
  <2>3. CASE u.scheme # << >>
    <3>1. u.scheme[1] = n
      BY <2>3, Zenon DEF PartOf, n
    <3>2. Text(u) = n \o (m \o (a \o b)) /\ c = n \o (m \o a)
      BY <1>4, <2>1, <2>3, <3>1, Zenon DEF EndedBy, m
    <3> QED
      BY <1>4, <1>5, <3>2, Zenon
  <2> QED
    BY <2>2, <2>3, Zenon
<1> HIDE DEF c
<1> QED
  BY <1>1, <1>6, NoAuthority, Zenon DEF D, C

----------------------------------------------------------------------------
(* The checks of the parts.                                                *)

\* A scheme is taken for one of TLS whatever its case.
LEMMA LowerTls ==
  ASSUME NEW C, NEW s \in Seq(C)
  PROVE  to_lower(s) \in {<<"https">>, <<"wss">>}
           <=> s \in {<<"https">>, <<"wss">>, <<"WSS">>}
<1> DEFINE t == to_lower(s)
<1>1. t = [i \in 1 .. Len(s) |-> IF s[i] \in {"WSS", "HOST"}
                                 THEN Capital[s[i]] ELSE s[i]]
  BY DEF to_lower, Capital
<1>2. Capital["WSS"] = "wss" /\ Capital["HOST"] = "host"
  BY DEF Capital
<1>3. t \in {<<"https">>, <<"wss">>}
        => s \in {<<"https">>, <<"wss">>, <<"WSS">>}
  <2> SUFFICES ASSUME NEW w \in {"https", "wss"}, t = <<w>>
               PROVE  s \in {<<"https">>, <<"wss">>, <<"WSS">>}
    OBVIOUS
  <2> HIDE DEF t
  <2>1. /\ DOMAIN t = 1 .. Len(s) /\ DOMAIN t = 1 .. 1
        /\ t[1] = w /\ Len(s) \in Nat
    BY <1>1
  <2>2. Len(s) = 1
    BY <2>1
  <2>3. s = <<s[1]>>
    BY <2>2
  <2>4. w = IF s[1] \in {"WSS", "HOST"} THEN Capital[s[1]] ELSE s[1]
    BY <1>1, <2>1, <2>2
  <2>5. s[1] \in {"https", "wss", "WSS"}
    BY <1>2, <2>4
  <2> QED
    BY <2>3, <2>5
<1>4. ASSUME s \in {<<"https">>, <<"wss">>, <<"WSS">>}
      PROVE  t \in {<<"https">>, <<"wss">>}
  <2>1. PICK w \in {"https", "wss", "WSS"} : s = <<w>>
    BY <1>4
  <2>2. Len(s) = 1 /\ s[1] = w
    BY <2>1
  <2> DEFINE y == IF w \in {"WSS", "HOST"} THEN Capital[w] ELSE w
  <2>3. t = [i \in 1 .. 1 |-> y]
    <3> HIDE DEF t
    <3>1. t = [i \in 1 .. 1 |-> IF s[i] \in {"WSS", "HOST"}
                                 THEN Capital[s[i]] ELSE s[i]]
      BY <1>1, <2>2
    <3>2. \A i \in 1 .. 1 : s[i] = w
      BY <2>2
    <3> QED
      BY <3>1, <3>2
  <2>4. y \in {"https", "wss"}
    BY <1>2
  <2> HIDE DEF t, y
  <2>5. t = <<y>>
    BY <2>3
  <2> QED
    BY <2>4, <2>5
<1> QED
  BY <1>3, <1>4

\* to_lower keeps every character.
LEMMA LowerEmpty ==
  ASSUME NEW C, NEW s \in Seq(C)
  PROVE  to_lower(s) = << >> <=> s = << >>
<1>1. DOMAIN to_lower(s) = 1 .. Len(s) /\ Len(s) \in Nat
  BY DEF to_lower
<1>2. to_lower(s) = [i \in 1 .. Len(s) |-> to_lower(s)[i]]
  BY <1>1 DEF to_lower
<1> QED
  BY <1>1, <1>2

\* A sequence of one element.
LEMMA OneElement ==
  ASSUME NEW S, NEW p \in Seq(S), Len(p) <= 1, p # << >>
  PROVE  Len(p) = 1 /\ DOMAIN p = {1} /\ p = <<p[1]>>
<1>1. Len(p) \in Nat /\ (Len(p) = 0 => p = << >>)
  OBVIOUS
<1>2. \A k \in Nat : k <= 1 => k = 0 \/ k = 1
  OBVIOUS
<1>3. Len(p) = 1
  BY <1>1, <1>2, Zenon
<1>4. DOMAIN p = 1 .. 1
  BY <1>3
<1>5. p = [i \in 1 .. 1 |-> p[i]]
  BY <1>3
<1>6. <<p[1]>> = [i \in 1 .. 1 |-> p[i]]
  OBVIOUS
<1> QED
  BY <1>3, <1>4, <1>5, <1>6

\* The scheme decides about TLS.
LEMMA TlsScheme ==
  ASSUME NEW u, InParts(u)
  PROVE  to_lower(PartOf(u.scheme)) \in {<<"https">>, <<"wss">>} <=> AsksTls(u)
<1> DEFINE n == PartOf(u.scheme)
<1>1. n \in Seq(UrlChar)
  BY PartIs DEF InParts
<1>2. /\ u.scheme \in Seq(Seq(UrlChar \ {":", "/", "?", "#"}))
      /\ Len(u.scheme) <= 1
  BY DEF InParts, Optional
<1>3. u.scheme = << >> \/ u.scheme = <<n>>
  <2>1. CASE u.scheme # << >>
    <3> DEFINE p == u.scheme
               S == Seq(UrlChar \ {":", "/", "?", "#"})
    <3>1. p \in Seq(S) /\ Len(p) <= 1 /\ p # << >>
      BY <1>2, <2>1
    <3>2. p[1] = n
      BY <2>1, Zenon DEF PartOf
    <3> HIDE DEF p, S, n
    <3>3. p = <<p[1]>>
      BY <3>1, OneElement, Zenon
    <3>4. p = <<n>>
      BY <3>2, <3>3, Zenon
    <3> QED
      BY <3>4, Zenon DEF p
  <2> QED
    BY <2>1
<1>4. u.scheme = << >> => n = << >>
  BY DEF PartOf
<1> HIDE DEF n
<1>5. AsksTls(u) <=> n \in {<<"https">>, <<"wss">>, <<"WSS">>}
  <2>1. CASE u.scheme = << >>
    BY <1>4, <2>1 DEF AsksTls
  <2>2. CASE u.scheme = <<n>>
    <3>1. AsksTls(u)
            <=> <<n>> \in {<<<<"https">>>>, <<<<"wss">>>>, <<<<"WSS">>>>}
      BY <2>2, Zenon DEF AsksTls
    <3>2. \A w : <<n>> = <<w>> <=> n = w
      OBVIOUS
    <3> QED
      BY <3>1, <3>2, Zenon
  <2> QED
    BY <1>3, <2>1, <2>2
<1> QED
  BY <1>1, <1>5, LowerTls, Zenon DEF n

\* The classes of characters, without the escape that cannot be decoded.
LEMMA CleanChars ==
  ASSUME NEW C, NEW s \in Seq(C), NEW mask
  PROVE  is_chars(s, mask) /\ decodable(s) <=> is_chars(s, mask \ {"%bad"})
<1>1. decodable(s) <=> \A i \in DOMAIN s : s[i] # "%bad"
  BY DEF decodable, ToSet
<1> QED
  BY <1>1 DEF is_chars

\* An optional part fits when it is missing or consists of such characters.
LEMMA PartFits ==
  ASSUME NEW ends, NEW part, Optional(part, ends), NEW mask
  PROVE  /\ is_chars(PartOf(part), mask)
              <=> \A x \in ToSet(part) : is_chars(x, mask)
         /\ is_chars(PartOf(part), mask)
              <=> (part # << >> => is_chars(part[1], mask))
<1> DEFINE n == PartOf(part)
<1>1. part \in Seq(Seq(UrlChar \ ends)) /\ Len(part) <= 1
  BY DEF Optional
<1>2. CASE part = << >>
  <2>1. ToSet(part) = {} /\ n = << >>
    BY <1>2 DEF ToSet, PartOf
  <2>2. is_chars(n, mask)
    BY <2>1 DEF is_chars
  <2> QED
    BY <1>2, <2>1, <2>2
<1>3. CASE part # << >>
  <2> DEFINE S == Seq(UrlChar \ ends)
  <2>1. Len(part) = 1 /\ DOMAIN part = {1}
    <3>1. part \in Seq(S) /\ Len(part) <= 1 /\ part # << >>
      BY <1>1, <1>3
    <3> HIDE DEF S
    <3> QED
      BY <3>1, OneElement, Zenon
  <2>2. ToSet(part) = {part[1]} /\ n = part[1]
    BY <1>3, <2>1 DEF ToSet, PartOf
  <2> QED
    BY <1>3, <2>2
<1> QED
  BY <1>2, <1>3

\* The limit, and the checks that parse_url makes of the parts.
Short(u) == Len(Text(u)) <= MaxUrl

Legal(u) ==
  /\ Short(u)
  /\ u.scheme # << >> => is_scheme(PartOf(u.scheme))
  /\ is_chars(PartOf(u.user), UserChar)
  /\ is_chars(u.host, Plain)
  /\ u.port # << >> => is_port(PartOf(u.port))
  /\ is_chars(u.path, PathChar \ {"%bad"})
  /\ is_chars(PartOf(u.query), QueryChar \ {"%bad"})
  /\ is_chars(PartOf(u.fragment), QueryChar \ {"%bad"})

\* parse_url takes no part for another.
LEMMA Parsed ==
  ASSUME NEW u, InParts(u), u.slashes # << >>
  PROVE  /\ parse_url(Text(u)).valid <=> Legal(u)
         /\ parse_url(Text(u)).scheme = to_lower(PartOf(u.scheme))
         /\ parse_url(Text(u)).host = to_lower(u.host)
         /\ parse_url(Text(u)).port = PartOf(u.port)
         /\ parse_url(Text(u)).path = normalize_path(decode(u.path))
<1> DEFINE s == SplitScheme(Text(u))
           a == SplitAuthority(s.rest)
           v == SplitUser(a.authority)
           p == SplitPort(v.address)
           t == SplitTail(a.tail)
           path == normalize_path(decode(t.path))
           ok == /\ Len(Text(u)) <= MaxUrl
                 /\ s.found => is_scheme(s.scheme)
                 /\ is_chars(v.user, UserChar)
                 /\ is_chars(p.host, Plain)
                 /\ p.found => is_port(p.port)
                 /\ is_chars(t.path, PathChar) /\ decodable(t.path)
                 /\ is_chars(t.query, QueryChar) /\ decodable(t.query)
                 /\ is_chars(t.fragment, QueryChar) /\ decodable(t.fragment)
           got == parse_url(Text(u))
<1>1. (s.found <=> u.scheme # << >>) /\ s.scheme = PartOf(u.scheme)
      /\ a = [authority |-> Authority(u), tail |-> Resource(u)]
  BY TextSplit, Zenon
<1>2. got = [valid |-> ok, scheme |-> to_lower(s.scheme),
             host |-> to_lower(p.host), port |-> p.port, path |-> path]
  BY Zenon DEF parse_url
<1> HIDE DEF s, path
<1>3. a.authority = Authority(u) /\ a.tail = Resource(u)
  <2> HIDE DEF a
  <2> QED
    BY <1>1
<1> HIDE DEF a
<1>4. /\ v = SplitUser(Authority(u))
      /\ p = SplitPort(SplitUser(Authority(u)).address)
      /\ t = SplitTail(Resource(u))
  BY <1>3, Zenon
<1>5. /\ v.user = PartOf(u.user)
      /\ p = [host |-> u.host, found |-> u.port # << >>,
              port |-> PartOf(u.port)]
      /\ t = TailOf(u.path, PartOf(u.query), PartOf(u.fragment))
  <2> HIDE DEF p, v, t
  <2> QED
    BY <1>4, AuthoritySplit, ResourceSplit, Zenon
<1> HIDE DEF v, p, t
<1>6. /\ p.host = u.host /\ (p.found <=> u.port # << >>)
      /\ p.port = PartOf(u.port)
      /\ t.path = u.path /\ t.query = PartOf(u.query)
      /\ t.fragment = PartOf(u.fragment)
  BY <1>5 DEF TailOf
<1>7. /\ is_chars(t.path, PathChar) /\ decodable(t.path)
           <=> is_chars(u.path, PathChar \ {"%bad"})
      /\ is_chars(t.query, QueryChar) /\ decodable(t.query)
           <=> is_chars(PartOf(u.query), QueryChar \ {"%bad"})
      /\ is_chars(t.fragment, QueryChar) /\ decodable(t.fragment)
           <=> is_chars(PartOf(u.fragment), QueryChar \ {"%bad"})
  <2>1. u.path \in Seq(UrlChar \ {"?", "#"})
    BY DEF InParts
  <2>2. PartOf(u.query) \in Seq(UrlChar) /\ PartOf(u.fragment) \in Seq(UrlChar)
    BY PartIs DEF InParts
  <2>3. is_chars(u.path, PathChar) /\ decodable(u.path)
          <=> is_chars(u.path, PathChar \ {"%bad"})
    BY <2>1, CleanChars
  <2>4. is_chars(PartOf(u.query), QueryChar) /\ decodable(PartOf(u.query))
          <=> is_chars(PartOf(u.query), QueryChar \ {"%bad"})
    BY <2>2, CleanChars
  <2>5. (/\ is_chars(PartOf(u.fragment), QueryChar)
         /\ decodable(PartOf(u.fragment)))
          <=> is_chars(PartOf(u.fragment), QueryChar \ {"%bad"})
    BY <2>2, CleanChars
  <2> QED
    BY <1>6, <2>3, <2>4, <2>5, Zenon
<1>8. ok <=> Legal(u)
  <2>1. (s.found => is_scheme(s.scheme)) <=>
          (u.scheme # << >> => is_scheme(PartOf(u.scheme)))
    BY <1>1, Zenon
  <2>2. is_chars(v.user, UserChar) <=> is_chars(PartOf(u.user), UserChar)
    BY <1>5, Zenon
  <2>3. is_chars(p.host, Plain) <=> is_chars(u.host, Plain)
    BY <1>6, Zenon
  <2>4. (p.found => is_port(p.port))
          <=> (u.port # << >> => is_port(PartOf(u.port)))
    BY <1>6, Zenon
  <2> QED
    BY <1>7, <2>1, <2>2, <2>3, <2>4, SMT DEF Legal, Short
<1> HIDE DEF ok, got
<1>9. /\ got.valid = ok /\ got.scheme = to_lower(s.scheme)
      /\ got.host = to_lower(p.host) /\ got.port = p.port
      /\ got.path = path
  BY <1>2
<1>10. path = normalize_path(decode(u.path))
  BY <1>6, Zenon DEF path
<1> QED
  BY <1>1, <1>6, <1>8, <1>9, <1>10, Zenon DEF got

\* Without an authority there is no host.
LEMMA NoHost ==
  ASSUME NEW u, InParts(u), u.slashes = << >>
  PROVE  parse_url(Text(u)).host = << >> /\ parse_url(Text(u)).port = << >>
<1> DEFINE a == SplitAuthority(SplitScheme(Text(u)).rest)
           v == SplitUser(a.authority)
           p == SplitPort(v.address)
           got == parse_url(Text(u))
           C == UrlChar
<1>1. a.authority = << >>
  BY NoSlashes, Zenon
<1>2. got.host = to_lower(p.host) /\ got.port = p.port
  BY DEF parse_url
<1> HIDE DEF a, got
<1>3. << >> \in Seq(C \ {"@"}) /\ << >> \in Seq(C \ {":"}) /\ << >> \in Seq(C)
  OBVIOUS
<1>4. v = [user |-> << >>, address |-> << >>]
  BY <1>1, <1>3, UserNone, Zenon
<1>5. v.address = << >>
  <2> HIDE DEF v
  <2> QED
    BY <1>4
<1> HIDE DEF v
<1>6. p = [host |-> << >>, found |-> FALSE, port |-> << >>]
  BY <1>3, <1>5, PortNone, Zenon
<1> HIDE DEF p
<1>7. p.host = << >> /\ p.port = << >>
  BY <1>6
<1>8. to_lower(<< >>) = << >>
  BY <1>3, LowerEmpty, Zenon
<1> QED
  BY <1>2, <1>7, <1>8, Zenon DEF got

\* The URLs of which the code makes a socket; their schemes are not only those
\* of the documentation.
Accepted(u) ==
  /\ u.scheme # << >> => is_scheme(u.scheme[1])
  /\ RestWellFormed(u)

\* The same in terms of Legal.
LEMMA AcceptedIs ==
  ASSUME NEW u, InParts(u)
  PROVE  Accepted(u) <=> /\ u.slashes # << >> /\ u.host # << >> /\ Legal(u)
                         /\ u.port # << >> => IsPort(PartOf(u.port))
<1>1. /\ u.scheme # << >> => u.scheme[1] = PartOf(u.scheme)
      /\ u.port # << >> => u.port[1] = PartOf(u.port)
  BY Zenon DEF PartOf
<1>2. is_chars(PartOf(u.user), UserChar)
        <=> (u.user # << >> => is_chars(u.user[1], UserChar))
  BY PartFits, Zenon DEF InParts
<1>3. is_chars(PartOf(u.query), QueryChar \ {"%bad"})
        <=> \A x \in ToSet(u.query) : is_chars(x, QueryChar \ {"%bad"})
  BY PartFits, Zenon DEF InParts
<1>4. is_chars(PartOf(u.fragment), QueryChar \ {"%bad"})
        <=> \A x \in ToSet(u.fragment) : is_chars(x, QueryChar \ {"%bad"})
  BY PartFits, Zenon DEF InParts
<1>5. Accepted(u) <=>
        /\ Short(u)
        /\ u.scheme # << >> => is_scheme(PartOf(u.scheme))
        /\ u.slashes # << >>
        /\ u.user # << >> => is_chars(u.user[1], UserChar)
        /\ u.host # << >> /\ is_chars(u.host, Plain)
        /\ u.port # << >> => IsPort(PartOf(u.port))
        /\ is_chars(u.path, PathChar \ {"%bad"})
        /\ \A x \in ToSet(u.query) \cup ToSet(u.fragment) :
             is_chars(x, QueryChar \ {"%bad"})
  BY <1>1, Zenon DEF Accepted, RestWellFormed, Short, IsPort
<1>6. (\A x \in ToSet(u.query) \cup ToSet(u.fragment) :
         is_chars(x, QueryChar \ {"%bad"}))
       <=> /\ \A x \in ToSet(u.query) : is_chars(x, QueryChar \ {"%bad"})
           /\ \A x \in ToSet(u.fragment) : is_chars(x, QueryChar \ {"%bad"})
  OBVIOUS
<1>7. IsPort(PartOf(u.port)) => is_port(PartOf(u.port))
  <2>1. PartOf(u.port) \in Seq(UrlChar)
    BY PartIs DEF InParts
  <2> QED
    BY <2>1, PortAgrees, Zenon
<1> QED
  BY <1>2, <1>3, <1>4, <1>5, <1>6, <1>7, Zenon DEF Legal

----------------------------------------------------------------------------
(* The path.                                                               *)

\* What the empty text has and every further character keeps, all texts have.
LEMMA AppendInduct ==
  ASSUME NEW E, NEW G, << >> \in G,
         \A s \in Seq(E), e \in E : s \in G => Append(s, e) \in G
  PROVE  \A s \in Seq(E) : s \in G
<1> TAKE s \in Seq(E)
<1> DEFINE n == Len(s)
           H == {k \in 0 .. n : SubSeq(s, 1, k) \in G}
<1>1. n \in Nat /\ \A i \in 1 .. n : s[i] \in E
  OBVIOUS
<1>2. SubSeq(s, 1, 0) = << >> /\ SubSeq(s, 1, n) = s
  OBVIOUS
<1>3. 0 \in H
  <2>1. 0 \in 0 .. n
    BY <1>1
  <2>2. SubSeq(s, 1, 0) \in G
    BY <1>2, Zenon
  <2> QED
    BY <2>1, <2>2, Zenon
<1>4. \A k \in 1 .. n : k - 1 \in H => k \in H
  <2> SUFFICES ASSUME NEW k \in 1 .. n, k - 1 \in H PROVE k \in H
    OBVIOUS
  <2>1. k \in 0 .. n /\ k - 1 \in 0 .. n /\ s[k] \in E
    BY <1>1
  <2>2. /\ SubSeq(s, 1, k - 1) \in Seq(E)
        /\ SubSeq(s, 1, k) = Append(SubSeq(s, 1, k - 1), s[k])
    BY <2>1
  <2>3. SubSeq(s, 1, k - 1) \in G
    OBVIOUS
  <2>4. SubSeq(s, 1, k) \in G
    BY <2>1, <2>2, <2>3
  <2> QED
    BY <2>1, <2>4
<1> HIDE DEF H
<1>5. n \in H
  <2>1. \A k \in 0 .. n : k \in H
    BY <1>1, <1>3, <1>4, CountUp, Zenon
  <2> QED
    BY <1>1, <2>1
<1> QED
  BY <1>2, <1>5 DEF H

\* A sequence is the function that it is, and so is a longer one.
LEMMA SeqIs ==
  ASSUME NEW S, NEW X \in Seq(S)
  PROVE  /\ X = [i \in 1 .. Len(X) |-> X[i]] /\ DOMAIN X = 1 .. Len(X)
         /\ Len(X) \in Nat /\ \A i \in 1 .. Len(X) : X[i] \in S
  OBVIOUS

LEMMA AppendIs ==
  ASSUME NEW S, NEW X \in Seq(S), NEW z \in S
  PROVE  /\ Append(X, z) = [i \in 1 .. Len(X) + 1 |->
                               IF i = Len(X) + 1 THEN z ELSE X[i]]
         /\ Append(X, z) \in Seq(S) /\ Append(X, z) # << >>
         /\ Len(Append(X, z)) = Len(X) + 1 /\ Len(X) \in Nat
         /\ \A i \in 1 .. Len(X) : Append(X, z)[i] = X[i]
         /\ Append(X, z)[Len(X) + 1] = z
<1> DEFINE n == Len(X) + 1
           Y == Append(X, z)
<1>1. Y \in Seq(S) /\ Len(Y) = n /\ Len(X) \in Nat
  OBVIOUS
<1>2. Y[n] = z /\ \A i \in 1 .. Len(X) : Y[i] = X[i]
  OBVIOUS
<1> HIDE DEF Y
<1>3. Y = [i \in 1 .. n |-> Y[i]]
  BY <1>1, SeqIs
<1>4. \A i \in 1 .. n : Y[i] = IF i = n THEN z ELSE X[i]
  BY <1>1, <1>2
<1>5. Y # << >>
  BY <1>1
<1>6. Y = [i \in 1 .. n |-> IF i = n THEN z ELSE X[i]]
  BY <1>3, <1>4, Zenon
<1> QED
  BY <1>1, <1>2, <1>5, <1>6 DEF Y

\* The texts that a path is cut into, at least one.
Texts(C) == Seq(Seq(C \ {"/"})) \ {<< >>}

LEMMA AddCharIs ==
  ASSUME NEW C, NEW X \in Seq(Seq(C \ {"/"})), NEW b \in Seq(C \ {"/"}),
         NEW c \in C
  PROVE  /\ c # "/" => /\ AddChar(Append(X, b), c) = Append(X, Append(b, c))
                       /\ Append(b, c) \in Seq(C \ {"/"})
         /\ AddChar(Append(X, b), "/") = Append(Append(X, b), << >>)
<1> DEFINE D == C \ {"/"}
           Y == Append(X, b)
<1>1. AddChar(Append(X, b), "/") = Append(Append(X, b), << >>)
  BY DEF AddChar
<1>2. ASSUME c # "/"
      PROVE  AddChar(Append(X, b), c) = Append(X, Append(b, c))
  <2>1. c \in D
    BY <1>2
  <2>2. AddChar(Y, c) = [Y EXCEPT ![Len(Y)] = Append(Y[Len(Y)], c)]
    BY <1>2 DEF AddChar
  <2>3. Y \in Seq(Seq(D)) /\ Len(Y) = Len(X) + 1 /\ Y[Len(Y)] = b
        /\ Len(X) \in Nat
    OBVIOUS
  <2> HIDE DEF D
  <2>4. Append(b, c) \in Seq(D)
    BY <2>1 DEF D
  <2> DEFINE z == Append(b, c)
             S == Seq(D)
  <2>5. [Y EXCEPT ![Len(Y)] = z] = Append(X, z)
    <3>1. z \in S /\ X \in Seq(S) /\ b \in S
      BY <2>4 DEF D
    <3> HIDE DEF z, S
    <3>2. Y = [i \in 1 .. Len(X) + 1 |-> IF i = Len(X) + 1 THEN b ELSE X[i]]
      BY <3>1, AppendIs
    <3> HIDE DEF Y
    <3>3. [Y EXCEPT ![Len(Y)] = z]
            = [i \in 1 .. Len(X) + 1 |-> IF i = Len(X) + 1 THEN z ELSE X[i]]
      BY <2>3, <3>2
    <3> QED
      BY <3>1, <3>3, AppendIs
  <2> QED
    BY <2>2, <2>3, <2>5
<1>3. c # "/" => Append(b, c) \in Seq(C \ {"/"})
  <2>1. c # "/" => c \in D
    OBVIOUS
  <2> HIDE DEF D
  <2> QED
    BY <2>1 DEF D
<1> QED
  BY <1>1, <1>2, <1>3

LEMMA TextsSplit ==
  ASSUME NEW E, NEW Y \in Seq(E), Y # << >>
  PROVE  /\ Front(Y) \in Seq(E) /\ Last(Y) \in E
         /\ Y = Append(Front(Y), Last(Y))
<1>1. Len(Y) \in Nat \ {0}
  OBVIOUS
<1> QED
  BY <1>1 DEF Front, Last

LEMMA AddCharType ==
  ASSUME NEW C, NEW Y \in Texts(C), NEW c \in C
  PROVE  AddChar(Y, c) \in Texts(C)
<1> DEFINE S == Seq(C \ {"/"})
           X == Front(Y)
           b == Last(Y)
<1>1. X \in Seq(S) /\ b \in S /\ Y = Append(X, b)
  BY TextsSplit DEF Texts
<1> HIDE DEF X, b
<1>2. \A z \in S : Append(X, z) \in Seq(S) /\ Append(X, z) # << >>
  <2> HIDE DEF S
  <2> QED
    BY <1>1
<1>3. << >> \in S
  OBVIOUS
<1>4. CASE c = "/"
  <2>1. AddChar(Y, c) = Append(Y, << >>)
    <3>1. AddChar(Append(X, b), "/") = Append(Append(X, b), << >>)
      BY DEF AddChar
    <3> QED
      BY <1>1, <1>4, <3>1
  <2>2. Append(Y, << >>) \in Seq(S) /\ Append(Y, << >>) # << >>
    <3>1. Y \in Seq(S)
      BY DEF Texts
    <3> HIDE DEF S
    <3> QED
      BY <1>3, <3>1, AppendIs
  <2> QED
    BY <2>1, <2>2 DEF Texts
<1>5. CASE c # "/"
  <2>1. AddChar(Y, c) = Append(X, Append(b, c)) /\ Append(b, c) \in S
    <3>1. \A x \in C : x # "/" => /\ AddChar(Append(X, b), x)
                                     = Append(X, Append(b, x))
                                 /\ Append(b, x) \in S
      BY <1>1, AddCharIs, Zenon
    <3> QED
      BY <1>1, <1>5, <3>1, Zenon
  <2> QED
    BY <1>2, <2>1 DEF Texts
<1> QED
  BY <1>4, <1>5

\* One element resolved.
NameOf(E) == E \ {<< >>, Dot, DotDot}

LEMMA ResolveIs ==
  ASSUME NEW st, NEW elem
  PROVE  /\ elem \in {<< >>, Dot} => Resolve(st, elem) = st
         /\ elem = DotDot => Resolve(st, elem) = Pop(st)
         /\ elem \notin {<< >>, Dot, DotDot}
              => Resolve(st, elem) = Append(st, elem)
         /\ DotDot \notin {<< >>, Dot}
<1>1. DotDot \notin {<< >>, Dot}
  BY DEF DotDot, Dot
<1>2. elem \in {<< >>, Dot} => Resolve(st, elem) = st
  BY <1>1 DEF Resolve
<1>3. elem = DotDot => Resolve(st, elem) = Pop(st)
  BY <1>1 DEF Resolve
<1>4. elem \notin {<< >>, Dot, DotDot} => Resolve(st, elem) = Append(st, elem)
  BY DEF Resolve
<1> QED
  BY <1>1, <1>2, <1>3, <1>4

LEMMA PopIs ==
  ASSUME NEW S, NEW st \in Seq(S)
  PROVE  /\ Pop(st) \in Seq(S)
         /\ st = << >> => Pop(st) = << >>
         /\ st # << >> => /\ Len(st) \in Nat \ {0} /\ Len(Pop(st)) = Len(st) - 1
                          /\ \A i \in 1 .. Len(st) - 1 : Pop(st)[i] = st[i]
<1>1. st = << >> => Pop(st) = << >>
  BY DEF Pop
<1>2. ASSUME st # << >>
      PROVE  /\ Pop(st) \in Seq(S) /\ Len(st) \in Nat \ {0}
             /\ Len(Pop(st)) = Len(st) - 1
             /\ \A i \in 1 .. Len(st) - 1 : Pop(st)[i] = st[i]
  <2>1. Len(st) \in Nat \ {0}
    BY <1>2
  <2>2. Pop(st) = SubSeq(st, 1, Len(st) - 1)
    BY <1>2 DEF Pop, Front
  <2> DEFINE m == Len(st) - 1
  <2>3. m \in 0 .. Len(st)
    BY <2>1
  <2> HIDE DEF m
  <2>4. /\ SubSeq(st, 1, m) \in Seq(S) /\ Len(SubSeq(st, 1, m)) = m
        /\ \A i \in 1 .. m : SubSeq(st, 1, m)[i] = st[i]
    BY <2>1, <2>3
  <2> QED
    BY <2>1, <2>2, <2>4 DEF m
<1>3. << >> \in Seq(S)
  OBVIOUS
<1> QED
  BY <1>1, <1>2, <1>3

LEMMA ResolveType ==
  ASSUME NEW E, NEW st \in Seq(NameOf(E)), NEW elem \in E
  PROVE  Resolve(st, elem) \in Seq(NameOf(E))
<1> DEFINE S == NameOf(E)
<1>1. CASE elem \in {<< >>, Dot}
  BY <1>1, ResolveIs
<1>2. CASE elem = DotDot
  BY <1>2, ResolveIs, PopIs
<1>3. CASE elem \notin {<< >>, Dot, DotDot}
  <2>1. elem \in S
    BY <1>3 DEF NameOf
  <2> HIDE DEF S
  <2>2. Append(st, elem) \in Seq(S)
    BY <2>1, AppendIs DEF S
  <2> QED
    BY <1>3, <2>2, ResolveIs DEF S
<1> QED
  BY <1>1, <1>2, <1>3

\* What the first characters of a path are cut into, one by one.
ElementsRead(C, s, v) ==
  /\ v \in [0 .. Len(s) -> Texts(C)] /\ v[0] = <<<< >>>> /\ Elements(s) = v[Len(s)]
  /\ \A i \in 1 .. Len(s) : v[i] = AddChar(v[i - 1], s[i])

LEMMA ElementsChain ==
  ASSUME NEW C, NEW s \in Seq(C)
  PROVE  \E v : ElementsRead(C, s, v)
<1> DEFINE n      == Len(s)
           S      == Texts(C)
           base   == <<<< >>>>
           Def(h) == [u \in SUBSET (1 .. n) |->
                        IF u = {} THEN base
                        ELSE AddChar(h[u \ {Max(u)}], s[Max(u)])]
           it     == CHOOSE h : h = Def(h)
           step   == [p \in S \X (1 .. n) |-> AddChar(p[1], s[p[2]])]
           v      == [i \in 0 .. n |-> it[1 .. i]]
<1>1. n \in Nat /\ DOMAIN s = 1 .. n /\ \A i \in 1 .. n : s[i] \in C
  OBVIOUS
<1>2. Elements(s) = it[1 .. n]
  BY <1>1, Zenon DEF Elements, FoldLeft, MapThenFoldSet
<1>3. base \in S /\ \A i \in 1 .. n, k \in S : AddChar(k, s[i]) \in S
  <2>1. \A k \in S, c \in C : AddChar(k, c) \in S
    BY AddCharType, Zenon
  <2>2. base \in S
    BY DEF Texts
  <2> QED
    BY <1>1, <2>1, <2>2, Zenon
<1> HIDE DEF S, base, n
<1>4. IsStep(S, n, base, step)
  BY <1>1, <1>3 DEF IsStep
<1>5. \A k \in S, i \in 1 .. n : step[k, i] = AddChar(k, s[i])
  OBVIOUS
<1>6. PICK g : Folded(S, n, base, step, g)
  BY <1>4, FoldedExists
<1> HIDE DEF step
<1>7. g = Def(g)
  <2>1. ASSUME NEW u \in SUBSET (1 .. n), u # {}
        PROVE  g[u] = AddChar(g[u \ {Max(u)}], s[Max(u)])
    <3>1. Max(u) \in 1 .. n
      BY <1>1, <2>1, MaxIn
    <3>2. g[u \ {Max(u)}] \in S
      BY <1>6 DEF Folded
    <3>3. g[u] = step[g[u \ {Max(u)}], Max(u)]
      BY <1>6, <2>1 DEF Folded
    <3> QED
      BY <1>5, <3>1, <3>2, <3>3
  <2>2. g[{}] = base /\ g \in [SUBSET (1 .. n) -> S]
    BY <1>6 DEF Folded
  <2> QED
    BY <2>1, <2>2
<1>8. it = Def(it)
  <2>1. \E h : h = Def(h)
    BY <1>7
  <2> HIDE DEF Def
  <2> QED
    BY <2>1
<1> HIDE DEF it
<1>9. it[{}] = base
  BY <1>8
<1>10. ASSUME NEW k \in 1 .. n
       PROVE  it[1 .. k] = AddChar(it[1 .. (k - 1)], s[k])
  <2> DEFINE u == 1 .. k
  <2>1. u \in SUBSET (1 .. n) /\ k \in Nat \ {0}
    BY <1>1
  <2>2. Max(u) = k /\ u \ {k} = 1 .. (k - 1) /\ u # {}
    BY <2>1, MaxOfFirst
  <2> HIDE DEF u
  <2>3. it[u] = AddChar(it[u \ {Max(u)}], s[Max(u)])
    BY <1>8, <2>1, <2>2
  <2> QED
    BY <2>2, <2>3, Zenon DEF u
<1>11. Chain(S, n, base, step, v)
  <2>1. Recurs(S, n, base, step, it)
    BY <1>5, <1>9, <1>10, Zenon DEF Recurs
  <2> QED
    BY <1>4, <2>1, FoldedChain
<1>12. v[n] = it[1 .. n]
  BY <1>1
<1> HIDE DEF v
<1>13. \A i \in 1 .. n : i - 1 \in 0 .. n
  BY <1>1
<1>14. /\ v \in [0 .. n -> S] /\ v[0] = base /\ Elements(s) = v[n]
       /\ \A i \in 1 .. n : v[i] = AddChar(v[i - 1], s[i])
  BY <1>2, <1>5, <1>11, <1>12, <1>13 DEF Chain
<1>15. ElementsRead(C, s, v)
  BY <1>14 DEF ElementsRead, S, n, base
<1> QED
  BY <1>15

\* Elements from the front.
LEMMA ElementsAppend ==
  ASSUME NEW C
  PROVE  /\ Elements(<< >>) = <<<< >>>>
         /\ \A s \in Seq(C) : Elements(s) \in Texts(C)
         /\ \A s \in Seq(C), c \in C :
              Elements(Append(s, c)) = AddChar(Elements(s), c)
<1>1. Elements(<< >>) = <<<< >>>>
  <2>1. << >> \in Seq(C) /\ Len(<< >>) = 0
    OBVIOUS
  <2>2. PICK v : ElementsRead(C, << >>, v)
    BY <2>1, ElementsChain
  <2>3. v[0] = <<<< >>>> /\ Elements(<< >>) = v[Len(<< >>)]
    BY <2>2, Zenon DEF ElementsRead
  <2> QED
    BY <2>1, <2>3, Zenon
<1>2. ASSUME NEW s \in Seq(C)
      PROVE  Elements(s) \in Texts(C)
  <2>1. PICK v : ElementsRead(C, s, v)
    BY ElementsChain
  <2>2. Len(s) \in 0 .. Len(s)
    BY SeqIs
  <2> DEFINE S == Texts(C)
  <2>3. v \in [0 .. Len(s) -> S] /\ Elements(s) = v[Len(s)]
    BY <2>1, Zenon DEF ElementsRead
  <2> HIDE DEF S
  <2>4. Elements(s) \in S
    BY <2>2, <2>3
  <2> QED
    BY <2>4 DEF S
<1>3. ASSUME NEW s \in Seq(C), NEW c \in C
      PROVE  Elements(Append(s, c)) = AddChar(Elements(s), c)
  <2> DEFINE t == Append(s, c)
             n == Len(s)
  <2>1. /\ t \in Seq(C) /\ Len(t) = n + 1 /\ n \in Nat
        /\ t[n + 1] = c /\ \A i \in 1 .. n : t[i] = s[i]
    BY AppendIs
  <2> HIDE DEF t
  <2>2. PICK v : ElementsRead(C, s, v)
    BY ElementsChain
  <2>3. PICK w : ElementsRead(C, t, w)
    BY <2>1, ElementsChain
  <2> HIDE DEF n
  <2>4. /\ v[0] = <<<< >>>> /\ Elements(s) = v[n]
        /\ \A i \in 1 .. n : v[i] = AddChar(v[i - 1], s[i])
    BY <2>2, Zenon DEF ElementsRead, n
  <2>5. /\ w[0] = <<<< >>>> /\ Elements(t) = w[n + 1]
        /\ \A i \in 1 .. n + 1 : w[i] = AddChar(w[i - 1], t[i])
    BY <2>1, <2>3, Zenon DEF ElementsRead
  <2> DEFINE H == {k \in 0 .. n : w[k] = v[k]}
  <2>6. 0 \in H
    <3>1. 0 \in 0 .. n
      BY <2>1
    <3>2. w[0] = v[0]
      BY <2>4, <2>5, Zenon
    <3> QED
      BY <3>1, <3>2
  <2>7. ASSUME NEW k \in 1 .. n, k - 1 \in H PROVE k \in H
    <3>1. k \in 0 .. n /\ k \in 1 .. n + 1
      BY <2>1
    <3>2. w[k] = AddChar(w[k - 1], t[k]) /\ v[k] = AddChar(v[k - 1], s[k])
      BY <2>4, <2>5, <3>1, Zenon
    <3>3. w[k] = v[k]
      BY <2>1, <2>7, <3>2
    <3> QED
      BY <3>1, <3>3
  <2>8. n \in H
    <3> HIDE DEF H
    <3>1. \A k \in 0 .. n : k \in H
      BY <2>1, <2>6, <2>7, CountUp
    <3> QED
      BY <2>1, <3>1
  <2>9. n + 1 \in 1 .. n + 1 /\ (n + 1) - 1 = n
    BY <2>1
  <2>10. w[n + 1] = AddChar(w[n], c) /\ w[n] = v[n]
    BY <2>1, <2>5, <2>8, <2>9
  <2> QED
    BY <2>4, <2>5, <2>10 DEF t
<1> QED
  BY <1>1, <1>2, <1>3

\* What the first elements of a path resolve to, one by one.
ResolvedRead(C, s, v) ==
  /\ v \in [0 .. Len(s) -> Seq(NameOf(C))] /\ v[0] = << >> /\ Resolved(s) = v[Len(s)]
  /\ \A i \in 1 .. Len(s) : v[i] = Resolve(v[i - 1], s[i])

LEMMA ResolvedChain ==
  ASSUME NEW C, NEW s \in Seq(C)
  PROVE  \E v : ResolvedRead(C, s, v)
<1> DEFINE n      == Len(s)
           S      == Seq(NameOf(C))
           base   == << >>
           Def(h) == [u \in SUBSET (1 .. n) |->
                        IF u = {} THEN base
                        ELSE Resolve(h[u \ {Max(u)}], s[Max(u)])]
           it     == CHOOSE h : h = Def(h)
           step   == [p \in S \X (1 .. n) |-> Resolve(p[1], s[p[2]])]
           v      == [i \in 0 .. n |-> it[1 .. i]]
<1>1. n \in Nat /\ DOMAIN s = 1 .. n /\ \A i \in 1 .. n : s[i] \in C
  OBVIOUS
<1>2. Resolved(s) = it[1 .. n]
  BY <1>1, Zenon DEF Resolved, FoldLeft, MapThenFoldSet
<1>3. base \in S /\ \A i \in 1 .. n, k \in S : Resolve(k, s[i]) \in S
  <2>1. \A k \in S, c \in C : Resolve(k, c) \in S
    BY ResolveType, Zenon
  <2>2. base \in S
    OBVIOUS
  <2> QED
    BY <1>1, <2>1, <2>2, Zenon
<1> HIDE DEF S, base, n
<1>4. IsStep(S, n, base, step)
  BY <1>1, <1>3 DEF IsStep
<1>5. \A k \in S, i \in 1 .. n : step[k, i] = Resolve(k, s[i])
  OBVIOUS
<1>6. PICK g : Folded(S, n, base, step, g)
  BY <1>4, FoldedExists
<1> HIDE DEF step
<1>7. g = Def(g)
  <2>1. ASSUME NEW u \in SUBSET (1 .. n), u # {}
        PROVE  g[u] = Resolve(g[u \ {Max(u)}], s[Max(u)])
    <3>1. Max(u) \in 1 .. n
      BY <1>1, <2>1, MaxIn
    <3>2. g[u \ {Max(u)}] \in S
      BY <1>6 DEF Folded
    <3>3. g[u] = step[g[u \ {Max(u)}], Max(u)]
      BY <1>6, <2>1 DEF Folded
    <3> QED
      BY <1>5, <3>1, <3>2, <3>3
  <2>2. g[{}] = base /\ g \in [SUBSET (1 .. n) -> S]
    BY <1>6 DEF Folded
  <2> QED
    BY <2>1, <2>2
<1>8. it = Def(it)
  <2>1. \E h : h = Def(h)
    BY <1>7
  <2> HIDE DEF Def
  <2> QED
    BY <2>1
<1> HIDE DEF it
<1>9. it[{}] = base
  BY <1>8
<1>10. ASSUME NEW k \in 1 .. n
       PROVE  it[1 .. k] = Resolve(it[1 .. (k - 1)], s[k])
  <2> DEFINE u == 1 .. k
  <2>1. u \in SUBSET (1 .. n) /\ k \in Nat \ {0}
    BY <1>1
  <2>2. Max(u) = k /\ u \ {k} = 1 .. (k - 1) /\ u # {}
    BY <2>1, MaxOfFirst
  <2> HIDE DEF u
  <2>3. it[u] = Resolve(it[u \ {Max(u)}], s[Max(u)])
    BY <1>8, <2>1, <2>2
  <2> QED
    BY <2>2, <2>3, Zenon DEF u
<1>11. Chain(S, n, base, step, v)
  <2>1. Recurs(S, n, base, step, it)
    BY <1>5, <1>9, <1>10, Zenon DEF Recurs
  <2> QED
    BY <1>4, <2>1, FoldedChain
<1>12. v[n] = it[1 .. n]
  BY <1>1
<1> HIDE DEF v
<1>13. \A i \in 1 .. n : i - 1 \in 0 .. n
  BY <1>1
<1>14. /\ v \in [0 .. n -> S] /\ v[0] = base /\ Resolved(s) = v[n]
       /\ \A i \in 1 .. n : v[i] = Resolve(v[i - 1], s[i])
  BY <1>2, <1>5, <1>11, <1>12, <1>13 DEF Chain
<1>15. ResolvedRead(C, s, v)
  BY <1>14 DEF ResolvedRead, S, n, base
<1> QED
  BY <1>15

\* Resolved from the front.
LEMMA ResolvedAppend ==
  ASSUME NEW C
  PROVE  /\ Resolved(<< >>) = << >>
         /\ \A s \in Seq(C) : Resolved(s) \in Seq(NameOf(C))
         /\ \A s \in Seq(C), c \in C :
              Resolved(Append(s, c)) = Resolve(Resolved(s), c)
<1>1. Resolved(<< >>) = << >>
  <2>1. << >> \in Seq(C) /\ Len(<< >>) = 0
    OBVIOUS
  <2>2. PICK v : ResolvedRead(C, << >>, v)
    BY <2>1, ResolvedChain
  <2>3. v[0] = << >> /\ Resolved(<< >>) = v[Len(<< >>)]
    BY <2>2, Zenon DEF ResolvedRead
  <2> QED
    BY <2>1, <2>3, Zenon
<1>2. ASSUME NEW s \in Seq(C)
      PROVE  Resolved(s) \in Seq(NameOf(C))
  <2>1. PICK v : ResolvedRead(C, s, v)
    BY ResolvedChain
  <2>2. Len(s) \in 0 .. Len(s)
    BY SeqIs
  <2> DEFINE S == Seq(NameOf(C))
  <2>3. v \in [0 .. Len(s) -> S] /\ Resolved(s) = v[Len(s)]
    BY <2>1, Zenon DEF ResolvedRead
  <2> HIDE DEF S
  <2>4. Resolved(s) \in S
    BY <2>2, <2>3
  <2> QED
    BY <2>4 DEF S
<1>3. ASSUME NEW s \in Seq(C), NEW c \in C
      PROVE  Resolved(Append(s, c)) = Resolve(Resolved(s), c)
  <2> DEFINE t == Append(s, c)
             n == Len(s)
  <2>1. /\ t \in Seq(C) /\ Len(t) = n + 1 /\ n \in Nat
        /\ t[n + 1] = c /\ \A i \in 1 .. n : t[i] = s[i]
    BY AppendIs
  <2> HIDE DEF t
  <2>2. PICK v : ResolvedRead(C, s, v)
    BY ResolvedChain
  <2>3. PICK w : ResolvedRead(C, t, w)
    BY <2>1, ResolvedChain
  <2> HIDE DEF n
  <2>4. /\ v[0] = << >> /\ Resolved(s) = v[n]
        /\ \A i \in 1 .. n : v[i] = Resolve(v[i - 1], s[i])
    BY <2>2, Zenon DEF ResolvedRead, n
  <2>5. /\ w[0] = << >> /\ Resolved(t) = w[n + 1]
        /\ \A i \in 1 .. n + 1 : w[i] = Resolve(w[i - 1], t[i])
    BY <2>1, <2>3, Zenon DEF ResolvedRead
  <2> DEFINE H == {k \in 0 .. n : w[k] = v[k]}
  <2>6. 0 \in H
    <3>1. 0 \in 0 .. n
      BY <2>1
    <3>2. w[0] = v[0]
      BY <2>4, <2>5, Zenon
    <3> QED
      BY <3>1, <3>2
  <2>7. ASSUME NEW k \in 1 .. n, k - 1 \in H PROVE k \in H
    <3>1. k \in 0 .. n /\ k \in 1 .. n + 1
      BY <2>1
    <3>2. w[k] = Resolve(w[k - 1], t[k]) /\ v[k] = Resolve(v[k - 1], s[k])
      BY <2>4, <2>5, <3>1, Zenon
    <3>3. w[k] = v[k]
      BY <2>1, <2>7, <3>2
    <3> QED
      BY <3>1, <3>3
  <2>8. n \in H
    <3> HIDE DEF H
    <3>1. \A k \in 0 .. n : k \in H
      BY <2>1, <2>6, <2>7, CountUp
    <3> QED
      BY <2>1, <3>1
  <2>9. n + 1 \in 1 .. n + 1 /\ (n + 1) - 1 = n
    BY <2>1
  <2>10. w[n + 1] = Resolve(w[n], c) /\ w[n] = v[n]
    BY <2>1, <2>5, <2>8, <2>9
  <2> QED
    BY <2>4, <2>5, <2>10 DEF t
<1> QED
  BY <1>1, <1>2, <1>3

\* By how much the names from i to j outnumber the ".." there.
Balance(elems, i, j) ==
  Cardinality(Names(elems, i, j)) - Cardinality(Ups(elems, i, j))

Weight(elem) == IF elem \notin {<< >>, Dot, DotDot} THEN 1
                ELSE IF elem = DotDot THEN -1 ELSE 0

LEMMA CountsAre ==
  ASSUME NEW elems, NEW i \in Int, NEW j \in Int
  PROVE  /\ IsFiniteSet(Names(elems, i, j)) /\ IsFiniteSet(Ups(elems, i, j))
         /\ Cardinality(Names(elems, i, j)) \in Nat
         /\ Cardinality(Ups(elems, i, j)) \in Nat
         /\ Balance(elems, i, j) \in Int
         /\ Cardinality(Ups(elems, i, j)) <= Cardinality(Names(elems, i, j))
              <=> 0 <= Balance(elems, i, j)
         /\ i > j => Balance(elems, i, j) = 0
<1>1. IsFiniteSet(i .. j)
  BY FS_Interval
<1>2. Names(elems, i, j) \in SUBSET (i .. j) /\ Ups(elems, i, j) \in SUBSET (i .. j)
  BY DEF Names, Ups
<1>3. IsFiniteSet(Names(elems, i, j)) /\ IsFiniteSet(Ups(elems, i, j))
  BY <1>1, <1>2, FS_Subset, Zenon
<1>4. /\ Cardinality(Names(elems, i, j)) \in Nat
      /\ Cardinality(Ups(elems, i, j)) \in Nat
  BY <1>3, FS_CardinalityType
<1>5. ASSUME i > j PROVE Balance(elems, i, j) = 0
  <2>1. Names(elems, i, j) = {} /\ Ups(elems, i, j) = {}
    BY <1>2, <1>5
  <2>2. Cardinality({}) = 0
    BY FS_EmptySet
  <2> QED
    BY <2>1, <2>2 DEF Balance
<1>6. /\ Balance(elems, i, j) \in Int
      /\ Cardinality(Ups(elems, i, j)) <= Cardinality(Names(elems, i, j))
           <=> 0 <= Balance(elems, i, j)
  <2> DEFINE a == Cardinality(Names(elems, i, j))
             b == Cardinality(Ups(elems, i, j))
  <2>1. a \in Nat /\ b \in Nat
    BY <1>4
  <2> HIDE DEF a, b
  <2>2. a - b \in Int /\ (b <= a <=> 0 <= a - b)
    BY <2>1
  <2> QED
    BY <2>2 DEF Balance, a, b
<1> QED
  BY <1>3, <1>4, <1>5, <1>6

\* One element more.
Longer(ef, es, e) == ef = Append(es, e)

SameCounts(ef, es, i, j) ==
  Names(ef, i, j) = Names(es, i, j) /\ Ups(ef, i, j) = Ups(es, i, j)

CountsOneMore(ef, es, e, i) ==
  /\ Names(ef, i, Len(es) + 1) = Names(es, i, Len(es))
       \cup (IF e \notin {<< >>, Dot, DotDot} THEN {Len(es) + 1} ELSE {})
  /\ Ups(ef, i, Len(es) + 1) = Ups(es, i, Len(es))
       \cup (IF e = DotDot THEN {Len(es) + 1} ELSE {})

LEMMA NamesAppend ==
  ASSUME NEW E, NEW es \in Seq(E), NEW e \in E, NEW ef, Longer(ef, es, e),
         NEW i \in 1 .. Len(es) + 1
  PROVE  /\ \A j \in 0 .. Len(es) : SameCounts(ef, es, i, j)
         /\ CountsOneMore(ef, es, e, i)
<1> DEFINE n == Len(es)
           X == {<< >>, Dot, DotDot}
<1>1. n \in Nat /\ ef[n + 1] = e /\ \A k \in 1 .. n : ef[k] = es[k]
  BY AppendIs DEF Longer
<1> HIDE DEF n, X
<1>3. ASSUME NEW j \in 0 .. Len(es)
      PROVE  SameCounts(ef, es, i, j)
  <2>1. \A k \in i .. j : k \in 1 .. n
    BY <1>1 DEF n
  <2> QED
    BY <1>1, <2>1 DEF SameCounts, Names, Ups
<1>4. i \in 1 .. n + 1
  BY DEF n
<1>5. \A k : k \in i .. n + 1 <=> k \in i .. n \/ k = n + 1
  BY <1>1, <1>4
<1>6. \A k \in i .. n : k \in 1 .. n
  BY <1>1, <1>4
<1>7. \A k \in i .. n : k # n + 1
  BY <1>1
<1>8. {k \in i .. n + 1 : ef[k] \notin X}
        = {k \in i .. n : es[k] \notin X}
            \cup (IF e \notin X THEN {n + 1} ELSE {})
  BY <1>1, <1>5, <1>6, <1>7
<1>9. {k \in i .. n + 1 : ef[k] = DotDot}
        = {k \in i .. n : es[k] = DotDot}
            \cup (IF e = DotDot THEN {n + 1} ELSE {})
  BY <1>1, <1>5, <1>6, <1>7
<1> QED
  BY <1>3, <1>8, <1>9 DEF CountsOneMore, Names, Ups, n, X

LEMMA BalanceAppend ==
  ASSUME NEW E, NEW es \in Seq(E), NEW e \in E, NEW ef, Longer(ef, es, e),
         NEW i \in 1 .. Len(es) + 1
  PROVE  /\ \A j \in 0 .. Len(es) : Balance(ef, i, j) = Balance(es, i, j)
         /\ Balance(ef, i, Len(es) + 1) = Balance(es, i, Len(es)) + Weight(e)
<1> DEFINE n == Len(es)
           N == Names(es, i, n)
           U == Ups(es, i, n)
<1>1. n \in Nat
  BY SeqIs
<1>2. \A j \in 0 .. Len(es) : Balance(ef, i, j) = Balance(es, i, j)
  <2> TAKE j \in 0 .. Len(es)
  <2>1. Names(ef, i, j) = Names(es, i, j) /\ Ups(ef, i, j) = Ups(es, i, j)
    BY NamesAppend, Zenon DEF SameCounts
  <2> QED
    BY <2>1 DEF Balance
<1>3. /\ IsFiniteSet(N) /\ IsFiniteSet(U) /\ n + 1 \notin N /\ n + 1 \notin U
      /\ Cardinality(N) \in Nat /\ Cardinality(U) \in Nat
  <2>1. i \in Int /\ n \in Int
    BY <1>1
  <2>2. ~(n + 1 \in i .. n)
    BY <1>1
  <2>3. N \subseteq i .. n /\ U \subseteq i .. n
    BY DEF Names, Ups
  <2> QED
    BY <2>1, <2>2, <2>3, CountsAre
<1>5. /\ Names(ef, i, n + 1)
           = N \cup (IF e \notin {<< >>, Dot, DotDot} THEN {n + 1} ELSE {})
      /\ Ups(ef, i, n + 1) = U \cup (IF e = DotDot THEN {n + 1} ELSE {})
  <2>1. CountsOneMore(ef, es, e, i)
    BY NamesAppend, Zenon
  <2> QED
    BY <2>1 DEF CountsOneMore
<1> HIDE DEF N, U
<1>6. /\ Cardinality(N \cup {n + 1}) = Cardinality(N) + 1
      /\ Cardinality(U \cup {n + 1}) = Cardinality(U) + 1
  BY <1>3, FS_AddElement
<1> DEFINE a == Cardinality(N)
           b == Cardinality(U)
<1>7. /\ Balance(es, i, n) = a - b
      /\ \A x, y : /\ Names(ef, i, n + 1) = x /\ Ups(ef, i, n + 1) = y
                   => Balance(ef, i, n + 1) = Cardinality(x) - Cardinality(y)
  BY DEF Balance, N, U
<1> HIDE DEF a, b, n
<1>8. CASE e \notin {<< >>, Dot, DotDot}
  <2>1. Names(ef, i, n + 1) = N \cup {n + 1} /\ Ups(ef, i, n + 1) = U
    BY <1>5, <1>8
  <2>2. Weight(e) = 1
    BY <1>8 DEF Weight
  <2>3. Balance(ef, i, n + 1) = (a + 1) - b
    BY <1>6, <1>7, <2>1 DEF a, b
  <2>4. (a + 1) - b = Balance(es, i, n) + Weight(e)
    BY <1>3, <1>7, <2>2 DEF a, b
  <2> QED
    BY <1>2, <2>3, <2>4 DEF n
<1>9. CASE e = DotDot
  <2>1. Names(ef, i, n + 1) = N /\ Ups(ef, i, n + 1) = U \cup {n + 1}
    BY <1>5, <1>9
  <2>2. Weight(e) = -1
    BY <1>9 DEF Weight
  <2>3. Balance(ef, i, n + 1) = a - (b + 1)
    BY <1>6, <1>7, <2>1 DEF a, b
  <2>4. a - (b + 1) = Balance(es, i, n) + Weight(e)
    BY <1>3, <1>7, <2>2 DEF a, b
  <2> QED
    BY <1>2, <2>3, <2>4 DEF n
<1>10. CASE e \in {<< >>, Dot, DotDot} /\ e # DotDot
  <2>1. Names(ef, i, n + 1) = N /\ Ups(ef, i, n + 1) = U
    BY <1>5, <1>10
  <2>2. Weight(e) = 0
    BY <1>10 DEF Weight
  <2>3. Balance(ef, i, n + 1) = a - b
    BY <1>6, <1>7, <2>1 DEF a, b
  <2>4. a - b = Balance(es, i, n) + Weight(e)
    BY <1>3, <1>7, <2>2 DEF a, b
  <2> QED
    BY <1>2, <2>3, <2>4 DEF n
<1> QED
  BY <1>8, <1>9, <1>10

LEMMA StayingIs ==
  ASSUME NEW E, NEW es \in Seq(E), NEW i
  PROVE  i \in Staying(es) <=>
           /\ i \in 1 .. Len(es) /\ es[i] \notin {<< >>, Dot, DotDot}
           /\ \A j \in i + 1 .. Len(es) : 0 <= Balance(es, i + 1, j)
<1>1. Len(es) \in Nat
  BY SeqIs
<1>2. i \in Names(es, 1, Len(es))
        <=> i \in 1 .. Len(es) /\ es[i] \notin {<< >>, Dot, DotDot}
  BY DEF Names
<1>3. ASSUME i \in 1 .. Len(es), NEW j \in i + 1 .. Len(es)
      PROVE  Cardinality(Ups(es, i + 1, j)) <= Cardinality(Names(es, i + 1, j))
               <=> 0 <= Balance(es, i + 1, j)
  <2>1. i + 1 \in Int /\ j \in Int
    BY <1>1, <1>3
  <2> QED
    BY <2>1, CountsAre
<1> QED
  BY <1>2, <1>3, Zenon DEF Staying

LEMMA StayingAppend ==
  ASSUME NEW E, NEW es \in Seq(E), NEW e \in E, NEW ef, Longer(ef, es, e)
  PROVE  /\ \A i \in 1 .. Len(es) :
              i \in Staying(ef) <=>
                /\ i \in Staying(es)
                /\ 0 <= Balance(es, i + 1, Len(es)) + Weight(e)
         /\ Len(es) + 1 \in Staying(ef) <=> e \notin {<< >>, Dot, DotDot}
         /\ Staying(ef) \subseteq 1 .. Len(es) + 1
         /\ Staying(es) \subseteq 1 .. Len(es)
<1> DEFINE n == Len(es)
<1>1. /\ n \in Nat /\ ef[n + 1] = e /\ \A k \in 1 .. n : ef[k] = es[k]
      /\ ef \in Seq(E) /\ Len(ef) = n + 1
  BY AppendIs DEF Longer
<1>2. Staying(ef) \subseteq 1 .. n + 1
  BY <1>1, StayingIs
<1>3. Staying(es) \subseteq 1 .. n
  BY StayingIs
<1>4. n + 1 \in Staying(ef) <=> e \notin {<< >>, Dot, DotDot}
  <2>1. ~(\E j : j \in (n + 1) + 1 .. n + 1) /\ n + 1 \in 1 .. n + 1
    BY <1>1
  <2>2. n + 1 \in Staying(ef) <=>
          /\ n + 1 \in 1 .. n + 1 /\ ef[n + 1] \notin {<< >>, Dot, DotDot}
          /\ \A j \in (n + 1) + 1 .. n + 1 : 0 <= Balance(ef, (n + 1) + 1, j)
    BY <1>1, StayingIs
  <2> QED
    BY <1>1, <2>1, <2>2, Zenon
<1>5. ASSUME NEW i \in 1 .. n
      PROVE  i \in Staying(ef) <=>
               i \in Staying(es) /\ 0 <= Balance(es, i + 1, n) + Weight(e)
  <2>1. /\ \A j \in 0 .. n : Balance(ef, i + 1, j) = Balance(es, i + 1, j)
        /\ Balance(ef, i + 1, n + 1) = Balance(es, i + 1, n) + Weight(e)
    <3>1. i + 1 \in 1 .. n + 1
      BY <1>1
    <3> QED
      BY <3>1, BalanceAppend
  <2>2. /\ \A j \in i + 1 .. n : j \in 0 .. n /\ j \in i + 1 .. n + 1
        /\ \A j \in i + 1 .. n + 1 : j \in i + 1 .. n \/ j = n + 1
        /\ n + 1 \in i + 1 .. n + 1 /\ i \in 1 .. n + 1
    BY <1>1
  <2>3. i \in Staying(ef) <=>
          /\ i \in 1 .. n + 1 /\ ef[i] \notin {<< >>, Dot, DotDot}
          /\ \A j \in i + 1 .. n + 1 : 0 <= Balance(ef, i + 1, j)
    BY <1>1, StayingIs
  <2>4. i \in Staying(es) <=>
          /\ i \in 1 .. n /\ es[i] \notin {<< >>, Dot, DotDot}
          /\ \A j \in i + 1 .. n : 0 <= Balance(es, i + 1, j)
    BY StayingIs
  <2>5. (\A j \in i + 1 .. n + 1 : 0 <= Balance(ef, i + 1, j))
          <=> /\ \A j \in i + 1 .. n : 0 <= Balance(es, i + 1, j)
              /\ 0 <= Balance(es, i + 1, n) + Weight(e)
    <3> HIDE DEF n
    <3> QED
      BY <2>1, <2>2, Zenon
  <2> QED
    BY <1>1, <2>2, <2>3, <2>4, <2>5, Zenon
<1> QED
  BY <1>2, <1>3, <1>4, <1>5

\* p are the places, one after the other, of the names that stay, and st the
\* names: those that are on the stack of normalize_path.  Behind each of the
\* places the names outnumber the ".." by the names that are above it.
Tracks(es, st, p) ==
  /\ p \in [1 .. Len(st) -> 1 .. Len(es)]
  /\ \A i, j \in 1 .. Len(st) : i < j => p[i] < p[j]
  /\ \A i \in 1 .. Len(st) :
       /\ p[i] \in Staying(es) /\ st[i] = es[p[i]]
       /\ Balance(es, p[i] + 1, Len(es)) = Len(st) - i
  /\ \A k \in Staying(es) : \E i \in 1 .. Len(st) : k = p[i]

\* A name goes on the stack, ...
LEMMA TracksName ==
  ASSUME NEW E, NEW es \in Seq(E), NEW e \in E, NEW ef, Longer(ef, es, e),
         NEW S, NEW st \in Seq(S), e \in S, NEW p, Tracks(es, st, p),
         e \notin {<< >>, Dot, DotDot}
  PROVE  \E q : Tracks(ef, Append(st, e), q)
<1> DEFINE n  == Len(es)
           m  == Len(st)
           su == Append(st, e)
           q  == [i \in 1 .. m + 1 |-> IF i = m + 1 THEN n + 1 ELSE p[i]]
<1>1. /\ n \in Nat /\ ef[n + 1] = e /\ \A k \in 1 .. n : ef[k] = es[k]
      /\ ef \in Seq(E) /\ Len(ef) = n + 1
  BY AppendIs DEF Longer
<1>2. /\ m \in Nat /\ Len(su) = m + 1 /\ su[m + 1] = e
      /\ \A i \in 1 .. m : su[i] = st[i]
  BY AppendIs
<1>3. Weight(e) = 1
  BY DEF Weight
<1>4. /\ p \in [1 .. m -> 1 .. n]
      /\ \A i, j \in 1 .. m : i < j => p[i] < p[j]
      /\ \A i \in 1 .. m : /\ p[i] \in Staying(es) /\ st[i] = es[p[i]]
                           /\ Balance(es, p[i] + 1, n) = m - i
      /\ \A k \in Staying(es) : \E i \in 1 .. m : k = p[i]
  BY DEF Tracks
<1>5. /\ \A i \in 1 .. n :
           i \in Staying(ef) <=>
             i \in Staying(es) /\ 0 <= Balance(es, i + 1, n) + 1
      /\ n + 1 \in Staying(ef)
      /\ Staying(ef) \subseteq 1 .. n + 1
      /\ Staying(es) \subseteq 1 .. n
  BY <1>3, StayingAppend
<1>6. \A i \in 1 .. n : Balance(ef, i + 1, n + 1) = Balance(es, i + 1, n) + 1
  <2> TAKE i \in 1 .. n
  <2>1. i + 1 \in 1 .. n + 1
    BY <1>1
  <2> QED
    BY <1>3, <2>1, BalanceAppend
<1>7. Balance(ef, (n + 1) + 1, n + 1) = 0
  BY <1>1, CountsAre
<1> HIDE DEF n, m, su
<1>8. /\ q \in [1 .. m + 1 -> 1 .. n + 1] /\ q[m + 1] = n + 1
      /\ \A i \in 1 .. m : q[i] = p[i] /\ p[i] \in 1 .. n
  <2>1. /\ m + 1 \in 1 .. m + 1
        /\ \A i \in 1 .. m : i \in 1 .. m + 1 /\ i # m + 1
        /\ \A i \in 1 .. m + 1 : i # m + 1 => i \in 1 .. m
    BY <1>2
  <2>2. n + 1 \in 1 .. n + 1 /\ \A k \in 1 .. n : k \in 1 .. n + 1
    BY <1>1
  <2>3. \A i \in 1 .. m : p[i] \in 1 .. n
    BY <1>4
  <2>4. q[m + 1] = n + 1 /\ \A i \in 1 .. m : q[i] = p[i]
    BY <2>1
  <2>5. \A i \in 1 .. m + 1 :
          (IF i = m + 1 THEN n + 1 ELSE p[i]) \in 1 .. n + 1
    BY <2>1, <2>2, <2>3
  <2>6. q \in [1 .. m + 1 -> 1 .. n + 1]
    BY <2>5
  <2> QED
    BY <2>3, <2>4, <2>6
<1>9. \A i \in 1 .. m + 1 : i \in 1 .. m \/ i = m + 1
  BY <1>2
<1> HIDE DEF q
<1>10. ASSUME NEW i \in 1 .. m + 1, NEW j \in 1 .. m + 1, i < j
       PROVE  q[i] < q[j]
  <2>1. i \in 1 .. m
    BY <1>2, <1>10
  <2>2. q[i] = p[i] /\ p[i] \in 1 .. n
    BY <1>8, <2>1
  <2>3. CASE j \in 1 .. m
    <3>1. q[j] = p[j] /\ p[i] < p[j]
      BY <1>4, <1>8, <1>10, <2>1, <2>3
    <3> QED
      BY <2>2, <3>1
  <2>4. CASE j = m + 1
    BY <1>1, <1>8, <2>2, <2>4
  <2> QED
    BY <1>9, <2>3, <2>4
<1>11. ASSUME NEW i \in 1 .. m + 1
       PROVE  /\ q[i] \in Staying(ef) /\ su[i] = ef[q[i]]
              /\ Balance(ef, q[i] + 1, n + 1) = (m + 1) - i
  <2>1. CASE i = m + 1
    BY <1>1, <1>2, <1>5, <1>7, <1>8, <2>1
  <2>2. CASE i \in 1 .. m
    <3>1. q[i] = p[i] /\ p[i] \in 1 .. n /\ p[i] \in Staying(es)
          /\ st[i] = es[p[i]] /\ Balance(es, p[i] + 1, n) = m - i
      BY <1>4, <1>8, <2>2
    <3>2. Balance(ef, p[i] + 1, n + 1) = (m + 1) - i
      BY <1>2, <1>6, <2>2, <3>1
    <3>3. p[i] \in Staying(ef)
      BY <1>2, <1>5, <2>2, <3>1
    <3> QED
      BY <1>1, <1>2, <2>2, <3>1, <3>2, <3>3
  <2> QED
    BY <1>9, <2>1, <2>2
<1>12. ASSUME NEW k \in Staying(ef)
       PROVE  \E i \in 1 .. m + 1 : k = q[i]
  <2>1. k \in 1 .. n \/ k = n + 1
    BY <1>1, <1>5
  <2>2. CASE k = n + 1
    <3>1. m + 1 \in 1 .. m + 1
      BY <1>2
    <3> QED
      BY <1>8, <2>2, <3>1
  <2>3. CASE k \in 1 .. n
    <3>1. PICK i \in 1 .. m : k = p[i]
      BY <1>4, <1>5, <2>3
    <3>2. i \in 1 .. m + 1
      BY <1>2
    <3> QED
      BY <1>8, <3>1, <3>2
  <2> QED
    BY <2>1, <2>2, <2>3
<1>13. Tracks(ef, su, q)
  BY <1>1, <1>2, <1>8, <1>10, <1>11, <1>12 DEF Tracks
<1> QED
  BY <1>13 DEF su

\* ... ".." takes the last one off, ...
LEMMA TracksUp ==
  ASSUME NEW E, NEW es \in Seq(E), NEW e \in E, NEW ef, Longer(ef, es, e),
         NEW S, NEW st \in Seq(S), NEW p, Tracks(es, st, p), e = DotDot
  PROVE  \E q : Tracks(ef, Pop(st), q)
<1> DEFINE n  == Len(es)
           m  == Len(st)
           su == Pop(st)
           h  == Len(su)
           q  == [i \in 1 .. h |-> p[i]]
<1>1. /\ n \in Nat /\ ef[n + 1] = e /\ \A k \in 1 .. n : ef[k] = es[k]
      /\ ef \in Seq(E) /\ Len(ef) = n + 1
  BY AppendIs DEF Longer
<1>2. /\ m \in Nat /\ h \in Nat
      /\ m = 0 => h = 0
      /\ m # 0 => h = m - 1
      /\ \A i \in 1 .. h : su[i] = st[i]
  <2>1. m \in Nat /\ (m = 0 <=> st = << >>) /\ h \in Nat
    BY PopIs, SeqIs
  <2>2. CASE st = << >>
    <3>1. h = 0
      <4>1. su = << >>
        BY <2>2, PopIs
      <4> HIDE DEF su
      <4> QED
        BY <4>1
    <3> QED
      BY <2>1, <2>2, <3>1
  <2>3. CASE st # << >>
    BY <2>1, <2>3, PopIs
  <2> QED
    BY <2>2, <2>3
<1>3. Weight(e) = -1
  BY ResolveIs DEF Weight
<1>4. /\ p \in [1 .. m -> 1 .. n]
      /\ \A i, j \in 1 .. m : i < j => p[i] < p[j]
      /\ \A i \in 1 .. m : /\ p[i] \in Staying(es) /\ st[i] = es[p[i]]
                           /\ Balance(es, p[i] + 1, n) = m - i
      /\ \A k \in Staying(es) : \E i \in 1 .. m : k = p[i]
  BY DEF Tracks
<1>5. /\ \A i \in 1 .. n :
           i \in Staying(ef) <=>
             i \in Staying(es) /\ 0 <= Balance(es, i + 1, n) + (-1)
      /\ n + 1 \notin Staying(ef)
      /\ Staying(ef) \subseteq 1 .. n + 1
  BY <1>3, StayingAppend
<1>6. \A i \in 1 .. n : Balance(ef, i + 1, n + 1) = Balance(es, i + 1, n) + (-1)
  <2> TAKE i \in 1 .. n
  <2>1. i + 1 \in 1 .. n + 1
    BY <1>1
  <2> QED
    BY <1>3, <2>1, BalanceAppend
<1> HIDE DEF n, m, su, h
<1>7. /\ \A i \in 1 .. h : i \in 1 .. m /\ h = m - 1
      /\ \A i \in 1 .. m : i \in 1 .. h \/ i = m
  BY <1>2
<1>8. /\ q \in [1 .. h -> 1 .. n + 1]
      /\ \A i \in 1 .. h : q[i] = p[i] /\ p[i] \in 1 .. n
  <2>1. \A i \in 1 .. h : p[i] \in 1 .. n /\ p[i] \in 1 .. n + 1
    BY <1>1, <1>4, <1>7
  <2> QED
    BY <2>1
<1> HIDE DEF q
<1>9. \A i, j \in 1 .. h : i < j => q[i] < q[j]
  BY <1>4, <1>7, <1>8
<1>10. ASSUME NEW i \in 1 .. h
       PROVE  /\ q[i] \in Staying(ef) /\ su[i] = ef[q[i]]
              /\ Balance(ef, q[i] + 1, n + 1) = h - i
  <2>1. i \in 1 .. m /\ h = m - 1 /\ i <= h /\ i \in Int /\ h \in Int /\ m \in Int
    BY <1>2, <1>7
  <2>2. q[i] = p[i] /\ p[i] \in 1 .. n /\ p[i] \in Staying(es)
        /\ st[i] = es[p[i]] /\ Balance(es, p[i] + 1, n) = m - i
    BY <1>4, <1>8, <2>1
  <2>3. Balance(ef, p[i] + 1, n + 1) = (m - i) + (-1)
    BY <1>6, <2>2
  <2>4. (m - i) + (-1) = h - i /\ 0 <= (m - i) + (-1)
    BY <2>1
  <2>5. p[i] \in Staying(ef)
    BY <1>5, <2>2, <2>4
  <2> QED
    BY <1>1, <1>2, <2>2, <2>3, <2>4, <2>5
<1>11. ASSUME NEW k \in Staying(ef)
       PROVE  \E i \in 1 .. h : k = q[i]
  <2>1. k \in 1 .. n
    BY <1>1, <1>5
  <2>2. k \in Staying(es) /\ 0 <= Balance(es, k + 1, n) + (-1)
    BY <1>5, <2>1
  <2>3. PICK i \in 1 .. m : k = p[i]
    BY <1>4, <2>2
  <2>4. Balance(es, k + 1, n) = m - i
    BY <1>4, <2>3
  <2>5. 0 <= (m - i) + (-1)
    BY <2>2, <2>4
  <2>6. i # m
    BY <1>2, <2>5
  <2>7. i \in 1 .. h
    BY <1>7, <2>6
  <2> QED
    BY <1>8, <2>3, <2>7
<1>12. Tracks(ef, su, q)
  BY <1>1, <1>8, <1>9, <1>10, <1>11 DEF Tracks, h
<1> QED
  BY <1>12 DEF su

\* ... and everything else leaves it alone.
LEMMA TracksSkip ==
  ASSUME NEW E, NEW es \in Seq(E), NEW e \in E, NEW ef, Longer(ef, es, e),
         NEW S, NEW st \in Seq(S), NEW p, Tracks(es, st, p), e \in {<< >>, Dot}
  PROVE  Tracks(ef, st, p)
<1> DEFINE n  == Len(es)
           m  == Len(st)
<1>1. /\ n \in Nat /\ \A k \in 1 .. n : ef[k] = es[k]
      /\ ef \in Seq(E) /\ Len(ef) = n + 1 /\ m \in Nat
  BY AppendIs, SeqIs DEF Longer
<1>2. Weight(e) = 0 /\ e \in {<< >>, Dot, DotDot}
  BY ResolveIs DEF Weight
<1>3. /\ p \in [1 .. m -> 1 .. n]
      /\ \A i, j \in 1 .. m : i < j => p[i] < p[j]
      /\ \A i \in 1 .. m : /\ p[i] \in Staying(es) /\ st[i] = es[p[i]]
                           /\ Balance(es, p[i] + 1, n) = m - i
      /\ \A k \in Staying(es) : \E i \in 1 .. m : k = p[i]
  BY DEF Tracks
<1>4. /\ \A i \in 1 .. n :
           i \in Staying(ef) <=>
             i \in Staying(es) /\ 0 <= Balance(es, i + 1, n) + 0
      /\ n + 1 \notin Staying(ef)
      /\ Staying(ef) \subseteq 1 .. n + 1
  BY <1>2, StayingAppend
<1>5. \A i \in 1 .. n : Balance(ef, i + 1, n + 1) = Balance(es, i + 1, n) + 0
  <2> TAKE i \in 1 .. n
  <2>1. i + 1 \in 1 .. n + 1
    BY <1>1
  <2> QED
    BY <1>2, <2>1, BalanceAppend
<1> HIDE DEF n, m
<1>6. p \in [1 .. m -> 1 .. n + 1]
  <2>1. \A i \in 1 .. n : i \in 1 .. n + 1
    BY <1>1
  <2> QED
    BY <1>3, <2>1
<1>7. ASSUME NEW i \in 1 .. m
      PROVE  /\ p[i] \in Staying(ef) /\ st[i] = ef[p[i]]
             /\ Balance(ef, p[i] + 1, n + 1) = m - i
  <2>1. p[i] \in 1 .. n /\ p[i] \in Staying(es)
        /\ st[i] = es[p[i]] /\ Balance(es, p[i] + 1, n) = m - i
    BY <1>3
  <2>2. (m - i) + 0 = m - i /\ 0 <= (m - i) + 0
    BY <1>1
  <2>3. Balance(ef, p[i] + 1, n + 1) = m - i
    BY <1>5, <2>1, <2>2
  <2>4. p[i] \in Staying(ef)
    BY <1>4, <2>1, <2>2
  <2> QED
    BY <1>1, <2>1, <2>3, <2>4
<1>8. ASSUME NEW k \in Staying(ef)
      PROVE  \E i \in 1 .. m : k = p[i]
  <2>1. k \in 1 .. n
    BY <1>1, <1>4
  <2> QED
    BY <1>3, <1>4, <2>1
<1> QED
  BY <1>1, <1>3, <1>6, <1>7, <1>8 DEF Tracks, m

\* So the stack of normalize_path is made of the names that stay.
LEMMA ResolvedTracks ==
  ASSUME NEW E, NEW es \in Seq(E)
  PROVE  \E p : Tracks(es, Resolved(es), p)
<1> DEFINE G == {s \in Seq(E) : \E p : Tracks(s, Resolved(s), p)}
<1>1. << >> \in G
  <2>1. Resolved(<< >>) = << >> /\ << >> \in Seq(E)
    BY ResolvedAppend
  <2> DEFINE p == [i \in 1 .. 0 |-> i]
  <2>2. Staying(<< >>) = {}
    <3>1. 1 .. Len(<< >>) = {}
      OBVIOUS
    <3> QED
      BY <2>1, <3>1, StayingIs
  <2>3. Tracks(<< >>, << >>, p)
    <3>1. Len(<< >>) = 0 /\ 1 .. 0 = {}
      OBVIOUS
    <3>2. p \in [1 .. 0 -> 1 .. 0]
      OBVIOUS
    <3> QED
      BY <2>2, <3>1, <3>2 DEF Tracks
  <2> HIDE DEF p
  <2> QED
    BY <2>1, <2>3
<1>2. ASSUME NEW s \in Seq(E), NEW e \in E, s \in G
      PROVE  Append(s, e) \in G
  <2> DEFINE t  == Append(s, e)
             st == Resolved(s)
             S  == NameOf(E)
  <2>1. PICK p : Tracks(s, st, p)
    BY <1>2
  <2>2. t \in Seq(E) /\ Longer(t, s, e)
    BY AppendIs DEF Longer
  <2>3. st \in Seq(S) /\ Resolved(t) = Resolve(st, e)
    BY ResolvedAppend
  <2> HIDE DEF t, st
  <2>4. \E q : Tracks(t, Resolved(t), q)
    <3>1. CASE e \notin {<< >>, Dot, DotDot}
      <4>1. e \in S /\ Resolve(st, e) = Append(st, e)
        BY <3>1, ResolveIs DEF NameOf
      <4> HIDE DEF S
      <4>2. \E q : Tracks(t, Append(st, e), q)
        BY <2>1, <2>2, <2>3, <3>1, <4>1, TracksName
      <4> QED
        BY <2>3, <4>1, <4>2
    <3>2. CASE e = DotDot
      <4>1. Resolve(st, e) = Pop(st)
        BY <3>2, ResolveIs
      <4> HIDE DEF S
      <4>2. \E q : Tracks(t, Pop(st), q)
        BY <2>1, <2>2, <2>3, <3>2, TracksUp
      <4> QED
        BY <2>3, <4>1, <4>2
    <3>3. CASE e \in {<< >>, Dot}
      <4>1. Resolve(st, e) = st
        BY <3>3, ResolveIs
      <4> HIDE DEF S
      <4>2. Tracks(t, st, p)
        BY <2>1, <2>2, <2>3, <3>3, TracksSkip
      <4> QED
        BY <2>3, <4>1, <4>2
    <3> QED
      BY <3>1, <3>2, <3>3
  <2> QED
    BY <2>2, <2>4 DEF t
<1> HIDE DEF G
<1>3. es \in G
  BY <1>1, <1>2, AppendInduct
<1> QED
  BY <1>3 DEF G

\* Elements that are picked at places in their order.
Places(m, p) == /\ m \in Nat /\ p \in [1 .. m -> Nat]
                /\ \A i, j \in 1 .. m : i < j => p[i] < p[j]

PlacesOf(m, p, K) == K = {p[x] : x \in 1 .. m}

LEMMA PlacesCount ==
  ASSUME NEW m, NEW p, Places(m, p), NEW k \in 0 .. m
  PROVE  Cardinality({p[x] : x \in 1 .. k}) = k
<1> DEFINE T == {p[x] : x \in 1 .. k}
           g == [x \in 1 .. k |-> p[x]]
<1>1. k \in Nat /\ \A x \in 1 .. k : x \in 1 .. m
  BY DEF Places
<1>2. g \in [1 .. k -> T]
  OBVIOUS
<1>3. \A x, y \in 1 .. k : g[x] = g[y] => x = y
  <2> TAKE x, y \in 1 .. k
  <2>1. x \in 1 .. m /\ y \in 1 .. m /\ g[x] = p[x] /\ g[y] = p[y]
    BY <1>1
  <2>2. p[x] \in Nat /\ p[y] \in Nat /\ x \in Int /\ y \in Int
    BY <2>1 DEF Places
  <2>3. (x < y => p[x] < p[y]) /\ (y < x => p[y] < p[x])
    BY <2>1 DEF Places
  <2> QED
    BY <2>1, <2>2, <2>3
<1>4. \A t \in T : \E x \in 1 .. k : g[x] = t
  OBVIOUS
<1> HIDE DEF g, T
<1>5. g \in Bijection(1 .. k, T)
  <2>1. g \in Injection(1 .. k, T)
    BY <1>2, <1>3 DEF Injection, IsInjective
  <2>2. g \in Surjection(1 .. k, T)
    BY <1>2, <1>4 DEF Surjection
  <2> QED
    BY <2>1, <2>2 DEF Bijection
<1>6. ExistsBijection(1 .. k, T)
  BY <1>5 DEF ExistsBijection
<1> QED
  BY <1>1, <1>6, FS_CountingElements DEF T

PickedAt(es, K, m, p) == Picked(es, K) = [i \in 1 .. m |-> es[p[i]]]

LEMMA PickedIs ==
  ASSUME NEW es, NEW m, NEW p, Places(m, p),
         NEW K, PlacesOf(m, p, K)
  PROVE  PickedAt(es, K, m, p)
<1>1. m \in Nat /\ m \in 0 .. m /\ K = {p[x] : x \in 1 .. m}
  BY DEF Places, PlacesOf
<1>2. Cardinality(K) = m
  BY <1>1, PlacesCount
<1>3. ASSUME NEW i \in 1 .. m
      PROVE  Cardinality({j \in K : j <= p[i]}) = i
  <2>1. {j \in K : j <= p[i]} = {p[x] : x \in 1 .. i}
    <3>1. \A x \in 1 .. m : x \in Int /\ p[x] \in Nat
      BY DEF Places
    <3>2. ASSUME NEW x \in 1 .. m
          PROVE  p[x] <= p[i] <=> x \in 1 .. i
      <4>1. /\ x < i => p[x] < p[i]
            /\ i < x => p[i] < p[x]
        BY DEF Places
      <4>2. CASE x = i
        BY <3>1, <4>2
      <4>3. CASE x < i
        BY <3>1, <4>1, <4>3
      <4>4. CASE i < x
        BY <3>1, <4>1, <4>4
      <4> QED
        BY <3>1, <4>2, <4>3, <4>4
    <3>3. \A x \in 1 .. i : x \in 1 .. m
      BY <1>1
    <3> QED
      BY <1>1, <3>2, <3>3
  <2>2. i \in 0 .. m
    BY <1>1
  <2> QED
    BY <2>1, <2>2, PlacesCount
<1>4. ASSUME NEW n \in 1 .. m
      PROVE  (CHOOSE i \in K : Cardinality({j \in K : j <= i}) = n) = p[n]
  <2> DEFINE Rank(i) == Cardinality({j \in K : j <= i})
             c == CHOOSE i \in K : Rank(i) = n
  <2>1. \A i \in 1 .. m : Rank(p[i]) = i
    BY <1>3
  <2>2. p[n] \in K
    BY <1>1
  <2> HIDE DEF Rank
  <2>3. c \in K /\ Rank(c) = n
    BY <2>1, <2>2
  <2> HIDE DEF c
  <2>4. PICK i \in 1 .. m : c = p[i]
    BY <1>1, <2>3
  <2>5. i = n
    BY <2>1, <2>3, <2>4
  <2>6. c = p[n]
    BY <2>4, <2>5
  <2> QED
    BY <2>6 DEF c, Rank
<1>5. \A n \in 1 .. m :
        es[CHOOSE i \in K : Cardinality({j \in K : j <= i}) = n] = es[p[n]]
  BY <1>4, Zenon
<1> QED
  BY <1>2, <1>5, Zenon DEF Picked, PickedAt

LEMMA StayingPicked ==
  ASSUME NEW E, NEW es \in Seq(E)
  PROVE  Picked(es, Staying(es)) = Resolved(es)
<1> DEFINE st == Resolved(es)
           m  == Len(st)
<1>1. PICK p : Tracks(es, st, p)
  BY ResolvedTracks
<1>2. st = [i \in 1 .. m |-> st[i]] /\ m \in Nat
  BY ResolvedAppend, SeqIs
<1> HIDE DEF st, m
<1>3. /\ p \in [1 .. m -> 1 .. Len(es)]
      /\ \A i, j \in 1 .. m : i < j => p[i] < p[j]
      /\ \A i \in 1 .. m : p[i] \in Staying(es) /\ st[i] = es[p[i]]
      /\ \A k \in Staying(es) : \E i \in 1 .. m : k = p[i]
  BY <1>1, Zenon DEF Tracks, m
<1>4. Places(m, p)
  <2>1. 1 .. Len(es) \subseteq Nat
    OBVIOUS
  <2>2. p \in [1 .. m -> Nat]
    BY <1>3, <2>1
  <2> QED
    BY <1>2, <1>3, <2>2 DEF Places
<1>5. PlacesOf(m, p, Staying(es))
  BY <1>3 DEF PlacesOf
<1>6. PickedAt(es, Staying(es), m, p)
  BY <1>4, <1>5, PickedIs
<1>7. [i \in 1 .. m |-> es[p[i]]] = [i \in 1 .. m |-> st[i]]
  BY <1>3
<1> QED
  BY <1>2, <1>6, <1>7 DEF st, PickedAt

\* The elements of a text that is put together.
LEMMA ConcatIs ==
  ASSUME NEW C, NEW s \in Seq(C), NEW a \in Seq(C)
  PROVE  s \o a \in Seq(C) /\ s \o << >> = s /\ << >> \o a = a
  OBVIOUS

LEMMA ConcatAppend ==
  ASSUME NEW C, NEW s \in Seq(C), NEW a \in Seq(C), NEW c \in C
  PROVE  s \o Append(a, c) = Append(s \o a, c) /\ Append(a, c) \in Seq(C)
  OBVIOUS

Concats(s, a, b) == s \o (a \o b) = (s \o a) \o b

LEMMA ConcatThree ==
  ASSUME NEW C, NEW s \in Seq(C), NEW a \in Seq(C), NEW b \in Seq(C)
  PROVE  Concats(s, a, b)
BY DEF Concats

Cut(s, X, b) == Elements(s) = Append(X, b)

LEMMA CutChar ==
  ASSUME NEW C, NEW s \in Seq(C), NEW X \in Seq(Seq(C \ {"/"})),
         NEW b \in Seq(C \ {"/"}), Cut(s, X, b), NEW c \in C
  PROVE  /\ c # "/" => Cut(Append(s, c), X, Append(b, c))
         /\ c = "/" => Cut(Append(s, c), Append(X, b), << >>)
<1>1. Elements(Append(s, c)) = AddChar(Elements(s), c)
  BY ElementsAppend
<1>2. Elements(Append(s, c)) = AddChar(Append(X, b), c)
  BY <1>1, Zenon DEF Cut
<1>3. \A x \in C :
        x # "/" => /\ AddChar(Append(X, b), x) = Append(X, Append(b, x))
                   /\ Append(b, x) \in Seq(C \ {"/"})
  BY AddCharIs, Zenon
<1>4. AddChar(Append(X, b), "/") = Append(Append(X, b), << >>)
  BY DEF AddChar
<1> QED
  BY <1>2, <1>3, <1>4, Zenon DEF Cut

LEMMA CutExtend ==
  ASSUME NEW C, NEW s \in Seq(C), NEW X \in Seq(Seq(C \ {"/"})),
         NEW b \in Seq(C \ {"/"}), Cut(s, X, b)
  PROVE  \A a \in Seq(C \ {"/"}) : Cut(s \o a, X, b \o a)
<1> DEFINE D == C \ {"/"}
           G == {a \in Seq(D) : Cut(s \o a, X, b \o a)}
<1>1. << >> \in G
  <2>1. << >> \in Seq(D) /\ s \o << >> = s /\ b \o << >> = b
    BY ConcatIs
  <2> QED
    BY <2>1
<1>2. Seq(D) \subseteq Seq(C) /\ \A c \in D : c \in C /\ c # "/"
  OBVIOUS
<1>3. ASSUME NEW a \in Seq(D), NEW c \in D, a \in G
      PROVE  Append(a, c) \in G
  <2> DEFINE d == b \o a
             t == s \o a
  <2>1. d \in Seq(D) /\ b \o Append(a, c) = Append(d, c)
        /\ Append(a, c) \in Seq(D)
    BY ConcatIs, ConcatAppend
  <2>2. t \in Seq(C) /\ s \o Append(a, c) = Append(t, c)
    <3>1. a \in Seq(C) /\ c \in C
      BY <1>2
    <3> QED
      BY <3>1, ConcatIs, ConcatAppend
  <2>3. Cut(t, X, d)
    BY <1>3
  <2> HIDE DEF d, t
  <2>4. Cut(Append(t, c), X, Append(d, c))
    BY <1>2, <2>1, <2>2, <2>3, CutChar
  <2> QED
    BY <2>1, <2>2, <2>4
<1> HIDE DEF G
<1>4. \A a \in Seq(D) : a \in G
  BY <1>1, <1>3, AppendInduct
<1> QED
  BY <1>4 DEF G

\* A slash and the elements of F, joined, are an empty element and those of F.
LEMMA ElementsJoined ==
  ASSUME NEW C, "/" \in C, NEW F \in Texts(C)
  PROVE  /\ Joined(F) \in Seq(C)
         /\ Elements(<<"/">> \o Joined(F)) = <<<< >>>> \o F
<1> DEFINE D     == C \ {"/"}
           n     == Len(F)
           slash == <<"/">>
           seqs  == [i \in DOMAIN F |-> IF i = 1 THEN F[i] ELSE slash \o F[i]]
           Upto(k) == <<<< >>>> \o SubSeq(F, 1, k)
<1>1. n \in Nat \ {0} /\ DOMAIN F = 1 .. n /\ \A i \in 1 .. n : F[i] \in Seq(D)
      /\ F \in Seq(Seq(D))
  BY DEF Texts
<1>2. Seq(D) \subseteq Seq(C) /\ slash \in Seq(C) /\ << >> \in Seq(D)
  OBVIOUS
<1>3. seqs \in Seq(Seq(C)) /\ Len(seqs) = n /\ seqs # << >>
      /\ \A i \in 1 .. n : seqs[i] = IF i = 1 THEN F[i] ELSE slash \o F[i]
  <2>1. \A i \in 1 .. n : (IF i = 1 THEN F[i] ELSE slash \o F[i]) \in Seq(C)
    <3> TAKE i \in 1 .. n
    <3>1. F[i] \in Seq(C)
      BY <1>1, <1>2
    <3> HIDE DEF slash
    <3>2. slash \o F[i] \in Seq(C)
      BY <1>2, <3>1, ConcatIs
    <3> QED
      BY <3>1, <3>2
  <2>2. seqs = [i \in 1 .. n |-> IF i = 1 THEN F[i] ELSE slash \o F[i]]
    BY <1>1
  <2> DEFINE S == Seq(C)
             piece(i) == IF i = 1 THEN F[i] ELSE slash \o F[i]
  <2>3. \A i \in 1 .. n : piece(i) \in S
    BY <2>1
  <2> HIDE DEF S, piece
  <2>4. [i \in 1 .. n |-> piece(i)] \in Seq(S)
        /\ Len([i \in 1 .. n |-> piece(i)]) = n
    BY <1>1, <2>3
  <2>5. seqs \in Seq(S) /\ Len(seqs) = n
    BY <2>2, <2>4 DEF piece
  <2> HIDE DEF seqs
  <2>6. seqs # << >>
    BY <1>1, <2>5
  <2>7. \A i \in 1 .. n : seqs[i] = IF i = 1 THEN F[i] ELSE slash \o F[i]
    BY <2>2, Zenon
  <2> QED
    BY <2>5, <2>6, <2>7 DEF S
<1>4. Joined(F) = FlattenSeq(seqs)
  BY DEF Joined
<1> HIDE DEF seqs
<1>5. PICK f : Accumulates(C, seqs, f)
  BY <1>3, AccumulatesExists
<1>6. Joined(F) = f[n]
  BY <1>3, <1>4, <1>5, FlattenIs
<1>7. /\ f[0] = << >> /\ \A k \in 0 .. n : f[k] \in Seq(C)
      /\ \A k \in 1 .. n : f[k] = f[k - 1] \o seqs[k]
  BY <1>3, <1>5 DEF Accumulates, Cat
<1>8. \A k \in 0 .. n : Upto(k) \in Seq(Seq(D)) /\ SubSeq(F, 1, k) \in Seq(Seq(D))
  <2> DEFINE S == Seq(D)
             e == << >>
  <2>1. e \in S
    OBVIOUS
  <2> HIDE DEF S, e
  <2>2. F \in Seq(S)
    BY <1>1 DEF S
  <2>3. \A k \in 0 .. Len(F) : /\ <<e>> \o SubSeq(F, 1, k) \in Seq(S)
                               /\ SubSeq(F, 1, k) \in Seq(S)
    BY <2>1, <2>2
  <2> QED
    BY <2>3 DEF S, e
<1> DEFINE H == {k \in 0 .. n : k = 0 \/ Elements(slash \o f[k]) = Upto(k)}
<1>9. Elements(slash) = Append(<<<< >>>>, << >>)
  <2>1. slash = Append(<< >>, "/")
    OBVIOUS
  <2>2. Elements(Append(<< >>, "/")) = AddChar(<<<< >>>>, "/")
    <3>1. << >> \in Seq(C)
      OBVIOUS
    <3> QED
      BY <3>1, ElementsAppend, Zenon
  <2>3. AddChar(<<<< >>>>, "/") = Append(<<<< >>>>, << >>)
    BY DEF AddChar
  <2> QED
    BY <2>1, <2>2, <2>3
<1>10. ASSUME NEW k \in 1 .. n, k - 1 \in H
       PROVE  k \in H
  <2>1. k \in 0 .. n /\ k - 1 \in 0 .. n
    BY <1>1
  <2> DEFINE x == F[k]
             X == Upto(k - 1)
  <2>2. x \in Seq(D) /\ X \in Seq(Seq(D)) /\ Upto(k) = Append(X, x)
    <3>1. x \in Seq(D) /\ X \in Seq(Seq(D))
      BY <1>1, <1>8, <2>1
    <3> DEFINE S == Seq(D)
               e == << >>
    <3>2. e \in S /\ F \in Seq(S) /\ x \in S
      BY <1>1, <3>1
    <3> HIDE DEF S, e
    <3>3. SubSeq(F, 1, k - 1) \in Seq(S)
          /\ SubSeq(F, 1, k) = Append(SubSeq(F, 1, k - 1), F[k])
      BY <1>1, <2>1, <3>2
    <3>4. <<e>> \o Append(SubSeq(F, 1, k - 1), x)
            = Append(<<e>> \o SubSeq(F, 1, k - 1), x)
      <4>1. <<e>> \in Seq(S)
        BY <3>2
      <4> QED
        BY <3>2, <3>3, <4>1, ConcatAppend
    <3> QED
      BY <3>1, <3>3, <3>4 DEF e
  <2>3. << >> \o x = x /\ x \in Seq(C)
    BY <1>2, <2>2, ConcatIs
  <2>4. CASE k = 1
    <3>1. f[k] = x
      <4> HIDE DEF slash
      <4>1. seqs[k] = x
        BY <1>3, <2>4, Zenon
      <4>2. f[k] = f[0] \o seqs[k]
        <5>1. k - 1 = 0
          BY <2>4
        <5> QED
          BY <1>7, <5>1
      <4> QED
        BY <1>7, <2>3, <4>1, <4>2
    <3>2. X = <<<< >>>>
      <4>1. SubSeq(F, 1, 0) = << >> /\ <<<< >>>> \o << >> = <<<< >>>>
        OBVIOUS
      <4>2. k - 1 = 0
        BY <2>4
      <4> QED
        BY <4>1, <4>2
    <3>3. Cut(slash, X, << >>)
      BY <1>9, <3>2, Zenon DEF Cut
    <3> HIDE DEF slash, x, X
    <3>4. Cut(slash \o x, X, << >> \o x)
      BY <1>2, <2>2, <3>3, CutExtend
    <3>5. Elements(slash \o f[k]) = Append(X, x)
      BY <2>3, <3>1, <3>4 DEF Cut
    <3> QED
      BY <2>1, <2>2, <3>5
  <2>5. CASE k # 1
    <3> DEFINE g == f[k - 1]
               s == slash \o g
    <3>1. f[k] = g \o (slash \o x) /\ g \in Seq(C)
      BY <1>3, <1>7, <2>1, <2>5
    <3>2. Elements(s) = X
      <4>1. k - 1 # 0
        BY <2>5
      <4>2. k - 1 = 0 \/ Elements(s) = X
        BY <1>10, Zenon
      <4> QED
        BY <4>1, <4>2, Zenon
    <3> HIDE DEF g, x, X, Upto
    <3>3. s \in Seq(C) /\ Append(s, "/") \in Seq(C)
      BY <1>2, <3>1, ConcatIs, ConcatAppend
    <3>4. slash \o (g \o (slash \o x)) = Append(s, "/") \o x
      <4>1. s \o slash = Append(s, "/")
        BY <3>3
      <4> HIDE DEF slash
      <4> DEFINE y == slash \o x
      <4>2. y \in Seq(C)
        BY <1>2, <2>3, ConcatIs
      <4>3. Concats(slash, g, y)
        BY <1>2, <3>1, <4>2, ConcatThree
      <4> HIDE DEF s
      <4>4. Concats(s, slash, x)
        BY <1>2, <2>3, <3>3, ConcatThree
      <4> QED
        BY <4>1, <4>3, <4>4, Zenon DEF Concats, s, y
    <3> HIDE DEF s
    <3>5. Cut(Append(s, "/"), X, << >>)
      <4>1. Elements(Append(s, "/")) = AddChar(X, "/")
        BY <3>2, <3>3, ElementsAppend
      <4> QED
        BY <4>1 DEF AddChar, Cut
    <3> HIDE DEF slash
    <3>6. Cut(Append(s, "/") \o x, X, << >> \o x)
      BY <1>2, <2>2, <3>3, <3>5, CutExtend
    <3>7. Elements(slash \o f[k]) = Append(X, x)
      BY <2>3, <3>1, <3>4, <3>6 DEF Cut
    <3> QED
      BY <2>1, <2>2, <3>7
  <2> QED
    BY <2>4, <2>5
<1>11. n \in H
  <2>1. 0 \in H
    BY <1>1
  <2> HIDE DEF H
  <2>2. \A k \in 0 .. n : k \in H
    BY <1>1, <1>10, <2>1, CountUp
  <2> QED
    BY <1>1, <2>2
<1>12. Elements(slash \o f[n]) = Upto(n) /\ f[n] \in Seq(C)
  BY <1>1, <1>7, <1>11
<1>13. SubSeq(F, 1, n) = F
  <2> DEFINE S == Seq(D)
  <2>1. F \in Seq(S)
    BY <1>1
  <2> HIDE DEF S
  <2> QED
    BY <2>1
<1> QED
  BY <1>6, <1>12, <1>13, Zenon

\* A text whose elements show a stack: behind an empty one they are the names
\* of the stack, and what follows is empty.
Shows(elems, st) ==
  /\ \A i \in 1 .. Len(st) : elems[i + 1] = st[i]
  /\ {i \in DOMAIN elems : elems[i] # << >>} = {i + 1 : i \in 1 .. Len(st)}

LEMMA ShownPicked ==
  ASSUME NEW S, NEW st \in Seq(S), NEW elems, Shows(elems, st)
  PROVE  Picked(elems, {i \in DOMAIN elems : elems[i] # << >>}) = st
<1> DEFINE m == Len(st)
           K == {i \in DOMAIN elems : elems[i] # << >>}
<1>1. st = [i \in 1 .. m |-> st[i]] /\ m \in Nat
  BY SeqIs
<1>2. /\ \A i \in 1 .. m : elems[i + 1] = st[i]
      /\ K = {i + 1 : i \in 1 .. m}
  BY DEF Shows
<1> HIDE DEF m, K
<1>3. \E p : Places(m, p) /\ PlacesOf(m, p, K) /\ \A i \in 1 .. m : p[i] = i + 1
  <2> DEFINE p == [i \in 1 .. m |-> i + 1]
  <2>1. \A i \in 1 .. m : i \in Nat /\ i + 1 \in Nat /\ p[i] = i + 1
    BY <1>1
  <2>2. p \in [1 .. m -> Nat]
    BY <2>1
  <2> HIDE DEF p
  <2>3. Places(m, p)
    BY <1>1, <2>1, <2>2 DEF Places
  <2>4. PlacesOf(m, p, K)
    BY <1>2, <2>1 DEF PlacesOf
  <2> QED
    BY <2>1, <2>3, <2>4
<1>4. PICK p : Places(m, p) /\ PlacesOf(m, p, K)
               /\ \A i \in 1 .. m : p[i] = i + 1
  BY <1>3, Zenon
<1>5. PickedAt(elems, K, m, p)
  BY <1>4, PickedIs
<1>6. [i \in 1 .. m |-> elems[p[i]]] = [i \in 1 .. m |-> st[i]]
  BY <1>2, <1>4
<1> QED
  BY <1>1, <1>5, <1>6 DEF K, PickedAt

LEMMA ShowsStack ==
  ASSUME NEW S, << >> \notin S, NEW st \in Seq(S)
  PROVE  Shows(<<<< >>>> \o st, st) /\ Shows(<<<< >>>> \o Append(st, << >>), st)
<1> DEFINE e == << >>
           T == S \cup {e}
           m == Len(st)
           Y == <<e>> \o st
           Z == <<e>> \o Append(st, e)
<1>1. e \notin S /\ e \in T /\ S \subseteq T
  OBVIOUS
<1> HIDE DEF e
<1>2. st \in Seq(T) /\ m \in Nat /\ \A i \in 1 .. m : st[i] \in S
  OBVIOUS
<1> HIDE DEF T
<1>3. /\ DOMAIN Y = 1 .. m + 1 /\ Y[1] = e
      /\ \A i \in 1 .. m : Y[i + 1] = st[i]
  BY <1>1, <1>2
<1>4. /\ DOMAIN Z = 1 .. m + 2 /\ Z[1] = e /\ Z[m + 2] = e
      /\ \A i \in 1 .. m : Z[i + 1] = st[i]
  <2> DEFINE a == Append(st, e)
  <2>1. /\ a \in Seq(T) /\ Len(a) = m + 1 /\ a[m + 1] = e
        /\ \A i \in 1 .. m : a[i] = st[i]
    BY <1>1, <1>2, AppendIs
  <2> HIDE DEF a, m
  <2>2. /\ DOMAIN (<<e>> \o a) = 1 .. m + 2 /\ (<<e>> \o a)[1] = e
        /\ \A i \in 1 .. m + 1 : (<<e>> \o a)[i + 1] = a[i]
    BY <1>1, <1>2, <2>1
  <2>3. (<<e>> \o a)[m + 2] = e
    <3>1. m + 1 \in 1 .. m + 1 /\ (m + 1) + 1 = m + 2
      BY <1>2
    <3> QED
      BY <2>1, <2>2, <3>1
  <2>4. \A i \in 1 .. m : i \in 1 .. m + 1
    BY <1>2
  <2> QED
    BY <2>1, <2>2, <2>3, <2>4 DEF a
<1> HIDE DEF Y, Z, m
<1>5. ASSUME NEW x, NEW h \in {m + 1, m + 2}, DOMAIN x = 1 .. h, x[1] = e,
             h = m + 2 => x[h] = e, \A i \in 1 .. m : x[i + 1] = st[i]
      PROVE  {i \in DOMAIN x : x[i] # e} = {i + 1 : i \in 1 .. m}
  <2>1. ASSUME NEW i \in 1 .. h, x[i] # e
        PROVE  \E j \in 1 .. m : i = j + 1
    <3>1. i # 1 /\ i # m + 2
      <4>1. i = m + 2 => h = m + 2
        BY <1>2, <1>5
      <4> QED
        BY <1>5, <2>1, <4>1
    <3>2. i - 1 \in 1 .. m /\ i = (i - 1) + 1
      BY <1>2, <1>5, <3>1
    <3> QED
      BY <3>2
  <2>2. ASSUME NEW j \in 1 .. m
        PROVE  j + 1 \in 1 .. h /\ x[j + 1] # e
    <3>1. j + 1 \in 1 .. h
      BY <1>2, <1>5
    <3>2. x[j + 1] \in S
      BY <1>2, <1>5
    <3> QED
      BY <1>1, <3>1, <3>2
  <2> QED
    BY <1>5, <2>1, <2>2
<1>6. Shows(Y, st)
  <2>1. {i \in DOMAIN Y : Y[i] # e} = {i + 1 : i \in 1 .. m}
    <3>1. m + 1 # m + 2
      BY <1>2
    <3> QED
      BY <1>3, <1>5, <3>1
  <2> QED
    BY <1>3, <2>1 DEF Shows, e, m
<1>7. Shows(Z, st)
  <2>1. {i \in DOMAIN Z : Z[i] # e} = {i + 1 : i \in 1 .. m}
    BY <1>4, <1>5
  <2> QED
    BY <1>4, <2>1 DEF Shows, e, m
<1> QED
  BY <1>6, <1>7 DEF Y, Z, e

\* The last element leaves the stack as Resolve would make it, or with an
\* empty element behind that.
LEMMA LastIs ==
  ASSUME NEW st, NEW elem
  PROVE  \/ ResolveLast(st, elem) = Resolve(st, elem)
         \/ ResolveLast(st, elem) = Append(Resolve(st, elem), << >>)
<1>1. DotDot # Dot /\ DotDot # << >> /\ Dot # << >>
  BY DEF DotDot, Dot
<1>2. CASE elem = Dot
  <2>1. Resolve(st, elem) = st
    BY <1>2, ResolveIs
  <2>2. ResolveLast(st, elem) = Append(st, << >>)
    BY <1>1, <1>2 DEF ResolveLast
  <2> QED
    BY <2>1, <2>2
<1>3. CASE elem = DotDot
  <2>1. Resolve(st, elem) = Pop(st)
    BY <1>3, ResolveIs
  <2>2. ResolveLast(st, elem) = Pop(st)
    BY <1>1, <1>3 DEF ResolveLast
  <2> QED
    BY <2>1, <2>2
<1>4. CASE elem \notin {Dot, DotDot}
  <2>1. ResolveLast(st, elem) = Append(st, elem)
    BY <1>4 DEF ResolveLast
  <2>2. CASE elem = << >>
    <3>1. Resolve(st, elem) = st
      BY <2>2, ResolveIs
    <3> QED
      BY <2>1, <2>2, <3>1
  <2>3. CASE elem # << >>
    <3>1. Resolve(st, elem) = Append(st, elem)
      BY <1>4, <2>3, ResolveIs
    <3> QED
      BY <2>1, <3>1
  <2> QED
    BY <2>2, <2>3
<1> QED
  BY <1>2, <1>3, <1>4

\* A path as a request may have it, for what the path of a URL was decoded to.
SentPath(path) == IF path = << >> THEN <<"/">> ELSE path

IsPathOf(s, path) == /\ path[1] = "/"
                 /\ Shows(Elements(path), Resolved(Elements(s)))

LEMMA AppendHas ==
  ASSUME NEW S, NEW a \in Seq(S), NEW z \in S
  PROVE  /\ Append(a, z) \in Seq(S) /\ Len(Append(a, z)) = Len(a) + 1
         /\ \A i \in 1 .. Len(a) : Append(a, z)[i] = a[i]
         /\ Append(a, z)[Len(a) + 1] = z
BY AppendIs

LEMMA OneBehindOne ==
  ASSUME NEW S, NEW x \in Seq(S), NEW y \in Seq(S), Len(x) = 1, Len(y) = 1,
         NEW f \in S
  PROVE  /\ Append(x, f) \in Seq(S) /\ Len(Append(x, f)) = 2
         /\ Append(x, f)[1] = x[1] /\ Append(x, f)[2] = f
         /\ x \o y \in Seq(S) /\ Len(x \o y) = 2
         /\ (x \o y)[1] = x[1] /\ (x \o y)[2] = y[1]
<1>1. 1 \in 1 .. Len(x) /\ Len(x) + 1 = 2
  OBVIOUS
<1>2. \A a \in Seq(S), z \in S :
        /\ Append(a, z) \in Seq(S) /\ Len(Append(a, z)) = Len(a) + 1
        /\ \A i \in 1 .. Len(a) : Append(a, z)[i] = a[i]
        /\ Append(a, z)[Len(a) + 1] = z
  BY AppendHas, Zenon
<1> DEFINE c == x \o y
<1>3. IsConcat(S, x, y, c)
  BY ConcatFacts
<1>4. c \in Seq(S) /\ Len(c) = 2 /\ c[1] = x[1] /\ c[2] = y[1]
  <2> HIDE DEF c
  <2> QED
    BY <1>1, <1>3 DEF IsConcat
<1> QED
  BY <1>1, <1>2, <1>4

LEMMA SmallSeqs ==
  ASSUME NEW e, NEW f
  PROVE  Append(<< >>, e) = <<e>> /\ Append(<<e>>, f) = <<e, f>>
         /\ <<e>> \o <<f>> = <<e, f>>
<1>1. Append(<< >>, e) = <<e>>
  OBVIOUS
<1>2. ASSUME NEW a, a \in Seq({e, f}), Len(a) = 2, a[1] = e, a[2] = f
      PROVE  a = <<e, f>>
  <2> DEFINE b == <<e, f>>
  <2>1. b \in Seq({e, f}) /\ Len(b) = 2 /\ b[1] = e /\ b[2] = f
    OBVIOUS
  <2> HIDE DEF b
  <2>2. a = [i \in 1 .. 2 |-> a[i]] /\ b = [i \in 1 .. 2 |-> b[i]]
    BY <1>2, <2>1, SeqIs
  <2>3. \A i \in 1 .. 2 : a[i] = b[i]
    BY <1>2, <2>1
  <2>4. a = b
    BY <2>2, <2>3
  <2> QED
    BY <2>4 DEF b
<1>3. Append(<<e>>, f) = <<e, f>> /\ <<e>> \o <<f>> = <<e, f>>
  <2> DEFINE x == <<e>>
             y == <<f>>
             S == {e, f}
  <2>0. e \in S /\ f \in S
    OBVIOUS
  <2>1. /\ x \in Seq(S) /\ Len(x) = 1 /\ x[1] = e
        /\ y \in Seq(S) /\ Len(y) = 1 /\ y[1] = f
    OBVIOUS
  <2> HIDE DEF x, y, S
  <2>2. /\ Append(x, f) \in Seq(S) /\ Len(Append(x, f)) = 2
        /\ Append(x, f)[1] = e /\ Append(x, f)[2] = f
    BY <2>0, <2>1, OneBehindOne
  <2>3. /\ x \o y \in Seq(S) /\ Len(x \o y) = 2
        /\ (x \o y)[1] = e /\ (x \o y)[2] = f
    BY <2>0, <2>1, OneBehindOne
  <2> QED
    BY <1>2, <2>2, <2>3 DEF x, y, S
<1> QED
  BY <1>1, <1>2, <1>3

LEMMA SmallTexts ==
  ASSUME NEW C
  PROVE  /\ << >> \in Seq(C) /\ <<"/">> = Append(<< >>, "/")
         /\ Append(<< >>, << >>) = <<<< >>>>
         /\ Append(<<<< >>>>, << >>) = <<<< >>, << >>>>
         /\ <<<< >>>> \o <<<< >>>> = <<<< >>, << >>>>
<1>1. << >> \in Seq(C)
  OBVIOUS
<1> QED
  BY <1>1, SmallSeqs, Zenon

LEMMA OneSlash ==
  ASSUME NEW C, "/" \in C
  PROVE  Elements(<<"/">>) = <<<< >>, << >>>>
<1>1. <<"/">> = Append(<< >>, "/") /\ << >> \in Seq(C)
  BY SmallTexts, Zenon
<1>2. Elements(Append(<< >>, "/")) = AddChar(Elements(<< >>), "/")
  BY <1>1, ElementsAppend, Zenon
<1>3. Elements(<< >>) = <<<< >>>>
  BY ElementsAppend, Zenon
<1>4. AddChar(<<<< >>>>, "/") = Append(<<<< >>>>, << >>)
  BY DEF AddChar
<1>5. Append(<<<< >>>>, << >>) = <<<< >>, << >>>>
  BY SmallTexts, Zenon
<1> QED
  BY <1>1, <1>2, <1>3, <1>4, <1>5, Zenon

\* The empty path, and ...
LEMMA NoPathFits == IsPathOf(<< >>, SentPath(normalize_path(<< >>)))
<1>1. SentPath(normalize_path(<< >>)) = <<"/">>
  BY Zenon DEF SentPath, normalize_path
<1>2. Elements(<<"/">>) = <<<< >>, << >>>>
  BY OneSlash, Zenon
<1>3. Elements(<< >>) = <<<< >>>>
  BY ElementsAppend, Zenon
<1>4. Resolved(<<<< >>>>) = << >>
  <2>1. << >> \in Seq({<< >>}) /\ << >> \in {<< >>}
        /\ <<<< >>>> = Append(<< >>, << >>)
    BY SmallTexts, Zenon
  <2>2. Resolved(Append(<< >>, << >>)) = Resolve(Resolved(<< >>), << >>)
    BY <2>1, ResolvedAppend, Zenon
  <2>3. Resolved(<< >>) = << >>
    BY ResolvedAppend, Zenon
  <2>4. Resolve(<< >>, << >>) = << >>
    BY ResolveIs
  <2> QED
    BY <2>1, <2>2, <2>3, <2>4, Zenon
<1>5. Shows(<<<< >>, << >>>>, << >>)
  <2>1. Shows(<<<< >>>> \o Append(<< >>, << >>), << >>)
    <3>1. << >> \in Seq({}) /\ << >> \notin {}
      BY SmallTexts, Zenon
    <3> QED
      BY <3>1, ShowsStack, Zenon
  <2>2. <<<< >>>> \o Append(<< >>, << >>) = <<<< >>, << >>>>
    BY SmallTexts, Zenon
  <2> QED
    BY <2>1, <2>2, Zenon
<1>6. <<"/">>[1] = "/"
  OBVIOUS
<1> QED
  BY <1>1, <1>2, <1>3, <1>4, <1>5, <1>6, Zenon DEF IsPathOf

\* ... every absolute one.
LEMMA PathFits ==
  ASSUME NEW C, "/" \in C, NEW s \in Seq(C), s # << >>, s[1] = "/"
  PROVE  IsPathOf(s, SentPath(normalize_path(s)))
<1> DEFINE D     == C \ {"/"}
           es    == Elements(s)
           E     == Seq(D)
           rest  == Resolved(Front(es))
           F     == ResolveLast(rest, Last(es))
           st    == Resolved(es)
           slash == <<"/">>
           path  == slash \o Joined(F)
<1>1. es \in Texts(C)
  BY ElementsAppend
<1>2. /\ Front(es) \in Seq(E) /\ Last(es) \in E
      /\ es = Append(Front(es), Last(es)) /\ es \in Seq(E)
  BY <1>1, TextsSplit DEF Texts
<1>3. normalize_path(s) = path
  BY Zenon DEF normalize_path
<1> HIDE DEF es
<1>4. st \in Seq(NameOf(E)) /\ st = Resolve(rest, Last(es))
  <2> HIDE DEF E
  <2>1. st \in Seq(NameOf(E))
    BY <1>2, ResolvedAppend, Zenon
  <2>2. Resolved(Append(Front(es), Last(es))) = Resolve(rest, Last(es))
    BY <1>2, ResolvedAppend, Zenon
  <2> QED
    BY <1>2, <2>1, <2>2
<1>5. F = st \/ F = Append(st, << >>)
  BY <1>4, LastIs
<1> HIDE DEF F, st, rest, slash
<1>6. << >> \notin NameOf(E) /\ st \in Seq(E)
  <2>1. NameOf(E) \subseteq E /\ << >> \notin NameOf(E)
    BY DEF NameOf
  <2> HIDE DEF E
  <2> QED
    BY <1>4, <2>1
<1>7. Shows(<<<< >>>> \o st, st) /\ Shows(<<<< >>>> \o Append(st, << >>), st)
  BY <1>4, <1>6, ShowsStack, Zenon
<1>8. slash \in Seq(C) /\ slash[1] = "/" /\ slash # << >> /\ Len(slash) = 1
  BY DEF slash
<1>9. /\ Joined(F) \in Seq(C) /\ Shows(Elements(path), st)
  <2>1. CASE F # << >>
    <3>1. F \in Texts(C)
      <4>1. << >> \in E
        OBVIOUS
      <4> HIDE DEF E
      <4>2. Append(st, << >>) \in Seq(E)
        BY <1>6, <4>1, AppendIs
      <4> QED
        BY <1>5, <1>6, <2>1, <4>2 DEF Texts, E
    <3>2. Joined(F) \in Seq(C) /\ Elements(path) = <<<< >>>> \o F
      BY <3>1, ElementsJoined DEF slash
    <3> QED
      BY <1>5, <1>7, <3>2
  <2>2. CASE F = << >>
    <3>1. Joined(F) = << >>
      <4>1. [i \in DOMAIN F |-> IF i = 1 THEN F[i] ELSE <<"/">> \o F[i]] = << >>
        BY <2>2
      <4>2. FlattenSeq(<< >>) = << >>
        BY DEF FlattenSeq
      <4> QED
        BY <4>1, <4>2, Zenon DEF Joined
    <3>2. path = slash /\ << >> \in Seq(C)
      BY <1>8, <3>1, ConcatIs
    <3>3. st = << >>
      <4>1. Append(st, << >>) # << >>
        <5>1. << >> \in E
          OBVIOUS
        <5> HIDE DEF E
        <5> QED
          BY <1>6, <5>1, AppendIs
      <4> QED
        BY <1>5, <2>2, <4>1
    <3>4. <<<< >>>> \o Append(<< >>, << >>) = <<<< >>, << >>>>
      BY SmallTexts, Zenon
    <3>5. Elements(slash) = <<<< >>, << >>>>
      BY OneSlash, Zenon DEF slash
    <3> QED
      BY <1>7, <3>1, <3>2, <3>3, <3>4, <3>5, Zenon
  <2> QED
    BY <2>1, <2>2
<1>10. path[1] = "/" /\ path # << >>
  <2> DEFINE x == Joined(F)
  <2> HIDE DEF x
  <2>1. x \in Seq(C)
    BY <1>9 DEF x
  <2>2. (slash \o x)[1] = slash[1] /\ slash \o x # << >>
    BY <1>8, <2>1
  <2> QED
    BY <1>8, <2>2 DEF x
<1> HIDE DEF path
<1>11. SentPath(normalize_path(s)) = path
  BY <1>3, <1>10, Zenon DEF SentPath
<1> QED
  BY <1>9, <1>10, <1>11, Zenon DEF IsPathOf, st, es

\* What is decoded is as long as before, and a slash remains one.
LEMMA DecodeIs ==
  ASSUME NEW C, NEW s \in Seq(C)
  PROVE  \E D : /\ "/" \in D /\ decode(s) \in Seq(D)
                /\ s = << >> => decode(s) = << >>
                /\ s # << >> /\ s[1] = "/" => decode(s) # << >>
                                              /\ decode(s)[1] = "/"
<1> DEFINE n == Len(s)
           g(i) == IF s[i] \in DOMAIN Escaped THEN Escaped[s[i]] ELSE s[i]
           d == [i \in 1 .. n |-> g(i)]
           D == {g(i) : i \in 1 .. n} \cup {"/"}
<1>1. n \in Nat /\ DOMAIN s = 1 .. n /\ (n = 0 => s = << >>)
      /\ (s = << >> => n = 0)
  OBVIOUS
<1>2. decode(s) = d
  BY <1>1 DEF decode
<1>3. "/" \notin DOMAIN Escaped
  BY DEF Escaped
<1>4. s[1] = "/" => g(1) = "/"
  BY <1>3
<1>5. \A i \in 1 .. n : g(i) \in D
  OBVIOUS
<1>6. "/" \in D
  OBVIOUS
<1> HIDE DEF g, D, n
<1>7. d \in Seq(D) /\ Len(d) = n /\ \A i \in 1 .. n : d[i] = g(i)
  BY <1>1, <1>5
<1> HIDE DEF d
<1>8. n = 0 => d = << >>
  BY <1>7
<1>9. n # 0 => d # << >> /\ d[1] = g(1)
  BY <1>1, <1>7
<1> QED
  BY <1>1, <1>2, <1>4, <1>6, <1>7, <1>8, <1>9

\* The path of a socket for the URL u.
PathIsFor(u, path) ==
  LET given == Elements(decode(u.path))
      asked == Elements(path)
  IN  /\ path[1] = "/"
      /\ Picked(asked, {i \in DOMAIN asked : asked[i] # << >>})
           = Picked(given, Staying(given))

LEMMA PathOf ==
  ASSUME NEW u, InParts(u)
  PROVE  PathIsFor(u, SentPath(normalize_path(decode(u.path))))
<1> DEFINE d == decode(u.path)
           path == SentPath(normalize_path(d))
           given == Elements(d)
           asked == Elements(path)
           st == Resolved(given)
<1>1. u.path \in Seq(UrlChar \ {"?", "#"}) /\ (u.path # << >> => u.path[1] = "/")
  BY DEF InParts
<1>2. PICK C : /\ "/" \in C /\ d \in Seq(C)
               /\ u.path = << >> => d = << >>
               /\ u.path # << >> /\ u.path[1] = "/" => d # << >> /\ d[1] = "/"
  BY <1>1, DecodeIs, Zenon
<1> HIDE DEF d
<1>3. IsPathOf(d, path)
  <2>1. CASE d = << >>
    BY <2>1, NoPathFits
  <2>2. CASE d # << >>
    BY <1>1, <1>2, <2>2, PathFits
  <2> QED
    BY <2>1, <2>2
<1> DEFINE E == Seq(C \ {"/"})
<1>4. given \in Seq(E)
  <2>1. given \in Texts(C)
    BY <1>2, ElementsAppend, Zenon
  <2> QED
    BY <2>1 DEF Texts
<1> HIDE DEF given, path, asked
<1>5. Picked(given, Staying(given)) = st /\ st \in Seq(NameOf(E))
  <2> HIDE DEF E
  <2> QED
    BY <1>4, StayingPicked, ResolvedAppend, Zenon
<1>6. path[1] = "/" /\ Shows(asked, st)
  BY <1>3 DEF IsPathOf, given, asked
<1>7. Picked(asked, {i \in DOMAIN asked : asked[i] # << >>}) = st
  <2> HIDE DEF st, E
  <2> QED
    BY <1>5, <1>6, ShownPicked, Zenon
<1> QED
  BY <1>5, <1>6, <1>7, Zenon DEF PathIsFor, given, asked, path, d

----------------------------------------------------------------------------
(* The socket.                                                             *)

\* What createWebSocketFromURL makes of a URL, whatever its scheme is.
Described(u, c) ==
  /\ c.outcome = "socket" <=> Accepted(u)
  /\ c.outcome = "socket" =>
       /\ c.kind # "ws" <=> AsksTls(u)
       /\ c.host = to_lower(u.host)
       /\ c.port = IF u.port # << >> THEN Number(u.port[1])
                   ELSE IF AsksTls(u) THEN 443 ELSE 80
       /\ c.path = SentPath(normalize_path(decode(u.path)))
  /\ c.outcome # "none"

\* The shape of createWebSocketFromURL.
LEMMA SocketOf ==
  ASSUME NEW text, NEW verify, NEW w, w = parse_url(text), NEW number,
         number = IF w.port # << >> THEN stoi(w.port)
                  ELSE IF w.scheme \in {<<"https">>, <<"wss">>} THEN 443
                  ELSE 80,
         NEW c, c = createWebSocketFromURL(text, verify)
  PROVE  /\ c.outcome = "socket" <=> w.valid /\ number # -1 /\ w.host # << >>
         /\ c.outcome # "none"
         /\ c.outcome = "socket" =>
              /\ c.kind # "ws" <=> w.scheme \in {<<"https">>, <<"wss">>}
              /\ c.host = w.host /\ c.port = uint16(number)
              /\ c.path = SentPath(w.path)
<1> DEFINE tls  == w.scheme \in {<<"https">>, <<"wss">>}
           kind == IF ~tls THEN "ws"
                   ELSE IF verify THEN "wss" ELSE "wss_noverify"
           path == SentPath(w.path)
           made == [outcome |-> "socket", kind |-> kind, host |-> w.host,
                    port |-> uint16(number), path |-> path]
<1>1. c = IF ~w.valid THEN NoSocket("invalid_argument")
          ELSE IF number = -1 THEN NoSocket("out_of_range")
          ELSE IF w.host = << >> THEN NoSocket("invalid_argument")
          ELSE made
  <2> DEFINE x == parse_url(text)
             k == IF x.port # << >> THEN stoi(x.port)
                  ELSE IF x.scheme \in {<<"https">>, <<"wss">>} THEN 443
                  ELSE 80
             xTls == x.scheme \in {<<"https">>, <<"wss">>}
  <2>1. c = IF ~x.valid THEN NoSocket("invalid_argument")
            ELSE IF k = -1 THEN NoSocket("out_of_range")
            ELSE IF x.host = << >> THEN NoSocket("invalid_argument")
            ELSE [outcome |-> "socket",
                  kind |-> IF ~xTls THEN "ws"
                           ELSE IF verify THEN "wss" ELSE "wss_noverify",
                  host |-> x.host, port |-> uint16(k),
                  path |-> SentPath(x.path)]
    BY Zenon DEF createWebSocketFromURL, SentPath
  <2>2. x = w
    OBVIOUS
  <2> HIDE DEF x
  <2>3. k = number /\ (xTls <=> tls)
    BY <2>2
  <2> HIDE DEF k, xTls, tls
  <2> QED
    BY <2>1, <2>2, <2>3
<1>2. kind # "ws" <=> tls
  OBVIOUS
<1> HIDE DEF kind, path, tls
<1>3. /\ made.outcome = "socket" /\ made.kind = kind /\ made.host = w.host
      /\ made.port = uint16(number) /\ made.path = path
  OBVIOUS
<1>4. NoSocket("invalid_argument").outcome = "invalid_argument"
      /\ NoSocket("out_of_range").outcome = "out_of_range"
  BY DEF NoSocket
<1> DEFINE minus == -1
<1>5. c = IF ~w.valid THEN NoSocket("invalid_argument")
          ELSE IF number = minus THEN NoSocket("out_of_range")
          ELSE IF w.host = << >> THEN NoSocket("invalid_argument")
          ELSE made
  BY <1>1, Zenon
<1> HIDE DEF made, minus
<1>6. /\ c.outcome = "socket" <=> w.valid /\ number # minus /\ w.host # << >>
      /\ c.outcome # "none" /\ (c.outcome = "socket" => c = made)
  <2>1. CASE ~w.valid
    <3>1. c.outcome = "invalid_argument"
      BY <1>4, <1>5, <2>1, Zenon
    <3> QED
      BY <2>1, <3>1
  <2>2. CASE w.valid /\ number = minus
    <3>1. c.outcome = "out_of_range"
      BY <1>4, <1>5, <2>2, Zenon
    <3> QED
      BY <2>2, <3>1
  <2>3. CASE w.valid /\ number # minus /\ w.host = << >>
    <3>1. c.outcome = "invalid_argument"
      BY <1>4, <1>5, <2>3, Zenon
    <3> QED
      BY <2>3, <3>1
  <2>4. CASE w.valid /\ number # minus /\ w.host # << >>
    <3>1. c = made /\ c.outcome = "socket"
      BY <1>3, <1>5, <2>4, Zenon
    <3> QED
      BY <2>4, <3>1
  <2> QED
    BY <2>1, <2>2, <2>3, <2>4, Zenon
<1>7. c.outcome = "socket" => /\ c.kind # "ws" <=> tls
                              /\ c.host = w.host /\ c.port = uint16(number)
                              /\ c.path = path
  BY <1>2, <1>3, <1>6, Zenon
<1> QED
  BY <1>6, <1>7, Zenon DEF tls, minus, path

\* The ports of a URL that names none.
LEMMA DefaultPorts ==
  /\ uint16(443) = 443 /\ uint16(80) = 80 /\ 443 # -1 /\ 80 # -1
BY SMT DEF uint16

\* A socket is made of exactly the accepted URLs, and it is theirs.
LEMMA SocketMade ==
  ASSUME NEW u, InParts(u), NEW verify
  PROVE  Described(u, createWebSocketFromURL(Text(u), verify))
<1> DEFINE text == Text(u)
           w == parse_url(text)
           c == createWebSocketFromURL(text, verify)
           std == IF w.scheme \in {<<"https">>, <<"wss">>} THEN 443 ELSE 80
           number == IF w.port # << >> THEN stoi(w.port) ELSE std
           minus == -1
           p == PartOf(u.port)
<1> HIDE DEF text
<1>1. /\ c.outcome = "socket" <=> w.valid /\ number # minus /\ w.host # << >>
      /\ c.outcome # "none"
      /\ c.outcome = "socket" =>
           /\ c.kind # "ws" <=> w.scheme \in {<<"https">>, <<"wss">>}
           /\ c.host = w.host /\ c.port = uint16(number)
           /\ c.path = SentPath(w.path)
  BY SocketOf
<1>2. uint16(std) = std /\ std # minus
  BY DefaultPorts, Zenon
<1> HIDE DEF c
<1>3. CASE u.slashes = << >>
  <2>1. w.host = << >>
    BY <1>3, NoHost, Zenon DEF text
  <2>2. ~Accepted(u)
    BY <1>3, AcceptedIs, Zenon
  <2> HIDE DEF w, number, minus
  <2>3. c.outcome # "socket" /\ c.outcome # "none"
    BY <1>1, <2>1, Zenon
  <2> QED
    BY <2>2, <2>3, Zenon DEF Described, c, text
<1>4. CASE u.slashes # << >>
  <2>1. /\ w.valid <=> Legal(u)
        /\ w.scheme = to_lower(PartOf(u.scheme))
        /\ w.host = to_lower(u.host) /\ w.port = p
        /\ w.path = normalize_path(decode(u.path))
    BY <1>4, Parsed, Zenon DEF text
  <2>2. w.scheme \in {<<"https">>, <<"wss">>} <=> AsksTls(u)
    BY <2>1, TlsScheme, Zenon
  <2>3. w.host # << >> <=> u.host # << >>
    <3>1. u.host \in Seq(UrlChar \ {"@", ":", "/", "?", "#"})
      BY DEF InParts
    <3> QED
      BY <2>1, <3>1, LowerEmpty, Zenon
  <2>4. std = IF AsksTls(u) THEN 443 ELSE 80
    BY <2>2, Zenon
  <2> HIDE DEF std
  <2> HIDE DEF w
  <2>5. p \in Seq(UrlChar)
    BY PartIs DEF InParts
  <2> HIDE DEF minus
  <2>6. /\ is_port(p) /\ stoi(p) # minus <=> IsPort(p)
        /\ IsPort(p) => uint16(stoi(p)) = Number(p)
    BY <2>5, PortAgrees, Zenon DEF minus
  <2>7. u.port = << >> => p = << >>
    BY Zenon DEF PartOf
  <2>8. u.port # << >> => u.port[1] = p
    BY Zenon DEF PartOf
  <2>9. is_port(p) => p # << >>
    BY Zenon DEF is_port
  <2>10. Legal(u) /\ u.port # << >> => is_port(p)
    BY Zenon DEF Legal
  <2> HIDE DEF p
  <2>11. Legal(u) /\ number # minus
           <=> Legal(u) /\ (u.port # << >> => IsPort(p))
    <3>1. CASE u.port = << >>
      BY <1>2, <2>1, <2>7, <3>1, Zenon
    <3>2. CASE u.port # << >>
      <4>1. Legal(u) => is_port(p) /\ number = stoi(p)
        BY <2>1, <2>9, <2>10, <3>2, Zenon
      <4> HIDE DEF number
      <4>2. CASE Legal(u)
        <5>1. number # minus <=> IsPort(p)
          BY <2>6, <4>1, <4>2, Zenon
        <5> QED
          BY <3>2, <4>2, <5>1, Zenon
      <4>3. CASE ~Legal(u)
        BY <4>3, Zenon
      <4> QED
        BY <4>2, <4>3, Zenon
    <3> QED
      BY <3>1, <3>2, Zenon
  <2>12. ASSUME Legal(u), u.port # << >> => IsPort(p)
         PROVE  uint16(number) = IF u.port # << >> THEN Number(u.port[1])
                                                   ELSE std
    <3>1. CASE u.port = << >>
      BY <1>2, <2>1, <2>7, <3>1, Zenon
    <3>2. CASE u.port # << >>
      <4>1. number = stoi(p) /\ IsPort(p)
        BY <2>1, <2>9, <2>10, <2>12, <3>2, Zenon
      <4> QED
        BY <2>6, <2>8, <3>2, <4>1, Zenon
    <3> QED
      BY <3>1, <3>2, Zenon
  <2> HIDE DEF number
  <2>13. Accepted(u) <=> /\ u.host # << >> /\ Legal(u)
                         /\ u.port # << >> => IsPort(p)
    BY <1>4, AcceptedIs, Zenon DEF p
  <2>14. c.outcome = "socket" <=> Accepted(u)
    BY <1>1, <2>1, <2>3, <2>11, <2>13, Zenon
  <2>15. ASSUME c.outcome = "socket"
         PROVE  /\ c.kind # "ws" <=> AsksTls(u)
                /\ c.host = to_lower(u.host)
                /\ c.port = IF u.port # << >> THEN Number(u.port[1]) ELSE std
                /\ c.path = SentPath(normalize_path(decode(u.path)))
    <3>1. Legal(u) /\ (u.port # << >> => IsPort(p))
      BY <2>13, <2>14, <2>15, Zenon
    <3>2. c.port = uint16(number)
      BY <1>1, <2>15, Zenon
    <3> QED
      BY <1>1, <2>1, <2>2, <2>12, <2>15, <3>1, <3>2, Zenon
  <2> HIDE DEF c
  <2>16. Described(u, c)
    BY <1>1, <2>4, <2>14, <2>15, SMT DEF Described
  <2> QED
    BY <2>16, Zenon DEF c, text
<1> QED
  BY <1>3, <1>4

----------------------------------------------------------------------------
(* The invariant.                                                          *)

UInv ==
  /\ url \in Urls
  /\ created.outcome # "none" => Described(url, created)
  /\ created.outcome = "none" => ~request.sent
  /\ request.sent => request.host = created.host
                     /\ request.port \cup {80} = {created.port, 80}

\* createWebSocket makes the socket that the URL describes.
LEMMA CreateDescribes ==
  ASSUME UInv, NEW verify \in BOOLEAN, createWebSocketOf(verify)
  PROVE  UInv'
<1>1. /\ created' = createWebSocketFromURL(Text(url), verify)
      /\ url' = url /\ request' = request /\ ~request.sent
  BY DEF createWebSocketOf, UInv
<1>2. url \in Urls /\ InParts(url)
  BY UrlAssumption DEF UInv
<1>3. Described(url, created')
  BY <1>1, <1>2, SocketMade
<1> QED
  BY <1>1, <1>2, <1>3 DEF UInv

\* The setters leave the socket and its URL alone.
LEMMA ConfigureDescribes ==
  ASSUME UInv, Configures
  PROVE  UInv'
BY DEF UInv, Configures, address

\* The request asks the host of the socket, at its port.
LEMMA StepDescribes ==
  ASSUME UInv, SocketStep
  PROVE  UInv'
<1>1. created.outcome = "socket" /\ url' = url /\ created' = created
  BY DEF SocketStep, address
<1>2. request' \in Decorated \/ request' = NoRequest \/ request' = request
  BY DEF SocketStep
<1>3. request' \in Decorated => request'.host = created.host
                                /\ request'.port = {created.port} \ {80}
  BY DEF Decorated
<1>4. ({created.port} \ {80}) \cup {80} = {created.port, 80}
  OBVIOUS
<1>5. ~NoRequest.sent
  BY DEF NoRequest
<1> QED
  BY <1>1, <1>2, <1>3, <1>4, <1>5 DEF UInv

\* What came of the URL stays what it describes, and a request asks its host.
THEOREM UrlInvariant == HandshakeSpec => []UInv
<1>1. HandshakeInit => UInv
  BY DEF HandshakeInit, UInv, NoSocket, NoRequest
<1>2. UInv /\ [HandshakeNext]_hvars => UInv'
  <2> SUFFICES ASSUME UInv, [HandshakeNext]_hvars PROVE UInv'
    OBVIOUS
  <2>1. CASE \E verify \in BOOLEAN : createWebSocketOf(verify)
    BY <2>1, CreateDescribes
  <2>2. CASE \E key \in CookieNames, value \in CookieValues :
               socketSetCookie(key, value)
    BY <2>2, ConfigureDescribes DEF socketSetCookie, setCookie
  <2>3. CASE \E key \in HeaderNames, value \in HeaderValues :
               socketSetHeader(key, value)
    BY <2>3, ConfigureDescribes DEF socketSetHeader, setHeader
  <2>4. CASE \E value \in BOOLEAN : socketSetMessageCompression(value)
    BY <2>4, ConfigureDescribes
       DEF socketSetMessageCompression, setPerMessageDeflate
  <2>5. CASE \E value \in BOOLEAN : socketSetDisableContextTakeover(value)
    BY <2>5, ConfigureDescribes
       DEF socketSetDisableContextTakeover, setDisableContextTakeover
  <2>6. CASE SocketStep
    BY <2>6, StepDescribes
  <2>7. CASE UNCHANGED hvars
    BY <2>7 DEF hvars, address, UInv
  <2> QED
    BY <2>1, <2>2, <2>3, <2>4, <2>5, <2>6, <2>7 DEF HandshakeNext
<1> QED
  BY <1>1, <1>2, PTL DEF HandshakeSpec

\* A documented scheme is one that the code takes.
LEMMA DocumentedAccepted ==
  ASSUME NEW u, DocumentedScheme(u)
  PROVE  Accepted(u) <=> WellFormed(u)
<1>1. u.scheme[1] \in {<<"ws">>, <<"wss">>, <<"WSS">>}
  BY SMT DEF DocumentedScheme
<1>2. \A c \in {"ws", "wss", "WSS"} : c \in Letters
  BY SMT DEF Letters, Capital
<1>3. \A c \in {"ws", "wss", "WSS"} : is_scheme(<<c>>)
  BY <1>2, SMT DEF is_scheme, is_alpha, is_chars
<1>4. is_scheme(u.scheme[1])
  BY <1>1, <1>3, Zenon
<1> QED
  BY <1>4, Zenon DEF Accepted, WellFormed

\* Of the URLs with a documented scheme exactly the well-formed ones, which are
\* no longer than MaxUrl, make a socket.  Every socket is for the host and port
\* of its URL, of the kind that the scheme asks for, and its requests ask that
\* host: no part passes for another and no port number wraps around.
THEOREM SocketAsDescribed == HandshakeSpec => []SocketMatchesUrl
<1>1. UInv => SocketMatchesUrl
  <2> SUFFICES ASSUME UInv, created.outcome # "none" PROVE SocketMatchesUrl
    BY DEF SocketMatchesUrl
  <2>1. DocumentedScheme(url) =>
          (created.outcome = "socket" <=> WellFormed(url))
    BY DocumentedAccepted, Zenon DEF UInv, Described
  <2>2. AsksPlain(url) => ~AsksTls(url)
    BY SMT DEF AsksTls, AsksPlain
  <2> QED
    BY <2>1, <2>2 DEF UInv, Described, SocketMatchesUrl
<1> QED
  BY <1>1, UrlInvariant, PTL

\* The path of a socket is absolute and holds exactly the names of the path of
\* its URL that no later ".." takes away, however long the path is and however
\* its dots and slashes are escaped.
THEOREM PathIsResolved == HandshakeSpec => []PathResolved
<1>1. UInv => PathResolved
  <2> SUFFICES ASSUME UInv, created.outcome = "socket"
               PROVE  PathIsFor(url, created.path)
    BY Zenon DEF PathResolved, PathIsFor
  <2>1. InParts(url)
    BY UrlAssumption DEF UInv
  <2>2. created.path = SentPath(normalize_path(decode(url.path)))
    BY Zenon DEF UInv, Described
  <2> QED
    BY <2>1, <2>2, PathOf, Zenon
<1> QED
  BY <1>1, UrlInvariant, PTL

=============================================================================
