-------------------------------- MODULE Url --------------------------------
(***************************************************************************)
(* The part of Url.cpp that the module uses: the parsing of a URL, and     *)
(* createWebSocketFromURL, which makes a socket of the result.             *)
(*                                                                         *)
(* A text is a sequence of characters.  A word of letters that the parser  *)
(* never looks into is one character here, and so is an escape: "%2E" and  *)
(* "%2F" stand for a dot and a slash, "%20" for a blank and "%bad" for a   *)
(* percent sign without two hexadecimal digits.  IP literals in brackets,  *)
(* and the values of the query and the fragment, which nothing reads, are  *)
(* left out.                                                               *)
(***************************************************************************)
EXTENDS Integers, SequencesExt

CONSTANT MaxUrl   \* the longest text that is parsed; 8000 in the code

ASSUME MaxUrlAssumption == MaxUrl \in Nat

\* Words, and those with capitals with what to_lower makes of them.
Capital == [WSS |-> "wss", HOST |-> "host"]
Letters == {"ws", "wss", "http", "https", "host", "dir"} \cup DOMAIN Capital
Digits  == <<"0", "1", "2", "3", "4", "5", "6", "7", "8", "9">>
Escaped == [c \in {"%2E", "%2F", "%20"} |->
              CASE c = "%2E" -> "." [] c = "%2F" -> "/" [] c = "%20" -> "blank"]

is_num(c)   == c \in ToSet(Digits)
is_alpha(c) == c \in Letters
digit(c)    == (CHOOSE i \in 1 .. 10 : Digits[i] = c) - 1

\* The classes of tbl: those of mask 0x01, and of masks with further bits.
Plain     == Letters \cup ToSet(Digits) \cup {".", "-", "+", "="}
Escape    == DOMAIN Escaped \cup {"%bad"}
UserChar  == Plain \cup {":"}                               \* 0x05
PathChar  == Plain \cup {"@", ":", "/"} \cup Escape         \* 0x2F
QueryChar == PathChar \cup {"?"}                            \* 0x3F

is_chars(s, mask) == \A i \in DOMAIN s : s[i] \in mask

\* The position of the first of the characters q, or the one behind the end.
find_first_of(s, q) ==
  Min({i \in DOMAIN s : s[i] \in q} \cup {Len(s) + 1})

Before(s, p) == SubSeq(s, 1, p - 1)
After(s, p)  == SubSeq(s, p + 1, Len(s))

to_lower(s) == [i \in DOMAIN s |-> IF s[i] \in DOMAIN Capital
                                   THEN Capital[s[i]] ELSE s[i]]

is_scheme(s) == /\ s # << >> /\ is_alpha(s[1])
                /\ is_chars(s, Letters \cup ToSet(Digits) \cup {"+", "-", "."})

\* The value that is_uint computes: 32 bits as <<high half, low half>>, since
\* it wraps around.
Next32(v, c) == LET low == v[2] * 10 + digit(c)
                IN  <<(v[1] * 10 + low \div 65536) % 65536, low % 65536>>

uint32(s) == FoldLeft(Next32, <<0, 0>>, s)

\* Faulty: any number.
is_port_AnyNumber(s) == s # << >> /\ \A i \in DOMAIN s : is_num(s[i])

\* is_uint(s, 65535) and nothing behind the number; after a leading zero it
\* does not read on.
is_port(s) == /\ s # << >> /\ \A i \in DOMAIN s : is_num(s[i])
              /\ s[1] = "0" => Len(s) = 1
              /\ uint32(s)[1] = 0

decodable(s) == "%bad" \notin ToSet(s)

decode(s) == [i \in DOMAIN s |-> IF s[i] \in DOMAIN Escaped
                                 THEN Escaped[s[i]] ELSE s[i]]

----------------------------------------------------------------------------
(* normalize_path                                                          *)

Dot    == <<".">>
DotDot == <<".", ".">>

\* The elements between slashes, and back again.
AddChar(elems, c) == IF c = "/" THEN Append(elems, << >>)
                     ELSE [elems EXCEPT ![Len(elems)] = Append(@, c)]

Elements(s) == FoldLeft(AddChar, <<<< >>>>, s)

Joined(elems) ==
  FlattenSeq([i \in DOMAIN elems |->
                IF i = 1 THEN elems[i] ELSE <<"/">> \o elems[i]])

Pop(elems) == IF elems = << >> THEN elems ELSE Front(elems)

Resolve(elems, elem) ==
  CASE elem \in {<< >>, Dot} -> elems
    [] elem = DotDot         -> Pop(elems)
    [] OTHER                 -> Append(elems, elem)

Resolved(elems) == FoldLeft(Resolve, << >>, elems)

\* Faulty: the last element is not looked at.
ResolveLast_Keeps(elems, elem) == Append(elems, elem)

\* The last element keeps the slash in front of it.
ResolveLast(elems, elem) ==
  CASE elem = Dot    -> Append(elems, << >>)
    [] elem = DotDot -> Pop(elems)
    [] OTHER         -> Append(elems, elem)

normalize_path(s) ==
  IF s = << >> THEN s
  ELSE LET elems == Elements(s)
           rest  == Resolved(Front(elems))
       IN  (IF s[1] = "/" THEN <<"/">> ELSE << >>)
             \o Joined(ResolveLast(rest, Last(elems)))

----------------------------------------------------------------------------

(* parse_url takes a text apart from the front.                            *)

\* "get schema if any"
SplitScheme(text) ==
  LET p == find_first_of(text, {":", "/", "?", "#"})
  IN  IF p <= Len(text) /\ text[p] = ":"
      THEN [found |-> TRUE, scheme |-> Before(text, p),
            rest |-> After(text, p)]
      ELSE [found |-> FALSE, scheme |-> << >>, rest |-> text]

\* "get authority if any"
SplitAuthority(rest) ==
  LET b  == After(rest, 2)
      ea == find_first_of(b, {"/", "?", "#"})
  IN  IF Len(rest) > 1 /\ rest[1] = "/" /\ rest[2] = "/"
      THEN [authority |-> Before(b, ea), tail |-> After(b, ea - 1)]
      ELSE [authority |-> << >>, tail |-> rest]

\* "get user info if any"
SplitUser(authority) ==
  LET at == find_first_of(authority, {"@"})
  IN  IF at <= Len(authority)
      THEN [user |-> Before(authority, at), address |-> After(authority, at)]
      ELSE [user |-> << >>, address |-> authority]

\* "get port if any"
SplitPort(address) ==
  LET colon == find_first_of(address, {":"})
  IN  IF colon <= Len(address)
      THEN [host |-> Before(address, colon), found |-> TRUE,
            port |-> After(address, colon)]
      ELSE [host |-> address, found |-> FALSE, port |-> << >>]

\* Path, query and fragment.
SplitTail(tail) ==
  LET pathEnd == find_first_of(tail, {"?", "#"})
      more    == After(tail, pathEnd)
      hash    == IF pathEnd <= Len(tail) /\ tail[pathEnd] = "#" THEN 0
                 ELSE find_first_of(more, {"#"})
  IN  [path |-> Before(tail, pathEnd), query |-> Before(more, hash),
       fragment |-> After(more, hash)]

\* Every check that fails throws a parse_error, so their order does not
\* matter.  A host of digits and dots needs no check of its own: its
\* characters are those of names.
parse_url(text) ==
  LET s == SplitScheme(text)
      a == SplitAuthority(s.rest)
      u == SplitUser(a.authority)
      p == SplitPort(u.address)
      t == SplitTail(a.tail)
  IN  [valid  |-> /\ Len(text) <= MaxUrl
                  /\ s.found => is_scheme(s.scheme)
                  /\ is_chars(u.user, UserChar)
                  /\ is_chars(p.host, Plain)
                  /\ p.found => is_port(p.port)
                  /\ is_chars(t.path, PathChar) /\ decodable(t.path)
                  /\ is_chars(t.query, QueryChar) /\ decodable(t.query)
                  /\ is_chars(t.fragment, QueryChar) /\ decodable(t.fragment),
       scheme |-> to_lower(s.scheme),
       host   |-> to_lower(p.host),
       port   |-> p.port,
       path   |-> normalize_path(decode(t.path))]

IntMax == 2147483647

\* std::stoi: the number, or -1 for std::out_of_range.
NextInt(v, c) == IF v = -1 \/ v > (IntMax - digit(c)) \div 10 THEN -1
                 ELSE v * 10 + digit(c)

stoi(s) == FoldLeft(NextInt, 0, s)

uint16(n) == n % 65536

\* What the script gets: a socket, or the exception that was thrown.
NoSocket(outcome) == [outcome |-> outcome, kind |-> "ws", host |-> << >>,
                      port |-> 0, path |-> << >>]

createWebSocketFromURL(text, verify) ==
  LET url    == parse_url(text)
      useSSL == url.scheme \in {<<"https">>, <<"wss">>}
      number == IF url.port # << >> THEN stoi(url.port)
                ELSE IF useSSL THEN 443 ELSE 80
  IN  IF ~url.valid THEN NoSocket("invalid_argument")
      ELSE IF number = -1 THEN NoSocket("out_of_range")
      ELSE IF url.host = << >> THEN NoSocket("invalid_argument")
      ELSE [outcome |-> "socket",
            kind    |-> IF ~useSSL THEN "ws"
                        ELSE IF verify THEN "wss"
                        ELSE "wss_noverify",
            host    |-> url.host,
            port    |-> uint16(number),
            path    |-> IF url.path = << >> THEN <<"/">> ELSE url.path]
=============================================================================
