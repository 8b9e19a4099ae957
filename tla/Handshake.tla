----------------------------- MODULE Handshake -----------------------------
(***************************************************************************)
(* What a socket sends to open its connection: the host and the path of    *)
(* the URL that createWebSocket was given, and the cookies, the headers    *)
(* and the compression options a script configures, composed with the      *)
(* socket of module GWSocket.  The options reach the stream when resetWS   *)
(* makes it and the request when the WebSocket handshake starts, both many *)
(* frames after open(); for a TLS socket the request is built only after   *)
(* the TLS handshake.                                                      *)
(*                                                                         *)
(* A text is a sequence of characters, one for each class that the checks  *)
(* tell apart.                                                             *)
(***************************************************************************)
EXTENDS GWSocket, Url

CONSTANTS
  Urls,                        \* the arguments of createWebSocket, in parts
  Opened,                      \* those whose socket the script goes on with
  CookieNames, CookieValues,   \* the arguments of setCookie ...
  HeaderNames, HeaderValues    \* ... and of setHeader

\* "x" is a letter, "semi" a semicolon, "quote" a double quote, comma or
\* backslash, "ctl" a control character and "obs" an octet above 0x7E.
Char == {"x", "=", "semi", "blank", "quote", "tab", "ctl", "obs"}

ASSUME TextAssumption ==
  CookieNames \cup CookieValues \cup HeaderNames \cup HeaderValues
    \subseteq Seq(Char)

\* A URL is given in parts, which its text separates: no part has a character
\* at which it would end, and a URL without an authority has a path that does
\* not begin with two slashes.
UrlChar == QueryChar \cup {"#", "blank"}

Optional(part, ends) == part \in Seq(Seq(UrlChar \ ends)) /\ Len(part) <= 1

InParts(u) ==
  /\ Optional(u.scheme, {":", "/", "?", "#"})
  /\ u.slashes \in {<< >>, <<"/", "/">>}
  /\ Optional(u.user, {"@", "/", "?", "#"})
  /\ u.host \in Seq(UrlChar \ {"@", ":", "/", "?", "#"})
  /\ Optional(u.port, {"@", "/", "?", "#"})
  /\ u.path \in Seq(UrlChar \ {"?", "#"})
  /\ u.path # << >> => u.path[1] = "/"
  /\ u.slashes = << >> /\ Len(u.path) > 1 => u.path[2] # "/"
  /\ Optional(u.query, {"#"}) /\ Optional(u.fragment, {})

ASSUME UrlAssumption == \A u \in Urls : InParts(u)

VARIABLES
  url,                     \* the last argument of createWebSocket, in parts
  created,                 \* and what came of it
  cookies, headers,        \* functions from names to values
  options,                 \* perMessageDeflate and disableContextTakeover
  streamOptions,           \* those the stream was made with
  request,                 \* the handshake request of this connection
  configured               \* history: the configuration when open() was
                           \* called, while the socket is not disconnected

config  == <<cookies, headers, options>>
address == <<url, created>>
hvars   == <<sock, address, config, streamOptions, request, configured>>

NoConfig  == <<<< >>, << >>, << >>>>
NoRequest == [sent |-> FALSE, host |-> << >>, port |-> {}, target |-> << >>,
              cookie |-> << >>, fields |-> {}]

\* The text of a URL: its parts, and the characters between them.
EndedBy(part, mark, rest) == IF part = << >> THEN rest
                             ELSE part[1] \o (<<mark>> \o rest)
LedBy(mark, part, rest)   == IF part = << >> THEN rest
                             ELSE <<mark>> \o (part[1] \o rest)

Authority(u) == EndedBy(u.user, "@", u.host \o LedBy(":", u.port, << >>))
Resource(u)  == u.path \o LedBy("?", u.query, LedBy("#", u.fragment, << >>))
Text(u) ==
  EndedBy(u.scheme, ":", u.slashes \o (Authority(u) \o Resource(u)))

\* There is no socket yet.
HandshakeInit ==
  /\ sock = NewSocket("ws")
  /\ url \in Urls /\ created = NoSocket("none")
  /\ cookies = << >> /\ headers = << >>
  /\ options = [deflate |-> FALSE, noTakeover |-> FALSE]
  /\ streamOptions = options
  /\ request = NoRequest
  /\ configured = NoConfig

----------------------------------------------------------------------------
(* The checks of names and values.                                         *)

Consists(text, chars) == \A i \in DOMAIN text : text[i] \in chars

isToken(text) == text # << >> /\ Consists(text, {"x"})

isFieldValue(text) == Consists(text, Char \ {"ctl"})

\* Faulty: the check for field values serves for cookies too.
isCookieValue_FieldValue(text) == isFieldValue(text)

isCookieValue(text) == Consists(text, {"x", "="})

----------------------------------------------------------------------------
(* The setters, which change nothing when they return false, and the Lua   *)
(* methods, which throw unless the socket is disconnected.                 *)

\* map[key] = value, for a map that may not have the key yet.
Assign(map, key, value) ==
  [k \in {key} \cup DOMAIN map |-> IF k = key THEN value ELSE map[k]]

Configures == /\ created.outcome = "socket" /\ url \in Opened
              /\ UNCHANGED <<sock, address, streamOptions, request, configured>>

setCookie(key, value) ==
  /\ isToken(key) /\ isCookieValue(value)
  /\ sock.state = "DISCONNECTED"
  /\ cookies' = Assign(cookies, key, value)
  /\ Configures /\ UNCHANGED <<headers, options>>

setHeader(key, value) ==
  /\ isToken(key) /\ isFieldValue(value)
  /\ sock.state = "DISCONNECTED"
  /\ headers' = Assign(headers, key, value)
  /\ Configures /\ UNCHANGED <<cookies, options>>

setPerMessageDeflate(value) ==
  /\ options' = [options EXCEPT !.deflate = value]
  /\ Configures /\ UNCHANGED <<cookies, headers>>

setDisableContextTakeover(value) ==
  /\ options' = [options EXCEPT !.noTakeover = value]
  /\ Configures /\ UNCHANGED <<cookies, headers>>

socketSetCookie(key, value) ==
  sock.state = "DISCONNECTED" /\ setCookie(key, value)

socketSetHeader(key, value) ==
  sock.state = "DISCONNECTED" /\ setHeader(key, value)

\* Faulty: does not look at the state.
socketSetMessageCompression_Unguarded(value) == setPerMessageDeflate(value)

socketSetMessageCompression(value) ==
  sock.state = "DISCONNECTED" /\ setPerMessageDeflate(value)

socketSetDisableContextTakeover(value) ==
  sock.state = "DISCONNECTED" /\ setDisableContextTakeover(value)

----------------------------------------------------------------------------
(* The steps of the socket.                                                *)

\* createWebSocket; an invalid_argument is reported and nothing is created.
createWebSocketOf(verify) ==
  /\ created.outcome = "none"
  /\ created' = createWebSocketFromURL(Text(url), verify)
  /\ sock' = NewSocket(created'.kind)
  /\ UNCHANGED <<url, config, streamOptions, request, configured>>

\* The value of the Cookie field, for an order of the cookies (that of an
\* unordered_map).
CookieText(order) ==
  FlattenSeq([i \in DOMAIN order |->
    (IF i = 1 THEN << >> ELSE <<"semi", "blank">>)
      \o order[i] \o <<"=">> \o cookies[order[i]]])

\* The request after the decorator that socketConnected passes on; its Host
\* field names the port unless that is 80.
Decorated ==
  {[sent   |-> TRUE,
    host   |-> created.host,
    port   |-> {created.port} \ {80},
    target |-> created.path,
    cookie |-> CookieText(order),
    fields |-> {<<key, headers[key]>> : key \in DOMAIN headers}] :
   order \in SetToSeqs(DOMAIN cookies)}

Starts(kind) == \E op \in sock'.pending \ sock.pending : op.kind = kind

\* A step of the socket leaves the configuration alone.  resetWS hands the
\* options to the stream it makes, and the start of the WebSocket handshake
\* runs the decorator.
SocketStep ==
  /\ created.outcome = "socket" /\ url \in Opened
  /\ Next
  /\ streamOptions' = IF sock'.stream # sock.stream THEN options
                                                    ELSE streamOptions
  /\ request' \in IF Starts("handshake") THEN Decorated
                 ELSE {IF sock'.state = "DISCONNECTED" THEN NoRequest
                                                       ELSE request}
  /\ configured' = IF Starts("resolve") THEN config
                   ELSE IF sock'.state = "DISCONNECTED" THEN NoConfig
                   ELSE configured
  /\ UNCHANGED <<address, config>>

HandshakeNext ==
  \/ \E verify \in BOOLEAN : createWebSocketOf(verify)
  \/ \E key \in CookieNames, value \in CookieValues :
       socketSetCookie(key, value)
  \/ \E key \in HeaderNames, value \in HeaderValues :
       socketSetHeader(key, value)
  \/ \E value \in BOOLEAN : socketSetMessageCompression(value)
  \/ \E value \in BOOLEAN : socketSetDisableContextTakeover(value)
  \/ SocketStep

HandshakeSpec == HandshakeInit /\ [][HandshakeNext]_hvars

----------------------------------------------------------------------------
(* Properties.                                                             *)

\* A connection is opened with the headers and the compression options that
\* were configured when open() was called, for a plain and for a TLS socket,
\* whatever the script does while the socket connects.
OpenedAsConfigured ==
  request.sent =>
    /\ request.fields = {<<key, configured[2][key]>> :
                           key \in DOMAIN configured[2]}
    /\ streamOptions = configured[3]

\* What a server reads in a Cookie field: pieces between semicolons, without
\* the blank in front, cut at their first "=".
Cuts(text) == {0, Len(text) + 1} \cup {i \in DOMAIN text : text[i] = "semi"}

PieceAt(text, cut) == SubSeq(text, IF cut = 0 THEN 1 ELSE cut + 2,
                             Min({i \in Cuts(text) : i > cut}) - 1)

PairOf(piece) ==
  LET equal == Min({i \in DOMAIN piece : piece[i] = "="}
                     \cup {Len(piece) + 1})
  IN  <<SubSeq(piece, 1, equal - 1), SubSeq(piece, equal + 1, Len(piece))>>

ReadCookies(text) ==
  IF text = << >> THEN {}
  ELSE {PairOf(PieceAt(text, cut)) : cut \in Cuts(text) \ {Len(text) + 1}}

\* The server reads exactly the cookies that were configured when open() was
\* called: the checks of names and values let nothing through that would
\* change where a cookie begins or ends.
CookiesArrive ==
  request.sent =>
    ReadCookies(request.cookie) = {<<key, configured[1][key]>> :
                                     key \in DOMAIN configured[1]}

\* The number that digits denote.
NextNumber(v, c) == v * 10 + digit(c)

Number(digits) == FoldLeft(NextNumber, 0, digits)

MaxPort == 65535

\* README.md: "URL's must include the scheme (Either ws:// or wss://)".
DocumentedScheme(u) == u.scheme \in {<<<<"ws">>>>, <<<<"wss">>>>, <<<<"WSS">>>>}

\* What may follow a scheme, by the syntax of URLs and the limit of parse_url.
RestWellFormed(u) ==
  /\ u.slashes # << >>
  /\ u.user # << >> => is_chars(u.user[1], UserChar)
  /\ u.host # << >> /\ is_chars(u.host, Plain)
  /\ u.port # << >> => /\ Len(u.port[1]) \in 1 .. 5
                       /\ \A i \in DOMAIN u.port[1] : is_num(u.port[1][i])
                       /\ u.port[1][1] = "0" => Len(u.port[1]) = 1
                       /\ Number(u.port[1]) <= MaxPort
  /\ is_chars(u.path, PathChar \ {"%bad"})
  /\ \A part \in ToSet(u.query) \cup ToSet(u.fragment) :
       is_chars(part, QueryChar \ {"%bad"})
  /\ Len(Text(u)) <= MaxUrl

\* Whether the parts make up a URL in the documented format.
WellFormed(u) == DocumentedScheme(u) /\ RestWellFormed(u)

\* Those that ask for TLS; tests/ssltest.lua connects with https.
AsksTls(u)   == u.scheme \in {<<<<"https">>>>, <<<<"wss">>>>, <<<<"WSS">>>>}
AsksPlain(u) == u.scheme = <<<<"ws">>>>

\* Of the URLs with a documented scheme exactly the well-formed ones make a
\* socket.  Whatever URL a socket is made of, it is for the host and the port
\* named there, and of the kind that the scheme asks for if it is a scheme of
\* the documentation or the test: no port number wraps around or is cut off on
\* its way, no part of a URL is taken for another, and the connection asks
\* that host.  Whether a URL with another scheme, or with none, makes a socket
\* is left open: the documentation says that it must not, the code does it.
SocketMatchesUrl ==
  created.outcome # "none" =>
    /\ DocumentedScheme(url) =>
         (created.outcome = "socket" <=> WellFormed(url))
    /\ created.outcome = "socket" =>
         /\ created.host = to_lower(url.host)
         /\ url.port # << >> => created.port = Number(url.port[1])
         /\ AsksTls(url) => /\ created.kind # "ws"
                            /\ url.port = << >> => created.port = 443
         /\ AsksPlain(url) => /\ created.kind = "ws"
                              /\ url.port = << >> => created.port = 80
    /\ request.sent =>
         request.host = created.host /\ request.port \cup {80}
                                         = {created.port, 80}

\* The elements at the positions K, in their order.
Picked(elems, K) ==
  [n \in 1 .. Cardinality(K) |->
     elems[CHOOSE i \in K : Cardinality({j \in K : j <= i}) = n]]

Names(elems, i, j) == {k \in i .. j : elems[k] \notin {<< >>, Dot, DotDot}}
Ups(elems, i, j)   == {k \in i .. j : elems[k] = DotDot}

\* The names on a path that no later ".." takes away: behind a name there are
\* never more of these than of further names.
Staying(elems) ==
  {i \in Names(elems, 1, Len(elems)) :
     \A j \in i + 1 .. Len(elems) :
       Cardinality(Ups(elems, i + 1, j)) <= Cardinality(Names(elems, i + 1, j))}

\* The path of the socket is absolute and holds exactly the names that remain
\* of the path of the URL; no "." or ".." is left, also not one that was
\* escaped.
PathResolved ==
  LET given == Elements(decode(url.path))
      asked == Elements(created.path)
  IN  created.outcome = "socket" =>
        /\ created.path[1] = "/"
        /\ Picked(asked, {i \in DOMAIN asked : asked[i] # << >>})
             = Picked(given, Staying(given))

\* GLua.cpp: createWebSocket throws an error of Lua for a URL that is not
\* valid.  No exception leaves it.
BadUrlIsReported == created.outcome # "out_of_range"

=============================================================================
