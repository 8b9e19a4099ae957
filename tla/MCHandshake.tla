---------------------------- MODULE MCHandshake ----------------------------
(* Handshake for TLC: texts that the checks accept and texts they refuse.  *)
EXTENDS Handshake

MCNames        == {<<"x">>, <<"x", "x">>, << >>, <<"x", "=">>}
MCCookieValues == {<< >>, <<"x", "=">>, <<"x", "semi", "blank", "x">>, <<"quote">>}
MCHeaderNames  == {<<"x">>, << >>, <<"blank">>}
MCHeaderValues == {<<"obs", "tab">>, <<"x", "ctl">>}

\* 0, 080, 65535, 65536, 65616 (80 more than 16 bits hold) and 4294967376 (80
\* more than 32 bits hold).
MCPorts == {<<"0">>, <<"0", "8", "0">>, <<"6", "5", "5", "3", "5">>,
            <<"6", "5", "5", "3", "6">>, <<"6", "5", "6", "1", "6">>,
            <<"4", "2", "9", "4", "9", "6", "7", "3", "7", "6">>,
            << >>, <<"8", "dir">>}

\* A URL that opens a TLS and one that opens a plain connection ...
MCSecure == [scheme |-> <<<<"WSS">>>>, slashes |-> <<"/", "/">>,
             user |-> << >>, host |-> <<"HOST">>, port |-> << >>,
             path |-> << >>, query |-> << >>, fragment |-> << >>]
MCPlain  == [MCSecure EXCEPT !.scheme = <<<<"ws">>>>,
                             !.port = <<<<"8", "0">>>>,
                             !.path = <<"/", "dir">>]
MCOpened == {MCSecure, MCPlain}

\* ... and those around them: every way to write the parts in front of the
\* path, and every path of up to four elements.  Some have as many characters
\* as MaxUrl = 18 allows, some more.
MCAuthorities ==
  [scheme : {<< >>, <<<<"ws">>>>, <<<<"https">>>>, <<<<"0">>>>, <<<< >>>>},
   slashes : {<<"/", "/">>, << >>},
   user : {<< >>, <<<<"dir", ":", "0">>>>, <<<<"%2E">>>>},
   host : {<< >>, <<"HOST", ".", "1">>, <<"blank">>},
   port : {<< >>} \cup {<<p>> : p \in MCPorts},
   path : {<< >>}, query : {<< >>, <<<<"@", "?", ":">>>>},
   fragment : {<< >>, <<<<"/", "%bad">>>>}]

MCElements == {<< >>, <<"dir">>, <<"%2E">>, <<".", ".">>, <<".", "%2E">>}
MCLong(n) == [i \in 1 .. n |-> IF i % 2 = 1 THEN "/" ELSE "dir"]
MCPaths == {<< >>, <<"/", "blank">>, <<"/", "%bad">>, <<"/", "dir", "%2F", ".">>,
            MCLong(13), MCLong(14)}
             \cup {FlattenSeq([i \in DOMAIN e |-> <<"/">> \o e[i]]) :
                     e \in BoundedSeq(MCElements, 4)}

MCUrls == MCOpened \cup MCAuthorities
            \cup {[MCSecure EXCEPT !.path = path] : path \in MCPaths}
=============================================================================
