-------------------------- MODULE SocketLifecycle --------------------------
(***************************************************************************)
(* What a GWSockets socket promises the Lua script that owns it, with no   *)
(* word about operations, generations or streams: an opened socket either  *)
(* is established once (onConnected) and then receives messages, or never  *)
(* is; either way it ends exactly once, with onDisconnected as the last    *)
(* event, and an onError is always followed at once by an onDisconnected.  *)
(* Events wait in the inbox until the next webSocketThink.                 *)
(***************************************************************************)
EXTENDS Sequences

VARIABLES phase, inbox

vars == <<phase, inbox>>

Phase == {"closed", "opening", "open"}
Event == {"IN_CONNECTED", "IN_MESSAGE", "IN_ERROR", "IN_DISCONNECTED"}

TypeOK == phase \in Phase /\ inbox \in Seq(Event)

Init == phase = "closed" /\ inbox = << >>

\* Lua opens a closed socket; nothing is reported yet.
Open == /\ phase = "closed"
        /\ phase' = "opening"
        /\ UNCHANGED inbox

\* The connection is established.
Establish == /\ phase = "opening"
             /\ phase' = "open"
             /\ inbox' = Append(inbox, "IN_CONNECTED")

\* A message of the peer arrives on an established connection.
Receive == /\ phase = "open"
           /\ inbox' = Append(inbox, "IN_MESSAGE")
           /\ UNCHANGED phase

\* The attempt or the connection ends, because of an error or not.
Finish == /\ phase # "closed"
          /\ phase' = "closed"
          /\ \/ inbox' = Append(inbox, "IN_DISCONNECTED")
             \/ inbox' = Append(Append(inbox, "IN_ERROR"), "IN_DISCONNECTED")

\* webSocketThink takes everything that waits.
Deliver == /\ inbox' = << >>
           /\ UNCHANGED phase

Next == Open \/ Establish \/ Receive \/ Finish \/ Deliver

Spec == Init /\ [][Next]_vars

=============================================================================
