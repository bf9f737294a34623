-------------------------- MODULE AddressRegistry ---------------------------
(***************************************************************************)
(* What the WebSocket server promises about addresses, without its         *)
(* threads, contexts and messages.  A client holds at most one address, an *)
(* address has at most one holder, and a client in service is the holder   *)
(* of its address.  Taking a held address ends the service of its holder   *)
(* in the same step; a client that leaves gives up what is its own and     *)
(* nothing else; a client whose service ends keeps its address until it    *)
(* leaves or the address is taken.  WsServer implements it.                *)
(***************************************************************************)
CONSTANTS
  Client,    \* whoever may hold an address
  Addr,      \* the addresses
  Nobody     \* holder of a free address

VARIABLES
  holder,    \* address |-> client
  serving    \* clients in service

registry == <<holder, serving>>

Init ==
  /\ holder = [a \in Addr |-> Nobody]
  /\ serving = {}

(* A client that holds nothing takes an address, in place of its holder.   *)
Take(c, a) ==
  /\ c \notin serving
  /\ \A b \in Addr : holder[b] /= c
  /\ holder' = [holder EXCEPT ![a] = c]
  /\ serving' \subseteq (serving \ {holder[a]}) \cup {c}

(* An address is taken by somebody who is not one of the clients.          *)
Lose(a) ==
  /\ holder' = [holder EXCEPT ![a] = Nobody]
  /\ serving' \subseteq serving \ {holder[a]}

(* The service of clients ends, before they have left.                     *)
Refuse ==
  /\ serving' \subseteq serving
  /\ UNCHANGED holder

(* A client leaves: its address is free again.                             *)
Drop(c) ==
  /\ holder' = [a \in Addr |-> IF holder[a] = c THEN Nobody ELSE holder[a]]
  /\ serving' = serving \ {c}

Next ==
  \/ Refuse
  \/ \E a \in Addr : Lose(a)
  \/ \E c \in Client : Drop(c) \/ \E a \in Addr : Take(c, a)

Spec == Init /\ [][Next]_registry
=============================================================================
