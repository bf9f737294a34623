----------------------------- MODULE PacketPath -----------------------------
(***************************************************************************)
(* A packet on its way through the clients (candy/src/peer/manager.cc:     *)
(* handlePacket, sendPacket, handleForwardMessage) and, when no peer link  *)
(* takes it, through the WebSocket server (websocket/server.cc, client.cc: *)
(* handleForwardMsg), while the routing tables of RouteTable change under  *)
(* it.  The table and the peers are read under two locks, one after the    *)
(* other, so a look-up and the sending that uses it are two steps.         *)
(*                                                                         *)
(* There is one packet.  All clients are connected to the server.  A       *)
(* connected peer has an address to send to (Peer, KnowsUnlessRaced);      *)
(* while raced handlers leave it without one, send fails as it does for a  *)
(* peer that is not connected.                                             *)
(***************************************************************************)
EXTENDS RouteTable

CONSTANTS
  P2POnly,   \* the nodes with the p2p-only option
  Link,      \* pairs that can connect, the others are kept apart by NATs
  Src, Dst   \* where the packet comes from, where it is to go

ASSUME PacketPathAssumption ==
  /\ Link \subseteq Pairs
  /\ P2POnly \subseteq Node
  /\ {Src, Dst} \subseteq Node /\ Src /= Dst

VARIABLES
  step,    \* "none": not sent yet; "queue": in peerMsgQueue of "at";
           \* "relay"/"direct": its look-up is done; "link", "server": on
           \* its way; "arrived", "dropped" (p2p-only) or "lost"
  at,      \* the node that has it
  hop,     \* ... and the one it is about to send it to
  faulty   \* something has broken down or been lost so far

packet == <<step, at, hop>>
pathVars == <<vars, packet, faulty>>

Steps == {"none", "queue", "relay", "direct", "link", "server", "arrived",
          "dropped", "lost"}

PathTypeOK ==
  /\ TypeOK
  /\ step \in Steps
  /\ {at, hop} \subseteq Node
  /\ faulty \in BOOLEAN

PathInit ==
  /\ Init
  /\ step = "none" /\ faulty = FALSE
  /\ at = Src /\ hop = Src

(* The tun module hands over a packet of this node.                        *)
Send == step = "none" /\ step' = "queue" /\ UNCHANGED <<at, hop>>

(* sendPacketRelay: look up the next hop; sendPacketDirect: to the         *)
(* destination itself, when there is no route ...                          *)
SendPacketRelay ==
  /\ step = "queue"
  /\ \/ /\ rtTable[at][Dst] /= NoRoute
        /\ step' = "relay" /\ hop' = rtTable[at][Dst].next
     \/ /\ rtTable[at][Dst] = NoRoute
        /\ step' = "direct" /\ hop' = Dst
  /\ UNCHANGED at

(* ... or when the next hop is not connected any more.                     *)
RelayFails ==
  /\ step = "relay" /\ hop \notin up[at]
  /\ step' = "direct" /\ hop' = Dst
  /\ UNCHANGED at

(* sendPacketDirect to a connected peer.                                   *)
SendPacketDirect ==
  /\ step \in {"relay", "direct"} /\ hop \in up[at]
  /\ step' = "link"
  /\ UNCHANGED <<at, hop>>

(* handlePacket: no peer takes it.  With p2p-only it is dropped (and a     *)
(* connection is tried), otherwise it is given to the server.              *)
HandlePacketFails ==
  /\ step = "direct" /\ hop \notin up[at]
  /\ step' = IF at \in P2POnly THEN "dropped" ELSE "server"
  /\ UNCHANGED <<at, hop>>

(* handleForwardMessage: for this node, or to be sent on.                  *)
HandleForwardMessage ==
  /\ step = "link"
  /\ at' = hop
  /\ step' = IF hop = Dst THEN "arrived" ELSE "queue"
  /\ UNCHANGED hop

(* The server passes it to the destination, whose handleForwardMsg drops   *)
(* it with p2p-only.                                                       *)
HandleForwardMsg ==
  /\ step = "server"
  /\ at' = Dst
  /\ step' = IF Dst \in P2POnly THEN "dropped" ELSE "arrived"
  /\ UNCHANGED hop

PacketStep ==
  \/ SendPacketRelay \/ RelayFails \/ SendPacketDirect
  \/ HandlePacketFails \/ HandleForwardMessage \/ HandleForwardMsg

LosePacket == step = "link" /\ step' = "lost" /\ UNCHANGED <<at, hop>>

Linked == \A n \in Node : \A m \in up'[n] : <<n, m>> \in Link

PathNext ==
  \/ Works /\ Linked /\ UNCHANGED <<packet, faulty>>
  \/ Breaks /\ faulty' = TRUE /\ UNCHANGED packet
  \/ (Send \/ PacketStep) /\ UNCHANGED <<vars, faulty>>
  \/ LosePacket /\ faulty' = TRUE /\ UNCHANGED vars

(* A packet is handled wherever it is, and every ROUTE message is          *)
(* delivered or lost at last.                                              *)
PathFairness ==
  /\ WF_pathVars(PacketStep /\ UNCHANGED <<vars, faulty>>)
  /\ WF_pathVars((\E r \in net : HandleRouteMessage(r) \/ Lose(r)) /\ PathNext)

PathSpec == PathInit /\ [][PathNext]_pathVars
PathFairSpec == PathSpec /\ PathFairness

-----------------------------------------------------------------------------
(* Properties.                                                             *)

Ended == step \in {"arrived", "dropped", "lost"}

(* Packets do not circle for ever: as long as no datagram is lost and no   *)
(* link or client breaks, two nodes that route through each other stop     *)
(* doing so, and the packet comes out (the growing cost of sendRtMessage,  *)
(* the limit of updateRtTable, the order of relay, direct and server in    *)
(* handlePacket).                                                          *)
PacketEnds == <>faulty \/ (step = "queue" ~> Ended)

(* ... and whatever breaks: does not hold, a lost deletion is not repeated *)
(* and the packet's TTL is not counted down.                               *)
PacketEndsAnyway == step = "queue" ~> Ended
=============================================================================
