------------------------------ MODULE PeerLink ------------------------------
(***************************************************************************)
(* One peer-to-peer link: two ends (Peer) that exchange PUBINFO messages   *)
(* through the server and heartbeats over UDP, after the network has       *)
(* become good.  Before, it lost, delayed, duplicated and reordered what   *)
(* it liked, and the threads of an end raced: the ends start in any states *)
(* of class Peer, however inconsistent.  From now on everything sent       *)
(* arrives and is handled within the second, so that the next tick finds   *)
(* nothing on its way and no handler under way; the message and the poll   *)
(* thread of an end still interleave.                                      *)
(***************************************************************************)
EXTENDS Peer, FiniteSets

CONSTANTS
  SameLan,        \* the ends can reach each other's local address
  MaxNet,         \* bound: heartbeats on their way (more are lost)
  MaxPub          \* bound: PUBINFO messages on their way (likewise)

ASSUME PeerLinkAssumption ==
  /\ Cardinality(Node) = 2
  /\ SameLan \in BOOLEAN
  /\ MaxNet \in Nat /\ MaxPub \in Nat

Other(n) == CHOOSE m \in Node : m /= n

VARIABLES
  stunWait,      \* a STUN request is on its way
  net,           \* heartbeats on their way
  pub,           \* PUBINFO messages on their way through the server
  due            \* the end whose next second may come: the clocks of the
                 \* two ends run at the same speed

wireVars == <<stunWait, net, pub>>
linkVars == <<vars, wireVars, due>>

(* Whatever the ends have come to; no address of a kind that cannot reach  *)
(* the other end is in use.  A longer age than these acts like the longest *)
(* of them.                                                                *)
LinkInit ==
  /\ state \in [Node -> States]
  /\ ack \in [Node -> {0, 1}]
  /\ age \in [Node -> 0 .. (ConnectWithin - 1)]
  /\ retry \in [Node -> RetryMin .. RetryMax]
  /\ wide \in [Node -> BOOLEAN]
  /\ local = [n \in Node |-> FALSE]
  /\ real \in [Node -> {"none", "wide"} \cup (IF SameLan THEN {"local"} ELSE {})]
  /\ localDisabled = [n \in Node |-> FALSE]
  /\ ThreadsWait
  /\ stunWait = [n \in Node |-> FALSE]
  /\ net = {}
  /\ pub = {}
  /\ due \in Node

-----------------------------------------------------------------------------
(* What is sent.                                                           *)

(* sendPubInfo: through the WebSocket queue and the server.                *)
Publish(queue, p) ==
  IF Cardinality(queue \cup {p}) <= MaxPub THEN queue \cup {p} ELSE queue

(* sendHeartbeatMessage: to the address in use when CONNECTED, to the wide *)
(* one when CONNECTING, to the local one until CONNECTED.  What is sent to *)
(* an unreachable local address is lost.                                   *)
Targets(n) ==
  {k \in Kinds :
     \/ state[n] = "CONNECTED" /\ real[n] = k
     \/ k = "wide" /\ state[n] = "CONNECTING" /\ wide[n]
     \/ k = "local" /\ state[n] \in {"SYNCHRONIZING", "CONNECTING"} /\ local[n]}

SendHeartbeat(n) ==
  LET sent == {[to |-> Other(n), ack |-> ack[n], via |-> k] :
                 k \in {j \in Targets(n) : j = "wide" \/ SameLan}}
  IN  net' = IF Cardinality(net \cup sent) <= MaxNet THEN net \cup sent
                                                     ELSE net

-----------------------------------------------------------------------------
(* The message thread takes a message and goes on with it; a peer that     *)
(* starts an attempt because of a PUBINFO answers with its local address.  *)
LinkTryP2P(n) == TryP2P(n) /\ UNCHANGED <<wireVars, due>>

ReceivePubInfo(n, kind) ==
  /\ [to |-> n, kind |-> kind] \in pub
  /\ IF kind = "local" THEN HandleLocalPubInfo(n) ELSE HandleWidePubInfo(n)
  /\ pub' = pub \ {[to |-> n, kind |-> kind]}
  /\ UNCHANGED <<stunWait, net, due>>

LinkMsgStep(n) ==
  /\ MsgStep(n)
  /\ pub' = IF msgAt[n] = "PREPARING"
              THEN Publish(pub, [to |-> Other(n), kind |-> "local"]) ELSE pub
  /\ UNCHANGED <<stunWait, net, due>>

(* So does the poll thread.  A peer that is not PREPARING ignores a STUN   *)
(* response, an idle one a heartbeat; one that was PREPARING publishes our *)
(* wide address when it has stored its state.                              *)
ReceiveStun(n) ==
  /\ stunWait[n]
  /\ pollAt[n] = "wait"
  /\ stunWait' = [stunWait EXCEPT ![n] = FALSE]
  /\ HandleStunResponse(n) \/ (state[n] /= "PREPARING" /\ UNCHANGED vars)
  /\ UNCHANGED <<net, pub, due>>

ReceiveHeartbeat(n, m) ==
  /\ m \in net /\ m.to = n
  /\ pollAt[n] = "wait"
  /\ net' = net \ {m}
  /\ \/ HandleHeartbeat(n, [ack |-> m.ack, via |-> m.via])
     \/ state[n] \in Idle /\ UNCHANGED vars
  /\ UNCHANGED <<stunWait, pub, due>>

LinkPollStep(n) ==
  /\ PollStep(n)
  /\ pub' = IF pollAt[n] \in {"SYNCHRONIZING", "CONNECTING"}
              THEN Publish(pub, [to |-> Other(n), kind |-> "wide"]) ELSE pub
  /\ UNCHANGED <<stunWait, net, due>>

(* PeerManager::tick: the peer waits on, asking for STUN or sending        *)
(* heartbeats, or is given up.                                             *)
Second(n) ==
  /\ n = due
  /\ net = {} /\ pub = {}
  /\ \A m \in Node : ~stunWait[m] /\ msgAt[m] = "wait" /\ pollAt[m] = "wait"
                     /\ tickAt[m] = "wait"
  /\ \/ /\ WaitOn(n)
        /\ stunWait' = [stunWait EXCEPT ![n] = state[n] = "PREPARING"]
        /\ SendHeartbeat(n)
     \/ GiveUp(n) /\ UNCHANGED <<stunWait, net>>
  /\ due' = Other(n)
  /\ UNCHANGED pub

LinkTickStep(n) == TickStep(n) /\ UNCHANGED <<wireVars, due>>

Arrive ==
  \E n \in Node :
    \/ \E kind \in Kinds : ReceivePubInfo(n, kind)
    \/ ReceiveStun(n)
    \/ \E m \in net : ReceiveHeartbeat(n, m)

LinkNext ==
  \/ Arrive
  \/ \E n \in Node : \/ LinkTryP2P(n) \/ LinkMsgStep(n) \/ LinkPollStep(n)
                     \/ Second(n) \/ LinkTickStep(n)

(* The network delivers what it carries, the threads go on, time passes at *)
(* both ends, and TRYP2P messages keep coming: discovery broadcasts are    *)
(* periodic.                                                               *)
LinkFairness ==
  /\ WF_linkVars(Arrive)
  /\ \A n \in Node : /\ WF_linkVars(Second(n)) /\ WF_linkVars(LinkTryP2P(n))
                     /\ WF_linkVars(LinkMsgStep(n))
                     /\ WF_linkVars(LinkPollStep(n))
                     /\ WF_linkVars(LinkTickStep(n))

LinkFairSpec == LinkInit /\ [][LinkNext]_linkVars /\ LinkFairness

-----------------------------------------------------------------------------
(* Properties.                                                             *)

(* Once the network is good the link comes up and stays up, from whatever  *)
(* states the losses and the races left the two ends in (with p2p-only,    *)
(* where TRYP2P retries a failed peer).                                    *)
EventuallyConnected == <>[](\A n \in Node : state[n] = "CONNECTED")

(* "Periodically sends broadcasts to try to establish P2P with devices on  *)
(* the network" (candy.cfg): a peer that has failed is tried again.        *)
FailedRetried ==
  \A n \in Node : (state[n] = "FAILED") ~> (state[n] /= "FAILED")
=============================================================================
