----------------------------- MODULE RouteTable -----------------------------
(***************************************************************************)
(* Relaying between clients (candy/src/peer/manager.cc): every client      *)
(* keeps a distance-vector table rtTableMap, fed by the round-trip times   *)
(* it measures itself and by the ROUTE messages of its connected peers,    *)
(* and advertises every change to all of them, the next hop included.      *)
(* Messages are datagrams: they get lost, overtake each other, and arrive  *)
(* after the link they came over is given up.                              *)
(***************************************************************************)
EXTENDS Naturals

CONSTANTS
  Node,
  RouteCost,   \* routeCost, above 0: otherwise relaying is disabled
  RttMax,      \* a greater round-trip time is a deletion (1000)
  RTT_LIMIT,   \* INT32_MAX
  Rtts,        \* round-trip times a DELAY message may measure
  MaxRtt,      \* bound: stored times above it are not told apart
  MaxEvents,   \* bound: measurements and link changes
  NoRoute

ASSUME RouteTableAssumption ==
  /\ RouteCost \in Nat \ {0} /\ RttMax \in Nat /\ RTT_LIMIT \in Nat
  /\ MaxRtt \in Nat /\ MaxEvents \in Nat
  /\ RttMax < MaxRtt /\ MaxRtt + RouteCost < RTT_LIMIT
  /\ Rtts \subseteq 0 .. MaxRtt
  /\ NoRoute \notin [next : Node, rtt : Nat]

VARIABLES
  up,       \* ipPeerMap: the peers a node sees CONNECTED
  known,    \* ... and the ones it has a Peer for, in whatever state
  rtTable,  \* rtTableMap: destination |-> [next, rtt], or NoRoute
  net,      \* ROUTE messages on their way
  events    \* measurements and link changes so far

vars == <<up, known, rtTable, net, events>>

Entries == [next : Node, rtt : 0 .. MaxRtt]
Tables == [Node -> Entries \cup {NoRoute}]
Routes == [to : Node, dst : Node, next : Node,
           rtt : 0 .. (MaxRtt + RouteCost) \cup {RTT_LIMIT}]

TypeOK ==
  /\ up \in [Node -> SUBSET Node]
  /\ known \in [Node -> SUBSET Node]
  /\ rtTable \in [Node -> Tables]
  /\ net \subseteq Routes
  /\ events \in 0 .. MaxEvents

Init ==
  /\ up = [n \in Node |-> {}]
  /\ known = [n \in Node |-> {}]
  /\ rtTable = [n \in Node |-> [d \in Node |-> NoRoute]]
  /\ net = {}
  /\ events = 0

-----------------------------------------------------------------------------
(* updateRtTable.                                                          *)

(* Mutant of Advertised: a deletion is charged too and is none any more.   *)
AdvertisedOverflow(rtt) == rtt + RouteCost

(* Mutant of Advertised: relaying costs nothing.                           *)
AdvertisedFree(rtt) == rtt

(* sendRtMessage adds the cost of this node, except to a deletion.         *)
Advertised(rtt) == IF rtt = RTT_LIMIT THEN rtt ELSE rtt + RouteCost

(* sendRtMessage(d, rtt) of node n, for each d of a set: to every peer     *)
(* that is connected, whoever the route goes through.                      *)
SendRtMessages(n, peers, ds, rtt) ==
  {[to |-> p, dst |-> d, next |-> n, rtt |-> Advertised(rtt)] :
     p \in peers, d \in ds}

IsDelete(rtt) == rtt > RttMax
Capped(rtt) == IF rtt > MaxRtt THEN MaxRtt ELSE rtt

(* The entry of destination d is set, or all of a set are deleted.         *)
Store(n, d, e, rest) ==
  /\ rtTable' = [rtTable EXCEPT ![n][d] = e]
  /\ net' = rest \cup SendRtMessages(n, up[n], {d}, e.rtt)

Erase(n, ds, peers, rest) ==
  /\ rtTable' = [rtTable EXCEPT ![n] =
                   [d \in Node |-> IF d \in ds THEN NoRoute ELSE @[d]]]
  /\ net' = rest \cup SendRtMessages(n, peers, ds, RTT_LIMIT)

Ignore(rest) == UNCHANGED rtTable /\ net' = rest

(* Mutant of Replaces: the latest word wins.                               *)
ReplacesAlways(n, d, next, rtt) == TRUE

(* An entry gives way to news of its own next hop and to a shorter way.    *)
Replaces(n, d, next, rtt) ==
  \/ rtTable[n][d] = NoRoute
  \/ rtTable[n][d].next = next
  \/ rtTable[n][d].rtt > rtt

Via(n, next) ==
  {d \in Node : rtTable[n][d] /= NoRoute /\ rtTable[n][d].next = next}

(* dst = next: the peer itself.  Losing it deletes all that goes through   *)
(* it.                                                                     *)
UpdateDirect(n, d, rtt, rest) ==
  \/ IsDelete(rtt) /\ Erase(n, Via(n, d), up[n], rest)
  \/ /\ ~IsDelete(rtt)
     /\ IF Replaces(n, d, d, rtt)
          THEN Store(n, d, [next |-> d, rtt |-> rtt], rest)
          ELSE Ignore(rest)

(* dst /= next: what the next hop says of another node counts from the     *)
(* entry of the next hop, if there is one (which need not be direct).      *)
UpdateIndirect(n, d, next, rtt, rest) ==
  \/ IsDelete(rtt) /\ Erase(n, {d} \cap Via(n, next), up[n], rest)
  \/ /\ ~IsDelete(rtt)
     /\ rtTable[n][next] = NoRoute
     /\ Ignore(rest)
  \/ /\ ~IsDelete(rtt)
     /\ rtTable[n][next] /= NoRoute
     /\ LET now == Capped(rtTable[n][next].rtt + rtt) IN
          IF Replaces(n, d, next, now)
            THEN Store(n, d, [next |-> next, rtt |-> now], rest)
            ELSE Ignore(rest)

UpdateRtTable(n, d, next, rtt, rest) ==
  IF d = next THEN UpdateDirect(n, d, rtt, rest)
              ELSE UpdateIndirect(n, d, next, rtt, rest)

-----------------------------------------------------------------------------
(* Its callers.                                                            *)

Event == events < MaxEvents /\ events' = events + 1

(* A peer becomes CONNECTED (the state machine is in PeerLink).            *)
Connect(n, m) ==
  /\ m \notin up[n]
  /\ Event
  /\ up' = [up EXCEPT ![n] = @ \cup {m}]
  /\ known' = [known EXCEPT ![n] = @ \cup {m}]
  /\ UNCHANGED <<rtTable, net>>

(* Peer::tick gives up a silent peer: first its state, then its routes.    *)
Disconnect(n, m) ==
  /\ m \in up[n]
  /\ Event
  /\ up' = [up EXCEPT ![n] = @ \ {m}]
  /\ Erase(n, Via(n, m), up[n] \ {m}, net)
  /\ UNCHANGED known

(* handleDelayMessage: the echo of a DELAY message comes back, maybe after *)
(* the peer is given up.                                                   *)
HandleDelayMessage(n, m, rtt) ==
  /\ m \in known[n]
  /\ Event
  /\ UpdateRtTable(n, m, m, rtt, net)
  /\ UNCHANGED <<up, known>>

(* Mutant of Accepts: routes to this very node are taken too.              *)
AcceptsOwn(r) == TRUE

(* handleRouteMessage ignores what it is told of itself.                   *)
Accepts(r) == r.dst /= r.to

HandleRouteMessage(r) ==
  /\ r \in net
  /\ IF Accepts(r) THEN UpdateRtTable(r.to, r.dst, r.next, r.rtt, net \ {r})
                   ELSE Ignore(net \ {r})
  /\ UNCHANGED <<up, known, events>>

Lose(r) ==
  /\ r \in net
  /\ net' = net \ {r}
  /\ UNCHANGED <<up, known, rtTable, events>>

(* PeerManager::wait: the client stops, and starts again from nothing.     *)
Wait(n) ==
  /\ up[n] /= {}
  /\ Event
  /\ up' = [up EXCEPT ![n] = {}]
  /\ known' = [known EXCEPT ![n] = {}]
  /\ rtTable' = [rtTable EXCEPT ![n] = [d \in Node |-> NoRoute]]
  /\ UNCHANGED net

Pairs == {p \in Node \X Node : p[1] /= p[2]}

Works ==
  \/ \E p \in Pairs :
       \/ Connect(p[1], p[2])
       \/ \E rtt \in Rtts : HandleDelayMessage(p[1], p[2], rtt)
  \/ \E r \in net : HandleRouteMessage(r)

Breaks ==
  \/ \E p \in Pairs : Disconnect(p[1], p[2])
  \/ \E n \in Node : Wait(n)
  \/ \E r \in net : Lose(r)

Next == Works \/ Breaks

(* Every datagram is delivered or lost at last.                            *)
Fairness == WF_vars(\E r \in net : HandleRouteMessage(r) \/ Lose(r))

Spec == Init /\ [][Next]_vars
FairSpec == Spec /\ Fairness

-----------------------------------------------------------------------------
(* Properties.                                                             *)

(* A node never has a route to itself or through itself, although every    *)
(* advertisement is also sent back to where it came from (handleRoute-     *)
(* Message, sendRtMessage).                                                *)
NoSelfRoute ==
  \A n \in Node :
    /\ rtTable[n][n] = NoRoute
    /\ \A d \in Node : rtTable[n][d] /= NoRoute => rtTable[n][d].next /= n

(* A route gets longer or disappears only on the word of its own next hop  *)
(* or by a measurement or the loss of the next hop (or when the node       *)
(* stops); news of other peers can only improve it (updateRtTable).        *)
WorseOnlyByNextHop ==
  [][\A n, d \in Node :
       /\ rtTable[n][d] /= NoRoute
       /\ \/ rtTable'[n][d] = NoRoute
          \/ rtTable'[n][d].rtt > rtTable[n][d].rtt
       => LET next == rtTable[n][d].next IN
            \/ Wait(n)
            \/ Disconnect(n, next)
            \/ \E rtt \in Rtts : HandleDelayMessage(n, next, rtt)
            \/ \E r \in net : /\ r.to = n /\ r.next = next /\ r.dst = d
                              /\ HandleRouteMessage(r)]_vars

(* Counting to infinity ends: once the links and the measurements rest,    *)
(* the advertisements die out, even where two nodes route through each     *)
(* other (the cost that sendRtMessage adds, the limit of updateRtTable).   *)
RouteTrafficSettles == <>[](net = {})
=============================================================================
