--------------------------- MODULE RoutingProofs ----------------------------
(***************************************************************************)
(* Proofs about the three tables that decide where a packet goes: the      *)
(* relay routes of RouteTable, the packet that PacketPath sends along      *)
(* them, and the flow table of TunFlow; for any number of nodes, any       *)
(* round-trip times, any number of flows and any limits.                   *)
(***************************************************************************)
EXTENDS PacketPath, TunFlow, FiniteSetTheorems, WellFoundedInduction, TLAPS

-----------------------------------------------------------------------------
(* Relay routes.                                                           *)

(* NoSelfRoute rests on three things: no node is its own peer, a message   *)
(* is never sent to the next hop it names nor about it, and both kinds of  *)
(* update keep the node out of its own table.                              *)
NotOwnPeer == \A n \in Node : n \notin up[n] /\ n \notin known[n]
Heard == {r \in Routes : r.next /= r.to /\ r.next /= r.dst}
RInv == TypeOK /\ NoSelfRoute /\ NotOwnPeer /\ net \subseteq Heard

(* The times that messages carry.                                          *)
Times == 0 .. (MaxRtt + RouteCost) \cup {RTT_LIMIT}

LEMMA InitRInv == Init => RInv
BY RouteTableAssumption
   DEF Init, RInv, TypeOK, NoSelfRoute, NotOwnPeer, Tables, Entries

(* sendRtMessage: typed messages, to and about others than the sender.     *)
LEMMA SendRtMessagesHeard ==
  ASSUME NEW n \in Node, NEW peers \in SUBSET (Node \ {n}),
         NEW ds \in SUBSET (Node \ {n}),
         NEW rtt \in 0 .. MaxRtt \cup {RTT_LIMIT}
  PROVE  SendRtMessages(n, peers, ds, rtt) \subseteq Heard
<1>1. Advertised(rtt) \in Times
  BY RouteTableAssumption DEF Advertised, Times
<1> QED BY <1>1 DEF SendRtMessages, Heard, Routes, Times

(* What an update of the table of n must guarantee.                        *)
Updated(n) ==
  /\ rtTable' \in [Node -> Tables]
  /\ NoSelfRoute'
  /\ net' \subseteq Heard

LEMMA StoreUpdates ==
  ASSUME NEW n \in Node, NEW d \in Node \ {n}, NEW e \in Entries, e.next /= n,
         NEW rest \in SUBSET net
  PROVE  RInv /\ Store(n, d, e, rest) => Updated(n)
<1> SUFFICES ASSUME RInv, Store(n, d, e, rest) PROVE Updated(n)
  OBVIOUS
<1>1. rtTable' = [rtTable EXCEPT ![n] = [rtTable[n] EXCEPT ![d] = e]]
  BY DEF Store, RInv, TypeOK
<1>2. rtTable[n] \in Tables
  BY DEF RInv, TypeOK
<1>3. [rtTable[n] EXCEPT ![d] = e] \in Tables
  BY <1>2 DEF Tables
<1>4. rtTable' \in [Node -> Tables]
  BY <1>1, <1>3 DEF RInv, TypeOK
<1>5. NoSelfRoute'
  BY <1>1 DEF RInv, TypeOK, Tables, NoSelfRoute
<1>6. up[n] \in SUBSET (Node \ {n}) /\ e.rtt \in 0 .. MaxRtt
  BY DEF RInv, TypeOK, NotOwnPeer, Entries
<1>7. net' \subseteq Heard
  BY <1>6, SendRtMessagesHeard DEF Store, RInv
<1> QED BY <1>4, <1>5, <1>7 DEF Updated

LEMMA EraseUpdates ==
  ASSUME NEW n \in Node, NEW ds \in SUBSET (Node \ {n}),
         NEW peers \in SUBSET (Node \ {n}), NEW rest \in SUBSET net
  PROVE  RInv /\ Erase(n, ds, peers, rest) => Updated(n)
<1> SUFFICES ASSUME RInv, Erase(n, ds, peers, rest) PROVE Updated(n)
  OBVIOUS
<1> DEFINE t == [d \in Node |-> IF d \in ds THEN NoRoute ELSE rtTable[n][d]]
<1>1. rtTable' = [rtTable EXCEPT ![n] = t]
  BY DEF Erase, RInv, TypeOK
<1>2. t \in Tables
  BY DEF RInv, TypeOK, Tables
<1>3. rtTable' \in [Node -> Tables]
  BY <1>1, <1>2 DEF RInv, TypeOK
<1>4. NoSelfRoute'
  BY <1>1 DEF RInv, TypeOK, NoSelfRoute
<1>5. net' \subseteq Heard
  BY SendRtMessagesHeard DEF Erase, RInv
<1> QED BY <1>3, <1>4, <1>5 DEF Updated

LEMMA IgnoreUpdates ==
  ASSUME NEW n \in Node, NEW rest \in SUBSET net
  PROVE  RInv /\ Ignore(rest) => Updated(n)
BY DEF Ignore, RInv, TypeOK, NoSelfRoute, Updated

(* updateRtTable, for whatever a handler passes on: another node reached   *)
(* through another node.                                                   *)
LEMMA UpdateRtTableUpdates ==
  ASSUME NEW n \in Node, NEW d \in Node \ {n}, NEW next \in Node \ {n},
         NEW rtt \in Times, NEW rest \in SUBSET net
  PROVE  RInv /\ UpdateRtTable(n, d, next, rtt, rest) => Updated(n)
<1> SUFFICES ASSUME RInv, UpdateRtTable(n, d, next, rtt, rest)
             PROVE  Updated(n)
  OBVIOUS
<1>1. up[n] \in SUBSET (Node \ {n})
  BY DEF RInv, TypeOK, NotOwnPeer
<1>2. /\ Via(n, next) \in SUBSET (Node \ {n})
      /\ {d} \cap Via(n, next) \in SUBSET (Node \ {n})
  BY DEF Via, RInv, NoSelfRoute
<1>3. ~IsDelete(rtt) => rtt \in 0 .. MaxRtt
  BY RouteTableAssumption DEF IsDelete, Times
<1>4. CASE d = next
  <2>1. CASE IsDelete(rtt)
    BY <1>1, <1>2, <1>4, <2>1, EraseUpdates DEF UpdateRtTable, UpdateDirect
  <2>2. CASE ~IsDelete(rtt)
    <3>1. [next |-> d, rtt |-> rtt] \in Entries
      BY <1>3, <2>2 DEF Entries
    <3>2. \/ Store(n, d, [next |-> d, rtt |-> rtt], rest)
          \/ Ignore(rest)
      BY <1>4, <2>2 DEF UpdateRtTable, UpdateDirect
    <3> QED BY <3>1, <3>2, StoreUpdates, IgnoreUpdates
  <2> QED BY <2>1, <2>2
<1>5. CASE d /= next
  <2>1. CASE IsDelete(rtt)
    BY <1>1, <1>2, <1>5, <2>1, EraseUpdates DEF UpdateRtTable, UpdateIndirect
  <2>2. CASE ~IsDelete(rtt) /\ rtTable[n][next] = NoRoute
    BY <1>5, <2>2, IgnoreUpdates DEF UpdateRtTable, UpdateIndirect
  <2>3. CASE ~IsDelete(rtt) /\ rtTable[n][next] /= NoRoute
    <3> DEFINE now == Capped(rtTable[n][next].rtt + rtt)
    <3>1. rtTable[n][next].rtt \in 0 .. MaxRtt
      BY <2>3 DEF RInv, TypeOK, Tables, Entries
    <3>2. now \in 0 .. MaxRtt
      BY <1>3, <2>3, <3>1, RouteTableAssumption DEF Capped
    <3>3. \/ Store(n, d, [next |-> next, rtt |-> now], rest)
          \/ Ignore(rest)
      BY <1>5, <2>3 DEF UpdateRtTable, UpdateIndirect
    <3> HIDE DEF now
    <3>4. [next |-> next, rtt |-> now] \in Entries
      BY <3>2 DEF Entries
    <3> QED BY <3>3, <3>4, StoreUpdates, IgnoreUpdates
  <2> QED BY <2>1, <2>2, <2>3
<1> QED BY <1>4, <1>5

-----------------------------------------------------------------------------
(* One step per action.                                                    *)

LEMMA NextRInv == RInv /\ [Next]_vars => RInv'
<1> SUFFICES ASSUME RInv, [Next]_vars PROVE RInv'
  OBVIOUS
<1>1. ASSUME NEW p \in Pairs, Connect(p[1], p[2]) PROVE RInv'
  <2>1. p[1] \in Node /\ p[2] \in Node /\ p[1] /= p[2]
    BY <1>1 DEF Pairs
  <2>2. TypeOK'
    BY <1>1, <2>1, RouteTableAssumption DEF Connect, Event, RInv, TypeOK
  <2>3. NotOwnPeer'
    BY <1>1, <2>1 DEF Connect, RInv, TypeOK, NotOwnPeer
  <2> QED BY <1>1, <2>2, <2>3 DEF Connect, RInv, NoSelfRoute
<1>2. ASSUME NEW p \in Pairs, Disconnect(p[1], p[2]) PROVE RInv'
  <2>1. p[1] \in Node /\ p[2] \in Node /\ p[1] /= p[2]
    BY <1>2 DEF Pairs
  <2>2. /\ Via(p[1], p[2]) \in SUBSET (Node \ {p[1]})
        /\ up[p[1]] \ {p[2]} \in SUBSET (Node \ {p[1]})
    BY <2>1 DEF Via, RInv, TypeOK, NotOwnPeer, NoSelfRoute
  <2>3. Updated(p[1])
    BY <1>2, <2>1, <2>2, EraseUpdates DEF Disconnect
  <2>4. /\ up' \in [Node -> SUBSET Node] /\ UNCHANGED known
        /\ events' \in 0 .. MaxEvents
    BY <1>2, <2>1, RouteTableAssumption DEF Disconnect, Event, RInv, TypeOK
  <2>5. NotOwnPeer'
    BY <1>2, <2>1 DEF Disconnect, RInv, TypeOK, NotOwnPeer
  <2> QED BY <2>3, <2>4, <2>5 DEF RInv, TypeOK, Updated, Heard
<1>3. ASSUME NEW p \in Pairs, NEW rtt \in Rtts,
             HandleDelayMessage(p[1], p[2], rtt)
      PROVE  RInv'
  <2>1. p[1] \in Node /\ p[2] \in Node \ {p[1]}
    BY DEF Pairs
  <2>2. rtt \in Times
    BY RouteTableAssumption DEF Times
  <2>3. Updated(p[1])
    BY <1>3, <2>1, <2>2, UpdateRtTableUpdates DEF HandleDelayMessage
  <2>4. UNCHANGED <<up, known>> /\ events' \in 0 .. MaxEvents
    BY <1>3, RouteTableAssumption DEF HandleDelayMessage, Event, RInv, TypeOK
  <2> QED BY <2>3, <2>4 DEF RInv, TypeOK, NotOwnPeer, Updated, Heard
<1>4. ASSUME NEW n \in Node, Wait(n) PROVE RInv'
  <2>1. [d \in Node |-> NoRoute] \in Tables
    BY DEF Tables
  <2>2. TypeOK'
    BY <1>4, <2>1, RouteTableAssumption DEF Wait, Event, RInv, TypeOK
  <2>3. NoSelfRoute' /\ NotOwnPeer'
    BY <1>4 DEF Wait, RInv, TypeOK, NoSelfRoute, NotOwnPeer
  <2> QED BY <1>4, <2>2, <2>3 DEF Wait, RInv
<1>5. ASSUME NEW r \in net, HandleRouteMessage(r) PROVE RInv'
  <2>1. /\ r.to \in Node /\ r.next \in Node \ {r.to} /\ r.dst \in Node
        /\ r.rtt \in Times
    BY DEF RInv, Heard, Routes, Times
  <2>2. net \ {r} \in SUBSET net
    OBVIOUS
  <2>3. Updated(r.to)
    BY <1>5, <2>1, <2>2, UpdateRtTableUpdates, IgnoreUpdates
       DEF HandleRouteMessage, Accepts
  <2> QED BY <1>5, <2>3
          DEF HandleRouteMessage, RInv, TypeOK, NotOwnPeer, Updated, Heard
<1>6. ASSUME NEW r \in net, Lose(r) PROVE RInv'
  BY <1>6 DEF Lose, RInv, TypeOK, NoSelfRoute, NotOwnPeer
<1>7. CASE UNCHANGED vars
  BY <1>7 DEF vars, RInv, TypeOK, NoSelfRoute, NotOwnPeer
<1> QED BY <1>1, <1>2, <1>3, <1>4, <1>5, <1>6, <1>7 DEF Next, Works, Breaks

(* The tables and the messages keep their types: in particular a deletion  *)
(* stays RTT_LIMIT and every other time stays below it.                    *)
THEOREM TypeCorrect == Spec => []TypeOK
<1>1. RInv => TypeOK
  BY DEF RInv
<1> QED BY InitRInv, NextRInv, <1>1, PTL DEF Spec

(* No node ever has a route to or through itself, in networks of any size, *)
(* whatever is lost, late or repeated (handleRouteMessage, updateRtTable). *)
THEOREM NeverSelfRoute == Spec => []NoSelfRoute
<1>1. RInv => NoSelfRoute
  BY DEF RInv
<1> QED BY InitRInv, NextRInv, <1>1, PTL DEF Spec

-----------------------------------------------------------------------------
(* Who can worsen a route.                                                 *)

Worse(n, d) ==
  /\ rtTable[n][d] /= NoRoute
  /\ \/ rtTable'[n][d] = NoRoute
     \/ rtTable'[n][d].rtt > rtTable[n][d].rtt

LEMMA SameNotWorse ==
  ASSUME NEW n \in Node, NEW d \in Node
  PROVE  RInv /\ rtTable'[n][d] = rtTable[n][d] => ~Worse(n, d)
<1> SUFFICES ASSUME RInv, rtTable'[n][d] = rtTable[n][d],
                    rtTable[n][d] /= NoRoute
             PROVE  ~(rtTable[n][d].rtt > rtTable[n][d].rtt)
  BY DEF Worse
<1>1. rtTable[n][d] \in Entries
  BY DEF RInv, TypeOK, Tables
<1>2. rtTable[n][d].rtt \in Nat
  BY <1>1, RouteTableAssumption DEF Entries
<1> QED BY <1>2

(* A stored entry is worse only than an entry of the same next hop.        *)
LEMMA StoreWorse ==
  ASSUME NEW n \in Node, NEW d \in Node, NEW next \in Node,
         NEW rtt \in 0 .. MaxRtt, NEW rest,
         NEW m \in Node, NEW c \in Node
  PROVE  /\ RInv /\ Replaces(n, d, next, rtt)
         /\ Store(n, d, [next |-> next, rtt |-> rtt], rest)
         /\ Worse(m, c)
         => m = n /\ c = d /\ rtTable[n][d].next = next
<1> SUFFICES ASSUME RInv, Replaces(n, d, next, rtt), Worse(m, c),
                    Store(n, d, [next |-> next, rtt |-> rtt], rest)
             PROVE  m = n /\ c = d /\ rtTable[n][d].next = next
  OBVIOUS
<1> DEFINE e == [next |-> next, rtt |-> rtt]
<1>1. rtTable[n] \in [Node -> Entries \cup {NoRoute}]
  BY DEF RInv, TypeOK, Tables
<1>2. rtTable' = [rtTable EXCEPT ![n] = [rtTable[n] EXCEPT ![d] = e]]
  BY DEF Store, RInv, TypeOK
<1>3. m = n /\ c = d
  BY <1>1, <1>2, SameNotWorse DEF RInv, TypeOK
<1>4. rtTable'[n][d] = e
  BY <1>1, <1>2 DEF RInv, TypeOK
<1>5. e /= NoRoute
  BY RouteTableAssumption
<1>6. rtTable[n][d] /= NoRoute /\ rtt > rtTable[n][d].rtt
  BY <1>3, <1>4, <1>5 DEF Worse
<1>7. rtTable[n][d].rtt \in Nat
  BY <1>1, <1>6, RouteTableAssumption DEF Entries
<1>8. ~(rtTable[n][d].rtt > rtt)
  BY <1>6, <1>7
<1> QED BY <1>3, <1>6, <1>8 DEF Replaces

LEMMA EraseWorse ==
  ASSUME NEW n \in Node, NEW ds, NEW peers, NEW rest,
         NEW m \in Node, NEW c \in Node
  PROVE  RInv /\ Erase(n, ds, peers, rest) /\ Worse(m, c) => m = n /\ c \in ds
<1> SUFFICES ASSUME RInv, Erase(n, ds, peers, rest), ~(m = n /\ c \in ds)
             PROVE  rtTable'[m][c] = rtTable[m][c]
  BY SameNotWorse
<1> QED BY DEF Erase, RInv, TypeOK

(* updateRtTable worsens only what goes through the node it hears of, and, *)
(* for news of a third node, only the route to that one.                   *)
LEMMA UpdateWorse ==
  ASSUME NEW n \in Node, NEW d \in Node, NEW next \in Node,
         NEW rtt \in Times, NEW rest, NEW m \in Node, NEW c \in Node
  PROVE  RInv /\ UpdateRtTable(n, d, next, rtt, rest) /\ Worse(m, c)
         => m = n /\ rtTable[n][c].next = next /\ (d /= next => c = d)
<1> SUFFICES ASSUME RInv, UpdateRtTable(n, d, next, rtt, rest), Worse(m, c)
             PROVE  /\ m = n /\ rtTable[n][c].next = next
                    /\ d /= next => c = d
  OBVIOUS
<1>1. ~Ignore(rest)
  BY SameNotWorse DEF Ignore
<1>2. ~IsDelete(rtt) => rtt \in 0 .. MaxRtt
  BY RouteTableAssumption DEF IsDelete, Times
<1>3. CASE IsDelete(rtt)
  <2>1. PICK ds \in {Via(n, next), {d} \cap Via(n, next)} :
          /\ Erase(n, ds, up[n], rest)
          /\ d /= next => ds = {d} \cap Via(n, next)
    BY <1>3 DEF UpdateRtTable, UpdateDirect, UpdateIndirect
  <2>2. m = n /\ c \in ds
    BY <2>1, EraseWorse
  <2> QED BY <2>1, <2>2 DEF Via
<1>4. CASE ~IsDelete(rtt) /\ d = next
  <2>1. Replaces(n, d, d, rtt) /\ Store(n, d, [next |-> d, rtt |-> rtt], rest)
    BY <1>1, <1>4 DEF UpdateRtTable, UpdateDirect
  <2> QED BY <1>2, <1>4, <2>1, StoreWorse
<1>5. CASE ~IsDelete(rtt) /\ d /= next
  <2> DEFINE now == Capped(rtTable[n][next].rtt + rtt)
  <2>1. /\ rtTable[n][next] /= NoRoute
        /\ Replaces(n, d, next, now)
        /\ Store(n, d, [next |-> next, rtt |-> now], rest)
    BY <1>1, <1>5 DEF UpdateRtTable, UpdateIndirect
  <2>2. rtTable[n][next].rtt \in 0 .. MaxRtt
    BY <2>1 DEF RInv, TypeOK, Tables, Entries
  <2>3. now \in 0 .. MaxRtt
    BY <1>2, <1>5, <2>2, RouteTableAssumption DEF Capped
  <2> HIDE DEF now
  <2> QED BY <2>1, <2>3, StoreWorse
<1> QED BY <1>3, <1>4, <1>5

(* The property of a step: who worsened the route of n to d.               *)
Blame(n, d, next) ==
  \/ Wait(n)
  \/ Disconnect(n, next)
  \/ \E rtt \in Rtts : HandleDelayMessage(n, next, rtt)
  \/ \E r \in net : /\ r.to = n /\ r.next = next /\ r.dst = d
                    /\ HandleRouteMessage(r)

LEMMA NextBlames ==
  ASSUME NEW n \in Node, NEW d \in Node
  PROVE  RInv /\ [Next]_vars /\ Worse(n, d) => Blame(n, d, rtTable[n][d].next)
<1> SUFFICES ASSUME RInv, [Next]_vars, Worse(n, d)
             PROVE  Blame(n, d, rtTable[n][d].next)
  OBVIOUS
<1>1. rtTable'[n][d] /= rtTable[n][d]
  BY SameNotWorse
<1>2. ASSUME NEW p \in Pairs, Connect(p[1], p[2])
      PROVE  Blame(n, d, rtTable[n][d].next)
  BY <1>1, <1>2 DEF Connect
<1>3. ASSUME NEW p \in Pairs, Disconnect(p[1], p[2])
      PROVE  Blame(n, d, rtTable[n][d].next)
  <2>1. p[1] \in Node
    BY DEF Pairs
  <2>2. n = p[1] /\ d \in Via(p[1], p[2])
    BY <1>3, <2>1, EraseWorse DEF Disconnect
  <2> QED BY <1>3, <2>2 DEF Blame, Via
<1>4. ASSUME NEW p \in Pairs, NEW rtt \in Rtts,
             HandleDelayMessage(p[1], p[2], rtt)
      PROVE  Blame(n, d, rtTable[n][d].next)
  <2>1. p[1] \in Node /\ p[2] \in Node /\ rtt \in Times
    BY RouteTableAssumption DEF Pairs, Times
  <2>2. n = p[1] /\ rtTable[n][d].next = p[2]
    BY <1>4, <2>1, UpdateWorse DEF HandleDelayMessage
  <2> QED BY <1>4, <2>2 DEF Blame
<1>5. ASSUME NEW m \in Node, Wait(m)
      PROVE  Blame(n, d, rtTable[n][d].next)
  <2>1. n = m
    BY <1>1, <1>5 DEF Wait, RInv, TypeOK
  <2> QED BY <1>5, <2>1 DEF Blame
<1>6. ASSUME NEW r \in net, HandleRouteMessage(r)
      PROVE  Blame(n, d, rtTable[n][d].next)
  <2>1. /\ r.to \in Node /\ r.next \in Node /\ r.dst \in Node
        /\ r.rtt \in Times /\ r.next /= r.dst
    BY DEF RInv, Heard, Routes, Times
  <2>2. UpdateRtTable(r.to, r.dst, r.next, r.rtt, net \ {r})
    BY <1>1, <1>6 DEF HandleRouteMessage, Ignore
  <2>3. n = r.to /\ rtTable[n][d].next = r.next /\ d = r.dst
    BY <2>1, <2>2, UpdateWorse
  <2> QED BY <1>6, <2>3 DEF Blame
<1>7. ASSUME NEW r \in net, Lose(r)
      PROVE  Blame(n, d, rtTable[n][d].next)
  BY <1>1, <1>7 DEF Lose
<1>8. CASE UNCHANGED vars
  BY <1>1, <1>8 DEF vars
<1> QED BY <1>2, <1>3, <1>4, <1>5, <1>6, <1>7, <1>8 DEF Next, Works, Breaks

(* A route gets longer or goes only by its own next hop, for any number of *)
(* nodes: updateRtTable lets nobody else take a route away.                *)
THEOREM OnlyNextHopWorsens == Spec => WorseOnlyByNextHop
<1>1. RInv /\ [Next]_vars =>
        [\A n, d \in Node :
           /\ rtTable[n][d] /= NoRoute
           /\ \/ rtTable'[n][d] = NoRoute
              \/ rtTable'[n][d].rtt > rtTable[n][d].rtt
           => LET next == rtTable[n][d].next IN
                \/ Wait(n)
                \/ Disconnect(n, next)
                \/ \E rtt \in Rtts : HandleDelayMessage(n, next, rtt)
                \/ \E r \in net : /\ r.to = n /\ r.next = next /\ r.dst = d
                                  /\ HandleRouteMessage(r)]_vars
  BY NextBlames DEF Worse, Blame
<1> QED BY InitRInv, NextRInv, <1>1, PTL DEF Spec, WorseOnlyByNextHop

-----------------------------------------------------------------------------
(* The packet on top of the tables (PacketPath).                           *)

(* Where a packet can be: a node that has it is not its destination, the   *)
(* next one is never the node itself, only a node without p2p-only gives   *)
(* it to the server, and it ends at its destination or at a node that is   *)
(* p2p-only, unless it is lost on a link.                                  *)
PacketPlaced ==
  /\ step \in {"none", "queue", "relay", "direct", "link", "server"}
       => at /= Dst
  /\ step \in {"relay", "direct", "link", "server"} => hop /= at
  /\ step \in {"direct", "server"} => hop = Dst
  /\ step = "server" => at \notin P2POnly
  /\ step = "arrived" => at = Dst
  /\ step = "dropped" => at \in P2POnly

PacketTyped == step \in Steps /\ {at, hop} \subseteq Node /\ faulty \in BOOLEAN

PathInv == RInv /\ PacketTyped /\ PacketPlaced

LEMMA InitPathInv == PathInit => PathInv
<1> SUFFICES ASSUME PathInit PROVE PathInv
  OBVIOUS
<1>1. RInv
  BY InitRInv DEF PathInit
<1>2. faulty \in BOOLEAN
  BY DEF PathInit
<1> QED BY <1>1, <1>2, PacketPathAssumption
        DEF PathInit, PathInv, PacketTyped, PacketPlaced, Steps

(* The tables do not depend on the packet.                                 *)
LEMMA PathNextRInv == RInv /\ [PathNext]_pathVars => RInv'
<1>1. [PathNext]_pathVars => [Next]_vars
  BY DEF PathNext, pathVars, Next
<1> QED BY <1>1, NextRInv

(* One step per action: the look-up is where the tables matter.            *)
LEMMA PacketStepPlaced ==
  ASSUME PathInv, Send \/ PacketStep, UNCHANGED faulty
  PROVE  (PacketTyped /\ PacketPlaced)'
<1> USE PacketPathAssumption DEF PathInv, PacketTyped, PacketPlaced, Steps
<1>1. CASE Send
  BY <1>1 DEF Send
<1>2. CASE SendPacketRelay
  <2>1. step = "queue" /\ at' = at /\ at \in Node /\ at /= Dst
    BY <1>2 DEF SendPacketRelay
  <2>2. CASE /\ rtTable[at][Dst] /= NoRoute
             /\ step' = "relay" /\ hop' = rtTable[at][Dst].next
    <3>1. hop' /= at
      BY <2>1, <2>2 DEF RInv, NoSelfRoute
    <3>2. hop' \in Node
      BY <2>1, <2>2 DEF RInv, TypeOK, Tables, Entries
    <3> QED BY <2>1, <2>2, <3>1, <3>2
  <2>3. CASE step' = "direct" /\ hop' = Dst
    BY <2>1, <2>3
  <2> QED BY <1>2, <2>2, <2>3 DEF SendPacketRelay
<1>3. CASE RelayFails
  BY <1>3 DEF RelayFails
<1>4. CASE SendPacketDirect
  BY <1>4 DEF SendPacketDirect
<1>5. CASE HandlePacketFails
  BY <1>5 DEF HandlePacketFails
<1>6. CASE HandleForwardMessage
  BY <1>6 DEF HandleForwardMessage
<1>7. CASE HandleForwardMsg
  BY <1>7 DEF HandleForwardMsg
<1> QED BY <1>1, <1>2, <1>3, <1>4, <1>5, <1>6, <1>7 DEF PacketStep

LEMMA NextPathInv == PathInv /\ [PathNext]_pathVars => PathInv'
<1> SUFFICES ASSUME PathInv, [PathNext]_pathVars PROVE PathInv'
  OBVIOUS
<1>1. RInv'
  BY PathNextRInv DEF PathInv
<1>2. CASE (Send \/ PacketStep) /\ UNCHANGED <<vars, faulty>>
  BY <1>1, <1>2, PacketStepPlaced DEF PathInv
<1>3. CASE LosePacket /\ faulty' = TRUE
  <2>1. faulty' \in BOOLEAN
    BY <1>3
  <2> QED BY <1>1, <1>3, <2>1
          DEF LosePacket, PathInv, PacketTyped, PacketPlaced, Steps
<1>4. CASE UNCHANGED packet /\ (faulty' = TRUE \/ UNCHANGED faulty)
  <2>1. faulty' \in BOOLEAN
    BY <1>4 DEF PathInv, PacketTyped
  <2> QED BY <1>1, <1>4, <2>1
          DEF packet, PathInv, PacketTyped, PacketPlaced
<1> QED BY <1>2, <1>3, <1>4 DEF PathNext, pathVars, packet

(* The tables and the packet keep their types, whatever the routes do      *)
(* while the packet is on its way.                                         *)
THEOREM PathTypeCorrect == PathSpec => []PathTypeOK
<1>1. PathInv => PathTypeOK
  BY DEF PathInv, RInv, PacketTyped, PathTypeOK
<1> QED BY InitPathInv, NextPathInv, <1>1, PTL DEF PathSpec

(* No node hands a packet to itself, although table and peers are read     *)
(* under two locks and the tables change in between; a packet arrives only *)
(* where it is to go, and p2p-only is respected by whoever has it          *)
(* (sendPacket, handlePacket, handleForwardMessage).                       *)
THEOREM PacketAlwaysPlaced == PathSpec => []PacketPlaced
<1>1. PathInv => PacketPlaced
  BY DEF PathInv
<1> QED BY InitPathInv, NextPathInv, <1>1, PTL DEF PathSpec

-----------------------------------------------------------------------------
(* The flow table (TunFlow).                                               *)

(* The stamps are a strict total order, and what is stamped later than a   *)
(* flow in "late" is in "late" itself.                                     *)
Irreflexive(S, y) == \A f \in S : f \notin y[f]
Total(S, y) == \A f, g \in S : f = g \/ f \in y[g] \/ g \in y[f]
Transitive(S, y) == \A f, g \in S : g \in y[f] => y[g] \subseteq y[f]
StrictOrder(S, y) == Irreflexive(S, y) /\ Total(S, y) /\ Transitive(S, y)
LateLast == \A f \in late : younger[f] \subseteq late

FInv ==
  /\ FlowTypeOK /\ IsFiniteSet(stamped)
  /\ \A f \in Flow : f \notin stamped => younger[f] = {}
  /\ StrictOrder(stamped, younger)
  /\ LateLast
  /\ TableKeepsRecent

(* In a finite order one flow is older than all others: the one with the   *)
(* fewest that are not younger.                                            *)
LEMMA OldestExists ==
  ASSUME NEW S, NEW y, IsFiniteSet(S), S /= {}, StrictOrder(S, y)
  PROVE  \E o \in S : S \ {o} \subseteq y[o]
<1> DEFINE R == StrictSubsetOrdering(S)
           T == {S \ y[f] : f \in S}
<1>1. IsWellFoundedOn(R, FiniteSubsetsOf(S))
  BY FS_StrictSubsetOrderingWellFounded
<1>2. T \subseteq FiniteSubsetsOf(S)
  BY FS_Subset DEF FiniteSubsetsOf
<1>3. T /= {}
  OBVIOUS
<1>4. \E x \in T : \A z \in T : ~ (<<z, x>> \in R)
  <2> HIDE DEF R, T
  <2> QED BY <1>1, <1>2, <1>3, WFMin
<1>5. PICK o \in S : \A f \in S : <<S \ y[f], S \ y[o]>> \notin R
  BY <1>4
<1>6. ASSUME NEW f \in S, f /= o, f \notin y[o] PROVE FALSE
  <2>1. o \in y[f] /\ y[o] \subseteq y[f]
    BY <1>6 DEF StrictOrder, Total, Transitive
  <2>2. o \notin y[o]
    BY DEF StrictOrder, Irreflexive
  <2>3. S \ y[f] \subseteq S \ y[o] /\ S \ y[f] /= S \ y[o]
    BY <2>1, <2>2
  <2>4. <<S \ y[f], S \ y[o]>> \in R
    BY <2>3 DEF StrictSubsetOrdering
  <2> QED BY <1>5, <2>4
<1> QED BY <1>6

(* The eviction of reapIdleFlows: all but the oldest flow that stays are   *)
(* younger than it, fewer than MaxFlows.                                   *)
LEMMA YoungestBounded ==
  ASSUME NEW S, IsFiniteSet(S), StrictOrder(S, younger')
  PROVE  IsFiniteSet(Youngest(S)) /\ Cardinality(Youngest(S)) <= MaxFlows
<1> DEFINE K == Youngest(S)
<1>1. K \subseteq S
  BY DEF Youngest
<1>2. IsFiniteSet(K) /\ Cardinality(K) \in Nat
  BY <1>1, FS_Subset, FS_CardinalityType
<1>3. CASE K = {}
  BY <1>2, <1>3, FS_EmptySet, TunFlowAssumption
<1>4. CASE K /= {}
  <2>1. StrictOrder(K, younger')
    BY <1>1 DEF StrictOrder, Irreflexive, Total, Transitive
  <2>2. PICK o \in K : K \ {o} \subseteq younger'[o]
    <3> HIDE DEF K
    <3> QED BY <1>2, <1>4, <2>1, OldestExists
  <2>3. Cardinality(younger'[o] \cap S) < MaxFlows
    BY <2>2 DEF Youngest
  <2>4. IsFiniteSet(younger'[o] \cap S)
    BY FS_Subset
  <2>5. K \ {o} \subseteq younger'[o] \cap S
    BY <1>1, <2>2
  <2>6. Cardinality(K \ {o}) <= Cardinality(younger'[o] \cap S)
    BY <2>4, <2>5, FS_Subset
  <2>7. Cardinality(K \ {o}) = Cardinality(K) - 1
    <3> HIDE DEF K
    <3> QED BY <1>2, <2>2, FS_RemoveElement
  <2>8. Cardinality(younger'[o] \cap S) \in Nat
    BY <2>4, FS_CardinalityType
  <2>9. Cardinality(K) <= MaxFlows
    <3> HIDE DEF K
    <3> QED BY <1>2, <2>3, <2>6, <2>7, <2>8, TunFlowAssumption
  <2> QED BY <1>2, <2>9
<1> QED BY <1>2, <1>3, <1>4

(* A stamp keeps the order strict and total, wherever it is put in.        *)
LEMMA StampOrders ==
  ASSUME NEW f \in Flow, NEW since \in SUBSET stamped,
         \A g \in since : younger[g] \subseteq since,
         NEW secs \in 0 .. IdleLimit + 1
  PROVE  FInv /\ Stamp(f, since, secs) =>
           /\ stamped' \subseteq Flow /\ IsFiniteSet(stamped')
           /\ younger' \in [Flow -> SUBSET stamped']
           /\ age' \in [Flow -> 0 .. IdleLimit + 1]
           /\ \A g \in Flow : g \notin stamped' => younger'[g] = {}
           /\ StrictOrder(stamped', younger')
<1> SUFFICES ASSUME FInv, Stamp(f, since, secs)
             PROVE  /\ stamped' \subseteq Flow /\ IsFiniteSet(stamped')
                    /\ younger' \in [Flow -> SUBSET stamped']
                    /\ age' \in [Flow -> 0 .. IdleLimit + 1]
                    /\ \A g \in Flow : g \notin stamped' => younger'[g] = {}
                    /\ StrictOrder(stamped', younger')
  OBVIOUS
<1> DEFINE Placed(g) == IF g = f THEN since \ {f}
                        ELSE IF g \in stamped \ since THEN younger[g] \cup {f}
                        ELSE younger[g] \ {f}
<1>1. /\ stamped' = stamped \cup {f}
      /\ younger' = [g \in Flow |-> Placed(g)]
      /\ age' = [age EXCEPT ![f] = secs]
  BY DEF Stamp
<1>2. stamped \subseteq Flow /\ younger \in [Flow -> SUBSET stamped]
  BY DEF FInv, FlowTypeOK
<1>3. stamped' \subseteq Flow /\ IsFiniteSet(stamped')
  BY <1>1, <1>2, FS_AddElement DEF FInv
<1>4. age' \in [Flow -> 0 .. IdleLimit + 1]
  BY <1>1 DEF FInv, FlowTypeOK
<1>5. younger' \in [Flow -> SUBSET stamped']
  BY <1>1, <1>2
<1>6. \A g \in Flow : younger'[g] = Placed(g)
  BY <1>1
<1>7. \A g \in Flow : g \notin stamped' => younger'[g] = {}
  BY <1>1, <1>6 DEF FInv
<1>8. Irreflexive(stamped', younger')
  BY <1>1, <1>2, <1>6 DEF FInv, StrictOrder, Irreflexive
<1>9. Total(stamped', younger')
  BY <1>1, <1>2, <1>6 DEF FInv, StrictOrder, Total
<1>10. \A g \in stamped \ since : since \subseteq younger[g]
  BY DEF FInv, StrictOrder, Total
<1>11. Transitive(stamped', younger')
  <2> SUFFICES ASSUME NEW g \in stamped', NEW h \in stamped', h \in younger'[g]
               PROVE  younger'[h] \subseteq younger'[g]
    BY DEF Transitive
  <2>1. g \in Flow /\ h \in Flow
    BY <1>3
  <2>2. younger'[g] = Placed(g) /\ younger'[h] = Placed(h)
    BY <1>6, <2>1
  <2>3. g /= f /\ h /= f => younger[h] \subseteq younger[g]
    BY <1>1, <2>2 DEF FInv, StrictOrder, Transitive
  <2>4. CASE g = f
    <3>1. h \in since /\ h /= f /\ younger[h] \subseteq since
      BY <2>2, <2>4
    <3>2. younger'[h] = younger[h] \ {f} /\ younger'[g] = since \ {f}
      BY <2>2, <2>4, <3>1
    <3> QED BY <3>1, <3>2
  <2>5. CASE g /= f /\ g \in since
    BY <2>2, <2>3, <2>5
  <2>6. CASE g /= f /\ g \notin since
    <3>1. g \in stamped /\ younger'[g] = younger[g] \cup {f}
      BY <1>1, <2>2, <2>6
    <3>2. CASE h = f
      BY <1>10, <2>2, <2>6, <3>1, <3>2
    <3>3. CASE h /= f
      <4>1. younger'[h] \subseteq younger[h] \cup {f}
        BY <2>2, <3>3
      <4> QED BY <2>3, <2>6, <3>1, <3>3, <4>1
    <3> QED BY <3>2, <3>3
  <2> QED BY <2>4, <2>5, <2>6
<1> QED BY <1>3, <1>4, <1>5, <1>7, <1>8, <1>9, <1>11 DEF StrictOrder

(* A flow that may not be evicted is not evicted.                          *)
LEMMA RecentStays ==
  ASSUME NEW f \in Flow, NEW since \in SUBSET initiatedFlows,
         NEW fs \in SUBSET stamped', initiatedFlows \cup {f} \subseteq fs,
         IsFiniteSet(stamped'), younger' \in [Flow -> SUBSET stamped'],
         FInv, Stamp(f, since, age'[f])
  PROVE  \A g \in stamped' :
           age'[g] <= IdleLimit /\ Cardinality(younger'[g]) < MaxFlows
           => g \in Youngest(Fresh(fs)) /\ g \in fs
<1> SUFFICES ASSUME NEW g \in stamped', age'[g] <= IdleLimit,
                    Cardinality(younger'[g]) < MaxFlows
             PROVE  g \in Youngest(Fresh(fs)) /\ g \in fs
  OBVIOUS
<1>1. /\ stamped \subseteq Flow /\ younger \in [Flow -> SUBSET stamped]
      /\ age \in [Flow -> 0 .. IdleLimit + 1]
      /\ initiatedFlows \subseteq stamped
  BY DEF FInv, FlowTypeOK
<1>2. stamped' = stamped \cup {f} /\ g \in Flow
  BY <1>1 DEF Stamp
<1>3. younger'[g] \subseteq stamped' /\ IsFiniteSet(younger'[g])
  BY <1>2, FS_Subset
<1>4. g \in fs
  <2>1. CASE g = f \/ g \in since
    BY <2>1
  <2>2. CASE g /= f /\ g \notin since
    <3>1. g \in stamped /\ younger[g] \subseteq younger'[g]
      BY <1>1, <1>2, <2>2 DEF Stamp
    <3>2. age[g] = age'[g]
      BY <1>1, <1>2, <2>2 DEF Stamp
    <3>3. /\ Cardinality(younger[g]) \in Nat
          /\ Cardinality(younger[g]) <= Cardinality(younger'[g])
      BY <1>3, <3>1, FS_Subset, FS_CardinalityType
    <3>4. Cardinality(younger'[g]) \in Nat
      BY <1>3, FS_CardinalityType
    <3>5. Cardinality(younger[g]) < MaxFlows
      BY <3>3, <3>4, TunFlowAssumption
    <3> QED BY <3>1, <3>2, <3>5 DEF FInv, TableKeepsRecent, RecentKept
  <2> QED BY <2>1, <2>2
<1>5. g \in Fresh(fs)
  BY <1>4 DEF Fresh
<1> DEFINE above == younger'[g] \cap Fresh(fs)
<1>6. above \subseteq younger'[g]
  OBVIOUS
<1>7. /\ Cardinality(above) \in Nat /\ Cardinality(younger'[g]) \in Nat
      /\ Cardinality(above) <= Cardinality(younger'[g])
  BY <1>3, <1>6, FS_Subset, FS_CardinalityType
<1>8. Cardinality(above) < MaxFlows
  <2> HIDE DEF above
  <2> QED BY <1>7, TunFlowAssumption
<1> QED BY <1>4, <1>5, <1>8 DEF Youngest

LEMMA InitFInv == FlowInit => FInv
<1> SUFFICES ASSUME FlowInit PROVE FInv
  OBVIOUS
<1>1. FlowTypeOK
  <2>1. 0 \in 0 .. IdleLimit + 1 /\ ReapEvery \in 0 .. ReapEvery
    BY TunFlowAssumption
  <2>2. /\ age \in [Flow -> 0 .. IdleLimit + 1] /\ reapAge \in 0 .. ReapEvery
        /\ readAge \in 0 .. IdleLimit + 1
    BY <2>1 DEF FlowInit
  <2>3. routed \in BOOLEAN
    BY DEF FlowInit
  <2> QED BY <2>2, <2>3 DEF FlowInit, FlowTypeOK
<1>2. IsFiniteSet({}) /\ Cardinality({}) = 0
  BY FS_EmptySet
<1>3. TableKeepsRecent
  BY <1>2, TunFlowAssumption
     DEF FlowInit, TableKeepsRecent, TableBounded, RecentKept
<1> QED BY <1>1, <1>2, <1>3
        DEF FlowInit, FInv, StrictOrder, Irreflexive, Total, Transitive,
            LateLast

(* reapIdleFlows leaves at most MaxFlows entries, and all recent ones.     *)
LEMMA RecordInitiatedFlowFInv ==
  ASSUME NEW f \in Flow
  PROVE  FInv /\ RecordInitiatedFlow(f) => FInv'
<1> SUFFICES ASSUME FInv, RecordInitiatedFlow(f) PROVE FInv'
  OBVIOUS
<1> DEFINE fs == initiatedFlows \cup {f}
<1>1. /\ initiatedFlows \subseteq stamped /\ late \subseteq initiatedFlows
      /\ readAge \in 0 .. IdleLimit + 1 /\ stamped \subseteq Flow
      /\ age \in [Flow -> 0 .. IdleLimit + 1]
  BY DEF FInv, FlowTypeOK
<1>2. Stamp(f, late, readAge) /\ ReapIdleFlows(fs)
  BY DEF RecordInitiatedFlow
<1>3. /\ stamped' \subseteq Flow /\ IsFiniteSet(stamped')
      /\ younger' \in [Flow -> SUBSET stamped']
      /\ age' \in [Flow -> 0 .. IdleLimit + 1]
      /\ \A g \in Flow : g \notin stamped' => younger'[g] = {}
      /\ StrictOrder(stamped', younger')
  BY <1>1, <1>2, StampOrders DEF FInv, LateLast
<1>4. fs \subseteq stamped' /\ age'[f] = readAge
  BY <1>1, <1>2 DEF Stamp
<1>5. /\ \A g \in stamped' :
           age'[g] <= IdleLimit /\ Cardinality(younger'[g]) < MaxFlows
           => g \in Youngest(Fresh(fs)) /\ g \in fs
  BY <1>1, <1>2, <1>3, <1>4, RecentStays
<1>6. Fresh(fs) \subseteq fs /\ Youngest(Fresh(fs)) \subseteq fs
  BY DEF Fresh, Youngest
<1>7. initiatedFlows' = Youngest(Fresh(fs)) \/ initiatedFlows' = fs
  BY <1>2 DEF ReapIdleFlows
<1>8. initiatedFlows' \subseteq stamped' /\ RecentKept'
  BY <1>4, <1>5, <1>6, <1>7 DEF RecentKept
<1>9. IsFiniteSet(fs) /\ IsFiniteSet(Fresh(fs)) /\ Cardinality(fs) \in Nat
  BY <1>3, <1>4, <1>6, FS_Subset, FS_CardinalityType
<1>10. TableBounded'
  <2>1. CASE Scans(fs)
    <3>1. StrictOrder(Fresh(fs), younger')
      BY <1>3, <1>4, <1>6
         DEF StrictOrder, Irreflexive, Total, Transitive
    <3>2. Cardinality(Youngest(Fresh(fs))) <= MaxFlows
      BY <1>9, <3>1, YoungestBounded
    <3> QED BY <1>2, <2>1, <3>2 DEF ReapIdleFlows, TableBounded
  <2>2. CASE ~Scans(fs)
    <3>1. Cardinality(fs) <= MaxFlows
      BY <1>9, <2>2, TunFlowAssumption DEF Scans
    <3> QED BY <1>2, <2>2, <3>1 DEF ReapIdleFlows, TableBounded
  <2> QED BY <2>1, <2>2
<1>11. reapAge' \in 0 .. ReapEvery
  BY <1>2, TunFlowAssumption DEF ReapIdleFlows, FInv, FlowTypeOK
<1>12. /\ late' = {} /\ recording' = {} /\ readAge' = 0
       /\ routed' = routed /\ written' = "peer"
  BY DEF RecordInitiatedFlow
<1>13. FlowTypeOK'
  BY <1>3, <1>8, <1>11, <1>12, TunFlowAssumption DEF FInv, FlowTypeOK
<1> QED BY <1>3, <1>8, <1>10, <1>12, <1>13
        DEF FInv, TableKeepsRecent, LateLast

(* isReturnByFlow puts the flow on top and takes nothing out.              *)
LEMMA HandlePacketFInv ==
  ASSUME NEW f \in Flow
  PROVE  FInv /\ HandlePacket(f) => FInv'
<1> SUFFICES ASSUME FInv, HandlePacket(f) PROVE FInv'
  OBVIOUS
<1>1. CASE IsReturnByFlow(f) /\ written' = "kernel"
  <2>1. /\ f \in initiatedFlows /\ Stamp(f, {}, 0)
        /\ initiatedFlows' = initiatedFlows /\ reapAge' = reapAge
        /\ recording' = recording /\ readAge' = readAge /\ routed' = routed
        /\ late' \in {{}, late \cup {f}}
    BY <1>1 DEF IsReturnByFlow, HandlePacket
  <2>2. /\ initiatedFlows \subseteq stamped /\ stamped \subseteq Flow
        /\ late \subseteq initiatedFlows
        /\ age \in [Flow -> 0 .. IdleLimit + 1]
        /\ younger \in [Flow -> SUBSET stamped]
    BY DEF FInv, FlowTypeOK
  <2>3. 0 \in 0 .. IdleLimit + 1
    BY TunFlowAssumption
  <2>4. /\ stamped' \subseteq Flow /\ IsFiniteSet(stamped')
        /\ younger' \in [Flow -> SUBSET stamped']
        /\ age' \in [Flow -> 0 .. IdleLimit + 1]
        /\ \A g \in Flow : g \notin stamped' => younger'[g] = {}
        /\ StrictOrder(stamped', younger')
    BY <2>1, <2>3, StampOrders
  <2>5. stamped' = stamped /\ age'[f] = 0
    BY <2>1, <2>2 DEF Stamp
  <2>6. /\ initiatedFlows \subseteq stamped'
        /\ initiatedFlows \cup {f} \subseteq initiatedFlows
    BY <2>1, <2>2, <2>5
  <2>7. Stamp(f, {}, age'[f])
    BY <2>1, <2>5
  <2>8. \A g \in stamped' :
          age'[g] <= IdleLimit /\ Cardinality(younger'[g]) < MaxFlows
          => g \in Youngest(Fresh(initiatedFlows)) /\ g \in initiatedFlows
    BY <2>4, <2>6, <2>7, RecentStays
  <2>9. TableKeepsRecent'
    BY <2>1, <2>8 DEF FInv, TableKeepsRecent, TableBounded, RecentKept
  <2>10. LateLast'
    BY <2>1, <2>2 DEF FInv, LateLast, Stamp
  <2>11. FlowTypeOK'
    BY <1>1, <2>1, <2>2, <2>4, <2>5 DEF FInv, FlowTypeOK
  <2> QED BY <2>4, <2>9, <2>10, <2>11 DEF FInv
<1>2. CASE written' = "netstack" /\ UNCHANGED <<stamps, late>>
  <2>1. FlowTypeOK'
    BY <1>2 DEF HandlePacket, stamps, FInv, FlowTypeOK
  <2>2. UNCHANGED <<initiatedFlows, stamps, late>>
    BY <1>2 DEF HandlePacket
  <2> QED BY <2>1, <2>2 DEF stamps, FInv, StrictOrder, Irreflexive, Total,
             Transitive, LateLast, TableKeepsRecent, TableBounded, RecentKept
<1> QED BY <1>1, <1>2 DEF HandlePacket

(* Ages only grow, so time makes no flow recent.                           *)
LEMMA TickFInv == FInv /\ Tick => FInv'
<1> SUFFICES ASSUME FInv, Tick PROVE FInv'
  OBVIOUS
<1>1. /\ age \in [Flow -> 0 .. IdleLimit + 1] /\ reapAge \in 0 .. ReapEvery
      /\ readAge \in 0 .. IdleLimit + 1 /\ stamped \subseteq Flow
  BY DEF FInv, FlowTypeOK
<1>2. /\ age' = [f \in Flow |-> IF f \in stamped THEN Later(age[f]) ELSE 0]
      /\ reapAge' = IF reapAge < ReapEvery THEN reapAge + 1 ELSE reapAge
      /\ readAge' = IF recording = {} THEN 0 ELSE Later(readAge)
      /\ UNCHANGED <<initiatedFlows, stamped, younger, recording, late, routed,
                     written>>
  BY DEF Tick
<1>3. \A secs \in 0 .. IdleLimit + 1 :
        /\ 0 \in 0 .. IdleLimit + 1 /\ Later(secs) \in 0 .. IdleLimit + 1
        /\ Later(secs) <= IdleLimit => secs <= IdleLimit
  BY TunFlowAssumption DEF Later
<1>4. age' \in [Flow -> 0 .. IdleLimit + 1] /\ readAge' \in 0 .. IdleLimit + 1
  BY <1>1, <1>2, <1>3
<1>5. reapAge' \in 0 .. ReapEvery
  BY <1>1, <1>2, TunFlowAssumption
<1>6. FlowTypeOK'
  BY <1>2, <1>4, <1>5 DEF FInv, FlowTypeOK
<1>7. RecentKept'
  <2> SUFFICES ASSUME NEW f \in stamped', age'[f] <= IdleLimit,
                      Cardinality(younger'[f]) < MaxFlows
               PROVE  f \in initiatedFlows'
    BY DEF RecentKept
  <2>1. f \in stamped /\ f \in Flow /\ younger' = younger
    BY <1>1, <1>2
  <2>2. age'[f] = Later(age[f])
    BY <1>2, <2>1
  <2>3. age[f] <= IdleLimit
    BY <1>1, <1>3, <2>1, <2>2
  <2> QED BY <1>2, <2>1, <2>3 DEF FInv, TableKeepsRecent, RecentKept
<1> QED BY <1>2, <1>6, <1>7
        DEF FInv, StrictOrder, Irreflexive, Total, Transitive, LateLast,
            TableKeepsRecent, TableBounded

(* A step that leaves the table and the order alone.                       *)
LEMMA OrderKept ==
  FInv /\ FlowTypeOK' /\ UNCHANGED <<initiatedFlows, stamps>>
       /\ late' \in {late, {}}
  => FInv'
BY DEF stamps, FInv, StrictOrder, Irreflexive, Total, Transitive, LateLast,
       TableKeepsRecent, TableBounded, RecentKept

(* One step per action.                                                    *)
LEMMA FlowNextFInv == FInv /\ [FlowNext]_flowVars => FInv'
<1> SUFFICES ASSUME FInv, [FlowNext]_flowVars PROVE FInv'
  OBVIOUS
<1>1. CASE HandleTunDevice
  <2>1. FlowTypeOK'
    BY <1>1 DEF HandleTunDevice, stamps, clock, FInv, FlowTypeOK
  <2> QED BY <1>1, <2>1, OrderKept DEF HandleTunDevice, clock
<1>2. ASSUME NEW f \in Flow, ReadClock(f) PROVE FInv'
  <2>1. FlowTypeOK'
    BY <1>2, TunFlowAssumption DEF ReadClock, stamps, FInv, FlowTypeOK
  <2> QED BY <1>2, <2>1, OrderKept DEF ReadClock
<1>3. CASE HandleOtherPacket
  <2>1. FlowTypeOK'
    BY <1>3 DEF HandleOtherPacket, stamps, clock, FInv, FlowTypeOK
  <2> QED BY <1>3, <2>1, OrderKept DEF HandleOtherPacket, clock
<1>4. CASE HandleSysRt
  <2>1. routed' \in BOOLEAN
    BY <1>4 DEF HandleSysRt
  <2>2. FlowTypeOK'
    BY <1>4, <2>1 DEF HandleSysRt, stamps, clock, FInv, FlowTypeOK
  <2> QED BY <1>4, <2>2, OrderKept DEF HandleSysRt, clock
<1>5. CASE UNCHANGED flowVars
  <2>1. FlowTypeOK'
    BY <1>5 DEF flowVars, stamps, clock, FInv, FlowTypeOK
  <2> QED BY <1>5, <2>1, OrderKept DEF flowVars, clock
<1> QED BY <1>1, <1>2, <1>3, <1>4, <1>5, RecordInitiatedFlowFInv,
           HandlePacketFInv, TickFInv DEF FlowNext

(* The table, the stamps and the thread that is recording keep their       *)
(* types: in particular what is stamped between the clock and the lock of  *)
(* recordInitiatedFlow is in the table all the time.                       *)
THEOREM FlowTypeCorrect == FlowSpec => []FlowTypeOK
<1>1. FInv => FlowTypeOK
  BY DEF FInv
<1> QED BY InitFInv, FlowNextFInv, <1>1, PTL DEF FlowSpec

(* The table stays within MaxFlows and keeps every flow that is not idle   *)
(* and has fewer than MaxFlows younger ones, for every limit and however   *)
(* the two threads interleave (recordInitiatedFlow, isReturnByFlow,        *)
(* reapIdleFlows).                                                         *)
THEOREM TableAlwaysKeepsRecent == FlowSpec => []TableKeepsRecent
<1>1. FInv => TableKeepsRecent
  BY DEF FInv
<1> QED BY InitFInv, FlowNextFInv, <1>1, PTL DEF FlowSpec
=============================================================================
