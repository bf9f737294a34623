------------------------------ MODULE WsClient ------------------------------
(***************************************************************************)
(* The client's end of the WebSocket connection (candy/src/websocket/      *)
(* client.cc): the greeting, which gives the tun module and the peer       *)
(* manager their address through the message queues, the messages of the   *)
(* server, which the wsThread turns into messages for these queues, and    *)
(* the keep-alive that tells a silent server from an idle one.             *)
(*                                                                         *)
(* A frame is its kind.  The timestamp of the last frame received is kept  *)
(* as its age in seconds.                                                  *)
(***************************************************************************)
EXTENDS Naturals, Sequences

CONSTANTS
  PingAfter,  \* 15: seconds without a frame before a ping is sent
  DropAfter,  \* 30: seconds without a frame before the server is given up
  AnswerIn,   \* seconds in which a live server answers a ping
  P2POnly,
  MaxQueue    \* bound: frames and messages on their way

(* The time to answer a ping that the limits leave.                        *)
ASSUME WsClientAssumption ==
  /\ {PingAfter, DropAfter, AnswerIn, MaxQueue} \subseteq Nat
  /\ PingAfter + 1 + AnswerIn <= DropAfter
  /\ P2POnly \in BOOLEAN

VARIABLES
  phase,    \* of run: "new", "connected", "greeted", "threads"
  running,  \* Client::running
  link,     \* "up", "dead" (the server is silent), "closed"
  authed,   \* the server has been sent the authentication
  telling,  \* sendAuthMsg has told the tun module, the peer manager not yet
  asked,    \* ... a request for an address that it has not answered
  frames,   \* from the server, on their way
  queue,    \* tunMsgQueue and peerMsgQueue
  started,  \* modules that have handled TUNADDR
  age,      \* seconds since timestamp
  polled,   \* the second of poll that began last is over
  pinged    \* the how manieth second of the oldest unanswered ping it
            \* is, 0 if there is none

vars == <<phase, running, link, authed, telling, asked, frames, queue, started,
          age, polled, pinged>>

Modules == {"tun", "peer"}
FrameKinds == {"FORWARD", "EXPTTUN", "CONN", "DISCOVERY", "ROUTE", "PONG"}
MsgKinds == {"PACKET", "TUNADDR", "SYSRT", "TRYP2P", "PUBINFO"}

TypeOK ==
  /\ phase \in {"new", "connected", "greeted", "threads"}
  /\ link \in {"up", "dead", "closed"}
  /\ {running, authed, telling, asked, polled} \subseteq BOOLEAN
  /\ frames \in Seq(FrameKinds)
  /\ queue \in [Modules -> Seq(MsgKinds)]
  /\ started \subseteq Modules
  /\ age \in 0 .. DropAfter + 1
  /\ pinged \in 0 .. AnswerIn + 1

Init ==
  /\ phase = "new" /\ running = TRUE /\ link = "up"
  /\ authed = FALSE /\ telling = FALSE /\ asked = FALSE
  /\ frames = <<>>
  /\ queue = [m \in Modules |-> <<>>]
  /\ started = {}
  /\ age = 0 /\ polled = FALSE /\ pinged = 0

-----------------------------------------------------------------------------
(* run: connect and greet, before the threads are started.                 *)
Connect ==
  /\ phase = "new"
  /\ phase' = "connected"
  /\ UNCHANGED <<running, link, authed, telling, asked, frames, queue, started,
                 age, polled, pinged>>

(* Mutant of Put: the kind of the frame is passed on.                      *)
PutFrame(q, m, kind) == [q EXCEPT ![m] = Append(@, "DISCOVERY")]

(* MsgQueue::write.                                                        *)
Put(q, m, kind) == [q EXCEPT ![m] = Append(@, kind)]

Ping == pinged' = IF pinged = 0 THEN 1 ELSE pinged

(* sendAuthMsg: after the server the tun module is told its address, ...   *)
SendAuthMsg ==
  /\ authed' = TRUE /\ telling' = TRUE
  /\ queue' = Put(queue, "tun", "TUNADDR")

(* Mutant of TellPeer: the peer manager is forgotten.                      *)
TellPeerNot ==
  /\ telling
  /\ telling' = FALSE
  /\ Ping
  /\ UNCHANGED <<phase, running, link, authed, asked, frames, queue, started,
                 age, polled>>

(* ... and, while that may act on it, the peer manager; then a first ping. *)
TellPeer ==
  /\ telling
  /\ telling' = FALSE
  /\ queue' = Put(queue, "peer", "TUNADDR")
  /\ Ping
  /\ UNCHANGED <<phase, running, link, authed, asked, frames, started, age,
                 polled>>

SendExptTunMsg == asked' = TRUE

(* Mutant of Greet: the else is missing.                                   *)
GreetBoth ==
  /\ phase = "connected"
  /\ phase' = "greeted"
  /\ asked' = TRUE
  /\ SendAuthMsg
  /\ UNCHANGED <<running, link, frames, started, age, polled, pinged>>

(* The virtual MAC, then the authentication for the address that the       *)
(* configuration gives, or the request for one if it gives none.           *)
Greet ==
  /\ phase = "connected"
  /\ phase' = "greeted"
  /\ \/ SendAuthMsg /\ UNCHANGED asked
     \/ SendExptTunMsg /\ UNCHANGED <<authed, telling, queue>>
  /\ UNCHANGED <<running, link, frames, started, age, polled, pinged>>

StartThreads ==
  /\ phase = "greeted" /\ ~telling
  /\ phase' = "threads"
  /\ UNCHANGED <<running, link, authed, telling, asked, frames, queue, started,
                 age, polled, pinged>>

-----------------------------------------------------------------------------
(* The server: it offers an address once for each request, relays and      *)
(* pushes routes to authenticated clients only, and answers pings.         *)
ServerSends(kind) ==
  /\ link = "up"
  /\ \/ kind = "EXPTTUN" /\ asked /\ asked' = FALSE /\ UNCHANGED pinged
     \/ /\ kind = "PONG" /\ pinged > 0 /\ pinged' = 0 /\ UNCHANGED asked
     \/ /\ kind \in {"FORWARD", "CONN", "DISCOVERY", "ROUTE"} /\ authed
        /\ Len(frames) < MaxQueue
        /\ UNCHANGED <<asked, pinged>>
  /\ frames' = Append(frames, kind)
  /\ UNCHANGED <<phase, running, link, authed, telling, queue, started, age,
                 polled>>

(* The server closes the connection, its host dies, or the path breaks.    *)
LinkBreaks ==
  /\ link = "up" /\ phase /= "new"
  /\ link' \in {"dead", "closed"}
  /\ UNCHANGED <<phase, running, authed, telling, asked, frames, queue, started,
                 age, polled, pinged>>

-----------------------------------------------------------------------------
Serving == phase = "threads" /\ running

(* wsThread: handleWsConn.                                                 *)
WsThread == Serving /\ ~telling

(* handleWsMsg: what a frame becomes for the other modules.  (Messages for *)
(* both of them are one step: nothing below tells them apart.)             *)
HandleWsMsg(kind) ==
  \/ /\ kind = "FORWARD"
     /\ queue' = LET tried == Put(queue, "peer", "TRYP2P")
                 IN  IF P2POnly THEN tried ELSE Put(tried, "tun", "PACKET")
     /\ UNCHANGED <<authed, telling>>
  \/ kind = "EXPTTUN" /\ SendAuthMsg
  \/ /\ kind = "CONN"
     /\ queue' = Put(queue, "peer", "PUBINFO")
     /\ UNCHANGED <<authed, telling>>
  \/ /\ kind = "DISCOVERY"
     /\ queue' = Put(queue, "peer", "TRYP2P")
     /\ UNCHANGED <<authed, telling>>
  \/ /\ kind = "ROUTE"
     /\ queue' = Put(Put(queue, "tun", "SYSRT"), "peer", "SYSRT")
     /\ UNCHANGED <<authed, telling>>
  \/ kind = "PONG" /\ UNCHANGED <<queue, authed, telling>>

(* The socket is readable: a frame is a sign of life, ...                  *)
ReceiveFrame ==
  /\ WsThread /\ frames /= <<>>
  /\ \A m \in Modules : Len(queue[m]) < MaxQueue
  /\ frames' = Tail(frames)
  /\ age' = 0 /\ polled' = FALSE
  /\ HandleWsMsg(Head(frames))
  /\ UNCHANGED <<phase, running, link, asked, started, pinged>>

(* ... a close frame, an error or the end of the stream is the end.        *)
ReceiveClose ==
  /\ WsThread /\ frames = <<>> /\ link = "closed"
  /\ running' = FALSE
  /\ UNCHANGED <<phase, link, authed, telling, asked, frames, queue, started,
                 age, polled, pinged>>

(* Mutant of PingDue: only when it is too late.                            *)
PingDueLate == age >= DropAfter

PingDue == age > PingAfter

(* Mutant of DropDue: a ping that is on its way counts as a sign of life.  *)
DropDuePinged == age > DropAfter /\ pinged = 0

DropDue == age > DropAfter

(* poll has timed out: give up, ping or wait on.                           *)
PollTimeout ==
  /\ WsThread /\ polled /\ frames = <<>> /\ link /= "closed"
  /\ polled' = FALSE
  /\ \/ DropDue /\ running' = FALSE /\ UNCHANGED pinged
     \/ ~DropDue /\ PingDue /\ Ping /\ UNCHANGED running
     \/ ~DropDue /\ ~PingDue /\ UNCHANGED <<running, pinged>>
  /\ UNCHANGED <<phase, link, authed, telling, asked, frames, queue, started,
                 age>>

(* handleTunAddr of a module: the device goes up and its thread starts, or *)
(* the key of the peer manager is made; a failure stops the client.        *)
HandleTunAddr(m) ==
  \/ started' = started \cup {m} /\ UNCHANGED running
  \/ running' = FALSE /\ UNCHANGED started

(* The tun module and the peer manager, started after the threads of run,  *)
(* handle their queues.                                                    *)
HandleQueue(m) ==
  /\ Serving /\ queue[m] /= <<>>
  /\ queue' = [queue EXCEPT ![m] = Tail(@)]
  /\ \/ Head(queue[m]) = "TUNADDR" /\ HandleTunAddr(m)
     \/ Head(queue[m]) /= "TUNADDR" /\ UNCHANGED <<started, running>>
  /\ UNCHANGED <<phase, link, authed, telling, asked, frames, age, polled,
                 pinged>>

(* A message of another thread, with room left for those of the server.    *)
PutPacket(m) ==
  /\ Serving /\ Len(queue[m]) + 1 < MaxQueue
  /\ queue' = Put(queue, m, "PACKET")
  /\ UNCHANGED <<phase, running, link, authed, telling, asked, frames, started,
                 age, polled, pinged>>

(* handleTunDevice: the thread of the tun device has a packet for the peer *)
(* manager.  (So has the NetStack, of packets that the tun module gave     *)
(* it.)                                                                    *)
HandleTunDevice == "tun" \in started /\ PutPacket("peer")

(* handleForwardMessage: a packet from a peer, for this host or for        *)
(* another peer, received by the threads that TUNADDR starts.              *)
HandleForwardMessage == "peer" \in started /\ \E m \in Modules : PutPacket(m)

(* Another module stops the client.                                        *)
Shutdown ==
  /\ Serving
  /\ running' = FALSE
  /\ UNCHANGED <<phase, link, authed, telling, asked, frames, queue, started,
                 age, polled, pinged>>

(* A second passes (the greeting takes none).  A second in which nothing   *)
(* is readable ends with the timeout of poll; a live server answers a ping *)
(* in time, and what it sent has been read before the next second begins.  *)
Tick ==
  /\ phase = "threads" /\ ~telling
  /\ Serving => ~polled
  /\ link = "up" => /\ pinged <= AnswerIn
                    /\ Serving => frames = <<>>
  /\ age' = IF age <= DropAfter THEN age + 1 ELSE age
  /\ polled' = (Serving /\ frames = <<>>)
  /\ pinged' = IF pinged > 0 /\ pinged <= AnswerIn THEN pinged + 1 ELSE pinged
  /\ UNCHANGED <<phase, running, link, authed, telling, asked, frames, queue,
                 started>>

Next ==
  \/ Connect \/ Greet \/ TellPeer \/ StartThreads
  \/ \E kind \in FrameKinds : ServerSends(kind)
  \/ LinkBreaks
  \/ ReceiveFrame \/ ReceiveClose \/ PollTimeout
  \/ \E m \in Modules : HandleQueue(m)
  \/ HandleTunDevice \/ HandleForwardMessage
  \/ Shutdown
  \/ Tick

(* The threads run, and time passes.                                       *)
Fairness ==
  /\ WF_vars(TellPeer)
  /\ WF_vars(ReceiveFrame) /\ WF_vars(ReceiveClose) /\ WF_vars(PollTimeout)
  /\ \A m \in Modules : WF_vars(HandleQueue(m))
  /\ WF_vars(Tick)

Spec == Init /\ [][Next]_vars
FairSpec == Spec /\ Fairness

-----------------------------------------------------------------------------
(* Properties.                                                             *)

(* No module of a running client is given a packet, a route or a peer of   *)
(* the server before it has its address, although the greeting is sent     *)
(* from two threads, the server answers it at any time, and the tun module *)
(* works on its address while the peer manager waits for its own (run,     *)
(* handleExptTunMsg, sendAuthMsg).  Only packets of the tun device can be  *)
(* ahead of TUNADDR, and only in the queue of the peer manager.            *)
Early(m) == IF m = "peer" THEN {"PACKET"} ELSE {}
AddressFirst ==
  running => \A m \in Modules \ started : \A i \in 1 .. Len(queue[m]) :
    \/ queue[m][i] \in {"TUNADDR"} \cup Early(m)
    \/ \E j \in 1 .. (i - 1) : queue[m][j] = "TUNADDR"

(* What one would expect of both modules, and the peer manager does not    *)
(* get: nothing at all is ahead of TUNADDR.                                *)
AddressBeforeAll ==
  running => \A m \in Modules :
    queue[m] /= <<>> => (m \in started <=> Head(queue[m]) /= "TUNADDR")

(* No module is given an address twice: Tun::handleTunAddr assigns a       *)
(* std::thread that must not be running.                                   *)
Addresses(m) == {i \in 1 .. Len(queue[m]) : queue[m][i] = "TUNADDR"}
AddressOnce ==
  \A m \in Modules :
    /\ m \in started => Addresses(m) = {}
    /\ \A i, j \in Addresses(m) : i = j

(* An idle but live server is not given up: the pings of handleWsConn are  *)
(* early enough for their answers.                                         *)
LiveServerKept == [][PollTimeout /\ link = "up" => running']_vars

(* A server that died, with or without a word, is noticed and the client   *)
(* stops, so that candy::client::run can connect again.                    *)
DeadServerNoticed == (phase = "threads" /\ link /= "up") ~> ~running
=============================================================================
