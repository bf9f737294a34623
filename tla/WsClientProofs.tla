--------------------------- MODULE WsClientProofs ---------------------------
(***************************************************************************)
(* The keep-alive of WsClient, for all limits that leave a live server the *)
(* time to answer; then its types and the greeting, for queues of every    *)
(* length.                                                                 *)
(***************************************************************************)
EXTENDS WsClient, SequenceTheorems, TLAPS

(* The clocks.                                                             *)
ClockTypes ==
  /\ age \in Nat /\ pinged \in 0 .. AnswerIn + 1 /\ polled \in BOOLEAN
  /\ frames \in Seq(FrameKinds)

(* While a live server is served and nothing of it waits to be read, the   *)
(* silence is no longer than the time to the next ping, or than that time  *)
(* and the age of the ping.                                                *)
Waiting == Serving /\ link = "up" /\ frames = <<>>
SilenceBounded ==
  Waiting => /\ pinged > 0 => age <= PingAfter + pinged
             /\ pinged = 0 /\ polled => age <= PingAfter + 1
             /\ pinged = 0 /\ ~polled => age <= PingAfter

(* Time begins with the threads, and the address is told in none.          *)
FreshStart == phase /= "threads" \/ telling => age = 0

KInv == ClockTypes /\ SilenceBounded /\ FreshStart

LEMMA InitKInv == Init => KInv
<1> SUFFICES ASSUME Init PROVE KInv
  OBVIOUS
<1>1. AnswerIn \in Nat
  BY WsClientAssumption
<1>2. ClockTypes
  <2>1. age \in Nat /\ pinged \in 0 .. AnswerIn + 1
    BY <1>1 DEF Init
  <2>2. frames \in Seq(FrameKinds)
    BY SMT DEF Init
  <2>3. polled \in BOOLEAN
    BY DEF Init
  <2> QED BY <2>1, <2>2, <2>3 DEF ClockTypes
<1>3. SilenceBounded /\ FreshStart
  BY DEF Init, SilenceBounded, FreshStart, Waiting, Serving
<1> QED BY <1>2, <1>3 DEF KInv

(* A sign of life or a first second: whatever follows, age is zero.        *)
LEMMA FreshPreserves ==
  ClockTypes' /\ age' = 0 => KInv'
BY WsClientAssumption DEF KInv, ClockTypes, SilenceBounded, FreshStart

(* A ping starts the count of its answer.                                  *)
LEMMA PingType == ClockTypes /\ Ping => pinged' \in 0 .. AnswerIn + 1
BY WsClientAssumption DEF ClockTypes, Ping

LEMMA GreetPreserves ==
  KInv /\ (Connect \/ Greet \/ TellPeer \/ StartThreads) => KInv'
<1> SUFFICES ASSUME KInv, Connect \/ Greet \/ TellPeer \/ StartThreads
             PROVE  KInv'
  OBVIOUS
<1>1. age' = 0 /\ UNCHANGED <<frames, polled>>
  BY DEF Connect, Greet, TellPeer, StartThreads, KInv, FreshStart
<1>2. pinged' \in 0 .. AnswerIn + 1
  BY PingType DEF Connect, Greet, TellPeer, StartThreads, KInv, ClockTypes
<1> QED BY <1>1, <1>2, FreshPreserves DEF KInv, ClockTypes

LEMMA ServerSendsPreserves ==
  ASSUME NEW kind \in FrameKinds
  PROVE  KInv /\ ServerSends(kind) => KInv'
<1> SUFFICES ASSUME KInv, ServerSends(kind) PROVE KInv'
  OBVIOUS
<1>1. /\ frames' = Append(frames, kind)
      /\ UNCHANGED <<age, polled, phase, telling>>
  BY DEF ServerSends
<1>2. frames' \in Seq(FrameKinds) /\ frames' /= <<>>
  BY <1>1 DEF KInv, ClockTypes
<1>3. pinged' \in 0 .. AnswerIn + 1
  BY WsClientAssumption DEF ServerSends, KInv, ClockTypes
<1> QED BY <1>1, <1>2, <1>3
        DEF KInv, ClockTypes, SilenceBounded, FreshStart, Waiting

LEMMA ReceiveFramePreserves == KInv /\ ReceiveFrame => KInv'
<1> SUFFICES ASSUME KInv, ReceiveFrame PROVE KInv'
  OBVIOUS
<1>1. frames' \in Seq(FrameKinds)
  BY DEF ReceiveFrame, KInv, ClockTypes
<1>2. pinged' \in 0 .. AnswerIn + 1
  BY DEF ReceiveFrame, KInv, ClockTypes
<1>3. age' = 0 /\ polled' = FALSE
  BY DEF ReceiveFrame
<1> QED BY <1>1, <1>2, <1>3, FreshPreserves DEF ClockTypes

(* The timeout of poll pings before the silence goes past the next ping.   *)
LEMMA PollTimeoutPreserves == KInv /\ PollTimeout => KInv'
<1> SUFFICES ASSUME KInv, PollTimeout PROVE KInv'
  OBVIOUS
<1>1. /\ polled' = FALSE /\ polled
      /\ UNCHANGED <<phase, telling, link, frames, age>>
  BY DEF PollTimeout, KInv, ClockTypes
<1>2. age \in Nat /\ pinged \in 0 .. AnswerIn + 1 /\ PingAfter \in Nat
  BY WsClientAssumption DEF KInv, ClockTypes
<1>3. CASE ~running'
  <2>1. UNCHANGED pinged
    BY <1>3 DEF PollTimeout, WsThread, Serving
  <2> QED BY <1>1, <1>3, <2>1
          DEF KInv, ClockTypes, SilenceBounded, FreshStart, Waiting, Serving
<1>4. CASE running' /\ PingDue /\ Ping
  <2>1. pinged' > 0 /\ pinged' \in 0 .. AnswerIn + 1
    BY <1>2, <1>4, PingType DEF Ping, KInv
  <2>2. Waiting' => Waiting
    BY <1>1 DEF Waiting, Serving, WsThread, PollTimeout
  <2>3. Waiting => age <= PingAfter + pinged'
    BY <1>1, <1>2, <1>4 DEF Ping, KInv, SilenceBounded
  <2>4. SilenceBounded'
    BY <1>1, <2>1, <2>2, <2>3 DEF SilenceBounded
  <2> QED BY <1>1, <2>1, <2>4 DEF KInv, ClockTypes, FreshStart
<1>5. CASE running' /\ ~PingDue /\ UNCHANGED pinged
  <2>1. age <= PingAfter
    BY <1>2, <1>5 DEF PingDue
  <2>2. SilenceBounded'
    BY <1>1, <1>2, <1>5, <2>1 DEF SilenceBounded
  <2> QED BY <1>1, <1>5, <2>2 DEF KInv, ClockTypes, FreshStart
<1> QED BY <1>3, <1>4, <1>5 DEF PollTimeout

LEMMA TickPreserves == KInv /\ Tick => KInv'
<1> SUFFICES ASSUME KInv, Tick PROVE KInv'
  OBVIOUS
<1>1. /\ age \in Nat /\ pinged \in 0 .. AnswerIn + 1
      /\ {PingAfter, AnswerIn, DropAfter} \subseteq Nat
  BY WsClientAssumption DEF KInv, ClockTypes
<1>2. /\ age' \in Nat /\ age' <= age + 1
      /\ pinged' \in 0 .. AnswerIn + 1
      /\ polled' \in BOOLEAN
      /\ UNCHANGED <<phase, telling, frames, link, running>>
      /\ phase = "threads" /\ ~telling
  BY <1>1 DEF Tick
<1>3. ASSUME Waiting' PROVE
        /\ pinged' > 0 => age' <= PingAfter + pinged'
        /\ pinged' = 0 => polled' /\ age' <= PingAfter + 1
  <2>1. Waiting /\ polled' /\ ~polled /\ pinged <= AnswerIn
    BY <1>2, <1>3 DEF Waiting, Serving, Tick
  <2>2. pinged' = IF pinged > 0 THEN pinged + 1 ELSE 0
    BY <1>1, <2>1 DEF Tick
  <2> QED BY <1>1, <1>2, <2>1, <2>2 DEF KInv, SilenceBounded
<1> QED BY <1>2, <1>3 DEF KInv, ClockTypes, SilenceBounded, FreshStart

(* Steps that leave the clocks and the frames alone can only end the wait. *)
LEMMA FramePreserves ==
  /\ KInv
  /\ UNCHANGED <<phase, telling, frames, age, polled, pinged>>
  /\ Waiting' => Waiting
  => KInv'
BY DEF KInv, ClockTypes, SilenceBounded, FreshStart

LEMMA OtherPreserves ==
  /\ KInv
  /\ \/ LinkBreaks \/ ReceiveClose \/ Shutdown
     \/ \E m \in Modules : HandleQueue(m) \/ PutPacket(m)
  => KInv'
BY FramePreserves
   DEF LinkBreaks, ReceiveClose, Shutdown, HandleQueue, HandleTunAddr, PutPacket,
       Waiting, Serving, WsThread

LEMMA NextKInv == KInv /\ [Next]_vars => KInv'
<1>1. KInv /\ UNCHANGED vars => KInv'
  BY FramePreserves DEF vars, Waiting, Serving
<1>2. HandleTunDevice \/ HandleForwardMessage
        => \E m \in Modules : PutPacket(m)
  BY DEF HandleTunDevice, HandleForwardMessage, Modules
<1> QED BY <1>1, <1>2, GreetPreserves, ServerSendsPreserves,
           ReceiveFramePreserves, PollTimeoutPreserves, TickPreserves,
           OtherPreserves DEF Next

(* handleWsConn never gives up a server that answers pings in time, for    *)
(* all limits with room for a ping and its answer between them.            *)
THEOREM LiveServerAlwaysKept == Spec => LiveServerKept
<1>1. KInv /\ [Next]_vars => [PollTimeout /\ link = "up" => running']_vars
  <2> SUFFICES ASSUME KInv, PollTimeout, link = "up" PROVE running'
    OBVIOUS
  <2>1. Waiting
    BY DEF PollTimeout, Waiting, WsThread
  <2>2. age \in Nat /\ pinged \in 0 .. AnswerIn + 1
    BY DEF KInv, ClockTypes
  <2>3. age <= PingAfter + 1 + AnswerIn
    BY <2>1, <2>2, WsClientAssumption DEF KInv, SilenceBounded, ClockTypes
  <2>4. ~DropDue
    BY <2>2, <2>3, WsClientAssumption DEF DropDue
  <2> QED BY <2>1, <2>4 DEF PollTimeout, WsThread, Serving
<1> QED BY InitKInv, NextKInv, <1>1, PTL DEF Spec, LiveServerKept

-----------------------------------------------------------------------------
(* The greeting.                                                           *)

(* The address offers that are on their way.                               *)
Offers == {i \in 1 .. Len(frames) : frames[i] = "EXPTTUN"}

(* The client authenticates once: it has the request, or the offer, or has *)
(* sent the authentication, and never two of them.                         *)
OneGreeting ==
  /\ phase \in {"new", "connected"} => ~asked /\ ~authed /\ Offers = {}
  /\ asked => ~authed /\ Offers = {}
  /\ Offers /= {} => ~authed
  /\ \A i, j \in Offers : i = j

(* Before that nothing reaches the modules: a server that has not been     *)
(* sent the authentication offers an address or answers pings.             *)
NothingBefore ==
  ~authed => /\ \A i \in 1 .. Len(frames) : frames[i] \in {"EXPTTUN", "PONG"}
             /\ \A m \in Modules : queue[m] = <<>>
             /\ started = {}

(* Nothing but early packets is in the queue.                              *)
OnlyEarly(m) == \A i \in 1 .. Len(queue[m]) : queue[m][i] \in Early(m)

(* Between the two writes of sendAuthMsg the peer manager knows nothing.   *)
NotYetTold == telling => authed /\ "peer" \notin started /\ OnlyEarly("peer")

(* The address is behind early packets only, until it is handled, ...      *)
BehindEarly(m) ==
  \A i \in 1 .. Len(queue[m]) :
    queue[m][i] = "TUNADDR"
      => m \notin started /\ \A j \in 1 .. (i - 1) : queue[m][j] \in Early(m)

(* ... and is there as soon as the module has been told.                   *)
Told(m) ==
  authed /\ running /\ m \notin started
    => (telling /\ m = "peer") \/ Addresses(m) /= {}

AddressAhead == NotYetTold /\ \A m \in Modules : BehindEarly(m) /\ Told(m)

AInv == TypeOK /\ OneGreeting /\ NothingBefore /\ AddressAhead

LEMMA InitAInv == Init => AInv
<1> SUFFICES ASSUME Init PROVE AInv
  OBVIOUS
<1>1. frames \in Seq(FrameKinds) /\ queue \in [Modules -> Seq(MsgKinds)]
  BY EmptySeq DEF Init
<1>2. age \in 0 .. DropAfter + 1 /\ pinged \in 0 .. AnswerIn + 1
  BY WsClientAssumption DEF Init
<1>3. {running, authed, telling, asked, polled} \subseteq BOOLEAN
  BY DEF Init
<1>4. TypeOK
  BY <1>1, <1>2, <1>3 DEF Init, TypeOK
<1>5. Offers = {}
  BY DEF Init, Offers
<1>6. OneGreeting /\ NothingBefore /\ AddressAhead
  BY <1>5 DEF Init, OneGreeting, NothingBefore, AddressAhead, NotYetTold,
              BehindEarly, Told
<1> QED BY <1>4, <1>6 DEF AInv

-----------------------------------------------------------------------------
(* Messages put into the queues.                                           *)

LEMMA PutType ==
  ASSUME NEW q \in [Modules -> Seq(MsgKinds)], NEW m \in Modules,
         NEW kind \in MsgKinds
  PROVE  /\ Put(q, m, kind) \in [Modules -> Seq(MsgKinds)]
         /\ Put(q, m, kind)[m] = Append(q[m], kind)
         /\ \A n \in Modules \ {m} : Put(q, m, kind)[n] = q[n]
BY DEF Put

LEMMA PutTwo ==
  ASSUME TypeOK, NEW m \in Modules, NEW n \in Modules, m /= n,
         NEW k \in MsgKinds, NEW l \in MsgKinds
  PROVE  /\ Put(Put(queue, m, k), n, l) \in [Modules -> Seq(MsgKinds)]
         /\ \A o \in Modules :
              Put(Put(queue, m, k), n, l)[o]
                = IF o = m THEN Append(queue[o], k)
                  ELSE IF o = n THEN Append(queue[o], l) ELSE queue[o]
<1> DEFINE p == Put(queue, m, k)
<1>1. /\ p \in [Modules -> Seq(MsgKinds)]
      /\ p[m] = Append(queue[m], k)
      /\ \A o \in Modules \ {m} : p[o] = queue[o]
  BY PutType DEF TypeOK
<1> HIDE DEF p
<1>2. /\ Put(p, n, l) \in [Modules -> Seq(MsgKinds)]
      /\ Put(p, n, l)[n] = Append(p[n], l)
      /\ \A o \in Modules \ {n} : Put(p, n, l)[o] = p[o]
  BY <1>1, PutType
<1>3. Put(p, n, l) = Put(Put(queue, m, k), n, l)
  BY DEF p
<1> QED BY <1>1, <1>2, <1>3

(* What a message other than the address adds to a queue.                  *)
Adds(m) ==
  \/ queue'[m] = queue[m]
  \/ \E kind \in MsgKinds \ {"TUNADDR"} : queue'[m] = Append(queue[m], kind)

LEMMA PutOne ==
  ASSUME TypeOK, NEW m \in Modules, NEW kind \in MsgKinds \ {"TUNADDR"},
         queue' = Put(queue, m, kind)
  PROVE  /\ queue' \in [Modules -> Seq(MsgKinds)]
         /\ \A n \in Modules : Adds(n)
<1>1. queue \in [Modules -> Seq(MsgKinds)]
  BY DEF TypeOK
<1>2. /\ queue' \in [Modules -> Seq(MsgKinds)]
      /\ queue'[m] = Append(queue[m], kind)
      /\ \A n \in Modules \ {m} : queue'[n] = queue[n]
  BY <1>1, PutType
<1> QED BY <1>2 DEF Adds

LEMMA PutBoth ==
  ASSUME TypeOK, NEW k \in MsgKinds \ {"TUNADDR"},
         NEW l \in MsgKinds \ {"TUNADDR"},
         NEW m \in Modules, NEW n \in Modules, m /= n,
         queue' = Put(Put(queue, m, k), n, l)
  PROVE  /\ queue' \in [Modules -> Seq(MsgKinds)]
         /\ \A o \in Modules : Adds(o)
<1>1. k \in MsgKinds /\ l \in MsgKinds
  OBVIOUS
<1>2. /\ queue' \in [Modules -> Seq(MsgKinds)]
      /\ \A o \in Modules :
           queue'[o] = IF o = m THEN Append(queue[o], k)
                       ELSE IF o = n THEN Append(queue[o], l) ELSE queue[o]
  <2>1. /\ Put(Put(queue, m, k), n, l) \in [Modules -> Seq(MsgKinds)]
        /\ \A o \in Modules :
              Put(Put(queue, m, k), n, l)[o]
                = IF o = m THEN Append(queue[o], k)
                  ELSE IF o = n THEN Append(queue[o], l) ELSE queue[o]
    BY <1>1, PutTwo
  <2> QED BY <2>1
<1> QED BY <1>2 DEF Adds

LEMMA MsgEffect ==
  ASSUME TypeOK, NEW kind \in FrameKinds, kind /= "EXPTTUN", HandleWsMsg(kind)
  PROVE  /\ queue' \in [Modules -> Seq(MsgKinds)]
         /\ \A m \in Modules : Adds(m)
         /\ UNCHANGED <<authed, telling>>
<1>0. /\ {"PACKET", "SYSRT", "TRYP2P", "PUBINFO"} \subseteq MsgKinds \ {"TUNADDR"}
      /\ "tun" \in Modules /\ "peer" \in Modules
  BY DEF MsgKinds, Modules
<1>1. UNCHANGED <<authed, telling>>
  BY DEF HandleWsMsg
<1>2. CASE UNCHANGED queue
  BY <1>1, <1>2 DEF TypeOK, Adds
<1>3. CASE queue' = Put(queue, "peer", "TRYP2P")
  BY <1>0, <1>1, <1>3, PutOne
<1>4. CASE queue' = Put(queue, "peer", "PUBINFO")
  BY <1>0, <1>1, <1>4, PutOne
<1>5. CASE queue' = Put(Put(queue, "peer", "TRYP2P"), "tun", "PACKET")
  BY <1>0, <1>1, <1>5, PutBoth
<1>6. CASE queue' = Put(Put(queue, "tun", "SYSRT"), "peer", "SYSRT")
  BY <1>0, <1>1, <1>6, PutBoth
<1> QED BY <1>2, <1>3, <1>4, <1>5, <1>6 DEF HandleWsMsg

(* Such a message does not move the address.                               *)
LEMMA AddsBehind ==
  ASSUME TypeOK, NEW m \in Modules, Adds(m), UNCHANGED started, BehindEarly(m)
  PROVE  BehindEarly(m)' /\ Addresses(m)' = Addresses(m)
<1>1. CASE queue'[m] = queue[m]
  BY <1>1 DEF Addresses, BehindEarly
<1>2. CASE \E kind \in MsgKinds \ {"TUNADDR"} : queue'[m] = Append(queue[m], kind)
  <2>1. PICK kind \in MsgKinds \ {"TUNADDR"} : queue'[m] = Append(queue[m], kind)
    BY <1>2
  <2>2. /\ Len(queue[m]) \in Nat /\ Len(queue'[m]) = Len(queue[m]) + 1
        /\ \A i \in 1 .. Len(queue[m]) : queue'[m][i] = queue[m][i]
        /\ queue'[m][Len(queue[m]) + 1] /= "TUNADDR"
    BY <2>1 DEF TypeOK
  <2>3. Addresses(m)' = Addresses(m)
    BY <2>2 DEF Addresses
  <2>4. BehindEarly(m)'
    <3> SUFFICES ASSUME NEW i \in 1 .. Len(queue'[m]),
                        queue'[m][i] = "TUNADDR"
                 PROVE  /\ m \notin started
                        /\ \A j \in 1 .. (i - 1) : queue'[m][j] \in Early(m)
      BY DEF BehindEarly
    <3>1. i \in 1 .. Len(queue[m]) /\ queue[m][i] = "TUNADDR"
      BY <2>2
    <3>2. /\ m \notin started
          /\ \A j \in 1 .. (i - 1) : queue[m][j] \in Early(m)
      BY <3>1 DEF BehindEarly
    <3>3. \A j \in 1 .. (i - 1) : queue'[m][j] = queue[m][j]
      BY <2>2, <3>1
    <3> QED BY <3>2, <3>3
  <2> QED BY <2>3, <2>4
<1> QED BY <1>1, <1>2 DEF Adds

(* The address enters a queue of early packets.                            *)
LEMMA AddressEnters ==
  ASSUME TypeOK, NEW m \in Modules, OnlyEarly(m), m \notin started',
         queue' = Put(queue, m, "TUNADDR")
  PROVE  /\ BehindEarly(m)' /\ Addresses(m)' /= {}
         /\ queue' \in [Modules -> Seq(MsgKinds)]
         /\ \A n \in Modules \ {m} : queue'[n] = queue[n]
<1>1. /\ queue' \in [Modules -> Seq(MsgKinds)]
      /\ queue'[m] = Append(queue[m], "TUNADDR")
      /\ \A n \in Modules \ {m} : queue'[n] = queue[n]
  <2>1. "TUNADDR" \in MsgKinds /\ queue \in [Modules -> Seq(MsgKinds)]
    BY DEF MsgKinds, TypeOK
  <2> QED BY <2>1, PutType
<1>2. /\ Len(queue[m]) \in Nat /\ Len(queue'[m]) = Len(queue[m]) + 1
      /\ \A i \in 1 .. Len(queue[m]) : queue'[m][i] = queue[m][i]
      /\ queue'[m][Len(queue[m]) + 1] = "TUNADDR"
  <2>1. PICK q \in Seq(MsgKinds), k \in MsgKinds : q = queue[m] /\ k = "TUNADDR"
    BY DEF MsgKinds, TypeOK
  <2>2. /\ Len(q) \in Nat /\ Len(Append(q, k)) = Len(q) + 1
        /\ \A i \in 1 .. Len(q) : Append(q, k)[i] = q[i]
        /\ Append(q, k)[Len(q) + 1] = k
    OBVIOUS
  <2> QED BY <1>1, <2>1, <2>2
<1>3. \A i \in 1 .. Len(queue[m]) : queue[m][i] \in Early(m)
  BY DEF OnlyEarly
<1>4. BehindEarly(m)'
  BY <1>2, <1>3 DEF BehindEarly
<1>5. Len(queue'[m]) \in Addresses(m)'
  BY <1>2 DEF Addresses
<1> QED BY <1>1, <1>4, <1>5

-----------------------------------------------------------------------------
(* The steps.                                                              *)

(* A module whose queue is left alone.                                     *)
LEMMA ModuleFrame ==
  ASSUME NEW m \in Modules, queue'[m] = queue[m],
         m \in started' <=> m \in started
  PROVE  /\ BehindEarly(m)' <=> BehindEarly(m)
         /\ Addresses(m)' = Addresses(m)
         /\ OnlyEarly(m)' <=> OnlyEarly(m)
BY DEF BehindEarly, Addresses, OnlyEarly

(* Steps that leave the queues alone, ...                                  *)
LEMMA AddressFrame ==
  ASSUME AddressAhead, UNCHANGED <<authed, telling, queue, started>>,
         running' => running
  PROVE  AddressAhead'
<1>1. \A m \in Modules : /\ BehindEarly(m)' <=> BehindEarly(m)
                        /\ Addresses(m)' = Addresses(m)
                        /\ OnlyEarly(m)' <=> OnlyEarly(m)
  BY ModuleFrame
<1>2. ASSUME NEW m \in Modules PROVE BehindEarly(m)' /\ Told(m)'
  <2>1. BehindEarly(m) /\ Told(m)
    BY DEF AddressAhead
  <2>2. BehindEarly(m)' /\ Addresses(m)' = Addresses(m)
    <3>1. queue'[m] = queue[m] /\ (m \in started' <=> m \in started)
      OBVIOUS
    <3>2. /\ BehindEarly(m)' <=> BehindEarly(m)
          /\ Addresses(m)' = Addresses(m)
      BY <3>1, ModuleFrame
    <3> QED BY <2>1, <3>2
  <2>3. authed' = authed /\ telling' = telling /\ started' = started
    OBVIOUS
  <2>4. ASSUME Addresses(m) /= {} PROVE Told(m)'
    BY <2>2, <2>4 DEF Told
  <2>5. ASSUME ~(authed /\ running /\ m \notin started) PROVE Told(m)'
    BY <2>3, <2>5 DEF Told
  <2>6. ASSUME telling /\ m = "peer" PROVE Told(m)'
    BY <2>3, <2>6 DEF Told
  <2>7. Told(m)'
    BY <2>1, <2>4, <2>5, <2>6 DEF Told
  <2> QED BY <2>2, <2>7
<1>3. NotYetTold'
  BY <1>1 DEF AddressAhead, NotYetTold, Modules
<1> QED BY <1>2, <1>3 DEF AddressAhead

(* ... and the greeting and the frames, too.                               *)
LEMMA AFrame ==
  ASSUME AInv, TypeOK',
         UNCHANGED <<authed, telling, asked, frames, queue, started>>,
         running' => running,
         phase' \in {"new", "connected"} => phase \in {"new", "connected"}
  PROVE  AInv'
<1>1. Offers' = Offers
  BY DEF Offers
<1>3. AddressAhead'
  BY AddressFrame DEF AInv
<1> QED BY <1>1, <1>3 DEF AInv, OneGreeting, NothingBefore

LEMMA PingRange == TypeOK /\ Ping => pinged' \in 0 .. AnswerIn + 1
BY WsClientAssumption DEF TypeOK, Ping

(* The authentication, sent once, finds the queues empty.                  *)
LEMMA AuthStep ==
  ASSUME TypeOK, NothingBefore, ~authed, ~asked', SendAuthMsg,
         Offers' = {}, UNCHANGED started,
         phase' \notin {"new", "connected"}
  PROVE  /\ OneGreeting' /\ NothingBefore' /\ AddressAhead'
         /\ queue' \in [Modules -> Seq(MsgKinds)]
         /\ authed' = TRUE /\ telling' = TRUE
<1>1. authed' = TRUE /\ telling' = TRUE
      /\ queue' = Put(queue, "tun", "TUNADDR")
  BY DEF SendAuthMsg
<1>2. /\ "tun" \in Modules /\ "peer" \in Modules \ {"tun"}
      /\ \A m \in Modules : m = "tun" \/ m = "peer"
  BY DEF Modules
<1>3. \A m \in Modules : queue[m] = <<>> /\ m \notin started'
  BY DEF NothingBefore
<1>4. \A m \in Modules : OnlyEarly(m) /\ BehindEarly(m)
  BY <1>3 DEF OnlyEarly, BehindEarly
<1>5. /\ BehindEarly("tun")' /\ Addresses("tun")' /= {}
      /\ queue' \in [Modules -> Seq(MsgKinds)]
      /\ queue'["peer"] = queue["peer"]
  BY <1>1, <1>2, <1>3, <1>4, AddressEnters
<1>6. BehindEarly("peer")' /\ OnlyEarly("peer")'
  BY <1>2, <1>4, <1>5, ModuleFrame
<1>7. NotYetTold'
  BY <1>1, <1>2, <1>3, <1>6 DEF NotYetTold
<1>8. \A m \in Modules : BehindEarly(m)' /\ Told(m)'
  BY <1>1, <1>2, <1>5, <1>6 DEF Told
<1>9. AddressAhead'
  BY <1>7, <1>8 DEF AddressAhead
<1> QED BY <1>1, <1>5, <1>9 DEF OneGreeting, NothingBefore

(* The second half of it, whatever the tun module has done meanwhile.      *)
LEMMA TellStep == AInv /\ TellPeer => AInv'
<1> SUFFICES ASSUME AInv, TellPeer PROVE AInv'
  OBVIOUS
<1>0. /\ UNCHANGED <<phase, running, link, authed, asked, frames, started, age,
                     polled>>
      /\ telling /\ telling' = FALSE
      /\ queue' = Put(queue, "peer", "TUNADDR")
      /\ TypeOK /\ authed /\ "peer" \notin started /\ OnlyEarly("peer")
  BY DEF AInv, TellPeer, AddressAhead, NotYetTold
<1>1. /\ "peer" \in Modules /\ "tun" \in Modules \ {"peer"}
      /\ \A m \in Modules : m = "tun" \/ m = "peer"
  BY DEF Modules
<1>2. /\ BehindEarly("peer")' /\ Addresses("peer")' /= {}
      /\ queue' \in [Modules -> Seq(MsgKinds)]
      /\ queue'["tun"] = queue["tun"]
  BY <1>0, <1>1, AddressEnters
<1>3. BehindEarly("tun")' /\ Addresses("tun")' = Addresses("tun")
  BY <1>0, <1>1, <1>2, ModuleFrame DEF AInv, AddressAhead
<1>4. TypeOK'
  BY <1>0, <1>2, PingRange DEF TypeOK, TellPeer
<1>5. Told("tun")' /\ Told("peer")'
  BY <1>0, <1>1, <1>2, <1>3 DEF AInv, AddressAhead, Told
<1>6. AddressAhead'
  BY <1>0, <1>1, <1>2, <1>3, <1>5 DEF AddressAhead, NotYetTold
<1>7. Offers' = Offers
  BY <1>0 DEF Offers
<1> QED BY <1>0, <1>4, <1>6, <1>7 DEF AInv, OneGreeting, NothingBefore

LEMMA RunSteps == AInv /\ (Connect \/ StartThreads) => AInv'
<1> SUFFICES ASSUME AInv, Connect \/ StartThreads PROVE AInv'
  OBVIOUS
<1>1. TypeOK'
  BY DEF AInv, TypeOK, Connect, StartThreads
<1> QED BY <1>1, AFrame DEF Connect, StartThreads

LEMMA GreetStep == AInv /\ Greet => AInv'
<1> SUFFICES ASSUME AInv, Greet PROVE AInv'
  OBVIOUS
<1>0. /\ phase = "connected" /\ phase' = "greeted"
      /\ UNCHANGED <<running, link, frames, started, age, polled, pinged>>
      /\ TypeOK /\ NothingBefore /\ AddressAhead
      /\ ~asked /\ ~authed /\ Offers = {} /\ Offers' = Offers
  BY DEF AInv, Greet, OneGreeting, Offers
<1>1. CASE SendAuthMsg /\ UNCHANGED asked
  <2>1. /\ OneGreeting' /\ NothingBefore' /\ AddressAhead'
        /\ queue' \in [Modules -> Seq(MsgKinds)]
        /\ authed' = TRUE /\ telling' = TRUE
    BY <1>0, <1>1, AuthStep
  <2>2. TypeOK'
    BY <1>0, <1>1, <2>1 DEF TypeOK
  <2> QED BY <2>1, <2>2 DEF AInv
<1>2. CASE SendExptTunMsg /\ UNCHANGED <<authed, telling, queue>>
  <2>1. TypeOK'
    BY <1>0, <1>2 DEF TypeOK, SendExptTunMsg
  <2>2. OneGreeting' /\ NothingBefore'
    BY <1>0, <1>2 DEF OneGreeting, NothingBefore
  <2>3. AddressAhead'
    BY <1>0, <1>2, AddressFrame
  <2> QED BY <2>1, <2>2, <2>3 DEF AInv
<1> QED BY <1>1, <1>2 DEF Greet

LEMMA ServerStep ==
  ASSUME AInv, NEW kind \in FrameKinds, ServerSends(kind)
  PROVE  AInv'
<1>0. /\ UNCHANGED <<phase, running, link, authed, telling, queue, started, age,
                     polled>>
      /\ TypeOK /\ frames' = Append(frames, kind)
  BY DEF AInv, ServerSends
<1>1. pinged' \in 0 .. AnswerIn + 1 /\ asked' \in BOOLEAN
  <2>1. pinged' = 0 \/ UNCHANGED pinged
    BY DEF ServerSends
  <2>2. asked' = FALSE \/ UNCHANGED asked
    BY DEF ServerSends
  <2>3. 0 \in 0 .. AnswerIn + 1
    BY WsClientAssumption
  <2>4. asked' \in BOOLEAN
    BY <1>0, <2>2 DEF TypeOK
  <2> QED BY <1>0, <2>1, <2>3, <2>4 DEF TypeOK
<1>2. TypeOK'
  BY <1>0, <1>1 DEF TypeOK
<1>3. /\ Len(frames) \in Nat /\ Len(frames') = Len(frames) + 1
      /\ \A i \in 1 .. Len(frames) : frames'[i] = frames[i]
      /\ frames'[Len(frames) + 1] = kind
  BY <1>0 DEF TypeOK
<1>4. AddressAhead'
  BY <1>0, AddressFrame DEF AInv
<1>5. CASE kind = "EXPTTUN"
  <2>1. asked /\ ~asked' /\ ~authed /\ Offers = {}
    BY <1>5 DEF ServerSends, AInv, OneGreeting
  <2>2. Offers' = {Len(frames) + 1}
    BY <1>3, <1>5, <2>1 DEF Offers
  <2>3. OneGreeting'
    BY <1>0, <2>1, <2>2 DEF AInv, OneGreeting
  <2>4. NothingBefore'
    BY <1>0, <1>3, <1>5 DEF AInv, NothingBefore
  <2> QED BY <1>2, <1>4, <2>3, <2>4 DEF AInv
<1>6. CASE kind /= "EXPTTUN"
  <2>1. Offers' = Offers /\ UNCHANGED asked
    BY <1>3, <1>6 DEF Offers, ServerSends
  <2>2. OneGreeting'
    BY <1>0, <2>1 DEF AInv, OneGreeting
  <2>3. kind = "PONG" \/ authed
    BY <1>6 DEF ServerSends
  <2>4. NothingBefore'
    BY <1>0, <1>3, <2>3 DEF AInv, NothingBefore
  <2> QED BY <1>2, <1>4, <2>2, <2>4 DEF AInv
<1> QED BY <1>5, <1>6

LEMMA ReceiveStep == AInv /\ ReceiveFrame => AInv'
<1> SUFFICES ASSUME AInv, ReceiveFrame PROVE AInv'
  OBVIOUS
<1> DEFINE kind == Head(frames)
<1>0. /\ UNCHANGED <<phase, running, link, asked, started, pinged>>
      /\ age' = 0 /\ polled' = FALSE /\ phase = "threads" /\ ~telling
      /\ HandleWsMsg(kind) /\ TypeOK
  BY DEF AInv, ReceiveFrame, WsThread, Serving
<1>1. /\ kind \in FrameKinds /\ frames' \in Seq(FrameKinds)
      /\ Len(frames) \in Nat \ {0} /\ Len(frames') = Len(frames) - 1
      /\ \A i \in 1 .. (Len(frames) - 1) : frames'[i] = frames[i + 1]
      /\ kind = frames[1]
  BY <1>0 DEF ReceiveFrame, TypeOK
<1>2. \A i \in Offers' : i + 1 \in Offers
  BY <1>1 DEF Offers
<1>3. age' \in 0 .. DropAfter + 1 /\ polled' \in BOOLEAN
  <2>1. 0 \in 0 .. DropAfter + 1
    BY WsClientAssumption
  <2> QED BY <1>0, <2>1
<1> HIDE DEF kind
<1>4. CASE kind = "EXPTTUN"
  <2>1. 1 \in Offers
    <3>1. 1 \in 1 .. Len(frames) /\ frames[1] = "EXPTTUN"
      BY <1>1, <1>4
    <3> QED BY <3>1 DEF Offers
  <2>2. ~authed /\ ~asked
    BY <2>1 DEF AInv, OneGreeting
  <2>3. Offers' = {}
    <3> SUFFICES ASSUME NEW i \in Offers' PROVE FALSE
      OBVIOUS
    <3>1. i + 1 \in Offers /\ i \in 1 .. Len(frames')
      BY <1>2 DEF Offers
    <3>2. i + 1 = 1
      BY <2>1, <3>1 DEF AInv, OneGreeting
    <3> QED BY <1>1, <3>1, <3>2
  <2>4. SendAuthMsg
    BY <1>0, <1>4 DEF HandleWsMsg
  <2>5. NothingBefore /\ ~asked' /\ UNCHANGED started
        /\ phase' \notin {"new", "connected"}
    BY <1>0, <2>2 DEF AInv
  <2>6. /\ OneGreeting' /\ NothingBefore' /\ AddressAhead'
        /\ queue' \in [Modules -> Seq(MsgKinds)]
        /\ authed' = TRUE /\ telling' = TRUE
    BY <1>0, <2>2, <2>3, <2>4, <2>5, AuthStep
  <2>7. TypeOK'
    BY <1>0, <1>1, <1>3, <2>6 DEF TypeOK
  <2> QED BY <2>6, <2>7 DEF AInv
<1>5. CASE kind /= "EXPTTUN"
  <2>1. /\ queue' \in [Modules -> Seq(MsgKinds)]
        /\ \A m \in Modules : Adds(m)
        /\ UNCHANGED <<authed, telling>>
    BY <1>0, <1>1, <1>5, MsgEffect
  <2>2. TypeOK'
    BY <1>0, <1>1, <1>3, <2>1 DEF TypeOK
  <2>3. OneGreeting'
    <3>1. Offers = {} => Offers' = {}
      BY <1>2
    <3>2. \A i, j \in Offers' : i = j
      <4> SUFFICES ASSUME NEW i \in Offers', NEW j \in Offers' PROVE i = j
        OBVIOUS
      <4>1. i + 1 = j + 1 /\ i \in Nat /\ j \in Nat
        BY <1>2 DEF AInv, OneGreeting, Offers
      <4> QED BY <4>1
    <3> QED BY <1>0, <2>1, <3>1, <3>2 DEF AInv, OneGreeting
  <2>4. NothingBefore'
    <3> SUFFICES ASSUME ~authed'
                 PROVE  /\ \A i \in 1 .. Len(frames') :
                             frames'[i] \in {"EXPTTUN", "PONG"}
                        /\ \A m \in Modules : queue'[m] = <<>>
                        /\ started' = {}
      BY DEF NothingBefore
    <3>1. ~authed
      BY <2>1
    <3>2. kind = "PONG"
      BY <1>1, <1>5, <3>1 DEF AInv, NothingBefore
    <3>3. UNCHANGED queue
      BY <1>0, <3>2 DEF HandleWsMsg
    <3>4. \A i \in 1 .. Len(frames') : frames'[i] \in {"EXPTTUN", "PONG"}
      BY <1>1, <3>1 DEF AInv, NothingBefore
    <3> QED BY <1>0, <3>1, <3>3, <3>4 DEF AInv, NothingBefore
  <2>5. AddressAhead'
    <3>1. \A m \in Modules : BehindEarly(m)' /\ Addresses(m)' = Addresses(m)
      BY <1>0, <2>1, AddsBehind DEF AInv, AddressAhead
    <3> QED BY <1>0, <2>1, <3>1 DEF AInv, AddressAhead, NotYetTold, Told
  <2> QED BY <2>2, <2>3, <2>4, <2>5 DEF AInv
<1> QED BY <1>4, <1>5

(* A packet of another thread: one of the tun device may be early.         *)
LEMMA PacketStep ==
  ASSUME AInv, NEW m \in Modules, PutPacket(m),
         started /= {}, telling => m = "peer"
  PROVE  AInv'
<1>0. /\ UNCHANGED <<phase, running, link, authed, telling, asked, frames,
                     started, age, polled, pinged>>
      /\ queue' = Put(queue, m, "PACKET") /\ TypeOK
  BY DEF AInv, PutPacket
<1>1. "PACKET" \in MsgKinds \ {"TUNADDR"} /\ "PACKET" \in MsgKinds
  BY DEF MsgKinds
<1>2. queue' \in [Modules -> Seq(MsgKinds)] /\ \A n \in Modules : Adds(n)
  BY <1>0, <1>1, PutOne
<1>3. TypeOK'
  BY <1>0, <1>2 DEF TypeOK
<1>4. \A n \in Modules : BehindEarly(n)' /\ Addresses(n)' = Addresses(n)
  BY <1>0, <1>2, AddsBehind DEF AInv, AddressAhead
<1>5. ASSUME telling PROVE OnlyEarly("peer")'
  <2>1. m = "peer" /\ OnlyEarly("peer")
    BY <1>5 DEF AInv, AddressAhead, NotYetTold
  <2>2. queue \in [Modules -> Seq(MsgKinds)]
    BY <1>0 DEF TypeOK
  <2>3. queue'[m] = Append(queue[m], "PACKET")
    BY <1>0, <1>1, <2>2, PutType
  <2>4. /\ Len(queue[m]) \in Nat /\ Len(queue'[m]) = Len(queue[m]) + 1
        /\ \A i \in 1 .. Len(queue[m]) : queue'[m][i] = queue[m][i]
        /\ queue'[m][Len(queue[m]) + 1] = "PACKET"
    BY <1>1, <2>2, <2>3
  <2>5. "PACKET" \in Early(m)
    BY <2>1 DEF Early
  <2>6. \A i \in 1 .. Len(queue[m]) : queue[m][i] \in Early(m)
    BY <2>1 DEF OnlyEarly
  <2>7. \A i \in 1 .. Len(queue'[m]) : queue'[m][i] \in Early(m)
    BY <2>4, <2>5, <2>6
  <2> QED BY <2>1, <2>7 DEF OnlyEarly
<1>6. AddressAhead'
  BY <1>0, <1>4, <1>5 DEF AInv, AddressAhead, NotYetTold, Told
<1>7. Offers' = Offers /\ authed
  BY <1>0 DEF Offers, AInv, NothingBefore
<1> QED BY <1>0, <1>3, <1>6, <1>7 DEF AInv, OneGreeting, NothingBefore

LEMMA PacketSteps == AInv /\ (HandleTunDevice \/ HandleForwardMessage) => AInv'
<1> SUFFICES ASSUME AInv, HandleTunDevice \/ HandleForwardMessage PROVE AInv'
  OBVIOUS
<1>1. CASE HandleTunDevice
  <2>1. "peer" \in Modules /\ PutPacket("peer") /\ started /= {}
    BY <1>1 DEF HandleTunDevice, Modules
  <2> QED BY <2>1, PacketStep
<1>2. CASE HandleForwardMessage
  <2>1. PICK m \in Modules : PutPacket(m)
    BY <1>2 DEF HandleForwardMessage
  <2>2. started /= {} /\ ~telling
    BY <1>2 DEF HandleForwardMessage, AInv, AddressAhead, NotYetTold
  <2> QED BY <2>1, <2>2, PacketStep
<1> QED BY <1>1, <1>2

(* A module handles the address, and never finds another.                  *)
LEMMA QueueStep ==
  ASSUME AInv, NEW m \in Modules, HandleQueue(m)
  PROVE  AInv'
<1>0. /\ UNCHANGED <<phase, link, authed, telling, asked, frames, age, polled,
                     pinged>>
      /\ queue[m] /= <<>> /\ queue' = [queue EXCEPT ![m] = Tail(@)]
      /\ TypeOK /\ running
  BY DEF AInv, HandleQueue, Serving
<1>1. authed
  BY <1>0 DEF AInv, NothingBefore
<1>2. /\ queue' \in [Modules -> Seq(MsgKinds)]
      /\ \A n \in Modules \ {m} : queue'[n] = queue[n]
      /\ queue'[m] = Tail(queue[m])
  BY <1>0 DEF TypeOK
<1>3. /\ Len(queue[m]) \in Nat \ {0} /\ Len(queue'[m]) = Len(queue[m]) - 1
      /\ \A i \in 1 .. (Len(queue[m]) - 1) : queue'[m][i] = queue[m][i + 1]
      /\ Head(queue[m]) = queue[m][1]
  BY <1>0, <1>2 DEF TypeOK
<1>4. started' \subseteq Modules /\ running' \in BOOLEAN
  BY <1>0 DEF HandleQueue, HandleTunAddr, TypeOK
<1>5. TypeOK'
  BY <1>0, <1>2, <1>4 DEF TypeOK
<1>6. OneGreeting' /\ NothingBefore'
  <2>1. Offers' = Offers
    BY <1>0 DEF Offers
  <2> QED BY <1>0, <1>1, <2>1 DEF AInv, OneGreeting, NothingBefore
<1>7. \A n \in Modules \ {m} : n \in started' <=> n \in started
  BY DEF HandleQueue, HandleTunAddr
<1>8. \A n \in Modules \ {m} :
        /\ BehindEarly(n)' <=> BehindEarly(n)
        /\ Addresses(n)' = Addresses(n)
        /\ OnlyEarly(n)' <=> OnlyEarly(n)
  BY <1>2, <1>7, ModuleFrame
<1>9. BehindEarly(m) /\ Told(m) /\ NotYetTold
  BY DEF AInv, AddressAhead
<1>10. \A n \in Modules \ {m} : BehindEarly(n)' /\ Told(n)'
  BY <1>0, <1>7, <1>8 DEF AInv, AddressAhead, Told
<1>11. CASE Head(queue[m]) = "TUNADDR"
  <2>1. \A i \in 1 .. Len(queue'[m]) : queue'[m][i] /= "TUNADDR"
    <3> SUFFICES ASSUME NEW i \in 1 .. Len(queue'[m]),
                        queue'[m][i] = "TUNADDR"
                 PROVE  FALSE
      OBVIOUS
    <3>1. i + 1 \in 1 .. Len(queue[m]) /\ queue[m][i + 1] = "TUNADDR"
          /\ 1 \in 1 .. ((i + 1) - 1)
      BY <1>3
    <3>2. queue[m][1] \in Early(m)
      BY <1>9, <3>1 DEF BehindEarly
    <3> QED BY <1>3, <1>11, <3>2 DEF Early
  <2>2. BehindEarly(m)' /\ Addresses(m)' = {}
    BY <2>1 DEF BehindEarly, Addresses
  <2>3. running' => m \in started'
    BY <1>0, <1>11 DEF HandleQueue, HandleTunAddr
  <2>4. Told(m)'
    BY <2>3 DEF Told
  <2>5. NotYetTold'
    <3>1. CASE telling /\ m = "peer"
      <4>1. queue[m][1] \in Early(m)
        BY <1>3, <1>9, <3>1 DEF NotYetTold, OnlyEarly
      <4> QED BY <1>3, <1>11, <4>1 DEF Early
    <3>2. CASE telling /\ m /= "peer"
      <4>1. "peer" \in Modules \ {m}
        BY <3>2 DEF Modules
      <4> QED BY <1>0, <1>7, <1>8, <1>9, <4>1 DEF NotYetTold
    <3>3. CASE ~telling
      BY <1>0, <3>3 DEF NotYetTold
    <3> QED BY <3>1, <3>2, <3>3
  <2> QED BY <1>5, <1>6, <1>10, <2>2, <2>4, <2>5 DEF AInv, AddressAhead
<1>12. CASE Head(queue[m]) /= "TUNADDR"
  <2>0. UNCHANGED <<started, running>>
    BY <1>12 DEF HandleQueue
  <2>1. BehindEarly(m)'
    <3> SUFFICES ASSUME NEW i \in 1 .. Len(queue'[m]),
                        queue'[m][i] = "TUNADDR"
                 PROVE  /\ m \notin started'
                        /\ \A j \in 1 .. (i - 1) : queue'[m][j] \in Early(m)
      BY DEF BehindEarly
    <3>1. i + 1 \in 1 .. Len(queue[m]) /\ queue[m][i + 1] = "TUNADDR"
      BY <1>3
    <3>2. /\ m \notin started
          /\ \A j \in 1 .. ((i + 1) - 1) : queue[m][j] \in Early(m)
      BY <1>9, <3>1 DEF BehindEarly
    <3>3. ASSUME NEW j \in 1 .. (i - 1) PROVE queue'[m][j] \in Early(m)
      <4>1. j \in 1 .. (Len(queue[m]) - 1) /\ j + 1 \in 1 .. ((i + 1) - 1)
        BY <1>3
      <4> QED BY <1>3, <3>2, <4>1
    <3> QED BY <2>0, <3>2, <3>3
  <2>2. Addresses(m) /= {} => Addresses(m)' /= {}
    <3> SUFFICES ASSUME NEW i \in Addresses(m) PROVE Addresses(m)' /= {}
      OBVIOUS
    <3>1. i \in 1 .. Len(queue[m]) /\ queue[m][i] = "TUNADDR" /\ i /= 1
      BY <1>3, <1>12 DEF Addresses
    <3>2. i - 1 \in 1 .. Len(queue'[m]) /\ queue'[m][i - 1] = queue[m][i]
      BY <1>3, <3>1
    <3> QED BY <3>1, <3>2 DEF Addresses
  <2>3. Told(m)'
    BY <1>0, <1>9, <2>0, <2>2 DEF Told
  <2>4. NotYetTold'
    <3>1. CASE telling /\ m = "peer"
      <4>1. \A i \in 1 .. Len(queue[m]) : queue[m][i] \in Early(m)
        BY <1>9, <3>1 DEF NotYetTold, OnlyEarly
      <4>2. \A i \in 1 .. Len(queue'[m]) : queue'[m][i] \in Early(m)
        BY <1>3, <4>1
      <4> QED BY <1>0, <1>9, <2>0, <3>1, <4>2 DEF NotYetTold, OnlyEarly
    <3>2. CASE telling /\ m /= "peer"
      <4>1. "peer" \in Modules \ {m}
        BY <3>2 DEF Modules
      <4> QED BY <1>0, <1>7, <1>8, <1>9, <4>1 DEF NotYetTold
    <3>3. CASE ~telling
      BY <1>0, <3>3 DEF NotYetTold
    <3> QED BY <3>1, <3>2, <3>3
  <2> QED BY <1>5, <1>6, <1>10, <2>1, <2>3, <2>4 DEF AInv, AddressAhead
<1> QED BY <1>11, <1>12

LEMMA OtherSteps ==
  AInv /\ (LinkBreaks \/ ReceiveClose \/ PollTimeout \/ Shutdown \/ Tick)
    => AInv'
<1> SUFFICES ASSUME AInv, LinkBreaks \/ ReceiveClose \/ PollTimeout \/ Shutdown
                          \/ Tick
             PROVE  AInv'
  OBVIOUS
<1>0. TypeOK
  BY DEF AInv
<1>1. CASE LinkBreaks \/ ReceiveClose \/ Shutdown
  <2>1. TypeOK'
    BY <1>0, <1>1 DEF TypeOK, LinkBreaks, ReceiveClose, Shutdown
  <2> QED BY <1>1, <2>1, AFrame
             DEF LinkBreaks, ReceiveClose, Shutdown, Serving, WsThread
<1>2. CASE PollTimeout
  <2>1. running' \in BOOLEAN /\ pinged' \in 0 .. AnswerIn + 1
    BY <1>0, <1>2, PingRange DEF PollTimeout, TypeOK
  <2>2. TypeOK'
    BY <1>0, <1>2, <2>1 DEF TypeOK, PollTimeout
  <2> QED BY <1>2, <2>2, AFrame DEF PollTimeout, Serving, WsThread
<1>3. CASE Tick
  <2>1. /\ age' \in 0 .. DropAfter + 1 /\ pinged' \in 0 .. AnswerIn + 1
        /\ polled' \in BOOLEAN
    BY <1>0, <1>3, WsClientAssumption DEF Tick, TypeOK
  <2>2. TypeOK'
    BY <1>0, <1>3, <2>1 DEF TypeOK, Tick
  <2> QED BY <1>3, <2>2, AFrame DEF Tick
<1> QED BY <1>1, <1>2, <1>3

LEMMA NextAInv == AInv /\ [Next]_vars => AInv'
<1> SUFFICES ASSUME AInv, [Next]_vars PROVE AInv'
  OBVIOUS
<1>1. CASE UNCHANGED vars
  <2>1. TypeOK'
    BY <1>1 DEF AInv, TypeOK, vars
  <2> QED BY <1>1, <2>1, AFrame DEF vars
<1> QED BY <1>1, RunSteps, GreetStep, TellStep, ServerStep, ReceiveStep,
           QueueStep, PacketSteps, OtherSteps DEF Next

(* The frames, the queues and the clocks keep their ranges: handleWsMsg    *)
(* turns every frame into messages that the modules know.                  *)
THEOREM TypeCorrect == Spec => []TypeOK
<1>1. AInv => TypeOK
  BY DEF AInv
<1> QED BY InitAInv, NextAInv, <1>1, PTL DEF Spec

(* No module gets its address twice, whichever of run and handleExptTunMsg *)
(* sends the authentication and whenever the server answers, so that       *)
(* Tun::handleTunAddr never assigns a running std::thread.                 *)
THEOREM AddressAlwaysOnce == Spec => []AddressOnce
<1>1. ASSUME AInv PROVE AddressOnce
  <2> SUFFICES ASSUME NEW m \in Modules
               PROVE  /\ m \in started => Addresses(m) = {}
                      /\ \A i, j \in Addresses(m) : i = j
    BY DEF AddressOnce
  <2>1. BehindEarly(m) /\ "TUNADDR" \notin Early(m)
    BY <1>1 DEF AInv, AddressAhead, Early
  <2>2. ASSUME NEW i \in Addresses(m), NEW j \in Addresses(m), i < j
        PROVE  FALSE
    <3>1. /\ i \in 1 .. Len(queue[m]) /\ j \in 1 .. Len(queue[m])
          /\ queue[m][i] = "TUNADDR" /\ queue[m][j] = "TUNADDR"
      BY DEF Addresses
    <3>2. i \in 1 .. (j - 1)
      BY <2>2, <3>1
    <3> QED BY <2>1, <3>1, <3>2 DEF BehindEarly
  <2>3. \A i, j \in Addresses(m) : i = j
    <3> SUFFICES ASSUME NEW i \in Addresses(m), NEW j \in Addresses(m)
                 PROVE  i = j
      OBVIOUS
    <3>1. i \in Int /\ j \in Int
      BY DEF Addresses
    <3> QED BY <2>2, <3>1
  <2>4. m \in started => Addresses(m) = {}
    BY <2>1 DEF BehindEarly, Addresses
  <2> QED BY <2>3, <2>4
<1> QED BY InitAInv, NextAInv, <1>1, PTL DEF Spec

(* A module of a running client finds its address ahead of every packet,   *)
(* route and peer that the server sends; only packets of the tun device    *)
(* can overtake it, on their way to the peer manager.                      *)
THEOREM AddressAlwaysFirst == Spec => []AddressFirst
<1>1. ASSUME AInv PROVE AddressFirst
  <2> SUFFICES ASSUME running, NEW m \in Modules \ started,
                      NEW i \in 1 .. Len(queue[m]),
                      queue[m][i] \notin {"TUNADDR"} \cup Early(m)
               PROVE  \E j \in 1 .. (i - 1) : queue[m][j] = "TUNADDR"
    BY DEF AddressFirst
  <2>1. authed
    <3>1. queue[m] /= <<>>
      OBVIOUS
    <3> QED BY <1>1, <3>1 DEF AInv, NothingBefore
  <2>2. ~(telling /\ m = "peer")
    BY <1>1 DEF AInv, AddressAhead, NotYetTold, OnlyEarly
  <2>3. PICK k \in Addresses(m) : TRUE
    BY <1>1, <2>1, <2>2 DEF AInv, AddressAhead, Told
  <2>4. k \in 1 .. Len(queue[m]) /\ queue[m][k] = "TUNADDR" /\ k /= i
    BY <2>3 DEF Addresses
  <2>5. ~(i < k)
    <3> SUFFICES ASSUME i < k PROVE FALSE
      OBVIOUS
    <3>1. i \in 1 .. (k - 1)
      BY <2>4
    <3> QED BY <1>1, <2>4, <3>1 DEF AInv, AddressAhead, BehindEarly
  <2>6. k \in 1 .. (i - 1)
    BY <2>4, <2>5
  <2> QED BY <2>4, <2>6
<1> QED BY InitAInv, NextAInv, <1>1, PTL DEF Spec
=============================================================================
