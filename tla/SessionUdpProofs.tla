-------------------------- MODULE SessionUdpProofs --------------------------
(***************************************************************************)
(* Proofs about SessionUdp, for any number of sessions, any time limits    *)
(* that satisfy the assumption, and queues of any length.                  *)
(***************************************************************************)
EXTENDS SessionUdp, TLAPS

StackItem == (StackOps \X Session) \cup {<<"input">>}
ReactorItem == ReactorOps \X Session

-----------------------------------------------------------------------------
(* Queues.                                                                 *)

In(queue, x) == \E i \in 1 .. Len(queue) : queue[i] = x

LEMMA InAppend ==
  ASSUME NEW S, NEW q \in Seq(S), NEW y \in S, NEW x
  PROVE  In(Append(q, y), x) <=> In(q, x) \/ x = y
<1>1. /\ Len(Append(q, y)) = Len(q) + 1
      /\ \A i \in 1 .. Len(q) : Append(q, y)[i] = q[i]
      /\ Append(q, y)[Len(q) + 1] = y
  OBVIOUS
<1>2. Len(q) \in Nat
  OBVIOUS
<1>3. In(q, x) => In(Append(q, y), x)
  BY <1>1, <1>2 DEF In
<1>4. x = y => In(Append(q, y), x)
  BY <1>1, <1>2 DEF In
<1>5. In(Append(q, y), x) => In(q, x) \/ x = y
  BY <1>1, <1>2 DEF In
<1> QED BY <1>3, <1>4, <1>5

LEMMA InTail ==
  ASSUME NEW S, NEW q \in Seq(S), q /= <<>>, NEW x
  PROVE  In(q, x) <=> x = Head(q) \/ In(Tail(q), x)
<1>1. /\ Len(q) \in Nat \ {0}
      /\ Len(Tail(q)) = Len(q) - 1
      /\ \A i \in 1 .. (Len(q) - 1) : Tail(q)[i] = q[i + 1]
      /\ Head(q) = q[1]
  OBVIOUS
<1>2. ASSUME In(q, x) PROVE x = Head(q) \/ In(Tail(q), x)
  <2>1. PICK i \in 1 .. Len(q) : q[i] = x
    BY <1>2 DEF In
  <2>2. CASE i = 1 BY <2>1, <2>2, <1>1
  <2>3. CASE i /= 1
    <3>1. i - 1 \in 1 .. (Len(q) - 1) /\ (i - 1) + 1 = i
      BY <2>3, <1>1
    <3> QED BY <3>1, <2>1, <1>1 DEF In
  <2> QED BY <2>2, <2>3
<1>3. ASSUME x = Head(q) PROVE In(q, x)
  <2>1. 1 \in 1 .. Len(q) BY <1>1
  <2> QED BY <1>1, <1>3, <2>1 DEF In
<1>4. ASSUME In(Tail(q), x) PROVE In(q, x)
  <2>1. PICK i \in 1 .. (Len(q) - 1) : q[i + 1] = x
    BY <1>4, <1>1 DEF In
  <2>2. i + 1 \in 1 .. Len(q) BY <1>1
  <2> QED BY <2>1, <2>2 DEF In
<1> QED BY <1>2, <1>3, <1>4

LEMMA Items ==
  ASSUME NEW s \in Session
  PROVE  /\ \A op \in ReactorOps : <<op, s>> \in ReactorItem
         /\ \A op \in StackOps : <<op, s>> \in StackItem
BY DEF ReactorItem, StackItem

(* A queue that does not hold a session has no task of it.                 *)
LEMMA NotHeld ==
  ASSUME NEW q, NEW s, ~Holds(q, s), NEW op
  PROVE  ~In(q, <<op, s>>)
BY SMTT(30) DEF Holds, In

-----------------------------------------------------------------------------
(* Types.                                                                  *)

LEMMA AgeType ==
  ASSUME NEW a \in 0 .. MaxAge
  PROVE  Older(a) \in 0 .. MaxAge
BY SessionUdpAssumption DEF Older, MaxAge

LEMMA ZeroAge == 0 \in 0 .. MaxAge
BY SessionUdpAssumption DEF MaxAge

(* Posting to the Reactor leaves the batch it has taken as it is.          *)
LEMMA Post ==
  ASSUME tasks \in Seq(ReactorItem), batch \in 0 .. Len(tasks),
         NEW x \in ReactorItem
  PROVE  /\ Append(tasks, x) \in Seq(ReactorItem)
         /\ batch \in 0 .. Len(Append(tasks, x))
OBVIOUS

LEMMA FeedType ==
  ASSUME TypeOK, FeedToLwip
  PROVE  /\ pcb' \in [Session -> BOOLEAN]
         /\ age' \in [Session -> 0 .. MaxAge]
         /\ udpSessions' \in Session \cup {NoSession}
         /\ peer' \in (0 .. MaxAge) \cup {NoPeer}
         /\ tasks' \in Seq(ReactorItem) /\ batch \in 0 .. Len(tasks')
         /\ fd' \in [Session -> {"none", "open", "closed"}]
         /\ closing' \in [Session -> BOOLEAN] /\ self' \in [Session -> BOOLEAN]
<1> USE ZeroAge DEF TypeOK, ReactorItem, ReactorOps
<1>1. peer' \in (0 .. MaxAge) \cup {NoPeer}
  BY DEF FeedToLwip
<1>2. CASE UNCHANGED <<pcb, age, udpSessions, tasks, life>>
  BY <1>1, <1>2 DEF life
<1>3. ASSUME NEW s \in Session, OnPcbRecv(s, tasks),
             UNCHANGED <<pcb, udpSessions, life>>
      PROVE  /\ age' \in [Session -> 0 .. MaxAge]
             /\ tasks' \in Seq(ReactorItem) /\ batch \in 0 .. Len(tasks')
  BY <1>3, Post DEF OnPcbRecv
<1>4. ASSUME NEW s \in Session, NewSession(s)
      PROVE  /\ age' \in [Session -> 0 .. MaxAge]
             /\ tasks' \in Seq(ReactorItem) /\ batch \in 0 .. Len(tasks')
  BY <1>4 DEF NewSession, OnPcbRecv
<1>5. ASSUME NEW s \in Session, NewSession(s)
      PROVE  /\ pcb' \in [Session -> BOOLEAN]
             /\ udpSessions' \in Session \cup {NoSession}
             /\ fd' \in [Session -> {"none", "open", "closed"}]
             /\ closing' \in [Session -> BOOLEAN]
             /\ self' \in [Session -> BOOLEAN]
  BY <1>5 DEF NewSession
<1>6. ASSUME NEW s \in Session, NewSessionFails(s)
      PROVE  /\ fd' \in [Session -> {"none", "open", "closed"}]
             /\ closing' \in [Session -> BOOLEAN]
             /\ self' \in [Session -> BOOLEAN]
             /\ UNCHANGED <<pcb, age, udpSessions, tasks>>
  BY <1>6 DEF NewSessionFails
<1> QED BY <1>1, <1>2, <1>3, <1>4, <1>5, <1>6 DEF FeedToLwip, life

LEMMA ShutdownType ==
  ASSUME TypeOK, NEW s \in Session, ShutdownFromStack(s)
  PROVE  /\ pcb' \in [Session -> BOOLEAN]
         /\ tasks' \in Seq(ReactorItem) /\ batch \in 0 .. Len(tasks')
         /\ closing' \in [Session -> BOOLEAN] /\ UNCHANGED <<fd, self>>
<1> USE DEF TypeOK, ReactorItem, ReactorOps, ShutdownFromStack
<1>1. tasks' \in Seq(ReactorItem) /\ batch \in 0 .. Len(tasks')
  BY Post
<1> QED BY <1>1

LEMMA StackType ==
  ASSUME TypeOK, StackStep
  PROVE  TypeOK'
<1> USE DEF TypeOK
<1>1. CASE LoopTop
  BY <1>1 DEF LoopTop, lwip, reactorVars, life
<1>2. CASE StackTask
  <2>1. stackTasks' \in Seq(StackItem)
    BY <1>2 DEF StackTask, StackItem
  <2>2. UNCHANGED <<sinceReap, running, watch, rpc, ready, releasing, batch,
                    reactorUp>> /\ spc' = "reap"
    BY <1>2 DEF StackTask, reactorVars
  <2>3. CASE FeedToLwip
    BY <2>1, <2>2, <2>3, FeedType DEF StackItem, ReactorItem
  <2>4. ASSUME NEW s \in Session, ReplyToLwip(s) PROVE TypeOK'
    <3>1. /\ age' \in [Session -> 0 .. MaxAge]
          /\ peer' \in (0 .. MaxAge) \cup {NoPeer}
      BY <2>4, ZeroAge DEF ReplyToLwip, Output
    <3> QED BY <2>1, <2>2, <2>4, <3>1 DEF ReplyToLwip, StackItem, life
  <2>5. ASSUME NEW s \in Session, CloseFromStack(s) PROVE TypeOK'
    <3>1. tasks' \in Seq(ReactorItem) /\ batch \in 0 .. Len(tasks')
      BY <2>5, Post DEF CloseFromStack, ReactorItem, ReactorOps
    <3> QED BY <2>1, <2>2, <2>5, <3>1
            DEF CloseFromStack, StackItem, ReactorItem, life
  <2> QED BY <1>2, <2>3, <2>4, <2>5 DEF StackTask
<1>3. CASE StackOther
  BY <1>3 DEF StackOther, reactorVars, life
<1>4. CASE Reap
  <2>1. sinceReap' \in 0 .. ReapEvery
    BY <1>4, SessionUdpAssumption DEF Reap
  <2>2. CASE UNCHANGED <<pcb, udpSessions, life, tasks>>
    BY <1>4, <2>1, <2>2 DEF Reap, reactorVars, life
  <2>3. CASE /\ udpSessions \in Session /\ ShutdownFromStack(udpSessions)
             /\ udpSessions' = NoSession
    BY <1>4, <2>1, <2>3, ShutdownType DEF Reap, reactorVars, ReactorItem
  <2> QED BY <1>4, <2>2, <2>3 DEF Reap
<1>5. CASE Teardown
  <2>1. CASE UNCHANGED <<pcb, life, tasks>>
    BY <1>5, <2>1 DEF Teardown, reactorVars, life
  <2>2. CASE udpSessions \in Session /\ ShutdownFromStack(udpSessions)
    BY <1>5, <2>2, ShutdownType DEF Teardown, reactorVars, ReactorItem
  <2> QED BY <1>5, <2>1, <2>2 DEF Teardown
<1> QED BY <1>1, <1>2, <1>3, <1>4, <1>5 DEF StackStep

LEMMA CloseFdType ==
  ASSUME TypeOK, NEW s \in Session, CloseFd(s)
  PROVE  /\ fd' \in [Session -> {"none", "open", "closed"}]
         /\ closing' \in [Session -> BOOLEAN]
         /\ watch' \subseteq Session /\ releasing' \subseteq Session
         /\ UNCHANGED self
BY DEF TypeOK, CloseFd

(* The batch is part of the queue, so that its next task exists.           *)
LEMMA TakeTask ==
  ASSUME TypeOK, ReactorTask
  PROVE  /\ tasks /= <<>> /\ Head(tasks) \in ReactorItem
         /\ tasks' = Tail(tasks) /\ tasks' \in Seq(ReactorItem)
         /\ batch' \in 0 .. Len(tasks')
         /\ \E op \in ReactorOps, s \in Session : Head(tasks) = <<op, s>>
<1>1. tasks \in Seq(ReactorItem) /\ batch \in 1 .. Len(tasks)
  BY DEF TypeOK, ReactorTask, ReactorItem
<1>2. /\ tasks /= <<>> /\ Head(tasks) \in ReactorItem
      /\ Tail(tasks) \in Seq(ReactorItem)
      /\ Len(Tail(tasks)) = Len(tasks) - 1
  BY <1>1
<1>3. \E op \in ReactorOps, s \in Session : Head(tasks) = <<op, s>>
  BY <1>2 DEF ReactorItem
<1> QED BY <1>1, <1>2, <1>3 DEF ReactorTask

LEMMA ReactorType ==
  ASSUME TypeOK, ReactorStep
  PROVE  TypeOK'
<1>1. CASE Release
  <2>1. PICK s \in releasing :
          /\ stackTasks' = IF pcb[s] THEN Append(stackTasks, <<"close", s>>)
                                     ELSE stackTasks
          /\ self' = [self EXCEPT ![s] = FALSE]
    BY <1>1 DEF Release
  <2>2. stackTasks' \in Seq(StackItem)
    BY <2>1 DEF TypeOK, StackItem, StackOps
  <2> QED BY <1>1, <2>1, <2>2 DEF Release, TypeOK, StackItem, lwip, loopVars
<1>2. CASE ReactorTask
  <2>1. PICK op \in ReactorOps, s \in Session : Head(tasks) = <<op, s>>
    BY <1>2, TakeTask
  <2>2. /\ watch' \subseteq Session /\ releasing' \subseteq Session
        /\ fd' \in [Session -> {"none", "open", "closed"}]
        /\ closing' \in [Session -> BOOLEAN] /\ self' \in [Session -> BOOLEAN]
    <3>1. /\ Head(tasks)[1] = op /\ Head(tasks)[2] = s
      BY <2>1
    <3>2. CASE CloseFd(s)
      BY <3>2, CloseFdType DEF TypeOK
    <3>3. CASE ~CloseFd(s)
      BY <1>2, <3>1, <3>3 DEF ReactorTask, TypeOK, life
    <3> QED BY <3>2, <3>3
  <2> QED
    BY <1>2, <2>2, TakeTask DEF ReactorTask, TypeOK, ReactorItem, lwip, loopVars
<1>3. CASE Poll
  BY <1>3 DEF Poll, TypeOK, lwip, loopVars, life
<1>4. CASE DrainTasks
  BY <1>4 DEF DrainTasks, TypeOK, lwip, loopVars, life
<1>5. CASE ReadEnds
  <2>1. PICK s \in Session :
          ready' = ready \ {s} /\ (CloseFd(s) \/ UNCHANGED <<watch, releasing, life>>)
    BY <1>5 DEF ReadEnds
  <2>2. /\ watch' \subseteq Session /\ releasing' \subseteq Session
        /\ fd' \in [Session -> {"none", "open", "closed"}]
        /\ closing' \in [Session -> BOOLEAN] /\ self' \in [Session -> BOOLEAN]
    BY <2>1, CloseFdType DEF TypeOK, life
  <2> QED BY <1>5, <2>1, <2>2 DEF ReadEnds, TypeOK, lwip, loopVars
<1> QED BY <1>1, <1>2, <1>3, <1>4, <1>5 DEF ReactorStep

LEMMA OtherType ==
  ASSUME TypeOK,
         Input \/ Shutdown \/ Tick \/ StopReactor \/ ReadDatagram
         \/ UNCHANGED vars
  PROVE  TypeOK'
<1> USE DEF TypeOK, lwip, loopVars, reactorVars, life
<1>1. CASE Input
  <2>1. stackTasks' \in Seq(StackItem) BY <1>1 DEF Input, StackItem
  <2> QED BY <1>1, <2>1 DEF Input, StackItem
<1>2. CASE Shutdown \/ StopReactor \/ UNCHANGED vars
  BY <1>2 DEF Shutdown, StopReactor, vars
<1>3. CASE Tick
  <2>1. /\ age' \in [Session -> 0 .. MaxAge] /\ sinceReap' \in 0 .. ReapEvery
        /\ peer' \in (0 .. MaxAge) \cup {NoPeer}
    BY <1>3, AgeType, SessionUdpAssumption, SMTT(30) DEF Tick
  <2> QED BY <1>3, <2>1 DEF Tick
<1>4. CASE ReadDatagram
  <2>1. stackTasks' \in Seq(StackItem)
    BY <1>4 DEF ReadDatagram, StackItem, StackOps
  <2> QED BY <1>4, <2>1 DEF ReadDatagram, StackItem
<1> QED BY <1>1, <1>2, <1>3, <1>4

LEMMA InitType == Init => TypeOK
BY ZeroAge, SessionUdpAssumption DEF Init, TypeOK

(* The state of both threads always has its type.                          *)
THEOREM TypeCorrect == Spec => []TypeOK
<1>1. TypeOK /\ [Next]_vars => TypeOK'
  BY StackType, ReactorType, OtherType DEF Next
<1> QED BY InitType, <1>1, PTL DEF Spec

-----------------------------------------------------------------------------
(* A live session has a way back to its source.                            *)

(* The peer entry is never older than the session in the table, because    *)
(* whatever stamps the session stamps the entry, and the session is not    *)
(* older than the last reap allows.                                        *)
PeerInv ==
  udpSessions /= NoSession =>
    /\ pcb[udpSessions]
    /\ peer /= NoPeer
    /\ peer <= age[udpSessions]
    /\ age[udpSessions] <= Idle + sinceReap

LEMMA PeerPreserved ==
  ASSUME TypeOK, PeerInv, [Next]_vars
  PROVE  PeerInv'
<1> USE SessionUdpAssumption DEF PeerInv, TypeOK
<1>0. CASE UNCHANGED <<pcb, age, udpSessions, peer, sinceReap>>
  BY <1>0
<1>1. CASE StackTask
  <2>1. sinceReap' = sinceReap
    BY <1>1 DEF StackTask
  <2>2. CASE FeedToLwip
    <3>1. peer' = 0 BY <2>2 DEF FeedToLwip
    <3>2. CASE UNCHANGED <<pcb, age, udpSessions>>
      BY <2>1, <3>1, <3>2 DEF MaxAge
    <3>3. ASSUME NEW s \in Session, age' = [age EXCEPT ![s] = 0],
                 UNCHANGED <<pcb, udpSessions>>
          PROVE  PeerInv'
      BY <2>1, <3>1, <3>3 DEF MaxAge
    <3>4. ASSUME NEW s \in Session, NewSession(s) PROVE PeerInv'
      BY <2>1, <3>1, <3>4, SMTT(30) DEF NewSession, OnPcbRecv, MaxAge
    <3> QED
      BY <2>2, <3>2, <3>3, <3>4
         DEF FeedToLwip, OnPcbRecv, NewSessionFails, life
  <2>3. ASSUME NEW s \in Session, ReplyToLwip(s) PROVE PeerInv'
    <3>1. CASE UNCHANGED <<age, peer>>
      BY <2>1, <2>3, <3>1 DEF ReplyToLwip
    <3>2. CASE age' = [age EXCEPT ![s] = 0] /\ Output
      <4>1. SUFFICES ASSUME udpSessions /= NoSession PROVE PeerInv'
        BY <2>3 DEF ReplyToLwip
      <4>2. peer' = 0 BY <3>2, <4>1 DEF Output
      <4>3. /\ age'[udpSessions] \in {0, age[udpSessions]}
            /\ UNCHANGED <<pcb, udpSessions>>
        BY <2>3, <3>2, <4>1 DEF ReplyToLwip
      <4> QED BY <2>1, <4>1, <4>2, <4>3 DEF MaxAge
    <3> QED BY <2>3, <3>1, <3>2 DEF ReplyToLwip
  <2>4. ASSUME NEW s \in Session, CloseFromStack(s) PROVE PeerInv'
    BY <2>4 DEF CloseFromStack
  <2> QED BY <1>1, <2>2, <2>3, <2>4 DEF StackTask
<1>2. CASE StackOther
  <2>1. udpSessions /= NoSession => peer <= PeerIdle
    BY DEF MaxAge
  <2> QED BY <1>2, <2>1 DEF StackOther
<1>3. CASE Reap
  <2>1. CASE udpSessions' = NoSession BY <2>1
  <2>2. CASE UNCHANGED <<pcb, udpSessions>> /\ sinceReap' = sinceReap
    BY <1>3, <2>2 DEF Reap
  <2>3. CASE /\ UNCHANGED <<pcb, udpSessions>> /\ sinceReap' = 0
             /\ udpSessions /= NoSession => age[udpSessions] <= Idle
    BY <1>3, <2>3 DEF Reap
  <2> QED BY <1>3, <2>1, <2>2, <2>3 DEF Reap
<1>4. CASE Teardown
  BY <1>4 DEF Teardown
<1>5. CASE Tick
  <2>1. SUFFICES ASSUME udpSessions /= NoSession PROVE PeerInv'
    BY <1>5 DEF Tick
  <2>2. /\ age'[udpSessions] = Older(age[udpSessions]) /\ peer' = Older(peer)
        /\ sinceReap' = sinceReap + 1
        /\ UNCHANGED <<pcb, udpSessions>>
    BY <1>5, <2>1 DEF Tick
  <2> QED BY <2>1, <2>2, SMTT(30) DEF Older, MaxAge
<1>6. UNCHANGED <<pcb, age, udpSessions, peer, sinceReap>>
      \/ StackTask \/ StackOther \/ Reap \/ Teardown \/ Tick
  BY DEF Next, vars, Input, Shutdown, StackStep, LoopTop, StopReactor,
         ReactorStep, Release, ReactorTask, Poll, DrainTasks, ReadEnds,
         ReadDatagram, lwip, loopVars
<1> QED BY <1>0, <1>1, <1>2, <1>3, <1>4, <1>5, <1>6

(* A reply of a live session never finds its peer entry aged out.          *)
THEOREM PeerAlwaysKnown == Spec => []PeerKnown
<1>1. Init => PeerInv BY DEF Init, PeerInv
<1>2. TypeOK /\ PeerInv /\ [Next]_vars => PeerInv' BY PeerPreserved
<1>3. PeerInv => PeerKnown BY DEF PeerInv, PeerKnown
<1> QED BY <1>1, <1>2, <1>3, TypeCorrect, PTL DEF Spec

-----------------------------------------------------------------------------
(* The argument that lwIP keeps for a pcb is a live session.               *)

(* Whatever lets go of a session leaves the pcb to the NetStack thread in  *)
(* the same step, and a task to shut down a session means its pcb is gone. *)
ArgInv ==
  \A s \in Session :
    /\ pcb[s] => self[s] \/ In(stackTasks, <<"close", s>>)
    /\ pcb[s] => ~In(tasks, <<"shut", s>>)

LEMMA ArgPreserved ==
  ASSUME TypeOK, ArgInv, [Next]_vars
  PROVE  ArgInv'
<1> USE DEF ArgInv
<1>t. tasks \in Seq(ReactorItem) /\ stackTasks \in Seq(StackItem)
  BY DEF TypeOK, ReactorItem, StackItem
<1>0. CASE UNCHANGED <<pcb, self, stackTasks, tasks>>
  BY <1>0 DEF In
<1>1. ASSUME NEW x \in StackItem, stackTasks' = Append(stackTasks, x),
             UNCHANGED <<pcb, self, tasks>>
      PROVE  ArgInv'
  <2>1. \A y : In(stackTasks', y) <=> In(stackTasks, y) \/ y = x
    BY <1>t, <1>1, InAppend
  <2>2. \A y : In(tasks', y) <=> In(tasks, y)
    BY <1>1 DEF In
  <2> QED BY <1>1, <2>1, <2>2
<1>2. ASSUME NEW x \in ReactorItem, tasks' = Append(tasks, x),
             UNCHANGED <<self, stackTasks>>,
             \A s \in Session : pcb'[s] => pcb[s] /\ x /= <<"shut", s>>
      PROVE  ArgInv'
  <2>1. ASSUME NEW s \in Session, pcb'[s] PROVE ~In(tasks', <<"shut", s>>)
    BY <1>t, <1>2, <2>1, InAppend
  <2>2. ASSUME NEW s \in Session, pcb'[s]
        PROVE  self'[s] \/ In(stackTasks', <<"close", s>>)
    BY <1>2, <2>2
  <2> QED BY <2>1, <2>2
<1>3. CASE StackTask
  <2>1. /\ stackTasks /= <<>> /\ stackTasks' = Tail(stackTasks)
    BY <1>3 DEF StackTask
  <2>2. ASSUME NEW s \in Session, Head(stackTasks) /= <<"close", s>>
        PROVE  In(stackTasks, <<"close", s>>) <=> In(stackTasks', <<"close", s>>)
    BY <1>t, <2>1, <2>2, InTail
  <2>3. CASE Head(stackTasks) = <<"input">> /\ FeedToLwip
    <3>1. \A s \in Session : Head(stackTasks) /= <<"close", s>>
      BY <2>3
    <3>2. CASE UNCHANGED <<pcb, self, tasks>>
      BY <2>2, <3>1, <3>2 DEF In
    <3>3. ASSUME NEW s \in Session, OnPcbRecv(s, tasks),
                 UNCHANGED <<pcb, self>>
          PROVE  ArgInv'
      <4>1. \A k \in Session : In(tasks', <<"shut", k>>) => In(tasks, <<"shut", k>>)
        BY <1>t, <3>3, InAppend DEF OnPcbRecv, ReactorItem, ReactorOps
      <4> QED BY <2>2, <3>1, <3>3, <4>1
    <3>4. ASSUME NEW s \in Session, NewSession(s) PROVE ArgInv'
      <4>1. \A k \in Session : In(tasks', <<"shut", k>>) => In(tasks, <<"shut", k>>)
        <5> DEFINE q == Append(tasks, <<"add", s>>)
        <5>1. q \in Seq(ReactorItem)
          BY <1>t DEF ReactorItem, ReactorOps
        <5>2. <<"add", s>> \in ReactorItem /\ <<"send", s>> \in ReactorItem
          BY Items DEF ReactorOps
        <5>3. tasks' = Append(q, <<"send", s>>)
          BY <3>4 DEF NewSession, OnPcbRecv
        <5>4. \A x : In(tasks', x) <=> In(q, x) \/ x = <<"send", s>>
          <6> HIDE DEF q
          <6> QED BY <5>1, <5>2, <5>3, InAppend
        <5>5. \A x : In(q, x) <=> In(tasks, x) \/ x = <<"add", s>>
          BY <1>t, <5>2, InAppend
        <5> QED BY <5>4, <5>5
      <4>2. ~In(tasks, <<"shut", s>>)
        BY <3>4, NotHeld DEF NewSession, Alive
      <4>3. \A k \in Session : k /= s => pcb'[k] = pcb[k] /\ self'[k] = self[k]
        BY <3>4 DEF NewSession, TypeOK
      <4>4. self'[s]
        BY <3>4 DEF NewSession, TypeOK
      <4> QED BY <2>2, <3>1, <4>1, <4>2, <4>3, <4>4
    <3>5. ASSUME NEW s \in Session, NewSessionFails(s) PROVE ArgInv'
      <4>1. \A k \in Session : self[k] => self'[k]
        BY <3>5 DEF NewSessionFails, TypeOK
      <4> QED BY <2>2, <3>1, <3>5, <4>1 DEF NewSessionFails
    <3> QED BY <2>3, <3>2, <3>3, <3>4, <3>5 DEF FeedToLwip, life
  <2>4. ASSUME NEW s \in Session, Head(stackTasks) = <<"reply", s>>,
               ReplyToLwip(s)
        PROVE  ArgInv'
    <3>1. \A k \in Session : Head(stackTasks) /= <<"close", k>>
      BY <2>4
    <3> QED BY <2>2, <2>4, <3>1 DEF ReplyToLwip, life
  <2>5. ASSUME NEW s \in Session, Head(stackTasks) = <<"close", s>>,
               CloseFromStack(s)
        PROVE  ArgInv'
    <3>1. \A k \in Session : pcb'[k] => k /= s /\ pcb[k]
      BY <2>5 DEF CloseFromStack, TypeOK
    <3>2. \A k \in Session : In(tasks', <<"shut", k>>) => In(tasks, <<"shut", k>>)
      <4>1. <<"close", s>> \in ReactorItem BY Items DEF ReactorOps
      <4>2. \A x : In(tasks', x) <=> In(tasks, x) \/ x = <<"close", s>>
        BY <1>t, <2>5, <4>1, InAppend DEF CloseFromStack
      <4> QED BY <4>2
    <3>3. \A k \in Session : k /= s => Head(stackTasks) /= <<"close", k>>
      BY <2>5
    <3> QED BY <2>2, <2>5, <3>1, <3>2, <3>3 DEF CloseFromStack, life
  <2> QED BY <1>3, <2>3, <2>4, <2>5 DEF StackTask
<1>4. ASSUME udpSessions \in Session, ShutdownFromStack(udpSessions),
             UNCHANGED stackTasks
      PROVE  ArgInv'
  <2>1. CASE UNCHANGED tasks
    BY <1>4, <2>1 DEF ShutdownFromStack, TypeOK
  <2>2. CASE tasks' = Append(tasks, <<"shut", udpSessions>>)
    <3>1. <<"shut", udpSessions>> \in ReactorItem
      BY <1>4 DEF ReactorItem, ReactorOps
    <3>2. \A s \in Session : pcb'[s] => pcb[s] /\ s /= udpSessions
      BY <1>4 DEF ShutdownFromStack, TypeOK
    <3> QED BY <1>2, <1>4, <2>2, <3>1, <3>2 DEF ShutdownFromStack
  <2> QED BY <1>4, <2>1, <2>2 DEF ShutdownFromStack
<1>5. CASE Reap \/ Teardown
  BY <1>0, <1>4, <1>5 DEF Reap, Teardown, life, TypeOK
<1>6. CASE Release
  <2>1. PICK s \in releasing :
          /\ stackTasks' = IF pcb[s] THEN Append(stackTasks, <<"close", s>>)
                                     ELSE stackTasks
          /\ self' = [self EXCEPT ![s] = FALSE]
    BY <1>6 DEF Release
  <2>2. s \in Session /\ UNCHANGED <<pcb, tasks>>
    BY <1>6 DEF Release, TypeOK, lwip
  <2>3. \A k \in Session : In(stackTasks, <<"close", k>>)
                             => In(stackTasks', <<"close", k>>)
    <3>1. <<"close", s>> \in StackItem BY <2>2, Items DEF StackOps
    <3>2. \A x : In(stackTasks, x) => In(Append(stackTasks, <<"close", s>>), x)
      BY <1>t, <3>1, InAppend
    <3> QED BY <2>1, <3>2
  <2>4. pcb[s] => In(stackTasks', <<"close", s>>)
    <3>1. <<"close", s>> \in StackItem BY <2>2, Items DEF StackOps
    <3> QED BY <1>t, <2>1, <3>1, InAppend
  <2>5. \A k \in Session : k /= s => self'[k] = self[k]
    BY <2>1 DEF TypeOK
  <2> QED BY <2>2, <2>3, <2>4, <2>5 DEF In
<1>7. CASE ReactorTask
  <2>1. PICK op \in ReactorOps, s \in Session : Head(tasks) = <<op, s>>
    BY <1>7, TakeTask
  <2>2. /\ tasks /= <<>> /\ tasks' = Tail(tasks)
        /\ UNCHANGED <<pcb, stackTasks>>
    BY <1>7, TakeTask DEF ReactorTask, lwip
  <2>3. \A x : In(tasks', x) => In(tasks, x)
    BY <1>t, <2>2, InTail
  <2>4. op /= "shut" => UNCHANGED self
    BY <1>7, <2>1 DEF ReactorTask, CloseFd, life
  <2>5. op = "shut" => ~pcb[s] /\ \A k \in Session : k /= s => self'[k] = self[k]
    <3>1. op = "shut" => ~pcb[s]
      BY <1>t, <2>1, <2>2, InTail
    <3>2. op = "shut" => self' = [self EXCEPT ![s] = FALSE]
      BY <1>7, <2>1 DEF ReactorTask
    <3> QED BY <3>1, <3>2 DEF TypeOK
  <2> QED BY <2>2, <2>3, <2>4, <2>5
<1>8. CASE Input
  BY <1>1, <1>8 DEF Input, StackItem, lwip, life
<1>9. CASE ReadDatagram
  BY <1>1, <1>9 DEF ReadDatagram, StackItem, StackOps, lwip, life
<1>10. UNCHANGED <<pcb, self, stackTasks, tasks>> \/ StackTask \/ Reap
       \/ Teardown \/ Release \/ ReactorTask \/ Input \/ ReadDatagram
  BY DEF Next, vars, Shutdown, Tick, StackStep, LoopTop, StackOther,
         StopReactor, ReactorStep, Poll, DrainTasks, ReadEnds, CloseFd, lwip,
         life
<1> QED BY <1>0, <1>3, <1>5, <1>6, <1>7, <1>8, <1>9, <1>10

(* recvTrampoline is never called with a session that is gone.             *)
THEOREM RecvArgAlwaysValid == Spec => []RecvArgValid
<1>1. Init => ArgInv BY DEF Init, ArgInv
<1>2. TypeOK /\ ArgInv /\ [Next]_vars => ArgInv' BY ArgPreserved
<1>3. ArgInv => RecvArgValid BY NotHeld DEF ArgInv, RecvArgValid, Alive
<1> QED BY <1>1, <1>2, <1>3, TypeCorrect, PTL DEF Spec

-----------------------------------------------------------------------------
(* The Reactor uses open sockets only.                                     *)

(* A session is added to the Reactor before anything else is asked of it.  *)
AddFirst(q) ==
  \A s \in Session, i, j \in 1 .. Len(q) :
    q[i] = <<"add", s>> /\ q[j][2] = s => i <= j

LEMMA AddFirstAppend ==
  ASSUME NEW q \in Seq(ReactorItem), NEW op \in ReactorOps, NEW k \in Session,
         AddFirst(q), op /= "add" \/ ~Holds(q, k)
  PROVE  AddFirst(Append(q, <<op, k>>))
<1> DEFINE r == Append(q, <<op, k>>)
<1>1. /\ Len(r) = Len(q) + 1 /\ Len(q) \in Nat
      /\ \A i \in 1 .. Len(q) : r[i] = q[i] /\ q[i] \in ReactorItem
      /\ r[Len(q) + 1] = <<op, k>>
  OBVIOUS
<1> HIDE DEF r
<1>2. SUFFICES ASSUME NEW s \in Session, NEW i \in 1 .. Len(r),
                      NEW j \in 1 .. Len(r), r[i] = <<"add", s>>, r[j][2] = s
               PROVE  i <= j
  BY DEF AddFirst, r
<1>3. CASE i \in 1 .. Len(q) /\ j \in 1 .. Len(q)
  BY <1>1, <1>2, <1>3 DEF AddFirst
<1>4. CASE j = Len(q) + 1
  BY <1>1, <1>4
<1>5. CASE i = Len(q) + 1 /\ j \in 1 .. Len(q)
  <2>1. op = "add" /\ k = s
    BY <1>1, <1>2, <1>5
  <2>2. q[j][2] = s /\ Len(q[j]) = 2
    BY <1>1, <1>2, <1>5 DEF ReactorItem
  <2> QED BY <1>5, <2>1, <2>2 DEF Holds
<1> QED BY <1>1, <1>3, <1>4, <1>5

LEMMA AddFirstTail ==
  ASSUME NEW q \in Seq(ReactorItem), q /= <<>>, AddFirst(q),
         NEW k \in Session, Head(q)[2] = k
  PROVE  AddFirst(Tail(q)) /\ ~In(Tail(q), <<"add", k>>)
<1>1. /\ Len(q) \in Nat \ {0} /\ Len(Tail(q)) = Len(q) - 1
      /\ \A i \in 1 .. (Len(q) - 1) : Tail(q)[i] = q[i + 1]
      /\ Head(q) = q[1]
  OBVIOUS
<1>2. \A i \in 1 .. (Len(q) - 1) : i + 1 \in 1 .. Len(q) /\ ~(i + 1 <= 1)
  BY <1>1
<1>3. 1 \in 1 .. Len(q)
  BY <1>1
<1>4. AddFirst(Tail(q))
  <2> SUFFICES ASSUME NEW s \in Session, NEW i \in 1 .. (Len(q) - 1),
                      NEW j \in 1 .. (Len(q) - 1),
                      q[i + 1] = <<"add", s>>, q[j + 1][2] = s
               PROVE  i <= j
    BY <1>1 DEF AddFirst
  <2>1. i + 1 <= j + 1 BY <1>2 DEF AddFirst
  <2> QED BY <2>1, <1>1
<1>5. ASSUME NEW i \in 1 .. (Len(q) - 1), q[i + 1] = <<"add", k>> PROVE FALSE
  BY <1>1, <1>2, <1>3, <1>5 DEF AddFirst
<1> QED BY <1>1, <1>4, <1>5 DEF In

FdInv ==
  /\ ready \subseteq watch
  /\ rpc /= "handle" => ready = {}
  /\ \A s \in watch : fd[s] = "open"
  /\ \A s \in Session : In(tasks, <<"add", s>>) => fd[s] = "open" /\ s \notin watch
  /\ AddFirst(tasks)

(* A task posted by the NetStack thread for a session other than "add".    *)
LEMMA PostKeepsFd ==
  ASSUME TypeOK, FdInv, NEW op \in ReactorOps \ {"add"}, NEW k \in Session,
         tasks' = Append(tasks, <<op, k>>), UNCHANGED <<ready, watch, rpc, fd>>
  PROVE  FdInv'
<1>1. tasks \in Seq(ReactorItem) /\ <<op, k>> \in ReactorItem
  BY Items DEF TypeOK, ReactorItem
<1>2. \A x : In(tasks', x) <=> In(tasks, x) \/ x = <<op, k>>
  BY <1>1, InAppend
<1>3. AddFirst(tasks')
  BY <1>1, AddFirstAppend DEF FdInv
<1> QED BY <1>2, <1>3 DEF FdInv

LEMMA StackKeepsFd ==
  ASSUME TypeOK, FdInv, StackTask
  PROVE  FdInv'
<1>0. UNCHANGED <<ready, watch, rpc>>
  BY DEF StackTask, reactorVars
<1>t. tasks \in Seq(ReactorItem)
  BY DEF TypeOK, ReactorItem
<1>1. CASE UNCHANGED <<tasks, fd>>
  BY <1>0, <1>1 DEF FdInv, In, AddFirst
<1>2. ASSUME NEW s \in Session, OnPcbRecv(s, tasks), UNCHANGED fd PROVE FdInv'
  BY <1>0, <1>2, PostKeepsFd DEF OnPcbRecv, ReactorOps
<1>3. ASSUME NEW s \in Session, CloseFromStack(s) PROVE FdInv'
  BY <1>0, <1>3, PostKeepsFd DEF CloseFromStack, ReactorOps, life
<1>4. ASSUME NEW s \in Session, NewSessionFails(s) PROVE FdInv'
  <2>1. s \notin watch /\ ~In(tasks, <<"add", s>>) /\ UNCHANGED tasks
    BY <1>4, NotHeld DEF NewSessionFails, Alive
  <2>2. \A k \in Session : k /= s => fd'[k] = fd[k]
    BY <1>4 DEF NewSessionFails, TypeOK
  <2> QED BY <1>0, <2>1, <2>2 DEF FdInv, In, AddFirst, TypeOK
<1>5. ASSUME NEW s \in Session, NewSession(s) PROVE FdInv'
  <2> DEFINE q == Append(tasks, <<"add", s>>)
  <2>0. <<"add", s>> \in ReactorItem /\ <<"send", s>> \in ReactorItem
    BY Items DEF ReactorOps
  <2>1. q \in Seq(ReactorItem)
    BY <1>t, <2>0
  <2>2. tasks' = Append(q, <<"send", s>>)
    BY <1>5 DEF NewSession, OnPcbRecv
  <2>3. s \notin watch /\ ~Holds(tasks, s)
    BY <1>5 DEF NewSession, Alive
  <2>4. AddFirst(q)
    BY <1>t, <2>3, AddFirstAppend DEF FdInv, ReactorOps
  <2>5. \A x : In(q, x) <=> In(tasks, x) \/ x = <<"add", s>>
    BY <1>t, <2>0, InAppend
  <2> HIDE DEF q
  <2>6. AddFirst(tasks')
    BY <2>1, <2>2, <2>4, AddFirstAppend DEF ReactorOps
  <2>7. \A x : In(tasks', x) <=> In(q, x) \/ x = <<"send", s>>
    BY <2>0, <2>1, <2>2, InAppend
  <2>8. fd'[s] = "open" /\ \A k \in Session : k /= s => fd'[k] = fd[k]
    BY <1>5 DEF NewSession, TypeOK
  <2>9. \A k \in Session : In(tasks', <<"add", k>>)
                             => k = s \/ In(tasks, <<"add", k>>)
    BY <2>5, <2>7
  <2> QED BY <1>0, <2>3, <2>6, <2>8, <2>9 DEF FdInv, TypeOK
<1> QED
  BY <1>1, <1>2, <1>3, <1>4, <1>5
     DEF StackTask, FeedToLwip, ReplyToLwip, life

LEMMA ReactorKeepsFd ==
  ASSUME TypeOK, FdInv, ReactorTask
  PROVE  FdInv'
<1>1. PICK op \in ReactorOps, s \in Session : Head(tasks) = <<op, s>>
  BY TakeTask
<1>2. /\ tasks \in Seq(ReactorItem) /\ tasks /= <<>> /\ tasks' = Tail(tasks)
      /\ UNCHANGED <<ready, rpc>> /\ ready = {}
  BY TakeTask DEF ReactorTask, TypeOK, ReactorItem, FdInv
<1>3. AddFirst(tasks') /\ ~In(tasks', <<"add", s>>)
  BY <1>1, <1>2, AddFirstTail DEF FdInv
<1>4. \A x : In(tasks', x) => In(tasks, x)
  BY <1>2, InTail
<1>5. CASE op = "add"
  <2>1. fd[s] = "open"
    BY <1>1, <1>2, <1>5, InTail DEF FdInv
  <2>2. watch' = watch \cup {s} /\ UNCHANGED fd
    BY <1>1, <1>5 DEF ReactorTask, life
  <2> QED BY <1>2, <1>3, <1>4, <2>1, <2>2 DEF FdInv
<1>6. CASE UNCHANGED <<watch, fd>>
  BY <1>2, <1>3, <1>4, <1>6 DEF FdInv
<1>7. CASE watch' = watch \ {s} /\ fd' = [fd EXCEPT ![s] = "closed"]
  <2>1. \A k \in Session : k /= s => fd'[k] = fd[k]
    BY <1>7 DEF TypeOK
  <2> QED BY <1>2, <1>3, <1>4, <1>7, <2>1 DEF FdInv, TypeOK
<1>8. op \in {"send", "close", "shut"} =>
        \/ UNCHANGED <<watch, fd>>
        \/ watch' = watch \ {s} /\ fd' = [fd EXCEPT ![s] = "closed"]
  BY <1>1 DEF ReactorTask, CloseFd, life
<1> QED BY <1>5, <1>6, <1>7, <1>8 DEF ReactorOps

LEMMA FdPreserved ==
  ASSUME TypeOK, FdInv, [Next]_vars
  PROVE  FdInv'
<1>1. CASE UNCHANGED <<ready, watch, rpc, fd, tasks>>
  BY <1>1 DEF FdInv, In, AddFirst
<1>2. ASSUME udpSessions \in Session, ShutdownFromStack(udpSessions),
             UNCHANGED <<ready, watch, rpc>>
      PROVE  FdInv'
  BY <1>1, <1>2, PostKeepsFd DEF ShutdownFromStack, ReactorOps
<1>3. CASE Reap \/ Teardown
  BY <1>1, <1>2, <1>3 DEF Reap, Teardown, life, reactorVars, TypeOK
<1>4. CASE Poll
  BY <1>4 DEF Poll, FdInv, In, AddFirst, life
<1>5. CASE DrainTasks
  BY <1>5 DEF DrainTasks, FdInv, In, AddFirst, life
<1>6. CASE ReadEnds
  <2>1. PICK s \in Session :
          /\ Handling(s) /\ ready' = ready \ {s}
          /\ CloseFd(s) \/ UNCHANGED <<watch, releasing, life>>
    BY <1>6 DEF ReadEnds
  <2>2. UNCHANGED <<rpc, tasks>>
    BY <1>6 DEF ReadEnds
  <2>3. CASE UNCHANGED <<watch, fd>>
    BY <2>1, <2>2, <2>3 DEF FdInv, In, AddFirst
  <2>4. CASE watch' = watch \ {s} /\ fd' = [fd EXCEPT ![s] = "closed"]
    <3>1. \A k \in Session : k /= s => fd'[k] = fd[k]
      BY <2>4 DEF TypeOK
    <3>2. ~In(tasks, <<"add", s>>)
      BY <2>1 DEF FdInv, Handling
    <3>3. AddFirst(tasks') /\ \A x : In(tasks', x) => In(tasks, x)
      BY <2>2 DEF FdInv, In, AddFirst
    <3> QED BY <2>1, <2>2, <2>4, <3>1, <3>2, <3>3 DEF FdInv, TypeOK
  <2> QED BY <2>1, <2>3, <2>4 DEF CloseFd, life
<1>7. UNCHANGED <<ready, watch, rpc, fd, tasks>> \/ StackTask \/ ReactorTask
      \/ Reap \/ Teardown \/ Poll \/ DrainTasks \/ ReadEnds
  BY DEF Next, vars, Input, Shutdown, Tick, StackStep, LoopTop, StackOther,
         StopReactor, ReactorStep, Release, ReadDatagram, reactorVars, life
<1> QED
  BY <1>1, <1>3, <1>4, <1>5, <1>6, <1>7, StackKeepsFd, ReactorKeepsFd

(* The Reactor never polls, reads or adds a socket that was closed.        *)
THEOREM FdAlwaysSafe == Spec => []FdSafe
<1>1. Init => FdInv BY DEF Init, FdInv, In, AddFirst
<1>2. TypeOK /\ FdInv /\ [Next]_vars => FdInv' BY FdPreserved
<1>3. FdInv => FdSafe BY DEF FdInv, FdSafe, In
<1> QED BY <1>1, <1>2, <1>3, TypeCorrect, PTL DEF Spec
=============================================================================
