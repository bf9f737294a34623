-------------------------- MODULE SessionTcpProofs --------------------------
(***************************************************************************)
(* The window accounting of SessionTcp, for all windows and buffers; then  *)
(* its types, the count of the backlog and the end of file, which need one *)
(* inductive invariant together: the count stays a natural number only     *)
(* because it covers what is queued.                                       *)
(***************************************************************************)
EXTENDS SessionTcp, FiniteSetTheorems, FunctionTheorems, SequenceTheorems,
        TLAPS

(* The parts of the window are counts, and together never more than it;    *)
(* only a session that is closing may have lost some (FlushFails).         *)
Held == rcvWnd + forwardBuf + pendingRecved

WInv ==
  /\ {rcvWnd, forwardBuf, pendingRecved, outUsed} \subseteq Nat
  /\ outUsed <= OutBuf
  /\ Held <= Wnd
  /\ ~closing => Held = Wnd

(* A session never comes back from closing.                                *)
ClosingStays == closing' = closing \/ closing' = TRUE

LEMMA InitWInv == Init => WInv
BY SessionTcpAssumption DEF Init, WInv, Held

(* Steps that leave the three counts alone.                                *)
LEMMA FramePreserves ==
  /\ WInv /\ ClosingStays
  /\ UNCHANGED <<rcvWnd, forwardBuf, pendingRecved>>
  /\ outUsed' = outUsed \/ (outUsed > 0 /\ outUsed' = outUsed - 1)
  => WInv'
BY SessionTcpAssumption DEF WInv, Held, ClosingStays

(* closeFromReactor sets closing.                                          *)
LEMMA CloseFromReactorCloses == CloseFromReactor => closing'
BY DEF CloseFromReactor

LEMMA AcceptPreserves == WInv /\ (Accept \/ AcceptFails) => WInv'
BY FramePreserves
   DEF Accept, AcceptFails, ClosingStays, forward, kernel

LEMMA OnRecvPreserves == WInv /\ OnRecv => WInv'
<1> SUFFICES ASSUME WInv, OnRecv PROVE WInv'
  OBVIOUS
<1>1. /\ rcvWnd > 0 /\ rcvWnd' = rcvWnd - 1
      /\ forwardBuf' = forwardBuf + 1
      /\ UNCHANGED <<pendingRecved, outUsed, closing>>
  BY DEF OnRecv, kernel, life
<1> QED BY <1>1, SessionTcpAssumption DEF WInv, Held

LEMMA StackEventPreserves ==
  WInv /\ (OnRecvFin \/ OnSent \/ OnErr \/ Teardown \/ StopReactor) => WInv'
BY FramePreserves
   DEF OnRecvFin, OnSent, OnErr, Teardown, ShutdownFromStack, StopReactor,
       ClosingStays, lwip, forward, kernel, life

(* Of the tasks of the NetStack thread, the acknowledgement hands back to  *)
(* the source exactly what it takes from pendingRecved.                    *)
LEMMA StackTaskPreserves == WInv /\ StackTask => WInv'
<1> SUFFICES ASSUME WInv, StackTask PROVE WInv'
  OBVIOUS
<1>1. closing' = closing /\ outUsed' = outUsed
  BY DEF StackTask, kernel, life
<1>2. \/ UNCHANGED <<rcvWnd, forwardBuf, pendingRecved>>
      \/ AckRecvedToLwip
  BY DEF StackTask, StackTaskLate, WriteToLwip, OnFdEofFromStack, lwip, forward
<1>3. CASE UNCHANGED <<rcvWnd, forwardBuf, pendingRecved>>
  BY <1>1, <1>3, FramePreserves DEF ClosingStays
<1>4. CASE AckRecvedToLwip
  BY <1>1, <1>4, SessionTcpAssumption DEF AckRecvedToLwip, WInv, Held
<1> QED BY <1>2, <1>3, <1>4

(* flushForwardLocked: what leaves forwardBuf enters pendingRecved and the *)
(* socket, or the session closes.                                          *)
LEMMA FlushForwardPreserves ==
  ASSUME NEW mode
  PROVE  WInv /\ FlushForward(mode) /\ UNCHANGED rcvWnd => WInv'
<1> SUFFICES ASSUME WInv, FlushForward(mode), UNCHANGED rcvWnd PROVE WInv'
  OBVIOUS
<1> DEFINE n == Min(forwardBuf, OutBuf - outUsed)
<1>1. n \in Nat /\ n <= forwardBuf /\ n <= OutBuf - outUsed
  BY SessionTcpAssumption DEF WInv, Min
<1>2. /\ forwardBuf' = forwardBuf - n
      /\ outUsed' = outUsed + n
      /\ pendingRecved' = pendingRecved + n
      /\ closing' = closing
  BY DEF FlushForward
<1> HIDE DEF n
<1> QED BY <1>1, <1>2, SessionTcpAssumption DEF WInv, Held

LEMMA FlushFailsPreserves ==
  WInv /\ FlushFails /\ UNCHANGED rcvWnd => WInv'
<1> SUFFICES ASSUME WInv, FlushFails, UNCHANGED rcvWnd PROVE WInv'
  OBVIOUS
<1>1. PICK n \in 0 .. Min(forwardBuf, OutBuf - outUsed) :
        forwardBuf' = forwardBuf - n
  BY DEF FlushFails
<1>2. n \in Nat /\ n <= forwardBuf
  BY SessionTcpAssumption DEF WInv, Min
<1>3. closing' /\ UNCHANGED <<outUsed, pendingRecved>>
  BY CloseFromReactorCloses DEF FlushFails
<1> QED BY <1>1, <1>2, <1>3, SessionTcpAssumption DEF WInv, Held

LEMMA FlushPreserves ==
  WInv /\ Flush /\ UNCHANGED rcvWnd => WInv'
<1> SUFFICES ASSUME WInv, Flush, UNCHANGED rcvWnd PROVE WInv'
  OBVIOUS
<1>1. CASE FlushForward(watch) BY <1>1, FlushForwardPreserves
<1>2. CASE FlushFails BY <1>2, FlushFailsPreserves
<1>3. CASE UNCHANGED <<forward, outUsed, stackTasks, watch, life>>
  BY <1>3, FramePreserves DEF forward, life, ClosingStays
<1> QED BY <1>1, <1>2, <1>3 DEF Flush

LEMMA ReactorTaskPreserves == WInv /\ ReactorTask => WInv'
<1> SUFFICES ASSUME WInv, ReactorTask PROVE WInv'
  OBVIOUS
<1>1. UNCHANGED rcvWnd
  BY DEF ReactorTask, lwip
<1>2. \/ Flush
      \/ UNCHANGED <<forwardBuf, pendingRecved, outUsed>> /\ ClosingStays
  BY CloseFromReactorCloses
     DEF ReactorTask, CloseFromReactor, forward, life, ClosingStays
<1> QED BY <1>1, <1>2, FlushPreserves, FramePreserves

LEMMA HandleDialPreserves == WInv /\ HandleDial => WInv'
<1> SUFFICES ASSUME WInv, HandleDial PROVE WInv'
  OBVIOUS
<1>1. UNCHANGED rcvWnd
  BY DEF HandleDial, lwip
<1>2. \/ FlushForward(Mod({"R"}))
      \/ FlushFails
      \/ UNCHANGED <<forwardBuf, pendingRecved, outUsed>> /\ ClosingStays
  BY DEF HandleDial, CloseFromReactor, forward, life, ClosingStays
<1> QED BY <1>1, <1>2, FlushForwardPreserves, FlushFailsPreserves,
           FramePreserves

LEMMA ReadPreserves ==
  WInv /\ (Poll \/ DrainTasks \/ SeeHighWater \/ PauseRead \/ OnFdReadable)
    => WInv'
BY FramePreserves
   DEF Poll, DrainTasks, SeeHighWater, PauseRead, OnFdReadable, ReadData,
       ReadEof, ReadNothing, ReadError, ReadClosed, CloseFromReactor, lwip,
       forward, kernel, life, ClosingStays

LEMMA WritablePreserves == WInv /\ OnFdWritable => WInv'
BY FlushPreserves DEF OnFdWritable, lwip

LEMMA RemotePreserves == WInv /\ Remote => WInv'
BY FramePreserves
   DEF Remote, RemoteSteps, RemoteTakes, lwip, forward, life, ClosingStays,
       WInv

LEMMA NextWInv == WInv /\ [Next]_vars => WInv'
<1> SUFFICES ASSUME WInv, [Next]_vars PROVE WInv'
  OBVIOUS
<1>1. CASE UNCHANGED vars
  BY <1>1, FramePreserves DEF vars, lwip, forward, kernel, life, ClosingStays
<1>2. CASE Next
  BY <1>2, AcceptPreserves, OnRecvPreserves, StackEventPreserves,
     StackTaskPreserves, ReactorTaskPreserves, HandleDialPreserves,
     ReadPreserves, WritablePreserves, RemotePreserves
     DEF Next, StackStep, ReactorStep
<1> QED BY <1>1, <1>2

(* No byte of the window is lost or counted twice between the two threads, *)
(* however large the window and the socket buffers (onRecv,                *)
(* flushForwardLocked, ackRecvedToLwip).                                   *)
THEOREM WindowAlwaysConserved == Spec => []WindowConserved
<1>1. WInv => WindowConserved
  BY DEF WInv, Held, WindowConserved
<1> QED BY InitWInv, NextWInv, <1>1, PTL DEF Spec

(* The buffer towards the destination is bounded by the window: the source *)
(* cannot make onRecv store more than one TCP_WND.                         *)
THEOREM ForwardBufBounded == Spec => [](forwardBuf <= Wnd)
<1>1. WInv => forwardBuf <= Wnd
  BY SessionTcpAssumption DEF WInv, Held
<1> QED BY InitWInv, NextWInv, <1>1, PTL DEF Spec

-----------------------------------------------------------------------------
(* The units in the queue of the NetStack thread: a task appended or taken *)
(* changes their number by what it carries.                                *)

LEMMA TaskTypes ==
  /\ \A op \in {"ack", "eof", "close"} :
       /\ Task(op) \in StackOps
       /\ Task(op).op = op /\ Task(op).units = 0
  /\ \A n \in 1 .. ReadMax :
       /\ WriteTask(n) \in StackOps
       /\ WriteTask(n).op = "write" /\ WriteTask(n).units = n
  /\ \A t \in StackOps :
       /\ t.units \in 0 .. ReadMax
       /\ t.op \in {"write", "ack", "eof", "close"}
       /\ t.op /= "write" => t.units = 0
<1>1. \A op \in {"ack", "eof", "close"} :
        /\ Task(op) \in StackOps
        /\ Task(op).op = op /\ Task(op).units = 0
  BY DEF Task, StackOps
<1>2. \A n \in 1 .. ReadMax :
        /\ WriteTask(n) \in StackOps
        /\ WriteTask(n).op = "write" /\ WriteTask(n).units = n
  BY DEF WriteTask, StackOps
<1>3. ASSUME NEW t \in StackOps
      PROVE  /\ t.units \in 0 .. ReadMax
             /\ t.op \in {"write", "ack", "eof", "close"}
             /\ t.op /= "write" => t.units = 0
  <2>1. CASE \E op \in {"ack", "eof", "close"} : t = Task(op)
    BY <1>1, <2>1, SessionTcpAssumption
  <2>2. CASE \E n \in 1 .. ReadMax : t = WriteTask(n)
    BY <1>2, <2>2, SessionTcpAssumption
  <2> QED BY <2>1, <2>2 DEF StackOps
<1> QED BY <1>1, <1>2, <1>3

(* The units of the i-th task, as pairs.                                   *)
UnitsAt(i, n) == {<<i, u>> : u \in 1 .. n}

LEMMA UnitsAtCount ==
  ASSUME NEW i, NEW n \in Nat
  PROVE  IsFiniteSet(UnitsAt(i, n)) /\ Cardinality(UnitsAt(i, n)) = n
<1> DEFINE f == [u \in 1 .. n |-> <<i, u>>]
<1>1. /\ f \in [1 .. n -> UnitsAt(i, n)]
      /\ \A u, v \in 1 .. n : f[u] = f[v] => u = v
      /\ \A p \in UnitsAt(i, n) : \E u \in 1 .. n : f[u] = p
  BY DEF UnitsAt
<1>2. ExistsBijection(1 .. n, UnitsAt(i, n))
  <2> HIDE DEF f
  <2> QED BY <1>1, Fun_IsBij DEF ExistsBijection
<1>3. IsFiniteSet(1 .. n) /\ Cardinality(1 .. n) = n
  BY FS_Interval
<1> QED BY <1>2, <1>3, FS_Bijection

LEMMA UnitsFinite ==
  ASSUME NEW q \in Seq(StackOps)
  PROVE  IsFiniteSet(Units(q)) /\ QueuedUnits(q) \in Nat
<1>1. IsFiniteSet(1 .. Len(q)) /\ IsFiniteSet(1 .. ReadMax)
  BY FS_Interval, SessionTcpAssumption
<1>2. IsFiniteSet((1 .. Len(q)) \X (1 .. ReadMax))
  BY <1>1, FS_Product
<1>3. Units(q) \in SUBSET ((1 .. Len(q)) \X (1 .. ReadMax))
  BY DEF Units
<1> QED BY <1>2, <1>3, FS_Subset, FS_CardinalityType DEF QueuedUnits

(* The sum of two disjoint finite sets.                                    *)
LEMMA DisjointCount ==
  ASSUME NEW S, NEW T, IsFiniteSet(S), IsFiniteSet(T), S \cap T = {}
  PROVE  Cardinality(S \cup T) = Cardinality(S) + Cardinality(T)
<1>1. /\ Cardinality(S \cup T)
           = Cardinality(S) + Cardinality(T) - Cardinality(S \cap T)
      /\ Cardinality(S) \in Nat /\ Cardinality(T) \in Nat
  BY FS_Union, FS_CardinalityType
<1>2. Cardinality(S \cap T) = 0
  BY FS_EmptySet
<1> QED BY <1>1, <1>2

LEMMA UnitsAppend ==
  ASSUME NEW q \in Seq(StackOps), NEW x \in StackOps
  PROVE  QueuedUnits(Append(q, x)) = QueuedUnits(q) + x.units
<1>1. /\ Len(Append(q, x)) = Len(q) + 1 /\ Len(q) \in Nat
      /\ \A i \in 1 .. Len(q) : Append(q, x)[i] = q[i]
      /\ Append(q, x)[Len(q) + 1] = x
  OBVIOUS
<1>2. x.units \in 0 .. ReadMax /\ ReadMax \in Nat
  BY TaskTypes, SessionTcpAssumption
<1>3. Units(Append(q, x)) = Units(q) \cup UnitsAt(Len(q) + 1, x.units)
  <2>1. ASSUME NEW p \in Units(Append(q, x))
        PROVE  p \in Units(q) \cup UnitsAt(Len(q) + 1, x.units)
    <3>1. /\ p = <<p[1], p[2]>>
          /\ p[1] \in 1 .. (Len(q) + 1) /\ p[2] \in 1 .. ReadMax
          /\ p[2] <= Append(q, x)[p[1]].units
      BY <1>1 DEF Units
    <3>2. CASE p[1] \in 1 .. Len(q)
      BY <1>1, <3>1, <3>2 DEF Units
    <3>3. CASE p[1] = Len(q) + 1
      BY <1>1, <1>2, <3>1, <3>3 DEF UnitsAt
    <3> QED BY <1>1, <3>1, <3>2, <3>3
  <2>2. ASSUME NEW p \in Units(q) PROVE p \in Units(Append(q, x))
    BY <1>1 DEF Units
  <2>3. ASSUME NEW u \in 1 .. x.units
        PROVE  <<Len(q) + 1, u>> \in Units(Append(q, x))
    BY <1>1, <1>2 DEF Units
  <2> QED BY <2>1, <2>2, <2>3 DEF UnitsAt
<1>4. Units(q) \cap UnitsAt(Len(q) + 1, x.units) = {}
  BY <1>1 DEF Units, UnitsAt
<1> QED BY <1>2, <1>3, <1>4, UnitsFinite, UnitsAtCount, DisjointCount
           DEF QueuedUnits

LEMMA UnitsTail ==
  ASSUME NEW q \in Seq(StackOps), q /= <<>>
  PROVE  QueuedUnits(q) = QueuedUnits(Tail(q)) + Head(q).units
<1>1. /\ Tail(q) \in Seq(StackOps) /\ Head(q) \in StackOps
      /\ Len(q) \in Nat \ {0} /\ Len(Tail(q)) = Len(q) - 1
      /\ \A i \in 1 .. (Len(q) - 1) : Tail(q)[i] = q[i + 1]
      /\ Head(q) = q[1]
  OBVIOUS
<1>2. Head(q).units \in 0 .. ReadMax /\ ReadMax \in Nat
  BY <1>1, TaskTypes, SessionTcpAssumption
<1> DEFINE Rest == {p \in Units(q) : p[1] /= 1}
           shift == [p \in Units(Tail(q)) |-> <<p[1] + 1, p[2]>>]
<1>3. \A p \in Units(Tail(q)) :
        /\ p = <<p[1], p[2]>>
        /\ p[1] \in 1 .. (Len(q) - 1) /\ p[2] \in 1 .. ReadMax
        /\ p[2] <= q[p[1] + 1].units
  BY <1>1 DEF Units
<1>4. shift \in [Units(Tail(q)) -> Rest]
  BY <1>1, <1>3 DEF Units
<1>5. \A p, r \in Units(Tail(q)) : shift[p] = shift[r] => p = r
  BY <1>3
<1>6. ASSUME NEW r \in Rest PROVE \E p \in Units(Tail(q)) : shift[p] = r
  <2>1. /\ r = <<r[1], r[2]>> /\ r[1] \in 2 .. Len(q)
        /\ r[2] \in 1 .. ReadMax /\ r[2] <= q[r[1]].units
    BY <1>1 DEF Units
  <2>2. /\ r[1] - 1 \in 1 .. (Len(q) - 1)
        /\ Tail(q)[r[1] - 1] = q[r[1]]
    BY <1>1, <2>1
  <2>3. <<r[1] - 1, r[2]>> \in Units(Tail(q))
    BY <1>1, <2>1, <2>2 DEF Units
  <2>4. shift[<<r[1] - 1, r[2]>>] = r
    BY <2>1, <2>3
  <2> QED BY <2>3, <2>4
<1>7. ExistsBijection(Units(Tail(q)), Rest)
  <2> HIDE DEF shift
  <2> QED BY <1>4, <1>5, <1>6, Fun_IsBij DEF ExistsBijection
<1>8. IsFiniteSet(Rest) /\ Cardinality(Rest) = QueuedUnits(Tail(q))
  BY <1>1, <1>7, UnitsFinite, FS_Bijection DEF QueuedUnits
<1>9. Units(q) = Rest \cup UnitsAt(1, Head(q).units)
  <2>1. ASSUME NEW p \in Units(q), p \notin Rest
        PROVE  p \in UnitsAt(1, Head(q).units)
    BY <1>1, <1>2, <2>1 DEF Units, UnitsAt
  <2>2. ASSUME NEW u \in 1 .. Head(q).units PROVE <<1, u>> \in Units(q)
    BY <1>1, <1>2 DEF Units
  <2> QED BY <2>1, <2>2 DEF UnitsAt
<1>10. Rest \cap UnitsAt(1, Head(q).units) = {}
  BY DEF UnitsAt
<1> HIDE DEF Rest
<1> QED BY <1>2, <1>8, <1>9, <1>10, UnitsAtCount, DisjointCount
           DEF QueuedUnits

(* Before onAccept nothing has happened: no task, no event, no backlog.    *)
Fresh ==
  pcb = "new" => /\ tasks = <<>> /\ stackTasks = <<>>
                 /\ watch = {} /\ ready = {}
                 /\ backwardBuf = 0 /\ backwardBytes = 0

(* As long as the pcb lives, the count of both threads is what is buffered *)
(* and what is queued.                                                     *)
Backlog ==
  /\ pcb /= "none" => backwardBytes = backwardBuf + QueuedUnits(stackTasks)
  /\ backwardBytes < HighWater + ReadMax

(* The end of file is the last thing that is read: nothing can be read     *)
(* when it was seen, and no unit is queued behind it.                      *)
EofSeen == fdEof \/ \E i \in 1 .. Len(stackTasks) : stackTasks[i].op = "eof"

EofLast ==
  /\ EofSeen => inData = 0 /\ remote \in {"eof", "reset"}
  /\ fdEof => \A i \in 1 .. Len(stackTasks) : stackTasks[i].units = 0
  /\ \A i, j \in 1 .. Len(stackTasks) :
       i < j /\ stackTasks[i].op = "eof" => stackTasks[j].units = 0

IInv == TypeOK /\ WInv /\ Fresh /\ Backlog /\ EofLast

(* What a step that neither reads the fd nor runs a task of the NetStack   *)
(* thread posts to that thread.                                            *)
Posts ==
  \/ UNCHANGED stackTasks
  \/ \E op \in {"ack", "close"} : stackTasks' = Append(stackTasks, Task(op))

Watches == {{}, {"F"}, {"F", "R"}, {"F", "W"}, {"F", "R", "W"}}

-----------------------------------------------------------------------------
(* Types.                                                                  *)

LEMMA WInvType ==
  WInv' => /\ rcvWnd' \in 0 .. Wnd /\ forwardBuf' \in 0 .. Wnd
           /\ pendingRecved' \in 0 .. Wnd /\ outUsed' \in 0 .. OutBuf
BY SessionTcpAssumption DEF WInv, Held

LEMMA InitIInv == Init => IInv
<1> SUFFICES ASSUME Init PROVE IInv
  OBVIOUS
<1>1. stackTasks \in Seq(StackOps) /\ tasks \in Seq(ReactorOps)
  BY EmptySeq DEF Init
<1>2. TypeOK
  <2>1. {Wnd, SndBuf, OutBuf, InBuf} \subseteq Nat /\ Len(tasks) = 0
    BY SessionTcpAssumption DEF Init
  <2>2. {connected, wantWrite, readPaused, fdEof, closing, self, stackUp,
         running} \subseteq BOOLEAN
    BY DEF Init
  <2>3. /\ rcvWnd \in 0 .. Wnd /\ sndUsed \in 0 .. SndBuf
        /\ forwardBuf \in 0 .. Wnd /\ pendingRecved \in 0 .. Wnd
        /\ backwardBuf \in Nat /\ backwardBytes \in Nat
        /\ batch \in 0 .. Len(tasks)
        /\ inData \in 0 .. InBuf /\ outUsed \in 0 .. OutBuf
    BY <2>1 DEF Init
  <2> QED BY <1>1, <2>2, <2>3 DEF Init, TypeOK
<1>3. Units(stackTasks) = {}
  BY DEF Init, Units
<1>4. QueuedUnits(stackTasks) = 0
  BY <1>3, FS_EmptySet DEF QueuedUnits
<1>5. Fresh /\ Backlog
  BY <1>4, SessionTcpAssumption DEF Init, Fresh, Backlog
<1>6. EofLast
  BY DEF Init, EofLast, EofSeen
<1> QED BY <1>2, <1>5, <1>6, InitWInv DEF IInv

(* Posting to the Reactor leaves the batch it has taken as it is.          *)
LEMMA Post ==
  ASSUME TypeOK, NEW op \in ReactorOps
  PROVE  /\ Append(tasks, op) \in Seq(ReactorOps)
         /\ batch \in 0 .. Len(Append(tasks, op))
BY DEF TypeOK

LEMMA AcceptType == TypeOK /\ (Accept \/ AcceptFails) => TypeOK'
<1> SUFFICES ASSUME TypeOK, Accept \/ AcceptFails PROVE TypeOK'
  OBVIOUS
<1>1. CASE Accept
  BY <1>1 DEF TypeOK, Accept, ReactorOps, forward, backward, kernel, loopVars
<1>2. CASE AcceptFails
  BY <1>2 DEF TypeOK, AcceptFails, forward, backward, kernel, loopVars
<1> QED BY <1>1, <1>2

LEMMA SourceType ==
  TypeOK /\ WInv' /\ (OnRecv \/ OnRecvFin \/ OnErr) => TypeOK'
<1> SUFFICES ASSUME TypeOK, WInv', OnRecv \/ OnRecvFin \/ OnErr PROVE TypeOK'
  OBVIOUS
<1>1. CASE OnRecv
  BY <1>1, WInvType
     DEF TypeOK, OnRecv, ReactorOps, backward, kernel, loopVars, life
<1>2. CASE OnRecvFin
  BY <1>2 DEF TypeOK, OnRecvFin, CloseFromStack, ReactorOps, forward, backward,
              kernel, loopVars, life
<1>3. CASE OnErr
  <2>1. tasks' \in Seq(ReactorOps) /\ batch' \in 0 .. Len(tasks')
    BY <1>3, Post DEF TypeOK, OnErr, ReactorOps, loopVars
  <2>2. /\ closing' \in BOOLEAN /\ self' \in BOOLEAN
        /\ fd' \in {"none", "open", "closed"}
    BY <1>3 DEF TypeOK, OnErr
  <2> QED BY <1>3, <2>1, <2>2
             DEF TypeOK, OnErr, forward, backward, kernel, loopVars
<1> QED BY <1>1, <1>2, <1>3

LEMMA StopType == TypeOK /\ (Teardown \/ StopReactor) => TypeOK'
<1> SUFFICES ASSUME TypeOK, Teardown \/ StopReactor PROVE TypeOK'
  OBVIOUS
<1>1. CASE Teardown
  <2>1. tasks' \in Seq(ReactorOps) /\ batch' \in 0 .. Len(tasks')
    BY <1>1, Post DEF TypeOK, Teardown, ShutdownFromStack, ReactorOps, loopVars
  <2>2. closing' \in BOOLEAN
    BY <1>1 DEF TypeOK, Teardown, ShutdownFromStack
  <2> QED BY <1>1, <2>1, <2>2
             DEF TypeOK, Teardown, ShutdownFromStack, forward, backward, kernel,
                 loopVars
<1>2. CASE StopReactor
  <2>1. {connected', wantWrite', readPaused', fdEof', closing', self', stackUp',
         running'} \subseteq BOOLEAN
    BY <1>2 DEF TypeOK, StopReactor, forward, backward, life
  <2> QED BY <1>2, <2>1 DEF TypeOK, StopReactor, lwip, forward, backward, kernel,
             loopVars, life
<1> QED BY <1>1, <1>2

(* closeFromReactor and flushForwardLocked.                                *)
LEMMA CloseFromReactorType ==
  ASSUME TypeOK, CloseFromReactor
  PROVE  /\ fd' \in {"none", "open", "closed"}
         /\ closing' \in BOOLEAN /\ self' \in BOOLEAN
         /\ watch' \in Watches
         /\ stackTasks' \in Seq(StackOps) /\ Posts
<1>1. CASE closing
  BY <1>1 DEF TypeOK, CloseFromReactor, Watches, Posts
<1>2. CASE ~closing
  <2>1. stackTasks' \in {stackTasks, Append(stackTasks, Task("close"))}
    BY <1>2 DEF CloseFromReactor
  <2>2. stackTasks' \in Seq(StackOps) /\ Posts
    <3>1. CASE stackTasks' = stackTasks
      BY <3>1 DEF TypeOK, Posts
    <3>2. CASE stackTasks' = Append(stackTasks, Task("close"))
      BY <3>2, TaskTypes DEF TypeOK, Posts
    <3> QED BY <2>1, <3>1, <3>2
  <2>3. fd' = "closed" /\ closing' = TRUE /\ self' = FALSE /\ watch' = {}
    BY <1>2 DEF CloseFromReactor
  <2> QED BY <2>2, <2>3 DEF Watches
<1> QED BY <1>1, <1>2

LEMMA ModType ==
  ASSUME TypeOK, NEW interest \in SUBSET {"R", "W"}
  PROVE  Mod(interest) \in Watches
<1>1. CASE watch = {}
  BY <1>1 DEF Mod, Watches
<1>2. CASE watch /= {}
  <2>1. interest \in {{}, {"R"}, {"W"}, {"R", "W"}}
    OBVIOUS
  <2>2. Mod(interest) = {"F"} \cup interest
    BY <1>2 DEF Mod
  <2> QED BY <2>1, <2>2 DEF Watches
<1> QED BY <1>1, <1>2

LEMMA FlushForwardType ==
  ASSUME TypeOK, NEW mode \in Watches, FlushForward(mode)
  PROVE  /\ wantWrite' \in BOOLEAN
         /\ UNCHANGED <<fd, closing, self>>
         /\ watch' \in Watches
         /\ stackTasks' \in Seq(StackOps) /\ Posts
<1> DEFINE n == Min(forwardBuf, OutBuf - outUsed)
<1>1. stackTasks' = IF n > 0 THEN Append(stackTasks, Task("ack"))
                               ELSE stackTasks
  BY DEF FlushForward
<1>2. stackTasks' \in Seq(StackOps) /\ Posts
  <2> HIDE DEF n
  <2> QED BY <1>1, TaskTypes DEF TypeOK, Posts
<1>3. Mod({"R", "W"}) \in Watches /\ Mod({"R"}) \in Watches
  BY ModType
<1>4. watch' \in {Mod({"R", "W"}), Mod({"R"}), mode}
  BY DEF FlushForward
<1>5. wantWrite' \in BOOLEAN /\ UNCHANGED <<fd, closing, self>>
  BY DEF FlushForward
<1> QED BY <1>2, <1>3, <1>4, <1>5

LEMMA FlushFailsType ==
  ASSUME TypeOK, FlushFails
  PROVE  /\ wantWrite' \in BOOLEAN
         /\ fd' \in {"none", "open", "closed"}
         /\ closing' \in BOOLEAN /\ self' \in BOOLEAN
         /\ watch' \in Watches
         /\ stackTasks' \in Seq(StackOps) /\ Posts
<1>1. CloseFromReactor /\ UNCHANGED wantWrite
  BY DEF FlushFails
<1> QED BY <1>1, CloseFromReactorType DEF TypeOK

LEMMA FlushType ==
  ASSUME TypeOK, Flush
  PROVE  /\ wantWrite' \in BOOLEAN
         /\ fd' \in {"none", "open", "closed"}
         /\ closing' \in BOOLEAN /\ self' \in BOOLEAN
         /\ watch' \in Watches
         /\ stackTasks' \in Seq(StackOps) /\ Posts
<1>0. watch \in Watches
  BY DEF TypeOK, Watches
<1>1. CASE FlushForward(watch)
  BY <1>0, <1>1, FlushForwardType DEF TypeOK
<1>2. CASE FlushFails
  BY <1>2, FlushFailsType
<1>3. CASE UNCHANGED <<forward, outUsed, stackTasks, watch, life>>
  BY <1>0, <1>3 DEF TypeOK, forward, life, Posts
<1> QED BY <1>1, <1>2, <1>3 DEF Flush

(* The batch is part of the queue, so that its next task exists.           *)
LEMMA TakeTask ==
  ASSUME TypeOK, ReactorTask
  PROVE  /\ tasks /= <<>> /\ tasks' = Tail(tasks)
         /\ tasks' \in Seq(ReactorOps)
         /\ batch' \in 0 .. Len(tasks')
BY DEF TypeOK, ReactorTask

LEMMA ReactorTaskEffect ==
  ASSUME TypeOK, ReactorTask
  PROVE  /\ wantWrite' \in BOOLEAN
         /\ fd' \in {"none", "open", "closed"}
         /\ closing' \in BOOLEAN /\ self' \in BOOLEAN
         /\ watch' \in Watches
         /\ stackTasks' \in Seq(StackOps) /\ Posts
<1>0. watch \in Watches /\ Mod({"R"}) \in Watches
  BY ModType DEF TypeOK, Watches
<1>1. CASE Flush
  BY <1>1, FlushType
<1>2. CASE CloseFromReactor /\ UNCHANGED wantWrite
  BY <1>2, CloseFromReactorType DEF TypeOK
<1>3. CASE /\ UNCHANGED <<wantWrite, stackTasks, closing>>
           /\ fd' \in {fd, "closed"} /\ self' \in {self, FALSE}
           /\ watch' \in {watch, Mod({"R"}), {}, {"F", "W"}}
  BY <1>0, <1>3 DEF TypeOK, Posts, Watches
<1> QED BY <1>1, <1>2, <1>3 DEF ReactorTask, forward, life

LEMMA ReactorTaskType == TypeOK /\ WInv' /\ ReactorTask => TypeOK'
<1> SUFFICES ASSUME TypeOK, WInv', ReactorTask PROVE TypeOK'
  OBVIOUS
<1>1. UNCHANGED <<lwip, backward, remote, inData, rpc, ready, connected,
                  stackUp, running>>
  BY DEF ReactorTask
<1> QED BY <1>1, WInvType, TakeTask, ReactorTaskEffect
           DEF TypeOK, lwip, backward, Watches

LEMMA LoopType == TypeOK /\ (Poll \/ DrainTasks) => TypeOK'
<1> SUFFICES ASSUME TypeOK, Poll \/ DrainTasks PROVE TypeOK'
  OBVIOUS
<1>1. CASE Poll
  <2>1. ready' \subseteq {"R", "W", "F"}
    BY <1>1 DEF Poll, Events, TypeOK
  <2> QED BY <1>1, <2>1
             DEF TypeOK, Poll, lwip, forward, backward, kernel, life
<1>2. CASE DrainTasks
  BY <1>2 DEF TypeOK, DrainTasks, lwip, forward, backward, kernel, life
<1> QED BY <1>1, <1>2

LEMMA HandleDialEffect ==
  ASSUME TypeOK, HandleDial
  PROVE  /\ wantWrite' \in BOOLEAN
         /\ fd' \in {"none", "open", "closed"}
         /\ closing' \in BOOLEAN /\ self' \in BOOLEAN
         /\ watch' \in Watches
         /\ stackTasks' \in Seq(StackOps) /\ Posts
<1>0. watch \in Watches /\ Mod({"R"}) \in Watches
  BY ModType DEF TypeOK, Watches
<1>1. CASE FlushForward(Mod({"R"}))
  BY <1>0, <1>1, FlushForwardType DEF TypeOK
<1>2. CASE FlushFails
  BY <1>2, FlushFailsType
<1>3. CASE CloseFromReactor /\ UNCHANGED wantWrite
  BY <1>3, CloseFromReactorType DEF TypeOK
<1>4. CASE UNCHANGED <<wantWrite, stackTasks, watch, life>>
  BY <1>0, <1>4 DEF TypeOK, life, Posts
<1> QED BY <1>1, <1>2, <1>3, <1>4 DEF HandleDial, forward

LEMMA HandleDialType == TypeOK /\ WInv' /\ HandleDial => TypeOK'
<1> SUFFICES ASSUME TypeOK, WInv', HandleDial PROVE TypeOK'
  OBVIOUS
<1>1. /\ UNCHANGED <<lwip, backward, remote, inData, rpc, batch, tasks,
                     stackUp, running>>
      /\ ready' = {} /\ connected' \in BOOLEAN
  BY DEF HandleDial, TypeOK
<1> QED BY <1>1, WInvType, HandleDialEffect
           DEF TypeOK, lwip, backward, Watches

LEMMA PauseType == TypeOK /\ (SeeHighWater \/ PauseRead) => TypeOK'
<1> SUFFICES ASSUME TypeOK, SeeHighWater \/ PauseRead PROVE TypeOK'
  OBVIOUS
<1>1. CASE SeeHighWater
  BY <1>1 DEF TypeOK, SeeHighWater, lwip, forward, backward, kernel, life
<1>2. CASE PauseRead
  <2>1. watch' \in Watches
    BY <1>2, ModType DEF PauseRead, TypeOK, Watches
  <2> QED BY <1>2, <2>1 DEF TypeOK, PauseRead, ReadDone, Watches, lwip,
                           forward, kernel, life
<1> QED BY <1>1, <1>2

LEMMA WritableType == TypeOK /\ WInv' /\ OnFdWritable => TypeOK'
<1> SUFFICES ASSUME TypeOK, WInv', OnFdWritable PROVE TypeOK'
  OBVIOUS
<1>1. /\ UNCHANGED <<lwip, backward, remote, inData, rpc, batch, connected,
                     tasks, stackUp, running>>
      /\ ready' = {} /\ Flush
  BY DEF OnFdWritable
<1> QED BY <1>1, WInvType, FlushType DEF TypeOK, lwip, backward, Watches

LEMMA RemoteType == TypeOK /\ Remote => TypeOK'
<1> SUFFICES ASSUME TypeOK, Remote PROVE TypeOK'
  OBVIOUS
<1>1. /\ remote' \in {"dialing", "open", "eof", "reset"}
      /\ inData' \in 0 .. InBuf /\ outUsed' \in 0 .. OutBuf
  <2>1. /\ remote \in {"dialing", "open", "eof", "reset"}
        /\ inData \in 0 .. InBuf /\ outUsed \in 0 .. OutBuf
    BY DEF TypeOK
  <2>2. CASE RemoteSteps
    <3>1. remote' \in {"dialing", "open", "eof", "reset"}
      BY <2>1, <2>2 DEF RemoteSteps
    <3>2. outUsed' = outUsed /\ (inData' = inData \/ inData' = inData + 1)
      BY <2>2 DEF RemoteSteps
    <3>3. inData' = inData + 1 => inData < InBuf \/ inData' = inData
      BY <2>2 DEF RemoteSteps
    <3> QED BY <2>1, <3>1, <3>2, <3>3, SessionTcpAssumption
  <2>3. CASE RemoteTakes
    BY <2>1, <2>3, SessionTcpAssumption DEF RemoteTakes
  <2> QED BY <2>2, <2>3 DEF Remote
<1> QED BY <1>1 DEF TypeOK, Remote, lwip, forward, backward, loopVars, life

-----------------------------------------------------------------------------
(* The backlog.                                                            *)

(* pumpToLwip takes n units off the buffer, the count and no other part of *)
(* the backlog, and closes only when the end was seen and the buffer is    *)
(* empty.                                                                  *)
LEMMA PumpEffect ==
  ASSUME TypeOK, NEW buf \in Nat, NEW used \in 0 .. SndBuf, NEW eof \in BOOLEAN,
         NEW queued \in Nat, backwardBytes = buf + queued,
         PumpToLwip(buf, used, eof)
  PROVE  /\ backwardBuf' \in Nat /\ sndUsed' \in 0 .. SndBuf
         /\ backwardBytes' = backwardBuf' + queued
         /\ backwardBytes' \in Nat /\ backwardBytes' <= backwardBytes
         /\ readPaused' \in BOOLEAN
         /\ tasks' \in Seq(ReactorOps) /\ batch \in 0 .. Len(tasks')
         /\ \/ pcb' = pcb
            \/ pcb' = "none" /\ eof /\ backwardBuf' = 0
<1>1. PICK n \in Pumpable(buf, used) :
        LET resumed == IF Resumes(Uncount(n)) THEN Append(tasks, "resume")
                                              ELSE tasks
            drained == eof /\ buf - n = 0
        IN  /\ backwardBuf' = buf - n
            /\ sndUsed' = used + n
            /\ backwardBytes' = Uncount(n)
            /\ readPaused' = (readPaused /\ ~Resumes(Uncount(n)))
            /\ pcb' = IF drained THEN "none" ELSE pcb
            /\ tasks' = IF drained THEN Append(resumed, "close") ELSE resumed
  BY Zenon DEF PumpToLwip
<1>2. n \in Nat /\ n <= buf /\ n <= SndBuf - used
  BY SessionTcpAssumption DEF Pumpable, Min
<1>3. /\ backwardBuf' = buf - n /\ sndUsed' = used + n
      /\ backwardBytes' = backwardBytes - n
  BY <1>1 DEF Uncount
<1>4. /\ backwardBuf' \in Nat /\ sndUsed' \in 0 .. SndBuf
      /\ backwardBytes' = backwardBuf' + queued
      /\ backwardBytes' \in Nat /\ backwardBytes' <= backwardBytes
  BY <1>2, <1>3, SessionTcpAssumption
<1>5. readPaused' \in BOOLEAN
  BY <1>1
<1>6. \/ pcb' = pcb
      \/ pcb' = "none" /\ eof /\ backwardBuf' = 0
  BY <1>1
<1>7. tasks' \in Seq(ReactorOps) /\ batch \in 0 .. Len(tasks')
  <2> DEFINE resumed == IF Resumes(Uncount(n)) THEN Append(tasks, "resume")
                                               ELSE tasks
  <2>1. resumed \in Seq(ReactorOps) /\ batch \in 0 .. Len(resumed)
    BY Post DEF TypeOK, ReactorOps
  <2>2. tasks' \in {resumed, Append(resumed, "close")}
    BY <1>1
  <2> HIDE DEF resumed
  <2>3. /\ Append(resumed, "close") \in Seq(ReactorOps)
        /\ batch \in 0 .. Len(Append(resumed, "close"))
    BY <2>1 DEF ReactorOps
  <2> QED BY <2>1, <2>2, <2>3
<1> QED BY <1>4, <1>5, <1>6, <1>7

LEMMA QueuedNat == TypeOK => QueuedUnits(stackTasks) \in Nat
BY UnitsFinite DEF TypeOK

LEMMA StillBounded ==
  ASSUME TypeOK, Backlog, backwardBytes' \in Nat,
         backwardBytes' <= backwardBytes
  PROVE  backwardBytes' < HighWater + ReadMax
<1>1. HighWater \in Nat /\ ReadMax \in Nat /\ backwardBytes \in Nat
  BY SessionTcpAssumption DEF TypeOK
<1> QED BY <1>1 DEF Backlog

(* onSent.                                                                 *)
LEMMA OnSentEffect ==
  ASSUME TypeOK, Backlog, OnSent
  PROVE  /\ TypeOK' /\ Backlog'
         /\ pcb' = "none" => fdEof /\ backwardBytes' = QueuedUnits(stackTasks)
<1>1. PICK k \in 1 .. sndUsed : PumpToLwip(backwardBuf, sndUsed - k, fdEof)
  BY DEF OnSent
<1>2. /\ pcb = "open"
      /\ UNCHANGED <<rcvWnd, forward, fdEof, kernel, loopVars, life, connected,
                     watch, stackTasks, stackUp, running>>
  BY DEF OnSent
<1>3. /\ sndUsed - k \in 0 .. SndBuf /\ backwardBuf \in Nat
      /\ fdEof \in BOOLEAN
  BY SessionTcpAssumption, SMTT(30) DEF TypeOK
<1>4. /\ QueuedUnits(stackTasks) \in Nat
      /\ backwardBytes = backwardBuf + QueuedUnits(stackTasks)
  BY <1>2, QueuedNat DEF Backlog
<1>5. /\ backwardBuf' \in Nat /\ sndUsed' \in 0 .. SndBuf
      /\ backwardBytes' = backwardBuf' + QueuedUnits(stackTasks)
      /\ backwardBytes' \in Nat /\ backwardBytes' <= backwardBytes
      /\ readPaused' \in BOOLEAN
      /\ tasks' \in Seq(ReactorOps) /\ batch \in 0 .. Len(tasks')
      /\ \/ pcb' = pcb
         \/ pcb' = "none" /\ fdEof /\ backwardBuf' = 0
  BY <1>1, <1>3, <1>4, PumpEffect
<1>6. TypeOK'
  <2>1. {connected', wantWrite', readPaused', fdEof', closing', self', stackUp',
         running'} \subseteq BOOLEAN
    BY <1>2, <1>5 DEF TypeOK, forward, life
  <2>2. pcb' \in {"new", "open", "none"}
    BY <1>5 DEF TypeOK
  <2> QED BY <1>2, <1>5, <2>1, <2>2
             DEF TypeOK, forward, kernel, loopVars, life
<1>7. QueuedUnits(stackTasks') = QueuedUnits(stackTasks)
  BY <1>2
<1>8. Backlog'
  BY <1>5, <1>7, StillBounded DEF Backlog
<1> QED BY <1>2, <1>4, <1>5, <1>6, <1>8

(* A task of the NetStack thread: "taken" is what the queue loses.         *)
LEMMA TakeStackTask ==
  ASSUME TypeOK, StackTask
  PROVE  /\ stackTasks /= <<>> /\ stackTasks' = Tail(stackTasks)
         /\ stackTasks' \in Seq(StackOps)
         /\ QueuedUnits(stackTasks') \in Nat
         /\ Head(stackTasks).units \in Nat
         /\ QueuedUnits(stackTasks)
              = QueuedUnits(stackTasks') + Head(stackTasks).units
         /\ Head(stackTasks).op /= "write" => Head(stackTasks).units = 0
<1>1. stackTasks /= <<>> /\ stackTasks' = Tail(stackTasks)
  BY DEF StackTask
<1>2. stackTasks \in Seq(StackOps) /\ stackTasks' \in Seq(StackOps)
  BY <1>1 DEF TypeOK
<1>3. QueuedUnits(stackTasks') \in Nat
  BY <1>2, UnitsFinite
<1>4. QueuedUnits(stackTasks)
        = QueuedUnits(stackTasks') + Head(stackTasks).units
  BY <1>1, <1>2, UnitsTail
<1>5. Head(stackTasks) \in StackOps
  BY <1>1, <1>2
<1>6. /\ Head(stackTasks).units \in Nat
      /\ Head(stackTasks).op /= "write" => Head(stackTasks).units = 0
  BY <1>5, TaskTypes, SessionTcpAssumption
<1> QED BY <1>1, <1>2, <1>3, <1>4, <1>6

LEMMA StackTaskEffect ==
  ASSUME TypeOK, Backlog, WInv', StackTask
  PROVE  /\ TypeOK' /\ Backlog'
         /\ pcb = "open" /\ pcb' = "none" /\ Head(stackTasks).op /= "close"
              => backwardBytes' = QueuedUnits(stackTasks')
                 /\ (fdEof \/ Head(stackTasks).op = "eof")
<1> DEFINE op == Head(stackTasks).op
           n == Head(stackTasks).units
<1>0. UNCHANGED <<kernel, loopVars, life, connected, watch, stackUp, running>>
  BY DEF StackTask
<1>1. CASE pcb = "none" /\ StackTaskLate(op)
  <2>1. UNCHANGED <<lwip, forward, backwardBuf, backwardBytes, readPaused>>
    BY <1>1 DEF StackTaskLate
  <2>2. fdEof' \in BOOLEAN
    BY <1>1 DEF StackTaskLate, TypeOK
  <2>3. tasks' \in Seq(ReactorOps) /\ batch' \in 0 .. Len(tasks')
    BY <1>0, <1>1, Post DEF StackTaskLate, TypeOK, ReactorOps, loopVars
  <2>4. TypeOK'
    <3>1. {connected', wantWrite', readPaused', fdEof', closing', self',
           stackUp', running'} \subseteq BOOLEAN
      BY <1>0, <2>1, <2>2 DEF TypeOK, forward, life
    <3>2. stackTasks' \in Seq(StackOps)
      BY TakeStackTask
    <3> QED BY <1>0, <2>1, <2>3, <3>1, <3>2
               DEF TypeOK, lwip, forward, kernel, loopVars, life
  <2> QED BY <1>1, <2>1, <2>4 DEF Backlog, lwip
<1>2. CASE pcb = "open" /\ op = "write" /\ WriteToLwip(n)
  <2>1. /\ PumpToLwip(backwardBuf + n, sndUsed, fdEof)
        /\ UNCHANGED <<rcvWnd, forward, fdEof>>
    BY <1>2 DEF WriteToLwip
  <2>2. /\ backwardBuf + n \in Nat /\ sndUsed \in 0 .. SndBuf
        /\ fdEof \in BOOLEAN /\ QueuedUnits(stackTasks') \in Nat
        /\ backwardBytes = (backwardBuf + n) + QueuedUnits(stackTasks')
    <3>1. /\ QueuedUnits(stackTasks') \in Nat /\ n \in Nat
          /\ QueuedUnits(stackTasks) = QueuedUnits(stackTasks') + n
      BY TakeStackTask
    <3>2. /\ backwardBuf \in Nat /\ sndUsed \in 0 .. SndBuf
          /\ backwardBytes = backwardBuf + QueuedUnits(stackTasks)
      BY <1>2 DEF TypeOK, Backlog
    <3>3. fdEof \in BOOLEAN
      BY DEF TypeOK
    <3> HIDE DEF n
    <3> QED BY <3>1, <3>2, <3>3
  <2>3. /\ backwardBuf' \in Nat /\ sndUsed' \in 0 .. SndBuf
        /\ backwardBytes' = backwardBuf' + QueuedUnits(stackTasks')
        /\ backwardBytes' \in Nat /\ backwardBytes' <= backwardBytes
        /\ readPaused' \in BOOLEAN
        /\ tasks' \in Seq(ReactorOps) /\ batch \in 0 .. Len(tasks')
        /\ \/ pcb' = pcb
           \/ pcb' = "none" /\ fdEof /\ backwardBuf' = 0
    BY <2>1, <2>2, PumpEffect
  <2>4. TypeOK'
    <3>1. {connected', wantWrite', readPaused', fdEof', closing', self',
           stackUp', running'} \subseteq BOOLEAN
      BY <1>0, <2>1, <2>3 DEF TypeOK, forward, life
    <3>2. pcb' \in {"new", "open", "none"}
      BY <2>3 DEF TypeOK
    <3>3. stackTasks' \in Seq(StackOps)
      BY TakeStackTask
    <3> QED BY <1>0, <2>1, <2>3, <3>1, <3>2, <3>3
               DEF TypeOK, forward, kernel, loopVars, life
  <2>5. Backlog'
    BY <2>3, StillBounded DEF Backlog
  <2> QED BY <1>2, <2>2, <2>3, <2>4, <2>5
<1>3. CASE pcb = "open" /\ op = "eof" /\ OnFdEofFromStack
  <2>1. /\ PumpToLwip(backwardBuf, sndUsed, TRUE)
        /\ UNCHANGED <<rcvWnd, forward>> /\ fdEof' \in BOOLEAN
    BY <1>3 DEF OnFdEofFromStack
  <2>2. /\ backwardBuf \in Nat /\ sndUsed \in 0 .. SndBuf
        /\ QueuedUnits(stackTasks') \in Nat
        /\ backwardBytes = backwardBuf + QueuedUnits(stackTasks')
    <3>1. Head(stackTasks).op /= "write"
      BY <1>3
    <3>2. /\ Head(stackTasks).units = 0
          /\ QueuedUnits(stackTasks') \in Nat
          /\ QueuedUnits(stackTasks)
               = QueuedUnits(stackTasks') + Head(stackTasks).units
      BY <3>1, TakeStackTask
    <3>3. QueuedUnits(stackTasks) = QueuedUnits(stackTasks')
      BY <3>2
    <3> QED BY <1>3, <3>2, <3>3 DEF TypeOK, Backlog
  <2>3. /\ backwardBuf' \in Nat /\ sndUsed' \in 0 .. SndBuf
        /\ backwardBytes' = backwardBuf' + QueuedUnits(stackTasks')
        /\ backwardBytes' \in Nat /\ backwardBytes' <= backwardBytes
        /\ readPaused' \in BOOLEAN
        /\ tasks' \in Seq(ReactorOps) /\ batch \in 0 .. Len(tasks')
        /\ \/ pcb' = pcb
           \/ pcb' = "none" /\ backwardBuf' = 0
    BY <2>1, <2>2, PumpEffect
  <2>4. TypeOK'
    <3>1. {connected', wantWrite', readPaused', fdEof', closing', self',
           stackUp', running'} \subseteq BOOLEAN
      BY <1>0, <2>1, <2>3 DEF TypeOK, forward, life
    <3>2. pcb' \in {"new", "open", "none"}
      BY <2>3 DEF TypeOK
    <3>3. stackTasks' \in Seq(StackOps)
      BY TakeStackTask
    <3> QED BY <1>0, <2>1, <2>3, <3>1, <3>2, <3>3
               DEF TypeOK, forward, kernel, loopVars, life
  <2>5. Backlog'
    BY <2>3, StillBounded DEF Backlog
  <2> QED BY <1>3, <2>2, <2>3, <2>4, <2>5
<1>4. CASE pcb = "open" /\ op = "ack" /\ AckRecvedToLwip
  <2>1. /\ UNCHANGED <<pcb, sndUsed, wantWrite, backward, tasks>>
    BY <1>4 DEF AckRecvedToLwip
  <2>2. TypeOK'
    <3>1. {connected', wantWrite', readPaused', fdEof', closing', self',
           stackUp', running'} \subseteq BOOLEAN
      BY <1>0, <2>1 DEF TypeOK, backward, life
    <3>2. stackTasks' \in Seq(StackOps)
      BY TakeStackTask
    <3> QED BY <1>0, <2>1, <3>1, <3>2, WInvType
               DEF TypeOK, backward, kernel, loopVars, life
  <2>3. QueuedUnits(stackTasks') = QueuedUnits(stackTasks)
    BY <1>4, TakeStackTask
  <2> QED BY <1>4, <2>1, <2>2, <2>3 DEF Backlog, backward
<1>5. CASE /\ pcb = "open" /\ op = "close" /\ CloseFromStack
           /\ UNCHANGED <<rcvWnd, sndUsed, forward, backward>>
  <2>1. tasks' \in Seq(ReactorOps) /\ batch' \in 0 .. Len(tasks')
    BY <1>0, <1>5, Post DEF CloseFromStack, TypeOK, ReactorOps, loopVars
  <2>2. TypeOK'
    BY <1>0, <1>5, <2>1, TakeStackTask
       DEF TypeOK, CloseFromStack, forward, backward, kernel, loopVars, life
  <2> QED BY <1>5, <2>2 DEF Backlog, CloseFromStack, backward
<1> QED BY <1>1, <1>2, <1>3, <1>4, <1>5 DEF StackTask, StackTaskLate

(* Steps that read nothing and run no task of the NetStack thread leave    *)
(* the backlog as it is.                                                   *)
LEMMA BacklogFrame ==
  ASSUME TypeOK, Backlog, Posts, UNCHANGED <<backwardBuf, backwardBytes>>,
         pcb' /= "none" => pcb /= "none"
  PROVE  Backlog'
<1>1. QueuedUnits(stackTasks') = QueuedUnits(stackTasks)
  <2>1. CASE UNCHANGED stackTasks
    BY <2>1
  <2>2. CASE \E op \in {"ack", "close"} :
               stackTasks' = Append(stackTasks, Task(op))
    <3>1. PICK op \in {"ack", "close"} :
            stackTasks' = Append(stackTasks, Task(op))
      BY <2>2
    <3>2. /\ Task(op) \in StackOps /\ Task(op).units = 0
          /\ stackTasks \in Seq(StackOps)
      BY TaskTypes DEF TypeOK
    <3>3. QueuedUnits(stackTasks') = QueuedUnits(stackTasks) + 0
      BY <3>1, <3>2, UnitsAppend
    <3> QED BY <3>3, QueuedNat
  <2> QED BY <2>1, <2>2 DEF Posts
<1> QED BY <1>1 DEF Backlog

(* onFdReadable.                                                           *)
LEMMA ReadableEffect ==
  ASSUME TypeOK, Backlog, OnFdReadable
  PROVE  TypeOK' /\ Backlog'
<1>0. /\ UNCHANGED <<lwip, forward, backwardBuf, readPaused, fdEof, remote,
                     outUsed, rpc, batch, connected, tasks, stackUp, running>>
      /\ backwardBytes < HighWater
  BY SessionTcpAssumption, SMTT(30) DEF OnFdReadable, ReadPauses, TypeOK
<1>1. CASE ReadData
  <2>1. PICK n \in 1 .. Min(inData, ReadMax) :
          /\ inData' = inData - n
          /\ backwardBytes' = backwardBytes + n
          /\ stackTasks' = Append(stackTasks, WriteTask(n))
    BY <1>1 DEF ReadData
  <2>2. n \in Nat /\ n <= inData /\ n \in 1 .. ReadMax
    BY SessionTcpAssumption DEF Min, TypeOK
  <2>3. /\ stackTasks' \in Seq(StackOps)
        /\ QueuedUnits(stackTasks') = QueuedUnits(stackTasks) + n
    <3>1. stackTasks \in Seq(StackOps)
      BY DEF TypeOK
    <3>2. WriteTask(n) \in StackOps /\ WriteTask(n).units = n
      BY <2>2, TaskTypes
    <3>3. Append(stackTasks, WriteTask(n)) \in Seq(StackOps)
      BY <3>1, <3>2
    <3>4. QueuedUnits(Append(stackTasks, WriteTask(n)))
            = QueuedUnits(stackTasks) + n
      BY <3>1, <3>2, UnitsAppend
    <3> QED BY <2>1, <3>3, <3>4
  <2>4. inData' \in 0 .. InBuf /\ backwardBytes' \in Nat
    <3>1. inData \in 0 .. InBuf /\ backwardBytes \in Nat /\ InBuf \in Nat
      BY SessionTcpAssumption DEF TypeOK
    <3> QED BY <2>1, <2>2, <3>1
  <2>5. TypeOK'
    BY <1>0, <1>1, <2>3, <2>4 DEF TypeOK, ReadData, lwip, forward, life
  <2>6. /\ {backwardBytes, backwardBuf, HighWater, ReadMax} \subseteq Nat
        /\ UNCHANGED <<pcb, backwardBuf>>
    BY <1>0, SessionTcpAssumption DEF TypeOK, lwip
  <2>7. backwardBytes' < HighWater + ReadMax
    BY <1>0, <2>1, <2>2, <2>6
  <2> QED BY <2>1, <2>2, <2>3, <2>5, <2>6, <2>7, QueuedNat DEF Backlog
<1>2. CASE ReadEof
  <2>1. /\ stackTasks' \in Seq(StackOps)
        /\ QueuedUnits(stackTasks') = QueuedUnits(stackTasks) + 0
    BY <1>2, UnitsAppend, TaskTypes DEF ReadEof, TypeOK
  <2>2. TypeOK'
    BY <1>0, <1>2, <2>1 DEF TypeOK, ReadEof, ReadDone, lwip, forward, life
  <2> QED BY <1>0, <1>2, <2>1, <2>2, QueuedNat DEF Backlog, ReadEof, lwip
<1>3. CASE ReadNothing \/ ReadClosed
  <2>1. /\ UNCHANGED <<inData, backwardBytes, stackTasks, watch, life>>
        /\ ReadDone
    BY <1>3 DEF ReadNothing, ReadClosed
  <2>2. TypeOK'
    BY <1>0, <2>1 DEF TypeOK, ReadDone, lwip, forward, life
  <2> QED BY <1>0, <2>1, <2>2, BacklogFrame DEF Posts, lwip
<1>4. CASE ReadError
  <2>1. CloseFromReactor /\ ReadDone /\ UNCHANGED <<inData, backwardBytes>>
    BY <1>4 DEF ReadError
  <2>2. TypeOK'
    BY <1>0, <2>1, CloseFromReactorType
       DEF TypeOK, ReadDone, lwip, forward, Watches
  <2> QED BY <1>0, <2>1, <2>2, CloseFromReactorType, BacklogFrame DEF lwip
<1> QED BY <1>1, <1>2, <1>3, <1>4 DEF OnFdReadable

-----------------------------------------------------------------------------
(* The beginning and the end of a session.                                 *)

LEMMA FreshStep == TypeOK /\ Fresh /\ [Next]_vars => Fresh'
<1> SUFFICES ASSUME TypeOK, Fresh, [Next]_vars, pcb' = "new" PROVE Fresh'
  BY DEF Fresh
<1>1. pcb = "new"
  <2>1. CASE Next
    <3>1. CASE \/ Accept \/ AcceptFails \/ OnRecv \/ OnRecvFin \/ OnErr
               \/ OnSent \/ StackTask \/ Teardown
      BY <3>1 DEF Accept, AcceptFails, OnRecv, OnRecvFin, OnErr, OnSent,
                  StackTask, StackTaskLate, Teardown, ShutdownFromStack,
                  CloseFromStack, WriteToLwip, OnFdEofFromStack, PumpToLwip,
                  AckRecvedToLwip, lwip
    <3>2. CASE StopReactor \/ ReactorStep \/ Remote
      BY <3>2 DEF StopReactor, ReactorStep, ReactorTask, Poll, DrainTasks,
                  HandleDial, SeeHighWater, PauseRead, OnFdReadable,
                  OnFdWritable, Remote, lwip
    <3> QED BY <2>1, <3>1, <3>2 DEF Next, StackStep
  <2>2. CASE UNCHANGED vars
    BY <2>2 DEF vars, lwip
  <2> QED BY <2>1, <2>2
<1>2. /\ tasks = <<>> /\ stackTasks = <<>> /\ batch = 0
      /\ watch = {} /\ ready = {}
      /\ backwardBuf = 0 /\ backwardBytes = 0
  BY <1>1 DEF Fresh, TypeOK
<1>3. CASE UNCHANGED vars
  BY <1>3, <1>2 DEF Fresh, vars, lwip, backward, loopVars
<1>4. CASE Poll \/ DrainTasks \/ PauseRead \/ StopReactor \/ Remote
  BY <1>4, <1>2 DEF Fresh, Poll, Events, DrainTasks, PauseRead, ReadDone, Mod,
                    StopReactor, Remote, backward, loopVars
<1>5. CASE ReactorTask \/ HandleDial \/ SeeHighWater \/ OnFdReadable
           \/ OnFdWritable
  BY <1>5, <1>2 DEF ReactorTask, HandleDial, SeeHighWater, OnFdReadable,
                    Reading, OnFdWritable
<1>6. CASE StackTask \/ OnSent \/ OnRecv \/ OnRecvFin \/ OnErr \/ Teardown
           \/ Accept \/ AcceptFails
  BY <1>6, <1>1 DEF StackTask, StackTaskLate, OnSent, OnRecv, OnRecvFin, OnErr,
                    Teardown, Accept, AcceptFails
<1> QED BY <1>3, <1>4, <1>5, <1>6 DEF Next, StackStep, ReactorStep

(* Steps that post nothing but acknowledgements and closes.                *)
LEMMA EofFrame ==
  ASSUME TypeOK, EofLast, Posts, UNCHANGED fdEof,
         \/ UNCHANGED <<inData, remote>>
         \/ remote \in {"eof", "reset"}
              => inData' = inData /\ remote' \in {"eof", "reset"}
  PROVE  EofLast'
<1>1. CASE UNCHANGED stackTasks
  BY <1>1 DEF EofLast, EofSeen
<1>2. CASE \E op \in {"ack", "close"} :
             stackTasks' = Append(stackTasks, Task(op))
  <2>1. PICK op \in {"ack", "close"} :
          stackTasks' = Append(stackTasks, Task(op))
    BY <1>2
  <2>2. /\ Len(stackTasks) \in Nat /\ Len(stackTasks') = Len(stackTasks) + 1
        /\ \A i \in 1 .. Len(stackTasks) : stackTasks'[i] = stackTasks[i]
        /\ stackTasks'[Len(stackTasks) + 1].op /= "eof"
        /\ stackTasks'[Len(stackTasks) + 1].units = 0
    BY <2>1, TaskTypes DEF TypeOK
  <2>3. EofSeen' => EofSeen
    BY <2>2 DEF EofSeen
  <2>4. fdEof' => \A i \in 1 .. Len(stackTasks') : stackTasks'[i].units = 0
    BY <2>2 DEF EofLast
  <2>5. \A i, j \in 1 .. Len(stackTasks') :
          i < j /\ stackTasks'[i].op = "eof" => stackTasks'[j].units = 0
    BY <2>2 DEF EofLast
  <2> QED BY <2>3, <2>4, <2>5 DEF EofLast
<1> QED BY <1>1, <1>2 DEF Posts

(* A task taken from the front leaves the order behind it, and the end of  *)
(* file is announced with nothing behind it.                               *)
LEMMA StackTaskEof ==
  ASSUME TypeOK, EofLast, StackTask
  PROVE  EofLast'
<1>1. /\ stackTasks' = Tail(stackTasks)
      /\ Len(stackTasks) \in Nat \ {0}
      /\ Len(stackTasks') = Len(stackTasks) - 1
      /\ \A i \in 1 .. (Len(stackTasks) - 1) :
           stackTasks'[i] = stackTasks[i + 1]
      /\ Head(stackTasks) = stackTasks[1]
  BY DEF StackTask, TypeOK
<1>2. fdEof' => fdEof \/ stackTasks[1].op = "eof"
  BY <1>1 DEF StackTask, StackTaskLate, WriteToLwip, OnFdEofFromStack,
              AckRecvedToLwip, backward
<1>3. UNCHANGED <<inData, remote>>
  BY DEF StackTask, kernel
<1>4. EofSeen' => EofSeen
  BY <1>1, <1>2 DEF EofSeen
<1>5. \A i, j \in 1 .. Len(stackTasks') :
        i < j /\ stackTasks'[i].op = "eof" => stackTasks'[j].units = 0
  <2> SUFFICES ASSUME NEW i \in 1 .. Len(stackTasks'),
                      NEW j \in 1 .. Len(stackTasks'),
                      i < j, stackTasks'[i].op = "eof"
               PROVE  stackTasks'[j].units = 0
    OBVIOUS
  <2>1. /\ i + 1 \in 1 .. Len(stackTasks) /\ j + 1 \in 1 .. Len(stackTasks)
        /\ i + 1 < j + 1 /\ stackTasks[i + 1].op = "eof"
        /\ stackTasks'[j] = stackTasks[j + 1]
    BY <1>1
  <2> QED BY <2>1 DEF EofLast
<1>6. fdEof' => \A i \in 1 .. Len(stackTasks') : stackTasks'[i].units = 0
  <2> SUFFICES ASSUME fdEof', NEW i \in 1 .. Len(stackTasks')
               PROVE  stackTasks'[i].units = 0
    OBVIOUS
  <2>1. /\ 1 \in 1 .. Len(stackTasks) /\ i + 1 \in 1 .. Len(stackTasks)
        /\ 1 < i + 1 /\ stackTasks'[i] = stackTasks[i + 1]
    BY <1>1
  <2>2. CASE fdEof
    BY <2>1, <2>2 DEF EofLast
  <2>3. CASE stackTasks[1].op = "eof"
    BY <2>1, <2>3 DEF EofLast
  <2> QED BY <1>2, <2>2, <2>3
<1> QED BY <1>3, <1>4, <1>5, <1>6 DEF EofLast

(* What is read is queued behind the units before it, and nothing can be   *)
(* read behind the end.                                                    *)
LEMMA ReadableEof ==
  ASSUME TypeOK, EofLast, OnFdReadable
  PROVE  EofLast'
<1>0. UNCHANGED <<fdEof, remote>>
  BY DEF OnFdReadable
<1>1. CASE ReadData
  <2>1. ~EofSeen
    BY <1>1 DEF ReadData, EofLast, TypeOK
  <2>2. PICK n \in 1 .. Min(inData, ReadMax) :
          stackTasks' = Append(stackTasks, WriteTask(n))
    BY <1>1 DEF ReadData
  <2>3. n \in 1 .. ReadMax
    BY SessionTcpAssumption DEF Min, TypeOK
  <2>4. /\ Len(stackTasks) \in Nat /\ Len(stackTasks') = Len(stackTasks) + 1
        /\ \A i \in 1 .. Len(stackTasks) : stackTasks'[i] = stackTasks[i]
        /\ stackTasks'[Len(stackTasks) + 1].op = "write"
    BY <2>2, <2>3, TaskTypes DEF TypeOK
  <2>5. ~fdEof' /\ \A i \in 1 .. Len(stackTasks') : stackTasks'[i].op /= "eof"
    BY <1>0, <2>1, <2>4 DEF EofSeen
  <2> QED BY <2>5 DEF EofLast, EofSeen
<1>2. CASE ReadEof
  <2>1. inData' = 0 /\ remote' = "eof"
    BY <1>0, <1>2 DEF ReadEof
  <2>2. /\ Len(stackTasks) \in Nat /\ Len(stackTasks') = Len(stackTasks) + 1
        /\ \A i \in 1 .. Len(stackTasks) : stackTasks'[i] = stackTasks[i]
        /\ stackTasks'[Len(stackTasks) + 1].units = 0
    BY <1>2, TaskTypes DEF ReadEof, TypeOK
  <2>3. fdEof' => \A i \in 1 .. Len(stackTasks') : stackTasks'[i].units = 0
    BY <1>0, <2>2 DEF EofLast
  <2>4. \A i, j \in 1 .. Len(stackTasks') :
          i < j /\ stackTasks'[i].op = "eof" => stackTasks'[j].units = 0
    BY <2>2 DEF EofLast
  <2> QED BY <1>0, <2>1, <2>3, <2>4 DEF EofLast
<1>3. CASE ReadNothing \/ ReadClosed
  BY <1>0, <1>3, EofFrame DEF ReadNothing, ReadClosed, Posts
<1>4. CASE ReadError
  BY <1>0, <1>4, EofFrame, CloseFromReactorType DEF ReadError
<1> QED BY <1>1, <1>2, <1>3, <1>4 DEF OnFdReadable

-----------------------------------------------------------------------------
(* The inductive step.                                                     *)

(* The other steps of the two threads.                                     *)
LEMMA QuietSteps ==
  ASSUME TypeOK,
         \/ Accept \/ AcceptFails \/ OnRecv \/ OnRecvFin \/ OnErr
         \/ Teardown \/ StopReactor \/ ReactorTask \/ Poll \/ DrainTasks
         \/ HandleDial \/ SeeHighWater \/ PauseRead \/ OnFdWritable \/ Remote
         \/ UNCHANGED vars
  PROVE  /\ Posts /\ UNCHANGED <<fdEof, backwardBuf, backwardBytes>>
         /\ pcb' /= "none" => pcb /= "none"
         /\ \/ UNCHANGED <<inData, remote>>
            \/ remote \in {"eof", "reset"}
                 => inData' = inData /\ remote' \in {"eof", "reset"}
<1>1. CASE \/ Accept \/ AcceptFails \/ OnRecv \/ OnRecvFin \/ OnErr
           \/ Teardown
  BY <1>1 DEF Accept, AcceptFails, OnRecv, OnRecvFin, OnErr, Teardown,
              CloseFromStack, ShutdownFromStack, Posts, backward, kernel
<1>2. CASE StopReactor \/ Poll \/ DrainTasks \/ SeeHighWater \/ PauseRead
           \/ UNCHANGED vars
  BY <1>2 DEF StopReactor, Poll, DrainTasks, SeeHighWater, PauseRead, vars,
              Posts, lwip, backward, kernel
<1>3. CASE ReactorTask
  BY <1>3, ReactorTaskEffect DEF ReactorTask, lwip, backward
<1>4. CASE HandleDial
  BY <1>4, HandleDialEffect DEF HandleDial, lwip, backward
<1>5. CASE OnFdWritable
  BY <1>5, FlushType DEF OnFdWritable, lwip, backward
<1>6. CASE Remote
  BY <1>6 DEF Remote, RemoteSteps, RemoteTakes, Posts, lwip, backward
<1> QED BY <1>1, <1>2, <1>3, <1>4, <1>5, <1>6

LEMMA NextIInv == IInv /\ [Next]_vars => IInv'
<1> SUFFICES ASSUME IInv, [Next]_vars PROVE IInv'
  OBVIOUS
<1>0. TypeOK /\ WInv /\ Fresh /\ Backlog /\ EofLast
  BY DEF IInv
<1>1. WInv' /\ Fresh'
  BY <1>0, NextWInv, FreshStep
<1>2. CASE OnSent
  <2>1. TypeOK' /\ Backlog'
    BY <1>0, <1>2, OnSentEffect
  <2>2. EofLast'
    BY <1>0, <1>2, EofFrame DEF OnSent, Posts, kernel
  <2> QED BY <1>1, <2>1, <2>2 DEF IInv
<1>3. CASE StackTask
  BY <1>0, <1>1, <1>3, StackTaskEffect, StackTaskEof DEF IInv
<1>4. CASE OnFdReadable
  BY <1>0, <1>1, <1>4, ReadableEffect, ReadableEof DEF IInv
<1>5. CASE \/ Accept \/ AcceptFails \/ OnRecv \/ OnRecvFin \/ OnErr
           \/ Teardown \/ StopReactor \/ ReactorTask \/ Poll \/ DrainTasks
           \/ HandleDial \/ SeeHighWater \/ PauseRead \/ OnFdWritable \/ Remote
           \/ UNCHANGED vars
  <2>1. TypeOK'
    <3>1. CASE UNCHANGED vars
      BY <1>0, <3>1 DEF TypeOK, vars, lwip, forward, backward, kernel, loopVars,
                        life
    <3> QED BY <1>0, <1>1, <1>5, <3>1, AcceptType, SourceType, StopType,
               ReactorTaskType, LoopType, HandleDialType, PauseType,
               WritableType, RemoteType
  <2>2. Backlog' /\ EofLast'
    BY <1>0, <1>5, QuietSteps, BacklogFrame, EofFrame
  <2> QED BY <1>1, <2>1, <2>2 DEF IInv
<1> QED BY <1>2, <1>3, <1>4, <1>5 DEF Next, StackStep, ReactorStep

(* Every count stays in its range, however the two threads interleave: in  *)
(* particular pumpToLwip never takes more off backwardBytes than is there  *)
(* (an unsigned counter in the code), and drainTasks never takes a task    *)
(* that is not queued.                                                     *)
THEOREM TypeCorrect == Spec => []TypeOK
<1>1. IInv => TypeOK
  BY DEF IInv
<1> QED BY InitIInv, NextIInv, <1>1, PTL DEF Spec

(* The count that onFdReadable and pumpToLwip share is the real backlog    *)
(* and passes HIGH_WATER by less than one read, for every HIGH_WATER,      *)
(* every size of the reads and however reads, writes and acknowledgements  *)
(* interleave.                                                             *)
THEOREM BacklogAlwaysBounded == Spec => []BacklogBounded
<1>1. IInv => BacklogBounded
  BY DEF IInv, Backlog, BacklogBounded, BacklogCounted
<1> QED BY InitIInv, NextIInv, <1>1, PTL DEF Spec

LEMMA NoUnitsLeft ==
  ASSUME NEW q \in Seq(StackOps), \A i \in 1 .. Len(q) : q[i].units = 0
  PROVE  QueuedUnits(q) = 0
<1>1. Units(q) = {}
  BY SessionTcpAssumption DEF Units
<1> QED BY <1>1, FS_EmptySet DEF QueuedUnits

(* When pumpToLwip closes the source's side because the destination has    *)
(* ended, every unit that was read from the destination has been given to  *)
(* lwIP: nothing is left in the buffer, and nothing in the queue.          *)
THEOREM TailAlwaysDelivered == Spec => TailDelivered
<1> DEFINE ClosedAtEnd ==
      /\ pcb = "open" /\ pcb' = "none"
      /\ OnSent \/ (StackTask /\ Head(stackTasks).op /= "close")
<1>1. ASSUME IInv, IInv', ClosedAtEnd PROVE backwardBytes' = 0
  <2>0. /\ TypeOK /\ Backlog /\ EofLast /\ WInv' /\ EofLast'
        /\ stackTasks' \in Seq(StackOps)
    BY <1>1 DEF IInv, TypeOK
  <2>1. CASE OnSent
    <3>1. fdEof /\ backwardBytes' = QueuedUnits(stackTasks)
      BY <1>1, <2>0, <2>1, OnSentEffect
    <3>2. /\ stackTasks \in Seq(StackOps)
          /\ \A i \in 1 .. Len(stackTasks) : stackTasks[i].units = 0
      BY <2>0, <3>1 DEF EofLast, TypeOK
    <3> QED BY <3>1, <3>2, NoUnitsLeft
  <2>2. CASE StackTask /\ Head(stackTasks).op /= "close"
    <3>1. /\ backwardBytes' = QueuedUnits(stackTasks')
          /\ fdEof \/ Head(stackTasks).op = "eof"
      BY <1>1, <2>0, <2>2, StackTaskEffect
    <3>2. CASE Head(stackTasks).op = "eof"
      <4>1. fdEof'
        BY <1>1, <2>2, <3>2 DEF StackTask, StackTaskLate, OnFdEofFromStack
      <4> QED BY <2>0, <3>1, <4>1, NoUnitsLeft DEF EofLast
    <3>3. CASE fdEof /\ Head(stackTasks).op /= "eof"
      <4>1. UNCHANGED fdEof
        BY <1>1, <2>2, <3>3 DEF StackTask, StackTaskLate, WriteToLwip,
                                AckRecvedToLwip, backward
      <4> QED BY <2>0, <3>1, <3>3, <4>1, NoUnitsLeft DEF EofLast
    <3> QED BY <3>1, <3>2, <3>3
  <2> QED BY <1>1, <2>1, <2>2
<1>2. IInv /\ IInv' /\ [Next]_vars
        => [ClosedAtEnd => backwardBytes' = 0]_vars
  BY <1>1
<1> QED BY InitIInv, NextIInv, <1>2, PTL DEF Spec, TailDelivered
=============================================================================
