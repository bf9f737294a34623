----------------------------- MODULE SessionTcp -----------------------------
(***************************************************************************)
(* One TCP connection of the user-space network stack (candy/src/netstack/ *)
(* session_tcp.cc) between two threads: the NetStack thread, which owns    *)
(* the lwIP connection of the source (pcb) and runs stackTasks, and the    *)
(* Reactor thread (reactor.cc), which polls the kernel socket (fd) to the  *)
(* destination and runs its own tasks.  Bytes flow forward (source, lwIP,  *)
(* forwardBuf, fd) and backward (fd, backwardBuf, lwIP, source), each with *)
(* back-pressure.                                                          *)
(*                                                                         *)
(* Data are counted in units, and a read returns up to ReadMax of them.    *)
(* Steps of a thread between which the other one can see a difference are  *)
(* separate actions.                                                       *)
(***************************************************************************)
EXTENDS Naturals, Sequences, FiniteSets

CONSTANTS
  Wnd,         \* TCP_WND: receive window of the lwIP connection
  SndBuf,      \* TCP_SND_BUF: its send buffer
  HighWater, LowWater,
  ReadMax,     \* the most that one read of the fd returns (65536 bytes)
  OutBuf,      \* send buffer of the kernel socket
  InBuf,       \* receive buffer of the kernel socket
  MemPressure, \* may tcp_write report ERR_MEM
  MaxTasks     \* bound: the source sends only while fewer tasks are queued

ASSUME SessionTcpAssumption ==
  /\ {Wnd, SndBuf, HighWater, LowWater, OutBuf, InBuf, MaxTasks} \subseteq Nat
  /\ ReadMax \in Nat /\ ReadMax > 0
  /\ LowWater < HighWater
  /\ MemPressure \in BOOLEAN

VARIABLES
  (* NetStack thread *)
  pcb,           \* "new", "open" or "none"; in NetStack::sessions when open
  rcvWnd,        \* what the source may still send
  sndUsed,       \* bytes in the lwIP send buffer
  backwardBuf, fdEof,
  stackTasks,    \* NetStack::stackTasks
  stackUp,       \* NetStack::loop goes on
  (* Reactor thread *)
  connected, wantWrite,
  watch,         \* the IoWatcher: {} if none, else "F" (errors are always
                 \* reported) and the interest, "R" and "W"
  rpc,           \* poll/handle/pausing/drain: where Reactor::loop is
  ready,         \* events still to be handled
  tasks,         \* Reactor::tasks
  batch,         \* how many of them the current drainTasks has taken
  (* both *)
  fd,            \* "none", "open" or "closed"
  forwardBuf, pendingRecved, backwardBytes, readPaused, closing,
  self,          \* the session keeps itself alive
  running,       \* Reactor::running
  (* the destination and the kernel socket *)
  remote,        \* "dialing", "open", "eof" or "reset"
  inData, outUsed

lwip == <<pcb, rcvWnd, sndUsed>>
forward == <<forwardBuf, pendingRecved, wantWrite>>
backward == <<backwardBuf, backwardBytes, readPaused, fdEof>>
kernel == <<remote, inData, outUsed>>
loopVars == <<rpc, ready, batch>>
life == <<fd, closing, self>>
vars == <<lwip, forward, backward, kernel, loopVars, life, connected, watch,
          tasks, stackTasks, stackUp, running>>

(* A task of the NetStack thread, and the data it carries: those of a read *)
(* on their way to lwIP, or none.                                          *)
Task(op) == [op |-> op, units |-> 0]
WriteTask(n) == [op |-> "write", units |-> n]
StackOps == {Task(op) : op \in {"ack", "eof", "close"}}
              \cup {WriteTask(n) : n \in 1 .. ReadMax}

ReactorOps == {"add", "flush", "resume", "close", "shut", "del"}

TypeOK ==
  /\ pcb \in {"new", "open", "none"}
  /\ rcvWnd \in 0 .. Wnd /\ sndUsed \in 0 .. SndBuf
  /\ forwardBuf \in 0 .. Wnd /\ pendingRecved \in 0 .. Wnd
  /\ backwardBuf \in Nat /\ backwardBytes \in Nat
  /\ {connected, wantWrite, readPaused, fdEof, closing, self, stackUp, running}
       \subseteq BOOLEAN
  /\ stackTasks \in Seq(StackOps) /\ tasks \in Seq(ReactorOps)
  /\ watch \in {{}, {"F"}, {"F", "R"}, {"F", "W"}, {"F", "R", "W"}}
  /\ rpc \in {"handle", "pausing", "drain", "stopped"}
  /\ ready \subseteq {"R", "W", "F"}
  /\ batch \in 0 .. Len(tasks)
  /\ fd \in {"none", "open", "closed"}
  /\ remote \in {"dialing", "open", "eof", "reset"}
  /\ inData \in 0 .. InBuf /\ outUsed \in 0 .. OutBuf

Init ==
  /\ pcb = "new" /\ rcvWnd = Wnd /\ sndUsed = 0
  /\ forwardBuf = 0 /\ pendingRecved = 0 /\ wantWrite = FALSE
  /\ backwardBuf = 0 /\ backwardBytes = 0 /\ readPaused = FALSE
  /\ fdEof = FALSE
  /\ stackTasks = <<>> /\ tasks = <<>>
  /\ stackUp = TRUE /\ running = TRUE
  /\ connected = FALSE /\ watch = {}
  /\ rpc = "drain" /\ ready = {} /\ batch = 0
  /\ fd = "none" /\ closing = FALSE /\ self = FALSE
  /\ remote = "dialing" /\ inData = 0 /\ outUsed = 0

Min(a, b) == IF a < b THEN a ELSE b

-----------------------------------------------------------------------------
(* NetStack thread.                                                        *)

(* onAccept and start: dial the destination, and have the Reactor watch    *)
(* the fd for the result, ...                                              *)
Accept ==
  /\ stackUp /\ pcb = "new"
  /\ pcb' = "open" /\ fd' = "open" /\ self' = TRUE
  /\ tasks' = Append(tasks, "add")
  /\ UNCHANGED <<rcvWnd, sndUsed, forward, backward, kernel, loopVars, closing,
                 connected, watch, stackTasks, stackUp, running>>

(* ... or fail: onAccept returns ERR_RST, lwIP aborts the pcb and reports  *)
(* it to onErr, which releases the session.                                *)
AcceptFails ==
  /\ stackUp /\ pcb = "new"
  /\ pcb' = "none" /\ fd' = "closed" /\ closing' = TRUE
  /\ UNCHANGED <<rcvWnd, sndUsed, forward, backward, kernel, loopVars, self,
                 connected, watch, tasks, stackTasks, stackUp, running>>

(* onRecv: data of the source; the window stays closed behind them.        *)
OnRecv ==
  /\ stackUp /\ pcb = "open"
  /\ rcvWnd > 0 /\ Len(tasks) + Len(stackTasks) < MaxTasks
  /\ rcvWnd' = rcvWnd - 1
  /\ forwardBuf' = forwardBuf + 1
  /\ tasks' = Append(tasks, "flush")
  /\ UNCHANGED <<pcb, sndUsed, pendingRecved, wantWrite, backward, kernel,
                 loopVars, life, connected, watch, stackTasks, stackUp, running>>

(* closeFromStack: close the pcb and leave the rest to the Reactor.        *)
CloseFromStack == pcb' = "none" /\ tasks' = Append(tasks, "close")

(* onRecv(NULL): the source closes.                                        *)
OnRecvFin ==
  /\ stackUp /\ pcb = "open"
  /\ CloseFromStack
  /\ UNCHANGED <<rcvWnd, sndUsed, forward, backward, kernel, loopVars, life,
                 connected, watch, stackTasks, stackUp, running>>

(* How much of the backlog goes into the lwIP send buffer.                 *)
Pumpable(buf, used) ==
  LET most == Min(buf, SndBuf - used)
  IN  IF MemPressure THEN 0 .. most ELSE {most}

(* pumpToLwip takes what entered lwIP off the count of the backlog.        *)
Uncount(n) == backwardBytes - n

(* updateReadInterest, with the backlog that pumping leaves.               *)
Resumes(bytes) == readPaused /\ bytes <= LowWater

(* pumpToLwip, with the backlog and the send buffer as they are and EOF    *)
(* seen or not: pump, resume reading, and close when nothing is left.      *)
PumpToLwip(buf, used, eof) ==
  \E n \in Pumpable(buf, used) :
    LET resumed == IF Resumes(Uncount(n)) THEN Append(tasks, "resume")
                                          ELSE tasks
        drained == eof /\ buf - n = 0
    IN  /\ backwardBuf' = buf - n
        /\ sndUsed' = used + n
        /\ backwardBytes' = Uncount(n)
        /\ readPaused' = (readPaused /\ ~Resumes(Uncount(n)))
        /\ pcb' = IF drained THEN "none" ELSE pcb
        /\ tasks' = IF drained THEN Append(resumed, "close") ELSE resumed

(* onSent: the source has acknowledged k units.                            *)
OnSent ==
  /\ stackUp /\ pcb = "open" /\ sndUsed > 0
  /\ \E k \in 1 .. sndUsed : PumpToLwip(backwardBuf, sndUsed - k, fdEof)
  /\ UNCHANGED <<rcvWnd, forward, fdEof, kernel, loopVars, life, connected,
                 watch, stackTasks, stackUp, running>>

(* onErr: lwIP has freed the pcb; closeFromReactor runs on THIS thread, so *)
(* that its del is a task.                                                 *)
OnErr ==
  /\ stackUp /\ pcb = "open"
  /\ pcb' = "none"
  /\ closing' = TRUE
  /\ IF closing THEN UNCHANGED <<fd, self, tasks>>
     ELSE /\ fd' = "closed" /\ self' = FALSE
          /\ tasks' = Append(tasks, "del")
  /\ UNCHANGED <<rcvWnd, sndUsed, forward, backward, kernel, loopVars,
                 connected, watch, stackTasks, stackUp, running>>

(* The tasks of a session whose pcb is gone.                               *)
StackTaskLate(op) ==
  /\ pcb = "none"
  /\ fdEof' = (fdEof \/ op = "eof")
  /\ tasks' = IF op = "close" \/ (op = "eof" /\ backwardBuf = 0)
                THEN Append(tasks, "close") ELSE tasks
  /\ UNCHANGED <<lwip, forward, backwardBuf, backwardBytes, readPaused>>

(* writeToLwip: the data of a read.                                        *)
WriteToLwip(n) ==
  /\ PumpToLwip(backwardBuf + n, sndUsed, fdEof)
  /\ UNCHANGED <<rcvWnd, forward, fdEof>>

(* Mutant of OnFdEofFromStack: close at once.                              *)
OnFdEofFromStackAtOnce ==
  /\ fdEof' = TRUE
  /\ CloseFromStack
  /\ UNCHANGED <<rcvWnd, sndUsed, forward, backwardBuf, backwardBytes,
                 readPaused>>

(* onFdEofFromStack (that it may close a second time has no effect).       *)
OnFdEofFromStack ==
  /\ fdEof' = TRUE
  /\ PumpToLwip(backwardBuf, sndUsed, TRUE)
  /\ UNCHANGED <<rcvWnd, forward>>

(* Mutant of AckRecvedToLwip: the amount is read and kept.                 *)
AckRecvedToLwipAgain ==
  /\ rcvWnd' = Min(rcvWnd + pendingRecved, Wnd)
  /\ UNCHANGED <<pcb, sndUsed, forward, backward, tasks>>

(* ackRecvedToLwip: the window opens by what has left for the destination. *)
AckRecvedToLwip ==
  /\ rcvWnd' = rcvWnd + pendingRecved
  /\ pendingRecved' = 0
  /\ UNCHANGED <<pcb, sndUsed, forwardBuf, wantWrite, backward, tasks>>

StackTask ==
  /\ stackUp /\ stackTasks /= <<>>
  /\ stackTasks' = Tail(stackTasks)
  /\ LET op == Head(stackTasks).op IN
       \/ StackTaskLate(op)
       \/ /\ pcb = "open"
          /\ \/ op = "write" /\ WriteToLwip(Head(stackTasks).units)
             \/ op = "eof" /\ OnFdEofFromStack
             \/ op = "ack" /\ AckRecvedToLwip
             \/ /\ op = "close" /\ CloseFromStack
                /\ UNCHANGED <<rcvWnd, sndUsed, forward, backward>>
  /\ UNCHANGED <<kernel, loopVars, life, connected, watch, stackUp, running>>

(* shutdownFromStack: the pcb is aborted, the fd is left to the Reactor.   *)
ShutdownFromStack ==
  /\ pcb' = "none"
  /\ IF pcb = "open" /\ ~closing
       THEN closing' = TRUE /\ tasks' = Append(tasks, "shut")
       ELSE UNCHANGED <<closing, tasks>>

(* teardownStack: a session in the table is shut down, and the NetStack    *)
(* thread ends.                                                            *)
Teardown ==
  /\ stackUp /\ pcb /= "new"
  /\ stackUp' = FALSE
  /\ ShutdownFromStack
  /\ UNCHANGED <<rcvWnd, sndUsed, forward, backward, kernel, loopVars, fd, self,
                 connected, watch, stackTasks, running>>

(* NetStack::wait stops the Reactor when the NetStack thread has ended.    *)
StopReactor ==
  /\ ~stackUp /\ running
  /\ running' = FALSE
  /\ UNCHANGED <<lwip, forward, backward, kernel, loopVars, life, connected,
                 watch, tasks, stackTasks, stackUp>>

-----------------------------------------------------------------------------
(* Reactor thread.                                                         *)

(* mod of a watched fd replaces the interest.                              *)
Mod(interest) == IF watch = {} THEN {} ELSE {"F"} \cup interest

(* Mutant of CloseFromReactor: the pcb is forgotten.                       *)
CloseFromReactorOnly ==
  /\ closing' = TRUE
  /\ IF closing
       THEN UNCHANGED <<fd, self, watch, stackTasks>>
       ELSE /\ fd' = "closed" /\ self' = FALSE /\ watch' = {}
            /\ UNCHANGED stackTasks

(* closeFromReactor: once, close the fd, hand the pcb to the NetStack      *)
(* thread and let go of the session.                                       *)
CloseFromReactor ==
  /\ closing' = TRUE
  /\ IF closing
       THEN UNCHANGED <<fd, self, watch, stackTasks>>
       ELSE /\ fd' = "closed" /\ self' = FALSE /\ watch' = {}
            /\ stackTasks' = IF pcb = "open"
                               THEN Append(stackTasks, Task("close"))
                               ELSE stackTasks

(* flushForwardLocked: send what the socket takes.  When it blocks, watch  *)
(* for writing; when all is sent after a block, stop doing so; then have   *)
(* the NetStack thread acknowledge.  "mode" is the interest so far.        *)
FlushForward(mode) ==
  LET n == Min(forwardBuf, OutBuf - outUsed) IN
    /\ forwardBuf' = forwardBuf - n
    /\ outUsed' = outUsed + n
    /\ pendingRecved' = pendingRecved + n
    /\ stackTasks' = IF n > 0 THEN Append(stackTasks, Task("ack"))
                               ELSE stackTasks
    /\ wantWrite' = (forwardBuf > n)
    /\ watch' = IF forwardBuf > n THEN Mod({"R", "W"})
                ELSE IF wantWrite THEN Mod({"R"}) ELSE mode
    /\ UNCHANGED <<closing, fd, self>>

(* Sending fails, perhaps after some units: these are not acknowledged.    *)
FlushFails ==
  /\ remote = "reset" /\ forwardBuf > 0
  /\ \E n \in 0 .. Min(forwardBuf, OutBuf - outUsed) :
       forwardBuf' = forwardBuf - n
  /\ CloseFromReactor
  /\ UNCHANGED <<outUsed, pendingRecved, wantWrite>>

Flush ==
  \/ fd = "open" /\ connected /\ remote /= "reset" /\ FlushForward(watch)
  \/ fd = "open" /\ connected /\ FlushFails
  \/ /\ ~(fd = "open" /\ connected) \/ (remote = "reset" /\ forwardBuf = 0)
     /\ UNCHANGED <<forward, outUsed, stackTasks, watch, life>>

(* One task of drainTasks.                                                 *)
ReactorTask ==
  /\ rpc = "drain" /\ batch > 0
  /\ batch' = batch - 1
  /\ tasks' = Tail(tasks)
  /\ LET op == Head(tasks) IN
       \/ /\ op = "add"
          /\ watch' = IF fd = "open" THEN {"F", "W"} ELSE {}
          /\ UNCHANGED <<forward, outUsed, stackTasks, life>>
       \/ op = "flush" /\ Flush
       \/ /\ op = "resume"
          /\ watch' = IF closing THEN watch ELSE Mod({"R"})
          /\ UNCHANGED <<forward, outUsed, stackTasks, life>>
       \/ /\ op = "close"
          /\ CloseFromReactor
          /\ UNCHANGED <<forward, outUsed>>
       \/ /\ op = "shut"
          /\ fd' = "closed" /\ self' = FALSE /\ watch' = {}
          /\ UNCHANGED <<forward, outUsed, stackTasks, closing>>
       \/ /\ op = "del"
          /\ watch' = {}
          /\ UNCHANGED <<forward, outUsed, stackTasks, life>>
  /\ UNCHANGED <<lwip, backward, remote, inData, rpc, ready, connected, stackUp,
                 running>>

(* What PollSet::poll reports.                                             *)
Events ==
  {e \in watch :
     \/ remote = "reset"
     \/ e = "R" /\ (inData > 0 \/ remote = "eof")
     \/ e = "W" /\ remote /= "dialing" /\ outUsed < OutBuf}

(* Reactor::loop: the batch is done; test running, poll ...                *)
Poll ==
  /\ rpc = "drain" /\ batch = 0
  /\ rpc' = IF running THEN "handle" ELSE "stopped"
  /\ ready' = IF running THEN Events ELSE {}
  /\ UNCHANGED <<lwip, forward, backward, kernel, batch, life, connected, watch,
                 tasks, stackTasks, stackUp, running>>

(* Mutant of DrainTasks: one task too many.                                *)
DrainTasksPast ==
  /\ rpc = "handle" /\ ready = {}
  /\ rpc' = "drain" /\ batch' = Len(tasks) + 1
  /\ UNCHANGED <<lwip, forward, backward, kernel, ready, life, connected, watch,
                 tasks, stackTasks, stackUp, running>>

(* ... and, the events being handled, take the tasks posted so far.        *)
DrainTasks ==
  /\ rpc = "handle" /\ ready = {}
  /\ rpc' = "drain" /\ batch' = Len(tasks)
  /\ UNCHANGED <<lwip, forward, backward, kernel, ready, life, connected, watch,
                 tasks, stackTasks, stackUp, running>>

(* onFdEvent before the connection is made: an error, or onConnected.      *)
HandleDial ==
  /\ rpc = "handle" /\ ready /= {} /\ ~connected
  /\ ready' = {}
  /\ \/ /\ "F" \in ready
        /\ CloseFromReactor
        /\ UNCHANGED <<connected, forward, outUsed>>
     \/ /\ "F" \notin ready
        /\ connected' = (fd = "open")
        /\ \/ fd = "open" /\ (FlushForward(Mod({"R"})) \/ FlushFails)
           \/ /\ fd = "closed"
              /\ UNCHANGED <<forward, outUsed, stackTasks, watch, life>>
  /\ UNCHANGED <<lwip, backward, remote, inData, rpc, batch, tasks, stackUp,
                 running>>

Reading == rpc = "handle" /\ connected /\ ready \cap {"R", "F"} /= {}
ReadDone == ready' = ready \ {"R", "F"}

(* Mutant of ReadPauses: the limit is tested after it has been passed.     *)
ReadPausesLate == backwardBytes > HighWater

ReadPauses == backwardBytes >= HighWater

(* One round of the loop of onFdReadable: the backlog is at the limit ...  *)
SeeHighWater ==
  /\ Reading /\ ReadPauses
  /\ rpc' = "pausing"
  /\ UNCHANGED <<lwip, forward, backward, kernel, ready, batch, life, connected,
                 watch, tasks, stackTasks, stackUp, running>>

(* ... and, a moment later, reading is paused;                             *)
PauseRead ==
  /\ rpc = "pausing"
  /\ rpc' = "handle"
  /\ readPaused' = TRUE
  /\ watch' = IF fd = "open" THEN Mod({}) ELSE watch
  /\ ReadDone
  /\ UNCHANGED <<lwip, forward, backwardBuf, backwardBytes, fdEof, kernel, batch,
                 life, connected, tasks, stackTasks, stackUp, running>>

(* or the fd is read: as much as there is and fits in the buffer of the    *)
(* read, or less, ...                                                      *)
ReadData ==
  /\ inData > 0
  /\ \E n \in 1 .. Min(inData, ReadMax) :
       /\ inData' = inData - n
       /\ backwardBytes' = backwardBytes + n
       /\ stackTasks' = Append(stackTasks, WriteTask(n))
  /\ UNCHANGED <<ready, watch, life>>

(* ... the end, after which the fd is not watched, ...                     *)
ReadEof ==
  /\ inData = 0 /\ remote = "eof"
  /\ stackTasks' = Append(stackTasks, Task("eof"))
  /\ watch' = {}
  /\ ReadDone
  /\ UNCHANGED <<inData, backwardBytes, life>>

(* ... nothing more for now, or an error.                                  *)
ReadNothing ==
  /\ inData = 0 /\ remote = "open"
  /\ ReadDone
  /\ UNCHANGED <<inData, backwardBytes, stackTasks, watch, life>>

ReadError ==
  /\ inData = 0 /\ remote = "reset"
  /\ CloseFromReactor
  /\ ReadDone
  /\ UNCHANGED <<inData, backwardBytes>>

(* The fd was closed by onErr meanwhile: the read fails.                   *)
ReadClosed ==
  /\ ReadDone
  /\ UNCHANGED <<inData, backwardBytes, stackTasks, watch, life>>

OnFdReadable ==
  /\ Reading /\ ~ReadPauses
  /\ \/ fd = "open" /\ (ReadData \/ ReadEof \/ ReadNothing \/ ReadError)
     \/ fd = "closed" /\ ReadClosed
  /\ UNCHANGED <<lwip, forward, backwardBuf, readPaused, fdEof, remote, outUsed,
                 rpc, batch, connected, tasks, stackUp, running>>

OnFdWritable ==
  /\ rpc = "handle" /\ connected /\ ready = {"W"}
  /\ ready' = {}
  /\ Flush
  /\ UNCHANGED <<lwip, backward, remote, inData, rpc, batch, connected, tasks,
                 stackUp, running>>

-----------------------------------------------------------------------------
(* The destination.                                                        *)
RemoteSteps ==
  \/ /\ remote = "dialing" /\ fd /= "none"
     /\ remote' \in {"open", "reset"} /\ UNCHANGED <<inData, outUsed>>
  \/ /\ remote = "open" /\ inData < InBuf
     /\ inData' = inData + 1 /\ UNCHANGED <<remote, outUsed>>
  \/ /\ remote \in {"open", "eof"}
     /\ remote' \in {"eof", "reset"} /\ UNCHANGED <<inData, outUsed>>

RemoteTakes ==
  /\ remote \in {"open", "eof"} /\ outUsed > 0
  /\ outUsed' = outUsed - 1 /\ UNCHANGED <<remote, inData>>

Remote ==
  /\ RemoteSteps \/ RemoteTakes
  /\ UNCHANGED <<lwip, forward, backward, loopVars, life, connected, watch,
                 tasks, stackTasks, stackUp, running>>

StackStep == OnSent \/ StackTask
ReactorStep ==
  \/ ReactorTask \/ Poll \/ DrainTasks \/ HandleDial
  \/ SeeHighWater \/ PauseRead \/ OnFdReadable \/ OnFdWritable

Next ==
  \/ Accept \/ AcceptFails \/ OnRecv \/ OnRecvFin \/ OnErr
  \/ StackStep
  \/ Teardown \/ StopReactor
  \/ ReactorStep
  \/ Remote

(* Both threads run, the source acknowledges what lwIP sends it, and the   *)
(* destination takes what the kernel sends it.                             *)
Fairness ==
  /\ WF_vars(StackTask) /\ WF_vars(OnSent)
  /\ WF_vars(ReactorStep)
  /\ WF_vars(RemoteTakes /\ Remote)

Spec == Init /\ [][Next]_vars
FairSpec == Spec /\ Fairness

-----------------------------------------------------------------------------
(* Properties.                                                             *)

(* "forwardBuf is limited to one TCP_WND": as long as the session is not   *)
(* closing, every unit of the window is either open to the source, waits   *)
(* in forwardBuf, or is sent and waits for its acknowledgement, whatever   *)
(* the two threads interleave (onRecv, flushForwardLocked,                 *)
(* ackRecvedToLwip).                                                       *)
WindowConserved ==
  ~closing => rcvWnd + forwardBuf + pendingRecved = Wnd

(* The units that the tasks of a queue carry to lwIP.                      *)
Units(q) ==
  {p \in (1 .. Len(q)) \X (1 .. ReadMax) : p[2] <= q[p[1]].units}
QueuedUnits(q) == Cardinality(Units(q))

(* The backlog that both threads count is the real one, so that the pause  *)
(* at HIGH_WATER and the resume at LOW_WATER are decided on the truth: it  *)
(* is what is queued and what is buffered (onFdReadable, pumpToLwip).      *)
BacklogCounted ==
  pcb = "open" => backwardBytes = backwardBuf + QueuedUnits(stackTasks)

(* ... and it passes HIGH_WATER by less than one read: the limit is tested *)
(* before each read, whose size is not known then (onFdReadable, 393 and   *)
(* 402).                                                                   *)
BacklogBounded == BacklogCounted /\ backwardBytes < HighWater + ReadMax

(* An end of file of the destination closes the lwIP side only when every  *)
(* unit read before it has been given to lwIP (the comment in pumpToLwip   *)
(* on the connections that broke at 80 %).                                 *)
TailDelivered ==
  [][/\ pcb = "open" /\ pcb' = "none"
     /\ OnSent \/ (StackTask /\ Head(stackTasks).op /= "close")
     => backwardBytes' = 0]_vars

Released == fd = "closed" /\ ~self /\ pcb = "none"

(* A session that begins to close, or whose source is gone, is released at *)
(* both ends, whichever of the two threads begins, unless the whole stack  *)
(* is stopped first (closeFromStack, closeFromReactor, onErr,              *)
(* shutdownFromStack).                                                     *)
SessionEnds == (closing \/ pcb = "none") ~> (Released \/ ~running)

(* session_tcp.cc:368: what stays in forwardBuf when the socket blocks     *)
(* "waits for onFdWritable to go on", so room in the socket is used again, *)
(* unless the Reactor thread never stops reading, or reading is paused.    *)
ForwardFlows ==
  \/ []<><<OnFdReadable>>_vars
  \/ (forwardBuf > 0 /\ connected)
       ~> (forwardBuf = 0 \/ outUsed > 0 \/ readPaused \/ closing \/ ~stackUp)

(* session_tcp.cc:222-225: pausing and resuming form a closed loop, so a   *)
(* pause ends when the source keeps acknowledging.                         *)
ReadResumes == readPaused ~> (~readPaused \/ pcb = "none")

(* session_tcp.h:57: closeFromReactor is a function of the Reactor thread, *)
(* so the fd is not closed under a read of that thread, nor before it is   *)
(* watched.                                                                *)
FdOpenInUse ==
  fd = "closed" => ~Reading /\ \A i \in 1 .. Len(tasks) : tasks[i] /= "add"

(* session_tcp.cc:264-265: on teardown the fd is left to the Reactor to    *)
(* close.                                                                  *)
TeardownReleases == ~stackUp ~> Released
=============================================================================
