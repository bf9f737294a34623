----------------------------- MODULE SessionUdp -----------------------------
(***************************************************************************)
(* The UDP sessions of one source in the user-space network stack, in the  *)
(* mode where each has a socket of its own (candy/src/netstack/            *)
(* session_udp.cc), with the part of the stack that drives them            *)
(* (netstack.cc: the packet path, the loop, the reaper and the teardown).  *)
(* As in SessionTcp, the NetStack thread owns the lwIP side and the table  *)
(* udpSessions, and the Reactor thread (reactor.cc) owns the sockets.      *)
(*                                                                         *)
(* All sessions here have the same key (source address and port), so that  *)
(* udpSessions and vnetPeerMap are one entry each.  A session object that  *)
(* nothing refers to is free to be made again: the number of sessions in a *)
(* behaviour is not bounded, only that of the ones alive at a time.        *)
(* Memory of lwIP is assumed to suffice for a reply (pbuf_alloc).          *)
(***************************************************************************)
EXTENDS Naturals, Sequences

CONSTANTS
  Session,     \* session objects
  NoSession,   \* no entry in udpSessions
  NoPeer,      \* no entry in vnetPeerMap
  Idle,        \* a session silent for longer is reaped (60 s)
  ReapEvery,   \* time between two reaps (10 s)
  PeerIdle,    \* a peer entry silent for longer may be dropped (180 s)
  MaxTasks     \* bound: tasks waiting when a datagram comes from outside

ASSUME SessionUdpAssumption ==
  /\ {Idle, ReapEvery, PeerIdle, MaxTasks} \subseteq Nat
  /\ Idle + ReapEvery <= PeerIdle
  /\ NoSession \notin Session /\ NoPeer \notin Nat

VARIABLES
  (* NetStack thread *)
  pcb,         \* does the lwIP pcb of the session exist
  age,         \* time since lastActiveTs
  udpSessions, \* the session under the key
  peer,        \* time since lastSeen of the vnetPeerMap entry
  sinceReap,   \* time since lastReap
  spc,         \* top/task/reap/down: where NetStack::loop is
  stackTasks,  \* NetStack::stackTasks: <<operation, session>>
  running,     \* NetStack::running
  (* Reactor thread *)
  watch,       \* sessions with an IoWatcher
  rpc,         \* handle/drain/stopped: where Reactor::loop is
  ready,       \* sessions whose events are still to be handled
  releasing,   \* the sessions (at most one) in the middle of closeFromReactor
  tasks,       \* Reactor::tasks: <<operation, session>>
  batch,       \* how many of them the current drainTasks has taken
  reactorUp,   \* Reactor::running
  (* both *)
  fd,          \* "none", "open" or "closed"
  closing,
  self         \* the session keeps itself alive

lwip == <<pcb, age, udpSessions, peer>>
loopVars == <<sinceReap, spc, running>>
reactorVars == <<watch, rpc, ready, releasing, batch, reactorUp>>
life == <<fd, closing, self>>
vars == <<lwip, loopVars, reactorVars, life, tasks, stackTasks>>

MaxAge == PeerIdle + 1
StackOps == {"reply", "close"}
ReactorOps == {"add", "send", "close", "shut"}

TypeOK ==
  /\ pcb \in [Session -> BOOLEAN]
  /\ age \in [Session -> 0 .. MaxAge]
  /\ udpSessions \in Session \cup {NoSession}
  /\ peer \in (0 .. MaxAge) \cup {NoPeer}
  /\ sinceReap \in 0 .. ReapEvery
  /\ spc \in {"top", "task", "reap", "down"}
  /\ stackTasks \in Seq((StackOps \X Session) \cup {<<"input">>})
  /\ tasks \in Seq(ReactorOps \X Session)
  /\ watch \subseteq Session /\ ready \subseteq Session
  /\ releasing \subseteq Session
  /\ rpc \in {"handle", "drain", "stopped"}
  /\ batch \in 0 .. Len(tasks)
  /\ fd \in [Session -> {"none", "open", "closed"}]
  /\ closing \in [Session -> BOOLEAN] /\ self \in [Session -> BOOLEAN]
  /\ {running, reactorUp} \subseteq BOOLEAN

Init ==
  /\ pcb = [s \in Session |-> FALSE] /\ age = [s \in Session |-> 0]
  /\ udpSessions = NoSession /\ peer = NoPeer
  /\ sinceReap = 0 /\ spc = "top" /\ running = TRUE
  /\ stackTasks = <<>> /\ tasks = <<>>
  /\ watch = {} /\ ready = {} /\ releasing = {}
  /\ rpc = "drain" /\ batch = 0 /\ reactorUp = TRUE
  /\ fd = [s \in Session |-> "none"]
  /\ closing = [s \in Session |-> FALSE] /\ self = [s \in Session |-> FALSE]

Holds(queue, s) ==
  \E i \in 1 .. Len(queue) : Len(queue[i]) = 2 /\ queue[i][2] = s

(* Somebody holds a shared_ptr to the session: itself, the table, a task   *)
(* or a watcher.                                                           *)
Alive(s) ==
  \/ self[s] \/ udpSessions = s \/ s \in watch \/ s \in releasing
  \/ Holds(tasks, s) \/ Holds(stackTasks, s)

-----------------------------------------------------------------------------
(* Other threads.                                                          *)

(* handleQueue and input: a datagram of the source for the NetStack.       *)
Input ==
  /\ running /\ Len(stackTasks) + Len(tasks) < MaxTasks
  /\ stackTasks' = Append(stackTasks, <<"input">>)
  /\ UNCHANGED <<lwip, loopVars, reactorVars, life, tasks>>

(* NetStack::shutdown.                                                     *)
Shutdown ==
  /\ running
  /\ running' = FALSE
  /\ UNCHANGED <<lwip, sinceReap, spc, reactorVars, life, tasks, stackTasks>>

Older(a) == IF a < MaxAge THEN a + 1 ELSE a

(* Time passes, but not while a reap is due: the loop wakes every 250 ms.  *)
Tick ==
  /\ spc /= "down" /\ sinceReap < ReapEvery
  /\ sinceReap' = sinceReap + 1
  /\ age' = [s \in Session |-> IF pcb[s] THEN Older(age[s]) ELSE age[s]]
  /\ peer' = IF peer = NoPeer THEN peer ELSE Older(peer)
  /\ UNCHANGED <<pcb, udpSessions, spc, running, reactorVars, life, tasks,
                 stackTasks>>

-----------------------------------------------------------------------------
(* NetStack thread.                                                        *)

(* onPcbRecv and sendToLanding: a datagram for a session that exists.      *)
OnPcbRecv(s, queue) ==
  /\ age' = [age EXCEPT ![s] = 0]
  /\ tasks' = Append(queue, <<"send", s>>)

(* onUdpRecv and start: lwIP has made a pcb for a source it does not know. *)
(* The session gets a socket, and lwIP delivers the datagram to it ...     *)
NewSession(s) ==
  /\ ~Alive(s)
  /\ pcb' = [pcb EXCEPT ![s] = TRUE]
  /\ fd' = [fd EXCEPT ![s] = "open"]
  /\ self' = [self EXCEPT ![s] = TRUE]
  /\ closing' = [closing EXCEPT ![s] = FALSE]
  /\ udpSessions' = s
  /\ OnPcbRecv(s, Append(tasks, <<"add", s>>))

(* ... or dialUdp fails: the pcb is removed; "self" is set by then.        *)
NewSessionFails(s) ==
  /\ ~Alive(s)
  /\ self' = [self EXCEPT ![s] = TRUE]
  /\ fd' = [fd EXCEPT ![s] = "none"]
  /\ closing' = [closing EXCEPT ![s] = FALSE]
  /\ UNCHANGED <<pcb, age, udpSessions, tasks>>

(* handleInput and feedToLwip: the datagram comes in an IPIP packet, whose *)
(* outer source is remembered as the way back.  It is dropped when the     *)
(* stack is stopping, or when lwIP has no memory.                          *)
FeedToLwip ==
  /\ peer' = 0
  /\ \/ UNCHANGED <<pcb, age, udpSessions, tasks, life>>
     \/ \E s \in Session : /\ pcb[s] /\ OnPcbRecv(s, tasks)
                           /\ UNCHANGED <<pcb, udpSessions, life>>
     \/ /\ running /\ \A s \in Session : ~pcb[s]
        /\ \E s \in Session : NewSession(s) \/ NewSessionFails(s)

(* Mutant of Output: the peer entry is used and not refreshed.             *)
OutputOnce == UNCHANGED peer

(* NetStack::output: a packet for the source leaves through its peer, or   *)
(* is dropped when there is none.                                          *)
Output == peer' = IF peer = NoPeer THEN NoPeer ELSE 0

(* replyToLwip: a datagram for the source, dropped when the pcb is gone.   *)
ReplyToLwip(s) ==
  /\ IF pcb[s] THEN age' = [age EXCEPT ![s] = 0] /\ Output
               ELSE UNCHANGED <<age, peer>>
  /\ UNCHANGED <<pcb, udpSessions, life, tasks>>

(* Mutant of CloseFromStack: the pcb is left to lwIP.                      *)
CloseFromStackKeeps(s) ==
  /\ tasks' = Append(tasks, <<"close", s>>)
  /\ udpSessions' = NoSession
  /\ UNCHANGED <<pcb, age, peer, life>>

(* closeFromStack: remove the pcb, and whatever session is in the table.   *)
CloseFromStack(s) ==
  /\ pcb' = [pcb EXCEPT ![s] = FALSE]
  /\ tasks' = Append(tasks, <<"close", s>>)
  /\ udpSessions' = NoSession
  /\ UNCHANGED <<age, peer, life>>

(* NetStack::loop: one task.                                               *)
StackTask ==
  /\ spc = "task" /\ stackTasks /= <<>>
  /\ stackTasks' = Tail(stackTasks)
  /\ spc' = "reap"
  /\ \/ Head(stackTasks) = <<"input">> /\ FeedToLwip
     \/ \E s \in Session :
          \/ Head(stackTasks) = <<"reply", s>> /\ ReplyToLwip(s)
          \/ Head(stackTasks) = <<"close", s>> /\ CloseFromStack(s)
  /\ UNCHANGED <<sinceReap, running, reactorVars>>

(* No task within 250 ms, or one that is not about this source.  When that *)
(* is a packet of another source and vnetPeerMap is large, old entries go. *)
StackOther ==
  /\ spc = "task" /\ spc' = "reap"
  /\ \/ stackTasks = <<>> /\ UNCHANGED peer
     \/ peer /= NoPeer /\ peer > PeerIdle /\ peer' = NoPeer
  /\ UNCHANGED <<pcb, age, udpSessions, sinceReap, running, reactorVars, life,
                 tasks, stackTasks>>

(* Mutant of ShutdownFromStack: the fd is closed here and not by the       *)
(* Reactor.                                                                *)
ShutdownFromStackAtOnce(s) ==
  /\ pcb' = [pcb EXCEPT ![s] = FALSE]
  /\ closing' = [closing EXCEPT ![s] = TRUE]
  /\ fd' = [fd EXCEPT ![s] = "closed"] /\ self' = [self EXCEPT ![s] = FALSE]
  /\ UNCHANGED tasks

(* shutdownFromStack: remove the pcb, leave the fd to the Reactor.         *)
ShutdownFromStack(s) ==
  /\ pcb' = [pcb EXCEPT ![s] = FALSE]
  /\ closing' = [closing EXCEPT ![s] = TRUE]
  /\ tasks' = IF closing[s] THEN tasks ELSE Append(tasks, <<"shut", s>>)
  /\ UNCHANGED <<fd, self>>

(* reapIdleUdpSessions, when it is due.                                    *)
Reap ==
  /\ spc = "reap" /\ spc' = "top"
  /\ \/ /\ sinceReap < ReapEvery
        /\ UNCHANGED <<sinceReap, pcb, udpSessions, life, tasks>>
     \/ /\ sinceReap = ReapEvery /\ sinceReap' = 0
        /\ \/ /\ udpSessions /= NoSession => age[udpSessions] <= Idle
              /\ UNCHANGED <<pcb, udpSessions, life, tasks>>
           \/ /\ udpSessions /= NoSession /\ age[udpSessions] > Idle
              /\ ShutdownFromStack(udpSessions)
              /\ udpSessions' = NoSession
  /\ UNCHANGED <<age, peer, running, reactorVars, stackTasks>>

(* NetStack::loop goes on, ...                                             *)
LoopTop ==
  /\ spc = "top" /\ running
  /\ spc' = "task"
  /\ UNCHANGED <<lwip, sinceReap, running, reactorVars, life, tasks, stackTasks>>

(* ... or ends with teardownStack: the session in the table is shut down   *)
(* and the tables are cleared.                                             *)
Teardown ==
  /\ spc = "top" /\ ~running
  /\ spc' = "down"
  /\ IF udpSessions = NoSession THEN UNCHANGED <<pcb, life, tasks>>
                                ELSE ShutdownFromStack(udpSessions)
  /\ udpSessions' = NoSession /\ peer' = NoPeer
  /\ UNCHANGED <<age, sinceReap, running, reactorVars, stackTasks>>

(* NetStack::wait stops the Reactor when the NetStack thread has ended.    *)
StopReactor ==
  /\ spc = "down" /\ reactorUp
  /\ reactorUp' = FALSE
  /\ UNCHANGED <<lwip, loopVars, watch, rpc, ready, releasing, batch, life,
                 tasks, stackTasks>>

-----------------------------------------------------------------------------
(* Reactor thread.                                                         *)

(* Mutant of CloseFd: only the first half, and the session is let go.      *)
CloseFdOnly(s) ==
  /\ closing' = [closing EXCEPT ![s] = TRUE]
  /\ fd' = [fd EXCEPT ![s] = "closed"]
  /\ watch' = watch \ {s}
  /\ self' = [self EXCEPT ![s] = FALSE]
  /\ UNCHANGED releasing

(* closeFromReactor: once, unwatch and close the fd ...                    *)
CloseFd(s) ==
  /\ closing' = [closing EXCEPT ![s] = TRUE]
  /\ UNCHANGED self
  /\ IF closing[s]
       THEN UNCHANGED <<fd, watch, releasing>>
       ELSE /\ fd' = [fd EXCEPT ![s] = "closed"]
            /\ watch' = watch \ {s}
            /\ releasing' = {s}

(* ... then leave a pcb that is still there to the NetStack thread, and    *)
(* let go of the session.                                                  *)
Release ==
  /\ \E s \in releasing :
       /\ stackTasks' = IF pcb[s] THEN Append(stackTasks, <<"close", s>>)
                                  ELSE stackTasks
       /\ self' = [self EXCEPT ![s] = FALSE]
  /\ releasing' = {}
  /\ UNCHANGED <<lwip, loopVars, watch, rpc, ready, batch, reactorUp, fd,
                 closing, tasks>>

(* One task of drainTasks.                                                 *)
ReactorTask ==
  /\ rpc = "drain" /\ releasing = {} /\ batch > 0
  /\ batch' = batch - 1
  /\ tasks' = Tail(tasks)
  /\ LET op == Head(tasks)[1]
         s == Head(tasks)[2]
     IN \/ /\ op = "add" /\ watch' = watch \cup {s}
           /\ UNCHANGED <<releasing, life>>
        \/ /\ op = "send" /\ UNCHANGED <<watch, releasing, life>>
        \/ op = "close" /\ CloseFd(s)
        \/ /\ op = "shut" /\ watch' = watch \ {s}
           /\ fd' = [fd EXCEPT ![s] = "closed"]
           /\ self' = [self EXCEPT ![s] = FALSE]
           /\ UNCHANGED <<closing, releasing>>
  /\ UNCHANGED <<lwip, loopVars, rpc, ready, reactorUp, stackTasks>>

(* Reactor::loop: the batch is done; test running and poll, ...            *)
Poll ==
  /\ rpc = "drain" /\ releasing = {} /\ batch = 0
  /\ \/ reactorUp /\ rpc' = "handle" /\ ready' \in SUBSET watch /\ UNCHANGED watch
     \/ ~reactorUp /\ rpc' = "stopped" /\ watch' = {} /\ UNCHANGED ready
  /\ UNCHANGED <<lwip, loopVars, releasing, batch, reactorUp, life, tasks,
                 stackTasks>>

(* Mutant of DrainTasks: one task too many.                                *)
DrainTasksPast ==
  /\ rpc = "handle" /\ releasing = {} /\ ready = {}
  /\ rpc' = "drain" /\ batch' = Len(tasks) + 1
  /\ UNCHANGED <<lwip, loopVars, watch, ready, releasing, reactorUp, life, tasks,
                 stackTasks>>

(* ... handle the events, and take the tasks posted so far.                *)
DrainTasks ==
  /\ rpc = "handle" /\ releasing = {} /\ ready = {}
  /\ rpc' = "drain" /\ batch' = Len(tasks)
  /\ UNCHANGED <<lwip, loopVars, watch, ready, releasing, reactorUp, life, tasks,
                 stackTasks>>

Handling(s) == rpc = "handle" /\ releasing = {} /\ s \in ready

(* onFdReadable: a datagram for the source, ...                            *)
ReadDatagram ==
  /\ \E s \in Session :
       /\ Handling(s) /\ Len(stackTasks) + Len(tasks) < MaxTasks
       /\ stackTasks' = Append(stackTasks, <<"reply", s>>)
  /\ UNCHANGED <<lwip, loopVars, reactorVars, life, tasks>>

(* ... no more of them, or an error.                                       *)
ReadEnds ==
  /\ \E s \in Session :
       /\ Handling(s)
       /\ ready' = ready \ {s}
       /\ CloseFd(s) \/ UNCHANGED <<watch, releasing, life>>
  /\ UNCHANGED <<lwip, loopVars, rpc, batch, reactorUp, tasks, stackTasks>>

StackStep == LoopTop \/ StackTask \/ StackOther \/ Reap \/ Teardown
ReactorStep == Release \/ ReactorTask \/ Poll \/ DrainTasks \/ ReadEnds

Next ==
  \/ Input \/ Shutdown \/ Tick
  \/ StackStep \/ StopReactor
  \/ ReactorStep \/ ReadDatagram

(* Both threads run, and a socket does not for ever hold another datagram. *)
Fairness == WF_vars(StackStep) /\ WF_vars(ReactorStep)

Spec == Init /\ [][Next]_vars
FairSpec == Spec /\ Fairness

-----------------------------------------------------------------------------
(* Properties.                                                             *)

(* session_udp.cc:62: the raw pointer that lwIP passes to recvTrampoline   *)
(* is valid: as long as the pcb exists, somebody holds the session,        *)
(* whatever the table, the reaper and the two closing paths have done      *)
(* with it.                                                                *)
RecvArgValid == \A s \in Session : pcb[s] => Alive(s)

(* The Reactor polls, reads and adds only sockets that are open: a closed  *)
(* number may by then belong to another session.                           *)
FdSafe ==
  \A s \in Session :
    \/ s \in watch \cup ready
    \/ \E i \in 1 .. Len(tasks) : tasks[i] = <<"add", s>>
    => fd[s] = "open"

(* A reply to a session in the table finds its way back: the entry of its  *)
(* source is not aged out before the session is reaped (feedToLwip,        *)
(* output, reapIdleUdpSessions).                                           *)
PeerKnown == udpSessions /= NoSession => peer /= NoPeer

Released(s) == ~pcb[s] /\ ~self[s] /\ fd[s] = "closed"

(* A session that begins to close, in whichever thread, is released at     *)
(* both ends unless the stack is stopped (closeFromReactor,                *)
(* closeFromStack, shutdownFromStack).                                     *)
SessionEnds == \A s \in Session : closing[s] ~> (Released(s) \/ ~running)

(* session_udp.cc:62: "while the session lives it is held by udpSessions". *)
HeldWhileAlive == \A s \in Session : pcb[s] /\ ~closing[s] => udpSessions = s

(* A session keeps itself alive only as long as it has a socket.           *)
SelfHasFd == \A s \in Session : self[s] /\ ~closing[s] => fd[s] = "open"
=============================================================================
