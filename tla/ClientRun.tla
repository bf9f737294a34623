----------------------------- MODULE ClientRun ------------------------------
(***************************************************************************)
(* The life of client instances: the HTTP handlers of candy-service        *)
(* (candy-service/src/main.cc) that start and stop networks by id, the     *)
(* instance table and the retry loop of candy/src/candy/client.cc, and     *)
(* Client::run (candy/src/core/client.cc), which starts the modules and    *)
(* waits for their threads.                                                *)
(*                                                                         *)
(* One run thread per accepted run request; the instance and the client    *)
(* object of a run are known by its thread.                                *)
(***************************************************************************)
EXTENDS Naturals

CONSTANTS
  Id,        \* names of networks
  Run,       \* run threads
  Handler,   \* threads that handle shutdown requests
  Userspace, \* the userspace-stack option: NetStack starts threads
  StunMayFail, \* the name of the STUN server may not resolve
  NoId, NoRun

ASSUME ClientRunAssumption ==
  /\ NoId \notin Id /\ NoRun \notin Run
  /\ {Userspace, StunMayFail} \subseteq BOOLEAN

VARIABLES
  threadMap,   \* candy-service: id |-> its run thread
  instanceMap, \* candy::client: id |-> the run that has the instance
  idOf,        \* the id a run thread was started for
  pc,          \* what a run thread does next
  instRunning, \* Instance::running
  held,        \* runs whose Client is held by a shared_ptr
  cliRunning,  \* Client::running
  modules,     \* modules of the Client whose threads are started
  req,         \* what a handler does next, for which id and run
  crashed      \* std::terminate was called

runVars == <<pc, instRunning, held, cliRunning, modules>>
vars == <<threadMap, instanceMap, idOf, runVars, req, crashed>>

Steps == {"unused", "enter", "test", "sleep", "new", "netstack", "ws", "peer",
          "wait", "destroy", "erase", "done"}
Modules == {"netstack", "ws", "tun", "peer"}

TypeOK ==
  /\ threadMap \in [Id -> Run \cup {NoRun}]
  /\ instanceMap \in [Id -> Run \cup {NoRun}]
  /\ idOf \in [Run -> Id \cup {NoId}]
  /\ pc \in [Run -> Steps]
  /\ instRunning \in [Run -> BOOLEAN]
  /\ held \subseteq Run
  /\ cliRunning \in [Run -> BOOLEAN]
  /\ modules \in [Run -> SUBSET Modules]
  /\ req \in [Handler -> [step : {"idle", "lookup", "exit", "detach"},
                          id : Id \cup {NoId}, run : Run \cup {NoRun}]]
  /\ crashed \in BOOLEAN

Idle == [step |-> "idle", id |-> NoId, run |-> NoRun]

Init ==
  /\ threadMap = [i \in Id |-> NoRun]
  /\ instanceMap = [i \in Id |-> NoRun]
  /\ idOf = [r \in Run |-> NoId]
  /\ pc = [r \in Run |-> "unused"]
  /\ instRunning = [r \in Run |-> FALSE]
  /\ held = {}
  /\ cliRunning = [r \in Run |-> FALSE]
  /\ modules = [r \in Run |-> {}]
  /\ req = [h \in Handler |-> Idle]
  /\ crashed = FALSE

(* instance_mutex is held shared by a shutdown in progress.                *)
WriteLockFree == \A h \in Handler : req[h].step /= "exit"

-----------------------------------------------------------------------------
(* candy-service.                                                          *)

(* Mutant of RunRequest: the map is given the id twice.                    *)
RunRequestSwapped(r, i) ==
  /\ pc[r] = "unused"
  /\ threadMap[i] = NoRun
  /\ threadMap' = [threadMap EXCEPT ![i] = i]
  /\ idOf' = [idOf EXCEPT ![r] = i]
  /\ pc' = [pc EXCEPT ![r] = "enter"]
  /\ UNCHANGED <<instanceMap, instRunning, held, cliRunning, modules, req>>

(* RunHandler answers "success" for an id without a thread, and starts one *)
(* (otherwise "id already exists").                                        *)
RunRequest(r, i) ==
  /\ pc[r] = "unused"
  /\ threadMap[i] = NoRun
  /\ threadMap' = [threadMap EXCEPT ![i] = r]
  /\ idOf' = [idOf EXCEPT ![r] = i]
  /\ pc' = [pc EXCEPT ![r] = "enter"]
  /\ UNCHANGED <<instanceMap, instRunning, held, cliRunning, modules, req>>

(* ShutdownHandler, in the steps between which it holds no lock or another *)
(* thread can see the difference.                                          *)
ShutdownRequest(h, i) ==
  /\ req[h].step = "idle"
  /\ req' = [req EXCEPT ![h] = [step |-> "lookup", id |-> i, run |-> NoRun]]
  /\ UNCHANGED <<threadMap, instanceMap, idOf, runVars>>

(* candy::client::shutdown and Instance::exit: first the instance, ...     *)
Lookup(h) ==
  /\ req[h].step = "lookup"
  /\ LET r == instanceMap[req[h].id] IN
       \/ /\ r = NoRun
          /\ req' = [req EXCEPT ![h].step = "detach"]
          /\ UNCHANGED instRunning
       \/ /\ r /= NoRun
          /\ instRunning' = [instRunning EXCEPT ![r] = FALSE]
          /\ req' = [req EXCEPT ![h] =
                       [step |-> "exit", id |-> @.id, run |-> r]]
  /\ UNCHANGED <<threadMap, instanceMap, idOf, pc, held, cliRunning, modules>>

(* ... then its client, if there is one at this moment.                    *)
Exit(h) ==
  /\ req[h].step = "exit"
  /\ cliRunning' = IF req[h].run \in held
                     THEN [cliRunning EXCEPT ![req[h].run] = FALSE]
                     ELSE cliRunning
  /\ req' = [req EXCEPT ![h].step = "detach"]
  /\ UNCHANGED <<threadMap, instanceMap, idOf, pc, instRunning, held, modules>>

(* The thread is detached and the id is free; the answer is "success" if   *)
(* there was one.                                                          *)
Detach(h) ==
  /\ req[h].step = "detach"
  /\ threadMap' = [threadMap EXCEPT ![req[h].id] = NoRun]
  /\ req' = [req EXCEPT ![h] = Idle]
  /\ UNCHANGED <<instanceMap, idOf, runVars>>

-----------------------------------------------------------------------------
(* candy::client::run.                                                     *)

Goto(r, s) == pc' = [pc EXCEPT ![r] = s]

(* Mutant of TryCreateInstance: a second instance replaces the first.      *)
TryCreateInstanceReplaces(r) ==
  /\ pc[r] = "enter"
  /\ WriteLockFree
  /\ instanceMap' = [instanceMap EXCEPT ![idOf[r]] = r]
  /\ instRunning' = [instRunning EXCEPT ![r] = TRUE]
  /\ Goto(r, "test")
  /\ UNCHANGED <<threadMap, idOf, held, cliRunning, modules, req>>

TryCreateInstance(r) ==
  /\ pc[r] = "enter"
  /\ WriteLockFree
  /\ \/ /\ instanceMap[idOf[r]] = NoRun
        /\ instanceMap' = [instanceMap EXCEPT ![idOf[r]] = r]
        /\ instRunning' = [instRunning EXCEPT ![r] = TRUE]
        /\ Goto(r, "test")
     \/ /\ instanceMap[idOf[r]] /= NoRun
        /\ Goto(r, "done")
        /\ UNCHANGED <<instanceMap, instRunning>>
  /\ UNCHANGED <<threadMap, idOf, held, cliRunning, modules, req>>

(* Mutant of TestRunning: the loop goes on for good.                       *)
TestRunningNever(r) ==
  /\ pc[r] = "test"
  /\ Goto(r, "sleep")
  /\ UNCHANGED <<threadMap, instanceMap, idOf, instRunning, held, cliRunning,
                 modules, req>>

TestRunning(r) ==
  /\ pc[r] = "test"
  /\ Goto(r, IF instRunning[r] THEN "sleep" ELSE "erase")
  /\ UNCHANGED <<threadMap, instanceMap, idOf, instRunning, held, cliRunning,
                 modules, req>>

(* A second later: create_client and the configuration.                    *)
CreateClient(r) ==
  /\ pc[r] = "sleep"
  /\ held' = held \cup {r}
  /\ cliRunning' = [cliRunning EXCEPT ![r] = FALSE]
  /\ Goto(r, "new")
  /\ UNCHANGED <<threadMap, instanceMap, idOf, instRunning, modules, req>>

(* try_erase_instance, by id.                                              *)
EraseInstance(r) ==
  /\ pc[r] = "erase"
  /\ WriteLockFree
  /\ instanceMap' = [instanceMap EXCEPT ![idOf[r]] = NoRun]
  /\ Goto(r, "done")
  /\ UNCHANGED <<threadMap, idOf, instRunning, held, cliRunning, modules, req>>

-----------------------------------------------------------------------------
(* Client::run.                                                            *)

Begin(r) ==
  /\ pc[r] = "new"
  /\ cliRunning' = [cliRunning EXCEPT ![r] = TRUE]
  /\ Goto(r, "netstack")
  /\ UNCHANGED <<threadMap, instanceMap, idOf, instRunning, held, modules, req>>

(* A module starts its threads and the next one follows, ...               *)
Start(r, ms, next) ==
  /\ modules' = [modules EXCEPT ![r] = @ \cup ms]
  /\ Goto(r, next)
  /\ UNCHANGED held

(* ... or it fails: Client::run returns at once, and the last shared_ptr   *)
(* goes with the loop iteration.                                           *)
Drop(r) ==
  /\ held' = held \ {r}
  /\ Goto(r, "destroy")

StartFails(r) == Drop(r) /\ UNCHANGED modules

StartNetStack(r) ==
  /\ pc[r] = "netstack"
  /\ Start(r, IF Userspace THEN {"netstack"} ELSE {}, "ws")

(* WebSocketClient::run fails when the server is not reached; Tun::run,    *)
(* which follows, does not fail.                                           *)
StartWs(r) ==
  /\ pc[r] = "ws"
  /\ Start(r, {"ws", "tun"}, "peer") \/ StartFails(r)

(* PeerManager::run fails when the STUN server has no address.             *)
StartPeer(r) ==
  /\ pc[r] = "peer"
  /\ Start(r, {"peer"}, "wait") \/ (StunMayFail /\ StartFails(r))

StartModule(r) ==
  /\ StartNetStack(r) \/ StartWs(r) \/ StartPeer(r)
  /\ UNCHANGED <<threadMap, instanceMap, idOf, instRunning, cliRunning, req>>

(* A thread of a module ends (the connection is lost, an exception) and    *)
(* calls Client::shutdown.                                                 *)
ModuleStops(r) ==
  /\ modules[r] /= {}
  /\ cliRunning[r]
  /\ cliRunning' = [cliRunning EXCEPT ![r] = FALSE]
  /\ UNCHANGED <<threadMap, instanceMap, idOf, pc, instRunning, held, modules,
                 req>>

(* wait of all modules: their threads end when running is cleared.  But    *)
(* Tun::wait looks for tunThread before it joins msgThread, which may      *)
(* still start it (handleTunAddr): then nobody joins it.                   *)
Wait(r) ==
  /\ pc[r] = "wait"
  /\ ~cliRunning[r]
  /\ \E left \in {{}, {"tun"}} : modules' = [modules EXCEPT ![r] = left]
  /\ Drop(r)
  /\ UNCHANGED <<threadMap, instanceMap, idOf, instRunning, cliRunning, req>>

(* Mutant of Destroy: the loop ends with the first client.                 *)
DestroyLeaves(r) ==
  /\ pc[r] = "destroy"
  /\ modules[r] = {}
  /\ Goto(r, "erase")
  /\ UNCHANGED <<threadMap, instanceMap, idOf, instRunning, held, cliRunning,
                 modules, req, crashed>>

(* ~Client: ~NetStack clears its own flag and joins its threads, one of    *)
(* which loops while the CLIENT runs; the std::thread of another module    *)
(* that nobody joined calls std::terminate.                                *)
Destroy(r) ==
  /\ pc[r] = "destroy"
  /\ \/ /\ modules[r] = {}
        /\ Goto(r, "test")
        /\ UNCHANGED <<modules, crashed>>
     \/ /\ "netstack" \in modules[r] /\ ~cliRunning[r]
        /\ modules' = [modules EXCEPT ![r] = @ \ {"netstack"}]
        /\ UNCHANGED <<pc, crashed>>
     \/ /\ modules[r] /= {} /\ "netstack" \notin modules[r]
        /\ crashed' = TRUE
        /\ UNCHANGED <<pc, modules>>
  /\ UNCHANGED <<threadMap, instanceMap, idOf, instRunning, held, cliRunning,
                 req>>

-----------------------------------------------------------------------------
RunStep(r) ==
  /\ ~crashed
  /\ \/ TryCreateInstance(r) \/ TestRunning(r) \/ CreateClient(r)
     \/ EraseInstance(r) \/ Begin(r) \/ StartModule(r) \/ Wait(r)
  /\ UNCHANGED crashed

HandlerStep(h) ==
  ~crashed /\ (Lookup(h) \/ Exit(h) \/ Detach(h)) /\ UNCHANGED crashed

Requests ==
  /\ ~crashed
  /\ \/ \E r \in Run, i \in Id : RunRequest(r, i)
     \/ \E h \in Handler, i \in Id : ShutdownRequest(h, i)
     \/ \E r \in Run : ModuleStops(r)
  /\ UNCHANGED crashed

Next ==
  \/ Requests
  \/ \E r \in Run : RunStep(r) \/ (~crashed /\ Destroy(r))
  \/ \E h \in Handler : HandlerStep(h)

(* Threads run, and shutdown requests do not keep the write lock from a    *)
(* run thread forever.  Nothing is assumed of connections, requests and    *)
(* failures.                                                               *)
Fairness ==
  /\ \A r \in Run : SF_vars(RunStep(r)) /\ WF_vars(~crashed /\ Destroy(r))
  /\ \A h \in Handler : WF_vars(HandlerStep(h))

Spec == Init /\ [][Next]_vars
FairSpec == Spec /\ Fairness

-----------------------------------------------------------------------------
(* Properties.                                                             *)

Active(r) == pc[r] \notin {"unused", "enter", "done"}

(* One network per id: two runs of the same id never overlap, although a   *)
(* shutdown frees the id in threadMap long before its run has ended, and   *)
(* the erasure at the end of a run is by id (try_create_instance).         *)
OneRunPerId ==
  \A r, s \in Run : Active(r) /\ Active(s) /\ idOf[r] = idOf[s] => r = s

(* A run that goes on can be stopped: its instance is the registered one,  *)
(* so a later shutdown of its id finds it.                                 *)
ActiveIsRegistered ==
  \A r \in Run : Active(r) <=> \E i \in Id : instanceMap[i] = r

(* The instance table is exact, and has one run for an id.                 *)
RunsMatchIds == OneRunPerId /\ ActiveIsRegistered

(* A client whose connection broke is replaced by a new one, unless the    *)
(* instance was told to stop (the loop of candy::client::run) or a later   *)
(* client took the whole process down.                                     *)
Reconnects ==
  \A r \in Run : (pc[r] = "wait" /\ ~cliRunning[r])
                   ~> (pc[r] = "new" \/ ~instRunning[r] \/ crashed)

(* A stop that has reached the client object of a run in Client::run ends  *)
(* the run (Instance::exit, the wait of all modules, the loop).            *)
StopInRunEnds ==
  \A r \in Run : (pc[r] = "wait" /\ ~instRunning[r] /\ ~cliRunning[r])
                   ~> (pc[r] = "done" \/ crashed)

(* What candy-service/README.md says of the shutdown request: the id is    *)
(* used to close networks, and the answer is "success"; so a run that lost *)
(* its place in threadMap ends.                                            *)
Detached(r) == idOf[r] /= NoId /\ threadMap[idOf[r]] /= r
ShutdownCloses == \A r \in Run : Detached(r) ~> (pc[r] = "done" \/ crashed)

(* What candy-service/README.md says of the run request: "success" means   *)
(* that the network runs; no accepted run is given up at once.             *)
SuccessMeansRun ==
  [][\A r \in Run : ~(pc[r] = "enter" /\ pc'[r] = "done")]_vars

(* What netstack.cc says of its wait: it drives its threads to their end   *)
(* itself, "no explicit shutdown() by the Client is needed first".         *)
DestroyEnds ==
  \A r \in Run : pc[r] = "destroy" ~> (pc[r] /= "destroy" \/ crashed)

(* What one would expect of Tun::wait and does not get: a client that was  *)
(* waited for is destroyed without std::terminate.                         *)
DestroyedQuietly == ~crashed
=============================================================================
