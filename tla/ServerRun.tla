----------------------------- MODULE ServerRun ------------------------------
(***************************************************************************)
(* The life of the server process around WsServer: main and its signal     *)
(* handler (candy-cli/src/main.cc), the loop of candy::server::run         *)
(* (candy/src/candy/server.cc) and Server::run (candy/src/core/server.cc). *)
(*                                                                         *)
(* The signal handler may run on any thread, so its two statements         *)
(* interleave with the main thread.  That it takes a mutex the interrupted *)
(* thread may hold is left out.  When run has returned the connection      *)
(* threads, which belong to Poco's pool, still finish.                     *)
(***************************************************************************)
EXTENDS WsServer

CONSTANTS
  Repeat     \* bound: whether a signal may come again after the first one

VARIABLES
  phase,     \* what the main thread does next
  alive,     \* candy::server::running
  server,    \* the pointer candy::server::server is set
  srun,      \* Server::running
  handler    \* the signal handler: "idle", or "flagged" between its stores

runVars == <<phase, alive, server, srun, handler>>
serverVars == <<vars, runVars>>

Phases == {"loop", "sleep", "made", "started", "waiting", "ended", "crashed"}

ServerTypeOK ==
  /\ TypeOK
  /\ phase \in Phases
  /\ {alive, server, srun} \subseteq BOOLEAN
  /\ handler \in {"idle", "flagged"}

ServerInit ==
  /\ running = FALSE
  /\ Fresh
  /\ phase = "loop"
  /\ alive = TRUE
  /\ server = FALSE
  /\ srun = FALSE
  /\ handler = "idle"

-----------------------------------------------------------------------------
(* The main thread.                                                        *)

(* while (running.load()), then the sleep of a second.                     *)
TestAlive ==
  /\ phase = "loop"
  /\ phase' = IF alive THEN "sleep" ELSE "ended"
  /\ UNCHANGED <<vars, alive, server, srun, handler>>

(* A new Server, configured; its running is false.                         *)
MakeServer ==
  /\ phase = "sleep"
  /\ phase' = "made"
  /\ server' = TRUE
  /\ srun' = FALSE
  /\ UNCHANGED <<vars, alive, handler>>

(* Server::run, running.store(true).                                       *)
StoreRunning ==
  /\ phase = "made"
  /\ phase' = "started"
  /\ srun' = TRUE
  /\ UNCHANGED <<vars, alive, server, handler>>

(* ws.run(): listen succeeds or throws; its result is not looked at.       *)
Listen ==
  /\ phase = "started"
  /\ phase' = "waiting"
  /\ running' \in BOOLEAN
  /\ UNCHANGED <<step, ctxVars, mapVars, dhcp>>
  /\ UNCHANGED <<alive, server, srun, handler>>

(* Mutant of Returns: ws.shutdown() is left to the destructor.             *)
ReturnsAtOnce ==
  /\ phase = "waiting"
  /\ ~srun
  /\ phase' = "loop"
  /\ UNCHANGED <<vars, alive, server, srun, handler>>

(* running.wait(true) is over: ws.shutdown(), and back to the loop.        *)
Returns ==
  /\ phase = "waiting"
  /\ ~srun
  /\ Shutdown
  /\ phase' = "loop"
  /\ UNCHANGED <<alive, server, srun, handler>>

Main == TestAlive \/ MakeServer \/ StoreRunning \/ Listen \/ Returns

-----------------------------------------------------------------------------
(* SIGINT or SIGTERM: candy::server::shutdown.                             *)

Up == phase \notin {"ended", "crashed"}

(* Mutant of StoreStopped: only the server is told, not the loop.          *)
StoreStoppedNot ==
  /\ Up
  /\ alive \/ Repeat
  /\ handler = "idle"
  /\ handler' = "flagged"
  /\ UNCHANGED <<vars, phase, alive, server, srun>>

(* running.store(false) ...                                                *)
StoreStopped ==
  /\ Up
  /\ alive \/ Repeat
  /\ handler = "idle"
  /\ handler' = "flagged"
  /\ alive' = FALSE
  /\ UNCHANGED <<vars, phase, server, srun>>

(* ... and server->shutdown(), through a null pointer before the first     *)
(* server is made: the process crashes.                                    *)
StopServer ==
  /\ Up
  /\ handler = "flagged"
  /\ handler' = "idle"
  /\ srun' = FALSE
  /\ phase' = IF server THEN phase ELSE "crashed"
  /\ UNCHANGED <<vars, alive, server>>

ServerNext ==
  \/ Main
  \/ StoreStopped
  \/ StopServer
  \/ \E c \in Conn : Serve(c) /\ UNCHANGED runVars

(* Both threads run, and so do those of the connections.                   *)
ServerFairness ==
  /\ WF_serverVars(Main)
  /\ WF_serverVars(StopServer)
  /\ Fairness

ServerSpec == ServerInit /\ [][ServerNext]_serverVars
ServerFairSpec == ServerSpec /\ ServerFairness

-----------------------------------------------------------------------------
(* Properties.                                                             *)

(* A signal while the server is up ends it: run returns, every connection, *)
(* replaced, rejected, hung or in the middle of its handshake, leaves, and *)
(* the registry stays empty for good (but for what clients that            *)
(* authenticate twice leave behind).                                       *)
StopDrains ==
  phase = "waiting" /\ handler = "flagged"
    ~> [](/\ phase = "ended"
          /\ \A c \in Conn : step[c] = "free"
          /\ \A a \in Hosts : ipCtxMap[a] \in Repeats \cup {NoConn})

(* The connection threads keep a pointer to their WebSocketServer, and     *)
(* nothing waits for them: the loop of candy::server::run must not replace *)
(* the server it has run.  Only the order of the two stores of             *)
(* candy::server::shutdown sees to it.                                     *)
NeverReplaced == [][server /\ phase = "sleep" => phase' = "sleep"]_serverVars

(* candy/src/core/server.h says of Server::shutdown that it blocks until   *)
(* all modules have ended; it only stores a flag.                          *)
ShutdownBlocks ==
  [][handler = "flagged" /\ handler' = "idle" /\ server
       => ~running /\ \A c \in Conn : step[c] = "free"]_serverVars

(* A signal ends the process, whenever it comes.                           *)
StopEnds == (handler = "flagged") ~> ~Up
=============================================================================
