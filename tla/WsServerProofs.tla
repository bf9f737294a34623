--------------------------- MODULE WsServerProofs ---------------------------
(***************************************************************************)
(* Proofs about the registry of WsServer in the life of the server process *)
(* (ServerRun), for any number of connections, devices and addresses.      *)
(***************************************************************************)
EXTENDS ServerRun, TLAPS

(* RegistryLive and ActiveRegistered hold each other up: an entry can be   *)
(* replaced without leaving a second active connection because it points   *)
(* to the only one, and erased safely because nothing else points there.   *)
IInv == TypeOK /\ RegistryLive /\ ActiveRegistered

(* The allocator stays in its network.                                     *)
LEMMA NextHostInNetwork ==
  ASSUME NEW start \in Hosts, NEW i \in 1 .. PoolSize
  PROVE  NextHost(start, i) \in Hosts
BY WsServerAssumption DEF NextHost, Hosts

LEMMA InitIInv == ServerInit => IInv
<1> SUFFICES ASSUME running = FALSE, Fresh PROVE IInv
  BY Zenon DEF ServerInit
<1>1. 0 \in Hosts BY WsServerAssumption DEF Hosts
<1>2. TypeOK BY <1>1 DEF Fresh, TypeOK, Steps
<1>3. RegistryLive BY WsServerAssumption DEF Fresh, RegistryLive
<1>4. ActiveRegistered BY DEF Fresh, ActiveRegistered
<1> QED BY <1>2, <1>3, <1>4 DEF IInv

(* Steps that touch neither an entry nor an address.  They may begin a     *)
(* thread or mark connections, never end a thread or clear a mark.         *)
LEMMA FramePreserves ==
  ASSUME IInv, TypeOK',
         \A b \in Conn : /\ step'[b] = "free" => step[b] = "free"
                         /\ status'[b] = "ok" => status[b] = "ok",
         ip' = ip, ipCtxMap' = ipCtxMap, dangling' = dangling
  PROVE  IInv'
<1> USE DEF IInv
<1>1. RegistryLive'
  <2> SUFFICES ASSUME NEW a \in Hosts, ipCtxMap[a] \in Conn \ Repeats
               PROVE  /\ a \notin dangling
                      /\ step'[ipCtxMap[a]] /= "free"
                      /\ ip[ipCtxMap[a]] = a
    BY DEF RegistryLive
  <2>1. a \notin dangling /\ step[ipCtxMap[a]] /= "free" /\ ip[ipCtxMap[a]] = a
    BY DEF RegistryLive
  <2> QED BY <2>1
<1>2. ActiveRegistered'
  BY DEF ActiveRegistered
<1> QED BY <1>1, <1>2

LEMMA ConnectPreserves ==
  ASSUME IInv, NEW c \in Conn, Connect(c)
  PROVE  IInv'
<1>1. TypeOK' BY DEF IInv, TypeOK, Connect, ctxVars, mapVars, Steps
<1> QED BY <1>1, FramePreserves DEF IInv, TypeOK, Connect, ctxVars, mapVars

LEMMA VanishPreserves ==
  ASSUME IInv, NEW c \in Conn, Vanish(c)
  PROVE  IInv'
<1>1. TypeOK' BY DEF IInv, TypeOK, Vanish, ctxVars, mapVars, Steps
<1> QED BY <1>1, FramePreserves DEF IInv, TypeOK, Vanish, ctxVars, mapVars

(* A message that is not accepted marks the connection and leaves its      *)
(* entry.                                                                  *)
LEMMA RejectPreserves ==
  ASSUME IInv, NEW c \in Conn, RejectMsg(c)
  PROVE  IInv'
<1>1. TypeOK' BY DEF IInv, TypeOK, RejectMsg, Loop, mapVars, Steps
<1> QED BY <1>1, FramePreserves DEF IInv, TypeOK, RejectMsg, Loop, mapVars

LEMMA VMacPreserves ==
  ASSUME IInv, NEW c \in Conn, NEW d \in Dev, HandleVMacMsg(c, d)
  PROVE  IInv'
<1>1. TypeOK' BY DEF IInv, TypeOK, HandleVMacMsg, Loop, mapVars, Steps
<1> QED BY <1>1, FramePreserves DEF IInv, TypeOK, HandleVMacMsg, Loop, mapVars

LEMMA RequestPreserves ==
  ASSUME IInv, NEW c \in Conn, NEW want \in Hosts \cup {NoAddr},
         GrantWanted(c, want) \/ StartAllocation(c, want)
  PROVE  IInv'
<1>1. TypeOK'
  BY DEF IInv, TypeOK, GrantWanted, StartAllocation, Loop, mapVars, ctxVars,
         Steps
<1> QED
  BY <1>1, FramePreserves
     DEF IInv, TypeOK, GrantWanted, StartAllocation, Loop, mapVars, ctxVars

(* Proved under the invariant that an allocation has a starting point.     *)
LEMMA AllocationPreserves ==
  ASSUME IInv, NEW c \in Conn, scan[c] \in Hosts, FinishAllocation(c)
  PROVE  IInv'
<1>1. dhcp' \in Hosts
  BY NextHostInNetwork DEF IInv, TypeOK, FinishAllocation, Ends
<1>2. /\ status' \in [Conn -> {"ok", "bad"}]
      /\ \A b \in Conn : status'[b] = "ok" => status[b] = "ok"
  BY DEF IInv, TypeOK, FinishAllocation
<1>3. TypeOK'
  BY <1>1, <1>2 DEF IInv, TypeOK, FinishAllocation, Loop, mapVars, Steps
<1> QED
  BY <1>2, <1>3, FramePreserves
     DEF IInv, TypeOK, FinishAllocation, Loop, mapVars

(* Authentication: the connection registered for the address is marked,    *)
(* unless its entry dangled, and no mark is cleared.                       *)
LEMMA KickMarks ==
  ASSUME TypeOK, NEW a \in Hosts, Kick(a)
  PROVE  /\ status' \in [Conn -> {"ok", "bad"}]
         /\ \A b \in Conn : status'[b] = "ok" => status[b] = "ok"
         /\ \A b \in Conn : ipCtxMap[a] = b /\ a \notin dangling
                            => status'[b] = "bad"
BY WsServerAssumption DEF TypeOK, Kick

(* ... so that it is no longer active, and the new one is registered.      *)
LEMMA AuthPreserves ==
  ASSUME IInv, NEW c \in Conn, NEW a \in Hosts, HandleAuthMsg(c, a)
  PROVE  IInv'
<1> USE WsServerAssumption DEF IInv
<1>1. /\ status' \in [Conn -> {"ok", "bad"}]
      /\ \A b \in Conn : status'[b] = "ok" => status[b] = "ok"
      /\ \A b \in Conn : ipCtxMap[a] = b /\ a \notin dangling
                         => status'[b] = "bad"
  BY KickMarks DEF HandleAuthMsg, Register
<1>2. TypeOK'
  BY <1>1 DEF HandleAuthMsg, Register, Loop, TypeOK, Steps
<1>3. RegistryLive'
  <2> SUFFICES ASSUME NEW b \in Hosts, ipCtxMap'[b] \in Conn \ Repeats
               PROVE  /\ b \notin dangling'
                      /\ step'[ipCtxMap'[b]] /= "free"
                      /\ ip'[ipCtxMap'[b]] = b
    BY DEF RegistryLive
  <2>1. CASE b = a
    <3>1. ipCtxMap'[b] = c
      BY <2>1 DEF HandleAuthMsg, Register, TypeOK
    <3> QED BY <2>1, <3>1 DEF HandleAuthMsg, Register, Loop, TypeOK
  <2>2. CASE b /= a
    <3>1. ipCtxMap'[b] = ipCtxMap[b]
      BY <2>2 DEF HandleAuthMsg, Register, TypeOK
    <3>2. /\ b \notin dangling
          /\ step[ipCtxMap[b]] /= "free"
          /\ ip[ipCtxMap[b]] = b
      BY <3>1 DEF RegistryLive
    <3>3. ipCtxMap[b] /= c
      BY <3>1, <3>2 DEF HandleAuthMsg, Hosts
    <3> QED BY <3>1, <3>2, <3>3 DEF HandleAuthMsg, Register, Loop, TypeOK
  <2> QED BY <2>1, <2>2
<1>4. ActiveRegistered'
  <2> SUFFICES ASSUME NEW b \in Conn, ip'[b] /= NoAddr, status'[b] = "ok"
               PROVE  ipCtxMap'[ip'[b]] = b /\ ip'[b] \notin dangling'
    BY DEF ActiveRegistered
  <2>1. CASE b = c
    BY <2>1 DEF HandleAuthMsg, Register, TypeOK
  <2>2. CASE b /= c
    <3>1. status[b] = "ok" /\ ip'[b] = ip[b]
      BY <2>2, <1>1 DEF HandleAuthMsg, Register, TypeOK
    <3>2. ip[b] \in Hosts /\ ipCtxMap[ip[b]] = b /\ ip[b] \notin dangling
      BY <3>1 DEF ActiveRegistered, TypeOK
    <3>3. ip[b] /= a
      BY <3>2, <1>1
    <3> QED BY <3>1, <3>2, <3>3 DEF HandleAuthMsg, Register, TypeOK
  <2> QED BY <2>1, <2>2
<1> QED BY <1>2, <1>3, <1>4

(* The end of a connection: its own entry goes, no other entry does.  Only *)
(* a client that authenticated again leaves one that dangles.              *)
LEMMA LeavePreserves ==
  ASSUME IInv, NEW c \in Conn, Leave(c)
  PROVE  IInv'
<1> USE WsServerAssumption DEF IInv
<1>1. TypeOK' BY DEF Leave, Unregister, TypeOK, Steps
<1>2. RegistryLive'
  <2> SUFFICES ASSUME NEW b \in Hosts, ipCtxMap'[b] \in Conn \ Repeats
               PROVE  /\ b \notin dangling'
                      /\ step'[ipCtxMap'[b]] /= "free"
                      /\ ip'[ipCtxMap'[b]] = b
    BY DEF RegistryLive
  <2>1. ipCtxMap'[b] = ipCtxMap[b] /\ ~(b = ip[c] /\ ipCtxMap[b] = c)
    BY DEF Leave, Unregister, TypeOK
  <2>2. /\ b \notin dangling
        /\ step[ipCtxMap[b]] /= "free"
        /\ ip[ipCtxMap[b]] = b
    BY <2>1 DEF RegistryLive
  <2>3. ipCtxMap[b] /= c BY <2>1, <2>2
  <2> QED BY <2>1, <2>2, <2>3 DEF Leave, TypeOK
<1>3. ActiveRegistered'
  <2> SUFFICES ASSUME NEW b \in Conn, ip'[b] /= NoAddr, status'[b] = "ok"
               PROVE  ipCtxMap'[ip'[b]] = b /\ ip'[b] \notin dangling'
    BY DEF ActiveRegistered
  <2>1. b /= c /\ ip'[b] = ip[b] /\ status[b] = "ok"
    BY DEF Leave, TypeOK
  <2>2. ip[b] \in Hosts /\ ipCtxMap[ip[b]] = b /\ ip[b] \notin dangling
    BY <2>1 DEF ActiveRegistered, TypeOK
  <2> QED BY <2>1, <2>2 DEF Leave, Unregister, TypeOK
<1> QED BY <1>1, <1>2, <1>3

(* A step of the process alone: no connection is concerned.                *)
Idle ==
  /\ running' \in BOOLEAN
  /\ UNCHANGED <<step, status, vmac, ip, scan, ipCtxMap, dangling, dhcp>>

LEMMA StepCases ==
  ASSUME running \in BOOLEAN, [ServerNext]_serverVars
  PROVE  Idle \/ \E c \in Conn : Serve(c)
BY DEF Idle, ServerNext, serverVars, vars, ctxVars, mapVars, Main, TestAlive,
       MakeServer, StoreRunning, Listen, Returns, Shutdown, StoreStopped,
       StopServer

(* An allocation in progress has read a starting point.                    *)
ScanInv == \A c \in Conn : step[c] = "alloc" => scan[c] \in Hosts

LEMMA ScanPreserves ==
  ASSUME IInv, ScanInv, [ServerNext]_serverVars
  PROVE  ScanInv'
<1> USE DEF IInv, TypeOK, ScanInv
<1>1. ASSUME NEW c \in Conn, Connect(c) PROVE ScanInv'
  BY <1>1 DEF Connect, ctxVars
<1>2. ASSUME NEW c \in Conn, RejectMsg(c) PROVE ScanInv'
  BY <1>2 DEF RejectMsg, Loop
<1>3. ASSUME NEW c \in Conn, NEW d \in Dev, HandleVMacMsg(c, d) PROVE ScanInv'
  BY <1>3 DEF HandleVMacMsg, Loop
<1>4. ASSUME NEW c \in Conn, NEW want \in Wanted \cup {NoAddr},
             GrantWanted(c, want) \/ StartAllocation(c, want)
      PROVE  ScanInv'
  BY <1>4 DEF GrantWanted, StartAllocation, Loop, ctxVars
<1>5. ASSUME NEW c \in Conn, FinishAllocation(c) PROVE ScanInv'
  BY <1>5 DEF FinishAllocation, Loop
<1>6. ASSUME NEW c \in Conn, NEW a \in Wanted, HandleAuthMsg(c, a) PROVE ScanInv'
  BY <1>6 DEF HandleAuthMsg, Loop
<1>7. ASSUME NEW c \in Conn, Leave(c) PROVE ScanInv'
  BY <1>7 DEF Leave
<1>8. ASSUME NEW c \in Conn, Vanish(c) PROVE ScanInv'
  BY <1>8 DEF Vanish, ctxVars
<1>9. CASE Idle
  BY <1>9 DEF Idle
<1> QED
  BY <1>1, <1>2, <1>3, <1>4, <1>5, <1>6, <1>7, <1>8, <1>9, StepCases
     DEF Serve, StopServing, Disconnect, RelayThrows

LEMMA NextPreserves ==
  ASSUME IInv, ScanInv, [ServerNext]_serverVars
  PROVE  IInv'
<1>2. CASE Idle
  BY <1>2 DEF Idle, IInv, TypeOK, RegistryLive, ActiveRegistered
<1>3. ASSUME NEW c \in Conn, FinishAllocation(c) PROVE IInv'
  BY <1>3, AllocationPreserves DEF ScanInv, FinishAllocation
<1>4. ASSUME NEW c \in Conn, Serve(c) PROVE IInv'
  BY <1>3, <1>4, ConnectPreserves, VanishPreserves, RejectPreserves, VMacPreserves,
     RequestPreserves, AuthPreserves, LeavePreserves, WsServerAssumption
     DEF Serve, StopServing, Disconnect, RelayThrows, Hosts
<1> QED
  BY <1>2, <1>4, StepCases DEF IInv, TypeOK

LEMMA Inductive == ServerSpec => [](IInv /\ ScanInv)
<1>1. ServerInit => IInv /\ ScanInv
  BY InitIInv DEF ServerInit, Fresh, ScanInv
<1>2. IInv /\ ScanInv /\ [ServerNext]_serverVars => (IInv /\ ScanInv)'
  BY NextPreserves, ScanPreserves
<1> QED BY <1>1, <1>2, PTL DEF ServerSpec

(* The state of the server and of the process always has its type.         *)
THEOREM TypeCorrect == ServerSpec => []ServerTypeOK
<1>1. ServerInit => ServerTypeOK
  BY InitIInv DEF ServerInit, ServerTypeOK, Phases, IInv
<1>2. ASSUME IInv, IInv', ServerTypeOK, [ServerNext]_serverVars
      PROVE  ServerTypeOK'
  BY <1>2
     DEF IInv, ServerTypeOK, Phases, ServerNext, serverVars, runVars, Main,
         TestAlive, MakeServer, StoreRunning, Listen, Returns, StoreStopped,
         StopServer
<1>3. IInv /\ ScanInv => IInv OBVIOUS
<1> QED BY <1>1, <1>2, <1>3, Inductive, PTL DEF ServerSpec

(* The registry is exact: no entry of a client that authenticates once     *)
(* dangles, and every active connection is the registered one, so that at  *)
(* most one is active per address, whatever the order of messages, rejects *)
(* and reconnects, cleanups and the shutdown.                              *)
THEOREM RegistryAlwaysExact == ServerSpec => []RegistryExact
<1>1. IInv /\ ScanInv => RegistryExact BY DEF IInv, RegistryExact
<1> QED BY Inductive, <1>1, PTL

-----------------------------------------------------------------------------
(* The loop of candy::server::run never makes a second server.             *)

(* Whoever sees the server stop finds the loop's flag cleared already: the *)
(* handler stores it first.                                                *)
RunInv ==
  /\ handler = "flagged" => alive = FALSE
  /\ phase \in {"started", "waiting"} /\ srun = FALSE => alive = FALSE
  /\ phase = "loop" /\ server = TRUE => alive = FALSE
  /\ phase = "sleep" => server = FALSE

LEMMA RunPreserves ==
  ASSUME ServerTypeOK, RunInv, [ServerNext]_serverVars
  PROVE  RunInv'
<1> USE DEF ServerTypeOK, RunInv
<1>1. CASE TestAlive BY <1>1 DEF TestAlive
<1>2. CASE MakeServer BY <1>2 DEF MakeServer
<1>3. CASE StoreRunning BY <1>3 DEF StoreRunning
<1>4. CASE Listen BY <1>4 DEF Listen
<1>5. CASE Returns BY <1>5 DEF Returns
<1>6. CASE StoreStopped BY <1>6 DEF StoreStopped
<1>7. CASE StopServer BY <1>7 DEF StopServer
<1>8. CASE UNCHANGED runVars BY <1>8 DEF runVars
<1> QED
  BY <1>1, <1>2, <1>3, <1>4, <1>5, <1>6, <1>7, <1>8
     DEF ServerNext, Main, serverVars

(* A server that was run is not replaced under its connection threads.     *)
THEOREM ServerNeverReplaced == ServerSpec => NeverReplaced
<1>1. ServerInit => RunInv
  BY DEF ServerInit, RunInv
<1>2. ServerTypeOK /\ RunInv /\ [ServerNext]_serverVars => RunInv'
  BY RunPreserves
<1>3. RunInv => [server /\ phase = "sleep" => phase' = "sleep"]_serverVars
  BY DEF RunInv
<1> QED BY <1>1, <1>2, <1>3, TypeCorrect, PTL DEF ServerSpec, NeverReplaced

-----------------------------------------------------------------------------
(* The server implements AddressRegistry.                                  *)

(* A step that moves no entry and begins no service.                       *)
LEMMA SameEntries ==
  ASSUME ip' = ip, ipCtxMap' = ipCtxMap,
         \A b \in Conn : status'[b] = "ok" => status[b] = "ok"
  PROVE  Registry!Refuse
BY DEF Registry!Refuse, Holder, InService

(* Authentication takes the address, and ends the service of its holder.   *)
LEMMA AuthTakes ==
  ASSUME IInv, NEW c \in Conn, NEW a \in Hosts, HandleAuthMsg(c, a)
  PROVE  Registry!Next
<1> USE WsServerAssumption DEF IInv
<1>1. /\ \A b \in Conn : status'[b] = "ok" => status[b] = "ok"
      /\ \A b \in Conn : ipCtxMap[a] = b /\ a \notin dangling
                         => status'[b] = "bad"
  BY KickMarks DEF HandleAuthMsg, Register
<1>2. \A b \in Conn : b /= c => ip'[b] = ip[b]
  BY DEF HandleAuthMsg, Register, TypeOK
<1>3. InService' \subseteq (InService \ {Holder[a]}) \cup {c}
  <2> SUFFICES ASSUME NEW b \in InService', b /= c
               PROVE  b \in InService \ {Holder[a]}
    OBVIOUS
  <2>1. b \in Conn \ Repeats /\ status'[b] = "ok" /\ ip'[b] /= NoAddr
    BY DEF InService
  <2>2. b \in InService
    BY <1>1, <1>2, <2>1 DEF InService
  <2>3. Holder[a] /= b
    BY <1>1, <2>1 DEF Holder, RegistryLive
  <2> QED BY <2>2, <2>3
<1>4. CASE c \notin Repeats
  <2>1. ip[c] = NoAddr
    BY <1>4 DEF HandleAuthMsg
  <2>2. c \notin InService
    BY <2>1 DEF InService
  <2>3. \A b \in Hosts : Holder[b] /= c
    BY <1>4, <2>1 DEF Holder, RegistryLive, Hosts
  <2>4. Holder' = [Holder EXCEPT ![a] = c]
    BY <1>4 DEF Holder, HandleAuthMsg, Register, TypeOK
  <2>5. Registry!Take(c, a)
    BY <1>3, <2>2, <2>3, <2>4 DEF Registry!Take
  <2> QED BY <1>4, <2>5 DEF Registry!Next
<1>5. CASE c \in Repeats
  <2>1. Holder' = [Holder EXCEPT ![a] = NoConn]
    BY <1>5 DEF Holder, HandleAuthMsg, Register, TypeOK
  <2>2. InService' \subseteq InService \ {Holder[a]}
    BY <1>3, <1>5 DEF InService
  <2>3. Registry!Lose(a)
    BY <2>1, <2>2 DEF Registry!Lose
  <2> QED BY <2>3 DEF Registry!Next
<1> QED BY <1>4, <1>5

(* A client that leaves drops its entry and no other; one that was         *)
(* replaced, or authenticates repeatedly, changes nothing for the others.  *)
LEMMA LeaveDrops ==
  ASSUME IInv, NEW c \in Conn, Leave(c)
  PROVE  [Registry!Next]_(Registry!registry)
<1> USE WsServerAssumption DEF IInv
<1>1. InService' = InService \ {c}
  BY DEF Leave, InService, TypeOK
<1>2. CASE c \notin Repeats
  <2>1. \A a \in Hosts : ipCtxMap[a] = c => a = ip[c]
    BY <1>2 DEF RegistryLive
  <2>2. ipCtxMap' = [a \in Hosts |-> IF ipCtxMap[a] = c
                                       THEN NoConn ELSE ipCtxMap[a]]
    BY <2>1 DEF Leave, Unregister
  <2>3. Holder' = [a \in Hosts |-> IF Holder[a] = c
                                     THEN NoConn ELSE Holder[a]]
    BY <1>2, <2>2 DEF Holder
  <2>4. Registry!Drop(c)
    BY <1>1, <2>3 DEF Registry!Drop
  <2> QED BY <1>2, <2>4 DEF Registry!Next
<1>3. CASE c \in Repeats
  <2>1. Holder' = Holder
    BY <1>3 DEF Holder, Leave, Unregister, TypeOK
  <2>2. InService' = InService
    BY <1>1, <1>3 DEF InService
  <2> QED BY <2>1, <2>2 DEF Registry!registry
<1> QED BY <1>2, <1>3

LEMMA StepImplements ==
  ASSUME IInv, [ServerNext]_serverVars
  PROVE  [Registry!Next]_(Registry!registry)
<1>1. CASE Idle
  BY <1>1, SameEntries DEF Idle, Registry!Next
<1>2. ASSUME NEW c \in Conn, Serve(c)
      PROVE  [Registry!Next]_(Registry!registry)
  <2>1. CASE \E a \in Wanted : HandleAuthMsg(c, a)
    BY <2>1, AuthTakes, WsServerAssumption DEF Hosts
  <2>2. CASE Leave(c)
    BY <2>2, LeaveDrops
  <2>3. CASE \/ Connect(c) \/ RejectMsg(c) \/ Vanish(c)
             \/ FinishAllocation(c)
             \/ \E d \in Dev : HandleVMacMsg(c, d)
             \/ \E want \in Wanted \cup {NoAddr} :
                  GrantWanted(c, want) \/ StartAllocation(c, want)
    <3>1. ip' = ip /\ ipCtxMap' = ipCtxMap
      BY <2>3 DEF Connect, RejectMsg, Vanish, FinishAllocation, ctxVars,
                  mapVars, HandleVMacMsg, GrantWanted, StartAllocation
    <3>2. \A b \in Conn : status'[b] = "ok" => status[b] = "ok"
      BY <2>3 DEF Connect, RejectMsg, Vanish, FinishAllocation, ctxVars,
                  HandleVMacMsg, GrantWanted, StartAllocation, IInv, TypeOK
    <3> QED BY <3>1, <3>2, SameEntries DEF Registry!Next
  <2> QED
    BY <1>2, <2>1, <2>2, <2>3
       DEF Serve, StopServing, Disconnect, RelayThrows
<1>3. running \in BOOLEAN BY DEF IInv, TypeOK
<1> QED BY <1>1, <1>2, <1>3, StepCases

(* Whatever happens to the server process, its registry behaves like the   *)
(* AddressRegistry.                                                        *)
THEOREM ImplementsRegistry == ServerSpec => RegistrySpec
<1>1. ServerInit => Registry!Init
  BY WsServerAssumption DEF ServerInit, Fresh, Registry!Init, InService, Holder
<1>2. IInv /\ [ServerNext]_serverVars
        => [Registry!Next]_(Registry!registry)
  BY StepImplements
<1>3. IInv /\ ScanInv => IInv OBVIOUS
<1> QED BY <1>1, <1>2, <1>3, Inductive, PTL DEF ServerSpec, RegistrySpec, Registry!Spec
=============================================================================
