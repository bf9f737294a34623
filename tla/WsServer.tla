------------------------------ MODULE WsServer ------------------------------
(***************************************************************************)
(* The WebSocket server (candy/src/websocket/server.cc): the registry of   *)
(* authenticated clients, the dynamic address allocator and the relaying   *)
(* of client messages, with one thread per connection.  handleMsg takes    *)
(* any message in any order, before and after the authentication; what a   *)
(* candy client (websocket/client.cc) restrains itself to is that it       *)
(* authenticates once per connection, and Repeats names the connections    *)
(* of clients that do not.                                                 *)
(*                                                                         *)
(* An address of the dynamic network is its host part, 0 .. PoolSize - 1.  *)
(***************************************************************************)
EXTENDS Naturals

CONSTANTS
  Conn,      \* connections: one WsCtx and one handler thread each
  Repeats,   \* those whose client may authenticate more than once
  Dev,       \* devices, told apart by their virtual MAC
  PoolSize,  \* addresses of the dynamic network: 2 ^ (32 - prefix)
  Wanted,    \* addresses clients ask for and authenticate for
  NoConn, NoDev, NoAddr

ASSUME WsServerAssumption ==
  /\ PoolSize \in Nat /\ PoolSize >= 1
  /\ Wanted \subseteq 0 .. (PoolSize - 1)
  /\ Repeats \subseteq Conn
  /\ NoConn \notin Conn
  /\ NoDev \notin Dev
  /\ NoAddr \notin 0 .. (PoolSize - 1)

Hosts == 0 .. (PoolSize - 1)

VARIABLES
  running,   \* WebSocketServer::running
  step,      \* where the thread of a connection is
  status,    \* WsCtx::status: "ok" for 0, "bad" for -1
  vmac,      \* WsCtx::vmac
  ip,        \* WsCtx::ip
  scan,      \* allocation in progress: the value of dhcp it has read
  ipCtxMap,  \* address |-> connection
  dangling,  \* the entries of ipCtxMap whose WsCtx has been destroyed
  dhcp       \* host part of WebSocketServer::dhcp

ctxVars == <<status, vmac, ip, scan>>
mapVars == <<ipCtxMap, dangling>>
vars == <<running, step, ctxVars, mapVars, dhcp>>

(* No thread; in receiveFrame and the handling of what it returns, or in   *)
(* the same but with a client that vanished without a close frame; in the  *)
(* allocator; behind a loop condition that failed.                         *)
Steps == {"free", "receive", "hung", "alloc", "stop"}

TypeOK ==
  /\ running \in BOOLEAN
  /\ step \in [Conn -> Steps]
  /\ status \in [Conn -> {"ok", "bad"}]
  /\ vmac \in [Conn -> Dev \cup {NoDev}]
  /\ ip \in [Conn -> Hosts \cup {NoAddr}]
  /\ scan \in [Conn -> Hosts \cup {NoAddr}]
  /\ ipCtxMap \in [Hosts -> Conn \cup {NoConn}]
  /\ dangling \subseteq Hosts
  /\ dhcp \in Hosts

(* No connection yet.  setDHCP takes the configured address, network part  *)
(* and all; the example configurations give the network address itself.    *)
Fresh ==
  /\ step = [c \in Conn |-> "free"]
  /\ status = [c \in Conn |-> "ok"]
  /\ vmac = [c \in Conn |-> NoDev]
  /\ ip = [c \in Conn |-> NoAddr]
  /\ scan = [c \in Conn |-> NoAddr]
  /\ ipCtxMap = [a \in Hosts |-> NoConn]
  /\ dangling = {}
  /\ dhcp = 0

(* The server listens (how it comes to is in ServerRun).                   *)
Init == running = TRUE /\ Fresh

-----------------------------------------------------------------------------
(* The loop of handleWebsocket.                                            *)

(* A client connects.                                                      *)
Connect(c) ==
  /\ running
  /\ step[c] = "free"
  /\ step' = [step EXCEPT ![c] = "receive"]
  /\ UNCHANGED <<running, ctxVars, mapVars, dhcp>>

(* After a message the loop condition is tested.  receiveFrame then waits  *)
(* for up to a second: what comes in that second is handled although the   *)
(* connection was told to stop before it came.  A receive that times out,  *)
(* a ping, and a message of an authenticated client that is relayed        *)
(* (handleForwardMsg, handleUdp4ConnMsg, handleDiscoveryMsg,               *)
(* HandleGeneralMsg) change nothing while the condition holds, and lead to *)
(* StopServing when it does not.                                           *)
Loop(c) ==
  step' = [step EXCEPT ![c] = IF running /\ status'[c] = "ok"
                                THEN "receive" ELSE "stop"]

(* Every handler marks the connection on a message it does not accept: one *)
(* that is too short or hashed with another password, a source other than  *)
(* the authenticated address, traffic before the authentication, a request *)
(* for an address without dhcp.  The connection may be registered.         *)
RejectMsg(c) ==
  /\ step[c] = "receive"
  /\ status' = [status EXCEPT ![c] = "bad"]
  /\ Loop(c)
  /\ UNCHANGED <<running, vmac, ip, scan, mapVars, dhcp>>

HandleVMacMsg(c, d) ==
  /\ step[c] = "receive"
  /\ vmac' = [vmac EXCEPT ![c] = d]
  /\ UNCHANGED <<running, status, ip, scan, mapVars, dhcp>>
  /\ Loop(c)

-----------------------------------------------------------------------------
(* Dynamic addresses.                                                      *)

(* handleExptTunMsg, the wanted address can be used as it is: same         *)
(* network, and either free or held by a connection of the same device.    *)
(* NoAddr is a wish outside the network.                                   *)
Direct(c, want) ==
  /\ want /= NoAddr
  /\ ipCtxMap[want] /= NoConn => vmac[ipCtxMap[want]] = vmac[c]

(* The virtual MAC of a destroyed context reads as anything.  The answer   *)
(* changes nothing in the server: the address is not kept for the client.  *)
GrantWanted(c, want) ==
  /\ step[c] = "receive"
  /\ Direct(c, want) \/ want \in dangling
  /\ UNCHANGED <<running, ctxVars, mapVars, dhcp>>
  /\ Loop(c)

(* ... otherwise the allocator copies dhcp, which concurrent allocations   *)
(* share without protection.                                               *)
StartAllocation(c, want) ==
  /\ step[c] = "receive"
  /\ ~Direct(c, want) \/ want \in dangling
  /\ scan' = [scan EXCEPT ![c] = dhcp]
  /\ step' = [step EXCEPT ![c] = "alloc"]
  /\ UNCHANGED <<running, status, vmac, ip, mapVars, dhcp>>

IsValid(h) == h /= 0 /\ h /= PoolSize - 1
Taken(h) == ipCtxMap[h] /= NoConn

(* Mutant of NextHost: Address::Next does not stay in the network.         *)
NextHostUnmasked(start, i) == start + i

(* i times Address::Next: the host part wraps around.                      *)
NextHost(start, i) == (start + i) % PoolSize

(* The loop "do next while (!isValid && taken)": every round first tests   *)
(* for the value of dhcp and gives up there, then stops at a valid address *)
(* whether taken or not, and at a free one whether valid or not (line      *)
(* 313).  dhcp may have been overwritten by another allocation since the   *)
(* loop copied it: "seen" is the value the rounds compare with.            *)
Ends(start, seen) ==
  {i \in 1 .. PoolSize : LET h == NextHost(start, i) IN
                           h = seen \/ IsValid(h) \/ ~Taken(h)}

(* ... and writes dhcp back and replies, or finds no address.  The loop    *)
(* runs under ipCtxMutex, shared: no entry changes meanwhile, so the       *)
(* registry is that of one moment, but other allocations go on.            *)
FinishAllocation(c) ==
  /\ step[c] = "alloc"
  /\ \E seen \in {scan[c], dhcp} : \E i \in Ends(scan[c], seen) :
       /\ \A j \in Ends(scan[c], seen) : i <= j
       /\ IF NextHost(scan[c], i) = seen
            THEN /\ status' = [status EXCEPT ![c] = "bad"]
                 /\ UNCHANGED dhcp
            ELSE /\ dhcp' = NextHost(scan[c], i)
                 /\ UNCHANGED status
  /\ Loop(c)
  /\ scan' = [scan EXCEPT ![c] = NoAddr]
  /\ UNCHANGED <<running, vmac, ip, mapVars>>

-----------------------------------------------------------------------------
(* Authentication.                                                         *)

(* handleAuthMsg marks the connection registered for the address, if any,  *)
(* which may be this one.  The context of a dangling entry is gone: the    *)
(* store goes to a stack that may by now hold the context of any other     *)
(* connection, or of none.                                                 *)
Kick(a) ==
  IF a \in dangling
    THEN \/ UNCHANGED status
         \/ \E b \in Conn : step[b] /= "free"
                           /\ status' = [status EXCEPT ![b] = "bad"]
    ELSE status' = IF ipCtxMap[a] = NoConn
                     THEN status ELSE [status EXCEPT ![ipCtxMap[a]] = "bad"]

(* ... and takes its place.  An earlier entry of the connection stays.     *)
Register(c, a) ==
  /\ Kick(a)
  /\ ipCtxMap' = [ipCtxMap EXCEPT ![a] = c]
  /\ dangling' = dangling \ {a}
  /\ ip' = [ip EXCEPT ![c] = a]

(* A client authenticates for its configured address, or for one it was    *)
(* offered: the server takes any.                                          *)
HandleAuthMsg(c, a) ==
  /\ step[c] = "receive"
  /\ ip[c] = NoAddr \/ c \in Repeats
  /\ Register(c, a)
  /\ Loop(c)
  /\ UNCHANGED <<running, vmac, scan, dhcp>>

-----------------------------------------------------------------------------
(* End of a connection.                                                    *)

(* Mutant of Unregister: whoever is registered for the address is erased.  *)
UnregisterAny(c) ==
  ipCtxMap' = [a \in Hosts |-> IF a = ip[c] THEN NoConn ELSE ipCtxMap[a]]

(* Mutant of Unregister: the exception path returns before the cleanup.    *)
UnregisterUnlessHung(c) ==
  ipCtxMap' = IF step[c] = "hung" THEN ipCtxMap
              ELSE [a \in Hosts |-> IF a = ip[c] /\ ipCtxMap[a] = c
                                      THEN NoConn ELSE ipCtxMap[a]]

(* End of handleWebsocket: erase the entry only if it is this connection.  *)
Unregister(c) ==
  ipCtxMap' = [a \in Hosts |-> IF a = ip[c] /\ ipCtxMap[a] = c
                                 THEN NoConn ELSE ipCtxMap[a]]

(* The context is destroyed with the frame of handleWebsocket: an entry    *)
(* under another address than the last one dangles.                        *)
Leave(c) ==
  /\ Unregister(c)
  /\ dangling' = dangling \cup {a \in Hosts : ipCtxMap'[a] = c}
  /\ step' = [step EXCEPT ![c] = "free"]
  /\ status' = [status EXCEPT ![c] = "ok"]
  /\ vmac' = [vmac EXCEPT ![c] = NoDev]
  /\ ip' = [ip EXCEPT ![c] = NoAddr]
  /\ UNCHANGED <<running, scan, dhcp>>

(* Mutant of StopServing: the loop tests running only.                     *)
StopServingRunningOnly(c) ==
  /\ step[c] \in {"receive", "hung", "stop"}
  /\ ~running
  /\ Leave(c)

(* The loop condition fails: running is cleared or the status is bad.      *)
StopServing(c) ==
  /\ step[c] \in {"receive", "hung", "stop"}
  /\ ~running \/ status[c] = "bad"
  /\ Leave(c)

(* The client closes the connection, or receiving or answering fails.      *)
Disconnect(c) == step[c] \in {"receive", "hung"} /\ Leave(c)

(* The host of a client dies: no close frame arrives, the server thread    *)
(* keeps timing out until the connection is reset (Disconnect).            *)
Vanish(c) ==
  /\ step[c] = "receive"
  /\ step' = [step EXCEPT ![c] = "hung"]
  /\ UNCHANGED <<running, ctxVars, mapVars, dhcp>>

(* An authenticated client sends a message for address a, or for everybody *)
(* but itself (NoAddr).                                                    *)
Entries(c, a) ==
  IF a = NoAddr THEN {b \in Hosts : ipCtxMap[b] /= NoConn /\ b /= ip[c]}
                ELSE {b \in {a} : ipCtxMap[b] /= NoConn}

(* sendFrame to a client that is gone, or through a dangling entry, may    *)
(* throw: the exception is caught in handleWebsocket of the SENDER, which  *)
(* leaves.                                                                 *)
RelayThrows(c, a) ==
  /\ step[c] = "receive"
  /\ ip[c] /= NoAddr
  /\ \E b \in Entries(c, a) : b \in dangling \/ step[ipCtxMap[b]] = "hung"
  /\ Leave(c)

(* WebSocketServer::shutdown.                                              *)
Shutdown ==
  /\ running' = FALSE
  /\ UNCHANGED <<step, ctxVars, mapVars, dhcp>>

(* The thread of a connection, and its client.                             *)
Serve(c) ==
  \/ Connect(c)
  \/ RejectMsg(c)
  \/ \E d \in Dev : HandleVMacMsg(c, d)
  \/ \E want \in Wanted \cup {NoAddr} :
       GrantWanted(c, want) \/ StartAllocation(c, want)
  \/ FinishAllocation(c)
  \/ \E a \in Wanted : HandleAuthMsg(c, a)
  \/ StopServing(c)
  \/ Disconnect(c)
  \/ Vanish(c)
  \/ \E a \in Hosts \cup {NoAddr} : RelayThrows(c, a)

Next == Shutdown \/ \E c \in Conn : Serve(c)

(* Every handler thread runs: receiving times out after a second, the loop *)
(* of an allocation ends, and a thread that has to stop leaves.            *)
Fairness ==
  \A c \in Conn : WF_vars(FinishAllocation(c)) /\ WF_vars(StopServing(c))

Spec == Init /\ [][Next]_vars
FairSpec == Spec /\ Fairness

-----------------------------------------------------------------------------
(* Properties.                                                             *)

(* "Lock while operating on the map, to ensure the pointers are valid"     *)
(* (server.h): an entry points to a connection whose thread is still in    *)
(* handleWebsocket and that is authenticated for that address, unless it   *)
(* is the entry of a client that authenticates again.  The connection may  *)
(* have been told to stop: a message handleMsg rejects leaves its entry    *)
(* until the thread ends.                                                  *)
RegistryLive ==
  \A a \in Hosts : ipCtxMap[a] \in Conn \ Repeats
    => /\ a \notin dangling
       /\ step[ipCtxMap[a]] /= "free"
       /\ ip[ipCtxMap[a]] = a

(* A connection in service is reachable: an authenticated connection that  *)
(* was not told to stop, whoever its client is, is the one registered for  *)
(* its address, whatever reconnects, rejected messages and late cleanups   *)
(* of the same address went on (handleAuthMsg, end of handleWebsocket).    *)
ActiveRegistered ==
  \A c \in Conn : ip[c] /= NoAddr /\ status[c] = "ok"
    => ipCtxMap[ip[c]] = c /\ ip[c] \notin dangling

(* The registry is exact: no entry of a client that authenticates once     *)
(* outlives its connection or names another address, and every connection  *)
(* in service has its entry, so that no other thread is left that believes *)
(* to serve an address (handleAuthMsg, handleWebsocket).                   *)
RegistryExact == RegistryLive /\ ActiveRegistered

(* Refinement: the registry seen from outside by the clients that          *)
(* authenticate once.  One of them is in service from its authentication   *)
(* to the message that replaces it or is rejected, or to its end.          *)
InService == {c \in Conn \ Repeats : ip[c] /= NoAddr /\ status[c] = "ok"}

Holder == [a \in Hosts |-> IF ipCtxMap[a] \in Repeats THEN NoConn
                                                      ELSE ipCtxMap[a]]

Registry ==
  INSTANCE AddressRegistry WITH Client <- Conn \ Repeats, Addr <- Hosts,
    Nobody <- NoConn, holder <- Holder, serving <- InService

(* The server implements AddressRegistry: whatever its threads do, with    *)
(* rejected messages, replaced connections that clean up late, exceptions  *)
(* while relaying, clients that authenticate twice and a shutdown under    *)
(* way, a client takes an address together with the end of its holder's    *)
(* service, and gives up only its own.                                     *)
RegistrySpec == Registry!Spec

(* A connection told to stop ends: a client that lost its address to a     *)
(* later one, or was rejected, is disconnected, so it can notice and       *)
(* reconnect.                                                              *)
KickedLeaves ==
  \A c \in Conn : (status[c] = "bad") ~> (step[c] = "free")

(* The allocator gives up only when "all addresses in the network are      *)
(* assigned" (server.cc:309), so an address it picks is not assigned.      *)
AllocatedIsFree == [][dhcp' /= dhcp => ~Taken(dhcp')]_vars

(* The same message read the other way: a client is refused an address     *)
(* only when all the valid ones are assigned.                              *)
RefusedOnlyIfFull ==
  [][\A c \in Conn :
       step[c] = "alloc" /\ step'[c] = "stop"
         /\ status[c] = "ok" /\ status'[c] = "bad"
         => \A h \in Hosts : IsValid(h) => Taken(h)]_vars

(* Without the restriction to clients that authenticate once, the comment  *)
(* of server.h: no entry points to a destroyed context.                    *)
NothingDangles == dangling = {}
=============================================================================
