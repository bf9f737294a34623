------------------------------- MODULE UdpMux -------------------------------
(***************************************************************************)
(* UDP single-port convergence of the user-space network stack             *)
(* (candy/src/netstack/udpmux.cc, the converged half of session_udp.cc and *)
(* the UDP half of netstack.cc).                                           *)
(*                                                                         *)
(* All inner UDP sources of the virtual network share ONE outgoing socket. *)
(* What comes back on it is given to the right source by two tables: a     *)
(* remote endpoint is locked by the first source that sends data to it     *)
(* (first come, first served), and a STUN response finds the source of its *)
(* request by transaction id.  The NetStack thread owns the tables; the    *)
(* Reactor thread receives datagrams and posts them to it.                 *)
(*                                                                         *)
(* A timestamp is kept as its AGE in ticks, saturated at Cap, which is     *)
(* beyond every threshold: the code only ever compares now - timestamp     *)
(* with a threshold.  A handler takes no time.                             *)
(***************************************************************************)
EXTENDS Naturals, Sequences

CONSTANTS
  Src,          \* inner sources (address and port), the keys of udpSessions
  Key,          \* remote endpoints (address and port)
  Txid,         \* STUN transaction ids
  NoSrc,        \* "no entry"
  EndpointIdle, \* kEndpointIdle, in ticks
  TxnIdle,      \* kStunTxnIdle
  SessionIdle,  \* idle limit of reapIdleUdpSessions
  ReapEvery,    \* reaping period of NetStack::loop
  MaxInbox      \* bound: datagrams received and not yet demultiplexed

(* The order of the three idle limits is what the code's 30, 40 and 60     *)
(* seconds satisfy and what OwnerAlive rests on.                           *)
ASSUME UdpMuxAssumption ==
  /\ NoSrc \notin Src
  /\ EndpointIdle \in Nat /\ TxnIdle \in Nat /\ SessionIdle \in Nat
  /\ EndpointIdle <= SessionIdle
  /\ TxnIdle <= SessionIdle
  /\ ReapEvery \in Nat /\ ReapEvery <= SessionIdle
  /\ MaxInbox \in Nat

VARIABLES
  udpSessions,    \* sources with a live SessionUdp
  sessionAge,     \* SessionUdp::lastActiveTs of each source
  endpointOwner,  \* endpointOwner: endpoint |-> owning source, or NoSrc
  endpointAge,    \* OwnerEntry::lastActive
  ownerEndpoints, \* reverse index: source |-> endpoints
  stunTxn,        \* stunTxn: transaction id |-> inner source, or NoSrc
  txnAge,         \* TxnEntry::createdAt
  inbox,          \* datagrams posted by the Reactor as demux tasks
  reapAge,        \* now - lastReap of NetStack::loop
  pc              \* where the NetStack thread is: task, check, exit, done

tables == <<endpointOwner, endpointAge, ownerEndpoints, stunTxn, txnAge>>
sessionVars == <<udpSessions, sessionAge>>
vars == <<sessionVars, tables, inbox, reapAge, pc>>

Cap == SessionIdle + 1
Ages == 0 .. Cap
Older(a) == IF a < Cap THEN a + 1 ELSE a

(* What stunParse tells apart: requests, indications and responses carry a *)
(* transaction id that matters for requests and responses only; everything *)
(* else is data.                                                           *)
Classes == {"Data", "Request", "Indication", "Response"}
Datagrams == [class : Classes, key : Key, txid : Txid]
IsStun(d) == d.class /= "Data"

TypeOK ==
  /\ udpSessions \subseteq Src
  /\ sessionAge \in [Src -> Ages]
  /\ endpointOwner \in [Key -> Src \cup {NoSrc}]
  /\ endpointAge \in [Key -> Ages]
  /\ ownerEndpoints \in [Src -> SUBSET Key]
  /\ stunTxn \in [Txid -> Src \cup {NoSrc}]
  /\ txnAge \in [Txid -> Ages]
  /\ inbox \in Seq(Datagrams)
  /\ reapAge \in 0 .. ReapEvery
  /\ pc \in {"task", "check", "exit", "done"}

Init ==
  /\ udpSessions = {}
  /\ sessionAge = [s \in Src |-> 0]
  /\ endpointOwner = [k \in Key |-> NoSrc]
  /\ endpointAge = [k \in Key |-> 0]
  /\ ownerEndpoints = [s \in Src |-> {}]
  /\ stunTxn = [t \in Txid |-> NoSrc]
  /\ txnAge = [t \in Txid |-> 0]
  /\ inbox = <<>>
  /\ reapAge = 0
  /\ pc = "task"

-----------------------------------------------------------------------------
(* Sending: one inner datagram of source s reaches lwIP.                   *)

(* Mutant of SendStun: the transaction remembers the remote endpoint.      *)
SendStunSwapped(s, d) ==
  /\ IF d.class = "Request"
       THEN /\ stunTxn' = [stunTxn EXCEPT ![d.txid] = d.key]
            /\ txnAge' = [txnAge EXCEPT ![d.txid] = 0]
       ELSE UNCHANGED <<stunTxn, txnAge>>
  /\ UNCHANGED <<endpointOwner, endpointAge, ownerEndpoints>>

(* sendFromSource for STUN: exempt from the lock; a request registers its  *)
(* transaction id, and an endpoint of the same source is kept alive.       *)
SendStun(s, d) ==
  /\ IF d.class = "Request"
       THEN /\ stunTxn' = [stunTxn EXCEPT ![d.txid] = s]
            /\ txnAge' = [txnAge EXCEPT ![d.txid] = 0]
       ELSE UNCHANGED <<stunTxn, txnAge>>
  /\ endpointAge' = IF endpointOwner[d.key] = s
                      THEN [endpointAge EXCEPT ![d.key] = 0]
                      ELSE endpointAge
  /\ UNCHANGED <<endpointOwner, ownerEndpoints>>

(* Mutant of SendData: the collision branch takes the endpoint over.       *)
SendDataSteals(s, d) ==
  /\ endpointOwner' = [endpointOwner EXCEPT ![d.key] = s]
  /\ endpointAge' = [endpointAge EXCEPT ![d.key] = 0]
  /\ ownerEndpoints' =
       [r \in Src |-> IF r = s THEN ownerEndpoints[r] \cup {d.key}
                               ELSE ownerEndpoints[r] \ {d.key}]
  /\ UNCHANGED <<stunTxn, txnAge>>

(* sendFromSource for data: lock a free endpoint, drop on a collision      *)
(* (return before the datagram is posted), keep an own endpoint alive.     *)
SendData(s, d) ==
  /\ \/ /\ endpointOwner[d.key] = NoSrc
        /\ endpointOwner' = [endpointOwner EXCEPT ![d.key] = s]
        /\ endpointAge' = [endpointAge EXCEPT ![d.key] = 0]
        /\ ownerEndpoints' = [ownerEndpoints EXCEPT ![s] = @ \cup {d.key}]
     \/ /\ endpointOwner[d.key] \notin {NoSrc, s}
        /\ UNCHANGED <<endpointOwner, endpointAge, ownerEndpoints>>
     \/ /\ endpointOwner[d.key] = s
        /\ endpointAge' = [endpointAge EXCEPT ![d.key] = 0]
        /\ UNCHANGED <<endpointOwner, ownerEndpoints>>
  /\ UNCHANGED <<stunTxn, txnAge>>

(* The datagram goes through onUdpRecv when it is the first of its source  *)
(* (lwIP clones a pcb for it, and re-delivers it to the new session), then *)
(* through onPcbRecv, which stamps the session and calls sendFromSource.   *)
SendFromSource(s, d) ==
  /\ pc = "task"
  /\ udpSessions' = udpSessions \cup {s}
  /\ sessionAge' = [sessionAge EXCEPT ![s] = 0]
  /\ IF IsStun(d) THEN SendStun(s, d) ELSE SendData(s, d)
  /\ pc' = "check"
  /\ UNCHANGED <<inbox, reapAge>>

-----------------------------------------------------------------------------
(* Receiving.                                                              *)

(* Reactor thread: onFdReadable posts a demux task.                        *)
Receive(d) ==
  /\ pc /= "done"
  /\ Len(inbox) < MaxInbox
  /\ inbox' = Append(inbox, d)
  /\ UNCHANGED <<sessionVars, tables, reapAge, pc>>

(* injectUdpReply and replyToLwip: a source whose session is gone is       *)
(* skipped, a live session is stamped.                                     *)
ReplyTo(s) ==
  /\ sessionAge' = IF s \in udpSessions THEN [sessionAge EXCEPT ![s] = 0]
                                        ELSE sessionAge
  /\ UNCHANGED udpSessions

(* The source a datagram from the outside belongs to, or NoSrc.            *)
DemuxTarget(d) ==
  IF d.class = "Response" THEN stunTxn[d.txid] ELSE endpointOwner[d.key]

(* demux: a response consumes its transaction; a request, an indication or *)
(* data finds the owner of the endpoint and keeps the endpoint alive; what *)
(* has no target is dropped.                                               *)
Demux ==
  /\ pc = "task"
  /\ inbox /= <<>>
  /\ inbox' = Tail(inbox)
  /\ LET d == Head(inbox) IN
       \/ /\ DemuxTarget(d) = NoSrc
          /\ UNCHANGED <<sessionVars, tables>>
       \/ /\ DemuxTarget(d) /= NoSrc
          /\ d.class = "Response"
          /\ stunTxn' = [stunTxn EXCEPT ![d.txid] = NoSrc]
          /\ txnAge' = [txnAge EXCEPT ![d.txid] = 0]
          /\ ReplyTo(stunTxn[d.txid])
          /\ UNCHANGED <<endpointOwner, endpointAge, ownerEndpoints>>
       \/ /\ DemuxTarget(d) /= NoSrc
          /\ d.class /= "Response"
          /\ endpointAge' = [endpointAge EXCEPT ![d.key] = 0]
          /\ ReplyTo(endpointOwner[d.key])
          /\ UNCHANGED <<endpointOwner, ownerEndpoints, stunTxn, txnAge>>
  /\ pc' = "check"
  /\ UNCHANGED reapAge

-----------------------------------------------------------------------------
(* NetStack::loop.                                                         *)

(* Mutant of IdleSessions: the limit of endpoints is used.                 *)
IdleSessionsEarly == {s \in udpSessions : sessionAge[s] >= EndpointIdle}

(* reapIdleUdpSessions: shutdownFromStack and erase; the tables of UdpMux  *)
(* are not told.                                                           *)
IdleSessions == {s \in udpSessions : sessionAge[s] > SessionIdle}

ReapIdleUdpSessions ==
  /\ udpSessions' = udpSessions \ IdleSessions
  /\ sessionAge' = [s \in Src |-> IF s \in IdleSessions THEN 0
                                                         ELSE sessionAge[s]]

IdleEndpoints ==
  {k \in Key : endpointOwner[k] /= NoSrc /\ endpointAge[k] > EndpointIdle}
IdleTxns == {t \in Txid : stunTxn[t] /= NoSrc /\ txnAge[t] > TxnIdle}

(* Mutant of Reap: endpoints are never aged.                               *)
ReapKeepsEndpoints ==
  /\ UNCHANGED <<endpointOwner, endpointAge, ownerEndpoints>>
  /\ stunTxn' = [t \in Txid |-> IF t \in IdleTxns THEN NoSrc ELSE stunTxn[t]]
  /\ txnAge' = [t \in Txid |-> IF t \in IdleTxns THEN 0 ELSE txnAge[t]]

(* UdpMux::reap: every endpoint ages on its own, and leaves the reverse    *)
(* index with its entry; transactions time out.                            *)
Reap ==
  /\ endpointOwner' = [k \in Key |-> IF k \in IdleEndpoints THEN NoSrc
                                     ELSE endpointOwner[k]]
  /\ endpointAge' = [k \in Key |-> IF k \in IdleEndpoints THEN 0
                                   ELSE endpointAge[k]]
  /\ ownerEndpoints' =
       [s \in Src |-> ownerEndpoints[s]
                        \ {k \in IdleEndpoints : endpointOwner[k] = s}]
  /\ stunTxn' = [t \in Txid |-> IF t \in IdleTxns THEN NoSrc ELSE stunTxn[t]]
  /\ txnAge' = [t \in Txid |-> IF t \in IdleTxns THEN 0 ELSE txnAge[t]]

(* wait_for timed out (250 ms) on an empty queue, or the task left nothing *)
(* behind: a first datagram for which onUdpRecv cannot open the shared     *)
(* socket is dropped and the client is told to stop.                       *)
NoTask ==
  /\ pc = "task"
  /\ inbox = <<>>
  /\ pc' = "check"
  /\ UNCHANGED <<sessionVars, tables, inbox, reapAge>>

(* End of an iteration: reap when the period has passed, then test running *)
(* (Client::shutdown may have cleared it at any time).                     *)
EndIteration ==
  /\ pc = "check"
  /\ IF reapAge >= ReapEvery
       THEN ReapIdleUdpSessions /\ Reap /\ reapAge' = 0
       ELSE UNCHANGED <<sessionVars, tables, reapAge>>
  /\ pc' \in {"task", "exit"}
  /\ UNCHANGED inbox

(* teardownStack and UdpMux::shutdown: sessions and tables are emptied.    *)
TeardownStack ==
  /\ pc = "exit"
  /\ udpSessions' = {}
  /\ sessionAge' = [s \in Src |-> 0]
  /\ endpointOwner' = [k \in Key |-> NoSrc]
  /\ endpointAge' = [k \in Key |-> 0]
  /\ ownerEndpoints' = [s \in Src |-> {}]
  /\ stunTxn' = [t \in Txid |-> NoSrc]
  /\ txnAge' = [t \in Txid |-> 0]
  /\ pc' = "done"
  /\ UNCHANGED <<inbox, reapAge>>

(* steady_clock advances.                                                  *)
Tick ==
  /\ sessionAge' = [s \in Src |-> IF s \in udpSessions
                                    THEN Older(sessionAge[s])
                                    ELSE sessionAge[s]]
  /\ endpointAge' = [k \in Key |-> IF endpointOwner[k] /= NoSrc
                                     THEN Older(endpointAge[k])
                                     ELSE endpointAge[k]]
  /\ txnAge' = [t \in Txid |-> IF stunTxn[t] /= NoSrc
                                 THEN Older(txnAge[t]) ELSE txnAge[t]]
  /\ reapAge' = IF reapAge < ReapEvery THEN reapAge + 1 ELSE reapAge
  /\ UNCHANGED <<udpSessions, endpointOwner, ownerEndpoints, stunTxn,
                 inbox, pc>>

Next ==
  \/ \E s \in Src, d \in Datagrams : SendFromSource(s, d)
  \/ \E d \in Datagrams : Receive(d)
  \/ Demux
  \/ NoTask
  \/ EndIteration
  \/ TeardownStack
  \/ Tick

(* Time passes and the NetStack thread keeps iterating: wait_for returns   *)
(* after 250 ms at the latest or with a task, and no handler blocks.       *)
Fairness ==
  /\ WF_vars(Tick)
  /\ WF_vars(NoTask \/ Demux)
  /\ WF_vars(EndIteration)
  /\ WF_vars(TeardownStack)

Spec == Init /\ [][Next]_vars
FairSpec == Spec /\ Fairness

-----------------------------------------------------------------------------
(* Properties.                                                             *)

(* The reverse index and the owner table say the same: an endpoint is in   *)
(* the set of a source exactly when that source owns it (udpmux.cc keeps   *)
(* the two in step by hand in sendFromSource, reap and shutdown).          *)
IndexConsistent ==
  \A s \in Src, k \in Key : k \in ownerEndpoints[s] <=> endpointOwner[k] = s

(* No datagram is ever demultiplexed to a source that is gone: every owner *)
(* of an endpoint and of a transaction has a live session, although        *)
(* reapIdleUdpSessions removes sessions without telling UdpMux.            *)
OwnerAlive ==
  /\ \A k \in Key : endpointOwner[k] /= NoSrc
                      => endpointOwner[k] \in udpSessions
  /\ \A t \in Txid : stunTxn[t] /= NoSrc => stunTxn[t] \in udpSessions

(* The tables agree, with each other and with the sessions.                *)
TablesAgree == IndexConsistent /\ OwnerAlive

(* Why OwnerAlive holds: a session is never staler than anything it owns,  *)
(* because every path that stamps an endpoint or a transaction stamps the  *)
(* session too (onPcbRecv before sendFromSource, replyToLwip after demux). *)
SessionFresher ==
  /\ \A k \in Key : endpointOwner[k] /= NoSrc
                      => sessionAge[endpointOwner[k]] <= endpointAge[k]
  /\ \A t \in Txid : stunTxn[t] /= NoSrc
                      => sessionAge[stunTxn[t]] <= txnAge[t]

(* "Drop the later one only, never affect the first": an endpoint goes     *)
(* from one source to another only through a release that the idle limit   *)
(* or the teardown justifies, whatever the other sources send meanwhile.   *)
OwnerKept ==
  [][\A k \in Key :
       endpointOwner[k] /= NoSrc /\ endpointOwner'[k] /= endpointOwner[k]
         => /\ endpointOwner'[k] = NoSrc
            /\ endpointAge[k] > EndpointIdle \/ pc = "exit"]_vars

(* Traffic that keeps an endpoint: anything its owner sends to it, and     *)
(* anything but a STUN response that arrives from it.                      *)
Traffic(k) ==
  \/ \E s \in Src, d \in Datagrams :
       d.key = k /\ SendFromSource(s, d) /\ endpointOwner'[k] = s
  \/ inbox /= <<>> /\ Head(inbox).key = k
       /\ Head(inbox).class /= "Response" /\ Demux

(* A silent endpoint is given back: unless traffic of its owner goes on    *)
(* forever, an endpoint is free again and again, so a source whose packets *)
(* were dropped by a collision gets its turn.                              *)
SilentEndpointFreed ==
  \A k \in Key : \/ []<><<Traffic(k)>>_vars
                 \/ []<>(endpointOwner[k] = NoSrc)
=============================================================================
