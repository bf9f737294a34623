---------------------------- MODULE UdpMuxProofs ----------------------------
(***************************************************************************)
(* Proofs about UdpMux, for any number of sources, endpoints and           *)
(* transactions and any idle limits that satisfy UdpMuxAssumption.         *)
(***************************************************************************)
EXTENDS UdpMux, TLAPS

(* The inductive invariant: OwnerAlive needs SessionFresher, because a     *)
(* session is reaped by its own age and not by what it still owns.         *)
IInv == TypeOK /\ IndexConsistent /\ OwnerAlive /\ SessionFresher

(* A head and a tail of a non-empty queue of datagrams are what they seem. *)
LEMMA InboxHead ==
  ASSUME TypeOK, inbox /= <<>>
  PROVE  Head(inbox) \in Datagrams /\ Tail(inbox) \in Seq(Datagrams)
BY DEF TypeOK

(* Ages stay in range when time passes.                                    *)
LEMMA OlderInRange ==
  ASSUME NEW a \in Ages
  PROVE  Older(a) \in Ages /\ Older(a) >= a
BY UdpMuxAssumption DEF Ages, Older, Cap

(* Time passing keeps the order of two ages, saturation included.          *)
LEMMA OlderMonotone ==
  ASSUME NEW a \in Ages, NEW b \in Ages, a <= b
  PROVE  Older(a) <= Older(b)
BY UdpMuxAssumption DEF Ages, Older, Cap

LEMMA InitIInv == Init => IInv
BY UdpMuxAssumption
   DEF Init, IInv, TypeOK, IndexConsistent, OwnerAlive, SessionFresher, Ages, Cap

(* A datagram sent by a source preserves the invariant.                    *)
LEMMA SendPreserves ==
  ASSUME IInv, NEW s \in Src, NEW d \in Datagrams, SendFromSource(s, d)
  PROVE  IInv'
<1> USE UdpMuxAssumption
<1> /\ TypeOK /\ IndexConsistent /\ OwnerAlive /\ SessionFresher
    /\ d.key \in Key /\ d.txid \in Txid /\ s /= NoSrc /\ 0 \in Ages
  BY DEF IInv, Datagrams, Ages, Cap
<1>1. TypeOK'
  <2>1. udpSessions' \subseteq Src /\ sessionAge' \in [Src -> Ages]
    BY DEF SendFromSource, TypeOK
  <2>2. /\ inbox' \in Seq(Datagrams) /\ reapAge' \in 0 .. ReapEvery
        /\ pc' \in {"task", "check", "exit", "done"}
    BY DEF SendFromSource, TypeOK
  <2>3. CASE IsStun(d)
    <3>1. /\ endpointOwner' \in [Key -> Src \cup {NoSrc}]
          /\ ownerEndpoints' \in [Src -> SUBSET Key]
      BY <2>3 DEF SendFromSource, SendStun, TypeOK
    <3>2. endpointAge' \in [Key -> Ages]
      BY <2>3 DEF SendFromSource, SendStun, TypeOK
    <3>3. stunTxn' \in [Txid -> Src \cup {NoSrc}]
      BY <2>3 DEF SendFromSource, SendStun, TypeOK
    <3>4. txnAge' \in [Txid -> Ages]
      BY <2>3 DEF SendFromSource, SendStun, TypeOK
    <3> QED BY <2>1, <2>2, <3>1, <3>2, <3>3, <3>4 DEF TypeOK
  <2>4. CASE ~IsStun(d)
    <3>1. /\ endpointOwner' \in [Key -> Src \cup {NoSrc}]
          /\ endpointAge' \in [Key -> Ages]
      BY <2>4 DEF SendFromSource, SendData, TypeOK
    <3>2. ownerEndpoints' \in [Src -> SUBSET Key]
      BY <2>4 DEF SendFromSource, SendData, TypeOK
    <3>3. stunTxn' \in [Txid -> Src \cup {NoSrc}] /\ txnAge' \in [Txid -> Ages]
      BY <2>4 DEF SendFromSource, SendData, TypeOK
    <3> QED BY <2>1, <2>2, <3>1, <3>2, <3>3 DEF TypeOK
  <2> QED BY <2>3, <2>4
<1>2. IndexConsistent'
  <2>1. CASE IsStun(d)
    BY <2>1 DEF SendFromSource, SendStun, IndexConsistent
  <2>2. CASE ~IsStun(d)
    BY <2>2 DEF SendFromSource, SendData, IndexConsistent, TypeOK
  <2> QED BY <2>1, <2>2
<1>3. OwnerAlive'
  <2>1. CASE IsStun(d)
    BY <2>1 DEF SendFromSource, SendStun, OwnerAlive, TypeOK
  <2>2. CASE ~IsStun(d)
    BY <2>2 DEF SendFromSource, SendData, OwnerAlive, TypeOK
  <2> QED BY <2>1, <2>2
<1>4. SessionFresher'
  <2>1. \A r \in Src : sessionAge'[r] = IF r = s THEN 0 ELSE sessionAge[r]
    BY DEF SendFromSource, TypeOK
  <2>2. ASSUME NEW k \in Key, endpointOwner'[k] /= NoSrc
        PROVE  sessionAge'[endpointOwner'[k]] <= endpointAge'[k]
    <3>1. endpointOwner'[k] \in Src /\ endpointAge'[k] \in Nat
      BY <1>1, <2>2 DEF TypeOK, Ages, Cap
    <3>2. CASE endpointOwner'[k] = s
      BY <2>1, <3>1, <3>2
    <3>3. CASE endpointOwner'[k] /= s
      <4>1. endpointOwner'[k] = endpointOwner[k] /\ endpointAge'[k] = endpointAge[k]
        <5>1. CASE IsStun(d)
          BY <3>3, <5>1 DEF SendFromSource, SendStun, TypeOK
        <5>2. CASE ~IsStun(d)
          BY <3>3, <5>2 DEF SendFromSource, SendData, TypeOK
        <5> QED BY <5>1, <5>2
      <4> QED BY <2>1, <2>2, <3>1, <3>3, <4>1 DEF SessionFresher
    <3> QED BY <3>2, <3>3
  <2>3. ASSUME NEW t \in Txid, stunTxn'[t] /= NoSrc
        PROVE  sessionAge'[stunTxn'[t]] <= txnAge'[t]
    <3>1. stunTxn'[t] \in Src /\ txnAge'[t] \in Nat
      BY <1>1, <2>3 DEF TypeOK, Ages, Cap
    <3>2. CASE stunTxn'[t] = s
      BY <2>1, <3>1, <3>2
    <3>3. CASE stunTxn'[t] /= s
      <4>1. stunTxn'[t] = stunTxn[t] /\ txnAge'[t] = txnAge[t]
        BY <3>3 DEF SendFromSource, SendStun, SendData, TypeOK
      <4> QED BY <2>1, <2>3, <3>1, <3>3, <4>1 DEF SessionFresher
    <3> QED BY <3>2, <3>3
  <2> QED BY <2>2, <2>3 DEF SessionFresher
<1> QED BY <1>1, <1>2, <1>3, <1>4 DEF IInv

(* A datagram from the outside, demultiplexed, preserves the invariant.    *)
LEMMA DemuxPreserves ==
  ASSUME IInv, Demux
  PROVE  IInv'
<1> USE UdpMuxAssumption
<1> DEFINE d == Head(inbox)
<1> /\ TypeOK /\ IndexConsistent /\ OwnerAlive /\ SessionFresher
    /\ 0 \in Ages
  BY DEF IInv, Ages, Cap
<1>0. d \in Datagrams /\ Tail(inbox) \in Seq(Datagrams)
  BY InboxHead DEF Demux
<1>1. d.key \in Key /\ d.txid \in Txid
  BY <1>0 DEF Datagrams
<1>2. CASE UNCHANGED <<sessionVars, tables>>
  BY <1>0, <1>2 DEF Demux, IInv, TypeOK, IndexConsistent, OwnerAlive,
                    SessionFresher, sessionVars, tables
<1>3. CASE /\ d.class = "Response" /\ stunTxn[d.txid] /= NoSrc
           /\ stunTxn' = [stunTxn EXCEPT ![d.txid] = NoSrc]
           /\ txnAge' = [txnAge EXCEPT ![d.txid] = 0]
           /\ ReplyTo(stunTxn[d.txid])
           /\ UNCHANGED <<endpointOwner, endpointAge, ownerEndpoints>>
  <2> stunTxn[d.txid] \in Src BY <1>1, <1>3 DEF TypeOK
  <2>1. TypeOK' BY <1>0, <1>1, <1>3 DEF Demux, TypeOK, ReplyTo
  <2>2. IndexConsistent' BY <1>3 DEF IndexConsistent
  <2>3. OwnerAlive' BY <1>1, <1>3 DEF OwnerAlive, ReplyTo, TypeOK
  <2>4. SessionFresher'
    BY <1>1, <1>3 DEF SessionFresher, ReplyTo, TypeOK, Ages, Cap
  <2> QED BY <2>1, <2>2, <2>3, <2>4 DEF IInv
<1>4. CASE /\ d.class /= "Response" /\ endpointOwner[d.key] /= NoSrc
           /\ endpointAge' = [endpointAge EXCEPT ![d.key] = 0]
           /\ ReplyTo(endpointOwner[d.key])
           /\ UNCHANGED <<endpointOwner, ownerEndpoints, stunTxn, txnAge>>
  <2> endpointOwner[d.key] \in Src BY <1>1, <1>4 DEF TypeOK
  <2>1. TypeOK' BY <1>0, <1>1, <1>4 DEF Demux, TypeOK, ReplyTo
  <2>2. IndexConsistent' BY <1>4 DEF IndexConsistent
  <2>3. OwnerAlive' BY <1>1, <1>4 DEF OwnerAlive, ReplyTo, TypeOK
  <2>4. SessionFresher'
    BY <1>1, <1>4 DEF SessionFresher, OwnerAlive, ReplyTo, TypeOK, Ages, Cap
  <2> QED BY <2>1, <2>2, <2>3, <2>4 DEF IInv
<1> QED BY <1>2, <1>3, <1>4 DEF Demux, DemuxTarget

(* The end of an iteration preserves it: what a reaped session owned is as *)
(* stale as the session, so it is reaped in the same pass.                 *)
LEMMA EndIterationPreserves ==
  ASSUME IInv, EndIteration
  PROVE  IInv'
<1> USE UdpMuxAssumption
<1> /\ TypeOK /\ IndexConsistent /\ OwnerAlive /\ SessionFresher
    /\ 0 \in Ages
  BY DEF IInv, Ages, Cap
<1>1. CASE UNCHANGED <<sessionVars, tables, reapAge>>
  BY <1>1 DEF EndIteration, IInv, TypeOK, IndexConsistent, OwnerAlive,
              SessionFresher, sessionVars, tables
<1>2. CASE ReapIdleUdpSessions /\ Reap /\ reapAge' = 0
  <2>1. TypeOK'
    BY <1>2 DEF EndIteration, ReapIdleUdpSessions, Reap, TypeOK
  <2>2. IndexConsistent'
    BY <1>2 DEF Reap, IndexConsistent, IdleEndpoints, TypeOK
  <2>3. OwnerAlive'
    BY <1>2 DEF Reap, ReapIdleUdpSessions, IdleSessions, IdleEndpoints,
                IdleTxns, OwnerAlive, SessionFresher, TypeOK, Ages, Cap
  <2>4. SessionFresher'
    BY <1>2 DEF Reap, ReapIdleUdpSessions, IdleSessions, IdleEndpoints,
                IdleTxns, SessionFresher, TypeOK, Ages, Cap
  <2> QED BY <2>1, <2>2, <2>3, <2>4 DEF IInv
<1> QED BY <1>1, <1>2 DEF EndIteration

(* Time passing preserves it.                                              *)
LEMMA TickPreserves ==
  ASSUME IInv, Tick
  PROVE  IInv'
<1> USE UdpMuxAssumption
<1> TypeOK /\ IndexConsistent /\ OwnerAlive /\ SessionFresher
  BY DEF IInv
<1>1. TypeOK'
  <2>1. /\ sessionAge' \in [Src -> Ages]
        /\ endpointAge' \in [Key -> Ages]
        /\ txnAge' \in [Txid -> Ages]
    BY OlderInRange DEF Tick, TypeOK
  <2>2. reapAge' \in 0 .. ReapEvery
    BY DEF Tick, TypeOK
  <2> QED BY <2>1, <2>2 DEF Tick, TypeOK
<1>2. IndexConsistent' /\ OwnerAlive'
  BY DEF Tick, IndexConsistent, OwnerAlive
<1>3. SessionFresher'
  <2>1. ASSUME NEW k \in Key, endpointOwner[k] /= NoSrc
        PROVE  sessionAge'[endpointOwner[k]] <= endpointAge'[k]
    <3>1. endpointOwner[k] \in udpSessions /\ endpointOwner[k] \in Src
      BY <2>1 DEF OwnerAlive, TypeOK
    <3>2. /\ sessionAge'[endpointOwner[k]] = Older(sessionAge[endpointOwner[k]])
          /\ endpointAge'[k] = Older(endpointAge[k])
      BY <2>1, <3>1 DEF Tick
    <3> QED BY <2>1, <3>1, <3>2, OlderMonotone DEF SessionFresher, TypeOK
  <2>2. ASSUME NEW t \in Txid, stunTxn[t] /= NoSrc
        PROVE  sessionAge'[stunTxn[t]] <= txnAge'[t]
    <3>1. stunTxn[t] \in udpSessions /\ stunTxn[t] \in Src
      BY <2>2 DEF OwnerAlive, TypeOK
    <3>2. /\ sessionAge'[stunTxn[t]] = Older(sessionAge[stunTxn[t]])
          /\ txnAge'[t] = Older(txnAge[t])
      BY <2>2, <3>1 DEF Tick
    <3> QED BY <2>2, <3>1, <3>2, OlderMonotone DEF SessionFresher, TypeOK
  <2> QED BY <2>1, <2>2 DEF SessionFresher, Tick
<1> QED BY <1>1, <1>2, <1>3 DEF IInv

LEMMA NextPreserves == IInv /\ [Next]_vars => IInv'
<1> SUFFICES ASSUME IInv, [Next]_vars PROVE IInv'
  OBVIOUS
<1> USE UdpMuxAssumption
<1>1. CASE \E s \in Src, d \in Datagrams : SendFromSource(s, d)
  BY <1>1, SendPreserves
<1>2. CASE \E d \in Datagrams : Receive(d)
  BY <1>2 DEF Receive, IInv, TypeOK, IndexConsistent, OwnerAlive,
              SessionFresher, sessionVars, tables
<1>3. CASE Demux
  BY <1>3, DemuxPreserves
<1>4. CASE NoTask
  BY <1>4 DEF NoTask, IInv, TypeOK, IndexConsistent, OwnerAlive,
              SessionFresher, sessionVars, tables
<1>5. CASE EndIteration
  BY <1>5, EndIterationPreserves
<1>6. CASE TeardownStack
  BY <1>6 DEF TeardownStack, IInv, TypeOK, IndexConsistent, OwnerAlive,
              SessionFresher, Ages, Cap
<1>7. CASE Tick
  BY <1>7, TickPreserves
<1>8. CASE UNCHANGED vars
  BY <1>8 DEF vars, IInv, TypeOK, IndexConsistent, OwnerAlive,
              SessionFresher, sessionVars, tables
<1> QED BY <1>1, <1>2, <1>3, <1>4, <1>5, <1>6, <1>7, <1>8 DEF Next

(* The variables of the converged UDP stack always have their types.       *)
THEOREM TypeCorrect == Spec => []TypeOK
<1>1. IInv => TypeOK BY DEF IInv
<1> QED BY InitIInv, NextPreserves, <1>1, PTL DEF Spec

(* The owner table and its reverse index agree in every reachable state,   *)
(* and whatever UdpMux would deliver to has a live session, although       *)
(* sessions are reaped without telling it.                                 *)
THEOREM TablesAlwaysAgree == Spec => []TablesAgree
<1>1. IInv => TablesAgree BY DEF IInv, TablesAgree
<1> QED BY InitIInv, NextPreserves, <1>1, PTL DEF Spec

(* An endpoint changes hands only through a release its idle limit or the  *)
(* teardown justifies.                                                     *)
LEMMA StepKeepsOwner ==
  ASSUME IInv, [Next]_vars, NEW k \in Key, endpointOwner[k] /= NoSrc,
         endpointOwner'[k] /= endpointOwner[k]
  PROVE  /\ endpointOwner'[k] = NoSrc
         /\ endpointAge[k] > EndpointIdle \/ pc = "exit"
<1>1. CASE \E s \in Src, d \in Datagrams : SendFromSource(s, d)
  <2> PICK s \in Src, d \in Datagrams : SendFromSource(s, d) BY <1>1
  <2>1. CASE IsStun(d) BY <2>1 DEF SendFromSource, SendStun
  <2>2. CASE ~IsStun(d)
    BY <2>2 DEF SendFromSource, SendData, IInv, TypeOK, Datagrams
  <2> QED BY <2>1, <2>2
<1>2. CASE \E d \in Datagrams : Receive(d)
  BY <1>2 DEF Receive, tables
<1>3. CASE Demux
  BY <1>3 DEF Demux, tables
<1>4. CASE NoTask \/ Tick \/ UNCHANGED vars
  BY <1>4 DEF NoTask, Tick, vars, tables
<1>5. CASE EndIteration
  BY <1>5 DEF EndIteration, Reap, IdleEndpoints, tables
<1>6. CASE TeardownStack
  BY <1>6 DEF TeardownStack
<1> QED BY <1>1, <1>2, <1>3, <1>4, <1>5, <1>6 DEF Next

(* First come, first served: no step of anyone takes an endpoint from its  *)
(* owner while it is in use.                                               *)
THEOREM OwnerNeverRobbed == Spec => OwnerKept
<1>1. IInv /\ [Next]_vars =>
        [\A k \in Key :
           endpointOwner[k] /= NoSrc /\ endpointOwner'[k] /= endpointOwner[k]
             => /\ endpointOwner'[k] = NoSrc
                /\ endpointAge[k] > EndpointIdle \/ pc = "exit"]_vars
  BY StepKeepsOwner
<1> QED BY InitIInv, NextPreserves, <1>1, PTL DEF Spec, OwnerKept
=============================================================================
