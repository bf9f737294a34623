----------------------------- MODULE PeerProofs -----------------------------
(***************************************************************************)
(* Proofs about Peer, for any number of ends, timeouts, retry limits and   *)
(* options.                                                                *)
(***************************************************************************)
EXTENDS Peer, TLAPS

(* What a handler of the message or poll thread relies on, when no giving  *)
(* up overlaps it: the wide address it has stored or found is still known, *)
(* ...                                                                     *)
HandlerKnowsWide(n) ==
  (msgAt[n] \notin {"wait", "TRYING"} \/ pollAt[n] = "CONNECTING") => wide[n]

(* ... and a heartbeat that has passed the test is for a peer that is not  *)
(* idle, whose address is in use by the time it is acknowledged.           *)
BeatIsFor(n) ==
  /\ pollAt[n] \in {"learn", "use", "ack", "CONNECTED"} => state[n] \notin Idle
  /\ pollAt[n] \in {"ack", "CONNECTED"} => real[n] /= "none"
  /\ pollAt[n] = "CONNECTED" => ack[n] = 1

(* While the tick thread gives the peer up, alone: nobody else is on the   *)
(* way, the addresses are forgotten once they are reset, and the state is  *)
(* still the one that was given up.                                        *)
AloneGivingUp(n) ==
  /\ msgAt[n] = "wait" /\ pollAt[n] = "wait"
  /\ tickAt[n] \in {"backoff", "store"}
       => ack[n] = 0 /\ real[n] = "none" /\ ~wide[n]
  /\ tickTo[n] = "INIT" => state[n] \in {"CONNECTED", "WAITING"}

(* The inductive invariant, of each end.                                   *)
Consistent(n) ==
  ~raced[n] => /\ tickAt[n] = "wait" => /\ KnowsPeer(n)
                                        /\ HandlerKnowsWide(n)
                                        /\ BeatIsFor(n)
               /\ tickAt[n] /= "wait" => AloneGivingUp(n)

IInv == TypeOK /\ \A n \in Node : Consistent(n)

LEMMA InitIInv == Init => IInv
<1> SUFFICES ASSUME Init PROVE IInv OBVIOUS
<1>1. TypeOK
  BY PeerAssumption DEF Init, ThreadsWait, TypeOK, States, Idle, Kinds, Beats,
     NoBeat, MsgSteps, PollSteps, TickSteps
<1>2. ASSUME NEW n \in Node PROVE Consistent(n)
  BY DEF Init, ThreadsWait, Consistent, KnowsPeer, ConnectedHasPath,
     ConnectingKnowsWide, IdleForgets, HandlerKnowsWide, BeatIsFor, Idle
<1> QED BY <1>1, <1>2 DEF IInv

-----------------------------------------------------------------------------
(* Each piece of a handler of each thread preserves the types.             *)

LEMMA MsgTypes ==
  ASSUME TypeOK, NEW n \in Node,
         \/ TryP2P(n) \/ HandleLocalPubInfo(n) \/ HandleWidePubInfo(n)
         \/ SysRt(n) \/ MsgStep(n)
  PROVE  TypeOK'
<1> USE DEF TypeOK, peerVars, addrVars, threadVars, msgFrame, MarkRace
<1>1. CASE TryP2P(n) BY <1>1 DEF TryP2P, MsgSteps
<1>2. CASE HandleLocalPubInfo(n) BY <1>2 DEF HandleLocalPubInfo
<1>3. CASE HandleWidePubInfo(n) BY <1>3 DEF HandleWidePubInfo, MsgSteps
<1>4. CASE SysRt(n) BY <1>4 DEF SysRt
<1>5. CASE TestState(n)
  <2>1. AfterTest(n) \in MsgSteps
    BY <1>5 DEF TestState, AfterTest, MsgSteps
  <2> QED BY <1>5, <2>1 DEF TestState
<1>6. CASE MsgStore(n) BY <1>6 DEF MsgStore, Enter, MsgSteps, States
<1> QED BY <1>1, <1>2, <1>3, <1>4, <1>5, <1>6 DEF MsgStep

LEMMA PollTypes ==
  ASSUME TypeOK, NEW n \in Node,
         \/ HandleStunResponse(n) \/ (\E b \in Beats : HandleHeartbeat(n, b))
         \/ PollStep(n)
  PROVE  TypeOK'
<1> USE DEF TypeOK, peerVars, addrVars, pollFrame, MarkRace
<1>0. NoBeat \in Beats BY DEF NoBeat, Beats, Kinds
<1>1. CASE HandleStunResponse(n) BY <1>1 DEF HandleStunResponse, PollSteps
<1>2. ASSUME NEW b \in Beats, HandleHeartbeat(n, b) PROVE TypeOK'
  BY <1>2 DEF HandleHeartbeat, PollSteps
<1>3. CASE TestWide(n) BY <1>3 DEF TestWide, PollSteps
<1>4. CASE LearnAddress(n)
  <2>1. pollAt' \in [Node -> PollSteps] BY <1>4 DEF LearnAddress, PollSteps
  <2>2. wide' \in [Node -> BOOLEAN] /\ local' \in [Node -> BOOLEAN]
    BY <1>4 DEF LearnAddress
  <2> QED BY <1>0, <1>4, <2>1, <2>2 DEF LearnAddress
<1>5. CASE UseAddress(n) BY <1>5 DEF UseAddress, PollSteps, Beats
<1>6. CASE StoreAck(n) BY <1>0, <1>6 DEF StoreAck, PollSteps
<1>7. CASE PollStore(n) BY <1>7 DEF PollStore, Enter, PollSteps, States
<1> QED BY <1>1, <1>2, <1>3, <1>4, <1>5, <1>6, <1>7 DEF PollStep

(* The doubled or restarted back-off stays within its limits.              *)
LEMMA NewRetryInRange ==
  ASSUME TypeOK, NEW n \in Node
  PROVE  NewRetry(n) \in RetryMin .. RetryMax
BY PeerAssumption DEF TypeOK, NewRetry

(* An end is only given up to an idle state.                               *)
LEMMA GivesUpToIdle ==
  ASSUME NEW n \in Node, GivesUpTo(n) /= "none"
  PROVE  GivesUpTo(n) \in Idle
BY DEF GivesUpTo, Idle

LEMMA TickTypes ==
  ASSUME TypeOK, NEW n \in Node, WaitOn(n) \/ GiveUp(n) \/ TickStep(n)
  PROVE  TypeOK'
<1> USE DEF TypeOK, addrVars, tickFrame
<1>1. CASE WaitOn(n)
  <2>1. age' \in [Node -> Nat] BY <1>1 DEF WaitOn, Elapsed
  <2> QED BY <1>1, <2>1 DEF WaitOn
<1>2. CASE GiveUp(n) BY <1>2, GivesUpToIdle DEF GiveUp, TickSteps
<1>3. CASE ResetState(n) BY <1>3 DEF ResetState, TickSteps
<1>4. CASE Backoff(n) BY <1>4, NewRetryInRange DEF Backoff, TickSteps
<1>5. CASE TickStore(n) BY <1>5 DEF TickStore, TickSteps, Idle, States
<1> QED BY <1>1, <1>2, <1>3, <1>4, <1>5 DEF TickStep

-----------------------------------------------------------------------------
(* A step of the message thread keeps every end consistent.                *)
LEMMA MsgConsistent ==
  ASSUME IInv, NEW n \in Node,
         \/ TryP2P(n) \/ HandleLocalPubInfo(n) \/ HandleWidePubInfo(n)
         \/ SysRt(n) \/ MsgStep(n),
         NEW m \in Node
  PROVE  Consistent(m)'
<1> USE DEF IInv, TypeOK, peerVars, addrVars, threadVars, msgFrame, MarkRace,
        Consistent, KnowsPeer, ConnectedHasPath, ConnectingKnowsWide,
        IdleForgets, HandlerKnowsWide, BeatIsFor, AloneGivingUp, Idle
<1>1. CASE TryP2P(n) BY <1>1 DEF TryP2P
<1>2. CASE HandleLocalPubInfo(n) BY <1>2 DEF HandleLocalPubInfo
<1>3. CASE HandleWidePubInfo(n) BY <1>3 DEF HandleWidePubInfo
<1>4. CASE SysRt(n) BY <1>4 DEF SysRt
<1>5. CASE TestState(n)
  <2>1. CASE msgAt[n] = "test1" BY <1>5, <2>1 DEF TestState, AfterTest
  <2>2. CASE msgAt[n] = "test2" BY <1>5, <2>2 DEF TestState, AfterTest
  <2>3. CASE msgAt[n] = "test3" BY <1>5, <2>3 DEF TestState, AfterTest
  <2> QED BY <1>5, <2>1, <2>2, <2>3 DEF TestState
<1>6. CASE MsgStore(n) BY <1>6 DEF MsgStore, Enter
<1> QED BY <1>1, <1>2, <1>3, <1>4, <1>5, <1>6 DEF MsgStep

(* So does a step of the poll thread, ...                                  *)
LEMMA PollConsistent ==
  ASSUME IInv, NEW n \in Node,
         \/ HandleStunResponse(n) \/ (\E b \in Beats : HandleHeartbeat(n, b))
         \/ PollStep(n),
         NEW m \in Node
  PROVE  Consistent(m)'
<1> USE DEF IInv, TypeOK, peerVars, addrVars, pollFrame, MarkRace,
        Consistent, KnowsPeer, ConnectedHasPath, ConnectingKnowsWide,
        IdleForgets, HandlerKnowsWide, BeatIsFor, AloneGivingUp, Idle
<1>1. CASE HandleStunResponse(n) BY <1>1 DEF HandleStunResponse
<1>2. ASSUME NEW b \in Beats, HandleHeartbeat(n, b) PROVE Consistent(m)'
  BY <1>2 DEF HandleHeartbeat, Passes
<1>3. CASE TestWide(n) BY <1>3 DEF TestWide
<1>4. CASE LearnAddress(n) BY <1>4 DEF LearnAddress
<1>5. CASE UseAddress(n)
  <2>1. beat[n].via \in Kinds BY DEF Beats
  <2> QED BY <1>5, <2>1 DEF UseAddress, Kinds
<1>6. CASE StoreAck(n) BY <1>6 DEF StoreAck
<1>7. CASE PollStore(n) BY <1>7 DEF PollStore, Enter
<1> QED BY <1>1, <1>2, <1>3, <1>4, <1>5, <1>6, <1>7 DEF PollStep

(* A connected peer is given up to INIT and so is one that has waited; no  *)
(* other is.                                                               *)
LEMMA GivesUpToInit ==
  ASSUME NEW n \in Node, GivesUpTo(n) = "INIT"
  PROVE  state[n] \in {"CONNECTED", "WAITING"}
BY DEF GivesUpTo

(* ... and of the tick thread.                                             *)
LEMMA TickConsistent ==
  ASSUME IInv, NEW n \in Node, WaitOn(n) \/ GiveUp(n) \/ TickStep(n),
         NEW m \in Node
  PROVE  Consistent(m)'
<1> USE DEF IInv, TypeOK, addrVars, tickFrame,
        Consistent, KnowsPeer, ConnectedHasPath, ConnectingKnowsWide,
        IdleForgets, HandlerKnowsWide, BeatIsFor, AloneGivingUp, Idle
<1>1. CASE WaitOn(n) BY <1>1 DEF WaitOn
<1>2. CASE GiveUp(n) BY <1>2, GivesUpToInit DEF GiveUp
<1>3. CASE ResetState(n) BY <1>3 DEF ResetState
<1>4. CASE Backoff(n) BY <1>4 DEF Backoff
<1>5. CASE TickStore(n) BY <1>5 DEF TickStore
<1> QED BY <1>1, <1>2, <1>3, <1>4, <1>5 DEF TickStep

LEMMA NextIInv == IInv /\ [Next]_vars => IInv'
<1> SUFFICES ASSUME IInv, [Next]_vars PROVE IInv' OBVIOUS
<1>1. CASE UNCHANGED vars
  BY <1>1 DEF vars, peerVars, addrVars, threadVars, IInv, TypeOK, Consistent,
     KnowsPeer, ConnectedHasPath, ConnectingKnowsWide, IdleForgets,
     HandlerKnowsWide, BeatIsFor, AloneGivingUp
<1>2. ASSUME NEW n \in Node,
             \/ TryP2P(n) \/ HandleLocalPubInfo(n) \/ HandleWidePubInfo(n)
             \/ SysRt(n) \/ MsgStep(n)
      PROVE  IInv'
  BY <1>2, MsgTypes, MsgConsistent DEF IInv
<1>3. ASSUME NEW n \in Node,
             \/ HandleStunResponse(n)
             \/ (\E b \in Beats : HandleHeartbeat(n, b)) \/ PollStep(n)
      PROVE  IInv'
  BY <1>3, PollTypes, PollConsistent DEF IInv
<1>4. ASSUME NEW n \in Node, WaitOn(n) \/ GiveUp(n) \/ TickStep(n)
      PROVE  IInv'
  BY <1>4, TickTypes, TickConsistent DEF IInv
<1> QED BY <1>1, <1>2, <1>3, <1>4 DEF Next

LEMMA InvariantHolds == Spec => []IInv
BY InitIInv, NextIInv, PTL DEF Spec

-----------------------------------------------------------------------------
(* The types, and with them the back-off between RetryMin and RetryMax.    *)
THEOREM TypeCorrect == Spec => []TypeOK
<1>1. IInv => TypeOK BY DEF IInv
<1> QED BY <1>1, InvariantHolds, PTL

(* What a state of the machine says of the link is so, with the handlers   *)
(* of the three threads interleaved at will, unless the last updateState   *)
(* of the tick thread overlapped a handler of another thread.              *)
THEOREM KnowsAlwaysUnlessRaced == Spec => []KnowsUnlessRaced
<1>1. IInv => KnowsUnlessRaced
  BY DEF IInv, Consistent, KnowsUnlessRaced
<1> QED BY <1>1, InvariantHolds, PTL

(* A step that makes the back-off smaller gives up a lost connection or an *)
(* attempt that failed, or was overlapped.                                 *)
LEMMA RetryGrows ==
  ASSUME IInv, [Next]_vars, NEW n \in Node, retry'[n] < retry[n]
  PROVE  raced[n] \/ state[n] = "CONNECTED" \/ tickTo[n] = "FAILED"
<1>1. ~(retry'[n] = retry[n]) BY PeerAssumption DEF IInv, TypeOK
<1>2. PICK m \in Node : Backoff(m)
  BY <1>1 DEF Next, vars, peerVars, threadVars, addrVars, msgFrame, pollFrame,
     tickFrame, TryP2P, HandleLocalPubInfo, HandleWidePubInfo, SysRt, MsgStep,
     TestState, MsgStore, HandleStunResponse, HandleHeartbeat, PollStep,
     TestWide, LearnAddress, UseAddress, StoreAck, PollStore, WaitOn, GiveUp,
     TickStep, ResetState, TickStore
<1>3. m = n BY <1>1, <1>2 DEF Backoff, IInv, TypeOK
<1>4. retry'[n] = NewRetry(n) BY <1>2, <1>3 DEF Backoff, IInv, TypeOK
<1>5. tickAt[n] = "backoff" BY <1>2, <1>3 DEF Backoff
<1>6. tickTo[n] \in Idle BY DEF IInv, TypeOK
<1>7. CASE tickTo[n] = "FAILED" BY <1>7
<1>8. CASE tickTo[n] = "WAITING" BY <1>1, <1>4, <1>8 DEF NewRetry
<1>9. CASE tickTo[n] = "INIT"
  <2>1. state[n] /= "WAITING"
    BY <1>4, <1>9, PeerAssumption DEF NewRetry, IInv, TypeOK
  <2> QED BY <1>5, <1>9, <2>1 DEF IInv, Consistent, AloneGivingUp
<1> QED BY <1>6, <1>7, <1>8, <1>9 DEF Idle

(* The back-off is only given up by a lost connection or a failure, never  *)
(* on the way round CONNECTING, WAITING and INIT, unless a handler of      *)
(* another thread overlapped updateState.                                  *)
THEOREM BackoffGrowsUnlessRaced == Spec => BackoffGrows
<1>1. IInv /\ [Next]_vars
        => [\A n \in Node : retry'[n] < retry[n]
              => raced[n] \/ state[n] = "CONNECTED" \/ tickTo[n] = "FAILED"]_vars
  BY RetryGrows
<1> QED BY <1>1, InvariantHolds, PTL DEF Spec, BackoffGrows
=============================================================================
