-------------------------------- MODULE Peer --------------------------------
(***************************************************************************)
(* One end of a peer-to-peer link: the state machine of class Peer         *)
(* (candy/src/peer/peer.cc) under the three threads of PeerManager that    *)
(* work on it (manager.cc): the message thread (TRYP2P, PUBINFO, SYSRT),   *)
(* the poll thread (STUN responses and heartbeats) and the tick thread.    *)
(* ipPeerMutex is held shared by all three, so that a handler of one       *)
(* thread may come between any two accesses of a handler of another; the   *)
(* actions are the pieces between the accesses that matter.                *)
(*                                                                         *)
(* The messages are arbitrary: whatever can be lost, delayed, duplicated   *)
(* or reordered on the way may arrive at any time.  PeerLink connects two  *)
(* ends.  An address is known or not and of one of two kinds, "wide" or    *)
(* "local"; lastActiveTime is kept as its age in seconds and only in the   *)
(* states whose tick reads it.                                             *)
(***************************************************************************)
EXTENDS Naturals

CONSTANTS
  Node,           \* the ends
  ConnectWithin,  \* seconds of PREPARING, SYNCHRONIZING, CONNECTING (10)
  AliveWithin,    \* seconds of CONNECTED without an acknowledged beat (3)
  RetryMin, RetryMax,
  StunEnabled,    \* a STUN server is configured
  P2POnly         \* the p2p-only option: TRYP2P retries a FAILED peer

ASSUME PeerAssumption ==
  /\ ConnectWithin \in Nat /\ AliveWithin \in Nat
  /\ RetryMin \in Nat /\ RetryMax \in Nat
  /\ 0 < RetryMin /\ RetryMin <= RetryMax
  /\ {StunEnabled, P2POnly} \subseteq BOOLEAN

VARIABLES
  state,         \* Peer::state
  ack,           \* Peer::ack: a heartbeat of the other end has arrived
  age,           \* now - lastActiveTime
  retry,         \* Peer::retry, seconds to stay in WAITING
  wide, local,   \* is the other end's wide (local) address known
  real,          \* kind of the address in use, "none" if there is none
  localDisabled, \* PeerManager::localP2PDisabled
  msgAt,         \* what the message thread does next
  pollAt,        \* what the poll thread does next
  beat,          \* the heartbeat the poll thread handles
  tickAt,        \* what the tick thread does next
  tickTo,        \* the state it is giving the peer up to
  raced          \* history: the last giving up overlapped a handler of
                 \* another thread

addrVars == <<wide, local, real, ack>>
peerVars == <<state, age, retry, addrVars>>
threadVars == <<msgAt, pollAt, beat, tickAt, tickTo, raced>>
vars == <<peerVars, localDisabled, threadVars>>

States == {"INIT", "PREPARING", "SYNCHRONIZING", "CONNECTING", "CONNECTED",
           "WAITING", "FAILED"}
Idle == {"INIT", "WAITING", "FAILED"}
Kinds == {"wide", "local"}
Beats == [ack : {0, 1}, via : Kinds]

(* A thread between handlers waits.  A handler that is about to store a    *)
(* state is at that state ("TRYING": PREPARING, for TRYP2P).               *)
MsgSteps == {"wait", "test1", "test2", "test3", "CONNECTING", "PREPARING",
             "TRYING"}
PollSteps == {"wait", "learn", "use", "ack", "CONNECTED", "stun",
              "SYNCHRONIZING", "CONNECTING"}
TickSteps == {"wait", "reset", "backoff", "store"}

TypeOK ==
  /\ state \in [Node -> States]
  /\ ack \in [Node -> {0, 1}]
  /\ age \in [Node -> Nat]
  /\ retry \in [Node -> RetryMin .. RetryMax]
  /\ wide \in [Node -> BOOLEAN] /\ local \in [Node -> BOOLEAN]
  /\ real \in [Node -> Kinds \cup {"none"}]
  /\ localDisabled \in [Node -> BOOLEAN]
  /\ msgAt \in [Node -> MsgSteps]
  /\ pollAt \in [Node -> PollSteps]
  /\ beat \in [Node -> Beats]
  /\ tickAt \in [Node -> TickSteps]
  /\ tickTo \in [Node -> Idle]
  /\ raced \in [Node -> BOOLEAN]

NoBeat == [ack |-> 0, via |-> "wide"]

ThreadsWait ==
  /\ msgAt = [n \in Node |-> "wait"]
  /\ pollAt = [n \in Node |-> "wait"]
  /\ beat = [n \in Node |-> NoBeat]
  /\ tickAt = [n \in Node |-> "wait"]
  /\ tickTo = [n \in Node |-> "INIT"]
  /\ raced = [n \in Node |-> FALSE]

(* An absent entry of ipPeerMap behaves as a Peer in INIT.                 *)
Init ==
  /\ state = [n \in Node |-> "INIT"]
  /\ ack = [n \in Node |-> 0]
  /\ age = [n \in Node |-> 0]
  /\ retry = [n \in Node |-> RetryMin]
  /\ wide = [n \in Node |-> FALSE]
  /\ local = [n \in Node |-> FALSE]
  /\ real = [n \in Node |-> "none"]
  /\ localDisabled = [n \in Node |-> FALSE]
  /\ ThreadsWait

(* updateState to a state of an attempt: lastActiveTime and the state.     *)
Enter(n, s) ==
  /\ state' = [state EXCEPT ![n] = s]
  /\ age' = [age EXCEPT ![n] = 0]

(* History: a step of the message or poll thread while the tick thread is  *)
(* giving the peer up.                                                     *)
MarkRace(n) == raced' = [raced EXCEPT ![n] = @ \/ tickAt[n] /= "wait"]

-----------------------------------------------------------------------------
(* The message thread, PeerManager::handlePeerQueue.                       *)

msgFrame == <<localDisabled, pollAt, beat, tickAt, tickTo>>

(* TRYP2P (a discovery broadcast or reply, or a packet relayed by the      *)
(* server): tryConnecct tests the state, ...                               *)
TryP2P(n) ==
  /\ msgAt[n] = "wait"
  /\ state[n] = "INIT" \/ (P2POnly /\ state[n] = "FAILED")
  /\ msgAt' = [msgAt EXCEPT ![n] = "TRYING"]
  /\ MarkRace(n)
  /\ UNCHANGED <<peerVars, msgFrame>>

(* PUBINFO of the other end's local address: kept, and nothing else.       *)
HandleLocalPubInfo(n) ==
  /\ msgAt[n] = "wait"
  /\ local' = [local EXCEPT ![n] = TRUE]
  /\ MarkRace(n)
  /\ UNCHANGED <<state, age, retry, wide, real, ack, msgAt, msgFrame>>

(* PUBINFO of its wide address: kept ...                                   *)
HandleWidePubInfo(n) ==
  /\ msgAt[n] = "wait"
  /\ wide' = [wide EXCEPT ![n] = TRUE]
  /\ msgAt' = [msgAt EXCEPT ![n] = "test1"]
  /\ MarkRace(n)
  /\ UNCHANGED <<state, age, retry, local, real, ack, msgFrame>>

(* ... and then the state is compared with CONNECTED, where nothing else   *)
(* is done, with SYNCHRONIZING, where this is the awaited answer, and with *)
(* CONNECTING; in any other state an attempt starts.                       *)
AfterTest(n) ==
  CASE msgAt[n] = "test1" -> IF state[n] = "CONNECTED" THEN "wait" ELSE "test2"
    [] msgAt[n] = "test2" -> IF state[n] = "SYNCHRONIZING" THEN "CONNECTING"
                                                          ELSE "test3"
    [] msgAt[n] = "test3" -> IF state[n] = "CONNECTING" THEN "wait"
                                                       ELSE "PREPARING"

TestState(n) ==
  /\ msgAt[n] \in {"test1", "test2", "test3"}
  /\ msgAt' = [msgAt EXCEPT ![n] = AfterTest(n)]
  /\ MarkRace(n)
  /\ UNCHANGED <<peerVars, msgFrame>>

(* updateState with what was decided.                                      *)
MsgStore(n) ==
  /\ msgAt[n] \in {"TRYING", "PREPARING", "CONNECTING"}
  /\ Enter(n, IF msgAt[n] = "CONNECTING" THEN "CONNECTING" ELSE "PREPARING")
  /\ msgAt' = [msgAt EXCEPT ![n] = "wait"]
  /\ MarkRace(n)
  /\ UNCHANGED <<retry, addrVars, msgFrame>>

MsgStep(n) == TestState(n) \/ MsgStore(n)

(* SYSRT: a system route was pushed to this client.                        *)
SysRt(n) ==
  /\ localDisabled' = [localDisabled EXCEPT ![n] = TRUE]
  /\ UNCHANGED <<peerVars, threadVars>>

-----------------------------------------------------------------------------
(* The poll thread, PeerManager::poll.                                     *)

pollFrame == <<localDisabled, msgAt, tickAt, tickTo>>

(* A STUN response: a PREPARING peer learns that our wide address is       *)
(* known, ...                                                              *)
HandleStunResponse(n) ==
  /\ pollAt[n] = "wait"
  /\ state[n] = "PREPARING"
  /\ pollAt' = [pollAt EXCEPT ![n] = "stun"]
  /\ MarkRace(n)
  /\ UNCHANGED <<peerVars, beat, pollFrame>>

(* ... and waits for the other's, or already has it.                       *)
TestWide(n) ==
  /\ pollAt[n] = "stun"
  /\ pollAt' = [pollAt EXCEPT ![n] = IF wide[n] THEN "CONNECTING"
                                                ELSE "SYNCHRONIZING"]
  /\ MarkRace(n)
  /\ UNCHANGED <<peerVars, beat, pollFrame>>

(* Peer::handleHeartbeatMessage: an idle peer ignores it.  The state is    *)
(* compared with INIT first and with WAITING after that: a tick that moves *)
(* it from WAITING to INIT in between lets the beat pass.                  *)
Passes(n) ==
  \/ state[n] \notin Idle
  \/ state[n] = "WAITING" /\ tickAt[n] = "store" /\ tickTo[n] = "INIT"

HandleHeartbeat(n, b) ==
  /\ pollAt[n] = "wait"
  /\ Passes(n)
  /\ pollAt' = [pollAt EXCEPT ![n] = "learn"]
  /\ beat' = [beat EXCEPT ![n] = b]
  /\ MarkRace(n)
  /\ UNCHANGED <<peerVars, pollFrame>>

(* Mutant of LearnAddress: an acknowledged beat connects before its        *)
(* address is in use.                                                      *)
LearnAddressOnly(n) ==
  /\ pollAt[n] = "learn"
  /\ wide' = [wide EXCEPT ![n] = @ \/ beat[n].via = "wide"]
  /\ pollAt' = [pollAt EXCEPT ![n] = IF beat[n].ack = 1 THEN "CONNECTED"
                                                        ELSE "use"]
  /\ MarkRace(n)
  /\ UNCHANGED <<state, age, retry, local, real, ack, beat, pollFrame>>

(* The address is learned, unless it is local and local links are          *)
(* disabled, ...                                                           *)
LearnAddress(n) ==
  /\ pollAt[n] = "learn"
  /\ IF beat[n].via = "local" /\ localDisabled[n]
       THEN /\ pollAt' = [pollAt EXCEPT ![n] = "wait"]
            /\ beat' = [beat EXCEPT ![n] = NoBeat]
            /\ UNCHANGED <<wide, local>>
       ELSE /\ pollAt' = [pollAt EXCEPT ![n] = "use"]
            /\ wide' = [wide EXCEPT ![n] = @ \/ beat[n].via = "wide"]
            /\ local' = [local EXCEPT ![n] = @ \/ beat[n].via = "local"]
            /\ UNCHANGED beat
  /\ MarkRace(n)
  /\ UNCHANGED <<state, age, retry, real, ack, pollFrame>>

(* Mutant of UseAddress: an address in use is replaced, none is not.       *)
UseAddressInPlace(n) ==
  /\ pollAt[n] = "use"
  /\ real' = [real EXCEPT ![n] = IF @ = "wide" THEN beat[n].via ELSE @]
  /\ pollAt' = [pollAt EXCEPT ![n] = "ack"]
  /\ MarkRace(n)
  /\ UNCHANGED <<state, age, retry, wide, local, ack, beat, pollFrame>>

(* ... and used, but a local one in use is not given up for a wide one,    *)
(* ...                                                                     *)
UseAddress(n) ==
  /\ pollAt[n] = "use"
  /\ real' = [real EXCEPT ![n] = IF @ = "local" THEN @ ELSE beat[n].via]
  /\ pollAt' = [pollAt EXCEPT ![n] = "ack"]
  /\ MarkRace(n)
  /\ UNCHANGED <<state, age, retry, wide, local, ack, beat, pollFrame>>

(* Mutant of StoreAck: only an acknowledged beat is acknowledged.          *)
StoreAckShy(n) ==
  /\ pollAt[n] = "ack"
  /\ ack' = [ack EXCEPT ![n] = beat[n].ack]
  /\ pollAt' = [pollAt EXCEPT ![n] = IF beat[n].ack = 1 THEN "CONNECTED"
                                                        ELSE "wait"]
  /\ beat' = [beat EXCEPT ![n] = NoBeat]
  /\ MarkRace(n)
  /\ UNCHANGED <<state, age, retry, wide, local, real, pollFrame>>

(* ... our beats will acknowledge the other end, and an acknowledged beat  *)
(* (the other end has heard us) makes or keeps the peer CONNECTED.         *)
StoreAck(n) ==
  /\ pollAt[n] = "ack"
  /\ ack' = [ack EXCEPT ![n] = 1]
  /\ pollAt' = [pollAt EXCEPT ![n] = IF beat[n].ack = 1 THEN "CONNECTED"
                                                        ELSE "wait"]
  /\ beat' = [beat EXCEPT ![n] = NoBeat]
  /\ MarkRace(n)
  /\ UNCHANGED <<state, age, retry, wide, local, real, pollFrame>>

PollStore(n) ==
  /\ pollAt[n] \in {"CONNECTED", "SYNCHRONIZING", "CONNECTING"}
  /\ Enter(n, pollAt[n])
  /\ pollAt' = [pollAt EXCEPT ![n] = "wait"]
  /\ MarkRace(n)
  /\ UNCHANGED <<retry, addrVars, beat, pollFrame>>

PollStep(n) ==
  TestWide(n) \/ LearnAddress(n) \/ UseAddress(n) \/ StoreAck(n) \/ PollStore(n)

-----------------------------------------------------------------------------
(* The tick thread, Peer::tick once a second.                              *)

tickFrame == <<localDisabled, msgAt, pollAt, beat>>

(* One second later the age is one more; checkActivityWithin(d) is age < d. *)
Elapsed(n) == age[n] + 1

(* The state in which the tick gives the peer up, at the end of the time   *)
(* it may stay where it is ("none": it waits on).                          *)
GivesUpTo(n) ==
  CASE state[n] = "PREPARING" -> IF StunEnabled /\ Elapsed(n) < ConnectWithin
                                   THEN "none" ELSE "FAILED"
    [] state[n] = "SYNCHRONIZING" -> IF Elapsed(n) < ConnectWithin
                                       THEN "none" ELSE "FAILED"
    [] state[n] = "CONNECTING" -> IF Elapsed(n) < ConnectWithin
                                    THEN "none" ELSE "WAITING"
    [] state[n] = "CONNECTED" -> IF Elapsed(n) < AliveWithin
                                   THEN "none" ELSE "INIT"
    [] state[n] = "WAITING" -> IF Elapsed(n) < retry[n]
                                 THEN "none" ELSE "INIT"
    [] OTHER -> "none"

(* The tick waits on: a second passes (in INIT and FAILED nothing reads    *)
(* the time).                                                              *)
WaitOn(n) ==
  /\ tickAt[n] = "wait"
  /\ GivesUpTo(n) = "none"
  /\ age' = IF state[n] \in {"INIT", "FAILED"} THEN age
            ELSE [age EXCEPT ![n] = Elapsed(n)]
  /\ UNCHANGED <<state, retry, addrVars, tickFrame, tickAt, tickTo, raced>>

(* It gives up, updateState of an idle state: lastActiveTime, ...          *)
GiveUp(n) ==
  /\ tickAt[n] = "wait"
  /\ GivesUpTo(n) /= "none"
  /\ age' = [age EXCEPT ![n] = 0]
  /\ tickAt' = [tickAt EXCEPT ![n] = "reset"]
  /\ tickTo' = [tickTo EXCEPT ![n] = GivesUpTo(n)]
  /\ raced' = [raced EXCEPT ![n] = msgAt[n] /= "wait" \/ pollAt[n] /= "wait"]
  /\ UNCHANGED <<state, retry, addrVars, tickFrame>>

(* ... resetState, ...                                                     *)
ResetState(n) ==
  /\ tickAt[n] = "reset"
  /\ wide' = [wide EXCEPT ![n] = FALSE]
  /\ local' = [local EXCEPT ![n] = FALSE]
  /\ real' = [real EXCEPT ![n] = "none"]
  /\ ack' = [ack EXCEPT ![n] = 0]
  /\ tickAt' = [tickAt EXCEPT ![n] = "backoff"]
  /\ UNCHANGED <<state, age, retry, tickFrame, tickTo, raced>>

(* Mutant of NewRetry: doubled without the limit.                          *)
NewRetryUnlimited(n) ==
  IF state[n] = "WAITING" /\ tickTo[n] = "INIT" THEN retry[n] * 2 ELSE retry[n]

(* ... the back-off, doubled when the peer is found WAITING and restarted  *)
(* by a lost connection or a failure, ...                                  *)
NewRetry(n) ==
  IF state[n] = "WAITING" /\ tickTo[n] = "INIT"
    THEN IF retry[n] * 2 > RetryMax THEN RetryMax ELSE retry[n] * 2
  ELSE IF tickTo[n] \in {"INIT", "FAILED"} THEN RetryMin
  ELSE retry[n]

Backoff(n) ==
  /\ tickAt[n] = "backoff"
  /\ retry' = [retry EXCEPT ![n] = NewRetry(n)]
  /\ tickAt' = [tickAt EXCEPT ![n] = "store"]
  /\ UNCHANGED <<state, age, addrVars, tickFrame, tickTo, raced>>

(* ... and the state.                                                      *)
TickStore(n) ==
  /\ tickAt[n] = "store"
  /\ state' = [state EXCEPT ![n] = tickTo[n]]
  /\ tickAt' = [tickAt EXCEPT ![n] = "wait"]
  /\ tickTo' = [tickTo EXCEPT ![n] = "INIT"]
  /\ UNCHANGED <<age, retry, addrVars, tickFrame, raced>>

TickStep(n) == ResetState(n) \/ Backoff(n) \/ TickStore(n)

-----------------------------------------------------------------------------
Next ==
  \E n \in Node :
    \/ TryP2P(n) \/ HandleLocalPubInfo(n) \/ HandleWidePubInfo(n) \/ SysRt(n)
    \/ MsgStep(n)
    \/ HandleStunResponse(n) \/ \E b \in Beats : HandleHeartbeat(n, b)
    \/ PollStep(n)
    \/ WaitOn(n) \/ GiveUp(n)
    \/ TickStep(n)

(* Time passes, and every thread finishes what it has begun.               *)
Fairness ==
  \A n \in Node : /\ WF_vars(WaitOn(n) \/ GiveUp(n)) /\ WF_vars(TickStep(n))
                  /\ WF_vars(MsgStep(n)) /\ WF_vars(PollStep(n))

Spec == Init /\ [][Next]_vars
FairSpec == Spec /\ Fairness

-----------------------------------------------------------------------------
(* Properties.                                                             *)

(* A connected peer can be sent to: there is an address in use, and the    *)
(* heartbeats acknowledge the other end (isConnected makes sendPacket      *)
(* prefer the link over the server, and send fails without an address).    *)
ConnectedHasPath(n) ==
  state[n] = "CONNECTED" => real[n] /= "none" /\ ack[n] = 1

(* Nobody hammers an unknown address: CONNECTING is only entered, by any   *)
(* of its ways, when the other end's wide address is known.                *)
ConnectingKnowsWide(n) == state[n] = "CONNECTING" => wide[n]

(* A new attempt starts from nothing: an idle peer acknowledges no         *)
(* heartbeat of an earlier connection and has no address of it, so the     *)
(* other end cannot take an old acknowledgement for a new one.             *)
IdleForgets(n) ==
  state[n] \in Idle => ack[n] = 0 /\ real[n] = "none"
                       /\ (wide[n] => msgAt[n] /= "wait")

KnowsPeer(n) ==
  ConnectedHasPath(n) /\ ConnectingKnowsWide(n) /\ IdleForgets(n)

(* What a state of the machine says of the link is so, with the message    *)
(* and the poll thread interleaved at will, unless updateState of the tick *)
(* thread has overlapped a handler of one of them, or is under way: then   *)
(* the shared lock does not keep state and addresses together.             *)
KnowsUnlessRaced ==
  \A n \in Node : ~raced[n] /\ tickAt[n] = "wait" => KnowsPeer(n)

(* Whatever the threads have left, a peer is not taken for connected for   *)
(* ever without an address to send to (isConnected, Peer::send): a beat    *)
(* brings one, or the peer is given up.                                    *)
PathRepaired ==
  \A n \in Node : (state[n] = "CONNECTED" /\ real[n] = "none")
                    ~> (state[n] /= "CONNECTED" \/ real[n] /= "none")

(* The back-off is only given up by a lost connection or a failure, never  *)
(* on the way round CONNECTING, WAITING and INIT (updateState), unless a   *)
(* handler overlapped.                                                     *)
BackoffGrows ==
  [][\A n \in Node : retry'[n] < retry[n]
       => raced[n] \/ state[n] = "CONNECTED" \/ tickTo[n] = "FAILED"]_vars

(* The same without the exception: what the machine would promise if each  *)
(* handler were one step.                                                  *)
AlwaysKnowsPeer ==
  \A n \in Node : (tickAt[n] = "wait" /\ msgAt[n] = "wait" /\ pollAt[n] = "wait")
                    => KnowsPeer(n)

BackoffAlwaysGrows ==
  [][\A n \in Node : retry'[n] < retry[n]
       => state[n] = "CONNECTED" \/ tickTo[n] = "FAILED"]_vars
=============================================================================
