------------------------------ MODULE TunFlow -------------------------------
(***************************************************************************)
(* Which packets that arrive for the gateway are answers to its own LAN,   *)
(* and which are new connections for the user-space stack: the table of    *)
(* initiated flows of Tun (candy/src/tun/tun.cc).  The tun thread records  *)
(* a flow when it wraps one of its packets, the msg thread looks up the    *)
(* reversed five-tuple of what arrives.  Both hold flowMutex, but the tun  *)
(* thread reads the clock before it takes it: the stamp it then writes may *)
(* be older than stamps the msg thread wrote meanwhile.                    *)
(*                                                                         *)
(* Timestamps are kept as ages in seconds, saturated beyond every limit,   *)
(* and as the order they are in (steady_clock does not repeat itself).     *)
(* Flows that have left the table keep their place in that order, which    *)
(* the code has forgotten and only the properties look at.                 *)
(***************************************************************************)
EXTENDS Naturals, FiniteSets

CONSTANTS
  Flow,       \* five-tuples of TCP and UDP flows of the LAN
  IdleLimit,  \* 300 seconds
  ReapEvery,  \* 10 seconds
  MaxFlows    \* 4096 entries

ASSUME TunFlowAssumption ==
  /\ IdleLimit \in Nat /\ ReapEvery \in Nat
  /\ MaxFlows \in Nat \ {0}

VARIABLES
  initiatedFlows,  \* the keys of the table
  stamped,         \* flows ever stamped
  younger,         \* ... and for each the ones whose last stamp is later
  age,             \* seconds since its last stamp
  reapAge,         \* seconds since lastFlowReap
  recording,       \* the flow the tun thread has read the clock for, if any
  readAge,         \* ... seconds since then
  late,            \* ... and the flows stamped since then
  routed,          \* sysRtTable has a route for the flows' destinations
  written          \* where the last packet went

stamps == <<stamped, younger, age>>
clock == <<recording, readAge, late>>
flowVars == <<initiatedFlows, stamps, reapAge, clock, routed, written>>

FlowTypeOK ==
  /\ initiatedFlows \subseteq stamped
  /\ stamped \subseteq Flow
  /\ younger \in [Flow -> SUBSET stamped]
  /\ age \in [Flow -> 0 .. IdleLimit + 1]
  /\ reapAge \in 0 .. ReapEvery
  /\ recording \subseteq Flow
  /\ readAge \in 0 .. IdleLimit + 1
  /\ late \subseteq initiatedFlows
  /\ routed \in BOOLEAN
  /\ written \in {"none", "kernel", "netstack", "peer"}

(* lastFlowReap is the epoch of the clock at first.                        *)
FlowInit ==
  /\ initiatedFlows = {}
  /\ stamped = {} /\ younger = [f \in Flow |-> {}]
  /\ age = [f \in Flow |-> 0]
  /\ reapAge = ReapEvery
  /\ recording = {} /\ readAge = 0 /\ late = {}
  /\ routed = FALSE
  /\ written = "none"

(* An entry is written with a time read secs ago; the flows "since" have   *)
(* been stamped after that.                                                *)
Stamp(f, since, secs) ==
  /\ stamped' = stamped \cup {f}
  /\ younger' = [g \in Flow |->
                   IF g = f THEN since \ {f}
                   ELSE IF g \in stamped \ since THEN younger[g] \cup {f}
                   ELSE younger[g] \ {f}]
  /\ age' = [age EXCEPT ![f] = secs]

(* handleSysRt: the server pushes a route through another node.            *)
HandleSysRt ==
  /\ routed' = TRUE
  /\ UNCHANGED <<initiatedFlows, stamps, reapAge, clock, written>>

-----------------------------------------------------------------------------
(* reapIdleFlows, called with the table that holds the new entry.          *)

Scans(fs) == Cardinality(fs) > MaxFlows \/ reapAge >= ReapEvery

Fresh(fs) == {f \in fs : age'[f] <= IdleLimit}

(* Mutant of Youngest: the youngest entries make room.                     *)
YoungestDropped(fs) ==
  {f \in fs : Cardinality(fs \ younger'[f]) <= MaxFlows}

(* The oldest entries make room, until MaxFlows are left.                  *)
Youngest(fs) == {f \in fs : Cardinality(younger'[f] \cap fs) < MaxFlows}

ReapIdleFlows(fs) ==
  IF Scans(fs)
    THEN /\ initiatedFlows' = Youngest(Fresh(fs))
         /\ reapAge' = 0
    ELSE initiatedFlows' = fs /\ UNCHANGED reapAge

(* handleTunDevice: a packet of the LAN.  One without a route, or whose    *)
(* flow parseInnerL4 does not find, is not recorded ...                    *)
HandleTunDevice ==
  /\ recording = {}
  /\ written' \in {"peer", "kernel"}
  /\ UNCHANGED <<initiatedFlows, stamps, reapAge, clock, routed>>

(* ... for the others recordInitiatedFlow reads the clock ...              *)
ReadClock(f) ==
  /\ recording = {} /\ routed
  /\ recording' = {f} /\ readAge' = 0 /\ late' = {}
  /\ UNCHANGED <<initiatedFlows, stamps, reapAge, routed, written>>

(* ... takes flowMutex and records the flow; then the packet is wrapped    *)
(* and sent to the next hop.                                               *)
RecordInitiatedFlow(f) ==
  /\ f \in recording
  /\ Stamp(f, late, readAge)
  /\ ReapIdleFlows(initiatedFlows \cup {f})
  /\ recording' = {} /\ readAge' = 0 /\ late' = {}
  /\ written' = "peer"
  /\ UNCHANGED routed

(* Mutant of IsReturnByFlow: the stamp is written without looking whether  *)
(* the flow is in the table.                                               *)
IsReturnByFlowUnknown(f) ==
  /\ Stamp(f, {}, 0)
  /\ late' = IF recording = {} THEN {} ELSE late \cup {f}

(* isReturnByFlow: a packet arrives whose reversed five-tuple is f.  The   *)
(* answer of a known flow keeps it alive; its time is read under the lock. *)
IsReturnByFlow(f) ==
  /\ f \in initiatedFlows
  /\ Stamp(f, {}, 0)
  /\ late' = IF recording = {} THEN {} ELSE late \cup {f}

(* handlePacket: an answer is unwrapped for the kernel; every other        *)
(* wrapped packet belongs to a new connection.                             *)
HandlePacket(f) ==
  /\ \/ IsReturnByFlow(f) /\ written' = "kernel"
     \/ f \notin initiatedFlows /\ written' = "netstack"
          /\ UNCHANGED <<stamps, late>>
  /\ UNCHANGED <<initiatedFlows, reapAge, recording, readAge, routed>>

(* A packet that parseInnerL4 does not accept (ICMP, a later fragment) is  *)
(* judged by its subnet: isReturnTraffic.                                  *)
HandleOtherPacket ==
  /\ written' = IF routed THEN "kernel" ELSE "netstack"
  /\ UNCHANGED <<initiatedFlows, stamps, reapAge, clock, routed>>

Later(secs) == IF secs <= IdleLimit THEN secs + 1 ELSE secs

Tick ==
  /\ age' = [f \in Flow |-> IF f \in stamped THEN Later(age[f]) ELSE 0]
  /\ reapAge' = IF reapAge < ReapEvery THEN reapAge + 1 ELSE reapAge
  /\ readAge' = IF recording = {} THEN 0 ELSE Later(readAge)
  /\ UNCHANGED <<initiatedFlows, stamped, younger, recording, late, routed,
                 written>>

FlowNext ==
  \/ HandleTunDevice
  \/ \E f \in Flow :
       ReadClock(f) \/ RecordInitiatedFlow(f) \/ HandlePacket(f)
  \/ HandleOtherPacket
  \/ HandleSysRt
  \/ Tick

FlowSpec == FlowInit /\ [][FlowNext]_flowVars

-----------------------------------------------------------------------------
(* Properties.                                                             *)

(* The table is never larger than its limit, although it is only reaped    *)
(* when a flow is recorded and the reaping is throttled (reapIdleFlows).   *)
TableBounded == Cardinality(initiatedFlows) <= MaxFlows

(* The answers of a flow go to the kernel as long as it is not idle and    *)
(* there are fewer than MaxFlows younger ones: reaping, eviction and the   *)
(* lookups of the other thread never take such a flow out of the table,    *)
(* even when a stamp is written that is older than the ones before it.     *)
RecentKept ==
  \A f \in stamped :
    /\ age[f] <= IdleLimit
    /\ Cardinality(younger[f]) < MaxFlows
    => f \in initiatedFlows

(* The limit and the promise at once: neither is bought with the other.    *)
TableKeepsRecent == TableBounded /\ RecentKept
=============================================================================
