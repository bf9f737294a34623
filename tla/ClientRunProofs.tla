--------------------------- MODULE ClientRunProofs --------------------------
(***************************************************************************)
(* Proofs about the instance table of ClientRun, for any number of ids,    *)
(* run threads and shutdown handlers.                                      *)
(***************************************************************************)
EXTENDS ClientRun, TLAPS

(* The table is filed under the id of the run it names, so that the        *)
(* erasure by id hits the run that erases; started runs and handlers have  *)
(* an id.                                                                  *)
FiledById == \A i \in Id : instanceMap[i] /= NoRun => idOf[instanceMap[i]] = i
StartedHasId == \A r \in Run : pc[r] /= "unused" => idOf[r] \in Id
HandlerHasId == \A h \in Handler : req[h].step /= "idle" => req[h].id \in Id
IInv == /\ TypeOK /\ ActiveIsRegistered
        /\ FiledById /\ StartedHasId /\ HandlerHasId

LEMMA InitIInv == Init => IInv
<1> SUFFICES ASSUME Init PROVE IInv
  OBVIOUS
<1>1. TypeOK
  BY DEF Init, TypeOK, Steps, Idle
<1>2. ActiveIsRegistered
  BY ClientRunAssumption DEF Init, ActiveIsRegistered, Active
<1>3. FiledById /\ StartedHasId /\ HandlerHasId
  BY DEF Init, FiledById, StartedHasId, HandlerHasId, Idle
<1> QED BY <1>1, <1>2, <1>3 DEF IInv

(* Steps that keep the table, the ids, and who is active.                  *)
LEMMA FramePreserves ==
  /\ IInv /\ TypeOK' /\ HandlerHasId'
  /\ UNCHANGED <<instanceMap, idOf>>
  /\ \A r \in Run : /\ Active(r)' <=> Active(r)
                    /\ pc'[r] /= "unused" => pc[r] /= "unused"
  => IInv'
BY DEF IInv, ActiveIsRegistered, FiledById, StartedHasId

-----------------------------------------------------------------------------
(* candy-service.                                                          *)

LEMMA RunRequestPreserves ==
  ASSUME NEW r \in Run, NEW i \in Id
  PROVE  IInv /\ RunRequest(r, i) /\ UNCHANGED crashed => IInv'
<1> SUFFICES ASSUME IInv, RunRequest(r, i), UNCHANGED crashed PROVE IInv'
  OBVIOUS
<1>1. TypeOK'
  BY DEF RunRequest, IInv, TypeOK, Steps
<1>2. ~Active(r) /\ ~Active(r)'
  BY DEF RunRequest, IInv, TypeOK, Active
<1>3. \A s \in Run \ {r} : pc'[s] = pc[s] /\ idOf'[s] = idOf[s]
  BY DEF RunRequest, IInv, TypeOK
<1>4. ActiveIsRegistered'
  BY <1>2, <1>3 DEF RunRequest, IInv, ActiveIsRegistered, Active
<1>5. \A j \in Id : instanceMap[j] /= r
  BY <1>2 DEF IInv, ActiveIsRegistered
<1>6. FiledById'
  BY <1>3, <1>5 DEF RunRequest, IInv, TypeOK, FiledById
<1>7. StartedHasId'
  BY <1>3 DEF RunRequest, IInv, TypeOK, StartedHasId
<1>8. HandlerHasId'
  BY DEF RunRequest, IInv, HandlerHasId
<1> QED BY <1>1, <1>4, <1>6, <1>7, <1>8 DEF IInv

LEMMA HandlerPreserves ==
  ASSUME NEW h \in Handler
  PROVE  /\ IInv /\ UNCHANGED crashed
         /\ \/ \E i \in Id : ShutdownRequest(h, i)
            \/ Lookup(h) \/ Exit(h) \/ Detach(h)
         => IInv'
<1> SUFFICES ASSUME IInv, UNCHANGED crashed,
                    \/ \E i \in Id : ShutdownRequest(h, i)
                    \/ Lookup(h) \/ Exit(h) \/ Detach(h)
             PROVE  IInv'
  OBVIOUS
<1>1. UNCHANGED <<instanceMap, idOf, pc>>
  BY DEF ShutdownRequest, Lookup, Exit, Detach, runVars
<1>2. TypeOK'
  <2>1. ASSUME NEW i \in Id, ShutdownRequest(h, i) PROVE TypeOK'
    BY <2>1 DEF ShutdownRequest, IInv, TypeOK, runVars
  <2>2. CASE Lookup(h)
    <3>1. CASE instanceMap[req[h].id] = NoRun
      BY <2>2, <3>1 DEF Lookup, IInv, TypeOK
    <3>2. CASE instanceMap[req[h].id] /= NoRun
      <4>1. req[h].id \in Id
        BY <2>2 DEF Lookup, IInv, HandlerHasId
      <4>2. instanceMap[req[h].id] \in Run
        BY <3>2, <4>1 DEF IInv, TypeOK
      <4>3. req' \in [Handler -> [step : {"idle", "lookup", "exit", "detach"},
                                  id : Id \cup {NoId}, run : Run \cup {NoRun}]]
        BY <2>2, <3>2, <4>1, <4>2 DEF Lookup, IInv, TypeOK
      <4>4. instRunning' \in [Run -> BOOLEAN]
        BY <2>2, <3>2, <4>2 DEF Lookup, IInv, TypeOK
      <4> QED BY <2>2, <4>3, <4>4 DEF Lookup, IInv, TypeOK
    <3> QED BY <3>1, <3>2
  <2>3. CASE Exit(h)
    BY <2>3 DEF Exit, IInv, TypeOK
  <2>4. CASE Detach(h)
    <3>1. threadMap' \in [Id -> Run \cup {NoRun}]
      BY <2>4 DEF Detach, IInv, TypeOK
    <3> QED BY <2>4, <3>1 DEF Detach, IInv, TypeOK, runVars, Idle
  <2> QED BY <2>1, <2>2, <2>3, <2>4
<1>3. HandlerHasId'
  BY DEF ShutdownRequest, Lookup, Exit, Detach, Idle, IInv, TypeOK,
         HandlerHasId
<1> QED BY <1>1, <1>2, <1>3, FramePreserves DEF Active

-----------------------------------------------------------------------------
(* candy::client::run.                                                     *)

LEMMA TryCreateInstancePreserves ==
  ASSUME NEW r \in Run
  PROVE  IInv /\ TryCreateInstance(r) /\ UNCHANGED crashed => IInv'
<1> SUFFICES ASSUME IInv, TryCreateInstance(r), UNCHANGED crashed PROVE IInv'
  OBVIOUS
<1>1. idOf[r] \in Id /\ ~Active(r)
  BY DEF TryCreateInstance, IInv, StartedHasId, Active
<1>2. TypeOK'
  <2>1. CASE instanceMap[idOf[r]] = NoRun
    <3>1. instanceMap' \in [Id -> Run \cup {NoRun}]
      BY <1>1, <2>1 DEF TryCreateInstance, IInv, TypeOK
    <3>2. instRunning' \in [Run -> BOOLEAN] /\ pc' \in [Run -> Steps]
      BY <2>1 DEF TryCreateInstance, IInv, TypeOK, Goto, Steps
    <3> QED BY <3>1, <3>2 DEF TryCreateInstance, IInv, TypeOK
  <2>2. CASE instanceMap[idOf[r]] /= NoRun
    BY <2>2 DEF TryCreateInstance, IInv, TypeOK, Goto, Steps
  <2> QED BY <2>1, <2>2
<1>0. HandlerHasId'
  BY DEF TryCreateInstance, IInv, HandlerHasId
<1>3. CASE instanceMap[idOf[r]] = NoRun
  <2>1. /\ instanceMap' = [instanceMap EXCEPT ![idOf[r]] = r]
        /\ pc' = [pc EXCEPT ![r] = "test"] /\ UNCHANGED idOf
    BY <1>3 DEF TryCreateInstance, Goto
  <2>2. \A s \in Run : Active(s)' <=> (Active(s) \/ s = r)
    BY <2>1 DEF IInv, TypeOK, Active
  <2>3. \A s \in Run : (\E i \in Id : instanceMap'[i] = s)
                         <=> (s = r \/ \E i \in Id : instanceMap[i] = s)
    BY <1>1, <1>3, <2>1, ClientRunAssumption DEF IInv, TypeOK
  <2>4. ActiveIsRegistered'
    BY <2>2, <2>3 DEF IInv, ActiveIsRegistered
  <2>5. FiledById' /\ StartedHasId'
    BY <1>1, <2>1 DEF IInv, TypeOK, FiledById, StartedHasId
  <2> QED BY <1>0, <1>2, <2>4, <2>5 DEF IInv
<1>4. CASE instanceMap[idOf[r]] /= NoRun
  <2>1. /\ UNCHANGED <<instanceMap, idOf>> /\ pc[r] = "enter"
        /\ pc' = [pc EXCEPT ![r] = "done"]
    BY <1>4 DEF TryCreateInstance, Goto
  <2>2. \A s \in Run : /\ Active(s)' <=> Active(s)
                       /\ pc'[s] /= "unused" => pc[s] /= "unused"
    BY <2>1 DEF IInv, TypeOK, Active
  <2> QED BY <1>0, <1>2, <2>1, <2>2, FramePreserves
<1> QED BY <1>3, <1>4

LEMMA EraseInstancePreserves ==
  ASSUME NEW r \in Run
  PROVE  IInv /\ EraseInstance(r) /\ UNCHANGED crashed => IInv'
<1> SUFFICES ASSUME IInv, EraseInstance(r), UNCHANGED crashed PROVE IInv'
  OBVIOUS
<1>1. /\ instanceMap' = [instanceMap EXCEPT ![idOf[r]] = NoRun]
      /\ pc[r] = "erase" /\ pc' = [pc EXCEPT ![r] = "done"] /\ UNCHANGED idOf
  BY DEF EraseInstance, Goto
<1>2. idOf[r] \in Id
  BY <1>1 DEF IInv, StartedHasId
<1>3. TypeOK'
  BY <1>1, <1>2 DEF EraseInstance, IInv, TypeOK, Steps
<1>4. PICK i \in Id : instanceMap[i] = r
  BY <1>1 DEF IInv, ActiveIsRegistered, Active
<1>5. i = idOf[r]
  BY <1>4, ClientRunAssumption DEF IInv, FiledById
<1>6. \A s \in Run : Active(s)' <=> (Active(s) /\ s /= r)
  BY <1>1 DEF IInv, TypeOK, Active
<1>7. \A s \in Run : (\E j \in Id : instanceMap'[j] = s)
                       <=> (s /= r /\ \E j \in Id : instanceMap[j] = s)
  <2> SUFFICES ASSUME NEW s \in Run
               PROVE  (\E j \in Id : instanceMap'[j] = s)
                        <=> (s /= r /\ \E j \in Id : instanceMap[j] = s)
    OBVIOUS
  <2>1. \A j \in Id : instanceMap'[j] = IF j = i THEN NoRun ELSE instanceMap[j]
    BY <1>1, <1>5 DEF IInv, TypeOK
  <2>2. \A j \in Id : instanceMap[j] = r => j = i
    BY <1>5, ClientRunAssumption DEF IInv, FiledById
  <2> QED BY <1>4, <2>1, <2>2, ClientRunAssumption
<1>8. ActiveIsRegistered'
  BY <1>6, <1>7 DEF IInv, ActiveIsRegistered
<1>9. FiledById' /\ StartedHasId' /\ HandlerHasId'
  BY <1>1, <1>2
     DEF EraseInstance, IInv, TypeOK, FiledById, StartedHasId, HandlerHasId
<1> QED BY <1>3, <1>8, <1>9 DEF IInv

(* The steps of a run inside its loop leave the table alone.               *)
LEMMA LoopPreserves ==
  ASSUME NEW r \in Run
  PROVE  /\ IInv
         /\ \/ /\ TestRunning(r) \/ CreateClient(r) \/ Begin(r)
                    \/ StartModule(r) \/ ModuleStops(r) \/ Wait(r)
               /\ UNCHANGED crashed
            \/ Destroy(r)
         => IInv'
<1> SUFFICES ASSUME IInv,
                    \/ /\ TestRunning(r) \/ CreateClient(r) \/ Begin(r)
                            \/ StartModule(r) \/ ModuleStops(r) \/ Wait(r)
                       /\ UNCHANGED crashed
                    \/ Destroy(r)
             PROVE  IInv'
  OBVIOUS
<1>1. TypeOK'
  <2>1. CASE (TestRunning(r) \/ CreateClient(r) \/ Begin(r)) /\ UNCHANGED crashed
    BY <2>1 DEF TestRunning, CreateClient, Begin, Goto, IInv, TypeOK, Steps
  <2>2. CASE StartModule(r) /\ UNCHANGED crashed
    BY <2>2 DEF StartModule, StartNetStack, StartWs, StartPeer, Start,
                StartFails, Drop, Goto, IInv, TypeOK, Steps, Modules
  <2>3. CASE (ModuleStops(r) \/ Wait(r)) /\ UNCHANGED crashed
    <3>1. CASE ModuleStops(r) /\ UNCHANGED crashed
      BY <3>1 DEF ModuleStops, IInv, TypeOK
    <3>2. CASE Wait(r) /\ UNCHANGED crashed
      <4>1. PICK left \in {{}, {"tun"}} :
              modules' = [modules EXCEPT ![r] = left]
        BY <3>2 DEF Wait
      <4>2. left \in SUBSET Modules
        BY DEF Modules
      <4>3. modules' \in [Run -> SUBSET Modules]
        BY <4>1, <4>2 DEF IInv, TypeOK
      <4> QED BY <3>2, <4>3 DEF Wait, Drop, Goto, IInv, TypeOK, Steps
    <3> QED BY <2>3, <3>1, <3>2
  <2>4. CASE Destroy(r)
    <3>1. crashed' \in BOOLEAN
      BY <2>4 DEF Destroy, IInv, TypeOK
    <3> QED BY <2>4, <3>1 DEF Destroy, Goto, IInv, TypeOK, Steps
  <2> QED BY <2>1, <2>2, <2>3, <2>4
<1>2. UNCHANGED <<instanceMap, idOf, req>>
  BY DEF TestRunning, CreateClient, Begin, StartModule, ModuleStops, Wait,
         Destroy
<1> DEFINE Inside == {"test", "sleep", "new", "netstack", "ws", "peer", "wait",
                      "destroy", "erase"}
<1>3. \/ UNCHANGED pc
      \/ pc[r] \in Inside /\ \E s \in Inside : pc' = [pc EXCEPT ![r] = s]
  BY DEF TestRunning, CreateClient, Begin, StartModule, StartNetStack, StartWs,
         StartPeer, Start, StartFails, Drop, ModuleStops, Wait, Destroy, Goto
<1>4. \A s \in Run : /\ Active(s)' <=> Active(s)
                     /\ pc'[s] /= "unused" => pc[s] /= "unused"
  BY <1>3 DEF IInv, TypeOK, Active
<1>5. HandlerHasId'
  BY <1>2 DEF IInv, HandlerHasId
<1> QED BY <1>1, <1>2, <1>4, <1>5, FramePreserves

LEMMA NextIInv == IInv /\ [Next]_vars => IInv'
<1> SUFFICES ASSUME IInv, [Next]_vars PROVE IInv'
  OBVIOUS
<1>1. CASE Requests
  BY <1>1, RunRequestPreserves, HandlerPreserves, LoopPreserves DEF Requests
<1>2. ASSUME NEW r \in Run, RunStep(r) \/ Destroy(r) PROVE IInv'
  BY <1>2, TryCreateInstancePreserves, EraseInstancePreserves, LoopPreserves
     DEF RunStep
<1>3. ASSUME NEW h \in Handler, HandlerStep(h) PROVE IInv'
  BY <1>3, HandlerPreserves DEF HandlerStep
<1>4. CASE UNCHANGED vars
  <2>1. TypeOK'
    BY <1>4 DEF vars, runVars, IInv, TypeOK
  <2>2. HandlerHasId'
    BY <1>4 DEF vars, IInv, HandlerHasId
  <2> QED BY <1>4, <2>1, <2>2, FramePreserves DEF vars, runVars, Active
<1> QED BY <1>1, <1>2, <1>3, <1>4 DEF Next

-----------------------------------------------------------------------------
(* The variables of the service, the instance table and the runs keep      *)
(* their types.                                                            *)
THEOREM TypeCorrect == Spec => []TypeOK
<1>1. IInv => TypeOK
  BY DEF IInv
<1> QED BY InitIInv, NextIInv, <1>1, PTL DEF Spec

(* Every run that goes on is registered and every registered run goes on,  *)
(* so a later shutdown of its id finds it (try_create_instance,            *)
(* try_erase_instance, candy::client::shutdown); no two runs of an id ever *)
(* overlap, however many run and shutdown requests arrive at once.         *)
THEOREM RunsAlwaysMatchIds == Spec => []RunsMatchIds
<1>1. IInv => OneRunPerId
  <2> SUFFICES ASSUME IInv, NEW r \in Run, NEW s \in Run,
                      Active(r), Active(s), idOf[r] = idOf[s]
               PROVE  r = s
    BY DEF OneRunPerId
  <2>1. PICK i \in Id : instanceMap[i] = r
    BY DEF IInv, ActiveIsRegistered
  <2>2. PICK j \in Id : instanceMap[j] = s
    BY DEF IInv, ActiveIsRegistered
  <2>3. idOf[r] = i /\ idOf[s] = j
    BY <2>1, <2>2, ClientRunAssumption DEF IInv, FiledById
  <2> QED BY <2>1, <2>2, <2>3
<1>2. IInv => RunsMatchIds
  BY <1>1 DEF IInv, RunsMatchIds
<1> QED BY InitIInv, NextIInv, <1>2, PTL DEF Spec
=============================================================================
