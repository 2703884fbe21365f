----------------------------- MODULE AegisProofs -----------------------------
(***************************************************************************)
(* The whole system for every fleet, every number of emergencies and every *)
(* bound on the bus: it implements its two halves, so that what is proved  *)
(* of the orchestrator and of the agents holds when they feed each other,  *)
(* and no vehicle acts for an emergency it was not assigned to.            *)
(***************************************************************************)
EXTENDS Aegis, OrchestratorRefinement, VehicleAgentProofs

-----------------------------------------------------------------------------
(* A step of the system is a step of each half.                             *)

(* What is delivered is a command the agents' environment may send.         *)
LEMMA DeliveryIsCommand ==
  ASSUME NEW vs \in SUBSET Vehicle, NEW m \in Command, Deliver(vs, m),
         UNCHANGED <<link, bodyVars, up>>
  PROVE  VehicleNext
BY DEF AnyCommand, VehicleNext

(* Reading a message off the bus is a handler of the orchestrator and a     *)
(* reader of the agents.                                                    *)
LEMMA ReceiveSteps ==
  ASSUME SystemTypeOK, Receive
  PROVE  Next /\ VehicleNext
<1> DEFINE m == Head(up)
<1>1. m \in UpMessage
  BY HeadTailProperties DEF Receive, SystemTypeOK, VehicleTypeOK
<1>2. m.v \in Vehicle
  BY <1>1 DEF UpMessage
<1>3. m.kind \in {"register", "telemetry"} => m.st \in Reportable
  BY <1>1, SystemAssumption DEF UpMessage, SystemAssumption
<1>4. m.kind = "ack" => m.e \in Emergency
  BY <1>1 DEF UpMessage
<1>5. \/ m.kind = "register" /\ HandleRegistration(m.v, m.st)
      \/ m.kind = "telemetry" /\ HandleTelemetry(m.v, m.st)
      \/ m.kind = "alert" /\ HandleAlert(m.v)
      \/ m.kind = "cleared" /\ HandleAlertCleared(m.v)
      \/ m.kind = "ack" /\ HandleDispatchAck(m.e, m.v)
  BY DEF Receive
<1> HIDE DEF m
<1>6. HandleMessage
  BY <1>2, <1>3, <1>4, <1>5 DEF HandleMessage
<1> QED
  BY <1>6 DEF Next, Receive, VehicleNext, AnyReader

(* Publishing a dispatch ends an await of the orchestrator and is a command *)
(* to the agents.                                                           *)
LEMMA DispatchSteps ==
  ASSUME SystemTypeOK, NEW t \in Task, NEW v \in Vehicle, Dispatch(t, v)
  PROVE  Next /\ VehicleNext
<1>1. Next
  BY DEF Dispatch, Resume, Next
<1>2. op[t].e \in Emergency
  BY DEF Dispatch, PublishCommand, SystemTypeOK, TypeOK, Await, Idle
<1>3. [cmd |-> "dispatch", e |-> op[t].e] \in Command
  BY <1>2 DEF Command
<1>4. PICK reached \in SUBSET Vehicle :
        Deliver(reached, [cmd |-> "dispatch", e |-> op[t].e])
  BY DEF Dispatch
<1> QED
  BY <1>1, <1>3, <1>4, DeliveryIsCommand DEF Dispatch

(* So does, and is, the broadcast of a closure that anybody hears.          *)
LEMMA BroadcastSteps ==
  ASSUME SystemTypeOK, NEW t \in Task, Broadcast(t)
  PROVE  Next /\ [VehicleNext]_vehicleVars
<1>1. Next
  BY DEF Broadcast, Resume, Next
<1>2. CASE op[t].at = "RESOLVED" /\ mode = "running"
  <2>1. op[t].e \in Emergency /\ op[t].vs \in SUBSET Vehicle
    BY <1>2 DEF SystemTypeOK, TypeOK, Await, Idle
  <2>2. [cmd |-> "resolve", e |-> op[t].e, vs |-> op[t].vs] \in Command
    BY <2>1 DEF Command
  <2>3. PICK reached \in SUBSET Vehicle :
          Deliver(reached, [cmd |-> "resolve", e |-> op[t].e, vs |-> op[t].vs])
    BY <1>2 DEF Broadcast
  <2> QED
    BY <1>1, <2>2, <2>3, DeliveryIsCommand DEF Broadcast
<1>3. CASE ~(op[t].at = "RESOLVED" /\ mode = "running")
  BY <1>1, <1>3 DEF Broadcast, vehicleVars, bodyVars
<1> QED
  BY <1>2, <1>3

(* Every step of the system is a step, or a stutter, of each half.          *)
LEMMA SystemSteps ==
  ASSUME SystemTypeOK, [SystemNext]_systemVars
  PROVE  [Next]_vars /\ [VehicleNext]_vehicleVars
<1>1. CASE Drop
  BY <1>1 DEF Drop, VehicleNext, AnyReader
<1>2. CASE OrchestratorStep
  BY <1>2 DEF OrchestratorStep, Next, Resume
<1>3. CASE \E v \in Vehicle : FleetStep(v)
  BY <1>3 DEF FleetStep, VehicleNext
<1>4. CASE UNCHANGED systemVars
  BY <1>4 DEF systemVars
<1> QED
  BY <1>1, <1>2, <1>3, <1>4, ReceiveSteps, DispatchSteps, BroadcastSteps DEF SystemNext

(* Both sides keep their types when they feed each other: no message that   *)
(* one half sends is one the other does not understand.                     *)
THEOREM SystemTypeCorrect == SystemSpec => []SystemTypeOK
<1>1. SystemInit => SystemTypeOK
  BY InitTypes, VehicleInitTypes DEF SystemInit, SystemTypeOK
<1>2. SystemTypeOK /\ [SystemNext]_systemVars => SystemTypeOK'
  BY SystemSteps, NextTypes, VehicleNextTypes DEF SystemTypeOK
<1> QED
  BY <1>1, <1>2, PTL DEF SystemSpec

(* The system implements its halves.  The arbitrary messages and commands   *)
(* that the two modules assume of their environments include all that the   *)
(* other half sends.                                                        *)
THEOREM SystemImplementsHalves == SystemSpec => Spec /\ VehicleSpec
<1>1. SystemInit => Init /\ VehicleInit
  BY DEF SystemInit
<1>2. SystemTypeOK /\ [SystemNext]_systemVars => [Next]_vars /\ [VehicleNext]_vehicleVars
  BY SystemSteps
<1> QED
  BY <1>1, <1>2, SystemTypeCorrect, PTL DEF SystemSpec, Spec, VehicleSpec

(* So the orchestrator implements the abstract life cycle of emergencies    *)
(* whatever the real vehicles do.                                           *)
THEOREM SystemRefinesLifecycle == SystemSpec => RefinesLifecycle
BY SystemImplementsHalves, Refinement, PTL

-----------------------------------------------------------------------------
(* Who acts for which emergency.                                            *)

(* v acts for e, or will when it reads a command on its way.                *)
Concerned(v, e) ==
  \/ mission[v] = e
  \/ taking[v] = e
  \/ \E i \in DOMAIN commands[v] : commands[v][i] = [cmd |-> "dispatch", e |-> e]

(* The invariant: the orchestrator's records, the types of the agents, and  *)
(* the property.                                                            *)
SystemInv == IInv /\ VehicleTypeOK /\ MissionWasAssigned

(* An assignment is for good: a record with units is never replaced, and an *)
(* emergency that has had units is never waiting again.                     *)
LEMMA AssignmentLasts ==
  ASSUME IInv, [Next]_vars, IInv',
         NEW v \in Vehicle, NEW e \in Emergency, Assigned(v, e)
  PROVE  Assigned(v, e)'
<1>1. units'[e] = units[e]
  <2>1. units \in [Emergency -> SUBSET Vehicle] /\ units[e] # {}
    BY DEF IInv, TypeOK, Assigned
  <2> QED
    BY <2>1, NextKind DEF StepKind, Given, Begun, Ended
<1>2. units'[e] # {}
  BY <1>1 DEF Assigned
<1>3. phase'[e] \notin {"UNREPORTED", "DISPATCHING", "CANCELLED"}
  BY <1>2 DEF IInv, Records, WaitingHasNoUnits, Undispatched
<1> QED
  BY <1>1, <1>3 DEF Assigned

(* A unit that a command is still to be published to is assigned, however   *)
(* long the task that publishes it has been suspended.                      *)
LEMMA CommandedIsAssigned ==
  ASSUME IInv, NEW t \in Task, NEW v \in Vehicle, PublishCommand(t, v)
  PROVE  Assigned(v, op[t].e)
<1>1. op[t].e \in Emergency /\ v \in units[op[t].e]
  BY DEF PublishCommand, IInv, TypeOK, Await, Idle, Records, CommandsMatchRecord
<1>2. phase[op[t].e] \notin {"UNREPORTED", "DISPATCHING", "CANCELLED"}
  BY <1>1 DEF IInv, Records, WaitingHasNoUnits, Undispatched
<1> QED
  BY <1>1, <1>2 DEF Assigned

(* What is left of a queue was in it.                                       *)
LEMMA TailKeeps ==
  ASSUME NEW s \in Seq(Command), s # <<>>, NEW i \in DOMAIN Tail(s)
  PROVE  i + 1 \in DOMAIN s /\ Tail(s)[i] = s[i + 1]
BY HeadTailProperties

(* A vehicle takes no emergency upon itself: what concerns it after a step  *)
(* of its own has concerned it before.                                      *)
LEMMA VehiclesInventNothing ==
  ASSUME VehicleTypeOK, NEW w \in Vehicle, VehicleStep(w),
         NEW v \in Vehicle, NEW e \in Emergency, Concerned(v, e)'
  PROVE  Concerned(v, e)
<1> USE VehicleAssumption DEF VehicleAssumption, VehicleTypeOK
<1>1. CASE StartVehicle(w) \/ Subscribe(w)
  BY <1>1 DEF StartVehicle, Subscribe, bodyVars, Concerned
<1>2. CASE Crash(w)
  BY <1>2 DEF Crash, Concerned
<1>3. CASE AnyTick(w)
  <2>1. UNCHANGED <<taking, commands>> /\ mission'[v] \in {mission[v], None}
    BY <1>3 DEF AnyTick, Tick, TickUnderRepair, FinishRepair, ReportRepaired,
                EnterMaintenance, bodyVars
  <2> QED
    BY <2>1 DEF Concerned
<1>4. CASE HandleDispatch(w)
  <2>1. /\ commands[w] \in Seq(Command) /\ commands[w] # <<>>
        /\ commands'[w] = Tail(commands[w])
        /\ \A u \in Vehicle \ {w} : commands'[u] = commands[u]
    BY <1>4 DEF HandleDispatch, Listening, Consume
  <2>2. Head(commands[w]) = [cmd |-> "dispatch", e |-> Head(commands[w]).e]
    <3>1. Head(commands[w]) \in Command /\ Head(commands[w]).cmd = "dispatch"
      BY <1>4, <2>1, HeadTailProperties DEF HandleDispatch
    <3> QED
      BY <3>1 DEF Command
  <2>3. 1 \in DOMAIN commands[w] /\ commands[w][1] = Head(commands[w])
    BY <2>1, HeadTailProperties
  <2>4. \/ mission'[v] = mission[v] /\ taking'[v] = taking[v]
        \/ v = w /\ mission'[v] = Head(commands[w]).e /\ taking'[v] = Head(commands[w]).e
    BY <1>4 DEF HandleDispatch
  <2>5. CASE mission'[v] = e \/ taking'[v] = e
    BY <2>2, <2>3, <2>4, <2>5 DEF Concerned
  <2>6. ASSUME NEW i \in DOMAIN commands'[v],
               commands'[v][i] = [cmd |-> "dispatch", e |-> e]
        PROVE  Concerned(v, e)
    <3>1. CASE v = w
      <4>1. i \in DOMAIN Tail(commands[w])
        BY <2>1, <2>6, <3>1
      <4>2. i + 1 \in DOMAIN commands[v] /\ commands'[v][i] = commands[v][i + 1]
        BY <2>1, <3>1, <4>1, TailKeeps
      <4> QED
        BY <2>6, <4>2 DEF Concerned
    <3>2. CASE v # w
      BY <2>1, <2>6, <3>2 DEF Concerned
    <3> QED
      BY <3>1, <3>2
  <2> QED
    BY <2>5, <2>6 DEF Concerned
<1>5. CASE SetTarget(w)
  BY <1>5 DEF SetTarget, Concerned
<1>6. CASE HandleResolve(w)
  <2>1. /\ commands[w] \in Seq(Command) /\ commands[w] # <<>>
        /\ commands'[w] = Tail(commands[w])
        /\ \A u \in Vehicle \ {w} : commands'[u] = commands[u]
        /\ taking' = taking /\ mission'[v] \in {mission[v], None}
    BY <1>6 DEF HandleResolve, Listening, Consume
  <2>2. ASSUME NEW i \in DOMAIN commands'[v],
               commands'[v][i] = [cmd |-> "dispatch", e |-> e]
        PROVE  Concerned(v, e)
    <3>1. CASE v = w
      <4>1. i \in DOMAIN Tail(commands[w])
        BY <2>1, <2>2, <3>1
      <4>2. i + 1 \in DOMAIN commands[v] /\ commands'[v][i] = commands[v][i + 1]
        BY <2>1, <3>1, <4>1, TailKeeps
      <4> QED
        BY <2>2, <4>2 DEF Concerned
    <3>2. CASE v # w
      BY <2>1, <2>2, <3>2 DEF Concerned
    <3> QED
      BY <3>1, <3>2
  <2> QED
    BY <2>1, <2>2 DEF Concerned
<1> QED
  BY <1>1, <1>2, <1>3, <1>4, <1>5, <1>6 DEF VehicleStep

(* The bus concerns a vehicle with what is published, and nothing else.     *)
LEMMA DeliveryConcerns ==
  ASSUME VehicleTypeOK, NEW vs \in SUBSET Vehicle, NEW m \in Command, Deliver(vs, m),
         UNCHANGED <<mission, taking>>,
         NEW v \in Vehicle, NEW e \in Emergency, Concerned(v, e)'
  PROVE  Concerned(v, e) \/ (v \in vs /\ m = [cmd |-> "dispatch", e |-> e])
<1>1. commands[v] \in Seq(Command)
  BY DEF VehicleTypeOK
<1>2. commands'[v] = commands[v] \/ (v \in vs /\ commands'[v] = Append(commands[v], m))
  BY DEF Deliver
<1>3. ASSUME NEW i \in DOMAIN commands'[v], v \in vs,
             commands'[v] = Append(commands[v], m),
             commands'[v][i] = [cmd |-> "dispatch", e |-> e]
      PROVE  Concerned(v, e) \/ m = [cmd |-> "dispatch", e |-> e]
  <2>1. CASE i = Len(commands[v]) + 1
    BY <1>1, <1>3, <2>1, AppendProperties
  <2>2. CASE i # Len(commands[v]) + 1
    <3>1. i \in DOMAIN commands[v] /\ commands'[v][i] = commands[v][i]
      BY <1>1, <1>3, <2>2, AppendProperties
    <3> QED
      BY <1>3, <3>1 DEF Concerned
  <2> QED
    BY <2>1, <2>2
<1>4. CASE commands'[v] = commands[v]
  BY <1>4 DEF Concerned
<1>5. ASSUME v \in vs, commands'[v] = Append(commands[v], m)
      PROVE  Concerned(v, e) \/ m = [cmd |-> "dispatch", e |-> e]
  <2>1. CASE mission'[v] = e \/ taking'[v] = e
    BY <2>1 DEF Concerned
  <2>2. CASE \E i \in DOMAIN commands'[v] : commands'[v][i] = [cmd |-> "dispatch", e |-> e]
    BY <1>3, <1>5, <2>2
  <2> QED
    BY <2>1, <2>2 DEF Concerned
<1> QED
  BY <1>2, <1>4, <1>5

(* Each step of the system keeps the property.                              *)
LEMMA SystemKeepsAssignments ==
  ASSUME SystemInv, [SystemNext]_systemVars, IInv'
  PROVE  MissionWasAssigned'
<1> SUFFICES ASSUME NEW v \in Vehicle, NEW e \in Emergency, Concerned(v, e)'
             PROVE  Assigned(v, e)'
  BY DEF MissionWasAssigned, Concerned
<1> USE DEF SystemInv
<1>1. SystemTypeOK
  BY DEF IInv, SystemTypeOK
<1>2. Concerned(v, e) => Assigned(v, e)'
  BY <1>1, SystemSteps, AssignmentLasts DEF MissionWasAssigned, Concerned
<1>3. CASE UNCHANGED <<mission, taking, commands>>
  BY <1>2, <1>3 DEF Concerned
<1>4. ASSUME NEW t \in Task, NEW w \in Vehicle, Dispatch(t, w) PROVE Assigned(v, e)'
  <2>1. PICK vs \in SUBSET {w} : Deliver(vs, [cmd |-> "dispatch", e |-> op[t].e])
    BY <1>4 DEF Dispatch
  <2>2. UNCHANGED <<mission, taking>> /\ PublishCommand(t, w)
    BY <1>4 DEF Dispatch, bodyVars
  <2>3. [cmd |-> "dispatch", e |-> op[t].e] \in Command
    BY <1>1, <2>2 DEF PublishCommand, IInv, TypeOK, Await, Idle, Command
  <2>4. Concerned(v, e) \/ (v = w /\ op[t].e = e)
    BY <2>1, <2>2, <2>3, DeliveryConcerns
  <2> QED
    BY <1>1, <1>2, <2>2, <2>4, CommandedIsAssigned, SystemSteps, AssignmentLasts
<1>5. ASSUME NEW t \in Task, Broadcast(t) PROVE Assigned(v, e)'
  <2>1. CASE UNCHANGED commands
    BY <1>3, <1>5, <2>1 DEF Broadcast, bodyVars
  <2>2. CASE ~UNCHANGED commands
    <3>1. PICK vs \in SUBSET Vehicle :
            Deliver(vs, [cmd |-> "resolve", e |-> op[t].e, vs |-> op[t].vs])
      BY <1>5, <2>2 DEF Broadcast
    <3>2. UNCHANGED <<mission, taking>>
      BY <1>5 DEF Broadcast, bodyVars
    <3>3. [cmd |-> "resolve", e |-> op[t].e, vs |-> op[t].vs]
            # [cmd |-> "dispatch", e |-> e]
      OBVIOUS
    <3>4. [cmd |-> "resolve", e |-> op[t].e, vs |-> op[t].vs] \in Command
      <4>1. op[t].at = "RESOLVED"
        BY <1>5, <2>2 DEF Broadcast
      <4>2. op[t].e \in Emergency /\ op[t].vs \in SUBSET Vehicle
        BY <4>1 DEF IInv, TypeOK, Await, Idle
      <4> QED
        BY <4>2 DEF Command
    <3> QED
      BY <1>2, <3>1, <3>2, <3>3, <3>4, DeliveryConcerns
  <2> QED
    BY <2>1, <2>2
<1>6. ASSUME NEW w \in Vehicle, FleetStep(w) PROVE Assigned(v, e)'
  BY <1>2, <1>6, VehiclesInventNothing DEF FleetStep
<1>7. CASE Receive \/ Drop \/ OrchestratorStep \/ UNCHANGED systemVars
  BY <1>3, <1>7 DEF Receive, Drop, OrchestratorStep, systemVars, vehicleVars, bodyVars
<1> QED
  BY <1>4, <1>5, <1>6, <1>7 DEF SystemNext

(* However late a command is published and read, and whatever crashes,      *)
(* fails, is retried, swept or resolved in between, a vehicle only acts for *)
(* an emergency whose dispatch record lists it.                             *)
THEOREM MissionWasAssignedAlways == SystemSpec => []MissionWasAssigned
<1>1. SystemInit => MissionWasAssigned
  BY VehicleAssumption
     DEF SystemInit, VehicleInit, MissionWasAssigned, VehicleAssumption
<1>2. /\ IInv /\ IInv'
      /\ SystemTypeOK
      /\ MissionWasAssigned
      /\ [SystemNext]_systemVars
      => MissionWasAssigned'
  BY SystemKeepsAssignments DEF SystemInv, SystemTypeOK
<1>3. SystemSpec => []IInv
  BY SystemImplementsHalves, Invariant, PTL
<1> QED
  BY <1>1, <1>2, <1>3, SystemTypeCorrect, PTL DEF SystemSpec

(* So the vehicles of the whole system, commanded by the orchestrator and   *)
(* fed by its bus, do their duty.                                           *)
THEOREM SystemDoesItsDuty == SystemSpec => RefinesDuty
BY SystemImplementsHalves, AgentsDoTheirDuty, PTL
===============================================================================
