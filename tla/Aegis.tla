-------------------------------- MODULE Aegis ---------------------------------
(***************************************************************************)
(* The whole system: the orchestrator (module Orchestrator) and the        *)
(* vehicles (module VehicleAgent), joined by the message bus.  What the    *)
(* orchestrator reads is the head of up; what it publishes is appended to  *)
(* the commands of the vehicles that listen.                               *)
(***************************************************************************)
EXTENDS Orchestrator, VehicleAgent

ASSUME SystemAssumption == Reportable = VehicleStatus

systemVars == <<vars, vehicleVars>>

-----------------------------------------------------------------------------

(* The message loop reads the next message.                                 *)
Receive ==
  /\ up # <<>>
  /\ up' = Tail(up)
  /\ LET m == Head(up) IN
     \/ m.kind = "register" /\ HandleRegistration(m.v, m.st)
     \/ m.kind = "telemetry" /\ HandleTelemetry(m.v, m.st)
     \/ m.kind = "alert" /\ HandleAlert(m.v)
     \/ m.kind = "cleared" /\ HandleAlertCleared(m.v)
     \/ m.kind = "ack" /\ HandleDispatchAck(m.e, m.v)
  /\ UNCHANGED <<link, bodyVars, commands>>

(* A message that nobody is subscribed to, or an acknowledgment that names  *)
(* no current dispatch.                                                     *)
Drop ==
  /\ up # <<>>
  /\ up' = Tail(up)
  /\ LET m == Head(up) IN
       mode = "running" =>
         /\ LoopFree
         /\ m.kind = "ack"
         /\ ~ListensToAcks \/ m.v \notin units[m.e]
  /\ UNCHANGED <<vars, link, bodyVars, commands>>

(* A dispatch command is published, or its publication fails and is logged. *)
Dispatch(t, v) ==
  /\ PublishCommand(t, v)
  /\ \E reached \in IF Lossy THEN {{}, {v}} ELSE {{v}} :
       Deliver(reached, [cmd |-> "dispatch", e |-> op[t].e])
  /\ UNCHANGED <<link, bodyVars, up>>

(* A closure is published.  The vehicles subscribe to resolutions only: the *)
(* broadcast of a dismissal reaches nobody.                                 *)
Broadcast(t) ==
  /\ PublishClosure(t)
  /\ IF op[t].at = "RESOLVED" /\ mode = "running"
     THEN \E reached \in IF Lossy THEN {{}, Vehicle} ELSE {Vehicle} :
            Deliver(reached, [cmd |-> "resolve", e |-> op[t].e, vs |-> op[t].vs])
     ELSE UNCHANGED commands
  /\ UNCHANGED <<link, bodyVars, up>>

(* What the orchestrator does without the bus.                              *)
OrchestratorStep ==
  /\ \/ TaskPersisted
     \/ ContinueRetry
     \/ ContinueSweep
     \/ \E t \in Task : DispatchPersisted(t)
     \/ \E t \in ApiTask, e \in Emergency : CreateEmergency(t, e)
     \/ \E t \in ApiTask, e \in Emergency : ResolveRequest(t, e)
     \/ \E e \in Emergency : SweepRound(e)
     \/ \E e \in Emergency : InjectCrime(e)
     \/ \E e \in Emergency : DismissStaleHistorical(e)
     \/ Start
     \/ Stop
  /\ UNCHANGED vehicleVars

FleetStep(v) == VehicleStep(v) /\ UNCHANGED vars

SystemInit == Init /\ VehicleInit

SystemNext ==
  \/ Receive
  \/ Drop
  \/ \E t \in Task, v \in Vehicle : Dispatch(t, v)
  \/ \E t \in Task : Broadcast(t)
  \/ OrchestratorStep
  \/ \E v \in Vehicle : FleetStep(v)

SystemSpec == SystemInit /\ [][SystemNext]_systemVars

(* Each task of each process goes on: an await returns, the loop reads, a   *)
(* vehicle ticks, listens and is repaired in the end.                       *)
SystemFairness ==
  /\ WF_systemVars(Start /\ UNCHANGED vehicleVars)
  /\ WF_systemVars(Receive \/ Drop)
  /\ WF_systemVars(TaskPersisted /\ UNCHANGED vehicleVars)
  /\ WF_systemVars(ContinueRetry /\ UNCHANGED vehicleVars)
  /\ WF_systemVars(ContinueSweep /\ UNCHANGED vehicleVars)
  /\ \A t \in Task :
       WF_systemVars(\/ DispatchPersisted(t) /\ UNCHANGED vehicleVars
               \/ \E v \in Vehicle : Dispatch(t, v)
               \/ Broadcast(t))
  /\ \A v \in Vehicle :
       /\ WF_systemVars((StartVehicle(v) \/ Subscribe(v)) /\ UNCHANGED vars)
       /\ SF_systemVars(FinishRepair(v) /\ UNCHANGED vars)
       /\ SF_systemVars(AnyTick(v) /\ UNCHANGED vars)
       /\ SF_systemVars((HandleDispatch(v) \/ HandleResolve(v)) /\ UNCHANGED vars)
       /\ WF_systemVars(SetTarget(v) /\ UNCHANGED vars)

FairSystemSpec == SystemSpec /\ SystemFairness

-----------------------------------------------------------------------------
(* Properties.                                                              *)

(* Both sides keep their types when they feed each other.                   *)
SystemTypeOK == TypeOK /\ VehicleTypeOK

(* The dispatch record of e lists v, and e is, or was, on mission.          *)
Assigned(v, e) ==
  v \in units[e] /\ phase[e] \notin {"UNREPORTED", "DISPATCHING", "CANCELLED"}

(* A vehicle only ever acts for an emergency whose current dispatch record  *)
(* lists it, and a dispatch on its way is addressed to a listed unit: never *)
(* for one that waits for units or was cancelled for want of them, however  *)
(* late the command is published and read.                                  *)
MissionWasAssigned ==
  \A v \in Vehicle, e \in Emergency :
    \/ mission[v] = e
    \/ taking[v] = e
    \/ \E i \in DOMAIN commands[v] :
         commands[v][i] = [cmd |-> "dispatch", e |-> e]
    => Assigned(v, e)

(* Telemetry heals the fleet view: a vehicle that keeps its status is seen  *)
(* in that status in the end, whatever the orchestrator assumed in between  *)
(* (a dispatch the vehicle never heard of, a repair it took for finished).  *)
ViewCatchesUp ==
  \A v \in Vehicle, s \in OperationalStatus :
    <>[](vstatus[v] = s /\ mode = "running") => <>[](status[v] = s)

(* "transitions the vehicle back to IDLE and clears the emergency ID (only  *)
(* if this vehicle was assigned to that emergency)": a resolution takes a   *)
(* vehicle off the emergency it names, not off another.                     *)
ResolveOnlyOwnMission ==
  [][\A v \in Vehicle :
       /\ commands[v] # <<>>
       /\ Head(commands[v]).cmd = "resolve"
       /\ commands'[v] = Tail(commands[v])
       /\ mission[v] # None
       /\ mission'[v] = None
       => Head(commands[v]).e = mission[v]]_systemVars

(* "Mark emergency as IN_PROGRESS once at least one assigned unit arrives": *)
(* an emergency that goes IN_PROGRESS has an assigned unit at its scene.    *)
InProgressMeansSomeoneAtScene ==
  [][\A e \in Emergency :
       phase[e] # "IN_PROGRESS" /\ phase'[e] = "IN_PROGRESS"
       => \E v \in units[e] : at[v] = e]_systemVars
=============================================================================
