----------------------------- MODULE Orchestrator -----------------------------
(***************************************************************************)
(* The orchestrator process: the fleet snapshots (FleetService), the       *)
(* emergencies and their dispatch records (EmergencyService and            *)
(* DispatchEngine), and the asyncio tasks that change them:                *)
(*                                                                         *)
(*   "loop"      the message loop, one bus message at a time               *)
(*   "sweeper"   the timeout sweeper                                       *)
(*   "injector"  the playback of historical crimes                         *)
(*   ApiTask     one HTTP request handler each                             *)
(*                                                                         *)
(* The event loop is cooperative: a task runs alone until it awaits the    *)
(* database or the bus.  An action is what a task does between two awaits; *)
(* op[t] is the await task t is suspended in.  The vehicles are the        *)
(* environment: their messages arrive in any order (module Aegis closes    *)
(* the loop).  Time is abstract: the sweeper and the injector may find any *)
(* emergency to be over a limit whenever its status has one.               *)
(* A definition marked as a mutant is a bug the code could have; no action *)
(* uses it, and the properties must fail when it replaces its successor.   *)
(***************************************************************************)
EXTENDS Participants, Integers, FiniteSets

CONSTANTS
  Type,                 (* vehicle types                                   *)
  VehicleType,          (* the type of each vehicle                        *)
  UnitsRequired,        (* units_required of each emergency                *)
  Historical,           (* those with reported_by = "historical_playback"  *)
  MaxActiveHistorical,  (* max_active_historical of the injector           *)
  CoordinationTasks,    (* coordination tasks an emergency goes through    *)
  ApiTask,              (* request handlers that may run at the same time  *)
  Reportable,           (* operational statuses that vehicles report       *)
  ListensToAcks         (* TRUE under run(), FALSE under the listener of   *)
                        (* the HTTP application, which leaves the pattern  *)
                        (* of the acknowledgments out                      *)

Task == {"loop", "sweeper", "injector"} \cup ApiTask
OperationalStatus == {"IDLE", "EN_ROUTE", "ON_SCENE", "MAINTENANCE"}
Active == {"DISPATCHING", "DISPATCHED", "IN_PROGRESS"}
Closed == {"RESOLVED", "CANCELLED", "DISMISSED"}

ASSUME OrchestratorAssumption ==
  /\ IsFiniteSet(Vehicle)
  /\ VehicleType \in [Vehicle -> Type]
  /\ UnitsRequired \in [Emergency -> [Type -> Nat]]
  /\ Historical \subseteq Emergency
  /\ MaxActiveHistorical \in Nat \ {0}
  /\ CoordinationTasks \in Nat \ {0}
  /\ ApiTask \cap {"loop", "sweeper", "injector"} = {}
  /\ Reportable \subseteq OperationalStatus
  /\ ListensToAcks \in BOOLEAN
  /\ None \notin Emergency

VARIABLES
  known,      (* vehicles with a snapshot in fleet                         *)
  located,    (* those whose snapshot has a location                       *)
  status,     (* operational_status of each snapshot                       *)
  cur,        (* current_emergency_id of each snapshot                     *)
  alert,      (* vehicles with has_active_alert                            *)
  phase,      (* status of each emergency; "UNREPORTED" before it exists   *)
  done,       (* coordination tasks completed, of CoordinationTasks        *)
  units,      (* vehicles listed in the dispatch record of an emergency    *)
  acked,      (* listed vehicles whose acknowledgment is recorded          *)
  arrived,    (* listed vehicles whose arrival is recorded                 *)
  mode,       (* "new", "running" or "stopped"                             *)
  op,         (* the await each task is suspended in                       *)
  waiting,    (* what is left of the message loop's retry list             *)
  toResolve,  (* what is left of the sweeper's to_auto_resolve list        *)
  toDismiss   (* what is left of the sweeper's to_dismiss list             *)

fleetVars == <<known, located, alert>>
missionVars == <<status, cur, phase>>
recordVars == <<units, acked, arrived>>
listVars == <<waiting, toResolve, toDismiss>>
vars == <<known, located, status, cur, alert, phase, done, units, acked,
          arrived, mode, op, waiting, toResolve, toDismiss>>

Idle == [at |-> "idle", e |-> None, vs |-> {}]
Await ==
  {Idle} \cup [at : {"dispatched", "commanding", "task_done", "RESOLVED", "DISMISSED"},
               e : Emergency,
               vs : SUBSET Vehicle]

Suspend(t, at, e, vs) == op' = [op EXCEPT ![t] = [at |-> at, e |-> e, vs |-> vs]]
Return(t) == op' = [op EXCEPT ![t] = Idle]

-----------------------------------------------------------------------------
(* DispatchEngine.                                                          *)

(* VehicleStatusSnapshot.is_available, and a location to measure from; st   *)
(* and al are the statuses and alerts the handler has set so far.           *)
AvailableIn(st, al) == {v \in known \cap located : st[v] = "IDLE" /\ v \notin al}

OfType(S, k) == {v \in S : VehicleType[v] = k}

(* The nearest UnitsRequired[e] vehicles of each type, all there are when   *)
(* they are fewer.  Distance is not modelled: any such choice may be the    *)
(* nearest.                                                                 *)
Selection(e, avail) ==
  {S \in SUBSET avail : \A k \in Type :
     LET wanted == UnitsRequired[e][k]
         there == Cardinality(OfType(avail, k))
     IN  Cardinality(OfType(S, k)) = IF there < wanted THEN there ELSE wanted}

CrewOnTheRoad(e) == {v \in Vehicle : cur[v] = e /\ status[v] # "IDLE"} (* a mutant *)

(* The units that hold e.                                                   *)
Crew(e) == {v \in Vehicle : cur[v] = e}

(* EmergencyService.process_emergency, up to the first await of             *)
(* OrchestratorAgent.process_emergency.  There is no test of the status.    *)
Process(t, e, st, al) ==
  \E S \in Selection(e, AvailableIn(st, al)) :
    /\ status' = [v \in Vehicle |-> IF v \in S THEN "EN_ROUTE" ELSE st[v]]
    /\ cur' = [v \in Vehicle |-> IF v \in S THEN e ELSE cur[v]]
    /\ phase' = [phase EXCEPT ![e] = IF S = {} THEN "DISPATCHING" ELSE "DISPATCHED"]
    /\ units' = [units EXCEPT ![e] = S]
    /\ acked' = [acked EXCEPT ![e] = {}]
    /\ arrived' = [arrived EXCEPT ![e] = {}]
    /\ Suspend(t, "dispatched", e, S)

CloseWithoutRelease(t, e, outcome, ph, st) ==               (* a mutant *)
  /\ phase' = [ph EXCEPT ![e] = outcome]
  /\ status' = st
  /\ cur' = cur
  /\ Suspend(t, outcome, e, Crew(e))

(* resolve_emergency and dismiss_emergency of EmergencyService: the status  *)
(* is set whatever it was, and every snapshot that still holds e goes to    *)
(* IDLE.  ph and st are the statuses the caller has set so far.             *)
Close(t, e, outcome, ph, st) ==
  /\ phase' = [ph EXCEPT ![e] = outcome]
  /\ status' = [v \in Vehicle |-> IF v \in Crew(e) THEN "IDLE" ELSE st[v]]
  /\ cur' = [v \in Vehicle |-> IF v \in Crew(e) THEN None ELSE cur[v]]
  /\ Suspend(t, outcome, e, Crew(e))
-----------------------------------------------------------------------------
(* The message loop: _handle_raw_message and its handlers.                  *)

LoopFree == mode = "running" /\ op["loop"] = Idle /\ waiting = {}

(* _handle_vehicle_registration: a vehicle that is already known keeps its  *)
(* emergency and its alert and only has its status overwritten.             *)
HandleRegistration(v, st) ==
  /\ LoopFree
  /\ known' = known \cup {v}
  /\ status' = [status EXCEPT ![v] = st]
  /\ UNCHANGED <<located, alert, cur, phase, done, recordVars, mode, op, listVars>>

(* Units to wait for before a coordination task completes.                  *)
Threshold(e) ==
  LET n == Cardinality(units[e])
      least == IF n < CoordinationTasks THEN n ELSE CoordinationTasks
  IN  IF least < 1 THEN 1 ELSE least

ArrivalIfAcked(e, v) ==                                     (* a mutant *)
  IF v \in acked[e] THEN [arrived EXCEPT ![e] = @ \cup {v}] ELSE arrived

(* The arrival of a listed unit, recorded once.                             *)
RecordedArrival(e, v) ==
  IF v \in units[e] THEN [arrived EXCEPT ![e] = @ \cup {v}] ELSE arrived

Started(e) == IF phase[e] = "DISPATCHED" THEN [phase EXCEPT ![e] = "IN_PROGRESS"]
                                         ELSE phase

(* A unit of e is on scene: mark_emergency_in_progress, then                *)
(* _record_unit_arrival, then _progress_coordination_tasks up to its first  *)
(* await.  seen is the status of the snapshots with this report applied.    *)
OnScene(v, e, seen) ==
  /\ arrived' = RecordedArrival(e, v)
  /\ IF done[e] = CoordinationTasks
     THEN Close("loop", e, "RESOLVED", Started(e), seen) /\ UNCHANGED done
     ELSE /\ status' = seen
          /\ phase' = Started(e)
          /\ UNCHANGED cur
          /\ IF Cardinality(arrived'[e]) >= Threshold(e)
             THEN /\ done' = [done EXCEPT ![e] = @ + 1]
                  /\ Suspend("loop", "task_done", e, {})
             ELSE UNCHANGED <<done, op>>

(* _handle_telemetry: the reported status overwrites the snapshot's, also   *)
(* when the report was sent before the vehicle heard of its mission.        *)
HandleTelemetry(v, st) ==
  /\ LoopFree
  /\ known' = known \cup {v}
  /\ located' = located \cup {v}
  /\ LET seen == [status EXCEPT ![v] = st] IN
       IF st = "ON_SCENE" /\ cur[v] # None
       THEN OnScene(v, cur[v], seen)
       ELSE status' = seen /\ UNCHANGED <<cur, phase, done, arrived, op>>
  /\ UNCHANGED <<alert, units, acked, mode, listVars>>

(* The loop resumes after the timeline and snapshot of a completed task.    *)
TaskPersisted ==
  LET e == op["loop"].e IN
  /\ op["loop"].at = "task_done"
  /\ IF done[e] = CoordinationTasks
     THEN Close("loop", e, "RESOLVED", phase, status)
     ELSE Return("loop") /\ UNCHANGED missionVars
  /\ UNCHANGED <<fleetVars, done, recordVars, mode, listVars>>

HandleAlertUnchecked(v) ==                                  (* a mutant *)
  /\ LoopFree
  /\ alert' = alert \cup {v}
  /\ UNCHANGED <<known, located, missionVars, done, recordVars, mode, op, listVars>>

(* _handle_alert.                                                           *)
HandleAlert(v) ==
  /\ LoopFree
  /\ alert' = alert \cup ({v} \cap known)
  /\ UNCHANGED <<known, located, missionVars, done, recordVars, mode, op, listVars>>

(* _retry_dispatching_emergencies from the point where S is left to retry:  *)
(* the next one is processed whatever has become of it since the list was   *)
(* taken.                                                                   *)
RetryNext(S, st, al) ==
  IF S = {}
  THEN status' = st /\ waiting' = {} /\ UNCHANGED <<cur, phase, recordVars, op>>
  ELSE \E e \in S : Process("loop", e, st, al) /\ waiting' = S \ {e}

AwaitingArrival == {e \in Emergency : phase[e] \in {"DISPATCHING", "DISPATCHED"}} (* a mutant *)

(* get_dispatching_emergencies.                                             *)
DispatchingEmergencies == {e \in Emergency : phase[e] = "DISPATCHING"}

(* clear_alert sets a known vehicle to IDLE, whatever it is doing.          *)
Cleared(v) == IF v \in known THEN [status EXCEPT ![v] = "IDLE"] ELSE status

(* _handle_alert_cleared, up to the first await of the retry.               *)
HandleAlertCleared(v) ==
  /\ LoopFree
  /\ alert' = alert \ {v}
  /\ RetryNext(DispatchingEmergencies, Cleared(v), alert')
  /\ UNCHANGED <<known, located, done, mode, toResolve, toDismiss>>

(* The loop resumes in the retry after one emergency has been processed.    *)
ContinueRetry ==
  /\ op["loop"] = Idle
  /\ waiting # {}
  /\ RetryNext(waiting, status, alert)
  /\ UNCHANGED <<fleetVars, done, mode, toResolve, toDismiss>>

(* _handle_dispatch_ack for the dispatch_id that e has now; an              *)
(* acknowledgment of another dispatch, or by a vehicle that is not listed,  *)
(* changes nothing.  The awaits that follow change no state and need no     *)
(* action of their own.                                                     *)
HandleDispatchAck(e, v) ==
  /\ LoopFree
  /\ ListensToAcks
  /\ v \in units[e]
  /\ acked' = [acked EXCEPT ![e] = @ \cup {v}]
  /\ UNCHANGED <<fleetVars, missionVars, done, units, arrived, mode, op, listVars>>

-----------------------------------------------------------------------------
(* What a task does after the await of process_emergency,                   *)
(* resolve_emergency or dismiss_emergency.                                  *)

(* The dispatch record is persisted: the commands are published if the      *)
(* orchestrator still runs.                                                 *)
DispatchPersisted(t) ==
  /\ op[t].at = "dispatched"
  /\ IF mode = "running" /\ op[t].vs # {}
     THEN op' = [op EXCEPT ![t].at = "commanding"]
     ELSE Return(t)
  /\ UNCHANGED <<fleetVars, missionVars, done, recordVars, mode, listVars>>

(* The dispatch command for v is published; v is one of the units this task *)
(* selected, whatever the dispatch record of the emergency is by now.       *)
PublishCommand(t, v) ==
  /\ op[t].at = "commanding"
  /\ v \in op[t].vs
  /\ IF op[t].vs = {v} THEN Return(t)
                       ELSE op' = [op EXCEPT ![t].vs = @ \ {v}]
  /\ UNCHANGED <<fleetVars, missionVars, done, recordVars, mode, listVars>>

(* The closure is persisted and, if the orchestrator still runs, broadcast  *)
(* with the vehicles that were released.                                    *)
PublishClosure(t) ==
  /\ op[t].at \in {"RESOLVED", "DISMISSED"}
  /\ Return(t)
  /\ UNCHANGED <<fleetVars, missionVars, done, recordVars, mode, listVars>>

-----------------------------------------------------------------------------
(* The HTTP handlers.                                                       *)

(* POST /emergencies (a client is not called "historical_playback").        *)
CreateEmergency(t, e) ==
  /\ mode # "stopped"
  /\ op[t] = Idle
  /\ e \notin Historical
  /\ phase[e] = "UNREPORTED"
  /\ Process(t, e, status, alert)
  /\ UNCHANGED <<fleetVars, done, mode, listVars>>

(* POST /emergencies/{id}/resolve: 404 if unknown, 409 if resolved or       *)
(* dismissed.                                                               *)
ResolveRequest(t, e) ==
  /\ mode # "stopped"
  /\ op[t] = Idle
  /\ phase[e] \notin {"UNREPORTED", "RESOLVED", "DISMISSED"}
  /\ Close(t, e, "RESOLVED", phase, status)
  /\ UNCHANGED <<fleetVars, done, recordVars, mode, listVars>>

-----------------------------------------------------------------------------
(* The sweeper.                                                             *)

(* _emergency_sweeper from the point where res is left to resolve and dis   *)
(* to dismiss: each is closed whatever has become of it since               *)
(* evaluate_stale_emergencies listed it.                                    *)
SweepNext(res, dis, ph) ==
  IF res \cup dis = {}
  THEN phase' = ph /\ UNCHANGED <<status, cur, op, toResolve, toDismiss>>
  ELSE \E e \in IF res # {} THEN res ELSE dis :
         /\ Close("sweeper", e, IF res # {} THEN "RESOLVED" ELSE "DISMISSED", ph, status)
         /\ toResolve' = res \ {e}
         /\ toDismiss' = IF res # {} THEN dis ELSE dis \ {e}

UnstalledSweepable ==                                       (* a mutant *)
  {e \in Emergency \ Historical : phase[e] \in {"DISPATCHING", "IN_PROGRESS"}}

Sweepable == {e \in Emergency \ Historical : phase[e] \in Active}

Timeouts(due) ==
  [e \in Emergency |-> IF e \in due /\ phase[e] = "DISPATCHING" THEN "CANCELLED"
                                                                ELSE phase[e]]

(* One round of the sweeper up to its first await.  due are the emergencies *)
(* over a limit of their status: a DISPATCHING one is cancelled at once, a  *)
(* DISPATCHED one listed for dismissal, one IN_PROGRESS for resolution or,  *)
(* if it is over its hard limit too, for dismissal.                         *)
Sweep(due, overMax) ==
  /\ mode = "running"
  /\ op["sweeper"] = Idle
  /\ toResolve \cup toDismiss = {}
  /\ due # {}
  /\ LET started == {e \in due : phase[e] = "IN_PROGRESS"}
         stalled == {e \in due : phase[e] = "DISPATCHED"}
     IN  /\ overMax \subseteq started
         /\ SweepNext(started \ overMax, stalled \cup overMax, Timeouts(due))
  /\ UNCHANGED <<fleetVars, done, recordVars, mode, waiting>>

(* The sweeper resumes after one closure.                                   *)
ContinueSweep ==
  /\ op["sweeper"] = Idle
  /\ toResolve \cup toDismiss # {}
  /\ SweepNext(toResolve, toDismiss, phase)
  /\ UNCHANGED <<fleetVars, done, recordVars, mode, waiting>>

-----------------------------------------------------------------------------
(* The historical injector.                                                 *)

ActiveHistorical == {e \in Historical : phase[e] \in Active}

(* _inject_crime, when fewer than the maximum are active.                   *)
InjectCrime(e) ==
  /\ mode # "stopped"
  /\ op["injector"] = Idle
  /\ e \in Historical
  /\ phase[e] = "UNREPORTED"
  /\ Cardinality(ActiveHistorical) < MaxActiveHistorical
  /\ Process("injector", e, status, alert)
  /\ UNCHANGED <<fleetVars, done, mode, listVars>>

(* _dismiss_stale_historical_emergencies: of the open historical            *)
(* emergencies only one that is still DISPATCHING is dismissed.             *)
DismissStaleHistorical(e) ==
  /\ mode # "stopped"
  /\ op["injector"] = Idle
  /\ e \in Historical
  /\ phase[e] = "DISPATCHING"
  /\ Close("injector", e, "DISMISSED", phase, status)
  /\ UNCHANGED <<fleetVars, done, recordVars, mode, listVars>>

-----------------------------------------------------------------------------
(* Start and stop.                                                          *)

Start ==
  /\ mode = "new"
  /\ mode' = "running"
  /\ UNCHANGED <<fleetVars, missionVars, done, recordVars, op, listVars>>

(* The teardown of the application, once its requests have finished: the    *)
(* background tasks are cancelled in the await they are in.                 *)
Stop ==
  /\ mode = "running"
  /\ \A t \in ApiTask : op[t] = Idle
  /\ mode' = "stopped"
  /\ op' = [t \in Task |-> Idle]
  /\ waiting' = {}
  /\ toResolve' = {}
  /\ toDismiss' = {}
  /\ UNCHANGED <<fleetVars, missionVars, done, recordVars>>

-----------------------------------------------------------------------------

Init ==
  /\ known = {}
  /\ located = {}
  /\ status = [v \in Vehicle |-> "IDLE"]
  /\ cur = [v \in Vehicle |-> None]
  /\ alert = {}
  /\ phase = [e \in Emergency |-> "UNREPORTED"]
  /\ done = [e \in Emergency |-> 0]
  /\ units = [e \in Emergency |-> {}]
  /\ acked = [e \in Emergency |-> {}]
  /\ arrived = [e \in Emergency |-> {}]
  /\ mode = "new"
  /\ op = [t \in Task |-> Idle]
  /\ waiting = {}
  /\ toResolve = {}
  /\ toDismiss = {}

HandleMessage ==
  \E v \in Vehicle :
    \/ \E st \in Reportable : HandleRegistration(v, st)
    \/ \E st \in Reportable : HandleTelemetry(v, st)
    \/ HandleAlert(v)
    \/ HandleAlertCleared(v)
    \/ \E e \in Emergency : HandleDispatchAck(e, v)

Resume(t) ==
  \/ DispatchPersisted(t)
  \/ \E v \in Vehicle : PublishCommand(t, v)
  \/ PublishClosure(t)

SweepRound(e) == \E due \in SUBSET Sweepable : \E overMax \in SUBSET due :
                    e \in due /\ Sweep(due, overMax)

Next ==
  \/ HandleMessage
  \/ TaskPersisted
  \/ ContinueRetry
  \/ ContinueSweep
  \/ \E t \in Task : Resume(t)
  \/ \E t \in ApiTask, e \in Emergency : CreateEmergency(t, e)
  \/ \E t \in ApiTask, e \in Emergency : ResolveRequest(t, e)
  \/ \E e \in Emergency : SweepRound(e)
  \/ \E e \in Emergency : InjectCrime(e)
  \/ \E e \in Emergency : DismissStaleHistorical(e)
  \/ Start
  \/ Stop

Spec == Init /\ [][Next]_vars
-----------------------------------------------------------------------------
(* Properties.                                                              *)

(* Every component of the state keeps its type; only known vehicles have a  *)
(* location or an alert.                                                    *)
TypeOK ==
  /\ known \subseteq Vehicle
  /\ located \subseteq known
  /\ alert \subseteq known
  /\ status \in [Vehicle -> OperationalStatus]
  /\ cur \in [Vehicle -> Emergency \cup {None}]
  /\ phase \in [Emergency -> {"UNREPORTED"} \cup Active \cup Closed]
  /\ done \in [Emergency -> 0..CoordinationTasks]
  /\ units \in [Emergency -> SUBSET Vehicle]
  /\ acked \in [Emergency -> SUBSET Vehicle]
  /\ arrived \in [Emergency -> SUBSET Vehicle]
  /\ mode \in {"new", "running", "stopped"}
  /\ op \in [Task -> Await]
  /\ waiting \subseteq Emergency
  /\ toResolve \subseteq Emergency
  /\ toDismiss \subseteq Emergency

(* The snapshots and the dispatch records agree: a vehicle that holds an    *)
(* emergency is listed in its current dispatch record, and the emergency is *)
(* on mission.  So a closed emergency, and one that still waits for units,  *)
(* keeps no vehicle from its next mission, whichever task closed it and     *)
(* whatever was awaited in between.                                         *)
HeldIsListed ==
  \A v \in Vehicle : cur[v] # None =>
    /\ phase[cur[v]] \in {"DISPATCHED", "IN_PROGRESS"}
    /\ v \in units[cur[v]]

(* Progress is earned: an emergency is IN_PROGRESS only if a unit of its    *)
(* current dispatch is recorded as arrived, and a coordination task is      *)
(* complete only if enough of them are.                                     *)
ProgressIsEarned ==
  \A e \in Emergency :
    /\ phase[e] = "IN_PROGRESS" => arrived[e] # {}
    /\ done[e] > 0 => Cardinality(arrived[e]) >= Threshold(e)

(* A command still to be published goes to a unit of the current dispatch   *)
(* record, so its acknowledgment will be accepted, and acknowledgments and  *)
(* arrivals are those of listed units.                                      *)
CommandsMatchRecord ==
  /\ \A t \in Task : op[t].at \in {"dispatched", "commanding"} =>
                       op[t].vs \subseteq units[op[t].e]
  /\ \A e \in Emergency : acked[e] \cup arrived[e] \subseteq units[e]

(* Nothing of a dispatch has happened for e.                                *)
Undispatched(e) ==
  units[e] = {} /\ acked[e] = {} /\ arrived[e] = {} /\ done[e] = 0

(* An emergency that waits for units, was cancelled for want of them or is  *)
(* still in the loop's retry list has none: whatever the other tasks did    *)
(* while the loop awaited, a retry finds no crew to abandon, no arrival to  *)
(* forget and no task done.                                                 *)
WaitingHasNoUnits ==
  /\ \A e \in Emergency :
       phase[e] \in {"UNREPORTED", "DISPATCHING", "CANCELLED"} => Undispatched(e)
  /\ \A e \in waiting : phase[e] \in {"DISPATCHING"} \cup Closed /\ Undispatched(e)

(* The abstract crew of an emergency are the units that hold it.            *)
Lifecycle == INSTANCE EmergencyLifecycle WITH crew <- [e \in Emergency |-> Crew(e)]

(* The orchestrator implements the abstract life cycle: no interleaving of  *)
(* its handlers shows a transition of an emergency, or of its crew, that    *)
(* EmergencyLifecycle does not allow.                                       *)
RefinesLifecycle == Lifecycle!Spec

(* Units are dispatched once: an emergency that has been given units keeps  *)
(* that record for good, so a retry or a late step of a task that was       *)
(* suspended while the emergency moved on never dispatches a second crew.   *)
DispatchedOnce ==
  [][\A e \in Emergency : units[e] # {} => units'[e] = units[e]]_vars

(* "Iterates all emergencies in DISPATCHING status and re-runs the dispatch *)
(* engine": an emergency that is closed is not given units again.           *)
RetriesOnlyWaiting ==
  [][\A e \in Emergency : phase[e] \in Closed => phase'[e] \notin Active]_vars

(* What the scheduling of the tasks guarantees: an await returns, a task    *)
(* that has more in its list goes on, and the clock runs past the limits of *)
(* an emergency, which the sweeper then finds in each of its rounds.        *)
Fairness ==
  /\ WF_vars(Start)
  /\ \A t \in Task : WF_vars(Resume(t))
  /\ WF_vars(TaskPersisted)
  /\ WF_vars(ContinueRetry)
  /\ WF_vars(ContinueSweep)
  /\ \A e \in Emergency : SF_vars(SweepRound(e))

FairSpec == Spec /\ Fairness

(* While the orchestrator runs, every emergency that is reported is closed  *)
(* in the end, with or without units, whatever the vehicles report or fail  *)
(* to report.  (Historical ones are exempt from the sweeper.)               *)
EveryEmergencyCloses ==
  \A e \in Emergency \ Historical :
    phase[e] \in Active ~> phase[e] \in Closed \/ mode = "stopped"
=============================================================================
