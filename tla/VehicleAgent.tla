----------------------------- MODULE VehicleAgent -----------------------------
(***************************************************************************)
(* The vehicle agents.  Each runs two asyncio tasks: the tick loop, which  *)
(* moves the vehicle, detects failures, repairs and reports, and the       *)
(* command listener.  They interleave where they await the bus: between    *)
(* the acknowledgment of a dispatch and the setting of its target, and     *)
(* between the notice of a finished repair and the tick's telemetry.       *)
(*                                                                         *)
(* The bus is publish/subscribe: up carries what vehicles publish to the   *)
(* orchestrator, in order; commands[v] what is published on the two        *)
(* patterns v listens to.  A message to a vehicle that has not subscribed  *)
(* yet is gone, and so is one whose publication failed.                    *)
(* A definition marked as a mutant is a bug the code could have; no action *)
(* uses it, and the properties must fail when it replaces its successor.   *)
(***************************************************************************)
EXTENDS Participants, Integers, Sequences

CONSTANTS
  Faulty,       (* the vehicles in which failures and alerts may occur      *)
  Crashing,     (* the vehicles whose process may die and be restarted      *)
  Lossy,        (* whether publications by vehicles may fail                *)
  MaxUp,        (* bound on the messages waiting for the orchestrator       *)
  MaxCommands   (* bound on the messages waiting for each vehicle           *)

ASSUME VehicleAssumption ==
  /\ Faulty \subseteq Vehicle
  /\ Crashing \subseteq Vehicle
  /\ Lossy \in BOOLEAN
  /\ MaxUp \in Nat \ {0, 1}
  /\ MaxCommands \in Nat \ {0}
  /\ None \notin Emergency

VARIABLES
  link,      (* "off", "deaf" (started, not subscribed yet), "listening"    *)
  vstatus,   (* operational_status                                          *)
  mission,   (* current_emergency_id                                        *)
  target,    (* the scene the navigator drives to                           *)
  at,        (* the scene the vehicle is within 50 m of                     *)
  failing,   (* vehicles with active failure scenarios                      *)
  repair,    (* vehicles whose repair timer runs                            *)
  taking,    (* the dispatch whose acknowledgment the listener awaits       *)
  repaired,  (* vehicles awaiting the alerts_cleared publication in a tick  *)
  up,        (* messages to the orchestrator                                *)
  commands   (* messages to each vehicle                                    *)

bodyVars == <<vstatus, mission, target, at, failing, repair, taking, repaired>>
vehicleVars == <<link, vstatus, mission, target, at, failing, repair, taking,
                 repaired, up, commands>>

VehicleStatus == {"IDLE", "EN_ROUTE", "ON_SCENE", "MAINTENANCE"}
ReportBare(kind, v, st) == [kind |-> kind, v |-> v]         (* a mutant *)
ReportInitial(kind, v, st) == [kind |-> kind, v |-> v, st |-> "IDLE"] (* a mutant *)

Report(kind, v, st) == [kind |-> kind, v |-> v, st |-> st]
Ack(v, e) == [kind |-> "ack", v |-> v, e |-> e]
Notice(kind, v) == [kind |-> kind, v |-> v]
UpMessage ==
  [kind : {"register", "telemetry"}, v : Vehicle, st : VehicleStatus]
    \cup [kind : {"alert", "cleared"}, v : Vehicle]
    \cup [kind : {"ack"}, v : Vehicle, e : Emergency]
Command == [cmd : {"dispatch"}, e : Emergency]
             \cup [cmd : {"resolve"}, e : Emergency, vs : SUBSET Vehicle]

(* MessageBus.publish for each message in turn; every caller logs a failure *)
(* and goes on.                                                             *)
Kept(msgs) ==
  IF Lossy THEN {SubSeq(msgs, i, j) : i \in 1..Len(msgs), j \in 0..Len(msgs)}
           ELSE {msgs}

Publish(msgs) ==
  \E kept \in Kept(msgs) : Len(up) + Len(kept) <= MaxUp /\ up' = up \o kept

-----------------------------------------------------------------------------
(* start and the end of the process.                                        *)

(* A fresh agent announces itself; its listener subscribes later.           *)
StartVehicle(v) ==
  /\ link[v] = "off"
  /\ link' = [link EXCEPT ![v] = "deaf"]
  /\ Publish(<<Report("register", v, "IDLE")>>)
  /\ UNCHANGED <<bodyVars, commands>>

Subscribe(v) ==
  /\ link[v] = "deaf"
  /\ link' = [link EXCEPT ![v] = "listening"]
  /\ UNCHANGED <<bodyVars, up, commands>>

(* The process dies, or is stopped; a new one starts from scratch, at the   *)
(* configured position.                                                     *)
Crash(v) ==
  /\ v \in Crashing
  /\ link[v] # "off"
  /\ link' = [link EXCEPT ![v] = "off"]
  /\ vstatus' = [vstatus EXCEPT ![v] = "IDLE"]
  /\ mission' = [mission EXCEPT ![v] = None]
  /\ target' = [target EXCEPT ![v] = None]
  /\ taking' = [taking EXCEPT ![v] = None]
  /\ failing' = failing \ {v}
  /\ repair' = repair \ {v}
  /\ repaired' = repaired \ {v}
  /\ commands' = [commands EXCEPT ![v] = <<>>]
  /\ at' = [at EXCEPT ![v] = None]
  /\ UNCHANGED up

-----------------------------------------------------------------------------
(* The tick loop.                                                           *)

Ticking(v) == link[v] # "off" /\ v \notin repaired

(* GeometricNavigator.step: an idle vehicle patrols, one that is en route   *)
(* drives towards its target and stands still (speed 0) at the target or    *)
(* when it has none.  One that moves may come by any scene.                 *)
Halted(v) == target[v] = None \/ at[v] = target[v]
Moving(v) == vstatus[v] = "IDLE" \/ (vstatus[v] = "EN_ROUTE" /\ ~Halted(v))
Position(v) == IF Moving(v) THEN Emergency \cup {None} ELSE {at[v]}

ArrivalAtStandstill(v) == IF Halted(v) THEN "ON_SCENE" ELSE vstatus[v] (* a mutant *)

(* A unit that is en route and reads speed 0 has arrived.                   *)
AfterArrival(v) ==
  IF vstatus[v] = "EN_ROUTE" /\ mission[v] # None /\ Halted(v)
  THEN "ON_SCENE" ELSE vstatus[v]

EnterUntimed(v) ==                                          (* a mutant *)
  /\ vstatus' = [vstatus EXCEPT ![v] = "MAINTENANCE"]
  /\ mission' = [mission EXCEPT ![v] = None]
  /\ target' = [target EXCEPT ![v] = None]
  /\ UNCHANGED repair

(* _enter_maintenance.                                                      *)
EnterMaintenance(v) ==
  /\ vstatus' = [vstatus EXCEPT ![v] = "MAINTENANCE"]
  /\ mission' = [mission EXCEPT ![v] = None]
  /\ target' = [target EXCEPT ![v] = None]
  /\ repair' = repair \cup {v}

(* The worst alert of the rule-based detector in a tick; its thresholds are *)
(* not modelled.                                                            *)
Severity == {"none", "warning", "critical"}

(* _tick outside maintenance.  breaks: the scheduler activates a failure    *)
(* scenario; raised: the worst severity among the alerts of this tick.  A   *)
(* critical alert of a vehicle with an active scenario sends it to          *)
(* maintenance.                                                             *)
Tick(v, breaks, raised) ==
  /\ Ticking(v)
  /\ vstatus[v] # "MAINTENANCE"
  /\ v \notin Faulty => ~breaks /\ raised = "none"
  /\ failing' = IF breaks THEN failing \cup {v} ELSE failing
  /\ at' \in {[at EXCEPT ![v] = p] : p \in Position(v)}
  /\ IF raised = "critical" /\ v \in failing'
     THEN EnterMaintenance(v)
     ELSE /\ vstatus' = [vstatus EXCEPT ![v] = AfterArrival(v)]
          /\ UNCHANGED <<mission, target, repair>>
  /\ Publish(<<Report("telemetry", v, vstatus'[v])>>
               \o IF raised = "none" THEN <<>> ELSE <<Notice("alert", v)>>)
  /\ UNCHANGED <<link, taking, repaired, commands>>

(* A tick in maintenance while the repair timer runs.                       *)
TickUnderRepair(v) ==
  /\ Ticking(v)
  /\ vstatus[v] = "MAINTENANCE"
  /\ Publish(<<Report("telemetry", v, "MAINTENANCE")>>)
  /\ UNCHANGED <<link, bodyVars, commands>>

(* _check_repair_complete when the timer has run out, up to the publication *)
(* of alerts_cleared.                                                       *)
FinishRepair(v) ==
  /\ Ticking(v)
  /\ vstatus[v] = "MAINTENANCE"
  /\ v \in repair
  /\ failing' = failing \ {v}
  /\ vstatus' = [vstatus EXCEPT ![v] = "IDLE"]
  /\ repair' = repair \ {v}
  /\ repaired' = repaired \cup {v}
  /\ Publish(<<Notice("cleared", v)>>)
  /\ UNCHANGED <<link, mission, target, at, taking, commands>>

(* The rest of that tick: it moves by the status it finds now, and reports  *)
(* that.                                                                    *)
ReportRepaired(v) ==
  /\ v \in repaired
  /\ repaired' = repaired \ {v}
  /\ at' \in {[at EXCEPT ![v] = p] : p \in Position(v)}
  /\ Publish(<<Report("telemetry", v, vstatus[v])>>)
  /\ UNCHANGED <<link, vstatus, mission, target, failing, repair, taking, commands>>

-----------------------------------------------------------------------------
(* The command listener: _handle_command.                                   *)

Listening(v) == link[v] = "listening" /\ taking[v] = None /\ commands[v] # <<>>

Consume(v) == commands' = [commands EXCEPT ![v] = Tail(@)]

(* A dispatch, up to the publication of the acknowledgment.  Under repair   *)
(* it is dropped without an answer.                                         *)
HandleDispatch(v) ==
  LET m == Head(commands[v]) IN
  /\ Listening(v)
  /\ m.cmd = "dispatch"
  /\ Consume(v)
  /\ IF vstatus[v] = "MAINTENANCE"
     THEN UNCHANGED <<vstatus, mission, taking, up>>
     ELSE /\ vstatus' = [vstatus EXCEPT ![v] = "EN_ROUTE"]
          /\ mission' = [mission EXCEPT ![v] = m.e]
          /\ taking' = [taking EXCEPT ![v] = m.e]
          /\ Publish(<<Ack(v, m.e)>>)
  /\ UNCHANGED <<link, target, at, failing, repair, repaired>>

SetFirstTarget(v) ==                                        (* a mutant *)
  /\ taking[v] # None
  /\ target' = [target EXCEPT ![v] = IF @ = None THEN taking[v] ELSE @]
  /\ taking' = [taking EXCEPT ![v] = None]
  /\ UNCHANGED <<link, vstatus, mission, at, failing, repair, repaired, up, commands>>

(* The acknowledgment is out: the target is set, whatever a tick has done   *)
(* to the mission meanwhile.                                                *)
SetTarget(v) ==
  /\ taking[v] # None
  /\ target' = [target EXCEPT ![v] = taking[v]]
  /\ taking' = [taking EXCEPT ![v] = None]
  /\ UNCHANGED <<link, vstatus, mission, at, failing, repair, repaired, up, commands>>

ResolveAnybody(v) ==                                        (* a mutant *)
  /\ Listening(v)
  /\ Head(commands[v]).cmd = "resolve"
  /\ Consume(v)
  /\ vstatus' = [vstatus EXCEPT ![v] = "IDLE"]
  /\ mission' = [mission EXCEPT ![v] = None]
  /\ target' = [target EXCEPT ![v] = None]
  /\ UNCHANGED <<link, at, failing, repair, taking, repaired, up>>

(* The broadcast of a resolution concerns the vehicles it releases; the     *)
(* emergency it names is not compared with the vehicle's own.               *)
HandleResolve(v) ==
  LET m == Head(commands[v]) IN
  /\ Listening(v)
  /\ m.cmd = "resolve"
  /\ Consume(v)
  /\ IF v \in m.vs
     THEN /\ vstatus' = [vstatus EXCEPT ![v] = "IDLE"]
          /\ mission' = [mission EXCEPT ![v] = None]
          /\ target' = [target EXCEPT ![v] = None]
     ELSE UNCHANGED <<vstatus, mission, target>>
  /\ UNCHANGED <<link, at, failing, repair, taking, repaired, up>>

-----------------------------------------------------------------------------

VehicleInit ==
  /\ link = [v \in Vehicle |-> "off"]
  /\ vstatus = [v \in Vehicle |-> "IDLE"]
  /\ mission = [v \in Vehicle |-> None]
  /\ target = [v \in Vehicle |-> None]
  /\ at = [v \in Vehicle |-> None]
  /\ failing = {}
  /\ repair = {}
  /\ taking = [v \in Vehicle |-> None]
  /\ repaired = {}
  /\ up = <<>>
  /\ commands = [v \in Vehicle |-> <<>>]

AnyTick(v) ==
  \/ \E breaks \in BOOLEAN, raised \in Severity : Tick(v, breaks, raised)
  \/ TickUnderRepair(v)
  \/ FinishRepair(v)
  \/ ReportRepaired(v)

VehicleStep(v) ==
  \/ StartVehicle(v)
  \/ Subscribe(v)
  \/ Crash(v)
  \/ AnyTick(v)
  \/ HandleDispatch(v)
  \/ SetTarget(v)
  \/ HandleResolve(v)

(* The bus delivers a command to the vehicles that listen.                  *)
Deliver(vs, m) ==
  LET ears == {v \in vs : link[v] = "listening"} IN
  /\ \A v \in ears : Len(commands[v]) < MaxCommands
  /\ commands' = [v \in Vehicle |-> IF v \in ears THEN Append(commands[v], m)
                                                  ELSE commands[v]]

(* The environment of the vehicles taken by themselves: an orchestrator     *)
(* that sends what it likes and reads what it gets.                         *)
AnyCommand ==
  /\ \E vs \in SUBSET Vehicle, m \in Command : Deliver(vs, m)
  /\ UNCHANGED <<link, bodyVars, up>>

AnyReader ==
  /\ up # <<>>
  /\ up' = Tail(up)
  /\ UNCHANGED <<link, bodyVars, commands>>

VehicleNext ==
  \/ \E v \in Vehicle : VehicleStep(v)
  \/ AnyCommand
  \/ AnyReader

VehicleSpec == VehicleInit /\ [][VehicleNext]_vehicleVars

-----------------------------------------------------------------------------
(* Properties.                                                              *)

(* Every component of the agents' state keeps its type, and so do the       *)
(* messages on the bus.                                                     *)
VehicleTypeOK ==
  /\ link \in [Vehicle -> {"off", "deaf", "listening"}]
  /\ vstatus \in [Vehicle -> VehicleStatus]
  /\ mission \in [Vehicle -> Emergency \cup {None}]
  /\ target \in [Vehicle -> Emergency \cup {None}]
  /\ at \in [Vehicle -> Emergency \cup {None}]
  /\ failing \subseteq Vehicle
  /\ repair \subseteq Vehicle
  /\ taking \in [Vehicle -> Emergency \cup {None}]
  /\ repaired \subseteq Vehicle
  /\ up \in Seq(UpMessage)
  /\ commands \in [Vehicle -> Seq(Command)]

(* The two tasks of an agent never leave it with a mission it is not on, or *)
(* on a mission it does not know: it is EN_ROUTE or ON_SCENE exactly while  *)
(* it has an emergency, also when a breakdown comes while the listener      *)
(* awaits the acknowledgment.                                               *)
MissionMatchesStatus ==
  \A v \in Vehicle : vstatus[v] \in {"EN_ROUTE", "ON_SCENE"} <=> mission[v] # None

(* Once the acknowledgment of its dispatch is out, a vehicle that is en     *)
(* route drives to the scene of its own mission, not to a target that an    *)
(* earlier mission or a breakdown left behind.                              *)
DrivesToMission ==
  \A v \in Vehicle :
    vstatus[v] = "EN_ROUTE" /\ taking[v] = None => target[v] = mission[v]

(* A vehicle in MAINTENANCE has a repair timer to bring it back.            *)
RepairIsTimed == \A v \in Vehicle : vstatus[v] = "MAINTENANCE" => v \in repair

(* The vehicles whose process runs, and those to which a resolution that    *)
(* releases them is on its way.                                             *)
Running == {v \in Vehicle : link[v] # "off"}
Recalls(m, v) == m.cmd = "resolve" /\ v \in m.vs
Recalled == {v \in Vehicle : \E i \in 1..Len(commands[v]) : Recalls(commands[v][i], v)}

(* However ticks, commands, crashes and losses interleave, a vehicle does   *)
(* its duty: it takes missions only in service, is grounded only by a       *)
(* failure it has, and leaves MAINTENANCE only by the repair of a timer     *)
(* that ran, by a resolution that names it, or with its process.            *)
Duty == INSTANCE VehicleDuty WITH
          status <- vstatus, broken <- failing, timed <- repair,
          recalled <- Recalled, running <- Running
RefinesDuty == Duty!Spec
=============================================================================
