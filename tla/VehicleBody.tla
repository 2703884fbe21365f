----------------------------- MODULE VehicleBody -----------------------------
(***************************************************************************)
(* One vehicle's body: what a tick does to its position and to its health, *)
(* and what the orchestrator learns of the latter.  VehicleAgent models    *)
(* the same loop with the position and the detectors left open, but the    *)
(* bus and the interleavings of the two tasks in full; here a tick is      *)
(* atomic, a command but for the await of its acknowledgment, during which *)
(* the vehicle ticks; the publications arrive, and movement, failures and  *)
(* detection are those of the code.                                        *)
(*                                                                         *)
(* Time is counted in ticks.  The movement and the ageing of failures are  *)
(* scaled separately: a tick covers one step of the vehicle's pace and     *)
(* ages a failure by TickSeconds.                                          *)
(***************************************************************************)
EXTENDS Navigation, Diagnosis

CONSTANTS
  Kind,          (* the vehicle type                                        *)
  Place,         (* the scenes of emergencies, in the service area or not   *)
  Failures,      (* the scenarios that the scheduler may activate           *)
  Paces,         (* by frequency, the distances that a tick covers          *)
  TickSeconds,   (* seconds by which a tick ages a failure                  *)
  WarmUp,        (* ticks judged by the rules alone: 10                     *)
  Window,        (* readings the learned model needs: 10                    *)
  MaxBreaks,     (* bound on the activations of scenarios                   *)
  Nowhere

ASSUME BodyAssumption ==
  /\ Kind \in VehicleType
  /\ Place \subseteq Int
  /\ Failures \subseteq Scenario
  /\ Paces \subseteq SUBSET (Nat \ {0})
  /\ TickSeconds \in 1..119
  /\ WarmUp \in Nat
  /\ Window \in Nat
  /\ MaxBreaks \in Nat
  /\ Nowhere \notin Int

VARIABLES
  provider,   (* of navigation: "geometric" or "osmnx"                      *)
  learned,    (* the file of the learned model was found                    *)
  pace,       (* the distances a tick covers, by the hour                   *)
  vstatus,    (* operational_status                                         *)
  mission,    (* the place of the current emergency                         *)
  taking,     (* the place of the dispatch whose acknowledgment is awaited  *)
  dest,       (* the target of the navigator                                *)
  byRoad,     (* the road navigator has a route                             *)
  route,      (* the points of it that are ahead                            *)
  pos,        (* the position                                               *)
  age,        (* active_scenarios: the seconds since each one's activation  *)
  timer,      (* ticks until the repair is done, 0 without a repair         *)
  ticks,      (* _tick_count, as far as it matters                          *)
  sent,       (* the last telemetry: its status and the worst it shows      *)
  alerted,    (* the orchestrator's has_active_alert                        *)
  assigned,   (* the places whose emergencies list the vehicle              *)
  breaks      (* the number of activations so far                           *)

config == <<provider, learned, pace>>
duty == <<vstatus, mission, taking, assigned>>
driving == <<dest, byRoad, route, pos>>
health == <<age, timer, ticks, sent, alerted, breaks>>
bodyVars == <<config, duty, driving, health>>

VehicleStatus == {"IDLE", "EN_ROUTE", "ON_SCENE", "MAINTENANCE"}
Severity == {"none", "warning", "critical"}
Worst(severities) ==
  IF "critical" \in severities THEN "critical"
  ELSE IF "warning" \in severities THEN "warning" ELSE "none"

(* The target is forgotten, and with it the route.                          *)
ClearTarget == dest' = Nowhere /\ byRoad' = FALSE /\ route' = <<>>

-----------------------------------------------------------------------------
(* Commands.                                                                *)

(* A dispatch, of a vehicle without an alert against it, up to the await of *)
(* its acknowledgment.  Under repair it is ignored.                         *)
Dispatch(place) ==
  /\ taking = Nowhere
  /\ ~alerted
  /\ place \notin assigned
  /\ assigned' = assigned \cup {place}
  /\ IF vstatus = "MAINTENANCE"
     THEN UNCHANGED <<vstatus, mission, taking>>
     ELSE vstatus' = "EN_ROUTE" /\ mission' = place /\ taking' = place
  /\ UNCHANGED <<config, driving, health>>

(* The rest of it: the navigator gets the target, whatever the ticks have   *)
(* done to the mission meanwhile; the road navigator plans a route.         *)
SetTarget ==
  /\ taking # Nowhere
  /\ taking' = Nowhere
  /\ dest' = taking
  /\ route' \in IF provider = "osmnx" THEN Routes(taking) ELSE {<<>>}
  /\ byRoad' = (route' # <<>>)
  /\ UNCHANGED <<config, vstatus, mission, assigned, pos, health>>

(* A resolution that releases the vehicle, whatever it is doing.            *)
Resolve(place) ==
  /\ taking = Nowhere
  /\ place \in assigned
  /\ assigned' = assigned \ {place}
  /\ vstatus' = "IDLE"
  /\ mission' = Nowhere
  /\ ClearTarget
  /\ UNCHANGED <<config, taking, pos, health>>

-----------------------------------------------------------------------------
(* The tick.                                                                *)

(* The seconds count as far as they change what the rules find.             *)
Older(s, a) ==
  IF s \in Checked /\ Judge(Kind, s, a) # "critical" THEN a + TickSeconds ELSE a
Aged == [s \in DOMAIN age |-> Older(s, age[s])]

(* FailureScheduler.tick: an activation restarts a scenario that is active. *)
Break(s) == [f \in DOMAIN age \cup {s} |-> IF f = s THEN 0 ELSE Aged[f]]
Scheduled ==
  \/ age' = Aged /\ UNCHANGED breaks
  \/ /\ breaks < MaxBreaks
     /\ breaks' = breaks + 1
     /\ \E s \in Failures : age' = Break(s)

(* NavigatorProvider.step: where a tick may take the vehicle, what is left   *)
(* of the route, and whether the speed it reports is 0.  On the way without *)
(* a target the vehicle stands still.                                       *)
Movement ==
  CASE vstatus = "IDLE" ->
         {[pos |-> p, route |-> route, halted |-> FALSE] :
            p \in UNION {Patrol(pos, step) : step \in pace}}
    [] vstatus = "EN_ROUTE" /\ byRoad ->
         {FollowRoad(pos, route, step) : step \in pace}
    [] vstatus = "EN_ROUTE" /\ ~byRoad /\ dest # Nowhere ->
         {Drive(pos, dest, step) : step \in pace}
    [] OTHER -> {[pos |-> pos, route |-> route, halted |-> TRUE]}

AfterArrival(halted) ==
  IF vstatus = "EN_ROUTE" /\ mission # Nowhere /\ halted THEN "ON_SCENE" ELSE vstatus

(* What the two detectors say.  The learned model is silent without a file, *)
(* until its window is full, and on "normal".                               *)
Modelled == learned /\ ticks' = WarmUp + Window
ByRules == {Judge(Kind, s, age'[s]) : s \in DOMAIN age'} \ {"none"}
ByModel == {{}} \cup (IF Modelled THEN {{Predicted(s)} : s \in Scenario} ELSE {})

FindingsWithoutNet == IF ticks' <= WarmUp THEN {ByRules} ELSE ByModel (* a mutant *)

(* The rules judge the first ticks, and later those on which the model is   *)
(* silent.                                                                  *)
Findings ==
  IF ticks' <= WarmUp THEN {ByRules}
  ELSE {IF said = {} THEN ByRules ELSE said : said \in ByModel}

(* REPAIR_DURATION_SECONDS, more or less by a quarter, in ticks.            *)
RepairTicks ==
  ((135 + TickSeconds - 1) \div TickSeconds)..((225 + TickSeconds - 1) \div TickSeconds)

EnterUntimed ==                                             (* a mutant *)
  /\ vstatus' = "MAINTENANCE"
  /\ mission' = Nowhere
  /\ ClearTarget
  /\ UNCHANGED timer

(* _enter_maintenance.                                                      *)
EnterMaintenance ==
  /\ vstatus' = "MAINTENANCE"
  /\ mission' = Nowhere
  /\ ClearTarget
  /\ timer' \in RepairTicks

CarryOn(movement) ==
  /\ vstatus' = AfterArrival(movement.halted)
  /\ route' = movement.route
  /\ UNCHANGED <<mission, dest, byRoad, timer>>

(* The start of _tick outside maintenance: failures and movement.           *)
Begin(movement) ==
  /\ vstatus # "MAINTENANCE"
  /\ UNCHANGED <<config, taking, assigned>>
  /\ ticks' = IF ticks < WarmUp + Window THEN ticks + 1 ELSE ticks
  /\ pos' = movement.pos
  /\ Scheduled

(* The rest of it: detection, the consequences of a critical alert, and the *)
(* publications.                                                            *)
Tick(movement) ==
  /\ Begin(movement)
  /\ \E alerts \in Findings :
       /\ IF "critical" \in alerts /\ DOMAIN age' # {}
          THEN EnterMaintenance
          ELSE CarryOn(movement)
       /\ alerted' = (alerted \/ alerts # {})
  /\ sent' = [st |-> vstatus', worst |-> Worst(ByRules)]

(* An error of the learned model, which its window may bring about, ends    *)
(* the tick.                                                                *)
TickFails(movement) ==
  /\ learned
  /\ Begin(movement)
  /\ Modelled
  /\ CarryOn(movement)
  /\ UNCHANGED <<sent, alerted>>

(* A tick in maintenance before the repair is done: its telemetry does not  *)
(* show the failures.                                                       *)
TickUnderRepair ==
  /\ vstatus = "MAINTENANCE"
  /\ timer # 1
  /\ timer' = IF timer = 0 THEN 0 ELSE timer - 1
  /\ age' = Aged
  /\ sent' = [st |-> "MAINTENANCE", worst |-> "none"]
  /\ UNCHANGED <<config, duty, driving, ticks, alerted, breaks>>

(* _check_repair_complete when it is done, and the rest of that tick, in    *)
(* which the vehicle patrols again.                                         *)
FinishRepair ==
  /\ vstatus = "MAINTENANCE"
  /\ timer = 1
  /\ timer' = 0
  /\ age' = [s \in {} |-> 0]
  /\ vstatus' = "IDLE"
  /\ alerted' = FALSE
  /\ \E step \in pace : pos' \in Patrol(pos, step)
  /\ sent' = [st |-> "IDLE", worst |-> "none"]
  /\ UNCHANGED <<config, mission, taking, dest, byRoad, route, ticks, assigned, breaks>>

-----------------------------------------------------------------------------

(* build_navigator and Predictor choose by the configuration and the file   *)
(* system; a vehicle starts in the service area.                            *)
BodyInit ==
  /\ provider \in {"geometric", "osmnx"}
  /\ learned \in BOOLEAN
  /\ pace \in Paces
  /\ vstatus = "IDLE"
  /\ mission = Nowhere
  /\ taking = Nowhere
  /\ dest = Nowhere
  /\ byRoad = FALSE
  /\ route = <<>>
  /\ pos \in 0..Edge
  /\ age = [s \in {} |-> 0]
  /\ timer = 0
  /\ ticks = 0
  /\ sent = [st |-> "IDLE", worst |-> "none"]
  /\ alerted = FALSE
  /\ assigned = {}
  /\ breaks = 0

AnyTick ==
  \/ \E movement \in Movement : Tick(movement)
  \/ \E movement \in Movement : TickFails(movement)
  \/ TickUnderRepair
  \/ FinishRepair

BodyNext ==
  \/ AnyTick
  \/ \E place \in Place : Dispatch(place)
  \/ SetTarget
  \/ \E place \in Place : Resolve(place)

(* The tick loop sleeps for a bounded time between ticks, and the bus       *)
(* answers the publication of an acknowledgment or fails it.                *)
BodySpec == /\ BodyInit
            /\ [][BodyNext]_bodyVars
            /\ WF_bodyVars(AnyTick)
            /\ WF_bodyVars(SetTarget)

-----------------------------------------------------------------------------
(* Properties.                                                              *)

(* Every component of the body's state keeps its type; above all the        *)
(* vehicle never leaves the service area, by whatever navigator.            *)
BodyTypeOK ==
  /\ provider \in {"geometric", "osmnx"}
  /\ learned \in BOOLEAN
  /\ pace \in Paces
  /\ vstatus \in VehicleStatus
  /\ mission \in Place \cup {Nowhere}
  /\ taking \in Place \cup {Nowhere}
  /\ dest \in Place \cup {Nowhere}
  /\ byRoad \in BOOLEAN
  /\ route \in Seq(Int)
  /\ pos \in 0..Edge
  /\ DOMAIN age \subseteq Failures
  /\ age \in [DOMAIN age -> Nat]
  /\ timer \in Nat
  /\ ticks \in 0..(WarmUp + Window)
  /\ sent \in [st : VehicleStatus, worst : Severity]
  /\ alerted \in BOOLEAN
  /\ assigned \subseteq Place
  /\ breaks \in 0..MaxBreaks

(* Once the acknowledgment of its dispatch is out, a vehicle that turns     *)
(* ON_SCENE does so at the scene of its mission, within the arrival radius  *)
(* if that lies in the service area: whichever navigator brought it, and    *)
(* whatever targets and routes earlier missions have left.  (While the      *)
(* acknowledgment is awaited it may report ON_SCENE anywhere.)              *)
ArrivesAtTarget ==
  [][vstatus # "ON_SCENE" /\ vstatus' = "ON_SCENE" /\ taking = Nowhere
     => /\ dest = mission
        /\ mission \in 0..Edge => Distance(pos', mission) < Radius]_bodyVars

(* Without a learned model, telemetry with a critical reading of a checked  *)
(* sensor is sent by a vehicle in maintenance and never by one in service:  *)
(* however failures overlap, restart and are cut short by a resolution.     *)
CriticalIsGrounded ==
  ~learned /\ sent.worst = "critical" => sent.st = "MAINTENANCE"

(* A vehicle without a learned model goes to maintenance only when the      *)
(* orchestrator holds an alert against it already: the rules warn a tick    *)
(* before they ground, so a vehicle that is selected is not about to fail.  *)
GroundedWhileFlagged ==
  [][vstatus # "MAINTENANCE" /\ vstatus' = "MAINTENANCE" /\ ~learned => alerted]_bodyVars

(* On the straight way every tick takes the vehicle nearer to a target in   *)
(* the service area, unless it is so near, or the ticks so long, that one   *)
(* may carry it beyond the target by as much.                               *)
Overshoots(step) == step >= 2 * Distance(pos, dest)
GetsCloser ==
  [][/\ vstatus = "EN_ROUTE" /\ vstatus' = "EN_ROUTE" /\ ~byRoad
     /\ UNCHANGED <<dest, taking>> /\ dest \in 0..Edge
     /\ (\A step \in pace : ~Overshoots(step))
     => Distance(pos', dest) < Distance(pos, dest)]_bodyVars

(* With movement, failures, detectors and repair times computed, a vehicle  *)
(* does the same duty as the agents whose tasks interleave: it is grounded  *)
(* only with a failure it has, and leaves MAINTENANCE only when its timer   *)
(* has run, or by the resolution of an emergency it is assigned to.         *)
Duty == INSTANCE VehicleDuty WITH
          Vehicle <- {Kind}, Emergency <- Place, None <- Nowhere,
          status <- [v \in {Kind} |-> vstatus],
          mission <- [v \in {Kind} |-> mission],
          broken <- IF DOMAIN age = {} THEN {} ELSE {Kind},
          timed <- IF timer = 0 THEN {} ELSE {Kind},
          recalled <- IF assigned = {} THEN {} ELSE {Kind},
          running <- {Kind}
RefinesDuty == Duty!Spec

(* A vehicle on its way to a scene in the service area arrives, unless it   *)
(* breaks down, is released or is sent elsewhere; provided that no tick     *)
(* covers the diameter of the arrival radius.                               *)
Arrives ==
  \A e \in Place \cap 0..Edge :
    (/\ vstatus = "EN_ROUTE" /\ mission = e
     /\ \A step \in pace : step < 2 * Radius)
      ~> ~(vstatus = "EN_ROUTE" /\ mission = e)

(* Without a learned model an alert is not for ever: what the rules warn of *)
(* becomes critical, grounds the vehicle and is repaired, which clears the  *)
(* alert and makes the vehicle available again.                             *)
AlertClears == (~learned /\ alerted) ~> ~alerted
=============================================================================
