--------------------------- MODULE EmergencyTiming ---------------------------
(***************************************************************************)
(* The limits that module Orchestrator leaves abstract, for one emergency  *)
(* of a client: the simulated clock of the HTTP application, which jumps   *)
(* ahead by Step minutes at a time, and the sweeper, which that clock      *)
(* wakes.  A round of the sweeper lists what is over a limit and then      *)
(* closes the list, with awaits of the database and of the bus for each    *)
(* closure; the clock goes on meanwhile.  Minutes are integers.  A         *)
(* duration is a multiple of 1/Scale of a minute, so that every product of *)
(* the tables is exact.                                                    *)
(* A retry that revives a closed emergency is left to that module.         *)
(* A definition marked as a mutant is a bug the code could have; no action *)
(* uses it, and the properties must fail when it replaces its successor.   *)
(***************************************************************************)
EXTENDS Integers, FiniteSetsExt

CONSTANTS
  Step,       (* minutes the clock advances at a time (1800 s in api.py)   *)
  Override,   (* totals of units_required that a client may ask for        *)
  Mention,    (* sets of subtype multipliers that a description may        *)
              (* contain the keywords of, in hundredths                    *)
  BirthAge,   (* now - created_at when the emergency is processed; its     *)
              (* created_at is the real time, now is the simulated one     *)
  MaxLate,    (* bound: minutes the clock advances while rounds are        *)
              (* suspended                                                 *)
  Horizon     (* bound: minutes the model follows an emergency for         *)

Scale == 4000

(* EMERGENCY_DISPATCH_TIMEOUT_MINUTES and                                   *)
(* EMERGENCY_DISPATCHED_STALL_TIMEOUT_MINUTES.                              *)
DispatchTimeout == 10
StallTimeout == 25

(* EMERGENCY_BASE_DURATION_MINUTES.                                         *)
BaseDuration ==
  [medical |-> 18, fire |-> 28, crime |-> 15, accident |-> 22, hazmat |-> 35,
   rescue |-> 30, natural_disaster |-> 45]

EmergencyType == DOMAIN BaseDuration

(* The totals of EMERGENCY_UNITS_DEFAULTS.                                  *)
UnitsDefault ==
  [medical |-> 1, fire |-> 3, crime |-> 1, accident |-> 3, hazmat |-> 4,
   rescue |-> 2, natural_disaster |-> 6]

(* DURATION_SEVERITY_MULTIPLIERS by severity, in quarters.                  *)
SeverityMultiplier == <<3, 4, 5, 6, 7>>

ASSUME TimingAssumption ==
  /\ Step \in Nat \ {0}
  /\ Override \subseteq Nat
  /\ Mention \subseteq SUBSET {80, 85, 125, 130, 135, 140, 145, 150}
  /\ BirthAge \subseteq Int
  /\ MaxLate \in Nat
  /\ Horizon \in Nat

VARIABLES
  em,       (* type, severity, total of units_required and subtype          *)
            (* multipliers of the emergency                                 *)
  phase,    (* its status                                                   *)
  age,      (* now - created_at                                             *)
  open,     (* minutes since it was processed first                         *)
  mission,  (* now - dispatched_at, 0 before that                           *)
  sweeper,  (* "asleep", "awake" (its sleep has ended), or "busy" with the  *)
            (* closures of its list                                         *)
  verdict,  (* what the round under way has listed the emergency for, or    *)
            (* "none"                                                       *)
  slip,     (* history: minutes since the sweeper last looked               *)
  late      (* history: minutes of open in which a round was suspended      *)

timingVars == <<em, phase, age, open, mission, sweeper, verdict, slip, late>>

Waiting == {"DISPATCHING", "DISPATCHED", "IN_PROGRESS"}
-----------------------------------------------------------------------------

(* _duration_hint_multiplier: the greatest of the multipliers mentioned and *)
(* of 1.0, in hundredths.                                                   *)
HintMultiplier == Max({100} \cup em.mentions)

(* _planned_duration_minutes.                                               *)
Planned ==
  LET scaled == BaseDuration[em.type] * SeverityMultiplier[em.severity]
                  * (9 + Max({1, em.units})) * HintMultiplier
  IN  Max({8 * Scale, scaled})

IsPlannedOver == mission * Scale >= Planned

(* _max_duration_minutes is 1.4 times the planned duration.                 *)
IsMaxOver == 5 * mission * Scale >= 7 * Planned

StaleUnlessDispatched ==                                    (* a mutant *)
  CASE phase = "DISPATCHING" /\ age >= DispatchTimeout -> "CANCELLED"
    [] phase = "IN_PROGRESS" /\ IsMaxOver              -> "DISMISSED"
    [] phase = "IN_PROGRESS" /\ IsPlannedOver /\ ~IsMaxOver -> "RESOLVED"
    [] OTHER                                           -> phase

StaleAfterMaximum ==                                        (* a mutant *)
  CASE phase = "DISPATCHING" /\ age >= DispatchTimeout -> "CANCELLED"
    [] phase = "DISPATCHED" /\ mission >= StallTimeout -> "DISMISSED"
    [] phase = "IN_PROGRESS" /\ IsMaxOver              -> "DISMISSED"
    [] OTHER                                           -> phase

(* evaluate_stale_emergencies: the status that the limits demand.           *)
Stale ==
  CASE phase = "DISPATCHING" /\ age >= DispatchTimeout -> "CANCELLED"
    [] phase = "DISPATCHED" /\ mission >= StallTimeout -> "DISMISSED"
    [] phase = "IN_PROGRESS" /\ IsMaxOver              -> "DISMISSED"
    [] phase = "IN_PROGRESS" /\ IsPlannedOver /\ ~IsMaxOver -> "RESOLVED"
    [] OTHER                                           -> phase

-----------------------------------------------------------------------------

Emergency ==
  [type : EmergencyType, severity : 1..5, mentions : Mention,
   units : Override \cup {UnitsDefault[t] : t \in EmergencyType}]

(* An emergency as POST /emergencies builds it, at any time of the sweeper. *)
Init ==
  /\ em \in {e \in Emergency : e.units \in Override \cup {UnitsDefault[e.type]}}
  /\ phase = "UNREPORTED"
  /\ age \in BirthAge
  /\ open = 0
  /\ mission = 0
  /\ sweeper \in {"asleep", "awake", "busy"}
  /\ verdict = "none"
  /\ slip = 0
  /\ late = 0

(* process_emergency, first by the request and then by the retries; without *)
(* required units there is nothing to dispatch.                             *)
Process(dispatched) ==
  /\ phase \in {"UNREPORTED", "DISPATCHING"}
  /\ dispatched => em.units > 0
  /\ phase' = IF dispatched THEN "DISPATCHED" ELSE "DISPATCHING"
  /\ UNCHANGED <<em, age, open, mission, sweeper, verdict, slip, late>>

(* mark_emergency_in_progress.                                              *)
Arrive ==
  /\ phase = "DISPATCHED"
  /\ phase' = "IN_PROGRESS"
  /\ UNCHANGED <<em, age, open, mission, sweeper, verdict, slip, late>>

(* All coordination tasks are complete, or a client resolves it.            *)
Resolve ==
  /\ phase \in Waiting
  /\ phase' = "RESOLVED"
  /\ UNCHANGED <<em, age, open, mission, sweeper, verdict, slip, late>>

(* FastForwardClock.advance, by the clock driver.  The sweeper sleeps for   *)
(* less than a Step, so the next advance ends its sleep; a sweeper that is  *)
(* awake is ready to run, and does so before the driver, which waits three  *)
(* real seconds, advances again.  A suspended round holds nothing up.       *)
Advance ==
  /\ sweeper # "awake"
  /\ phase \in Waiting
  /\ open < Horizon
  /\ age' = age + Step
  /\ open' = open + Step
  /\ mission' = IF phase = "DISPATCHING" THEN 0 ELSE mission + Step
  /\ slip' = slip + Step
  /\ \/ /\ sweeper = "asleep"
        /\ sweeper' = "awake"
        /\ late' = late
     \/ /\ sweeper = "busy"
        /\ late + Step <= MaxLate
        /\ late' = late + Step
        /\ sweeper' = sweeper
  /\ UNCHANGED <<em, phase, verdict>>

(* The first part of a round, up to its first await: what waited too long   *)
(* is cancelled, what is to be resolved or dismissed is listed.  The round  *)
(* may be busy with other emergencies of its lists too.                     *)
Sweep ==
  /\ sweeper = "awake"
  /\ sweeper' = "busy"
  /\ slip' = 0
  /\ IF phase \in {"DISPATCHED", "IN_PROGRESS"} /\ Stale # phase
       THEN verdict' = Stale /\ phase' = phase
       ELSE verdict' = "none" /\ phase' = Stale
  /\ UNCHANGED <<em, age, open, mission, late>>

(* The round reaches the emergency: it is closed as it was listed, whatever *)
(* has become of it since.                                                  *)
CloseListed ==
  /\ verdict # "none"
  /\ phase' = verdict
  /\ verdict' = "none"
  /\ UNCHANGED <<em, age, open, mission, sweeper, slip, late>>

(* The round is over, and the sweeper sleeps again.                         *)
EndRound ==
  /\ sweeper = "busy"
  /\ verdict = "none"
  /\ sweeper' = "asleep"
  /\ UNCHANGED <<em, phase, age, open, mission, verdict, slip, late>>

Next ==
  \/ \E dispatched \in BOOLEAN : Process(dispatched)
  \/ Arrive
  \/ Resolve
  \/ Advance
  \/ Sweep
  \/ CloseListed
  \/ EndRound

(* The clock driver and the sweeper go on, and what a round awaits answers  *)
(* or fails; nothing obliges the vehicles.                                  *)
Spec ==
  /\ Init /\ [][Next]_timingVars
  /\ WF_timingVars(Advance)
  /\ WF_timingVars(Sweep) /\ WF_timingVars(CloseListed) /\ WF_timingVars(EndRound)
-----------------------------------------------------------------------------
(* Properties.                                                              *)

(* When the sweeper last looked, slip minutes ago, no limit of an emergency *)
(* that it did not list was over: it had waited for units for less than its *)
(* timeout, unless it was processed since, had been DISPATCHED for less     *)
(* than the stall timeout, or IN_PROGRESS for less than its planned         *)
(* duration, unless a unit arrived when that was over already.              *)
YoungWhileOpen ==
  verdict = "none" =>
    /\ phase = "DISPATCHING" => age - slip < DispatchTimeout \/ open <= slip
    /\ phase = "DISPATCHED" => mission - slip < StallTimeout
    /\ phase = "IN_PROGRESS" =>
         (mission - slip) * Scale < Planned \/ mission - slip < StallTimeout

(* An emergency is open for a bounded time, whatever units come or fail to  *)
(* come: the wait for units, which created_at prolongs when it lies ahead   *)
(* of the simulated clock, then the longer of the stall timeout and the     *)
(* planned duration, a jump of the clock on top of each, and what the clock *)
(* advanced while the sweeper awaited the database or the bus.              *)
ClosesInTime ==
  phase \in Waiting =>
    LET wait == Max({0, DispatchTimeout - (age - open)})
        serve == Max({StallTimeout * Scale, Planned})
    IN  (open - wait - 2 * Step - late) * Scale < serve

(* An emergency that units serve is dismissed, not resolved, only if the    *)
(* clock passed from before its planned duration to beyond its maximum      *)
(* since the sweeper last looked, which takes more than two fifths of that  *)
(* duration, or if the units could come when it was over already.           *)
JumpExplainsDismissal ==
  [][phase = "IN_PROGRESS" /\ verdict = "none" /\ verdict' = "DISMISSED" =>
       5 * slip * Scale > 2 * Planned \/ Planned < StallTimeout * Scale]_timingVars

(* While the clock runs, every emergency of a client is closed in the end,  *)
(* by the limits that the sweeper really applies.                           *)
LimitsClose == phase \in Waiting ~> phase \in {"RESOLVED", "CANCELLED", "DISMISSED"}
=============================================================================
