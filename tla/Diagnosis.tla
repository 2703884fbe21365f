------------------------------ MODULE Diagnosis ------------------------------
(***************************************************************************)
(* What a failure does to the readings of a vehicle as time passes, and    *)
(* what the detectors make of a reading.                                   *)
(*                                                                         *)
(* Each scenario drives one reading away from the baseline of the vehicle  *)
(* type at a constant rate.  Readings are in the unit that the rate covers *)
(* in a second: 1/30 degree, 1/3000 V, 1/12 percent of fuel, 1/200 bar,    *)
(* 1/120 m/s2 and 1/300 mm.                                                *)
(***************************************************************************)
EXTENDS Integers

Scenario == {"engine_overheat", "battery_degradation", "fuel_leak",
             "oil_pressure_drop", "vibration_anomaly", "brake_degradation"}

(* The readings that the rule-based detector looks at.                      *)
Checked == {"engine_overheat", "battery_degradation", "fuel_leak"}

(* VEHICLE_BASELINES.                                                       *)
Baseline ==
  [ambulance  |-> [engine_overheat |-> 2640, battery_degradation |-> 41400,
                   fuel_leak |-> 936, oil_pressure_drop |-> 700,
                   vibration_anomaly |-> 96, brake_degradation |-> 3600],
   fire_truck |-> [engine_overheat |-> 2850, battery_degradation |-> 40800,
                   fuel_leak |-> 1020, oil_pressure_drop |-> 840,
                   vibration_anomaly |-> 144, brake_degradation |-> 3000],
   police     |-> [engine_overheat |-> 2550, battery_degradation |-> 42600,
                   fuel_leak |-> 840, oil_pressure_drop |-> 640,
                   vibration_anomaly |-> 72, brake_degradation |-> 2400]]

Rising == {"engine_overheat", "vibration_anomaly"}
Ceiling == [engine_overheat |-> 4500, vibration_anomaly |-> 6000]

(* apply_failures: the reading of a scenario that has been active for age   *)
(* seconds.  It replaces the measured one, so that it carries no noise.     *)
Reading(kind, s, age) ==
  LET base == Baseline[kind][s] IN
  IF s \in Rising
  THEN IF base + age > Ceiling[s] THEN Ceiling[s] ELSE base + age
  ELSE IF age > base THEN 0 ELSE base - age

(* The thresholds of AnomalyDetector.                                       *)
WarnAt == [engine_overheat |-> 3150, battery_degradation |-> 36000, fuel_leak |-> 180]
CriticalAt == [engine_overheat |-> 3600, battery_degradation |-> 34500, fuel_leak |-> 60]

Beyond(s, reading, threshold) ==
  IF s \in Rising THEN reading > threshold ELSE reading < threshold

JudgeLate(kind, s, age) ==                                  (* a mutant *)
  LET reading == Reading(kind, s, age) IN
  IF s \notin Checked \/ ~Beyond(s, reading, CriticalAt[s]) THEN "none" ELSE "critical"

(* What the checks of AnomalyDetector.analyze find in the reading of a      *)
(* scenario.  Without a failure the readings are off their baselines by     *)
(* noise alone, far from every threshold.                                   *)
Judge(kind, s, age) ==
  LET reading == Reading(kind, s, age) IN
  IF s \notin Checked THEN "none"
  ELSE IF Beyond(s, reading, CriticalAt[s]) THEN "critical"
  ELSE IF Beyond(s, reading, WarnAt[s]) THEN "warning"
  ELSE "none"

(* _SCENARIO_META: the severity of what the learned model predicts.         *)
Predicted(s) ==
  IF s \in {"engine_overheat", "fuel_leak", "oil_pressure_drop"}
  THEN "critical" ELSE "warning"
=============================================================================
