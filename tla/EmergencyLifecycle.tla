-------------------------- MODULE EmergencyLifecycle --------------------------
(***************************************************************************)
(* What the orchestrator promises about an emergency, without its tasks,   *)
(* lists, records and messages: the phases an emergency goes through and   *)
(* the crew that serves it.  A unit serves one emergency at a time, only   *)
(* an emergency on mission has a crew, and closing it frees the crew.      *)
(* Orchestrator implements this specification.                             *)
(***************************************************************************)
CONSTANTS Vehicle, Emergency

VARIABLES
  phase,  (* status of each emergency; "UNREPORTED" before it exists       *)
  crew    (* the vehicles that serve each emergency                        *)

OnMission == {"DISPATCHED", "IN_PROGRESS"}
Final == {"RESOLVED", "CANCELLED", "DISMISSED"}
Phase == {"UNREPORTED", "DISPATCHING"} \cup OnMission \cup Final

Init ==
  /\ phase = [e \in Emergency |-> "UNREPORTED"]
  /\ crew = [e \in Emergency |-> {}]

(* An emergency that is not on mission is given a crew, which may be empty: *)
(* it then waits.  A unit that served another emergency leaves it.          *)
Assign(e, S) ==
  /\ phase[e] \notin OnMission
  /\ phase' = [phase EXCEPT ![e] = IF S = {} THEN "DISPATCHING" ELSE "DISPATCHED"]
  /\ crew' = [x \in Emergency |-> IF x = e THEN S ELSE crew[x] \ S]

(* The first of the crew is on scene.                                       *)
Begin(e) ==
  /\ phase[e] = "DISPATCHED"
  /\ phase' = [phase EXCEPT ![e] = "IN_PROGRESS"]
  /\ UNCHANGED crew

(* Reported emergencies are closed, also again; only one that waits for     *)
(* units can be cancelled.                                                  *)
Finish(C) ==
  /\ phase' \in [Emergency -> Phase]
  /\ \A e \in C : /\ phase[e] # "UNREPORTED"
                  /\ phase'[e] \in Final
                  /\ phase'[e] = "CANCELLED" => phase[e] = "DISPATCHING"
  /\ \A e \in Emergency \ C : phase'[e] = phase[e]
  /\ crew' = [e \in Emergency |-> IF e \in C THEN {} ELSE crew[e]]

Next ==
  \/ \E e \in Emergency, S \in SUBSET Vehicle : Assign(e, S)
  \/ \E e \in Emergency : Begin(e)
  \/ \E C \in SUBSET Emergency : Finish(C)

vars == <<phase, crew>>
Spec == Init /\ [][Next]_vars
=============================================================================
