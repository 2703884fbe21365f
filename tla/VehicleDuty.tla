----------------------------- MODULE VehicleDuty -----------------------------
(***************************************************************************)
(* What a vehicle promises, without its tasks, messages, position and      *)
(* readings: when it serves an emergency, is out of service and comes      *)
(* back.  VehicleAgent, which splits the agent's loop at its awaits, and   *)
(* VehicleBody, which computes movement and detection, both implement this *)
(* specification.                                                          *)
(*                                                                         *)
(* A vehicle leaves MAINTENANCE by a repair whose timer ran, by a          *)
(* resolution that was on its way to it, which cuts the repair short, or   *)
(* with the end of its process; and it gives a mission up by one of the    *)
(* latter two, for another one, or for MAINTENANCE.                        *)
(***************************************************************************)
CONSTANTS Vehicle, Emergency, None

VARIABLES
  status,    (* of each vehicle                                             *)
  mission,   (* the emergency it serves, or None                            *)
  broken,    (* the vehicles with a failure                                 *)
  timed,     (* those whose repair timer runs                               *)
  recalled,  (* those to which a resolution that releases them may come     *)
  running    (* those whose process runs                                    *)

vars == <<status, mission, broken, timed, recalled, running>>

Init ==
  /\ status = [v \in Vehicle |-> "IDLE"]
  /\ mission = [v \in Vehicle |-> None]
  /\ broken = {}
  /\ timed = {}
  /\ recalled = {}
  /\ running \subseteq Vehicle

Leave(v, st) ==
  /\ status' = [status EXCEPT ![v] = st]
  /\ mission' = [mission EXCEPT ![v] = None]

Start(v) ==
  /\ v \notin running
  /\ running' = running \cup {v}
  /\ UNCHANGED <<status, mission, broken, timed, recalled>>

(* A resolution sets out for vehicles.                                      *)
Recall(vs) ==
  /\ vs \subseteq running
  /\ recalled' = recalled \cup vs
  /\ UNCHANGED <<status, mission, broken, timed, running>>

(* A vehicle in service takes a mission, also for another one; that it does *)
(* may be what a resolution can end.                                        *)
Take(v, e) ==
  /\ v \in running
  /\ status[v] # "MAINTENANCE"
  /\ status' = [status EXCEPT ![v] = "EN_ROUTE"]
  /\ mission' = [mission EXCEPT ![v] = e]
  /\ recalled' \in {recalled, recalled \cup {v}}
  /\ UNCHANGED <<broken, timed, running>>

(* The resolution arrives, whatever the vehicle is doing; it may not have   *)
(* been the only one.                                                       *)
Release(v) ==
  /\ v \in running \cap recalled
  /\ Leave(v, "IDLE")
  /\ recalled' \in {recalled, recalled \ {v}}
  /\ UNCHANGED <<broken, timed, running>>

(* A failure strikes a vehicle in service, or none does; it arrives, if it  *)
(* is under way, goes on, or is grounded by a failure it has.               *)
Serve(v) ==
  /\ v \in running
  /\ status[v] # "MAINTENANCE"
  /\ broken' \in {broken, broken \cup {v}}
  /\ \/ UNCHANGED <<status, mission, timed>>
     \/ /\ status[v] = "EN_ROUTE"
        /\ status' = [status EXCEPT ![v] = "ON_SCENE"]
        /\ UNCHANGED <<mission, timed>>
     \/ /\ v \in broken'
        /\ Leave(v, "MAINTENANCE")
        /\ timed' = timed \cup {v}
  /\ UNCHANGED <<recalled, running>>

(* The repair ends every failure, and puts it back into service.            *)
Repair(v) ==
  /\ v \in running
  /\ status[v] = "MAINTENANCE"
  /\ v \in timed
  /\ Leave(v, "IDLE")
  /\ broken' = broken \ {v}
  /\ timed' = timed \ {v}
  /\ UNCHANGED <<recalled, running>>

(* The process ends; a new one knows of nothing.                            *)
End(v) ==
  /\ v \in running
  /\ running' = running \ {v}
  /\ Leave(v, "IDLE")
  /\ broken' = broken \ {v}
  /\ timed' = timed \ {v}
  /\ recalled' = recalled \ {v}

Next ==
  \/ \E vs \in SUBSET Vehicle : Recall(vs)
  \/ \E v \in Vehicle :
       \/ Start(v)
       \/ \E e \in Emergency : Take(v, e)
       \/ Release(v)
       \/ Serve(v)
       \/ Repair(v)
       \/ End(v)

Spec == Init /\ [][Next]_vars
=============================================================================
