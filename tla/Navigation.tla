----------------------------- MODULE Navigation -----------------------------
(***************************************************************************)
(* How a vehicle moves in one tick: the geometric navigator, the road      *)
(* navigator that falls back on it, and the speeds they drive at.          *)
(*                                                                         *)
(* A movement concerns one line, the bearing to the target.  Positions are *)
(* points of a line with the service area 0..Edge on it; what is kept of   *)
(* the geodesy is that a tick takes the vehicle a step's length along the  *)
(* bearing, beyond the target if it is nearer, and that the area clamps    *)
(* it.  Clamping each coordinate of a plane never takes a vehicle farther  *)
(* from a point of the area, which is what it does here.                   *)
(***************************************************************************)
EXTENDS Integers, Sequences, FiniteSets

CONSTANTS
  Edge,        (* the service area is 0..Edge                              *)
  Radius,      (* a vehicle nearer than this to its target is there: 0.05  *)
  NodePaths    (* the paths through the road graph                         *)

ASSUME NavigationAssumption ==
  /\ Edge \in Nat
  /\ Radius \in Nat \ {0}
  /\ NodePaths \subseteq Seq(0..Edge)

-----------------------------------------------------------------------------
(* Speeds.                                                                  *)

VehicleType == {"ambulance", "fire_truck", "police"}

(* km/h, IDLE_BASE_SPEED_KMH and EN_ROUTE_BASE_SPEED_KMH.                   *)
IdleSpeed == [ambulance |-> 42, fire_truck |-> 32, police |-> 48]
EnRouteSpeed == [ambulance |-> 68, fire_truck |-> 52, police |-> 78]

(* _traffic_multiplier, in percent.                                         *)
TrafficPercent(hour) ==
  IF hour \in 7..9 \cup 16..19 THEN 75
  ELSE IF hour >= 22 \/ hour <= 5 THEN 110
  ELSE 90

(* What a tick of so many seconds covers, in units of 1/360 m: km/h times   *)
(* percent times seconds.                                                   *)
StepLength(speed, hour, seconds) == speed * TrafficPercent(hour) * seconds

ArrivalRadius == 50 * 360

-----------------------------------------------------------------------------
(* Movement.                                                                *)

Distance(a, b) == IF a < b THEN b - a ELSE a - b

(* _bearing_radians and _move_geodesic.                                     *)
TowardsStart(a, b, step) == IF a < b THEN a - step ELSE a + step (* a mutant *)
Towards(a, b, step) == IF a < b THEN a + step ELSE a - step

(* _apply_sf_boundary; the heading is not modelled.                         *)
Unclamped(x) == x                                           (* a mutant *)
Clamp(x) == IF x \in 0..Edge THEN x ELSE IF x < 0 THEN 0 ELSE Edge

(* distance_to_target < 0.05.                                               *)
NearExactly(a, b) == a = b                                  (* a mutant *)
Near(a, b) == Distance(a, b) < Radius

(* GeometricNavigator.step without a target: an idle vehicle goes anywhere  *)
(* within a step, by a heading drawn at random.                             *)
Patrol(pos, step) == {Clamp(x) : x \in (pos - step)..(pos + step)}

(* GeometricNavigator.step towards a target.                                *)
Drive(pos, dest, step) ==
  IF Near(pos, dest)
  THEN [pos |-> pos, route |-> <<>>, halted |-> TRUE]
  ELSE [pos |-> Clamp(Towards(pos, dest, step)), route |-> <<>>, halted |-> FALSE]

(* The way along a route from pos to each of its points.                    *)
Along(pos, route) ==
  LET way[k \in 0..Len(route)] ==
        IF k = 0 THEN 0
        ELSE way[k - 1] + Distance(IF k = 1 THEN pos ELSE route[k - 1], route[k])
  IN  way

(* The walk along the route passes the points that are within a step; it    *)
(* goes on to the next one as long as some of the step remains.             *)
Passed(pos, route, step) ==
  LET way == Along(pos, route)
      Passes(k) == way[k - 1] < step /\ way[k] <= step
  IN  Cardinality({k \in 1..Len(route) : \A j \in 1..k : Passes(j)})

(* OSMnxNavigator.step with a route: the vehicle is clamped after the walk, *)
(* and has reached the target when no point is left.                        *)
FollowRoad(pos, route, step) ==
  LET k == Passed(pos, route, step)
      from == IF k = 0 THEN pos ELSE route[k]
      rest == step - Along(pos, route)[k]
  IN  [pos |-> Clamp(IF k = Len(route) THEN from ELSE Towards(from, route[k + 1], rest)),
       route |-> SubSeq(route, k + 1, Len(route)),
       halted |-> k = Len(route)]

RoutesToNode(dest) == {<<>>} \cup NodePaths                 (* a mutant *)

(* _plan_route: the nodes of a path, and the target itself at the end; none *)
(* without a graph, or when the planning fails.                             *)
Routes(dest) == {<<>>} \cup {Append(nodes, dest) : nodes \in NodePaths}
=============================================================================
