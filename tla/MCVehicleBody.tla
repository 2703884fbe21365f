---------------------------- MODULE MCVehicleBody ----------------------------
(***************************************************************************)
(* A police unit with two failures, one of which no rule looks at, in an   *)
(* area with one scene inside and one beyond reach.  A tick ages failures  *)
(* by 119 s, the longest for which the rules warn before they ground.  The *)
(* road takes detours; its path passes a point twice.  At the slower       *)
(* frequency a tick may carry the vehicle past a scene by as much as it    *)
(* was short of it.                                                        *)
(***************************************************************************)
EXTENDS VehicleBody

MCPlace == {2, 9}
MCPaces == {{2, 3}, {4}}
MCNodePaths == {<<4, 4, 0>>}
MCFailures == {"fuel_leak", "oil_pressure_drop"}
=============================================================================
