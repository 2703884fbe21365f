---------------------------- MODULE MCOrchestrator ----------------------------
EXTENDS Orchestrator, TLC
CONSTANTS v1, v2, e1, e2, api, crime
OneType == [v \in Vehicle |-> "POLICE"]
UnitsOf == [e \in Emergency |-> [k \in {"POLICE"} |-> IF e = e1 THEN 2 ELSE 1]]
Symmetry == Permutations(Vehicle)
=============================================================================
