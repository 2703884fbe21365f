------------------------------- MODULE MCAegis --------------------------------
EXTENDS Aegis, TLC
CONSTANTS v1, v2, e1, e2, api, crime
OneType == [v \in Vehicle |-> "POLICE"]
UnitsOf == [e \in Emergency |-> [k \in {"POLICE"} |-> 1]]
Symmetry == Permutations(Emergency)
=============================================================================
