SPECIFICATION FleetSpec
CONSTANT Agents = 3
PROPERTY CtrlCStopsFleet
CHECK_DEADLOCK FALSE
