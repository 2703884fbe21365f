---------------------------- MODULE MCVehicleAgent ----------------------------
EXTENDS VehicleAgent
CONSTANTS v1, e1, e2
=============================================================================
