SPECIFICATION VehicleSpec
CONSTANTS
  v1 = v1
  e1 = e1
  e2 = e2
  None = None
  Vehicle = {v1}
  Emergency = {e1, e2}
  Faulty = {v1}
  Crashing = {v1}
  Lossy = TRUE
  MaxUp = 2
  MaxCommands = 2
INVARIANTS VehicleTypeOK MissionMatchesStatus DrivesToMission RepairIsTimed
PROPERTY RefinesDuty
