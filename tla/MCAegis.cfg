SPECIFICATION SystemSpec
CONSTANTS
  v1 = v1
  v2 = v2
  e1 = e1
  e2 = e2
  api = api
  crime = crime
  None = None
  Vehicle = {v1}
  Emergency = {e1, e2}
  Type = {"POLICE"}
  VehicleType <- OneType
  UnitsRequired <- UnitsOf
  Historical = {e1, e2}
  MaxActiveHistorical = 2
  CoordinationTasks = 1
  ApiTask = {}
  Reportable = {"IDLE", "EN_ROUTE", "ON_SCENE", "MAINTENANCE"}
  ListensToAcks = FALSE
  Faulty = {v1}
  Crashing = {v1}
  Lossy = FALSE
  MaxUp = 2
  MaxCommands = 2
CHECK_DEADLOCK FALSE
SYMMETRY Symmetry
INVARIANTS SystemTypeOK MissionWasAssigned
