SPECIFICATION FairSystemSpec
CONSTANTS
  v1 = v1
  v2 = v2
  e1 = e1
  e2 = e2
  api = api
  crime = crime
  None = None
  Vehicle = {v1}
  Emergency = {e1}
  Type = {"POLICE"}
  VehicleType <- OneType
  UnitsRequired <- UnitsOf
  Historical = {}
  MaxActiveHistorical = 2
  CoordinationTasks = 1
  ApiTask = {api}
  Reportable = {"IDLE", "EN_ROUTE", "ON_SCENE", "MAINTENANCE"}
  ListensToAcks = TRUE
  Faulty = {v1}
  Crashing = {}
  Lossy = FALSE
  MaxUp = 2
  MaxCommands = 2
CHECK_DEADLOCK FALSE
PROPERTIES ViewCatchesUp
