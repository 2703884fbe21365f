SPECIFICATION FairSpec
CONSTANTS
  v1 = v1
  v2 = v2
  e1 = e1
  e2 = e2
  api = api
  crime = crime
  None = None
  Vehicle = {v1}
  Emergency = {e1, crime}
  Type = {"POLICE"}
  VehicleType <- OneType
  UnitsRequired <- UnitsOf
  Historical = {crime}
  MaxActiveHistorical = 1
  CoordinationTasks = 2
  ApiTask = {api}
  Reportable = {"IDLE", "ON_SCENE"}
  ListensToAcks = TRUE
CHECK_DEADLOCK FALSE
INVARIANTS HeldIsListed WaitingHasNoUnits
PROPERTIES EveryEmergencyCloses
