SPECIFICATION Spec
CONSTANTS
  v1 = v1
  v2 = v2
  e1 = e1
  e2 = e2
  api = api
  crime = crime
  None = None
  Vehicle = {v1}
  Emergency = {e1, e2}
  Type = {"POLICE"}
  VehicleType <- OneType
  UnitsRequired <- UnitsOf
  Historical = {}
  MaxActiveHistorical = 1
  CoordinationTasks = 2
  ApiTask = {api}
  Reportable = {"IDLE", "ON_SCENE"}
  ListensToAcks = FALSE
CHECK_DEADLOCK FALSE
PROPERTIES RetriesOnlyWaiting
