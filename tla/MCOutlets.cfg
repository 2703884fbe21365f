SPECIFICATION OutletsSpec
CONSTANTS
  c1 = c1
  c2 = c2
  c3 = c3
  h1 = h1
  h2 = h2
  Client = {c1, c2}
  Neighborhood = {h1, h2}
  BatchSize = 2
  MaxRecords = 5
  MaxPredictions = 2
  Deployment <- DatabaseOrDashboards
INVARIANTS SinkTypeOK KeptOnce DashTypeOK HeardOnce PredictionsAgree PictureIsTrue HeardInOrder
PROPERTIES Settles RefinesLedger
CHECK_DEADLOCK FALSE
