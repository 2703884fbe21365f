SPECIFICATION BodySpec
CONSTANTS
  Edge = 4
  Radius = 2
  Paces <- MCPaces
  NodePaths <- MCNodePaths
  Kind = "police"
  Place <- MCPlace
  Failures <- MCFailures
  TickSeconds = 119
  WarmUp = 1
  Window = 1
  MaxBreaks = 2
  Nowhere = Nowhere
INVARIANTS BodyTypeOK CriticalIsGrounded
PROPERTIES ArrivesAtTarget GroundedWhileFlagged GetsCloser RefinesDuty Arrives AlertClears
