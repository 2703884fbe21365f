\* One emergency of each kind under the simulated clock of the application.
SPECIFICATION Spec
CONSTANTS
  Step = 30
  Override <- MCOverride
  Mention <- MCMention
  BirthAge <- MCBirthAge
  MaxLate = 60
  Horizon = 510
\* A closed emergency is the end of the model.
CHECK_DEADLOCK FALSE
INVARIANTS YoungWhileOpen ClosesInTime
PROPERTIES LimitsClose JumpExplainsDismissal
