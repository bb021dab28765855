SPECIFICATION Spec
CONSTANTS
  MaxTurns = 3
  MaxSteps = 2
  Style <- AnyStyle
INVARIANTS
  CallsAnswered
  HistoryShown
CHECK_DEADLOCK FALSE
