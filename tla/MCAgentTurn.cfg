SPECIFICATION Spec
CONSTANTS
  Root <- MCRoot
  Home <- MCHome
  Theme <- MCTheme
  Fuels = {5, 40}
  Enough = 40
  MaxSteps = 2
  maxDriverRetries = 1
  MaxTurns = 2
  Reading <- MCReading
  Accepts <- MCAccepts
  Interpret <- MCInterpret
  MaxRuns = 3
INVARIANTS
  LeftInOrder
  SubshellIsolated
  InlineRestored
  ErrexitSparesConditions
PROPERTIES
  TurnEnds
CHECK_DEADLOCK FALSE
