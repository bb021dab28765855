CONSTANTS
  Root <- MCRoot
  Program = {p}
  Name <- MCName
  Paths <- MCPaths
  Targets <- MCTargets
  MaxNodes = 4
  MaxBytes = 1
VIEW View
SPECIFICATION Spec
INVARIANTS ResolvedIsCanonical MadeIsThere
PROPERTY TreeKept
CHECK_DEADLOCK FALSE
