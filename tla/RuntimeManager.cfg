SPECIFICATION FairSpec
CONSTANTS
  Agent = {a1, a2}
  Worker = {w1, w2, w3}
  MaxVersion = 2
  MaxRuns = 2
  MaxFaults = 2
INVARIANT
  OnlyOwnFiles
PROPERTIES
  OneServes
  KeepsUp
CHECK_DEADLOCK FALSE
