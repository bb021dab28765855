SPECIFICATION FairSpec
CONSTANTS
  a1 = a1
  a2 = a2
  w1 = w1
  w2 = w2
  p1 = p1
  p2 = p2
  Agent = {a1}
  Worker = {w1, w2}
  AgentOf <- OverlapAgentOf
  ProcessOf <- TwoProcessOf
  CanSend = {a1}
  LeaseDuration = 1
  RetryDelay = 1
  Limits = {2}
  Delays = {0}
  MaxSteps = 1
  MaxOutbox = 1
  MaxMessages = 1
  MaxRuns = 10
  MaxFaults = 2
PROPERTIES
  EventuallySettled
  RecordsStand
CHECK_DEADLOCK FALSE
