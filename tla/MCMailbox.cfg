SPECIFICATION Spec
CONSTANTS
  a1 = a1
  a2 = a2
  w1 = w1
  w2 = w2
  p1 = p1
  p2 = p2
  Agent = {a1, a2}
  Worker = {w1, w2}
  AgentOf <- OverlapAgentOf
  ProcessOf <- OneProcessOf
  CanSend = {a1}
  LeaseDuration = 2
  RetryDelay = 1
  Limits = {2}
  Delays = {0}
  MaxSteps = 0
  MaxOutbox = 2
  MaxMessages = 3
  MaxRuns = 3
  MaxFaults = 2
SYMMETRY WorkerSymmetry
INVARIANTS
  LeasesAreSound
  ActiveHoldsMessage
  AnsweredOnce
PROPERTIES
  FencedWrites
  ImplementsQueue
CHECK_DEADLOCK FALSE
