SPECIFICATION FairSpec
CONSTANTS
  Agent = {a1, a2}
  Schedule = {s1, s2}
  Process = {p1, p2}
  Cron = {0, 1, 2}
  BatchSize = 1
  MaxTime = 3
  MaxChanges = 3
  MaxFaults = 1
INVARIANTS
  FiredOnce
  NoLostOccurrence
PROPERTIES
  ImplementsTimetable
  FiredUnlessStuck
CHECK_DEADLOCK FALSE
