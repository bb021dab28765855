SPECIFICATION Spec
CONSTANTS
  p1 = p1
  p2 = p2
  s1 = s1
  s2 = s2
  s3 = s3
  v1 = v1
  v2 = v2
  Server = {p1}
  OneShot = {p2}
  Agent = {1, 2}
  Schedule = {s1, s2, s3}
  Root <- KeptRoots
  MaxStarts = 3
  MaxEdits = 2
INVARIANT
  SyncsAlone
PROPERTY
  SyncsCoexist
CHECK_DEADLOCK FALSE
