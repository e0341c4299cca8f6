SPECIFICATION Spec
CONSTANTS
  c1 = c1
  s1 = s1
  NONE = NONE
  Created = {c1}
  Sockets = {s1}
  MaxJobs = 2
  MaxEvents = 1
  MaxReads = 0
INVARIANT
  NoDoubleClose
CHECK_DEADLOCK FALSE
