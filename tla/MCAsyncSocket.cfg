SPECIFICATION Spec
CONSTANTS
  c1 = c1
  c2 = c2
  s1 = s1
  s2 = s2
  NONE = NONE
  Created = {c1, c2}
  Sockets = {s1, s2}
  MaxJobs = 2
  MaxEvents = 1
  MaxReads = 1
INVARIANTS
  IndInv
  AnnounceInv
  OneResolver
  DeleteIsLast
  AnnouncedFirst
  NothingLeft
  QuietIsSafe
SYMMETRY SocketSymmetry
ACTION_CONSTRAINT
  OneRisk
CHECK_DEADLOCK FALSE
