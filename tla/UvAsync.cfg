SPECIFICATION Spec
CONSTANT
  MaxJobs = 5
INVARIANTS
  TypeOK
  NeverAborts
  NoLostWakeup
  StoppedEmpty
  IndInv
PROPERTIES
  RelaySpec
  JobsRun
  LoopEnds
CHECK_DEADLOCK FALSE
