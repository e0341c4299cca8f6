SPECIFICATION Spec
CONSTANTS
  BufferSize = 4
  SizeT = 16
  INT16_MIN = 0
  INT16_MAX = 1
  MAX_CLIENTS = 2
  FrameSize = 1
  MaxFrames = 2
  RecvSize = 4
  Prebuffer = 2
  MaxAhead = 0
  Samples <- Bits
  MaxLead = 2
  Faults = {"accept", "encode"}
INVARIANTS
  IndInv
  PollsClients
  UnderrunsNoticed
PROPERTIES
  StreamSpec
VIEW LiveState
CHECK_DEADLOCK FALSE
