SPECIFICATION Spec
CONSTANTS
  x1 = x1
  x2 = x2
  NONE = NONE
  SteamIDs = {x1, x2}
  Slots = {1, 2}
  Requests <- Attempts
INVARIANTS
  IndInv
  OwnSteamID
  AllValidated
  RecordsMatchClients
  UndecidedRecorded
ACTION_CONSTRAINT
  OneRisk
CHECK_DEADLOCK FALSE
