SPECIFICATION Spec
CONSTANTS
  x1 = x1
  x2 = x2
  NONE = NONE
  SteamIDs = {x1, x2}
  Slots = {1}
  Requests <- Attempts
PROPERTIES
  KicksSameSteamID
CHECK_DEADLOCK FALSE
