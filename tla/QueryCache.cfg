SPECIFICATION Spec
CONSTANTS
  MaxPlayers = 3
  UserIDs = {1, 2, 3}
  BYTE = 4
INVARIANTS
  IndInv
  KnowsClients
PROPERTIES
  InfoCatchesUp
