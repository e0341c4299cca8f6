SPECIFICATION Spec
CONSTANTS
  MaxPlayers = 2
  UserIDs = {1, 2, 3}
  BYTE = 256
INVARIANTS
  AnswerCounts
