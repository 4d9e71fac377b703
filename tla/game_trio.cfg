CONSTANTS
  NumPlayers = 3
  MainTrackSize = 6
  HomeColumnSize = 2
  DiceSides = 2
  TokensPerPlayer = 1
  None = None
  StartPosition <- TrioStart
  SafeZones <- TrioSafeZones
SPECIFICATION Spec
INVARIANTS
  TurnHolderUnfinished
  FinishLedger
PROPERTIES
  NoPlayerSkipped
  ImplementsTurnGame
