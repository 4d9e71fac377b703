CONSTANTS
  NumPlayers = 2
  MainTrackSize = 6
  HomeColumnSize = 3
  DiceSides = 3
  TokensPerPlayer = 2
  None = None
  StartPosition <- DuelStart
  SafeZones <- DuelSafeZones
SPECIFICATION FairSpec
INVARIANTS
  TypeOK
  UnsafeCellExclusive
  NoOwnStacking
  OfferedMovesCurrent
  BotPriorities
  CloserTokenFirst
PROPERTIES
  SetbackOnlyByCapture
  MoverAdvancesByDice
  TurnPasses
