CONSTANTS
  Human = {h1, h2}
  Bot = {b1}
  Pending = Pending
  None = None
  TokensPerPlayer = 1
  MaxPlayers = 3
  QueueCap = 1
  MaxStarts = 1
  MaxInFlight = 2
SPECIFICATION FairRoomSpec
PROPERTIES
  AwaitedMoveIsMade
