CONSTANTS
  Human = {h1, h2}
  Bot = {b1}
  Pending = Pending
  None = None
  TokensPerPlayer = 1
  MaxPlayers = 3
  QueueCap = 1
  MaxStarts = 2
  MaxInFlight = 2
SPECIFICATION RoomSpec
INVARIANTS
  PotIsLocked
