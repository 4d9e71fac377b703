CONSTANTS
  ann = ann
  bob = bob
  bob1 = bob1
  Player = {ann, bob}
  Session = {ann1, ann2, bob1}
  PlayerOf <- Owners
  Room = {r1}
  None = None
  HubLoop = HubLoop
  QueueCap = 1
  MaxRead = 2
SPECIFICATION FairSpec
INVARIANTS
  HubTypeOK
  NoWaitCycle
PROPERTIES
  ImplementsRegistry
  LeaverIsShownGone
