CONSTANTS
  ann = ann
  bob = bob
  bob1 = bob1
  Player = {ann}
  Session = {ann1, ann2}
  PlayerOf <- Owners
  Room = {r1}
  None = None
  HubLoop = HubLoop
  QueueCap = 1
  MaxRead = 2
SPECIFICATION Spec
PROPERTIES
  KickedSessionIsOut
