SPECIFICATION Spec
CONSTANTS
  MaxRows = 2
  Followers = {f1}
  Self = self
  Foreign = {}
  NoHost = noHost
  MaxSpawns = 1
  MaxByHand = 0
  MaxBoots = 2
  MaxLives = 1
  MaxInFlight = 1
  MaxPanes = 0
\* The bounds stop the system: no user and no crash is left.
CHECK_DEADLOCK FALSE
PROPERTIES
  PresumedLostOnlyAfterGrace
