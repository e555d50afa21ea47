SPECIFICATION Spec
CONSTANTS
  MaxRows = 2
  Followers = {f1}
  Self = self
  Foreign = {pty}
  NoHost = noHost
  MaxSpawns = 1
  MaxByHand = 1
  MaxBoots = 2
  MaxLives = 2
  MaxInFlight = 1
  MaxPanes = 1
\* The bounds stop the system: no user and no crash is left.
CHECK_DEADLOCK FALSE
CONSTRAINT Apart
INVARIANTS
  KillsOnlyUnwanted
  LocalRowsMatchPtys
  
  IInv
PROPERTIES
  LivePtySpared
  RemoteSessionsOutliveControlPlane
