SPECIFICATION FairSpec
CONSTANTS
  Agents = {a1, a2}
  Steps = {s1}
  NoStep = noStep
  Numbers = {n1}
  NoNumber = noNumber
  Nobody = nobody
  MaxRows = 1
  MaxSyncs = 2
\* The bounds stop the system: every process ends, every row is deleted.
CHECK_DEADLOCK FALSE
PROPERTIES
  DeadClaimsExpire
  MergesAreNoticed
