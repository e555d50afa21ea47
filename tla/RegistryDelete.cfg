SPECIFICATION Spec
CONSTANTS
  Agents = {a1, a2}
  Steps = {s1}
  NoStep = noStep
  Numbers = {n1}
  NoNumber = noNumber
  Nobody = nobody
  MaxRows = 2
  MaxSyncs = 1
\* The bounds stop the system: every process ends, every row is deleted.
CHECK_DEADLOCK FALSE
PROPERTIES
  DeletedCampaignsAreGone
