SPECIFICATION Spec
CONSTANTS
  Agents = {a1}
  Steps = {s1, s2}
  NoStep = noStep
  Numbers = {n1}
  NoNumber = noNumber
  Nobody = nobody
  MaxRows = 3
  MaxSyncs = 0
SYMMETRY Symmetry
\* The bounds stop the system: every process ends, every row is deleted.
CHECK_DEADLOCK FALSE
INVARIANTS
  OneRowPerPr
PROPERTIES
  RowKeepsIdentity
