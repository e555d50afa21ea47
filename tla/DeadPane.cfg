SPECIFICATION TabsSpec
CONSTANTS
  Windows = {w1}
  Arrangers = {}
  Empty = empty
  NoReply = noReply
  MaxPanes = 2
  MaxSessions = 2
  MaxTabs = 1
  MaxGestures = 2
INVARIANT SavedPanesAreLive
CHECK_DEADLOCK FALSE
