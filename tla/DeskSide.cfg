SPECIFICATION DeskSpec
CONSTANTS
  MaxTreePanes = 5
  MaxTreeEdits = 4
  Windows = {w1, w2}
  Arrangers = {w1}
  Empty = empty
  NoReply = noReply
  MaxPanes = 3
  MaxSessions = 3
  MaxTabs = 2
  MaxGestures = 2
  Clients = {w1, w2}
  Viewed = {t1, t2}
  MaxParked = 1
  MaxStreams = 3
  Raisers = {a1}
  NoTerminal = noTerminal
  MaxNotes = 2
  MaxTerminals = 2
  MaxReplies = 2
  Columns = {s1, s2}
  MaxTasks = 1
  MaxPrs = 2
  MaxClicks = 1
  Files = {f1, f2}
  Unknown = unknown
  MaxWrites = 2
  MaxSaves = 1
  MaxSwitches = 2
  MaxCampaigns = 3
  MaxPicks = 1
  MaxSyncClicks = 1
  MaxEdits = 1
  Nothing = nothing
\* The bounds stop the system: no edit, stream, note, task or save is left.
CHECK_DEADLOCK FALSE
INVARIANTS
  
  CacheIsKept
  AckedWasSeen
  
  SavesNoticeEdits
PROPERTIES
  PanesKeepOrder
  WindowsConverge
  RaisedReachesUser
  ClicksHitSelectedStep
  BoardSettles
