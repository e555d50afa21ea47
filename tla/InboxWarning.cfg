SPECIFICATION InboxSpec
CONSTANTS
  Raisers = {a1}
  NoTerminal = noTerminal
  MaxNotes = 3
  MaxTerminals = 2
  MaxReplies = 1
INVARIANT WarningsWaitForOperator
CHECK_DEADLOCK FALSE
