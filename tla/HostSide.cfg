SPECIFICATION HostSpec
CONSTANTS
  f1 = f1
  self = self
  src = src
  dst = dst
  p = p
  Requests = {r1, r2}
  Followers = {f1}
  Self = self
  NoHost = noHost
  Order <- MCOrder
  PoolHosts = {self, f1}
  Wakeable = {f1}
  Capable <- MCCapable
  Limit <- MCLimit
  Slots <- MCSlots
  MaxOther = 1
  MaxCpLives = 2
  Machines = {src, dst}
  ServiceIds = {1, 2}
  Ports = {p}
  Definitions <- MCDefinitions
  NoDefinition = noDefinition
  NoRelay = noRelay
  MaxEdits = 2
  MaxTaken = 2
  Restarting = {dst}
  MaxConns = 1
  Hops = 2
  MaxKeys = 3
  MaxChunks = 3
  RingSize = 2
  build = build
  BUILD = BUILD
  ship = ship
  repo = repo
  Entries = {1, 2, 3, 4}
  CallOf <- MCCallOf
  Kinds <- MCKinds
  StepNames = {build, BUILD, ship}
  Lower <- MCLower
  NoStepName = noStepName
  Concurrency = 2
  MaxTroubles = 1
  Reviews = {"REVIEW_REQUIRED", "APPROVED"}
  Rollups = {"none", "SUCCESS"}
  PrIds = {1, 2}
  Costly = {1}
  BatchSize = 1
  Syncs = {1, 2}
  Loop = 1
  Changing = {2}
  MaxChanges = 1
  Sessions = {s1, s2}
  Foreign = {outside}
  None = none
  MaxWrites = 1
  Sections = {a, b}
  NoSection = noSection
  Number = number
  NoNumber = noNumber
  MaxSaved = 4
  Dispatches = {d1, d2}
  Unclaimed = unclaimed
  Stale = 4
  SweepEvery = 2
\* The bounds stop the system: no request, edit, key or change is left.
CHECK_DEADLOCK FALSE
INVARIANTS
  FinishedIsTrue
  SlotsHold
  NoPileUp
  
  FramesInOrder
  BatchesAreHonest
  ConversationsAreOwn
  UpgradeKeepsData
  
PROPERTIES
  AloneOnlyBeforeFleet
  SharesConverge
  ViewersLeaveNothing
  ToolsAnswer
  
  LiveDispatchKeepsClaim
