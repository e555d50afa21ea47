SPECIFICATION UpgradeSpec
CONSTANTS
  Sections = {sa, sb}
  NoSection = none
  Number = num
  NoNumber = noNum
  MaxSaved = 3
CHECK_DEADLOCK FALSE
INVARIANT LayoutsSurvive
