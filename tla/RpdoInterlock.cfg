SPECIFICATION PanelsSpec
CONSTANTS
  rpdo1 = rpdo1
  rpdo2 = rpdo2
  rpdo3 = rpdo3
  Rpdo <- MCRpdo
  Interlocked <- MCInterlocked
  slow = slow
  short = short
  fast = fast
  NoFile = NoFile
  File <- MCFile
  For <- MCFor
  Durations <- MCDurations
  Longest = 1
INVARIANTS
  StaysOffOnceSeen
  OldSwitchesStayOff
  ModeBeginsAtZero
  NotASingleFrame
  ProgramIsFollowed
PROPERTIES
  YieldsToTheMaster
  CommandsFlow
