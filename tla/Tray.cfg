SPECIFICATION TraySpec
CONSTANTS
  Meetings <- MCMeetings
  Minute = 1
  Hour = 3
  FarOff = 4
  LookAhead = 6
  MaxTime = 6
  MaxNews = 1
  MaxClicks = 2
INVARIANTS
  LineKeepsUp
  ChainsAreCounted
PROPERTIES
  BlinksOnlyOnceClosed
CHECK_DEADLOCK FALSE
