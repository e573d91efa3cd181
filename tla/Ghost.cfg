CONSTANTS
  plain = plain
  occurrence = occurrence
  broken = broken
  Event <- MCEvent
  Instance <- MCInstance
  Unreadable <- MCUnreadable
  MaxClock = 3
  MaxPages = 2
  MaxFaults = 1
SPECIFICATION Spec
INVARIANT NoGhost
