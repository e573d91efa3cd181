CONSTANTS
  plain = plain
  occurrence = occurrence
  broken = broken
  Event <- MCEvent
  Instance <- MCInstance
  Unreadable <- MCUnreadable
  MaxClock = 3
  MaxPages = 2
  MaxFaults = 2
SPECIFICATION FairSpec
INVARIANTS
  TypeOK
  NothingMissing
  NoGhostButFromLeftovers
PROPERTIES
  DeltasAddNoGhost
  OnlyTheClearDrops
  KeepsThePromise
  CatchesUp
