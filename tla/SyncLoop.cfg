CONSTANTS
  work = work
  home = home
  first = first
  second = second
  Account <- MCAccount
  Link <- MCLink
  MinInterval = 1
  MaxInterval = 5
  MaxChanges = 3
SPECIFICATION FairSpec
INVARIANTS
  TypeOK
  LoopIsWhole
  NeverQuietLong
PROPERTIES
  PollsForEver
  EveryAccountIsFetched
  ReconnectedSettles
CHECK_DEADLOCK FALSE
