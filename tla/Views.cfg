CONSTANTS
  Date <- MCDate
  MonthStarts <- MCMonthStarts
  Today <- MCToday
  Midnightless <- MCMidnightless
  PopupReach = 1
  MaxUntold = 1
  Cells = 14
  Ahead = 3
  home = home
  away = away
  Setting = {home, away}
SPECIFICATION Spec
INVARIANTS
  WindowTruthful
  WindowCurrent
PROPERTY
  OpensOnToday
