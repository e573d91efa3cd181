SPECIFICATION SettingsSpec
CONSTANTS
  LastHour = 3
  DefaultStart = 1
  DefaultEnd = 2
  ZoneCount = 2
  HandWritten <- MCHandWritten
  MaxMishaps = 1
INVARIANTS
  RestartKeepsTheSettings
  RowsTellTheTruth
PROPERTIES
  TheRestIsTheUsers

