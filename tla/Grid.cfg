CONSTANTS
  Occurrence <- MCOccurrence
  FirstStart = 3
  Period = 12
  Duration = 3
  Slot <- MCSlot
  Single <- MCSingle
  Instant <- MCInstant
  Date <- MCDate
  Begins <- MCBegins
  Startless = {4}
  Hour = 3
  DayLength = 9
  MinHeight = 2
  Core = {1}
  Spans = {1, 3, 5}
  Cells = 5
  AgendaDays = 2
  Rooms = {1, 2, 3}
  AllDay <- MCAllDay
SPECIFICATION Spec
INVARIANTS
  NothingLost
  RevivedOnlyAtTheEdge
  DrawnOnItsDay
  WellPlaced
