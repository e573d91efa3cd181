CONSTANTS
  meeting = meeting
  holiday = holiday
  Event <- MCEvent
  AllDay <- MCAllDay
  Slot <- MCSlot
  Day = 4
  AllDayHour = 1
  Horizon = 5
  StartupGrace = 2
  MaxNow = 9
  MaxChanges = 2
SPECIFICATION Spec
INVARIANTS
  TypeOK
  Once
PROPERTIES
  Timely
