CONSTANTS
  work = work
  home = home
  button = button
  preferences = preferences
  Account <- MCAccount
  Flow <- MCFlow
  Pages = 2
  MaxGrants = 2
  MaxFaults = 0
SYMMETRY MCSymmetry
SPECIFICATION Spec
PROPERTIES
  RemovedMeansForgotten
CHECK_DEADLOCK FALSE
