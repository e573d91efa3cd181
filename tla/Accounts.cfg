CONSTANTS
  work = work
  home = home
  button = button
  preferences = preferences
  Account <- MCAccount
  Flow <- MCFlow
  Pages = 2
  MaxGrants = 2
  MaxFaults = 1
SYMMETRY MCSymmetry
SPECIFICATION Spec
INVARIANTS
  Paired
  CursorHonest
  NoOrphans
PROPERTIES
  PassKeepsTheGrant
