CONSTANTS
  ann = ann
  bob = bob
  own = own
  team = team
  other = other
  None = None
  Default = "blue"
  Person <- MCPerson
  Calendars <- MCCalendars
  Google <- MCGoogle
  Palette <- MCPalette
  Chosen <- MCChosen
  MaxConnects = 2
  MaxFaults = 1
SPECIFICATION Spec
INVARIANTS
  SidebarTruthful
  MarkersDistinct
  FoldAllTurnsTheSidebar
PROPERTIES
  StylingIsTheUsers
