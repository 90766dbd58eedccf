\* Three paths, three changes between commands, two commands cut short.
SPECIFICATION Spec
CHECK_DEADLOCK FALSE
CONSTANTS
  v1 = v1
  v2 = v2
  None = None
  Paths <- MCPaths
  Versions <- MCVersions
  MaxChanges = 3
  MaxStops = 2
INVARIANT GeneratedIsUpToDate
PROPERTY
  DeletesOnlyWhatItWrote
