SPECIFICATION Spec
CONSTANTS
  Stops <- MCStops
  Networks <- MCNetworks
  OpenNetwork <- Open
  Platforms = 2
  WaypointLists <- MCWaypointLists
  MaxRevision = 2
  MaxRoutes = 2
  MaxBuses = 1
  MaxEdits = 4
CHECK_DEADLOCK FALSE
INVARIANTS SavedLinesLoad LinesFollowTheNetwork ParkedBusesStandAtTheirStop
PROPERTIES EditsLandOnWhatTheyOpened
