SPECIFICATION Spec
CONSTANTS
  Width = 4
  Height = 3
  Occupied = {}
  Taps = {}
  Presets = {"twoWay", "oneWay", "dual"}
  MaxEdits = 3
  None = None
  Strokes <- McStrokes
  Areas <- McAreas
  Roundabouts <- McRoundabouts
  Lines = {}
CHECK_DEADLOCK FALSE
INVARIANT SavedMapLoads
