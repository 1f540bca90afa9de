SPECIFICATION Spec
CONSTANTS
  Width = 4
  Height = 3
  Occupied = {}
  Taps <- McTaps
  Presets = {"twoWay", "oneWay", "dual"}
  MaxEdits = 4
  None = None
  Strokes <- McStrokes
  Areas <- McAreas
  Roundabouts <- McRoundabouts
  Lines <- McLines
CHECK_DEADLOCK FALSE
INVARIANTS LinksAndStructuresLoad EveryMovementIsCompiled LinesRunThereAndBack
PROPERTIES JunctionsAreFoundAtOnce RoundaboutsWhole
