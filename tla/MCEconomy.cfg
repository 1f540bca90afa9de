SPECIFICATION Spec
CONSTANTS
  Tiles = {"a", "b", "x", "y"}
  Adjacent <- MCAdjacent
  Nodes = {"a", "b"}
  NodeAt <- MCNodeAt
  Terminals = {"b"}
  Beside <- MCBeside
  Coverage <- MCCoverage
  NodeOrder <- MCNodeOrder
  Lines = {"l"}
  LineStops <- MCLineStops
  Corridors <- MCCorridors
  Price <- MCPrice
  DailyCost = 1
  Required = 1
  Creative = FALSE
  StartBudget = 4
  MinMoney <- MCMinMoney
  MaxMoney = 4
  Window = 1
  GrowthEvery = 1
  DayLength = 2
  Strokes <- MCStrokes
  Presets = {"both"}
  Rectangles <- MCRectangles
  MaxFare = 1
  MaxFleet = 2
  None = None
INVARIANTS BuildingsKeepTheirZone LinesFollowRoads
PROPERTIES UndoAllOrNothing UndoBreaksNoLine
