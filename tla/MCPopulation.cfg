SPECIFICATION Spec
CONSTANTS
  DayLength = 6
  Week = 2
  MoveInInterval = 1
  GrowthInterval = 3
  Dwell = 1
  StudentEvery = 2
  Templates <- MCTemplates
  Departs <- MCDeparts
  Returns <- MCReturns
  OutingDepart <- MCOutingDepart
  Catalog <- MCCatalog
  InitialBuildings <- MCInitialBuildings
  GrownKinds = {"house", "factory"}
  None = None
  MaxPlacements = 4
  Horizon <- MCHorizon
INVARIANTS OneOwner NothingOverdue HousedAndHired JourneysMatchWhereabouts LoadsAsSaved
PROPERTIES OrdinalsNeverReused
