SPECIFICATION FairSpec
CONSTANTS
  Where <- MCWhere
  Access <- MCAccess
  StepSeconds <- MCStepSeconds
  TurnSeconds <- MCTurnSeconds
  BoardingSeconds = 1
  Patterns <- MCPatterns
  InitialLines <- MCInitialLines
  PlatformCapacity = 1
  Seats = 1
  TargetHeadway = 6
  Patience = 7
  Grace = 3
  Slack = 12
  Tile = 2
  Demands <- MCDemands
  Deltas <- MCDeltas
  MaxLines = 3
  MaxVehicles = 4
  MaxIntents = 2
INVARIANTS SavesLoad TripsAccounted PlansMatchNetwork GranularityIndependent
PROPERTIES NoQueueJumping NobodyLeftBehind EveryoneGetsThere
