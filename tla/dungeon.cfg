CONSTANTS
  c1 = c1  c2 = c2
  Clients <- TwoClients
  Warmup = 3
  ReadyWarmup = 2
  Limit = 3
  FinishTime = 3
  SafeTime = 2
  MaxLives = 2
SPECIFICATION Spec
CHECK_DEADLOCK FALSE
INVARIANTS ScenarioBelongsToRun PlayersTakePart RecordIsOfThisRun
PROPERTY DungeonIsFreeAgain
