CONSTANTS
  w1 = w1  w2 = w2  game = game  aux = aux  s1 = s1  d1 = d1  d2 = d2
  Workers <- TwoWorkers
  Producers <- TwoProducers
  MainThread = game
  Tasks <- TwoTasks
  Selects <- OneSelect
  Throwing <- NoSelects
  NoTask = NoTask
  MaxQueue = 1
  SelectRetries = 1
  DmlRetries = 1
SPECIFICATION FairSpec
CHECK_DEADLOCK FALSE
PROPERTIES EverySubmittedTaskEnds DestructorReturns
