CONSTANTS
  k1 = k1  k2 = k2
  Keys <- OneKey
  NoJob = NoJob
  MaxValue = 1
  Full = 2
  MaxSaves = 3
  MaxRepairs = 1
  PoolSize = 2
  DmlRetries = 1
SPECIFICATION Spec
CHECK_DEADLOCK FALSE
INVARIANTS SettledRowIsLatest SkipNeedsInversion NoLeakedSerial
