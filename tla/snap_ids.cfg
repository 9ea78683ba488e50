CONSTANTS
  MaxIds = 3
  Freq = 2
  IntRange = 8
  MaxNow = 6
SPECIFICATION Spec
CHECK_DEADLOCK FALSE
INVARIANTS TypeOK ListsIntact StateIsPlace CountersAgree
PROPERTIES ImplementsIdPool LateTimeoutsNeverHold
