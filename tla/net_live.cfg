SPECIFICATION FairSpec
CONSTANTS
  MaxSeq = 6
  BufferCap = 2
  Budgets <- LiveBudgets
PROPERTIES EverySentArrives
CHECK_DEADLOCK FALSE
