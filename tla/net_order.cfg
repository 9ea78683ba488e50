SPECIFICATION Spec
CONSTANTS
  MaxSeq = 5
  BufferCap = 1
  Budgets <- OrderBudgets
INVARIANTS InOrderOnce KeptUntilDelivered
CONSTRAINT SomethingPromised
CHECK_DEADLOCK FALSE
