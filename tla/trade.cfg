SPECIFICATION Spec
CONSTANTS
  a1 = a1
  a2 = a2
  Nobody = Nobody
  Accounts <- TwoAccounts
  Wealth <- Owners
  Prices = {2}
  Amounts = {1, 2}
  Capacities = {1, 2}
  TaxRate = 50
  CommissionRate = 50
  InitialFee = 2
  RentPrice = 1
  MaxPlayerSlots = 1
  MaxSlots = 2
  MinDeposit = 0
  MinSafe = 1
  Plans <- Several
  MaxQueue = 6
SYMMETRY Symmetry
CONSTRAINT StillClean
INVARIANTS TypeOK TableFollows
PROPERTIES ImplementsMarket
CHECK_DEADLOCK FALSE
