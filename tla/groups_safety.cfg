CONSTANTS
  a1 = a1  a2 = a2  a3 = a3  c1 = c1  c2 = c2  c3 = c3
  Accounts <- ThreeAccounts
  Clients <- ThreeClients
  Nobody = Nobody
  MaxMembers = 2
  MaxID = 2
  MaxObjects = 2
  MaxQueue = 2
  MaxVotes = 1
SYMMETRY Symmetry
SPECIFICATION Spec
CHECK_DEADLOCK FALSE
INVARIANTS LeaderIsMember PointerIsMembership OneGroupEach TableFollows WithinLimit
CONSTRAINT Small
