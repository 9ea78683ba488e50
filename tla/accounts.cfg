CONSTANTS
  c1 = c1  c2 = c2  n1 = n1  n2 = n2  own = own
  Clients <- TwoClients
  Nicks <- TwoNicks
  Secrets <- OneSecret
  NoNick = NoNick
  MaxVisits = 2
  MaxChains = 2
  MaxID = 2
SYMMETRY Symmetry
SPECIFICATION Spec
CHECK_DEADLOCK FALSE
INVARIANTS TypeOK OnlineOnce LoggedInByOneself NameIsAccounts NoOrphan BannedStaysOut
CONSTRAINT FewAtATime
