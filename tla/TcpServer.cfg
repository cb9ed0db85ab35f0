SPECIFICATION FairSpec
CONSTANTS
  Clients = {c1, c2, c3}
  None = none
INVARIANTS TypeOK StopAccounts Released
PROPERTIES ListenerEnds StopReturns Served Pruned
