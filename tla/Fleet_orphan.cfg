SPECIFICATION Spec
CONSTANTS
  h1 = h1
  h2 = h2
  Hosts = {h1, h2}
  Choices <- BothOrFirst
  Pools = {1, 2}
  MaxCalls = 4
CHECK_DEADLOCK FALSE
INVARIANTS NoOrphan
