SPECIFICATION FairSpec
CONSTANTS
  Producers = {tap, watchdog}
  Reader = shell
  MaxWrites = 3
INVARIANTS TypeOK NoLostWakeup
PROPERTIES QueueSpec ReadlineReturns
