SPECIFICATION LiveSpec
CONSTANTS
  Lags = {1}
  Vlans = {0, 1}
  Home <- OneAddress
  Targets <- LagAndSwitch
  Statics = {FALSE}
  MaxRequests = 3
INVARIANTS TypeOK OwedIsCovered PurgeIsTriggered NoOrphans NoStaleAddress DeletionAwaited
CHECK_DEADLOCK FALSE
PROPERTY LagFreed
