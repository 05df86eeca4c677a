SPECIFICATION Spec
CONSTANTS
  QueueSize = 5
  Data = {0, 2}
  PvidData = 0
  MaxPosted = 2
  MaxConn = 2
  MaxNotify = 1
  MaxFailures = 1
  RingsAgain = TRUE
INVARIANTS TypeOK RequestsInOrder NothingStale IntactWhileRoom
PROPERTIES Reconnects RequestsServed
CHECK_DEADLOCK FALSE
