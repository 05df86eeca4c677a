SPECIFICATION LiveSpec
CONSTANTS
  p1 = p1
  p2 = p2
  Processes = {p1, p2}
  First = p1
  NoEvent = NoEvent
  MaxEvents = 3
  Reserve = 2
  DispatchQueueSize = 1
  MaxSent = 3
  Burst = 1
  MaskChanges = 1
PROPERTY TerminateReturns
