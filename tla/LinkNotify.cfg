CONSTANTS
  LastSwitch = 1
  NumPorts <- TwoAndOne
  Phys <- Crossed
  MaxEvents = 2
  Block = 1
SPECIFICATION Spec
INVARIANTS TypeOK RetryOwed
