CONSTANTS
  LastSwitch = 0
  NumPorts <- OneSwitch
  Phys <- Crossed
  MaxEvents = 2
  Block = 1
SPECIFICATION Spec
INVARIANT WaitingIsNotStranded
