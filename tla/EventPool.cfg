CONSTANTS
  Threads = {t1, t2, t3, t4}
  MaxEvents = 5
  Block = 2
  Unblock = 3
  SemMax = 5
SPECIFICATION Spec
INVARIANTS TypeOK EventsConserved GateReopens
SYMMETRY Symmetry
