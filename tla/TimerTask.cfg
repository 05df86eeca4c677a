CONSTANTS
  Timers = {t1, t2}
  NoTimer = NoTimer
  Modes <- BothModes
  Period = 1
  Timeouts = {1, 2}
  Repetitions <- Twice
  MaxTime = 2
SPECIFICATION Spec
CHECK_DEADLOCK FALSE
INVARIANTS TypeOK ActiveListCoherent NoOversleep NoDrift
PROPERTIES ServedWhenDue ImplementsAlarmClock
