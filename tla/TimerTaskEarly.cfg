CONSTANTS
  Timers = {t1}
  NoTimer = NoTimer
  Modes <- EventDrivenOnly
  Period = 2
  Timeouts = {1, 2}
  Repetitions <- Twice
  MaxTime = 2
SPECIFICATION Spec
CHECK_DEADLOCK FALSE
INVARIANT CallbackAtEndOfRepetition
