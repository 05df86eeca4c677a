CONSTANTS
  Events = {e1, e2, e3, e4}
  NoEvent = NoEvent
  Senders = {s1, s2}
  MaxSize = 2
  Timeouts = {"FM_WAIT_FOREVER", "zero", "timed"}
SPECIFICATION Spec
INVARIANTS TypeOK QueueCoherent OneOwner NoLostWakeup
PROPERTY ImplementsChannel
