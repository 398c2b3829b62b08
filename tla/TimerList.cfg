SPECIFICATION Spec
CONSTANTS
  Timers = {t1, t2, t3}
  W = 16
  Delays = {0, 1, 3}
  MaxLate = 1
INVARIANTS
  InOrder
  NotTooLate
PROPERTIES
  NeverEarly
  TimersLeave
