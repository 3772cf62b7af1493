SPECIFICATION MCSpec
CONSTANTS
  Timers = {t1, t2, t3}
  NULL = NULL
  N = 3
  Timeouts <- MCTimeouts
SYMMETRY Symmetry
INVARIANTS Punctual SlotsMatch WellLinked
PROPERTIES ImplementsTimeWheel
