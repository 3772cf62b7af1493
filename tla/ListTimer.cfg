SPECIFICATION Spec
CONSTANTS
  Timers = {t1, t2, t3, t4}
  NULL = NULL
  Delays = {1, 2}
  MaxTime = 2
INVARIANTS WellFormed SortedAscending
PROPERTIES FreedOnRemoval ImplementsTimerQueue
SYMMETRY Symmetry
CHECK_DEADLOCK FALSE
