SPECIFICATION Spec
CONSTANTS
  Clients = {c1}
  Timers = {t1}
  NULL = NULL
  MaxFd = 7
  TIMESLOT = 1
  MaxUnread = 2
  MaxTime = 3
  SendResults = {"EFAULT"}
SYMMETRY Symmetry
CHECK_DEADLOCK FALSE
INVARIANTS UnreadHasEvent
