SPECIFICATION Spec
CONSTANTS
  Clients = {c1}
  Timers = {t1}
  NULL = NULL
  MaxFd = 7
  TIMESLOT = 1
  MaxUnread = 1
  MaxTime = 6
  SendResults = {"EFAULT"}
SYMMETRY Symmetry
CHECK_DEADLOCK FALSE
INVARIANTS HandlerClosesIdle
