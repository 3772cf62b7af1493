SPECIFICATION Spec
CONSTANTS
  Clients = {c1, c2}
  Timers = {t1, t2}
  NULL = NULL
  MaxFd = 8
  TIMESLOT = 1
  MaxUnread = 1
  MaxTime = 4
  SendResults = {"EFAULT", "sent"}
SYMMETRY Symmetry
CHECK_DEADLOCK FALSE
INVARIANTS TimerPerConnection EventsAreFresh IdleConnectionsClose
PROPERTIES ImplementsSessions
