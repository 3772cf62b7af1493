SPECIFICATION MCSpec
CONSTANTS
  Clients = {c1, c2, c3, c4}
  NULL = NULL
  MaxFd = 7
  clilen = 6
  ForkFails = TRUE
  BUFSIZE = 3
  Capacity = 6
  PIPE_BUF = 2
  MaxTyped = 24
  Runs = {1, 2, 3}
  loop = 3
  MaxLines = 3
  NumThreads = 4
  CreationFails = TRUE
  MaxSpurious = 1
CHECK_DEADLOCK FALSE
INVARIANTS
  ZombiesHaveSignal LeakBounded
  NeverBothWait LagBounded
  QueueIsExclusive FinalValue ReturnsComplete
  CountsMatch NeverStuck AllJoinedAtExit
PROPERTIES ServedAndReaped RunsEnd ServerIsHeard Termination
