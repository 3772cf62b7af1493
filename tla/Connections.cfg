SPECIFICATION MCSpec
CONSTANTS
  Streams <- MCStreams
  Bytes <- MCBytes
  BUFFER_SIZE = 12
  Skip = 2
  CgiStreams <- MCCgiStreams
  CgiRoom = 4
  Clients = {1, 2}
  Askers = {a1, a2}
  NULL = NULL
  MaxFd = 8
  SendResults = {"EFAULT", "sent"}
  MaxSay = 2
  MaxMail = 2
CHECK_DEADLOCK FALSE
INVARIANTS
  AnswerIsVerdict WaitsOnlyIfOpen
  RunsFirstLine
  UnreadHasEvent AbortsOnlyWithoutFds SomeAskerIsServed
PROPERTIES WorkerReturns StopsWhenTold
