SPECIFICATION FairSpec
CONSTANTS
  first = first
  second = second
  Clients = {first, second}
  Script <- Scripts
  MAX_QUEUED_COMMANDS = 1
  Window = 1
  NoFd = NoFd
  Listener = Listener
INVARIANTS AnswersMatchLines SocketsClosedOnce
PROPERTIES StopReturns QueuedCommandsRun
CHECK_DEADLOCK FALSE
