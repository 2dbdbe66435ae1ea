SPECIFICATION Spec
CONSTANTS
  NoSock = NoSock
  Callers = {c, d}
  Socks = {s}
  Fds = {1}
  MaxTasks = 1
  PipeSize = 1
CHECK_DEADLOCK FALSE
INVARIANT ReleasedIsClosed
