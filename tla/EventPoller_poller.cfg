SPECIFICATION FairSpec
CONSTANTS
  NoSock = NoSock
  Callers = {c, d}
  Socks = {s, r}
  Fds = {1, 2}
  MaxTasks = 2
  PipeSize = 2
CHECK_DEADLOCK FALSE
INVARIANT WakeupPending
INVARIANT KernelAgrees
INVARIANT FreshCallback
INVARIANT OnlyOvertakenStay
PROPERTY ImplementsExecutor
PROPERTY EveryTaskRuns
PROPERTY ShutdownEnds
