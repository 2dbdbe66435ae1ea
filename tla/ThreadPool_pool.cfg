SPECIFICATION FairSpec
CONSTANTS
  Callers = {c, d}
  Workers = {v, w}
  MaxTasks = 3
CHECK_DEADLOCK FALSE
INVARIANT NoEarlyLeave
INVARIANT SleepersCovered
INVARIANT Drained
PROPERTY ImplementsExecutor
PROPERTY CallsReturn
