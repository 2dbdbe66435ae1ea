SPECIFICATION Spec
CONSTANTS
  Tasks = {t1, t2}
  MaxDelay = 2
  MaxLag = 2
  ZeroInside = FALSE
  MaxAttempts = 2
  Pollers = {p1, p2}
  Main = p1
  Conns = {c1, c2}
  Callers = {c1}
  Poller = p1
  Capacity = 1
  MaxSends = 3
  Loops = {p1, p2, p3}
  Outside = {c1}
  Probe = probe
  Nobody = nobody
  MaxSyncs = 3
INVARIANT SleepCovers
INVARIANT ConnectRight
INVARIANT ServerRight
INVARIANT SendConserves
PROPERTY DelayedRuns
PROPERTY Answered
PROPERTY Ends
PROPERTY SendEnds
PROPERTY SyncEnds
CHECK_DEADLOCK FALSE
