SPECIFICATION Spec
CONSTANTS
  PoolThreads = {t1, t2}
  Objects = {x1, x2, x3}
  PoolSize = 1
  NoticeThreads = {t1, t2}
  Tags = {x1, x2}
  MaxDispatchers = 3
  UdpPollers = {r1, r2}
  Peers = {x1, x2}
  MaxDatagrams = 3
  MaxQueue = 1
  MaxSessions = 3
  ReadPoller = p1
  ReadCallers = {c1}
  MaxArrivals = 2
  MaxCalls = 2
  UtilThreads = {t1, t2}
  Fds = {1, 2}
  Expire = 1
  MaxLag = 1
  SupportV6 = FALSE
  Names = {"wlan0", "en0", "docker0"}
  Default = "en0"
  Docker = {"docker0"}
  Loopback = 0
  Wildcard = 1
  Addresses = {0, 4, 6}
  Private = {4}
  Masks = {2, 4}
  MaxAdapters = 2
  MaxChanges = 1
  Statements = {1, 2}
  TryCnt = 3
  MaxAttempts = 5
  Base = 2
  MaxCount = 2
  MaxDays = 2
  DayTicks = 3
  LogTicks = 7
  Lag = 1
  Milli = 2
  Limit = 4
  MaxReal = 9
  MaxSet = 1
  CertNames <- MCCertNames
  Hosts <- MCHosts
  MaxLoads = 3
  FileThreads = {t1, t2}
  DirNames = {"a"}
  FileNames = {".x"}
  Hidden = {".x"}
  MaxDepth = 2
  MaxFileCalls = 2
  p1 = p1
  r1 = r1
  r2 = r2
  t1 = t1
  t2 = t2
  x1 = x1
  x2 = x2
  l1 = l1
  q1 = q1
  f1 = f1
SYMMETRY Symmetry
INVARIANT TriesBounded
CHECK_DEADLOCK FALSE
