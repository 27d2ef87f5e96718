\* K-lines across restarts: no file operation fails and no configuration is
\* rejected.
SPECIFICATION KlinesSpec
CONSTANTS
  c1 = c1  m1 = m1  m2 = m2
  None = None
  Clients = {c1}
  Nicks = {}
  MaxClock = 0
  Visitors = {c1}
  BanMasks = {m1, m2}
  IpMasks = {m1}
  hits <- MCHits
  Kinds = {}
  BanTimes = {0, 1, 2}
  MaxBans = 2  MaxToday = 2
  ConfMasks = {{}}
  MinStore = 2  Threshold = 1  MaxLines = 2
  Failures = {}
  BadConf = FALSE
PROPERTY KlinesKept
CHECK_DEADLOCK FALSE
