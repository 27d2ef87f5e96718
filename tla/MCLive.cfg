\* Two servers, every command: the copies agree when nothing crossed.
CONSTANTS
  u1 = u1  u2 = u2  u3 = u3
  Nodes <- Two
  Users = {u1, u2}
  home <- TwoHome
  hop <- TwoHop
  Edges <- TwoEdges
  Letters = {"m"}
  MaxLimit = 0  MaxKey = 0  MaxNum = 0
  Commands = {"JOIN", "PART", "KICK", "OP", "FLAG"}
  MaxTime = 2
  MaxCommands = 4
  MaxSplits = 1
\* A client and a connect block that look up names, with room for one answer
\* in the cache.
  c1 = c1  c2 = c2  b1 = b1  i1 = i1  i2 = i2  i3 = i3
  None = None
  Clients = {c1, c2}
  Nicks = {}
  MaxClock = 0
  Callers = {c1}
  Confs = {b1}
  addr <- MCAddr
  QueryIds = {i1, i2, i3}
  Retries = 2  ResRetry = 1  MaxCached = 1  MaxRequests = 2  MaxAsked = 1
\* Clients that are one line ahead of the time wait.
  MaxLine = 2  BufSize = 1  Block = 2  FloodLimit = 1  RecvqLimit = 1  Ahead = 1  Cost = 1  MaxHanded = 5
SPECIFICATION LiveSpec
CHECK_DEADLOCK FALSE
INVARIANTS
  Converges
  LookupRight
  RecvqRight
PROPERTIES Settles DNSEnds LinesServed
