SPECIFICATION MCSpec
\* Channel: two local clients and one remote one on one channel: authority.
CONSTANTS
  a = a  b = b  r = r  x = x
  LocalUsers = {a, b}
  RemoteUsers = {r}
  Channels = {x}
  Srv = Srv
  NoChan = NoChan
  Opers = {b}
  SAdmins = {b}
  ULines = {}
  maxchannelsperuser = 1
  MAXMODEPARAMSUSER = 2
  MaxServerParams = 2
  MaxKick = 2
  ModeLetters <- MCStatusLetters
  MaxTS = 2
  MaxLimit = 1
  SplitOpOk = FALSE
\* Message
  None = None
  c1 = c1  c2 = c2  c3 = c3  c4 = c4  u1 = u1  k1 = k1
  Clients = {c1, c2, c3, c4, u1}
  Nicks = {}
  MaxClock = 0
  Chans = {k1}
  Near = {c1, c2}
  ULined = {u1}
  TargetMin = 1  TargetMax = 2  TargetTime = 1  TargetYoung = 1
  FludNum = 1  FludTime = 1  FludBlock = 2
  Speakers = {c1, c2}
  Lists <- MCLists
  Leavers = {c2}
  Opering = {c1}
  MaxLives = 1
  MaxSeconds = 3
  MaxMessages = 3
INVARIANTS ChannelTables FludRight TargetsBounded
PROPERTIES RankRespected OpProvenance
CHECK_DEADLOCK FALSE
