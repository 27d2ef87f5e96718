SPECIFICATION ServerSpec
CONSTANTS
  c1 = c1  c2 = c2  c3 = c3  n1 = n1  n2 = n2  h1 = h1  h2 = h2
  b1 = b1  dflt = dflt  k1 = k1  m1 = m1  m2 = m2  o1 = o1  u1 = u1  s1 = s1  t1 = t1
  None = None
  Clients = {c1, c2, c3}
  Nicks = {n1, n2}
  MaxClock = 1
\* BanCache
  Members = {c1}
  Hosts = {h1, h2}
  Masks <- MCMasks
  FullMasks <- MCFullMasks
  LocalSetters = {TRUE, FALSE}
  MAXBANS = 2
  MaxSerial = 4
  Services = TRUE
\* BurstMerge
  Letters = {"i"}
  MaxLimit = 1
  MaxKey = 2
  MaxNum = 2
  Servers = {1, 2, 3}
  StartTS = {0, 1, 2}
  StartModes <- MCStartModes
\* ConfRehash
  Links = {c1, c2}
  ClassNames = {dflt, k1}
  Default = dflt
  MaxLinks <- MCMaxLinks
  Connects = {b1}
  AllowMasks = {m1}
  Opers = {o1}
  Files <- MCFiles
  Negotiate = TRUE
  MaxRefs = 4
\* SendQueue
  Users = {o1, u1}
  Server = s1
  OperList <- MCOperList
  SmallBuf = 2  LargeBuf = 3  MaxSendQ = 1  UserSlack = 1  ServerSlack = 1
  Messages <- MCMessages
  MaxBufs = 2
\* Throttle and Clones
  Addrs = {h1, h2}
  Busy = {h1}
  TrigCount = 2  TrigTime = 2  RecordTime = 5
  ZlineTime <- MCZlineTime
  MaxNow = 8  MaxConns = 2
  Sites = {t1}
  siteOf <- MCSiteOf
  LocalLimit = 1  LocalSite = 2  GlobalLimit = 2  GlobalSite = 3
  ClassLimits = {0, 2}  ClassSites = {0}
  Settable <- MCSettable
  MaxStray = 1
\* Klines
  Visitors = {c1}
  BanMasks = {m1, m2}
  IpMasks = {m2}
  hits <- MCHits
  Kinds = {"akill", "gline", "shun"}
  BanTimes = {0, 2}
  MaxBans = 2  MaxToday = 2
  ConfMasks <- MCConfMasks
  MinStore = 2  Threshold = 1  MaxLines = 2
  Failures = {"create", "rename"}
  BadConf = TRUE
\* SignOn: the times keep their order
  Comers = {c1}
  ConnectTimeout = 3  UnknownTime = 9  PingFreq = 4  CheckEvery = 2
INVARIANTS
  CacheSound
  MergeLaws
  ConfRight
  SendqRight
  ThrottleHolds
  ClonesRight
  SignOnRight
  BansHold JournalFaithful
PROPERTIES BurstAgrees Timely
CHECK_DEADLOCK FALSE
