SPECIFICATION TablesSpec
CONSTANTS
  None = None  Unhashed = Unhashed
  c1 = c1  c2 = c2  c3 = c3  n1 = n1  n2 = n2  n3 = n3  k1 = k1  k2 = k2
  Clients = {c1, c2, c3}
  Nicks = {n1, n2, n3}
  MaxClock = 1
\* Whowas
  HistoryLength = 2
  hashOf <- MCHashOf
\* Watch
  Watchers = {c1, c2}
  MaxWatch = 1
\* DccAllow
  Operators = {c2}
  MaxDccAllow = 1
\* Channel: two local clients and one remote one on two channels; c2 is
\* an IRC operator.
  LocalUsers = {c1, c2}
  RemoteUsers = {c3}
  Channels = {k1, k2}
  Srv = Srv
  NoChan = NoChan
  Opers = {c2}
  SAdmins = {}
  ULines = {}
  maxchannelsperuser = 1
  MAXMODEPARAMSUSER = 1
  MaxServerParams = 1
  MaxKick = 1
  ModeLetters = {"i"}
  MaxTS = 1
  MaxLimit = 1
  SplitOpOk = FALSE
\* Hooks: two modules; a hook may end a client while another is called.
  d1 = d1  d2 = d2  g1 = g1  g2 = g2  g3 = g3
  Mods = {d1, d2}
  HookIds = {g1, g2, g3}
  NoHook = NoHook
  MaxDepth = 2
INVARIANTS
  HooksRight
  WhowasRight 
  WatchRight 
  DccMirror
  Invitations
PROPERTIES ImplementsHistory
CHECK_DEADLOCK FALSE
