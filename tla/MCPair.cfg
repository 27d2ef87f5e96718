SPECIFICATION PairSpec
CONSTANTS
  A = A  B = B  C = C
  a1 = a1  a2 = a2  b1 = b1  c1 = c1
  x = x  y = y
  None = None
  home <- MCHome
  ident <- MCIdent
  hop <- MCHop
  Edges <- MCEdges
  Servers = {A, B}
  Clients = {a1, a2, b1}
  Nicks = {x, y}
  Commands = {"RENICK", "NICK", "SVSNICK", "QUIT", "KILL"}
  MaxTime = 2
  MaxCommands = 2
\* A read is of up to three characters; a line is two.
  ZipMax = 5  ZipInBuf = 2  MaxData = 1  MaxRead = 3
\* One user who may become either kind of operator.
  o1 = o1  o2 = o2  Nobody = Nobody
  Chatters = {a1}
  OperBlocks = {o1, o2}
  opflags <- MCOpflags
  MaxSteps = 4
CHECK_DEADLOCK FALSE
INVARIANTS
  NickTables
  NicksAgree
  LinkTransparent
  OperTables UmodesAgree
PROPERTIES Settles LinkUp
