SPECIFICATION ThreeSpec
CONSTANTS
  A = A  B = B  C = C
  a1 = a1  a2 = a2  b1 = b1  c1 = c1
  x = x  y = y
  None = None
  home <- MCHome
  ident <- MCIdent
  hop <- MCHop
  Edges <- MCEdges
  Servers = {A, B, C}
  Clients = {a1, b1, c1}
  Nicks = {x, y}
  Commands = {"NICK", "SVSNICK", "QUIT", "KILL"}
  MaxTime = 3
  MaxCommands = 4
\* The tree: one link is lost or squitted.
  NoServer = NoServer
  Nodes = {A, B, C}
  Hubs = {A, B, C}
  Routes <- MCRoutes
  Negotiate <- MCNegotiate
  MaxConns = 3  MaxTroubles = 1  MaxMade = 0  MaxAccepted = 1
CHECK_DEADLOCK FALSE
INVARIANTS OneOwner Chased TreeAgrees
PROPERTIES TreeCalms
