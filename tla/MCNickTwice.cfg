SPECIFICATION Spec
CONSTANTS
  A = A  B = B  C = C
  a1 = a1  a2 = a2  b1 = b1  c1 = c1
  x = x  y = y
  None = None
  home <- MCHome
  ident <- MCIdent
  hop <- MCHop
  Edges <- MCEdges
  Servers = {A, B}
  Clients = {a1, a2, b1}
  Nicks = {x, y}
  Commands = {"NICK"}
  MaxTime = 2
  MaxCommands = 1
CHECK_DEADLOCK FALSE
INVARIANTS
  OneOwner
