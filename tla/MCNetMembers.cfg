\* Three servers in a line, with KICK and +o: everyone sees every
\* member, and without one there is one member list.
CONSTANTS
  u1 = u1  u2 = u2  u3 = u3
  Nodes <- Three
  Users = {u1, u2, u3}
  home <- ThreeHome
  hop <- ThreeHop
  Edges <- ThreeEdges
  Letters = {}
  MaxLimit = 0  MaxKey = 0  MaxNum = 0
  Commands = {"JOIN", "PART", "KICK", "OP"}
  MaxTime = 2
  MaxCommands = 4
  MaxSplits = 1
SPECIFICATION Spec
CHECK_DEADLOCK FALSE
INVARIANTS MembersRight
