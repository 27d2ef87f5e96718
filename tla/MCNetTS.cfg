\* Two servers: the timestamps of the copies after a channel is re-created.
CONSTANTS
  u1 = u1  u2 = u2  u3 = u3
  Nodes <- Two
  Users = {u1, u2}
  home <- TwoHome
  hop <- TwoHop
  Edges <- TwoEdges
  Letters = {}
  MaxLimit = 0  MaxKey = 0  MaxNum = 0
  Commands = {"JOIN", "PART"}
  MaxTime = 2
  MaxCommands = 3
  MaxSplits = 0
SPECIFICATION Spec
CHECK_DEADLOCK FALSE
INVARIANTS SmallerTSWins
