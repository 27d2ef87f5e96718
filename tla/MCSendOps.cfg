\* Notices to operators while a message to many is being sent.
SPECIFICATION SendSpec
CONSTANTS
  o1 = o1  u1 = u1  s1 = s1
  None = None
  Clients = {}
  Nicks = {}
  MaxClock = 0
  Users = {o1, u1}
  Server = s1
  OperList <- MCOperList
  SmallBuf = 2  LargeBuf = 3  MaxSendQ = 1  UserSlack = 1  ServerSlack = 1
  Messages <- MCMessages
  MaxBufs = 3
INVARIANT OpsOnly
CHECK_DEADLOCK FALSE
