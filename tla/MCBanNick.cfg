\* Without services: may a client leave its ban behind by a new nick?
CONSTANTS
  n1 = n1  n2 = n2  h1 = h1  h2 = h2  a = a
  None = None
  Clients = {a}
  Members = {a}
  Nicks = {n1, n2}
  MaxClock = 0
  Hosts = {h1, h2}
  Masks <- MCMasks
  FullMasks <- MCFullMasks
  LocalSetters = {TRUE, FALSE}
  MAXBANS = 2
  MaxSerial = 4
  Services = FALSE
SPECIFICATION BanSpec
PROPERTIES NickChangeNotBanned
