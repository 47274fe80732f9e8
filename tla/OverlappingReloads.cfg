SPECIFICATION Spec
CONSTANTS
  fwd = fwd
  rev = rev
  napcat = napcat
  path = path
  Bots <- MCBots
  Reverse = {rev}
  PathOf <- MCPathOf
  Clients = {napcat}
  DialsFor <- MCDialsFor
  Requests = {r1, r2}
  MaxAttempts = 1
  NoObj = NoObj
  NoLoop = NoLoop
  NoSock = NoSock
  Refused = Refused
INVARIANT NoOrphan
CHECK_DEADLOCK FALSE
