SPECIFICATION Spec
CONSTANTS
  p = p
  q = q
  i1 = i1
  np = np
  Sessions = {p}
  Players = {p}
  Ips = {i1, i2}
  i2 = i2
  Nicks = {np}
  None = None
  NickOf <- MCNickOf
  HomeOf <- MCHomeOf
  Admit = 5
  Grace = 1
  GraceMemory = 2
  KickTime = 1
  Epoch = 2
  Minute = 3
  PerMinute = 1
  MaxTime = 7
  Retry = 1
  LongWait = 5
  PassTime = 1
  MaxFails = 1
  Events = {"restart"}
  MaxEvents = 1
INVARIANTS VerifiedIsTaken
CHECK_DEADLOCK FALSE
