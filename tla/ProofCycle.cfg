SPECIFICATION Spec
CONSTANTS
  p = p
  q = q
  i1 = i1
  np = np
  Sessions = {p, q}
  Players = {p}
  Ips = {i1, i2}
  i2 = i2
  Nicks = {np}
  None = None
  NickOf <- MCNickOf
  HomeOf <- MCHomeOf
  Admit = 3
  Grace = 1
  GraceMemory = 1
  KickTime = 1
  Epoch = 2
  Minute = 2
  PerMinute = 1
  MaxTime = 5
  Retry = 1
  LongWait = 3
  PassTime = 0
  MaxFails = 1
  Events = {"move", "command", "restart", "identity"}
  MaxEvents = 1
INVARIANTS CycleTypeOK AdmissionsFresh ProvedStaysIn KickHolds OneGrace
CHECK_DEADLOCK FALSE
