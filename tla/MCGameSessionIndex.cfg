SPECIFICATION GameSpec
CONSTANTS
  g1 = g1
  g2 = g2
  u1 = u1
  u2 = u2
  Group = {g1, g2}
  User = {u1, u2}
  Admin <- MCAdmin
  Legacy = {g2}
  MaxSessions = 2
  NCards = 2
  MaxTimes = 2
  MaxCmds = 2
  MaxPanel = 1
  MaxCrashes = 0
  None = None
INVARIANT Joinable
CHECK_DEADLOCK FALSE
