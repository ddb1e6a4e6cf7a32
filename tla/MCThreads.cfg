SPECIFICATION ThreadsSpec
CONSTANTS
  a1 = a1
  a2 = a2
  u1 = u1
  u2 = u2
  r1 = r1
  r2 = r2
  t1 = t1
  t2 = t2
  Rule = {r1, r2}
  User = {u1, u2}
  Adapter = {a1, a2}
  Panel = {p1}
  Serves <- MCServes
  Row <- MCRow
  Stored <- MCStored
  Cool = 2
  MaxClock = 2
  MaxMsgs = 2
  MaxEdits = 1
  NoRow = NoRow
  Never = Never
  Sockets = {1, 2}
  MaxStops = 1
  MaxPending = 1
  Threads = {t1, t2}
  Settings = {1, 2}
  MaxObj = 3
  MaxCalls = 4
  MaxCrashes = 1
SYMMETRY Swaps
INVARIANTS
  ThreadsTypeOK
  CountersExact
  LimitHeld
  SnapshotSettles
  OneSession
  FlagsTrue
  OneLogin
PROPERTIES
  Spaced
CHECK_DEADLOCK FALSE
