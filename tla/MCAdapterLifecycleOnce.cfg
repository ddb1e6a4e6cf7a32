SPECIFICATION AdaptersSpec
CONSTANTS
  i1 = i1
  i2 = i2
  p1 = p1
  p2 = p2
  Id = {i1, i2}
  Panel = {p1}
  Stored <- MCStored
  MaxObj = 2
  MaxRequests = 1
INVARIANTS
  StartedOnce
CHECK_DEADLOCK FALSE
