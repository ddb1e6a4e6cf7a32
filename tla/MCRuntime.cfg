SPECIFICATION RuntimeSpec
CONSTANTS
  rule1 = rule1
  rule2 = rule2
  key1 = key1
  key2 = key2
  c1 = c1
  c2 = c2
  i1 = i1
  i2 = i2
  p1 = p1
  p2 = p2
  Rules = {rule1, rule2}
  Locks = {key1, key2}
  Needs <- MCNeeds
  Refs = {c1, c2}
  MaxQueue = 2
  ExecCap = 1
  MaxReloads = 1
  MaxArmed = 0
  Id = {i1, i2}
  Panel = {p1, p2}
  Stored <- MCStored
  MaxObj = 4
  MaxRequests = 3
SYMMETRY Swaps
INVARIANTS
  RuntimeTypeOK
  RowsInForce
  NoOrphan
  LocksOwned
  WaitersServed
CHECK_DEADLOCK FALSE
