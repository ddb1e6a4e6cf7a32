SPECIFICATION CommandsSpec
CONSTANTS
  g1 = g1
  g2 = g2
  u1 = u1
  u2 = u2
  d1 = d1
  d2 = d2
  oA = oA
  ctx1 = ctx1
  ctx2 = ctx2
  fld1 = fld1
  fld2 = fld2
  Group = {g1, g2}
  User = {u1, u2}
  Admin <- MCAdmin
  Legacy = {g2}
  MaxSessions = 2
  NCards = 2
  MaxTimes = 2
  MaxCmds = 4
  MaxPanel = 1
  MaxCrashes = 1
  None = None
  Native = {d1, d2}
  Real = {oA}
  RealNumber <- MCRealNumber
  RealNumbers = {1, 2}
  FirstVirtual = 2
  Tables <- MCTables
  MaxIds = 3
  MaxFailures = 1
  Contexts = {ctx1, ctx2}
  Fields = {fld1, fld2}
  MaxCards = 2
  MaxClouds = 2
  MaxEdits = 4
  MaxFaults = 1
  Trees <- MCTrees
  MaxDepth = 8
  MaxDice = 4
  Half = 16
SYMMETRY Swaps
INVARIANTS
  CommandsTypeOK
  Mapped
  DealtOnce
  EndpointsResolve
  PeopleApart
  BaseIsAncestor
  TotalExact
  ReadsBack
PROPERTIES
  EndsOwnOnly
  EditsKept
CHECK_DEADLOCK FALSE
