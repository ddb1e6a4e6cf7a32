SPECIFICATION FairLoginSpec
CONSTANTS
  t1 = t1
  t2 = t2
  Threads = {t1, t2}
  Settings = {1}
  MaxObj = 2
  MaxCalls = 2
  MaxCrashes = 0
PROPERTY ForgetFinishes
CHECK_DEADLOCK FALSE
