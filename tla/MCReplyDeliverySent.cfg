SPECIFICATION Spec
CONSTANTS
  Msg <- MCMsg
  Asked <- MCAsked
  Group = {g1}
  NSegs = 2
  DelayCap = 2
  CallbackCap = 1
  AiCap = 1
  MaxNotices = 1
  MaxChanges = 1
  MaxRetries = 1
INVARIANTS
  SentOnce
CHECK_DEADLOCK FALSE
