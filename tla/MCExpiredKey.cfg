SPECIFICATION Spec
CONSTANTS
  Worker = {w1, w2}
  Key = {create}
  Gated = {}
  Body = {b1}
  None = None
  MaxRounds = 1
CHECK_DEADLOCK FALSE
PROPERTY ExpiredKeyIsNewRequest
