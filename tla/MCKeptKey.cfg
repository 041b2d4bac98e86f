SPECIFICATION ClientSpec
CONSTANTS
  Worker <- TwoRequests
  Key = {tab1}
  Gated = {tab1}
  Body = {b1}
  Kept = {tab1}
  None = None
  MaxRounds = 2
  MaxAttempts = 2
CHECK_DEADLOCK FALSE
INVARIANT ToldMeansDone
