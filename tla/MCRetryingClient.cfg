SPECIFICATION ClientSpec
CONSTANTS
  Worker <- Requests
  Key = {tab1, tab2, create}
  Gated = {tab1, tab2}
  Body = {b1, b2}
  Kept = {}
  None = None
  MaxRounds = 2
  MaxAttempts = 2
SYMMETRY Symmetry
CHECK_DEADLOCK FALSE
INVARIANT ClientTypeOK EffectsRecorded AnswersAreTrue OncePerRound HeldWhileOpen ToldMeansDone
PROPERTY ImplementsOnceOnly
