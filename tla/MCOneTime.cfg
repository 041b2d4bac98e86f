SPECIFICATION Spec
CONSTANTS
  Hired = {u1}
  Email = {e1}
  Key = {k1, k2}
  Worker = {w1, w2, w3}
  Own = Own
  None = None
INVARIANT ShownIsOneTime
CHECK_DEADLOCK FALSE
