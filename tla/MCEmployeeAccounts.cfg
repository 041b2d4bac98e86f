SPECIFICATION FairSpec
CONSTANTS
  Hired = {u1}
  Email = {e1}
  Key = {k1, k2}
  Worker = {w1, w2, w3}
  Own = Own
  None = None
INVARIANTS
  TypeOK
  ShownIsAudited
  OneResetPerKey
  HiresAreWhole
  OneTimeUnlessOvertaken
PROPERTIES
  CommittedResetIsLive
  UncontestedChangeHolds
  RequestsEnd
CHECK_DEADLOCK FALSE
