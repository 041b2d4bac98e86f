SPECIFICATION FairSpec
CONSTANTS
  u1 = u1
  u2 = u2
  f1 = f1
  f2 = f2
  User = {u1, u2}
  Firm = {f1, f2}
  FirmOf <- TwoFirms
  Update = {a1, a2}
  Fetch = {q1}
  None = None
INVARIANTS
  TypeOK
  CacheIsOwnUnlessReplaced
PROPERTY StalePageRecovers
CHECK_DEADLOCK FALSE
