SPECIFICATION FairSpec
CONSTANTS
  r1 = r1
  r2 = r2
  f1 = f1
  f2 = f2
  Conn = {c1}
  Request = {r1, r2}
  FirmOf <- TwoFirms
  Prober = {p1, p2}
  Firm = {f1, f2}
  None = None
  Threads = 1
  Check = {k1}
  Ttl = 2
  Timeout = 1
INVARIANTS
  TypeOK
  StatementsSeeTenant
  OneProbeInFlight
PROPERTIES
  ReadyIsFresh
  EveryRequestAnswered
CHECK_DEADLOCK FALSE
