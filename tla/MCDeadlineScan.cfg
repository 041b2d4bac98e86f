SPECIFICATION FairSpec
CONSTANTS
  Task = {t1}
  Owner = {o1}
  Employee = {e1, e2}
  Poll = {p1, p2}
  Deadline = {2}
  MaxNow = 3
  None = None
CHECK_DEADLOCK FALSE
INVARIANT TypeOK NotifiedOnce NeverEarly EntriesAreOpen
PROPERTY ImplementsTellOnce EveryDueNotified
