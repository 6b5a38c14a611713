SPECIFICATION FairSpec
CONSTANTS
  t1 = t1
  t2 = t2
  b = b
  Threads = {t1, t2}
  Boards = {b}
  MaxEvents = 1
  MaxRuns = 3
  MaxErrors = 1
INVARIANTS
  SessionSafety
  UpToDate
PROPERTIES
  NotHeldBack
CHECK_DEADLOCK FALSE
