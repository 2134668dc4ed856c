CONSTANTS
  r1 = r1 r2 = r2
  Requests = {r1, r2}
  MaxProcs = 2
  KillMayFail = FALSE
  ReaderMayFail = FALSE
  MayStop = FALSE
SPECIFICATION FairSpec
CHECK_DEADLOCK FALSE
PROPERTIES ExecuteReturns
