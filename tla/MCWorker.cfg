CONSTANTS
  r1 = r1 r2 = r2
  Requests = {r1, r2}
  MaxProcs = 2
  KillMayFail = TRUE
  ReaderMayFail = TRUE
  MayStop = TRUE
SPECIFICATION Spec
CHECK_DEADLOCK FALSE
SYMMETRY Symmetry
INVARIANTS SupervisorCoherent NobodyWaitsInVain
PROPERTIES GenerationsApart
