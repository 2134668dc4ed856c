CONSTANTS
  Requests = {r1, r2}
  Capacity = 2
  NoRequest = NoRequest
SPECIFICATION Spec
SYMMETRY Symmetry
INVARIANTS
  Owned NotifiedOnce ShutdownIsClean
PROPERTIES ImplementsServiceSafely NoStartDuringRestart
CHECK_DEADLOCK FALSE
