CONSTANTS
  MaxEvents = 2
  MaxBytes = 3
  Sizes = {1, 2}
  MaxFrames = 4
SPECIFICATION FairSpec
CHECK_DEADLOCK FALSE
INVARIANTS Accounted NothingMissing
PROPERTY StreamEnds
