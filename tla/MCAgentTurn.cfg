SPECIFICATION Spec
CONSTANTS
  p1 = p1
  p2 = p2
  t1 = t1
  t2 = t2
  read = read
  write = write
  Processes = {p1, p2}
  Turns = {t1, t2}
  ReadOnly = {read}
  Mutating = {write}
  Budget <- MCBudget
  Usage <- MCUsage
  MaxStarts = 2
SYMMETRY MCSymmetry
CHECK_DEADLOCK FALSE
INVARIANTS ToolsRunOnce EffectsAreRecovered SucceededIsEarned
