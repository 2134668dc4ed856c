CONSTANTS
  max_sequences = 2
  token_capacity = 8
  GenerationModulus = 8
  Requests = {r1, r2, r3, r4}
  HandleShift = 8
  released_handle_capacity = 1
  MaxStarts = 3
  MaxFaults = 2
SPECIFICATION Spec
INVARIANTS OutcomeIsOwn NoLeakedSequence
SYMMETRY MCSymmetry
CHECK_DEADLOCK FALSE
