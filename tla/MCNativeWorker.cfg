CONSTANTS
  StartMarker <- MCStart
  EndMarker <- MCEnd
  reasoning_budget = 4
  final_budget = 2
  total_budget = 6
  EOG = "EOG"
  TokenBytes <- MCTokenBytes
  Jobs = {j1, j2}
  SampledTokens = {"o", "c", "m", "h", "EOG"}
  prompt_batches = 2
  max_entries = 1
  MaxCancels = 2
SPECIFICATION NativeSpec
INVARIANTS NoLostCancel CancelsOnlyItsJob AnswerIsWhole
PROPERTIES EveryJobAnswered
CHECK_DEADLOCK FALSE
