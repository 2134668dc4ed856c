CONSTANTS
  a1 = a1 a2 = a2
  Attempts = {a1, a2}
  IdOf <- Ids12
  ScopeOf <- OneScope
  Estimate <- MixedCost
  LowPriority = {a2}
  MaxPending = 2 ShedThreshold = 1 MaxPendingPerScope = 2
  MaxSequences = 2 MaxSequencesPerScope = 2 KvBudget = 3 MaxKvPerScope = 2
  BatchSize = 2 MaxDecodeBurst = 1
  Underestimated = {a2}
SPECIFICATION FairSpec
INVARIANTS NothingForgotten LedgerExact QuotasHold
PROPERTIES TerminalEventIsLast AcceptedInferReturns
CHECK_DEADLOCK FALSE
