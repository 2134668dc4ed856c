CONSTANTS
  Requests = {r1, r2}
  Capacity = 1
  NoRequest = NoRequest
SPECIFICATION HangingCancelSpec
PROPERTIES ImplementsService EveryStreamCloses
CHECK_DEADLOCK FALSE
