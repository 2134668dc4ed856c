CONSTANTS
  c1 = c1 c2 = c2 c3 = c3 i1 = i1
  Calls = {c1, c2, c3}
  Routed = {c1, c2}
  Admins = {admin}
  Ids = {i1}
  IdOf <- MCIdOf
  Backends = {"m", "n", "s", "p"}
  NoBackend = "-"
  NoCall = NoCall
  Rank <- MCRank
  Serves <- MCServes
  Kind <- MCKind
  Capacity <- MCCapacity
  Local = {"n"}
SPECIFICATION Spec
INVARIANTS LeasesExact TablesExact NothingLeftRunning NobodySleepsInVain
CHECK_DEADLOCK FALSE
