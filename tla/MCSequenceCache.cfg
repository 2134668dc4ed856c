CONSTANTS
  c1 = c1 c2 = c2 i1 = i1 i2 = i2 i3 = i3
  Clients = {c1, c2}
  Ids = {i1, i2, i3}
  Keys = {"session", "prefix"}
  KindOf <- Kinds
  Scopes <- TwoScopes
  Sizes = {1, 2}
  ByteBudget = 3
  MaxEntries = 2
  NoId = NoId
SPECIFICATION CacheSpec
SYMMETRY Symmetry
INVARIANTS LeaseProtects CopiesArePrivate IndexExact BudgetExact
