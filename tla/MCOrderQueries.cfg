\* A walk through the list and a Get while three orders of two users appear.
CONSTANTS
  o1 = o1  o2 = o2  o3 = o3  w1 = w1  g1 = g1
  Orders = {o1, o2, o3}
  OrderUser <- ByUser
  Users <- TwoUsers
  Filters <- SomeFilters
  Limits <- SomeLimits
  DefaultLimit = 2
  MaxClock = 3
  Walkers = {w1}
  Getters = {g1}
SYMMETRY SameUser
SPECIFICATION QueriesSpec
INVARIANTS QueriesInv WalksMissNothingOld TotalsAreRecent FoundOrdersHaveItems
CHECK_DEADLOCK FALSE
