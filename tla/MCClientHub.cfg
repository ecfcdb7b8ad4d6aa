\* Two clients send two orders each for the last two units; the service may
\* fail, be late or be silent.
CONSTANTS
  c1 = c1  c2 = c2
  Clients = {c1, c2}
  OrdersCount = 2
  MaxItems = 4
  Products <- TwoProducts
  InitStock <- LittleStock
  Carts <- MakeCart
SPECIFICATION FairSpec
INVARIANTS HubInv ReportBoundsOrders RefusedOnlyWhenStale
PROPERTY HubEnds
CHECK_DEADLOCK FALSE
