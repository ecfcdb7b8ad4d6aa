\* A request and two imports of three products; clients and importers leave, the pod is killed.
CONSTANTS
  r1 = r1  podA = podA  i1 = i1  i2 = i2
  NoTx = NoTx
  Requests = {r1}
  Garbled = {}
  Pods = {podA}
  Home <- OnePod
  Products <- ThreeProducts
  InitStock <- LittleStock
  Carts <- ImportCarts
  MaxConns = 2
  MaxCopies = 1
  Faults = {"cancel", "crash"}
  Imports = {i1, i2}
  StockFeeds <- TwoFeeds
  BatchSize = 2
SPECIFICATION FairStockSpec
INVARIANTS StockInv CyclesNeedDisorder
  
CHECK_DEADLOCK FALSE
