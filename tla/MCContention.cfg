\* Three requests of one pod share two connections and compete for two rows,
\* with carts the service can and cannot serve; nothing fails.
CONSTANTS
  r1 = r1  r2 = r2  r3 = r3  podA = podA  podB = podB
  NoTx = NoTx
  Requests = {r1, r2, r3}
  Garbled = {}
  Pods = {podA}
  Home <- OnePod
  Products <- TwoProducts
  InitStock <- ScarceStock
  Carts <- AllCarts
  MaxConns = 2
  MaxCopies = 1
  Faults = {}
SPECIFICATION FairSpec
INVARIANTS StockAddsUp NoOversell  CyclesNeedUnsortedCarts
PROPERTIES LedgerSpec RequestsAnswered
CHECK_DEADLOCK FALSE
