\* Two requests on two pods compete for two rows; clients leave, Kafka fails
\* and pods are killed, PostgreSQL does not fail.
CONSTANTS
  r1 = r1  r2 = r2  r3 = r3  podA = podA  podB = podB
  NoTx = NoTx
  Requests = {r1, r2}
  Garbled = {}
  Pods = {podA, podB}
  Home <- TwoPods
  Products <- TwoProducts
  InitStock <- ScarceStock
  Carts <- PlainCarts
  MaxConns = 1
  MaxCopies = 1
  Faults = {"cancel", "broker", "crash"}
SPECIFICATION FairSpec
PROPERTIES RequestsAnswered LocksReleased OrdersAnnounced
CHECK_DEADLOCK FALSE
