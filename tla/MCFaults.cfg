\* Two requests on two pods, and a garbled one; clients leave, statements fail,
\* Kafka fails and pods are killed at every step.
CONSTANTS
  r1 = r1  r2 = r2  r3 = r3  podA = podA  podB = podB
  NoTx = NoTx
  Requests = {r1, r2, r3}
  Garbled = {r3}
  Pods = {podA, podB}
  Home <- TwoPods
  Products <- TwoProducts
  InitStock <- ScarceStock
  Carts <- PlainCarts
  MaxConns = 1
  MaxCopies = 2
  Faults = {"cancel", "db", "broker", "crash"}
SPECIFICATION Spec
INVARIANTS IndInv NoPhantomEvent
PROPERTY LedgerSpec
CHECK_DEADLOCK FALSE
