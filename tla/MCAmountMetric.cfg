\* What the help text of the amount metric says, with clients that leave.
CONSTANTS
  r1 = r1  r2 = r2  r3 = r3  podA = podA  podB = podB
  NoTx = NoTx
  Requests = {r1, r2}
  Garbled = {}
  Pods = {podA, podB}
  Home <- TwoPods
  Products <- TwoProducts
  InitStock <- ScarceStock
  Carts <- PlainCarts
  MaxConns = 1
  MaxCopies = 2
  Faults = {"cancel"}
SPECIFICATION Spec
INVARIANT AmountCoversEveryOrder
CHECK_DEADLOCK FALSE
