\* Two pods start together, serve, are stopped in time or late, and restart.
CONSTANTS
  r1 = r1  r2 = r2  podA = podA  podB = podB
  NoTx = NoTx
  Requests = {r1, r2}
  Garbled = {}
  Pods = {podA, podB}
  Home <- TwoPods
  Products <- TwoProducts
  InitStock <- ScarceStock
  Carts <- OpposedCarts
  MaxConns = 1
  MaxCopies = 1
  Faults = {}
  FailureThreshold = 2
  MaxStops = 2
SPECIFICATION FairLifeSpec
INVARIANTS  TimelyStopsLoseNothing LockedPodsDoNotWait
PROPERTIES PodsComeUp PodsStop
CHECK_DEADLOCK FALSE
