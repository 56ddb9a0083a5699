SPECIFICATION Spec
CONSTANTS
  Conn = {c1, c2}
  c1 = c1
  c2 = c2
  Host = {h1}
  Key = {k1, k2}
  Uses <- OnlyTunnels
  Headers <- SomeHeaders
  Traffic <- SomeTraffic
  Recheck = 1
  CheckTime = 1
  Probes = {p1, p2}
  MaxMoves = 0
  None = none
INVARIANTS LeavesArePairs
CHECK_DEADLOCK FALSE
