SPECIFICATION LiveSpec
CONSTANTS
  Conn = {c1, c2}
  c1 = c1
  c2 = c2
  Host = {h1}
  Key = {k1, k2}
  Uses <- EveryUse
  Headers <- SomeHeaders
  Traffic <- SomeTraffic
  Recheck = 2
  CheckTime = 1
  Probes = {p1, p2}
  MaxMoves = 4
  None = none
INVARIANTS VerdictIsRecent OneAnswerOneEnd
PROPERTIES CheckSettles
CHECK_DEADLOCK FALSE
