SPECIFICATION LiveSpec
CONSTANTS
  Gateway = {g1, g2}
  User = {u1, u2}
  Team = {t1, t2}
  g1 = g1
  g2 = g2
  u1 = u1
  u2 = u2
  t1 = t1
  t2 = t2
  Command = {c1}
  Poller = poller
  None = none
  Op <- Ops
  Settings <- SavedSettings
  Exchanging = {g1}
  Environments = {g1, g2}
  k1 = k1
  k2 = k2
  Devices <- StartBrokers
  Listed <- FirstLists
  MaxMoves = 2
INVARIANTS ShownIsTheirOwn
CHECK_DEADLOCK FALSE
PROPERTIES PollCatchesUp
