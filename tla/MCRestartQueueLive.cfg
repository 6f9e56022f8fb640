SPECIFICATION FairSpec
CONSTANTS
  o1 = o1
  r1 = r1
  r2 = r2
  t1 = t1
  t2 = t2
  c1 = c1
  w1 = w1
  w2 = w2
  none = none
  Owner = {o1}
  Request = {r1}
  Target = {t1}
  Client = {c1}
  Watcher = {w1, w2}
  NoOne = none
  MaxTurns = 2
  MaxClaim = 2
  MaxHost = 2
  MaxHolds = 1
  MaxFaults = 0
  MaxUpsets = 1
CHECK_DEADLOCK FALSE
PROPERTY PendingIsTakenUp
