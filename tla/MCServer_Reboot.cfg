SPECIFICATION FairSpec
CONSTANTS
  p1 = p1
  p2 = p2
  p3 = p3
  o1 = o1
  o2 = o2
  None = None
  Pids = {p1, p2}
  Strangers = {p1, p2}
  Ops = {o1}
  MaxLaunches = 1
  MaxStarts = 2
  MaxBoots = 2
CHECK_DEADLOCK FALSE
INVARIANTS SignalsItsOwnServer
PROPERTIES LockIsReleased
