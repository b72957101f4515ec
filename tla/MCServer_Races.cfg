SPECIFICATION Spec
CONSTANTS
  p1 = p1
  p2 = p2
  p3 = p3
  o1 = o1
  o2 = o2
  None = None
  Pids = {p1, p2, p3}
  Strangers = {}
  Ops = {o1, o2}
  MaxLaunches = 2
  MaxStarts = 1
  MaxBoots = 1
CHECK_DEADLOCK FALSE
SYMMETRY Symmetry
INVARIANTS ReadyServerStaysOwned
PROPERTIES CompleteMeansGone RunfileMovesForward TakesOverDeadServers
