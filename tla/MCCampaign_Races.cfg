SPECIFICATION Spec
CONSTANTS
  c1 = c1
  c2 = c2
  t1 = t1
  t2 = t2
  t3 = t3
  k1 = k1
  k2 = k2
  k3 = k3
  k4 = k4
  k5 = k5
  k6 = k6
  k7 = k7
  kid1 = kid1
  kid2 = kid2
  Nil = Nil
  Clients = {c1, c2}
  Tasks = {t1, t2, t3}
  Children = {kid1, kid2}
  Keys = {k1, k2, k3, k4, k5, k6, k7}
  MaxAttempts = 2
  MaxHardwareAttempts = 1
  MaxEvents = 6
  Requests <- MCRequests
SYMMETRY Symmetry
INVARIANTS TypeOK AtMostOneActive KeysActOnce WithinBudget ReceiptsCiteTheirEvent WaitingPauseHasTask PausesAreOrderly
PROPERTIES OutcomesAreFinal LifeSpec
