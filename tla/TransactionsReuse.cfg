CONSTANTS
  idem = idem
  first = first
  second = second
  other = other
  tidA = tidA
  tidB = tidB
  noTid = noTid
  r1 = r1
  r2 = r2
  Replicas = {r1, r2}
  Partitions = {0}
  IMax = 4
  WindowSize = 2
  Clients <- MCClients
  TidOf <- MCTidOf
  NoTid = noTid
  MaxInFlight = 2
  BatchSizes = {1}
  ReuseEpoch = TRUE
  Budgets <- MCReuseBudgets
SPECIFICATION Spec
SYMMETRY MCSymmetry
INVARIANT ReadsCommitted
CHECK_DEADLOCK FALSE
