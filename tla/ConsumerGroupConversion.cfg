CONSTANTS
  r1 = r1
  r2 = r2
  Nil = Nil
  Client = {1, 2, 3}
  Topic = {1, 2}
  Replica = {r1}
  Session = 4
  Rebalance = 3
  MaxConflicts = 1
  Scenarios <- Rebalancing
SPECIFICATION Spec
CHECK_DEADLOCK FALSE
INVARIANT OwnedOnce
