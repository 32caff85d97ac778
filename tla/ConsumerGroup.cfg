CONSTANTS
  r1 = r1
  r2 = r2
  Nil = Nil
  Client = {1, 2, 3}
  Topic = {1, 2}
  Replica = {r1, r2}
  Session = 4
  Rebalance = 3
  MaxConflicts = 1
  Scenarios <- MCScenarios
SPECIFICATION FairSpec
CHECK_DEADLOCK FALSE
INVARIANTS TypeOK OwnedOnce TargetsBalanced
PROPERTIES SweptIsSilent Converges
