SPECIFICATION Spec
CONSTANTS
  c1 = c1
  c2 = c2
  Clients <- OneClient
  LinkId <- TwoLinks
  RetryCount = 3
  Settings <- AloneTicks
INVARIANT LiveQuery
CHECK_DEADLOCK FALSE
