SPECIFICATION Spec
CONSTANTS
  c1 = c1
  c2 = c2
  Clients <- TwoClients
  LinkId <- TwoLinks
  RetryCount = 3
  Settings <- PairOrLate
SYMMETRY ClientSymmetry
INVARIANTS TypeOK OwnAnswers ModemReady
CHECK_DEADLOCK FALSE
