SPECIFICATION Spec
CONSTANTS
  ServerTries = 3
  MaxRestarts = 2
  Environments <- AllModems
INVARIANTS TypeOK OtaOnSingleConnection ServerIsUp
PROPERTY ServerComesUp
