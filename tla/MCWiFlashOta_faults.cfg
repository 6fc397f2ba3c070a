SPECIFICATION Spec
CONSTANTS
  N = 3
  Image <- ThreeImages
  MaxBlockRetries = 2
  FaultSets <- AllOrNone
INVARIANTS TypeOK PendingIsVerified RunsPublished
PROPERTIES CheckEnds Converges
