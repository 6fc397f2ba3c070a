SPECIFICATION Spec
CONSTANTS
  N = 2
  Image <- TwoImages
  MaxBlockRetries = 2
  FaultSets <- PowerOnly
INVARIANT UpToDateMeansRunning
