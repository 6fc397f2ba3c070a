SPECIFICATION Spec
CONSTANTS
  Response <- PromptAndClosed
  FrameSizes = {4, 5}
  Requests = {3}
  CmdSizes = {1, 3}
  TxSize = 2
  RxSize = 3
  LineSize = 7
  LenMod = 10
INVARIANTS TypeOK InBounds StreamExact ClosedIsSeen RequestInOrder RequestInBlocks
PROPERTIES NothingLeftBehind ImplementsByteQueue FetchEnds
