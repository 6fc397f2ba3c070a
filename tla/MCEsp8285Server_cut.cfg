SPECIFICATION Spec
CONSTANTS
  Messages <- CutMessages
  BufSize = 2
  LinkMod = 2
  LenMod = 7
  WriteSizes = {1}
INVARIANTS TypeOK InBounds PayloadOwned InSync RequestFromStart
PROPERTY ImplementsFrameServer
