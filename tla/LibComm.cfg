SPECIFICATION FairSpec
CONSTANTS
  Frames = {f1, f2}
  NoFrame = NoFrame
  FrameLen = 4
  SizeRange = 8
  TxQueueSize = 2
INVARIANTS
  TypeOK
  NoGapOnWire
PROPERTIES
  SendReturns
  FramesGetTheirTurn
CHECK_DEADLOCK FALSE
