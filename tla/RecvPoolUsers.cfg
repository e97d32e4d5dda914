SPECIFICATION FairSpec
CONSTANTS
  Frames = {f1, f2}
  NoFrame = NoFrame
  RecvPoolSize = 3
  MaxNotices = 3
INVARIANTS
  TypeOK
  BuffersPartitioned
  NoticesMatchBuffers
PROPERTIES
  AcceptedFrameStable
  PoolRefills
