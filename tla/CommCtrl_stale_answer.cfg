SPECIFICATION Spec
CONSTANTS
  Singles = {s1}
  Periods = {}
  ZeroCmd = zero
  TornCmd = torn
  NoCmd = NoCmd
  NoFrame = NoCmd
  Frames = {s1, zero, torn}
  RecvPoolSize = 1
  MsgQueueSize = 2
  EventQueueSize = 2
  SingleQueueSize = 1
  MaxRetry = 4
  MaxStarts = 1
  MaxOnLine = 1
  MaxLine = 2
PROPERTIES
  AcceptedAnswerMatches
