SPECIFICATION OneKindSpec
CONSTANTS
  Singles = {s1, s2}
  Periods = {p1}
  ZeroCmd = zero
  TornCmd = torn
  NoCmd = NoCmd
  NoFrame = NoCmd
  Frames = {s1, s2, p1, zero, torn}
  RecvPoolSize = 1
  MsgQueueSize = 2
  EventQueueSize = 2
  SingleQueueSize = 2
  MaxRetry = 4
  MaxStarts = 1
  MaxOnLine = 1
  MaxLine = 1
PROPERTIES
  WaitEnds
  IdleSends
  PollReturns
  SinglesSent
  PeriodUpdateSent
  MixtureNotRepeated
  ZeroCmdOnlyUntilSet
