SPECIFICATION Spec
CONSTANTS
  Singles = {s1, s2}
  Periods = {}
  ZeroCmd = zero
  TornCmd = torn
  NoCmd = NoCmd
  NoFrame = NoCmd
  Frames = {s1, s2, zero, torn}
  RecvPoolSize = 1
  MsgQueueSize = 2
  EventQueueSize = 3
  SingleQueueSize = 2
  MaxRetry = 4
  MaxStarts = 2
  MaxOnLine = 1
  MaxLine = 3
INVARIANTS
  TypeOK
  EventsFit
  WaitIsGuarded
  AnswerMeetsWait
  RetriesUnlimited
  CtrlInv
PROPERTIES
  ImplementsService
  ImplementsPoolUsers
SYMMETRY SinglesSymmetry
