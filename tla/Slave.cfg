SPECIFICATION MCSpec
CONSTANTS
  Files <- MCFiles
  DefaultFile = "cmd.json"
  NoFile = ""
  CmdIds <- MCCmdIds
  FirstRows <- MCFirstRows
  StartAfters = {1}
  Unreadable = Unreadable
  EditSizes = {0, 63}
  NoSetting = NoSetting
  Garbled = Garbled
  NoCmd = NoCmd
  MaxActs = 5
  MaxClicks = 3
  MaxFrames = 2
  MaxThreads = 2
  Live = Live
  MaxAnswerLen = 31
INVARIANTS
  TypeOK
  OwnAnswers
  AnswersSuitMaster
  RunCounted
PROPERTIES
  
  ReaderReturns
CHECK_DEADLOCK FALSE
