SPECIFICATION LifeFairSpec
CONSTANTS
  Addr = {a1}
  Null = Null
  NoRecord = NoRecord
  MaxSize = 1
  TxnModulus = 1
  WordModulus = 8
  Thread = {main, t1, leaker}
  Commander = {main, t1}
  Calls = {"malloc", "free"}
  Commands = {"start", "stop", "snapshot", "capture"}
  CallSize = {1}
  Frame <- SomeFrames
  Site <- SomeSites
  InitialLeaks <- NoLeaks
  HeapMayFail = TRUE
  MaxCalls = 1
  MaxCommands = 3
  NoThread = NoThread
  NoAnswer = NoAnswer
  NoCall = NoCall
  Leaker = leaker
  NamedFrames <- TlsNamed
  MayThrow = FALSE
  Main = main
  MaxBatch = 2
INVARIANTS
  LifeTypeOK
  ProbeFindsOneLeak
PROPERTIES
  LifeRefinesModes
  ConstructorReturns
  DestructorReturns
  RecordsAreProcessed
  CommandsReturn
CHECK_DEADLOCK FALSE
