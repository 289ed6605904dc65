SPECIFICATION LeaksSpec
CONSTANTS
  Addr = {a1, a2}
  Null = Null
  NoRecord = NoRecord
  MaxSize = 1
  TxnModulus = 1
  WordModulus = 8
  Thread = {t1, t2, leaker}
  Commander = {t1, t2}
  Calls = {"malloc", "realloc", "free"}
  Commands = {"start", "stop", "capture"}
  CallSize = {1}
  Frame <- SomeFrames
  Site <- SomeSites
  InitialLeaks <- NoLeaks
  HeapMayFail = FALSE
  MaxCalls = 2
  MaxCommands = 3
  NoThread = NoThread
  NoAnswer = NoAnswer
  NoCall = NoCall
  Leaker = leaker
  NamedFrames <- SomeNames
  MayThrow = TRUE
SYMMETRY AddressSymmetry
INVARIANTS
  LeaksTypeOK
  NoLeakTwice
  CapturedIsIgnored
  SingleMapIsExact
  CaptureIsAlone
PROPERTY
  RefinesModes
CHECK_DEADLOCK FALSE
