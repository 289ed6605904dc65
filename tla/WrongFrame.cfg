SPECIFICATION LeaksSpec
CONSTANTS
  Addr = {a1, a2, a3}
  Null = Null
  NoRecord = NoRecord
  MaxSize = 1
  TxnModulus = 1
  WordModulus = 8
  Thread = {t1, leaker}
  Commander = {t1}
  Calls = {"malloc"}
  Commands = {"start", "capture"}
  CallSize = {1}
  Frame <- SomeFrames
  Site <- AllSites
  InitialLeaks <- NoLeaks
  HeapMayFail = FALSE
  MaxCalls = 3
  MaxCommands = 3
  NoThread = NoThread
  NoAnswer = NoAnswer
  NoCall = NoCall
  Leaker = leaker
  NamedFrames <- SomeNames
  MayThrow = FALSE
INVARIANT
  IgnoredAtCapturedDepth
SYMMETRY AddressSymmetry
CHECK_DEADLOCK FALSE
