SPECIFICATION Spec
CONSTANTS
  Addr = {a1, a2}
  Null = Null
  NoRecord = NoRecord
  MaxSize = 1
  TxnModulus = 3
  WordModulus = 2
  Thread = {t1, t2}
  Commander = {t1}
  Calls = {"malloc", "realloc", "free"}
  Commands = {"start", "stop"}
  CallSize = {0, 1}
  Frame <- SomeFrames
  Site <- OneSite
  InitialLeaks <- NoLeaks
  HeapMayFail = FALSE
  MaxCalls = 3
  MaxCommands = 3
  NoThread = NoThread
  NoAnswer = NoAnswer
  NoCall = NoCall
SYMMETRY AddressSymmetry
INVARIANTS
  TypeOK
  NoFalseLeak
  FreshBlocksReported
  OriginsAreUnique
CHECK_DEADLOCK FALSE
