SPECIFICATION Spec
CONSTANTS
  Addr = {a1, a2}
  Null = Null
  NoRecord = NoRecord
  MaxSize = 1
  TxnModulus = 1
  WordModulus = 8
  Thread = {t1}
  Commander = {t1}
  Calls = {"malloc", "realloc"}
  Commands = {"start", "stop"}
  CallSize = {0, 1}
  Frame <- SomeFrames
  Site <- OneSite
  InitialLeaks <- NoLeaks
  HeapMayFail = FALSE
  MaxCalls = 2
  MaxCommands = 2
  NoThread = NoThread
  NoAnswer = NoAnswer
  NoCall = NoCall
SYMMETRY AddressSymmetry
INVARIANTS
  SettledSnapshotIsSound
CHECK_DEADLOCK FALSE
