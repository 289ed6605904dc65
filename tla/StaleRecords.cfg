SPECIFICATION Spec
CONSTANTS
  Addr = {a1, a2}
  Null = Null
  NoRecord = NoRecord
  MaxSize = 1
  TxnModulus = 1
  WordModulus = 8
  Thread = {t1, t2}
  Commander = {t1}
  Calls = {"malloc"}
  Commands = {"start", "stop"}
  CallSize = {1}
  Frame <- SomeFrames
  Site <- OneSite
  InitialLeaks <- NoLeaks
  HeapMayFail = FALSE
  MaxCalls = 1
  MaxCommands = 4
  NoThread = NoThread
  NoAnswer = NoAnswer
  NoCall = NoCall
SYMMETRY AddressSymmetry
INVARIANTS
  SnapshotIsOfItsSession
CHECK_DEADLOCK FALSE
