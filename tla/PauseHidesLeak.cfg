SPECIFICATION Spec
CONSTANTS
  Addr = {a1, a2}
  Null = Null
  NoRecord = NoRecord
  MaxSize = 1
  TxnModulus = 1
  WordModulus = 8
  Thread = {t1}
  Commander = {t1}
  Calls = {"malloc"}
  Commands = {"start", "stop", "pause"}
  CallSize = {1}
  Frame <- SomeFrames
  Site <- OneSite
  InitialLeaks <- NoLeaks
  HeapMayFail = FALSE
  MaxCalls = 4
  MaxCommands = 3
  NoThread = NoThread
  NoAnswer = NoAnswer
  NoCall = NoCall
SYMMETRY AddressSymmetry
INVARIANTS
  SettledSnapshotIsComplete
CHECK_DEADLOCK FALSE
