SPECIFICATION FixtureSpec
CONSTANTS
  Addr = {a1, a2, a3}
  Null = Null
  NoRecord = NoRecord
  MaxSize = 1
  TxnModulus = 1
  WordModulus = 8
  Thread = {main, w1, w2}
  Commander = {main}
  Calls = {"malloc", "calloc", "realloc", "free"}
  Commands = {"start", "stop", "pause"}
  CallSize = {1}
  Frame <- SomeFrames
  Site <- OneSite
  InitialLeaks <- NoLeaks
  HeapMayFail = FALSE
  MaxCalls = 0
  MaxCommands = 4
  NoThread = NoThread
  NoAnswer = NoAnswer
  NoCall = NoCall
  Main = main
  OwnBlocks = {}
  Workloads = {"OneCallocLeak", "OneLeakWithRealloc", "RandomHeapOperations"}
  MaxOperations = 2
SYMMETRY FixtureSymmetry
INVARIANTS
  StartedTestGoesOn
  FixtureTypeOK
  VerdictIsRight
  VerdictCountsLeaks
CHECK_DEADLOCK FALSE
