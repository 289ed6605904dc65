SPECIFICATION Spec
CONSTANTS
  Addr = {a1, a2}
  Null = Null
  NoRecord = NoRecord
  MaxSize = 1
  TxnModulus = 1
  WordModulus = 2
  Thread = {t1, t2}
  Commander = {t1, t2}
  Calls = {"malloc", "free"}
  Commands = {"start", "stop", "snapshot", "stats", "pause"}
  CallSize = {1}
  Frame <- SomeFrames
  Site <- TwoSites
  InitialLeaks <- TlsLeak
  HeapMayFail = FALSE
  MaxCalls = 3
  MaxCommands = 3
  NoThread = NoThread
  NoAnswer = NoAnswer
  NoCall = NoCall
SYMMETRY ThreadSymmetry
INVARIANTS
  PausesNest
  CommandsExclude
  FlagImpliesHooks
  HookInv
  NoFalseLeak
  FreshBlocksReported
PROPERTY
  RefinesModes
CHECK_DEADLOCK FALSE
