SPECIFICATION AuditSpec
CONSTANTS
  Addr = {a1, a2}
  Null = Null
  NoRecord = NoRecord
  MaxSize = 1
  TxnModulus = 2
  WordModulus = 4
  MaxRequests = 4
SYMMETRY AddressSymmetry
INVARIANTS
  AuditTypeOK
  CountsBalance
  BytesBalance
  ReportsOnlyUnreleased
  ReportsEveryUnreleased
  Balance
PROPERTY
  EntriesKeepTheirOrigin
