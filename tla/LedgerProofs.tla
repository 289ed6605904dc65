---------------------------- MODULE LedgerProofs ----------------------------
(***************************************************************************)
(* Proofs about the worker's bookkeeping under every stream of requests:   *)
(* for any finite set of addresses, any sizes, any counter width and any   *)
(* number of requests.                                                     *)
(***************************************************************************)
EXTENDS LedgerAudit, LedgerTheorems

(***************************************************************************)
(* Type correctness: whatever the stream of requests, the counters stay    *)
(* within their width and the map holds records of the right shape.        *)
(***************************************************************************)
THEOREM AuditTypeCorrect == AuditSpec => []AuditTypeOK
<1>1. AuditInit => AuditTypeOK
  BY LedgerAssumption, AuditAssumption
  DEF AuditInit, AuditTypeOK, LedgerInit, LedgerTypeOK, Word
<1>2. AuditTypeOK /\ [AuditNext]_audit_vars => AuditTypeOK'
  <2> SUFFICES ASSUME AuditTypeOK, [AuditNext]_audit_vars
               PROVE  AuditTypeOK'
    OBVIOUS
  <2> USE DEF AuditTypeOK
  <2>1. CASE AuditRecord
    <3>1. handled' \in 0 .. MaxRequests
      BY <2>1, AuditAssumption DEF AuditRecord
    <3>2. ASSUME NEW r \in MallocRequest, AuditMalloc(r)
          PROVE  AuditTypeOK'
      <4>1. LedgerTypeOK'
        BY <3>2, MallocType DEF AuditMalloc
      <4> QED BY <3>1, <3>2, <4>1 DEF AuditMalloc, Tally, MallocRequest
    <3>3. ASSUME NEW r \in ReallocRequest, AuditRealloc(r)
          PROVE  AuditTypeOK'
      <4>1. LedgerTypeOK'
        BY <3>3, ReallocType DEF AuditRealloc
      <4> QED BY <3>1, <3>3, <4>1 DEF AuditRealloc, Tally, ReallocRequest
    <3>4. ASSUME NEW r \in FreeRequest, AuditFree(r)
          PROVE  AuditTypeOK'
      <4>1. LedgerTypeOK'
        BY <3>4, FreeType DEF AuditFree
      <4> QED BY <3>1, <3>4, <4>1 DEF AuditFree, Tally, FreeRequest
    <3>5. CASE AuditQuery
      <4>1. CASE HandleSnapshot
        BY <3>1, <3>5, <4>1, SnapshotType DEF AuditQuery
      <4>2. CASE HandleStats
        BY <3>1, <3>5, <4>2 DEF AuditQuery, HandleStats, LedgerTypeOK, ledger_vars, counters, anomalies
      <4> QED BY <3>5, <4>1, <4>2 DEF AuditQuery
    <3> QED BY <2>1, <3>2, <3>3, <3>4, <3>5 DEF AuditRecord
  <2>2. CASE AuditClear
    <3>1. LedgerTypeOK'
      BY <2>2, ClearType DEF AuditClear
    <3> QED BY <2>2, <3>1, AuditAssumption DEF AuditClear
  <2>3. CASE UNCHANGED audit_vars
    BY <2>3 DEF audit_vars, ledger_vars, counters, anomalies, LedgerTypeOK
  <2> QED BY <2>1, <2>2, <2>3 DEF AuditNext
<1> QED
  BY <1>1, <1>2, PTL DEF AuditSpec
-----------------------------------------------------------------------------
(***************************************************************************)
(* Balance is inductive: an address stays trusted only as long as every    *)
(* release handled found its entry, and every acquisition handled either   *)
(* made one or was noted as a collision.                                   *)
(***************************************************************************)
LEMMA MallocBalance ==
  ASSUME AuditTypeOK, Balance, NEW r \in MallocRequest, AuditMalloc(r)
  PROVE  Balance'
<1> SUFFICES ASSUME NEW a \in Trusted'
             PROVE  /\ released'[a] + OpenCount(a)' <= acquired'[a]
                    /\ a \notin collisions' => released'[a] + OpenCount(a)' = acquired'[a]
  BY DEF Balance
<1>1. a \in Trusted /\ a \in Pointer /\ r.address \in Pointer
  BY DEF Trusted, AuditMalloc, HandleMalloc, MallocRequest
<1>2. [size |-> r.size, txn_id |-> r.txn_id] # NoRecord
  BY LedgerAssumption DEF MallocRequest, AllocationRecord
<1>3. acquired' = [acquired EXCEPT ![r.address] = @ + 1] /\ released' = released
  BY DEF AuditMalloc, Tally
<1>4. allocations' = [allocations EXCEPT ![r.address] =
        IF allocations[r.address] = NoRecord THEN [size |-> r.size, txn_id |-> r.txn_id] ELSE @]
  BY DEF AuditMalloc, HandleMalloc, Emplace
<1>5. collisions' = IF allocations[r.address] = NoRecord
                      THEN collisions ELSE collisions \cup {r.address}
  BY DEF AuditMalloc, HandleMalloc, Collide
<1> QED
  BY <1>1, <1>2, <1>3, <1>4, <1>5
  DEF AuditTypeOK, LedgerTypeOK, Balance, OpenCount, Open

LEMMA ReallocKnownBalance ==
  ASSUME AuditTypeOK, Balance, NEW r \in ReallocRequest, AuditRealloc(r), HandleReallocKnown(r)
  PROVE  Balance'
<1> SUFFICES ASSUME NEW a \in Trusted'
             PROVE  /\ released'[a] + OpenCount(a)' <= acquired'[a]
                    /\ a \notin collisions' => released'[a] + OpenCount(a)' = acquired'[a]
  BY DEF Balance
<1> DEFINE erased == Erase(allocations, r.original)
           moved  == [size |-> r.size, txn_id |-> allocations[r.original].txn_id]
<1>1. a \in Trusted /\ a \in Pointer /\ r.original \in Pointer /\ r.new \in Pointer
  BY DEF Trusted, HandleReallocKnown, ReallocRequest
<1>2. moved # NoRecord /\ allocations[r.original] # NoRecord
  <2>1. allocations[r.original] \in AllocationRecord
    BY <1>1 DEF HandleReallocKnown, AuditTypeOK, LedgerTypeOK
  <2> QED
    BY <2>1, LedgerAssumption DEF HandleReallocKnown, ReallocRequest, AllocationRecord
<1>3. /\ acquired' = [acquired EXCEPT ![r.new] = @ + 1]
      /\ released' = [released EXCEPT ![r.original] = @ + 1]
  BY DEF AuditRealloc, Tally
<1>4. \A b \in Pointer : erased[b] = IF b = r.original THEN NoRecord ELSE allocations[b]
  BY DEF Erase, AuditTypeOK, LedgerTypeOK
<1>5. \A b \in Pointer : allocations'[b] =
        IF b = r.new /\ erased[b] = NoRecord THEN moved ELSE erased[b]
  BY DEF HandleReallocKnown, Emplace, Erase, AuditTypeOK, LedgerTypeOK
<1>6. collisions' = IF erased[r.new] = NoRecord THEN collisions ELSE collisions \cup {r.new}
  BY DEF HandleReallocKnown, Collide
<1> HIDE DEF erased, moved
<1>7. acquired[a] \in Nat /\ released[a] \in Nat
  BY <1>1 DEF AuditTypeOK
<1>8. /\ acquired'[a] = IF a = r.new THEN acquired[a] + 1 ELSE acquired[a]
      /\ released'[a] = IF a = r.original THEN released[a] + 1 ELSE released[a]
  BY <1>1, <1>3 DEF AuditTypeOK
<1>9. /\ OpenCount(a) = IF allocations[a] # NoRecord THEN 1 ELSE 0
      /\ OpenCount(a)' = IF allocations'[a] # NoRecord THEN 1 ELSE 0
  BY <1>1 DEF OpenCount, Open
<1>10. /\ released[a] + OpenCount(a) <= acquired[a]
       /\ a \notin collisions => released[a] + OpenCount(a) = acquired[a]
  BY <1>1 DEF Balance
<1> QED
  BY <1>1, <1>2, <1>4, <1>5, <1>6, <1>7, <1>8, <1>9, <1>10

LEMMA ReallocUnknownBalance ==
  ASSUME AuditTypeOK, Balance, NEW r \in ReallocRequest, AuditRealloc(r), HandleReallocUnknown(r)
  PROVE  Balance'
<1> SUFFICES ASSUME NEW a \in Trusted'
             PROVE  /\ released'[a] + OpenCount(a)' <= acquired'[a]
                    /\ a \notin collisions' => released'[a] + OpenCount(a)' = acquired'[a]
  BY DEF Balance
<1>1. a \in Trusted /\ a \in Pointer /\ r.new \in Pointer /\ a # r.original
  BY DEF Trusted, HandleReallocUnknown, ReallocRequest
<1>2. PICK garbage \in TxnId :
        allocations' = Emplace(allocations, r.new, [size |-> r.size, txn_id |-> garbage])
  BY DEF HandleReallocUnknown
<1>3. [size |-> r.size, txn_id |-> garbage] # NoRecord
  BY LedgerAssumption DEF ReallocRequest, AllocationRecord
<1>4. acquired'[a] = (IF a = r.new THEN acquired[a] + 1 ELSE acquired[a]) /\ released'[a] = released[a]
  BY <1>1 DEF AuditRealloc, Tally, AuditTypeOK
<1>5. collisions' = IF allocations[r.new] = NoRecord THEN collisions ELSE collisions \cup {r.new}
  BY DEF HandleReallocUnknown, Collide
<1> QED
  BY <1>1, <1>2, <1>3, <1>4, <1>5
  DEF AuditTypeOK, LedgerTypeOK, Balance, OpenCount, Open, Emplace

LEMMA FreeBalance ==
  ASSUME AuditTypeOK, Balance, NEW r \in FreeRequest, AuditFree(r)
  PROVE  Balance'
<1> SUFFICES ASSUME NEW a \in Trusted'
             PROVE  /\ released'[a] + OpenCount(a)' <= acquired'[a]
                    /\ a \notin collisions' => released'[a] + OpenCount(a)' = acquired'[a]
  BY DEF Balance
<1>1. r.block \in Pointer /\ acquired' = acquired /\ released' = [released EXCEPT ![r.block] = @ + 1]
  BY DEF AuditFree, Tally, FreeRequest
<1>2. CASE HandleFreeKnown(r)
  <2>1. a \in Trusted /\ a \in Pointer /\ collisions' = collisions
    BY <1>2 DEF Trusted, HandleFreeKnown, anomalies
  <2> QED
    BY <1>1, <1>2, <2>1
    DEF AuditTypeOK, LedgerTypeOK, Balance, OpenCount, Open, HandleFreeKnown, Erase
<1>3. CASE HandleFreeUnknown(r)
  <2>1. a \in Trusted /\ a \in Pointer /\ a # r.block
    BY <1>3 DEF Trusted, HandleFreeUnknown, EarlyFree, anomalies
  <2> QED
    BY <1>1, <1>3, <2>1
    DEF AuditTypeOK, Balance, OpenCount, Open, HandleFreeUnknown, EarlyFree, anomalies
<1> QED
  BY <1>2, <1>3 DEF AuditFree, HandleFree

LEMMA QueryBalance ==
  ASSUME AuditTypeOK, Balance, AuditQuery
  PROVE  Balance'
<1>1. CASE HandleSnapshot
  <2>1. Trusted' = Trusted /\ collisions' = collisions
    BY <1>1 DEF Trusted, HandleSnapshot, anomalies
  <2>2. \A a \in Trusted : OpenCount(a)' = OpenCount(a)
    BY <1>1 DEF Trusted, OpenCount, Open, HandleSnapshot, Reconciled, AuditTypeOK, LedgerTypeOK
  <2> QED
    BY <2>1, <2>2 DEF Balance, AuditQuery
<1>2. CASE HandleStats
  BY <1>2 DEF AuditQuery, HandleStats, ledger_vars, anomalies, Balance, Trusted, OpenCount, Open
<1> QED
  BY <1>1, <1>2 DEF AuditQuery

(***************************************************************************)
(* For a trusted address, the releases handled and the open entry never    *)
(* outnumber the acquisitions handled, and account for them exactly when   *)
(* no record of the address was discarded.                                 *)
(***************************************************************************)
THEOREM BalanceHolds == AuditSpec => []Balance
<1>1. AuditInit => Balance
  BY DEF AuditInit, LedgerInit, Balance, Trusted, OpenCount, Open
<1>2. AuditTypeOK /\ Balance /\ [AuditNext]_audit_vars => Balance'
  <2> SUFFICES ASSUME AuditTypeOK, Balance, [AuditNext]_audit_vars
               PROVE  Balance'
    OBVIOUS
  <2>1. CASE AuditRecord
    <3>1. ASSUME NEW r \in ReallocRequest, AuditRealloc(r)
          PROVE  Balance'
      BY <3>1, ReallocKnownBalance, ReallocUnknownBalance DEF AuditRealloc, HandleRealloc
    <3> QED
      BY <2>1, <3>1, MallocBalance, FreeBalance, QueryBalance DEF AuditRecord
  <2>2. CASE AuditClear
    BY <2>2 DEF AuditClear, HandleClear, Balance, Trusted, OpenCount, Open
  <2>3. CASE UNCHANGED audit_vars
    BY <2>3 DEF audit_vars, ledger_vars, anomalies, Balance, Trusted, OpenCount, Open
  <2> QED BY <2>1, <2>2, <2>3 DEF AuditNext
<1> QED
  BY <1>1, <1>2, AuditTypeCorrect, PTL DEF AuditSpec

(***************************************************************************)
(* No false leak from the worker: a reported address has been acquired     *)
(* more often than released, in whatever order its records were handled,   *)
(* unless a realloc of it came before the record of its block.             *)
(***************************************************************************)
THEOREM NoFalseReport == AuditSpec => []ReportsOnlyUnreleased
<1>1. AuditTypeOK /\ Balance => ReportsOnlyUnreleased
  <2> SUFFICES ASSUME AuditTypeOK, Balance, NEW a \in Reported \ orphan_reallocs
               PROVE  acquired[a] > released[a]
    BY DEF ReportsOnlyUnreleased
  <2>1. a \in Trusted /\ OpenCount(a) = 1 /\ acquired[a] \in Nat /\ released[a] \in Nat
    BY DEF Reported, Trusted, OpenCount, Open, AuditTypeOK
  <2> QED BY <2>1 DEF Balance
<1> QED
  BY <1>1, AuditTypeCorrect, BalanceHolds, PTL

(***************************************************************************)
(* No lost leak by the worker: an address acquired more often than         *)
(* released is reported, unless one of its releases or reallocs came       *)
(* before the record it needed, or one of its records was discarded.       *)
(***************************************************************************)
THEOREM NoLostReport == AuditSpec => []ReportsEveryUnreleased
<1>1. AuditTypeOK /\ Balance => ReportsEveryUnreleased
  <2> SUFFICES ASSUME AuditTypeOK, Balance, NEW a \in Trusted \ collisions,
                      acquired[a] > released[a]
               PROVE  a \in Reported
    BY DEF ReportsEveryUnreleased
  <2>1. acquired[a] \in Nat /\ released[a] \in Nat /\ a \notin frees_without_mallocs
    BY DEF Trusted, AuditTypeOK
  <2>2. OpenCount(a) # 0
    BY <2>1 DEF Balance
  <2> QED BY <2>1, <2>2 DEF OpenCount, Reported
<1> QED
  BY <1>1, AuditTypeCorrect, BalanceHolds, PTL
=============================================================================
