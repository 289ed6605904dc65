--------------------------- MODULE LedgerTheorems ---------------------------
(***************************************************************************)
(* Proofs about the worker's bookkeeping driven by its own operations in   *)
(* any order, for any finite set of addresses, any sizes and any counter   *)
(* width: its types, its counters against its map, and the origin of its   *)
(* entries.  Whatever drives the ledger with these operations only         *)
(* (LedgerAudit, HeapWatcher) has these properties too.                    *)
(***************************************************************************)
EXTENDS WorkerLedger, FiniteSetTheorems, TLAPS

(* The map has finitely many keys, so what it counts is a number. *)
LEMMA FinitePointers == IsFiniteSet(Pointer)
BY LedgerAssumption, FS_AddElement DEF Pointer

(* A set of keys has a size. *)
LEMMA KeysAreCounted ==
  ASSUME NEW S \in SUBSET Pointer
  PROVE  IsFiniteSet(S) /\ Cardinality(S) \in Nat
BY FinitePointers, FS_Subset, FS_CardinalityType

(* So do the bytes behind a set of keys. *)
LEMMA BytesAreCounted ==
  ASSUME NEW S \in SUBSET Pointer
  PROVE  IsFiniteSet(BytesOf(S)) /\ TotalSize(S) \in Nat
<1>1. IsFiniteSet(1 .. MaxSize)
  BY FS_Interval, LedgerAssumption
<1>2. IsFiniteSet(Pointer \X (1 .. MaxSize))
  BY <1>1, FinitePointers, FS_Product
<1>3. BytesOf(S) \subseteq Pointer \X (1 .. MaxSize)
  BY DEF BytesOf
<1> QED
  BY <1>2, <1>3, FS_Subset, FS_CardinalityType DEF TotalSize

(* A counter stays within its width. *)
LEMMA AddType ==
  ASSUME NEW counter \in Int, NEW n \in Int
  PROVE  Add(counter, n) \in Word
BY LedgerAssumption DEF Add, Word

(* The records of a request fit the map. *)
LEMMA EmplaceType ==
  ASSUME NEW map \in [Pointer -> AllocationRecord \cup {NoRecord}],
         NEW a \in Pointer, NEW record \in AllocationRecord
  PROVE  /\ Emplace(map, a, record) \in [Pointer -> AllocationRecord \cup {NoRecord}]
         /\ Erase(map, a) \in [Pointer -> AllocationRecord \cup {NoRecord}]
BY DEF Emplace, Erase

-----------------------------------------------------------------------------
(* Each case of the worker's switch keeps the types. *)
LEMMA MallocType ==
  ASSUME LedgerTypeOK, NEW r \in MallocRequest, HandleMalloc(r)
  PROVE  LedgerTypeOK'
<1>1. r.address \in Pointer /\ r.size \in Nat /\ [size |-> r.size, txn_id |-> r.txn_id] \in AllocationRecord
  BY LedgerAssumption DEF MallocRequest, AllocationRecord, Size
<1>2. allocations' \in [Pointer -> AllocationRecord \cup {NoRecord}]
  BY <1>1, EmplaceType DEF LedgerTypeOK, HandleMalloc
<1>3. bytes_allocated' \in Word
  <2>1. bytes_allocated \in Int /\ r.size \in Int
    BY <1>1 DEF LedgerTypeOK, Word
  <2> QED BY <2>1, AddType DEF HandleMalloc
<1>4. collisions' \subseteq Pointer
  BY <1>1 DEF LedgerTypeOK, HandleMalloc, Collide
<1> QED
  BY <1>2, <1>3, <1>4 DEF LedgerTypeOK, HandleMalloc

LEMMA ReallocType ==
  ASSUME LedgerTypeOK, NEW r \in ReallocRequest, HandleRealloc(r)
  PROVE  LedgerTypeOK'
<1>1. r.original \in Pointer /\ r.new \in Pointer /\ r.size \in Size /\ Size \subseteq Int
  BY LedgerAssumption DEF ReallocRequest, Size
<1>2. CASE HandleReallocKnown(r)
  <2>1. allocations[r.original] \in AllocationRecord
    BY <1>1, <1>2 DEF LedgerTypeOK, HandleReallocKnown
  <2>2. /\ allocations[r.original].size \in Int
        /\ [size |-> r.size, txn_id |-> allocations[r.original].txn_id] \in AllocationRecord
    BY <1>1, <2>1 DEF AllocationRecord
  <2>3. Erase(allocations, r.original) \in [Pointer -> AllocationRecord \cup {NoRecord}]
    BY <1>1, <2>1, EmplaceType DEF LedgerTypeOK
  <2>4. allocations' \in [Pointer -> AllocationRecord \cup {NoRecord}]
    BY <1>1, <1>2, <2>2, <2>3, EmplaceType DEF HandleReallocKnown
  <2>5. bytes_allocated' \in Word
    <3>1. bytes_allocated \in Int /\ Growth(allocations[r.original], r.size) \in Int
      BY <1>1, <2>2 DEF LedgerTypeOK, Word, Growth
    <3> QED BY <1>2, <3>1, AddType DEF HandleReallocKnown
  <2>6. collisions' \subseteq Pointer
    BY <1>1, <1>2 DEF LedgerTypeOK, HandleReallocKnown, Collide
  <2> QED
    BY <1>2, <2>4, <2>5, <2>6 DEF LedgerTypeOK, HandleReallocKnown
<1>3. CASE HandleReallocUnknown(r)
  <2>1. PICK garbage \in TxnId :
          allocations' = Emplace(allocations, r.new, [size |-> r.size, txn_id |-> garbage])
    BY <1>3 DEF HandleReallocUnknown
  <2>2. [size |-> r.size, txn_id |-> garbage] \in AllocationRecord
    BY <1>1 DEF AllocationRecord
  <2>3. allocations' \in [Pointer -> AllocationRecord \cup {NoRecord}]
    BY <1>1, <2>1, <2>2, EmplaceType DEF LedgerTypeOK
  <2>4. collisions' \subseteq Pointer /\ orphan_reallocs' \subseteq Pointer
    BY <1>1, <1>3 DEF LedgerTypeOK, HandleReallocUnknown, Collide
  <2> QED
    BY <1>3, <2>3, <2>4 DEF LedgerTypeOK, HandleReallocUnknown
<1> QED
  BY <1>2, <1>3 DEF HandleRealloc

LEMMA FreeType ==
  ASSUME LedgerTypeOK, NEW r \in FreeRequest, HandleFree(r)
  PROVE  LedgerTypeOK'
<1>1. r.block \in Pointer
  BY DEF FreeRequest
<1>2. CASE HandleFreeKnown(r)
  <2>1. allocations[r.block] \in AllocationRecord
    BY <1>1, <1>2 DEF LedgerTypeOK, HandleFreeKnown
  <2>2. bytes_freed \in Int /\ allocations[r.block].size \in Int
    BY <2>1, LedgerAssumption DEF LedgerTypeOK, Word, AllocationRecord, Size
  <2>3. allocations' \in [Pointer -> AllocationRecord \cup {NoRecord}]
    BY <1>1, <1>2, <2>1, EmplaceType DEF LedgerTypeOK, HandleFreeKnown
  <2> QED
    BY <1>2, <2>2, <2>3, AddType DEF LedgerTypeOK, HandleFreeKnown, anomalies
<1>3. CASE HandleFreeUnknown(r)
  BY <1>1, <1>3 DEF LedgerTypeOK, HandleFreeUnknown, EarlyFree, counters, anomalies
<1> QED
  BY <1>2, <1>3 DEF HandleFree

LEMMA SnapshotType ==
  ASSUME LedgerTypeOK, HandleSnapshot
  PROVE  LedgerTypeOK'
<1>1. Reconciled \in SUBSET Pointer
  BY DEF Reconciled, Open
<1>2. Cardinality(Reconciled) \in Nat /\ TotalSize(Reconciled) \in Nat
  BY <1>1, KeysAreCounted, BytesAreCounted
<1>3. bytes_freed \in Int /\ TotalSize(Reconciled) \in Int
  BY <1>2 DEF LedgerTypeOK, Word
<1>4. allocations' \in [Pointer -> AllocationRecord \cup {NoRecord}]
  BY DEF LedgerTypeOK, HandleSnapshot
<1> QED
  BY <1>2, <1>3, <1>4, AddType DEF LedgerTypeOK, HandleSnapshot, anomalies

LEMMA ClearType ==
  ASSUME HandleClear
  PROVE  LedgerTypeOK'
BY LedgerAssumption DEF HandleClear, LedgerTypeOK, Word
(* Each operation keeps the types. *)
LEMMA LedgerNextType ==
  ASSUME LedgerTypeOK, [LedgerNext]_ledger_vars
  PROVE  LedgerTypeOK'
<1>1. CASE HandleStats \/ UNCHANGED ledger_vars
  BY <1>1 DEF HandleStats, ledger_vars, counters, anomalies, LedgerTypeOK
<1> QED
  BY <1>1, MallocType, ReallocType, FreeType, SnapshotType, ClearType DEF LedgerNext

(***************************************************************************)
(* Type correctness: whatever the order of the requests, the counters stay *)
(* within their width and the map holds records of the right shape.        *)
(***************************************************************************)
THEOREM LedgerTypeCorrect == LedgerSpec => []LedgerTypeOK
<1>1. LedgerInit => LedgerTypeOK
  BY LedgerAssumption DEF LedgerInit, LedgerTypeOK, Word
<1> QED
  BY <1>1, LedgerNextType, PTL DEF LedgerSpec

-----------------------------------------------------------------------------
(* What each case of the switch does to the set of open allocations. *)
LEMMA MallocOpens ==
  ASSUME LedgerTypeOK, NEW r \in MallocRequest, HandleMalloc(r), collisions' = {}
  PROVE  r.address \notin Open /\ Open' = Open \cup {r.address}
<1>1. r.address \in Pointer /\ [size |-> r.size, txn_id |-> r.txn_id] # NoRecord
  BY LedgerAssumption DEF MallocRequest, AllocationRecord
<1>2. allocations[r.address] = NoRecord
  BY DEF HandleMalloc, Collide
<1> QED
  BY <1>1, <1>2 DEF HandleMalloc, Emplace, Open, LedgerTypeOK

LEMMA ReallocMoves ==
  ASSUME LedgerTypeOK, NEW r \in ReallocRequest, HandleReallocKnown(r), collisions' = {}
  PROVE  /\ r.original \in Open
         /\ r.new \notin Open \ {r.original}
         /\ Open' = (Open \ {r.original}) \cup {r.new}
<1> DEFINE erased == Erase(allocations, r.original)
           moved  == [size |-> r.size, txn_id |-> allocations[r.original].txn_id]
<1>1. r.original \in Pointer /\ r.new \in Pointer /\ r.original \in Open
  BY DEF ReallocRequest, HandleReallocKnown, Open
<1>2. moved # NoRecord
  <2>1. allocations[r.original] \in AllocationRecord
    BY <1>1 DEF LedgerTypeOK, Open
  <2> QED
    BY <2>1, LedgerAssumption DEF ReallocRequest, AllocationRecord
<1>3. \A b \in Pointer : erased[b] = IF b = r.original THEN NoRecord ELSE allocations[b]
  BY DEF Erase, LedgerTypeOK
<1>4. erased[r.new] = NoRecord
  BY DEF HandleReallocKnown, Collide
<1>5. \A b \in Pointer : allocations'[b] = IF b = r.new THEN moved ELSE erased[b]
  BY <1>1, <1>4 DEF HandleReallocKnown, Emplace, Erase, LedgerTypeOK
<1> HIDE DEF erased, moved
<1> QED
  BY <1>1, <1>2, <1>3, <1>4, <1>5 DEF Open

LEMMA FreeCloses ==
  ASSUME LedgerTypeOK, NEW r \in FreeRequest, HandleFreeKnown(r)
  PROVE  r.block \in Open /\ Open' = Open \ {r.block}
BY DEF LedgerTypeOK, FreeRequest, HandleFreeKnown, Erase, Open

(***************************************************************************)
(* Counters against the map: as long as no record collided and no realloc  *)
(* was orphaned since the last CLEAR, the mallocs not counted as freed are *)
(* as many as the open allocations.                                        *)
(***************************************************************************)
THEOREM CountsAgree == LedgerSpec => []CountsBalance
<1>1. LedgerInit => CountsBalance
  <2>1. LedgerInit => Open = {}
    BY DEF LedgerInit, Open
  <2> QED
    BY <2>1, FS_EmptySet DEF LedgerInit, CountsBalance
<1>2. LedgerTypeOK /\ CountsBalance /\ [LedgerNext]_ledger_vars => CountsBalance'
  <2> SUFFICES ASSUME LedgerTypeOK, CountsBalance, [LedgerNext]_ledger_vars,
                      collisions' = {}, orphan_reallocs' = {}
               PROVE  number_of_mallocs' = number_of_frees' + Cardinality(Open)'
    BY DEF CountsBalance
  <2>1. IsFiniteSet(Open) /\ Cardinality(Open) \in Nat
    BY KeysAreCounted DEF Open
  <2>2. number_of_mallocs \in Nat /\ number_of_frees \in Nat
    BY DEF LedgerTypeOK
  <2>3. ASSUME NEW r \in MallocRequest, HandleMalloc(r)
        PROVE  number_of_mallocs' = number_of_frees' + Cardinality(Open)'
    <3>1. collisions = {} /\ orphan_reallocs = {}
      BY <2>3 DEF HandleMalloc, Collide
    <3>2. Cardinality(Open)' = Cardinality(Open) + 1
      BY <2>1, <2>3, MallocOpens, FS_AddElement
    <3> QED
      BY <2>1, <2>2, <2>3, <3>1, <3>2 DEF HandleMalloc, CountsBalance
  <2>4. ASSUME NEW r \in ReallocRequest, HandleRealloc(r)
        PROVE  number_of_mallocs' = number_of_frees' + Cardinality(Open)'
    <3>1. HandleReallocKnown(r) /\ collisions = {} /\ orphan_reallocs = {}
      BY <2>4 DEF HandleRealloc, HandleReallocKnown, HandleReallocUnknown, Collide
    <3>2. Cardinality(Open)' = Cardinality(Open)
      <4>1. /\ IsFiniteSet(Open \ {r.original})
            /\ Cardinality(Open \ {r.original}) = Cardinality(Open) - 1
        BY <2>1, <3>1, ReallocMoves, FS_RemoveElement
      <4>2. Cardinality((Open \ {r.original}) \cup {r.new}) = Cardinality(Open \ {r.original}) + 1
        <5>1. r.new \notin Open \ {r.original}
          BY <3>1, ReallocMoves
        <5> QED BY <4>1, <5>1, FS_AddElement
      <4>3. Open' = (Open \ {r.original}) \cup {r.new}
        BY <3>1, ReallocMoves
      <4> QED
        BY <2>1, <4>1, <4>2, <4>3
    <3> QED
      BY <3>1, <3>2 DEF HandleReallocKnown, CountsBalance
  <2>5. ASSUME NEW r \in FreeRequest, HandleFree(r)
        PROVE  number_of_mallocs' = number_of_frees' + Cardinality(Open)'
    <3>1. CASE HandleFreeKnown(r)
      <4>1. Cardinality(Open)' = Cardinality(Open) - 1
        <5>1. r.block \in Open /\ Open' = Open \ {r.block}
          BY <3>1, FreeCloses
        <5> QED BY <2>1, <5>1, FS_RemoveElement
      <4> QED
        BY <2>1, <2>2, <3>1, <4>1 DEF HandleFreeKnown, anomalies, CountsBalance
    <3>2. CASE HandleFreeUnknown(r)
      BY <3>2 DEF HandleFreeUnknown, counters, anomalies, CountsBalance, Open
    <3> QED
      BY <2>5, <3>1, <3>2 DEF HandleFree
  <2>6. CASE HandleSnapshot
    <3>1. Open' = Open \ Reconciled /\ Reconciled = Open \cap Reconciled /\ Reconciled \in SUBSET Pointer
      BY <2>6 DEF HandleSnapshot, Open, Reconciled
    <3>2. Cardinality(Open)' = Cardinality(Open) - Cardinality(Reconciled)
      <4>1. Cardinality(Open \ Reconciled) = Cardinality(Open) - Cardinality(Open \cap Reconciled)
        BY <2>1, FS_Difference
      <4> QED BY <3>1, <4>1
    <3>3. Cardinality(Reconciled) \in Nat
      BY <3>1, KeysAreCounted
    <3>4. /\ number_of_mallocs' = number_of_mallocs
          /\ number_of_frees' = number_of_frees + Cardinality(Reconciled)
          /\ collisions = {} /\ orphan_reallocs = {}
      BY <2>6 DEF HandleSnapshot, anomalies
    <3>5. number_of_mallocs = number_of_frees + Cardinality(Open)
      BY <3>4 DEF CountsBalance
    <3> QED
      BY <2>1, <2>2, <3>2, <3>3, <3>4, <3>5
  <2>7. CASE HandleStats \/ UNCHANGED ledger_vars
    BY <2>7 DEF HandleStats, ledger_vars, counters, anomalies, CountsBalance, Open
  <2>8. CASE HandleClear
    <3>1. Open' = {}
      BY <2>8 DEF HandleClear, Open
    <3> QED
      BY <2>8, <3>1, FS_EmptySet DEF HandleClear
  <2> QED
    BY <2>3, <2>4, <2>5, <2>6, <2>7, <2>8 DEF LedgerNext
<1> QED
  BY <1>1, <1>2, LedgerTypeCorrect, PTL DEF LedgerSpec

-----------------------------------------------------------------------------
(***************************************************************************)
(* Counters of a fixed width: what matters of a sum is its remainder, so   *)
(* truncating a summand changes nothing.                                   *)
(***************************************************************************)
(* Division with remainder by the counters' width. *)
LEMMA WidthDivides ==
  ASSUME NEW x \in Int
  PROVE  /\ x % WordModulus \in Word
         /\ \E q \in Int : x = WordModulus * q + (x % WordModulus)
<1>1. /\ x % WordModulus \in Word /\ x \div WordModulus \in Int
      /\ x = WordModulus * (x \div WordModulus) + (x % WordModulus)
  BY LedgerAssumption DEF Word
<1> QED
  BY <1>1

(* The remainder is the only one. *)
LEMMA RemainderIsUnique ==
  ASSUME NEW x \in Int, NEW r \in Word, NEW q \in Int, x = WordModulus * q + r
  PROVE  x % WordModulus = r
<1>1. PICK p \in Int : x = WordModulus * p + (x % WordModulus)
  BY WidthDivides
<1>2. /\ x % WordModulus \in Word /\ Word \subseteq Int
      /\ WordModulus * p \in Int /\ WordModulus * q \in Int
  BY WidthDivides, LedgerAssumption DEF Word
<1>3. WordModulus * (p - q) = r - (x % WordModulus)
  <2>1. WordModulus * (p - q) = WordModulus * p - WordModulus * q
    BY LedgerAssumption
  <2> QED
    BY <1>1, <1>2, <2>1, LedgerAssumption
<1>4. p - q = 0
  <2>1. WordModulus * (p - q) < WordModulus /\ -WordModulus < WordModulus * (p - q)
    BY <1>2, <1>3, LedgerAssumption DEF Word
  <2> QED
    BY <2>1, LedgerAssumption
<1>5. p = q
  BY <1>4
<1> QED
  BY <1>1, <1>2, <1>5, LedgerAssumption

(* Counting on from a truncated counter. *)
LEMMA TruncatedSum ==
  ASSUME NEW x \in Int, NEW y \in Int
  PROVE  Add(x % WordModulus, y) = (x + y) % WordModulus
<1> DEFINE z == (x % WordModulus) + y
<1>1. x % WordModulus \in Int /\ z \in Int
  BY WidthDivides DEF Word
<1>2. PICK q \in Int : x = WordModulus * q + (x % WordModulus)
  BY WidthDivides
<1>3. PICK p \in Int : z = WordModulus * p + (z % WordModulus)
  BY <1>1, WidthDivides
<1>4. z % WordModulus \in Word /\ z % WordModulus \in Int
  BY <1>1, WidthDivides DEF Word
<1>5. x + y = WordModulus * (p + q) + (z % WordModulus)
  <2>1. WordModulus * (p + q) = WordModulus * p + WordModulus * q
    BY LedgerAssumption
  <2>2. WordModulus * p \in Int /\ WordModulus * q \in Int
    BY LedgerAssumption
  <2>3. x + y = WordModulus * q + z
    BY <1>1, <1>2, <2>2
  <2> HIDE DEF z
  <2> QED
    BY <1>1, <1>3, <1>4, <2>1, <2>2, <2>3
<1>6. p + q \in Int /\ x + y \in Int
  OBVIOUS
<1> HIDE DEF z
<1>7. (x + y) % WordModulus = z % WordModulus
  BY <1>4, <1>5, <1>6, RemainderIsUnique
<1> QED
  BY <1>7 DEF z, Add

-----------------------------------------------------------------------------
(* BytesOf, for any map. *)
BytesIn(map, S) == {b \in S \X (1 .. MaxSize) : b[2] <= map[b[1]].size}

(* One more block. *)
LEMMA BlockAdds ==
  ASSUME NEW map, NEW S \in SUBSET Pointer, NEW a \in Pointer, a \notin S, map[a].size \in Size
  PROVE  /\ Cardinality(BytesIn(map, S \cup {a})) = Cardinality(BytesIn(map, S)) + map[a].size
         /\ Cardinality(BytesIn(map, S)) \in Nat
<1> DEFINE n     == map[a].size
           block == {a} \X (1 .. n)
<1>1. n \in Nat /\ 0 <= n /\ n <= MaxSize /\ MaxSize \in Nat
  BY LedgerAssumption DEF Size
<1>2. IsFiniteSet(BytesIn(map, S)) /\ Cardinality(BytesIn(map, S)) \in Nat
  <2>1. IsFiniteSet(Pointer \X (1 .. MaxSize))
    <3>1. IsFiniteSet(1 .. MaxSize)
      BY <1>1, FS_Interval
    <3> QED BY <3>1, FinitePointers, FS_Product
  <2>2. BytesIn(map, S) \subseteq Pointer \X (1 .. MaxSize)
    BY DEF BytesIn
  <2>3. IsFiniteSet(BytesIn(map, S))
    BY <2>1, <2>2, FS_Subset
  <2> QED
    BY <2>3, FS_CardinalityType
<1>3. IsFiniteSet(block) /\ Cardinality(block) = n
  <2>1. IsFiniteSet(1 .. n) /\ Cardinality(1 .. n) = n
    <3> HIDE DEF n
    <3>1. IsFiniteSet(1 .. n) /\ Cardinality(1 .. n) = IF 1 > n THEN 0 ELSE n - 1 + 1
      BY <1>1, FS_Interval
    <3> QED BY <1>1, <3>1
  <2>2. IsFiniteSet({a}) /\ Cardinality({a}) = 1
    BY FS_Singleton
  <2> DEFINE sizes == 1 .. n
  <2> HIDE DEF n, sizes
  <2>3. IsFiniteSet({a} \X sizes) /\ Cardinality({a} \X sizes) = 1 * n
    <3>1. IsFiniteSet(sizes) /\ Cardinality(sizes) = n
      BY <2>1 DEF sizes
    <3> QED BY <2>2, <3>1, FS_Product
  <2> QED
    BY <1>1, <2>3 DEF sizes
<1>4. BytesIn(map, S \cup {a}) = BytesIn(map, S) \cup block /\ BytesIn(map, S) \cap block = {}
  <2>1. /\ BytesIn(map, S \cup {a}) = BytesIn(map, S) \cup BytesIn(map, {a})
        /\ BytesIn(map, S) \cap BytesIn(map, {a}) = {}
    BY DEF BytesIn
  <2>2. BytesIn(map, {a}) = block
    <3>1. \A i : i \in 1 .. n <=> i \in 1 .. MaxSize /\ i <= n
      BY <1>1
    <3> QED
      BY <3>1 DEF BytesIn
  <2> QED
    BY <2>1, <2>2
<1> HIDE DEF n, block
<1>5. Cardinality(BytesIn(map, S \cup {a}))
        = Cardinality(BytesIn(map, S)) + Cardinality(block) - Cardinality(BytesIn(map, S) \cap block)
  <2>1. Cardinality(BytesIn(map, S) \cup block)
          = Cardinality(BytesIn(map, S)) + Cardinality(block) - Cardinality(BytesIn(map, S) \cap block)
    BY <1>2, <1>3, FS_Union
  <2> QED
    BY <1>4, <2>1
<1>6. Cardinality(BytesIn(map, S) \cap block) = 0
  BY <1>4, FS_EmptySet
<1>7. Cardinality(BytesIn(map, S \cup {a})) = Cardinality(BytesIn(map, S)) + n
  BY <1>1, <1>2, <1>3, <1>5, <1>6
<1> QED
  BY <1>2, <1>7 DEF n

(* One block less. *)
LEMMA BlockSubtracts ==
  ASSUME NEW map, NEW S \in SUBSET Pointer, NEW a \in S, map[a].size \in Size
  PROVE  /\ Cardinality(BytesIn(map, S \ {a})) = Cardinality(BytesIn(map, S)) - map[a].size
         /\ Cardinality(BytesIn(map, S)) \in Nat
<1>1. (S \ {a}) \cup {a} = S /\ S \ {a} \in SUBSET Pointer /\ a \in Pointer /\ a \notin S \ {a}
  OBVIOUS
<1>2. /\ Cardinality(BytesIn(map, S)) = Cardinality(BytesIn(map, S \ {a})) + map[a].size
      /\ Cardinality(BytesIn(map, S \ {a})) \in Nat
  BY <1>1, BlockAdds
<1> QED
  BY <1>2, LedgerAssumption DEF Size

(* Blocks whose records did not change have as many bytes as before. *)
LEMMA SameBytes ==
  ASSUME NEW map, NEW new, NEW S, \A a \in S : new[a] = map[a]
  PROVE  BytesIn(new, S) = BytesIn(map, S)
BY DEF BytesIn

LEMMA TotalIn ==
  /\ TotalSize(Open) = Cardinality(BytesIn(allocations, Open))
  /\ TotalSize(Reconciled) = Cardinality(BytesIn(allocations, Reconciled))
  /\ TotalSize(Open)' = Cardinality(BytesIn(allocations', Open'))
BY DEF TotalSize, BytesOf, BytesIn

(***************************************************************************)
(* Bytes against the map: what was allocated and not freed is the size of  *)
(* the open allocations, modulo the counters' width, as long as no record  *)
(* collided and no realloc was orphaned since the last CLEAR; however      *)
(* often the counters wrap around.                                         *)
(***************************************************************************)
THEOREM BytesAgree == LedgerSpec => []BytesBalance
<1>1. LedgerInit => BytesBalance
  <2> SUFFICES ASSUME LedgerInit PROVE BytesBalance
    OBVIOUS
  <2>1. BytesOf(Open) = {}
    BY DEF LedgerInit, Open, BytesOf
  <2>2. TotalSize(Open) = 0 /\ bytes_allocated = 0 /\ bytes_freed = 0
    BY <2>1, FS_EmptySet DEF LedgerInit, TotalSize
  <2> QED
    BY <2>2, LedgerAssumption DEF BytesBalance
<1>2. LedgerTypeOK /\ BytesBalance /\ [LedgerNext]_ledger_vars => BytesBalance'
  <2> SUFFICES ASSUME LedgerTypeOK, BytesBalance, [LedgerNext]_ledger_vars,
                      collisions' = {}, orphan_reallocs' = {}
               PROVE  bytes_allocated' = (bytes_freed' + TotalSize(Open)') % WordModulus
    BY DEF BytesBalance
  <2> DEFINE total == Cardinality(BytesIn(allocations, Open))
             total2 == Cardinality(BytesIn(allocations', Open'))
  <2>1. total \in Int /\ bytes_freed \in Int /\ Open \in SUBSET Pointer
    BY TotalIn, BytesAreCounted DEF LedgerTypeOK, Word, Open
  <2>2. collisions = {} /\ orphan_reallocs = {} =>
          bytes_allocated = (bytes_freed + total) % WordModulus
    BY TotalIn DEF BytesBalance
  <2>3. SUFFICES bytes_allocated' = (bytes_freed' + total2) % WordModulus
    BY TotalIn
  <2> HIDE DEF total, total2
  <2>4. ASSUME NEW r \in MallocRequest, HandleMalloc(r)
        PROVE  bytes_allocated' = (bytes_freed' + total2) % WordModulus
    <3>1. collisions = {} /\ orphan_reallocs = {}
      BY <2>4 DEF HandleMalloc, Collide
    <3>2. r.address \in Pointer /\ r.address \notin Open /\ Open' = Open \cup {r.address}
      BY <2>4, MallocOpens DEF MallocRequest
    <3>3. /\ allocations'[r.address] = [size |-> r.size, txn_id |-> r.txn_id]
          /\ \A a \in Open : allocations'[a] = allocations[a]
      BY <2>4, <3>2 DEF HandleMalloc, Emplace, LedgerTypeOK, Open
    <3>4. r.size \in Size /\ r.size \in Int
      BY LedgerAssumption DEF MallocRequest, Size
    <3>5. total2 = total + r.size
      BY <2>1, <3>2, <3>3, <3>4, BlockAdds, SameBytes DEF total, total2
    <3>6. bytes_allocated' = Add((bytes_freed + total) % WordModulus, r.size) /\ bytes_freed' = bytes_freed
      BY <2>2, <2>4, <3>1 DEF HandleMalloc
    <3>7. Add((bytes_freed + total) % WordModulus, r.size) = (bytes_freed + total + r.size) % WordModulus
      <4>1. bytes_freed + total \in Int
        BY <2>1
      <4> QED BY <3>4, <4>1, TruncatedSum
    <3> QED
      BY <2>1, <3>4, <3>5, <3>6, <3>7
  <2>5. ASSUME NEW r \in ReallocRequest, HandleRealloc(r)
        PROVE  bytes_allocated' = (bytes_freed' + total2) % WordModulus
    <3> DEFINE old == allocations[r.original].size
               kept == Open \ {r.original}
    <3>1. HandleReallocKnown(r) /\ collisions = {} /\ orphan_reallocs = {}
      BY <2>5 DEF HandleRealloc, HandleReallocKnown, HandleReallocUnknown, Collide
    <3>2. /\ r.original \in Open /\ r.original \in Pointer /\ r.new \in Pointer /\ r.new \notin kept
          /\ Open' = kept \cup {r.new}
      BY <3>1, ReallocMoves DEF ReallocRequest
    <3>3. /\ allocations'[r.new] = [size |-> r.size, txn_id |-> allocations[r.original].txn_id]
          /\ \A a \in kept : allocations'[a] = allocations[a]
      BY <3>1, <3>2 DEF HandleReallocKnown, Emplace, Erase, LedgerTypeOK, Open
    <3>4. r.size \in Size /\ r.size \in Int /\ old \in Size /\ old \in Int
      BY <3>2, LedgerAssumption DEF ReallocRequest, Size, LedgerTypeOK, Open, AllocationRecord
    <3>5. total2 = total + (r.size - old)
      <4>1. Cardinality(BytesIn(allocations, kept)) = total - old
        BY <2>1, <3>2, <3>4, BlockSubtracts DEF total
      <4>2. total2 = Cardinality(BytesIn(allocations, kept)) + r.size
        <5>1. total2 = Cardinality(BytesIn(allocations', kept)) + allocations'[r.new].size
          BY <2>1, <3>2, <3>3, <3>4, BlockAdds DEF total2
        <5> QED BY <3>3, <5>1, SameBytes
      <4> HIDE DEF kept, old
      <4> QED
        BY <2>1, <3>4, <4>1, <4>2
    <3>6. /\ bytes_allocated' = Add((bytes_freed + total) % WordModulus, r.size - old)
          /\ bytes_freed' = bytes_freed
      BY <2>2, <3>1 DEF HandleReallocKnown, Growth
    <3> HIDE DEF old, kept
    <3>7. Add((bytes_freed + total) % WordModulus, r.size - old)
            = (bytes_freed + total + (r.size - old)) % WordModulus
      <4>1. bytes_freed + total \in Int /\ r.size - old \in Int
        BY <2>1, <3>4
      <4> QED BY <4>1, TruncatedSum
    <3> QED
      BY <2>1, <3>4, <3>5, <3>6, <3>7
  <2>6. ASSUME NEW freed \in SUBSET Open, Open' = Open \ freed,
               \A a \in Open' : allocations'[a] = allocations[a],
               NEW size \in Int, size = Cardinality(BytesIn(allocations, freed)),
               bytes_freed' = Add(bytes_freed, size), bytes_allocated' = bytes_allocated,
               collisions = {}, orphan_reallocs = {}
        PROVE  bytes_allocated' = (bytes_freed' + total2) % WordModulus
    <3>1. total2 = total - size
      <4>1. /\ BytesIn(allocations, Open') = BytesIn(allocations, Open) \ BytesIn(allocations, freed)
            /\ BytesIn(allocations, freed) = BytesIn(allocations, Open) \cap BytesIn(allocations, freed)
        BY <2>6 DEF BytesIn
      <4>2. IsFiniteSet(BytesIn(allocations, Open))
        BY <2>1, BytesAreCounted DEF BytesOf, BytesIn
      <4>3. BytesIn(allocations', Open') = BytesIn(allocations, Open')
        BY <2>6, SameBytes
      <4>4. Cardinality(BytesIn(allocations, Open) \ BytesIn(allocations, freed)) =
              total - Cardinality(BytesIn(allocations, Open) \cap BytesIn(allocations, freed))
        BY <4>2, FS_Difference DEF total
      <4> QED
        BY <2>6, <4>1, <4>3, <4>4 DEF total2
    <3>2. bytes_freed' = (bytes_freed + size) % WordModulus /\ total - size \in Int
      BY <2>1, <2>6 DEF Add
    <3>3. Add((bytes_freed + size) % WordModulus, total - size)
            = (bytes_freed + size + (total - size)) % WordModulus
      BY <2>1, <3>2, TruncatedSum
    <3>4. bytes_freed + size + (total - size) = bytes_freed + total
      BY <2>1
    <3> QED
      BY <2>2, <2>6, <3>1, <3>2, <3>3, <3>4 DEF Add
  <2>7. ASSUME NEW r \in FreeRequest, HandleFree(r)
        PROVE  bytes_allocated' = (bytes_freed' + total2) % WordModulus
    <3>1. CASE HandleFreeKnown(r)
      <4>1. /\ r.block \in Open /\ r.block \in Pointer /\ Open' = Open \ {r.block}
            /\ allocations[r.block].size \in Size /\ allocations[r.block].size \in Int
        BY <3>1, FreeCloses, LedgerAssumption DEF Open, LedgerTypeOK, AllocationRecord, Size
      <4>2. \A a \in Open' : allocations'[a] = allocations[a]
        BY <3>1, <4>1 DEF HandleFreeKnown, Erase, LedgerTypeOK, Open
      <4>3. allocations[r.block].size = Cardinality(BytesIn(allocations, {r.block}))
        <5>1. /\ BytesIn(allocations, {} \cup {r.block}) = BytesIn(allocations, {r.block})
              /\ BytesIn(allocations, {}) = {}
          BY DEF BytesIn
        <5>2. Cardinality(BytesIn(allocations, {} \cup {r.block}))
                = Cardinality(BytesIn(allocations, {})) + allocations[r.block].size
          BY <4>1, BlockAdds
        <5>3. Cardinality(BytesIn(allocations, {})) = 0
          BY <5>1, FS_EmptySet
        <5> QED
          BY <4>1, <5>1, <5>2, <5>3
      <4>4. /\ bytes_freed' = Add(bytes_freed, allocations[r.block].size)
            /\ bytes_allocated' = bytes_allocated /\ collisions = {} /\ orphan_reallocs = {}
        BY <3>1 DEF HandleFreeKnown, anomalies
      <4> QED
        BY <2>6, <4>1, <4>2, <4>3, <4>4
    <3>2. CASE HandleFreeUnknown(r)
      <4>1. UNCHANGED <<allocations, counters, anomalies>>
        BY <3>2 DEF HandleFreeUnknown
      <4>2. total2 = total
        BY <4>1 DEF total, total2, Open
      <4> QED
        BY <2>2, <4>1, <4>2 DEF counters, anomalies
    <3> QED
      BY <2>7, <3>1, <3>2 DEF HandleFree
  <2>8. CASE HandleSnapshot
    <3>1. /\ Open' = Open \ Reconciled /\ Reconciled \in SUBSET Open
          /\ \A a \in Open' : allocations'[a] = allocations[a]
      BY <2>8 DEF HandleSnapshot, Open, Reconciled
    <3>2. TotalSize(Reconciled) \in Int
      BY <2>1, <3>1, BytesAreCounted
    <3>3. /\ bytes_freed' = Add(bytes_freed, TotalSize(Reconciled))
          /\ bytes_allocated' = bytes_allocated /\ collisions = {} /\ orphan_reallocs = {}
      BY <2>8 DEF HandleSnapshot, anomalies
    <3> QED
      BY <2>6, <3>1, <3>2, <3>3, TotalIn
  <2>9. CASE HandleStats \/ UNCHANGED ledger_vars
    <3>1. UNCHANGED ledger_vars
      BY <2>9 DEF HandleStats
    <3>2. total2 = total
      BY <3>1 DEF total, total2, Open, ledger_vars
    <3> QED
      BY <2>2, <3>1, <3>2 DEF ledger_vars, counters, anomalies
  <2>10. CASE HandleClear
    <3>1. BytesIn(allocations', Open') = {} /\ bytes_allocated' = 0 /\ bytes_freed' = 0
      BY <2>10 DEF HandleClear, Open, BytesIn
    <3>2. total2 = 0
      BY <3>1, FS_EmptySet DEF total2
    <3> QED
      BY <3>1, <3>2, LedgerAssumption
  <2> QED
    BY <2>4, <2>5, <2>7, <2>8, <2>9, <2>10 DEF LedgerNext
<1> QED
  BY <1>1, <1>2, LedgerTypeCorrect, PTL DEF LedgerSpec

-----------------------------------------------------------------------------
(***************************************************************************)
(* An entry of the map is attributed to the same malloc for as long as it  *)
(* is there: emplace never overwrites, and realloc carries txn_id over.    *)
(***************************************************************************)
THEOREM OriginsKept == LedgerSpec => EntriesKeepTheirOrigin
<1> DEFINE Kept == \A a \in Open \cap Open' : allocations'[a].txn_id = allocations[a].txn_id
<1>1. ASSUME LedgerTypeOK, NEW a \in Pointer, NEW record, NEW map,
             map = allocations \/ (\E b \in Pointer : map = Erase(allocations, b) /\
                                     record.txn_id = allocations[b].txn_id),
             allocations' = Emplace(map, a, record)
      PROVE  Kept
  BY <1>1 DEF LedgerTypeOK, Emplace, Erase, Open
<1>2. LedgerTypeOK /\ [LedgerNext]_ledger_vars => [Kept]_ledger_vars
  <2> SUFFICES ASSUME LedgerTypeOK, [LedgerNext]_ledger_vars
               PROVE  Kept
    OBVIOUS
  <2>1. ASSUME NEW r \in MallocRequest, HandleMalloc(r)
        PROVE  Kept
    BY <1>1, <2>1 DEF HandleMalloc, MallocRequest
  <2>2. ASSUME NEW r \in ReallocRequest, HandleRealloc(r)
        PROVE  Kept
    <3>1. r.original \in Pointer /\ r.new \in Pointer
      BY DEF ReallocRequest
    <3>2. CASE HandleReallocKnown(r)
      BY <1>1, <3>1, <3>2 DEF HandleReallocKnown
    <3>3. CASE HandleReallocUnknown(r)
      BY <1>1, <3>1, <3>3 DEF HandleReallocUnknown
    <3> QED
      BY <2>2, <3>2, <3>3 DEF HandleRealloc
  <2>3. ASSUME NEW r \in FreeRequest, HandleFree(r)
        PROVE  Kept
    BY <2>3 DEF HandleFree, HandleFreeKnown, HandleFreeUnknown, Erase, LedgerTypeOK, Open
  <2>4. CASE HandleSnapshot \/ HandleStats \/ HandleClear \/ UNCHANGED ledger_vars
    BY <2>4 DEF HandleSnapshot, HandleStats, HandleClear, ledger_vars, LedgerTypeOK, Open
  <2> QED
    BY <2>1, <2>2, <2>3, <2>4 DEF LedgerNext
<1> QED
  BY <1>2, LedgerTypeCorrect, PTL DEF LedgerSpec, EntriesKeepTheirOrigin
=============================================================================
