---------------------------- MODULE WorkerLedger ----------------------------
(***************************************************************************)
(* The bookkeeping of HeapWatcher's worker thread: what worker_main does   *)
(* with each request it takes from the queue.  Only the worker reads and   *)
(* writes these members, so each case of its switch is one action.         *)
(*                                                                         *)
(* allocations_ is a std::map; here it is a function over every pointer,   *)
(* with NoRecord where the map has no entry.  A record's stack trace is    *)
(* not modelled apart from its txn_id: malloc sets the two together and    *)
(* realloc carries them over together, so txn_id stands for both, and      *)
(* names the malloc the trace was taken in.                                *)
(***************************************************************************)
EXTENDS Integers, FiniteSets

CONSTANTS
  Addr,         \* the addresses the C library's heap can hand out
  Null,         \* the null pointer
  MaxSize,      \* the largest block size
  NoRecord,     \* "no entry in the map"
  TxnModulus,   \* txn ids are stored modulo this (2^32 in the code)
  WordModulus   \* byte counters are modulo this (2^64 in the code)

Pointer == Addr \cup {Null}
Size    == 0 .. MaxSize
TxnId   == 0 .. TxnModulus - 1
Word    == 0 .. WordModulus - 1

AllocationRecord == [size : Size, txn_id : TxnId]

ASSUME LedgerAssumption ==
  /\ Null \notin Addr
  /\ IsFiniteSet(Addr)
  /\ MaxSize \in Nat
  /\ TxnModulus \in Nat \ {0}
  /\ WordModulus \in Nat \ {0}
  /\ NoRecord \notin AllocationRecord

(***************************************************************************)
(* The requests of WorkerRequest.hpp, one record set for each payload.     *)
(***************************************************************************)
MallocRequest   == [op : {"MALLOC"}, address : Pointer, size : Size, txn_id : TxnId]
ReallocRequest  == [op : {"REALLOC"}, original : Pointer, new : Pointer, size : Size]
FreeRequest     == [op : {"FREE"}, block : Pointer]
ClearRequest    == [op |-> "CLEAR"]
SnapshotRequest == [op |-> "SNAPSHOT"]
StatsRequest    == [op |-> "STATS"]

RequestRecord == MallocRequest \cup ReallocRequest \cup FreeRequest
                   \cup {ClearRequest, SnapshotRequest, StatsRequest}

VARIABLES
  allocations,            \* open allocations, by address
  frees_without_mallocs,  \* addresses freed while the map had no entry for them
  number_of_mallocs,
  number_of_reallocs,
  number_of_frees,
  bytes_allocated,
  bytes_freed

(***************************************************************************)
(* Two history variables, for properties only: the keys for which the      *)
(* bookkeeping had to drop information since the last CLEAR.               *)
(***************************************************************************)
VARIABLES
  collisions,       \* emplace found an entry and discarded the new record
  orphan_reallocs   \* a realloc whose original block the map did not hold

counters    == <<number_of_mallocs, number_of_reallocs, number_of_frees,
                 bytes_allocated, bytes_freed>>
anomalies   == <<collisions, orphan_reallocs>>
ledger_vars == <<allocations, frees_without_mallocs, counters, anomalies>>

Open == {a \in Pointer : allocations[a] # NoRecord}

(***************************************************************************)
(* The bytes of the blocks in S, one pair per byte, and their number.      *)
(***************************************************************************)
BytesOf(S)   == {b \in S \X (1 .. MaxSize) : b[2] <= allocations[b[1]].size}
TotalSize(S) == Cardinality(BytesOf(S))

LedgerTypeOK ==
  /\ allocations \in [Pointer -> AllocationRecord \cup {NoRecord}]
  /\ frees_without_mallocs \subseteq Pointer
  /\ number_of_mallocs \in Nat
  /\ number_of_reallocs \in Nat
  /\ number_of_frees \in Nat
  /\ bytes_allocated \in Word
  /\ bytes_freed \in Word
  /\ collisions \subseteq Pointer
  /\ orphan_reallocs \subseteq Pointer

LedgerInit ==
  /\ allocations = [a \in Pointer |-> NoRecord]
  /\ frees_without_mallocs = {}
  /\ number_of_mallocs = 0
  /\ number_of_reallocs = 0
  /\ number_of_frees = 0
  /\ bytes_allocated = 0
  /\ bytes_freed = 0
  /\ collisions = {}
  /\ orphan_reallocs = {}

-----------------------------------------------------------------------------
(* Seeded bug: map[a] = record instead of emplace. *)
EmplaceOverwrites(map, a, record) == [map EXCEPT ![a] = record]

(* std::map::emplace keeps an entry that is already there. *)
Emplace(map, a, record) ==
  [map EXCEPT ![a] = IF map[a] = NoRecord THEN record ELSE @]

Collide(map, a) ==
  collisions' = IF map[a] = NoRecord THEN collisions ELSE collisions \cup {a}

(* Seeded bug: the entry stays in the map. *)
EraseForgotten(map, a) == map

Erase(map, a) == [map EXCEPT ![a] = NoRecord]

(* Seeded bug: a counter wider than the one it is compared with. *)
AddWide(counter, n) == counter + n

(* Unsigned arithmetic of the byte counters. *)
Add(counter, n) == (counter + n) % WordModulus

HandleMalloc(r) ==
  /\ number_of_mallocs' = number_of_mallocs + 1
  /\ bytes_allocated' = Add(bytes_allocated, r.size)
  /\ allocations' = Emplace(allocations, r.address, [size |-> r.size, txn_id |-> r.txn_id])
  /\ Collide(allocations, r.address)
  /\ UNCHANGED <<frees_without_mallocs, number_of_reallocs, number_of_frees,
                 bytes_freed, orphan_reallocs>>

(* Seeded bug: the old size stays in bytes_allocated_. *)
GrowthAddsUp(record, size) == size

(* What a realloc to size adds to bytes_allocated_. *)
Growth(record, size) == size - record.size

(***************************************************************************)
(* A realloc of a block in the map: the record moves to the new address    *)
(* with the new size and keeps its txn_id and stack trace.                 *)
(***************************************************************************)
HandleReallocKnown(r) ==
  LET record == allocations[r.original]
      erased == Erase(allocations, r.original)
  IN  /\ record # NoRecord
      /\ number_of_reallocs' = number_of_reallocs + 1
      /\ bytes_allocated' = Add(bytes_allocated, Growth(record, r.size))
      /\ allocations' = Emplace(erased, r.new, [size |-> r.size, txn_id |-> record.txn_id])
      /\ Collide(erased, r.new)
      /\ UNCHANGED <<frees_without_mallocs, number_of_mallocs, number_of_frees,
                     bytes_freed, orphan_reallocs>>

(* Seeded bug: a realloc of a block that is not in the map is ignored. *)
HandleReallocUnknownDropped(r) ==
  /\ allocations[r.original] = NoRecord
  /\ orphan_reallocs' = orphan_reallocs \cup {r.original}
  /\ UNCHANGED <<allocations, frees_without_mallocs, counters, collisions>>

(***************************************************************************)
(* A realloc of a block that is not in the map: the code reads txn_id and  *)
(* stack trace through allocations_.end(), which is undefined; the record  *)
(* gets whatever lies there.  bytes_allocated_ is left alone.              *)
(***************************************************************************)
HandleReallocUnknown(r) ==
  /\ allocations[r.original] = NoRecord
  /\ number_of_reallocs' = number_of_reallocs + 1
  /\ \E garbage \in TxnId :
       allocations' = Emplace(allocations, r.new, [size |-> r.size, txn_id |-> garbage])
  /\ Collide(allocations, r.new)
  /\ orphan_reallocs' = orphan_reallocs \cup {r.original}
  /\ UNCHANGED <<frees_without_mallocs, number_of_mallocs, number_of_frees,
                 bytes_allocated, bytes_freed>>

HandleRealloc(r) == HandleReallocKnown(r) \/ HandleReallocUnknown(r)

HandleFreeKnown(r) ==
  /\ allocations[r.block] # NoRecord
  /\ number_of_frees' = number_of_frees + 1
  /\ bytes_freed' = Add(bytes_freed, allocations[r.block].size)
  /\ allocations' = Erase(allocations, r.block)
  /\ UNCHANGED <<frees_without_mallocs, number_of_mallocs, number_of_reallocs,
                 bytes_allocated, anomalies>>

(* Seeded bug: a free that finds no entry is ignored. *)
EarlyFreeForgotten(block) == frees_without_mallocs

EarlyFree(block) == frees_without_mallocs \cup {block}

(* A free that overtook its malloc, or of a block the watcher never saw. *)
HandleFreeUnknown(r) ==
  /\ allocations[r.block] = NoRecord
  /\ frees_without_mallocs' = EarlyFree(r.block)
  /\ UNCHANGED <<allocations, counters, anomalies>>

HandleFree(r) == HandleFreeKnown(r) \/ HandleFreeUnknown(r)

(* Seeded bug: the records are moved into the snapshot, not copied. *)
ReconciledMoves == Open

(***************************************************************************)
(* GET_ALLOCATION_SNAPSHOT first settles the frees that came before their  *)
(* mallocs.  The set of such frees is not emptied.                         *)
(***************************************************************************)
Reconciled == Open \cap frees_without_mallocs

HandleSnapshot ==
  /\ number_of_frees' = number_of_frees + Cardinality(Reconciled)
  /\ bytes_freed' = Add(bytes_freed, TotalSize(Reconciled))
  /\ allocations' = [a \in Pointer |-> IF a \in Reconciled THEN NoRecord ELSE allocations[a]]
  /\ UNCHANGED <<frees_without_mallocs, number_of_mallocs, number_of_reallocs,
                 bytes_allocated, anomalies>>

(* GET_HIGH_LEVEL_STATS reads the counters and settles nothing. *)
HandleStats == UNCHANGED ledger_vars

(* CLEAR_ALLOCATION_MAP.  LedgerInit is the same assignments. *)
HandleClear ==
  /\ allocations' = [a \in Pointer |-> NoRecord]
  /\ frees_without_mallocs' = {}
  /\ number_of_mallocs' = 0
  /\ number_of_reallocs' = 0
  /\ number_of_frees' = 0
  /\ bytes_allocated' = 0
  /\ bytes_freed' = 0
  /\ collisions' = {}
  /\ orphan_reallocs' = {}

LedgerNext ==
  \/ \E r \in MallocRequest : HandleMalloc(r)
  \/ \E r \in ReallocRequest : HandleRealloc(r)
  \/ \E r \in FreeRequest : HandleFree(r)
  \/ HandleSnapshot
  \/ HandleStats
  \/ HandleClear

LedgerSpec == LedgerInit /\ [][LedgerNext]_ledger_vars

-----------------------------------------------------------------------------
(* The open allocations a snapshot taken now would report. *)
Reported == Open \ frees_without_mallocs

(***************************************************************************)
(* Counters against the map (BasicTests.cpp compares them after every      *)
(* workload): as long as no record collided and no realloc was orphaned,   *)
(* the mallocs not yet counted as freed are exactly the open allocations,  *)
(* whatever the order in which mallocs and frees arrived.                  *)
(***************************************************************************)
CountsBalance ==
  collisions = {} /\ orphan_reallocs = {} =>
    number_of_mallocs = number_of_frees + Cardinality(Open)

(***************************************************************************)
(* The same for bytes: what was allocated and not freed is the total size  *)
(* of the open allocations, modulo the counters' width.                    *)
(***************************************************************************)
BytesBalance ==
  collisions = {} /\ orphan_reallocs = {} =>
    bytes_allocated = (bytes_freed + TotalSize(Open)) % WordModulus

(***************************************************************************)
(* An entry never changes the malloc it is attributed to: the stack trace  *)
(* reported for an open allocation is the one taken when the entry was     *)
(* made, through every realloc, until the entry is erased.                 *)
(***************************************************************************)
EntriesKeepTheirOrigin ==
  [][\A a \in Open \cap Open' : allocations'[a].txn_id = allocations[a].txn_id]_ledger_vars
=============================================================================
