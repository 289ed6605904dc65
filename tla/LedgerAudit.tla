---------------------------- MODULE LedgerAudit -----------------------------
(***************************************************************************)
(* The worker's bookkeeping under every possible stream of requests, with  *)
(* an audit kept beside it: for each address, how many acquisitions and    *)
(* how many releases the worker has been told of since the last CLEAR.     *)
(* The queue gives no order between threads, so nothing is assumed about   *)
(* the order of the stream: frees may come before their mallocs, and an    *)
(* address may be acquired again before its release is heard of.           *)
(***************************************************************************)
EXTENDS WorkerLedger

CONSTANT MaxRequests   \* bound on the requests handled between two CLEARs

ASSUME AuditAssumption == MaxRequests \in Nat

VARIABLES
  acquired,   \* [Pointer -> Nat]: mallocs and realloc results handled
  released,   \* [Pointer -> Nat]: frees and realloc originals handled
  handled     \* requests handled since the last CLEAR

audit_vars == <<ledger_vars, acquired, released, handled>>

AuditTypeOK ==
  /\ LedgerTypeOK
  /\ acquired \in [Pointer -> Nat]
  /\ released \in [Pointer -> Nat]
  /\ handled \in 0 .. MaxRequests

AuditInit ==
  /\ LedgerInit
  /\ acquired = [a \in Pointer |-> 0]
  /\ released = [a \in Pointer |-> 0]
  /\ handled = 0

Tally(count, a) == [count EXCEPT ![a] = @ + 1]

AuditMalloc(r) ==
  /\ HandleMalloc(r)
  /\ acquired' = Tally(acquired, r.address)
  /\ UNCHANGED released

AuditRealloc(r) ==
  /\ HandleRealloc(r)
  /\ acquired' = Tally(acquired, r.new)
  /\ released' = Tally(released, r.original)

AuditFree(r) ==
  /\ HandleFree(r)
  /\ released' = Tally(released, r.block)
  /\ UNCHANGED acquired

AuditQuery ==
  /\ HandleSnapshot \/ HandleStats
  /\ UNCHANGED <<acquired, released>>

AuditRecord ==
  /\ handled < MaxRequests
  /\ handled' = handled + 1
  /\ \/ \E r \in MallocRequest : AuditMalloc(r)
     \/ \E r \in ReallocRequest : AuditRealloc(r)
     \/ \E r \in FreeRequest : AuditFree(r)
     \/ AuditQuery

AuditClear ==
  /\ HandleClear
  /\ acquired' = [a \in Pointer |-> 0]
  /\ released' = [a \in Pointer |-> 0]
  /\ handled' = 0

AuditNext == AuditRecord \/ AuditClear

AuditSpec == AuditInit /\ [][AuditNext]_audit_vars

-----------------------------------------------------------------------------
(* Addresses about which the ledger's only anomaly can be a lost record. *)
Trusted == Pointer \ (frees_without_mallocs \cup orphan_reallocs)

(***************************************************************************)
(* No false leak: whatever the order of the stream, a reported address     *)
(* has been acquired more often than released, unless a realloc of it was  *)
(* handled before the record of the block it resized.  This is what        *)
(* frees_without_mallocs_ is for.                                          *)
(***************************************************************************)
ReportsOnlyUnreleased ==
  \A a \in Reported \ orphan_reallocs : acquired[a] > released[a]

(***************************************************************************)
(* No lost leak: an address acquired more often than released is reported, *)
(* unless some free of it came early, a realloc of it was orphaned, or a   *)
(* record for it was discarded because the address was already in the map. *)
(***************************************************************************)
ReportsEveryUnreleased ==
  \A a \in Trusted \ collisions : acquired[a] > released[a] => a \in Reported

(***************************************************************************)
(* The inductive invariant behind both: for a trusted address the releases *)
(* handled and the open entry never outnumber the acquisitions, and        *)
(* account for all of them when no record of the address was discarded.    *)
(***************************************************************************)
OpenCount(a) == IF a \in Open THEN 1 ELSE 0

Balance ==
  \A a \in Trusted :
    /\ released[a] + OpenCount(a) <= acquired[a]
    /\ a \notin collisions => released[a] + OpenCount(a) = acquired[a]
=============================================================================
