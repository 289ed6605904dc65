---------------------------- MODULE ReportProofs ----------------------------
(***************************************************************************)
(* Proofs about what a session reports, for any set of threads and         *)
(* addresses, any mix of calls and commands and any bounds: that it misses *)
(* no block at a fresh address, that what it reports and is not live is    *)
(* about to be released, that the application passes on only live blocks,  *)
(* and that no two open allocations are attributed to the same malloc.     *)
(***************************************************************************)
EXTENDS SessionProofs

(* The addresses whose entry the record r makes, and whose entry it ends. *)
Opens(r) ==
  CASE r.op = "MALLOC"  -> {r.address}
    [] r.op = "REALLOC" -> {r.new}
    [] OTHER            -> {}

Closes(r) ==
  CASE r.op = "FREE"    -> {r.block}
    [] r.op = "REALLOC" -> {r.original} \ {r.new}
    [] OTHER            -> {}

(* A call that may still leave a record of what the C library did for it. *)
Flying(t) == pc[t] \in {"check", "enqueue"}

-----------------------------------------------------------------------------
(***************************************************************************)
(* Calls under way.  The application calls only the functions it uses (the *)
(* guards free their tokens); a free has no result; and a realloc that     *)
(* returned NULL for a block that is still there had no memory to give.    *)
(***************************************************************************)
FailedRealloc(c) == c.fn = "realloc" /\ c.result = Null /\ c.arg # Null /\ c.size # 0

CallInv ==
  \A t \in Thread : pc[t] \in InCall =>
    /\ call[t].fn \in Calls \cup {"free"}
    /\ call[t].fn = "free" => call[t].result = Null
    /\ pc[t] = "libc" => call[t].result = Null
    /\ pc[t] # "libc" /\ FailedRealloc(call[t]) => HeapMayFail

(* What a step of t may do to the calls under way. *)
LEMMA CallInvStep ==
  ASSUME TypeInv, CallInv, NEW t \in Thread, NEW place, NEW c,
         pc' = [pc EXCEPT ![t] = place], call' = [call EXCEPT ![t] = c],
         place \in InCall =>
           /\ c.fn \in Calls \cup {"free"}
           /\ c.fn = "free" => c.result = Null
           /\ place = "libc" => c.result = Null
           /\ place # "libc" /\ FailedRealloc(c) => HeapMayFail
  PROVE  CallInv'
<1> SUFFICES ASSUME NEW u \in Thread, pc'[u] \in InCall
             PROVE  /\ call'[u].fn \in Calls \cup {"free"}
                    /\ call'[u].fn = "free" => call'[u].result = Null
                    /\ pc'[u] = "libc" => call'[u].result = Null
                    /\ pc'[u] # "libc" /\ FailedRealloc(call'[u]) => HeapMayFail
  BY DEF CallInv, FailedRealloc
<1>1. CASE u = t
  <2>1. pc'[t] = place /\ call'[t] = c
    BY DEF TypeInv, Types
  <2> QED BY <1>1, <2>1
<1>2. CASE u # t
  <2>1. pc'[u] = pc[u] /\ call'[u] = call[u]
    BY <1>2 DEF TypeInv, Types
  <2> QED BY <2>1 DEF CallInv
<1> QED BY <1>1, <1>2

(* Loading a hook. *)
LEMMA EnterCallInv ==
  ASSUME TypeInv, CallInv, NEW t \in Thread, NEW fn \in Calls \cup {"free"}, NEW site, NEW arg,
         NEW size, Enter(t, fn, site, arg, size)
  PROVE  CallInv'
<1> DEFINE c == [fn |-> fn, hook |-> hooks[fn], site |-> site, arg |-> arg, size |-> size,
                 result |-> Null, seen |-> 0]
<1>1. c.fn = fn /\ c.result = Null
  OBVIOUS
<1>2. pc' = [pc EXCEPT ![t] = "libc"] /\ call' = [call EXCEPT ![t] = c]
  BY DEF Enter, GoTo
<1> HIDE DEF c
<1> QED
  BY <1>1, <1>2, CallInvStep

(* The C library's function. *)
LEMMA LibcCallInv ==
  ASSUME TypeInv, CallInv, NEW t \in Thread, NEW c, Libc(t, c),
         c.fn \in Calls \cup {"free"}, c.fn = "free" => c.result = Null,
         FailedRealloc(c) => HeapMayFail
  PROVE  CallInv'
<1>1. \/ pc' = [pc EXCEPT ![t] = "idle"] /\ call' = [call EXCEPT ![t] = NoCall]
      \/ pc' = [pc EXCEPT ![t] = "check"] /\ call' = [call EXCEPT ![t] = c]
  BY DEF Libc, ReturnUnrecorded, Return, GoTo
<1>2. "idle" \notin InCall
  BY DEF InCall
<1> QED
  BY <1>1, <1>2, CallInvStep

(* A call that is about to leave a record, or to be ignored, is the same.  *)
LEMMA CheckedCall ==
  ASSUME TypeInv, NEW t \in Thread, CheckWatched(t)
  PROVE  \E place \in {"count", "enqueue"}, c \in Call :
           /\ place = "count" => c.fn \in Acquiring
           /\ pc' = [pc EXCEPT ![t] = place] /\ call' = [call EXCEPT ![t] = c]
           /\ c.fn = call[t].fn /\ c.arg = call[t].arg /\ c.size = call[t].size
           /\ c.result = call[t].result
<1> DEFINE seen  == IF IgnoresCall(call[t]) THEN number_of_known_leaks ELSE 0
           place == IF IgnoresCall(call[t]) THEN "count" ELSE "enqueue"
           c     == [call[t] EXCEPT !.seen = seen]
<1>1. call[t] \in Call /\ seen \in Nat
  BY DEF CheckWatched, TypeInv, Types, InCallHasCall, InCall
<1>2. place \in {"count", "enqueue"} /\ GoTo(t, place) /\ call' = [call EXCEPT ![t] = c]
  BY DEF CheckWatched
<1>4. place = "count" => call[t].fn \in Acquiring
  BY DEF IgnoresCall
<1> HIDE DEF seen, place
<1>3. /\ c \in Call /\ c.fn = call[t].fn /\ c.arg = call[t].arg /\ c.size = call[t].size
      /\ c.result = call[t].result
  BY <1>1 DEF Call
<1> HIDE DEF c
<1> QED
  BY <1>2, <1>3, <1>4 DEF GoTo

(* A call, completed by what the C library returned. *)
LEMMA CompletedCall ==
  ASSUME TypeInv, CallInv, NEW t \in Thread, LibcMalloc(t) \/ LibcRealloc(t) \/ LibcFree(t)
  PROVE  /\ pc[t] = "libc" /\ call[t] \in Call
         /\ \E c \in Call :
              /\ Libc(t, c)
              /\ c.fn = call[t].fn /\ c.arg = call[t].arg
              /\ c.fn \in Calls \cup {"free"}
              /\ c.fn = "free" => c.result = Null
              /\ FailedRealloc(c) => HeapMayFail
              /\ \/ c.result \in (Addr \ heap) \cup {Null}
                 \/ c.fn = "realloc" /\ c.result = c.arg
<1>1. /\ pc[t] = "libc" /\ call[t] \in Call
      /\ call[t].fn \in Calls \cup {"free"} /\ call[t].result = Null
  BY DEF LibcMalloc, LibcRealloc, LibcFree, TypeInv, InCallHasCall, InCall, CallInv
<1>2. CASE LibcFree(t)
  BY <1>1, <1>2 DEF LibcFree, FailedRealloc
<1>3. CASE LibcMalloc(t) \/ LibcRealloc(t)
  <2>1. PICK a : /\ Libc(t, [call[t] EXCEPT !.result = a])
                 /\ a \in Fresh \cup {Null} \/ (call[t].fn = "realloc" /\ a = call[t].arg)
                 /\ call[t].fn = "realloc" /\ call[t].arg # Null /\ call[t].size # 0 =>
                      a \in Fresh \cup {call[t].arg}
    <3>1. CASE LibcMalloc(t)
      <4>1. PICK a \in Fresh : Libc(t, [call[t] EXCEPT !.result = a])
        BY <3>1 DEF LibcMalloc
      <4>2. call[t].fn # "realloc"
        BY <3>1 DEF LibcMalloc, Acquiring
      <4> WITNESS a
      <4> QED
        BY <4>1, <4>2
    <3>2. CASE LibcRealloc(t)
      <4>1. PICK a \in CASE call[t].arg = Null -> Fresh
                        [] call[t].arg # Null /\ call[t].size = 0 -> {Null}
                        [] call[t].arg # Null /\ call[t].size # 0 -> {call[t].arg} \cup Fresh :
                   Libc(t, [call[t] EXCEPT !.result = a])
        BY <3>2 DEF LibcRealloc
      <4>2. call[t].fn = "realloc"
        BY <3>2 DEF LibcRealloc
      <4> WITNESS a
      <4> QED
        BY <4>1, <4>2
    <3> QED BY <1>3, <3>1, <3>2
  <2>2. /\ Fresh \subseteq (Addr \ heap) \cup {Null} /\ (Null \in Fresh => HeapMayFail)
        /\ call[t].arg \in Pointer
    BY <1>1, CallParts, LedgerAssumption DEF Fresh
  <2>3. a \in Pointer
    BY <2>1, <2>2 DEF Pointer
  <2> DEFINE c == [call[t] EXCEPT !.result = a]
  <2>4. /\ c \in Call /\ c.fn = call[t].fn /\ c.arg = call[t].arg /\ c.size = call[t].size
        /\ c.result = a
    BY <1>1, <2>3 DEF Call
  <2>5. Libc(t, c) /\ c.fn # "free"
    BY <1>1, <1>3, <2>1, <2>4 DEF LibcMalloc, LibcRealloc, Acquiring
  <2> HIDE DEF c
  <2> QED
    BY <1>1, <2>1, <2>2, <2>4, <2>5 DEF FailedRealloc
<1> QED
  BY <1>1, <1>2, <1>3

LEMMA HeapCallCallInv ==
  ASSUME TypeInv, CallInv, NEW t \in Thread, HeapCall(t)
  PROVE  CallInv'
<1>1. CASE BeginCall(t)
  BY <1>1, EnterCallInv DEF BeginCall
<1>2. CASE LibcMalloc(t) \/ LibcRealloc(t) \/ LibcFree(t)
  BY <1>2, CompletedCall, LibcCallInv
<1>3. CASE CheckUnwatched(t) \/ CountKnownLeak(t) \/ EnqueueRecord(t)
  <2>1. pc' = [pc EXCEPT ![t] = "idle"] /\ call' = [call EXCEPT ![t] = NoCall]
    BY <1>3 DEF CheckUnwatched, CountKnownLeak, EnqueueRecord, ReturnUnrecorded, Return, GoTo
  <2>2. "idle" \notin InCall
    BY DEF InCall
  <2> QED BY <2>1, <2>2, CallInvStep
<1>4. CASE CheckWatched(t)
  <2>1. PICK place \in {"count", "enqueue"}, c \in Call :
          /\ pc' = [pc EXCEPT ![t] = place] /\ call' = [call EXCEPT ![t] = c]
          /\ c.fn = call[t].fn /\ c.arg = call[t].arg /\ c.size = call[t].size
          /\ c.result = call[t].result
    BY <1>4, CheckedCall
  <2>2. pc[t] = "check" /\ pc[t] \in InCall
    BY <1>4 DEF CheckWatched, InCall
  <2>4. /\ call[t].fn \in Calls \cup {"free"}
        /\ call[t].fn = "free" => call[t].result = Null
        /\ FailedRealloc(call[t]) => HeapMayFail
    BY <2>2 DEF CallInv
  <2> QED
    BY <2>1, <2>4, CallInvStep DEF FailedRealloc
<1> QED
  BY <1>1, <1>2, <1>3, <1>4 DEF HeapCall

(* Steps of commands and of the worker leave the calls alone. *)
LEMMA CallFrame ==
  ASSUME TypeInv, NEW t \in Thread,
         Pause(t) \/ CallStart(t) \/ CallStop(t) \/ Ask(t) \/ CommandStep(t) \/ WorkerHandles(t)
  PROVE  /\ UNCHANGED call
         /\ \A u \in Thread : pc'[u] # pc[u] => pc[u] \notin InCall /\ pc'[u] \notin InCall
<1>1. UNCHANGED call
  BY DEF Pause, CallStart, CallStop, Ask, WorkerHandles, CommandStep, StartLock, StartCleared,
         StartStoreHook, StartWatching, StopLock, StopStoreHook, StopAsk, StopReturn, AskReturn,
         unchanged_by_commands
<1>2. \/ UNCHANGED pc
      \/ pc[t] \notin InCall /\ \E place \in {"idle"} \cup InCommand : pc' = [pc EXCEPT ![t] = place]
  BY DEF Pause, CallStart, CallStop, Ask, WorkerHandles, CommandStep, StartLock, StartCleared,
         StartStoreHook, StartWatching, StopLock, StopStoreHook, StopAsk, StopReturn, AskReturn,
         TakeAnswer, GoTo, Issue, InCall, InCommand
<1>3. \A place \in {"idle"} \cup InCommand : place \notin InCall
  BY DEF InCall, InCommand
<1> QED
  BY <1>1, <1>2, <1>3 DEF TypeInv, Types

LEMMA CallInvNext ==
  ASSUME TypeInv, CallInv, [Next]_vars
  PROVE  CallInv'
<1>1. ASSUME NEW t \in Thread, Resume(t)
      PROVE  CallInv'
  BY <1>1, EnterCallInv DEF Resume
<1>2. ASSUME NEW t \in Thread,
             Pause(t) \/ CallStart(t) \/ CallStop(t) \/ Ask(t) \/ CommandStep(t) \/ WorkerHandles(t)
      PROVE  CallInv'
  <2>1. UNCHANGED call /\ \A u \in Thread : pc'[u] \in InCall => pc'[u] = pc[u]
    BY <1>2, CallFrame
  <2> QED
    BY <2>1 DEF CallInv, FailedRealloc
<1>3. CASE UNCHANGED vars
  BY <1>3 DEF vars, CallInv, FailedRealloc
<1> QED
  BY <1>1, <1>2, <1>3, HeapCallCallInv DEF Next, ThreadStep, Worker

LEMMA CallInvHolds == Spec => []CallInv
<1>1. Init => CallInv
  BY DEF Init, InitWith, CallInv, InCall
<1> QED
  BY <1>1, CallInvNext, TypeInvHolds, PTL DEF Spec

-----------------------------------------------------------------------------
(***************************************************************************)
(* The queue as the set of its requests.                                   *)
(***************************************************************************)
LEMMA PendingIs ==
  ASSUME TypeInv
  PROVE  /\ Pending \subseteq RequestRecord
         /\ Pending = {r \in RequestRecord :
                         \E t \in Thread : \E i \in 1 .. Len(worker_request_queue[t]) :
                           worker_request_queue[t][i] = r}
<1> SUFFICES Pending = {r \in RequestRecord :
                         \E t \in Thread : \E i \in 1 .. Len(worker_request_queue[t]) :
                           worker_request_queue[t][i] = r}
  OBVIOUS
<1>1. \A t \in Thread : /\ DOMAIN worker_request_queue[t] = 1 .. Len(worker_request_queue[t])
                        /\ \A i \in 1 .. Len(worker_request_queue[t]) :
                             worker_request_queue[t][i] \in RequestRecord
  BY LenProperties DEF TypeInv, Types
<1> QED
  BY <1>1 DEF Pending, QueueRange

(* A request sent. *)
LEMMA PendingGrows ==
  ASSUME TypeInv, NEW t \in Thread, NEW r \in RequestRecord, Send(t, r)
  PROVE  Pending' = Pending \cup {r}
<1> DEFINE queue == worker_request_queue[t]
           sent  == Append(queue, r)
<1>1. queue \in Seq(RequestRecord)
  BY DEF TypeInv, Types
<1>2. /\ Len(queue) \in Nat /\ Len(sent) = Len(queue) + 1 /\ sent \in Seq(RequestRecord)
      /\ \A i \in 1 .. Len(queue) : sent[i] = queue[i]
      /\ sent[Len(queue) + 1] = r
  BY <1>1, AppendProperties, LenProperties
<1>3. /\ worker_request_queue'[t] = sent
      /\ \A u \in Thread \ {t} : worker_request_queue'[u] = worker_request_queue[u]
  BY DEF Send, TypeInv, Types
<1> HIDE DEF queue, sent
<1>4. /\ DOMAIN queue = 1 .. Len(queue) /\ DOMAIN sent = 1 .. Len(sent)
  BY <1>1, <1>2, LenProperties
<1>5. {sent[i] : i \in DOMAIN sent} = {queue[i] : i \in DOMAIN queue} \cup {r}
  <2>1. \A i \in 1 .. Len(sent) : i \in 1 .. Len(queue) \/ i = Len(queue) + 1
    BY <1>2
  <2>2. Len(queue) + 1 \in 1 .. Len(sent) /\ \A i \in 1 .. Len(queue) : i \in 1 .. Len(sent)
    BY <1>2
  <2> QED
    BY <1>2, <1>4, <2>1, <2>2
<1>6. QueueRange(t)' = QueueRange(t) \cup {r}
  BY <1>3, <1>5 DEF QueueRange, queue
<1>7. \A u \in Thread \ {t} : QueueRange(u)' = QueueRange(u)
  BY <1>3 DEF QueueRange
<1> QED
  BY <1>6, <1>7 DEF Pending

(* A request taken: another of the same value may still be in the queue. *)
LEMMA PendingShrinks ==
  ASSUME TypeInv, NEW t \in Thread, WorkerHandles(t)
  PROVE  LET r == Head(worker_request_queue[t])
         IN  /\ r \in RequestRecord /\ r \in Pending
             /\ HandleRecord(r) \/ HandleCommand(t, r)
             /\ Pending' \subseteq Pending /\ Pending \subseteq Pending' \cup {r}
<1> DEFINE queue == worker_request_queue[t]
           r     == Head(queue)
           rest  == Tail(queue)
<1>1. queue \in Seq(RequestRecord) /\ queue # <<>> /\ (HandleRecord(r) \/ HandleCommand(t, r))
  BY DEF WorkerHandles, Ready, TypeInv, Types
<1>2. /\ Len(queue) \in Nat \ {0} /\ Len(rest) = Len(queue) - 1 /\ r = queue[1] /\ r \in RequestRecord
      /\ \A i \in 1 .. Len(rest) : rest[i] = queue[i + 1]
      /\ rest \in Seq(RequestRecord)
  BY <1>1, HeadTailProperties, EmptySeq
<1>3. /\ worker_request_queue'[t] = rest
      /\ \A u \in Thread \ {t} : worker_request_queue'[u] = worker_request_queue[u]
  BY DEF WorkerHandles, TypeInv, Types
<1> HIDE DEF queue, r, rest
<1>4. DOMAIN queue = 1 .. Len(queue) /\ DOMAIN rest = 1 .. Len(rest)
  BY <1>1, <1>2, LenProperties
<1>5. {queue[i] : i \in DOMAIN queue} = {rest[i] : i \in DOMAIN rest} \cup {r}
  <2>1. 1 \in 1 .. Len(queue) /\ \A i \in 1 .. Len(rest) : i + 1 \in 1 .. Len(queue)
    BY <1>2
  <2>2. \A i \in 1 .. Len(queue) : i = 1 \/ (i - 1 \in 1 .. Len(rest) /\ queue[i] = rest[i - 1])
    <3>1. \A i \in 1 .. Len(queue) : i = 1 \/ (i - 1 \in 1 .. Len(rest) /\ (i - 1) + 1 = i)
      BY <1>2
    <3> QED BY <1>2, <3>1
  <2>3. {queue[i] : i \in 1 .. Len(queue)} \subseteq {rest[i] : i \in 1 .. Len(rest)} \cup {r}
    BY <1>2, <2>2
  <2>4. {rest[i] : i \in 1 .. Len(rest)} \cup {r} \subseteq {queue[i] : i \in 1 .. Len(queue)}
    BY <1>2, <2>1
  <2> QED
    BY <1>4, <2>3, <2>4
<1>6. QueueRange(t) = QueueRange(t)' \cup {r}
  BY <1>3, <1>5 DEF QueueRange, queue
<1>7. \A u \in Thread \ {t} : QueueRange(u)' = QueueRange(u)
  BY <1>3 DEF QueueRange
<1> QED
  BY <1>1, <1>2, <1>6, <1>7 DEF Pending, r, queue

(* What a record does to the open allocations. *)
LEMMA RecordSteps ==
  ASSUME TypeInv, NEW r \in RequestRecord, HandleRecord(r)
  PROVE  /\ Open' = (Open \ Closes(r)) \cup Opens(r)
         /\ frees_without_mallocs' = frees_without_mallocs
                                       \cup IF r.op = "FREE" /\ r.block \notin Open THEN {r.block} ELSE {}
         /\ orphan_reallocs' = orphan_reallocs
                                 \cup IF r.op = "REALLOC" /\ r.original \notin Open
                                        THEN {r.original} ELSE {}
<1>1. LedgerTypeOK
  BY DEF TypeInv, Types
<1>2. CASE r.op = "MALLOC"
  <2>1. r \in MallocRequest /\ HandleMalloc(r)
    BY <1>2, RequestKinds DEF HandleRecord
  <2>2. r.address \in Pointer /\ [size |-> r.size, txn_id |-> r.txn_id] # NoRecord
    BY <2>1, LedgerAssumption DEF MallocRequest, AllocationRecord
  <2>3. Open' = Open \cup {r.address}
    BY <1>1, <2>1, <2>2 DEF HandleMalloc, Emplace, Open, LedgerTypeOK
  <2> QED
    BY <1>2, <2>1, <2>3 DEF HandleMalloc, Opens, Closes
<1>3. CASE r.op = "REALLOC"
  <2>1. r \in ReallocRequest /\ HandleRealloc(r) /\ r.original \in Pointer /\ r.new \in Pointer
    BY <1>3, RequestKinds DEF HandleRecord, ReallocRequest
  <2>2. CASE HandleReallocKnown(r)
    <3> DEFINE record == [size |-> r.size, txn_id |-> allocations[r.original].txn_id]
               erased == Erase(allocations, r.original)
    <3>1. r.original \in Open /\ allocations[r.original] \in AllocationRecord
      BY <1>1, <2>1, <2>2 DEF HandleReallocKnown, Open, LedgerTypeOK
    <3>2. record # NoRecord
      BY <2>1, <3>1, LedgerAssumption DEF AllocationRecord, ReallocRequest
    <3>3. \A b \in Pointer : erased[b] = IF b = r.original THEN NoRecord ELSE allocations[b]
      BY <1>1 DEF Erase, LedgerTypeOK
    <3>4. \A b \in Pointer : allocations'[b] = IF b = r.new /\ erased[b] = NoRecord
                                                 THEN record ELSE erased[b]
      BY <1>1, <2>1, <2>2 DEF HandleReallocKnown, Emplace, Erase, LedgerTypeOK
    <3> HIDE DEF record, erased
    <3>5. Open' = (Open \ ({r.original} \ {r.new})) \cup {r.new}
      BY <2>1, <3>1, <3>2, <3>3, <3>4 DEF Open
    <3> QED
      BY <1>3, <2>2, <3>1, <3>5 DEF HandleReallocKnown, Opens, Closes
  <2>3. CASE HandleReallocUnknown(r)
    <3>1. PICK garbage \in TxnId :
            allocations' = Emplace(allocations, r.new, [size |-> r.size, txn_id |-> garbage])
      BY <2>3 DEF HandleReallocUnknown
    <3>2. [size |-> r.size, txn_id |-> garbage] # NoRecord
      BY <2>1, LedgerAssumption DEF AllocationRecord, ReallocRequest
    <3>3. Open' = Open \cup {r.new}
      BY <1>1, <2>1, <3>1, <3>2 DEF Emplace, Open, LedgerTypeOK
    <3>4. r.original \notin Open
      BY <2>3 DEF HandleReallocUnknown, Open
    <3> QED
      BY <1>3, <2>3, <3>3, <3>4 DEF HandleReallocUnknown, Opens, Closes
  <2> QED BY <2>1, <2>2, <2>3 DEF HandleRealloc
<1>4. CASE r.op = "FREE"
  <2>1. r \in FreeRequest /\ HandleFree(r) /\ r.block \in Pointer
    BY <1>4, RequestKinds DEF HandleRecord, FreeRequest
  <2>2. CASE HandleFreeKnown(r)
    BY <1>1, <1>4, <2>1, <2>2, FreeCloses DEF HandleFreeKnown, anomalies, Opens, Closes
  <2>3. CASE HandleFreeUnknown(r)
    BY <1>4, <2>1, <2>3 DEF HandleFreeUnknown, EarlyFree, anomalies, Opens, Closes, Open
  <2> QED BY <2>1, <2>2, <2>3 DEF HandleFree
<1> QED
  BY <1>2, <1>3, <1>4 DEF HandleRecord

-----------------------------------------------------------------------------
(***************************************************************************)
(* Blocks at fresh addresses.  An address that was neither released in     *)
(* this session nor left over from before it has no release on the way, in *)
(* the queue or in a call, and no early free: nothing can close its entry. *)
(* FreshBlocksReported does not say so, and is not inductive: a FREE of    *)
(* the block could be in the queue, or remembered from before.             *)
(***************************************************************************)
CleanAt(a) ==
  /\ a \notin frees_without_mallocs
  /\ \A r \in Pending : a \notin Closes(r)
  /\ \A t \in Thread : Flying(t) => a \notin ReleasedBy(call[t])
  /\ a \in watched => a \in Open \/ \E r \in Pending : a \in Opens(r)

FreshInv == \A a \in Addr \ (released \cup doubtful) : CleanAt(a)

(***************************************************************************)
(* The record of a failed realloc ends the entry of a block that is still  *)
(* live (instrumented_realloc does not look at the result), so the theorem *)
(* is about programs in which none fails.                                  *)
(***************************************************************************)
NoFailedReallocs == ~HeapMayFail \/ "realloc" \notin Calls

LEMMA NeverFails ==
  ASSUME NoFailedReallocs, CallInv, NEW t \in Thread, Flying(t)
  PROVE  ~FailedRealloc(call[t])
BY DEF NoFailedReallocs, CallInv, Flying, InCall, FailedRealloc

(* The record of a call closes what the call released, no more. *)
LEMMA RecordOfCall ==
  ASSUME NEW c \in Call, c.fn = "free" => c.result = Null
  PROVE  /\ ~FailedRealloc(c) => Closes(RequestOf(c)) \cap Addr \subseteq ReleasedBy(c)
         /\ {c.result} \ {Null} \subseteq Opens(RequestOf(c))
         /\ Opens(RequestOf(c)) \subseteq {c.result}
<1>1. c.fn \in HeapFunction /\ c.arg \in Pointer /\ c.result \in Pointer /\ c.size \in Nat
  BY CallParts, ConstantTypes
<1>2. CASE c.fn \in Acquiring
  BY <1>2 DEF RequestOf, Closes, Opens, Acquiring
<1>3. CASE c.fn = "realloc"
  <2>1. RequestOf(c) = [op |-> "REALLOC", original |-> c.arg, new |-> c.result, size |-> c.size]
    BY <1>3 DEF RequestOf, Acquiring
  <2> QED
    BY <1>1, <1>3, <2>1, LedgerAssumption DEF Closes, Opens, FailedRealloc, ReleasedBy
<1>4. CASE c.fn = "free"
  <2>1. RequestOf(c) = [op |-> "FREE", block |-> c.arg]
    BY <1>4 DEF RequestOf, Acquiring
  <2> QED
    BY <1>1, <1>4, <2>1, LedgerAssumption DEF Closes, Opens, ReleasedBy
<1> QED
  BY <1>1, <1>2, <1>3, <1>4 DEF HeapFunction, StoreOrder, Acquiring

(* What a step of a thread, or of a command, may do. *)
LEMMA FreshStep ==
  ASSUME FreshInv, UNCHANGED <<allocations, frees_without_mallocs>>,
         released \subseteq released', doubtful \subseteq doubtful', Pending \subseteq Pending',
         \A a \in watched' \ watched : \E r \in Pending' : a \in Opens(r),
         \A r \in Pending' \ Pending : \A a \in Addr \cap Closes(r) :
           \E u \in Thread : Flying(u) /\ a \in ReleasedBy(call[u]),
         \A u \in Thread : \A a \in Addr :
           Flying(u)' /\ a \in ReleasedBy(call'[u]) =>
             a \in released' \/ (Flying(u) /\ a \in ReleasedBy(call[u]))
  PROVE  FreshInv'
<1> SUFFICES ASSUME NEW a \in Addr, a \notin released', a \notin doubtful'
             PROVE  CleanAt(a)'
  BY DEF FreshInv
<1>1. CleanAt(a)
  BY DEF FreshInv
<1>2. (a \notin frees_without_mallocs)' /\ Open' = Open
  BY <1>1 DEF CleanAt, Open
<1>3. \A r \in Pending' : a \notin Closes(r)
  BY <1>1 DEF CleanAt
<1>4. \A u \in Thread : Flying(u)' => a \notin ReleasedBy(call'[u])
  BY <1>1 DEF CleanAt
<1>5. a \in watched' => a \in Open' \/ \E r \in Pending' : a \in Opens(r)
  BY <1>1, <1>2 DEF CleanAt
<1> HIDE DEF Flying
<1> QED
  BY <1>2, <1>3, <1>4, <1>5 DEF CleanAt

(* Other threads fly on when thread t takes a step. *)
LEMMA OthersFly ==
  ASSUME TypeInv, NEW t \in Thread, NEW place, NEW c,
         pc' = [pc EXCEPT ![t] = place], call' = [call EXCEPT ![t] = c]
  PROVE  /\ (Flying(t)' <=> place \in {"check", "enqueue"}) /\ call'[t] = c
         /\ \A u \in Thread \ {t} : (Flying(u)' <=> Flying(u)) /\ call'[u] = call[u]
BY DEF TypeInv, Types, Flying

LEMMA HeapCallFresh ==
  ASSUME NoFailedReallocs, TypeInv, CallInv, FreshInv, NEW t \in Thread, HeapCall(t)
  PROVE  FreshInv'
<1>1. UNCHANGED <<allocations, frees_without_mallocs>>
  BY DEF HeapCall, BeginCall, LibcMalloc, LibcRealloc, LibcFree, Libc, CheckUnwatched,
         CheckWatched, CountKnownLeak, EnqueueRecord, ledger_vars
<1>2. CASE BeginCall(t)
  <2>1. PICK c : pc' = [pc EXCEPT ![t] = "libc"] /\ call' = [call EXCEPT ![t] = c]
    BY <1>2 DEF BeginCall, Enter, GoTo
  <2>2. ~Flying(t)'
    BY <2>1 DEF Flying, TypeInv, Types
  <2>3. Pending' = Pending /\ UNCHANGED <<released, doubtful, watched>>
    BY <1>2 DEF BeginCall, Pending, QueueRange, history_vars
  <2>4. \A u \in Thread : Flying(u)' => Flying(u) /\ call'[u] = call[u]
    BY <2>1, <2>2, OthersFly
  <2> QED
    BY <1>1, <2>3, <2>4, FreshStep
<1>3. CASE LibcMalloc(t) \/ LibcRealloc(t) \/ LibcFree(t)
  <2>1. PICK c : Libc(t, c)
    BY <1>3 DEF LibcMalloc, LibcRealloc, LibcFree
  <2>2. \/ pc' = [pc EXCEPT ![t] = "idle"] /\ call' = [call EXCEPT ![t] = NoCall]
        \/ pc' = [pc EXCEPT ![t] = "check"] /\ call' = [call EXCEPT ![t] = c]
    BY <2>1 DEF Libc, ReturnUnrecorded, Return, GoTo
  <2>3. /\ Pending' = Pending /\ released' = released \cup ReleasedBy(c)
        /\ watched' \subseteq watched /\ doubtful \subseteq doubtful'
    BY <2>1 DEF Libc, ReturnUnrecorded, Pending, QueueRange
  <2>4. Flying(t)' => call'[t] = c
    BY <2>2, OthersFly
  <2>5. \A u \in Thread \ {t} : (Flying(u)' <=> Flying(u)) /\ call'[u] = call[u]
    BY <2>2, OthersFly
  <2> QED
    BY <1>1, <2>3, <2>4, <2>5, FreshStep
<1>4. CASE CheckUnwatched(t) \/ CountKnownLeak(t)
  <2>1. pc' = [pc EXCEPT ![t] = "idle"] /\ call' = [call EXCEPT ![t] = NoCall]
    BY <1>4 DEF CheckUnwatched, CountKnownLeak, ReturnUnrecorded, Return, GoTo
  <2>2. ~Flying(t)'
    BY <2>1 DEF Flying, TypeInv, Types
  <2>3. Pending' = Pending /\ UNCHANGED <<released, watched>> /\ doubtful \subseteq doubtful'
    BY <1>4 DEF CheckUnwatched, CountKnownLeak, ReturnUnrecorded, Pending, QueueRange
  <2>4. \A u \in Thread : Flying(u)' => Flying(u) /\ call'[u] = call[u]
    BY <2>1, <2>2, OthersFly
  <2> QED
    BY <1>1, <2>3, <2>4, FreshStep
<1>5. CASE CheckWatched(t)
  <2>1. PICK place \in {"count", "enqueue"}, c \in Call :
          /\ pc' = [pc EXCEPT ![t] = place] /\ call' = [call EXCEPT ![t] = c]
          /\ c.fn = call[t].fn /\ c.arg = call[t].arg /\ c.size = call[t].size
          /\ c.result = call[t].result
    BY <1>5, CheckedCall
  <2>2. ReleasedBy(c) = ReleasedBy(call[t]) /\ Flying(t)
    BY <1>5, <2>1 DEF ReleasedBy, CheckWatched, Flying
  <2>3. Pending' = Pending /\ UNCHANGED <<released, watched, doubtful>>
    BY <1>5 DEF CheckWatched, Pending, QueueRange, history_vars
  <2>4. call'[t] = c /\ \A u \in Thread \ {t} : (Flying(u)' <=> Flying(u)) /\ call'[u] = call[u]
    BY <2>1, OthersFly
  <2> QED
    BY <1>1, <2>2, <2>3, <2>4, FreshStep
<1>6. CASE EnqueueRecord(t)
  <2> DEFINE c == call[t]
             r == RequestOf(c)
  <2>1. c \in Call /\ Flying(t) /\ (c.fn = "free" => c.result = Null)
    BY <1>6 DEF EnqueueRecord, TypeInv, InCallHasCall, InCall, CallInv, Flying
  <2>2. /\ Closes(r) \cap Addr \subseteq ReleasedBy(c)
        /\ {c.result} \ {Null} \subseteq Opens(r)
    BY <2>1, NeverFails, RecordOfCall
  <2>3. r \in RequestRecord
    BY <2>1, RequestType DEF RequestRecord, TypeInv, Types
  <2>4. /\ Send(t, r) /\ watched' = watched \cup ({c.result} \ {Null})
        /\ UNCHANGED <<released, doubtful>>
        /\ pc' = [pc EXCEPT ![t] = "idle"] /\ call' = [call EXCEPT ![t] = NoCall]
    BY <1>6 DEF EnqueueRecord, Return, GoTo
  <2> HIDE DEF r
  <2>5. Pending' = Pending \cup {r}
    BY <2>3, <2>4, PendingGrows
  <2>6. ~Flying(t)'
    BY <2>4 DEF Flying, TypeInv, Types
  <2>7. \A u \in Thread \ {t} : (Flying(u)' <=> Flying(u)) /\ call'[u] = call[u]
    BY <2>4, OthersFly
  <2> QED
    BY <1>1, <2>1, <2>2, <2>4, <2>5, <2>6, <2>7, FreshStep
<1> QED
  BY <1>2, <1>3, <1>4, <1>5, <1>6 DEF HeapCall

(* Commands send requests that open and close nothing. *)
LEMMA CommandClosesNothing ==
  ASSUME NEW r \in Asked
  PROVE  Closes(r) = {} /\ Opens(r) = {}
BY DEF Asked, ClearRequest, SnapshotRequest, StatsRequest, Closes, Opens

LEMMA CommandQueues ==
  ASSUME TypeInv, NEW t \in Thread,
         Pause(t) \/ Resume(t) \/ CallStart(t) \/ CallStop(t) \/ Ask(t) \/ CommandStep(t)
  PROVE  UNCHANGED worker_request_queue \/ \E r \in Asked : Send(t, r)
BY DEF Pause, Resume, CallStart, CallStop, Ask, CommandStep, StartLock, StartCleared,
       StartStoreHook, StartWatching, StopLock, StopStoreHook, StopAsk, StopReturn, AskReturn,
       Asked

LEMMA CommandSends ==
  ASSUME TypeInv, NEW t \in Thread,
         Pause(t) \/ Resume(t) \/ CallStart(t) \/ CallStop(t) \/ Ask(t) \/ CommandStep(t)
  PROVE  /\ UNCHANGED <<ledger_vars, released, doubtful, watched>>
         /\ Pending' = Pending \/ \E r \in Asked : Pending' = Pending \cup {r}
         /\ \A u \in Thread : (Flying(u)' <=> Flying(u)) /\ (Flying(u) => call'[u] = call[u])
<1>1. UNCHANGED <<ledger_vars, released, doubtful, watched>>
  BY DEF Pause, Resume, CallStart, CallStop, Ask, CommandStep, StartLock, StartCleared,
         StartStoreHook, StartWatching, StopLock, StopStoreHook, StopAsk, StopReturn, AskReturn,
         unchanged_by_commands, history_vars
<1>2. Pending' = Pending \/ \E r \in Asked : Pending' = Pending \cup {r}
  <2>1. UNCHANGED worker_request_queue \/ \E r \in Asked : Send(t, r)
    BY CommandQueues
  <2>2. CASE UNCHANGED worker_request_queue
    BY <2>2 DEF Pending, QueueRange
  <2>3. ASSUME NEW r \in Asked, Send(t, r)
        PROVE  Pending' = Pending \cup {r}
    BY <2>3, PendingGrows, CommandRequests DEF Asked
  <2> QED BY <2>1, <2>2, <2>3
<1>3. \A u \in Thread : (Flying(u)' <=> Flying(u)) /\ (Flying(u) => call'[u] = call[u])
  <2>1. CASE Resume(t)
    <3>1. PICK c : pc' = [pc EXCEPT ![t] = "libc"] /\ call' = [call EXCEPT ![t] = c]
      BY <2>1 DEF Resume, Enter, GoTo
    <3>2. ~Flying(t)' /\ ~Flying(t)
      BY <2>1, <3>1 DEF Flying, TypeInv, Types, Resume
    <3> QED BY <3>1, <3>2, OthersFly
  <2>2. CASE Pause(t) \/ CallStart(t) \/ CallStop(t) \/ Ask(t) \/ CommandStep(t)
    BY <2>2, CallFrame DEF Flying, InCall
  <2> QED BY <2>1, <2>2
<1> QED
  BY <1>1, <1>2, <1>3

LEMMA CommandFresh ==
  ASSUME TypeInv, FreshInv, NEW t \in Thread,
         Pause(t) \/ Resume(t) \/ CallStart(t) \/ CallStop(t) \/ Ask(t) \/ CommandStep(t)
  PROVE  FreshInv'
BY CommandSends, CommandClosesNothing, FreshStep DEF ledger_vars

(* An address that is not left over is mentioned nowhere. *)
LEMMA NotLeftOver ==
  ASSUME TypeInv, NEW a \in Addr, a \notin LeftOver
  PROVE  /\ \A r \in Pending : a \notin Closes(r) /\ a \notin Opens(r)
         /\ \A t \in Thread : Flying(t) => a # call[t].arg /\ a # call[t].result
<1>1. \A r \in Pending : a \notin Mentioned(r)
  BY DEF LeftOver
<1>2. \A t \in Thread : Flying(t) => a \notin {call[t].arg, call[t].result}
  BY DEF LeftOver, InFlight, Flying
<1>3. \A r \in Pending : Closes(r) \subseteq Mentioned(r) /\ Opens(r) \subseteq Mentioned(r)
  BY DEF Mentioned, Closes, Opens
<1> QED
  BY <1>1, <1>2, <1>3

LEMMA WorkerFresh ==
  ASSUME TypeInv, FreshInv, NEW t \in Thread, WorkerHandles(t)
  PROVE  FreshInv'
<1> DEFINE r == Head(worker_request_queue[t])
<1>1. /\ r \in RequestRecord /\ r \in Pending
      /\ HandleRecord(r) \/ HandleCommand(t, r)
      /\ Pending' \subseteq Pending /\ Pending \subseteq Pending' \cup {r}
  BY PendingShrinks
<1>2. \A u \in Thread : (Flying(u)' <=> Flying(u)) /\ call'[u] = call[u]
  BY DEF WorkerHandles, Flying
<1> HIDE DEF r
<1> SUFFICES ASSUME NEW a \in Addr, a \notin released', a \notin doubtful'
             PROVE  CleanAt(a)'
  BY DEF FreshInv
<1>3. CASE HandleRecord(r)
  <2>1. CleanAt(a) /\ UNCHANGED watched
    BY <1>3 DEF FreshInv, HandleRecord
  <2>2. Open' = (Open \ Closes(r)) \cup Opens(r)
    BY <1>1, <1>3, RecordSteps
  <2>3. a \notin Closes(r)
    BY <1>1, <2>1 DEF CleanAt
  <2>4. a \notin frees_without_mallocs'
    BY <1>1, <1>3, <2>1, <2>3, RecordSteps DEF CleanAt, Closes
  <2> QED
    BY <1>1, <1>2, <2>1, <2>2, <2>3, <2>4 DEF CleanAt
<1>4. CASE HandleCommand(t, r) /\ r.op = "CLEAR"
  <2>1. a \notin LeftOver /\ watched' = {} /\ frees_without_mallocs' = {}
    BY <1>4 DEF HandleCommand, HandleClear
  <2>2. \A u \in Thread : Flying(u) => a \notin ReleasedBy(call[u])
    BY <2>1, NotLeftOver DEF ReleasedBy
  <2> QED
    BY <1>1, <1>2, <2>1, <2>2, NotLeftOver DEF CleanAt
<1>5. CASE HandleCommand(t, r) /\ r.op # "CLEAR"
  <2>1. /\ UNCHANGED <<watched, released, doubtful, frees_without_mallocs>>
        /\ r.op \in {"SNAPSHOT", "STATS"}
        /\ HandleSnapshot \/ HandleStats
    BY <1>5 DEF HandleCommand, HandleSnapshot, HandleStats, ledger_vars
  <2>2. CleanAt(a)
    BY <2>1 DEF FreshInv
  <2>3. a \in Open => a \in Open'
    BY <2>1, <2>2 DEF HandleSnapshot, HandleStats, ledger_vars, Open, Reconciled, CleanAt
  <2>4. Opens(r) = {}
    BY <2>1 DEF Opens
  <2> QED
    BY <1>1, <1>2, <2>1, <2>2, <2>3, <2>4 DEF CleanAt
<1> QED
  BY <1>1, <1>3, <1>4, <1>5

(* No record is open at first. *)
LEMMA FreshInit == Init => FreshInv
<1> SUFFICES ASSUME Init PROVE FreshInv
  OBVIOUS
<1>1. TypeInv
  BY TypeInit
<1>2. Pending = {}
  <2>1. \A t \in Thread : Len(worker_request_queue[t]) = 0
    BY EmptySeq DEF Init, InitWith
  <2> QED BY <1>1, <2>1, PendingIs
<1>3. frees_without_mallocs = {} /\ watched = {} /\ \A t \in Thread : ~Flying(t)
  BY DEF Init, InitWith, LedgerInit, Flying
<1> QED
  BY <1>2, <1>3 DEF FreshInv, CleanAt

(* Every step keeps fresh addresses clean. *)
LEMMA FreshNext ==
  ASSUME NoFailedReallocs, TypeInv, CallInv, FreshInv, [Next]_vars
  PROVE  FreshInv'
<1>1. CASE UNCHANGED vars
  BY <1>1 DEF vars, FreshInv, CleanAt, Pending, QueueRange, Flying, Open, ledger_vars,
              history_vars
<1> QED
  BY <1>1, HeapCallFresh, CommandFresh, WorkerFresh DEF Next, ThreadStep, Worker

(***************************************************************************)
(* No lost leak: in a program in which no realloc fails, a live block      *)
(* whose acquisition was enqueued in this session is reported as soon as   *)
(* the worker has handled the record, in whatever order it handles the     *)
(* records of the threads, unless its address was released earlier in the  *)
(* session or has records left over from before it.                        *)
(***************************************************************************)
THEOREM FreshBlocksAreReported == NoFailedReallocs => (Spec => []FreshBlocksReported)
<1> SUFFICES ASSUME NoFailedReallocs
             PROVE  Spec => []FreshBlocksReported
  OBVIOUS
<1>1. Init => FreshInv
  BY FreshInit
<1>2. TypeInv /\ CallInv /\ FreshInv /\ [Next]_vars => FreshInv'
  BY FreshNext
<1>3. TypeInv /\ FreshInv => FreshBlocksReported
  <2> SUFFICES ASSUME TypeInv, FreshInv, NEW a \in watched \ (released \cup doubtful)
               PROVE  a \in Reported \/ AcquisitionQueued(a)
    BY DEF FreshBlocksReported
  <2>1. CleanAt(a)
    BY DEF FreshInv, TypeInv, Types
  <2>2. \A r \in Pending : a \in Opens(r) => AcquisitionQueued(a)
    BY DEF Opens, AcquisitionQueued
  <2> QED
    BY <2>1, <2>2 DEF CleanAt, Reported
<1> QED
  BY <1>1, <1>2, <1>3, CallInvHolds, TypeInvHolds, PTL DEF Spec

-----------------------------------------------------------------------------
(***************************************************************************)
(* False leaks.  For an address, the entries it has or will get (its open  *)
(* entry, the acquisitions in the queue and those about to be enqueued)    *)
(* are no more than the blocks it has and the releases that the worker has *)
(* yet to hear of.  NoFalseLeak speaks of the open entry alone, which is   *)
(* not inductive: with one release and two acquisitions in the queue the   *)
(* worker may handle the release between them.  A realloc in place counts  *)
(* on neither side.                                                        *)
(***************************************************************************)
One(holds) == IF holds THEN 1 ELSE 0

Gaining(a) == {r \in RequestRecord : a \in Opens(r) /\ ~(r.op = "REALLOC" /\ r.original = a)}
Closing(a) == {r \in RequestRecord : a \in Closes(r)}

QueuedIn(R) == {p \in Thread \X Nat : /\ p[2] \in 1 .. Len(worker_request_queue[p[1]])
                                      /\ worker_request_queue[p[1]][p[2]] \in R}

AcquiredBy(c) == IF c.fn = "free" THEN {}
                 ELSE IF c.fn = "realloc" THEN {c.result} \ {Null, c.arg} ELSE {c.result} \ {Null}

Gets(t, a)  == Flying(t) /\ a \in AcquiredBy(call[t])
Gives(t, a) == Flying(t) /\ a \in ReleasedBy(call[t])

Getting(a) == {t \in Thread : Gets(t, a)}
Giving(a)  == {t \in Thread : Gives(t, a)}

Balance(a) ==
  One(a \in Open) + Cardinality(QueuedIn(Gaining(a))) + Cardinality(Getting(a))
    <= One(a \in heap) + Cardinality(QueuedIn(Closing(a))) + Cardinality(Giving(a))

(* What there is to count is finite, for any number of threads. *)
Countable == IsFiniteSet(QueuedIn(RequestRecord)) /\ IsFiniteSet({t \in Thread : Flying(t)})

LeakInv ==
  /\ Countable
  /\ \A a \in Addr \ (doubtful \cup frees_without_mallocs \cup orphan_reallocs) : Balance(a)

(* Two sets that differ in one element at most. *)
LEMMA OneDiffers ==
  ASSUME NEW S, NEW T, NEW x, IsFiniteSet(S), S \ {x} = T \ {x}
  PROVE  /\ IsFiniteSet(T)
         /\ Cardinality(S) \in Nat /\ Cardinality(T) \in Nat
         /\ Cardinality(T) = Cardinality(S) - One(x \in S) + One(x \in T)
<1>1. IsFiniteSet(S \cup {x}) /\ T \subseteq S \cup {x}
  BY FS_AddElement
<1>2. IsFiniteSet(T)
  BY <1>1, FS_Subset
<1>3. Cardinality(S) \in Nat /\ Cardinality(T) \in Nat
  BY <1>2, FS_CardinalityType
<1>4. Cardinality(S \ {x}) = IF x \in S THEN Cardinality(S) - 1 ELSE Cardinality(S)
  BY FS_RemoveElement
<1>5. Cardinality(T \ {x}) = IF x \in T THEN Cardinality(T) - 1 ELSE Cardinality(T)
  BY <1>2, FS_RemoveElement
<1> QED
  BY <1>2, <1>3, <1>4, <1>5 DEF One

(* Whatever is counted is finite. *)
LEMMA Counted ==
  ASSUME Countable, NEW R \in SUBSET RequestRecord, NEW a
  PROVE  /\ IsFiniteSet(QueuedIn(R)) /\ Cardinality(QueuedIn(R)) \in Nat
         /\ IsFiniteSet(Getting(a)) /\ Cardinality(Getting(a)) \in Nat
         /\ IsFiniteSet(Giving(a)) /\ Cardinality(Giving(a)) \in Nat
<1>1. QueuedIn(R) \subseteq QueuedIn(RequestRecord)
  BY DEF QueuedIn
<1>2. /\ Getting(a) \subseteq {t \in Thread : Flying(t)}
      /\ Giving(a) \subseteq {t \in Thread : Flying(t)}
  BY DEF Getting, Giving, Gets, Gives
<1>3. IsFiniteSet(QueuedIn(R)) /\ IsFiniteSet(Getting(a)) /\ IsFiniteSet(Giving(a))
  BY <1>1, <1>2, FS_Subset DEF Countable
<1> QED
  BY <1>3, FS_CardinalityType

(* A request sent is one more of its kind. *)
LEMMA SentIsQueued ==
  ASSUME TypeInv, NEW t \in Thread, NEW r \in RequestRecord, Send(t, r),
         NEW R, IsFiniteSet(QueuedIn(R))
  PROVE  /\ IsFiniteSet(QueuedIn(R)')
         /\ Cardinality(QueuedIn(R)') = Cardinality(QueuedIn(R)) + One(r \in R)
<1> DEFINE queue == worker_request_queue[t]
           sent  == Append(queue, r)
           last  == <<t, Len(queue) + 1>>
<1>1. queue \in Seq(RequestRecord)
  BY DEF TypeInv, Types
<1>2. /\ Len(queue) \in Nat /\ Len(sent) = Len(queue) + 1
      /\ \A i \in 1 .. Len(queue) : sent[i] = queue[i]
      /\ sent[Len(queue) + 1] = r
  BY <1>1, AppendProperties, LenProperties
<1>3. /\ worker_request_queue'[t] = sent
      /\ \A u \in Thread \ {t} : worker_request_queue'[u] = worker_request_queue[u]
  BY DEF Send, TypeInv, Types
<1>4. \A i : /\ i \in 1 .. Len(sent) <=> i \in 1 .. Len(queue) \/ i = Len(queue) + 1
             /\ i \in 1 .. Len(queue) => i # Len(queue) + 1
             /\ i = Len(queue) + 1 => i \in Nat
  BY <1>2
<1>5. \A p \in Thread \X Nat : p[1] = t => (p = last <=> p[2] = Len(queue) + 1)
  OBVIOUS
<1>6. \A p \in Thread \X Nat : p \in QueuedIn(R)' <=> p \in QueuedIn(R) \/ (p = last /\ r \in R)
  <2> SUFFICES ASSUME NEW u \in Thread, NEW i \in Nat
               PROVE  <<u, i>> \in QueuedIn(R)' <=> <<u, i>> \in QueuedIn(R) \/ (<<u, i>> = last /\ r \in R)
    OBVIOUS
  <2>1. CASE u # t
    BY <1>3, <2>1 DEF QueuedIn
  <2>2. CASE u = t
    <3>1. <<u, i>> = last <=> i = Len(queue) + 1
      BY <2>2
    <3>2. <<u, i>> \in QueuedIn(R)' <=> i \in 1 .. Len(sent) /\ sent[i] \in R
      BY <1>3, <2>2 DEF QueuedIn
    <3>3. <<u, i>> \in QueuedIn(R) <=> i \in 1 .. Len(queue) /\ queue[i] \in R
      BY <2>2 DEF QueuedIn
    <3> HIDE DEF queue, sent, last
    <3> QED
      BY <1>2, <1>4, <3>1, <3>2, <3>3
  <2> QED BY <2>1, <2>2
<1>7. last \in Thread \X Nat /\ last \notin QueuedIn(R)
  BY <1>2, <1>4 DEF QueuedIn
<1>8. QueuedIn(R) \subseteq Thread \X Nat /\ QueuedIn(R)' \subseteq Thread \X Nat
  BY DEF QueuedIn
<1> HIDE DEF last
<1>9. QueuedIn(R) \ {last} = QueuedIn(R)' \ {last} /\ (last \in QueuedIn(R)' <=> r \in R)
  BY <1>6, <1>7, <1>8
<1>10. /\ IsFiniteSet(QueuedIn(R)')
       /\ Cardinality(QueuedIn(R)) \in Nat
       /\ Cardinality(QueuedIn(R)') = Cardinality(QueuedIn(R)) - One(last \in QueuedIn(R))
                                        + One(last \in QueuedIn(R)')
  BY <1>9, OneDiffers
<1> QED
  BY <1>7, <1>9, <1>10 DEF One

(* A request taken is one less of its kind. *)
LEMMA TakenIsGone ==
  ASSUME TypeInv, NEW t \in Thread, WorkerHandles(t), NEW R, IsFiniteSet(QueuedIn(R))
  PROVE  /\ IsFiniteSet(QueuedIn(R)')
         /\ Cardinality(QueuedIn(R)') = Cardinality(QueuedIn(R))
                                          - One(Head(worker_request_queue[t]) \in R)
<1> DEFINE queue == worker_request_queue[t]
           r     == Head(queue)
           rest  == Tail(queue)
           first == <<t, 1>>
           left  == QueuedIn(R) \ {first}
           moved == [p \in left |-> IF p[1] = t THEN <<t, p[2] - 1>> ELSE p]
<1>1. queue \in Seq(RequestRecord) /\ queue # <<>>
  BY DEF WorkerHandles, Ready, TypeInv, Types
<1>2. /\ Len(queue) \in Nat \ {0} /\ Len(rest) = Len(queue) - 1 /\ r = queue[1]
      /\ \A i \in 1 .. Len(rest) : rest[i] = queue[i + 1]
  BY <1>1, HeadTailProperties, EmptySeq
<1>3. /\ worker_request_queue'[t] = rest
      /\ \A u \in Thread \ {t} : worker_request_queue'[u] = worker_request_queue[u]
  BY DEF WorkerHandles, TypeInv, Types
<1>4. \A u \in Thread, i \in Nat :
        <<u, i>> \in left <=> /\ i \in 1 .. Len(worker_request_queue[u])
                              /\ worker_request_queue[u][i] \in R
                              /\ u = t => i # 1
  BY DEF QueuedIn
<1>5. \A u \in Thread, i \in Nat :
        <<u, i>> \in QueuedIn(R)' <=> /\ i \in 1 .. Len(worker_request_queue'[u])
                                      /\ worker_request_queue'[u][i] \in R
  BY DEF QueuedIn
<1>6. /\ \A p \in left : p \in Thread \X Nat /\ p = <<p[1], p[2]>>
      /\ \A p \in QueuedIn(R)' : p \in Thread \X Nat /\ p = <<p[1], p[2]>>
  BY DEF QueuedIn
<1> HIDE DEF queue, r, rest, left
<1>7. \A i \in Nat : i \in 1 .. Len(queue) /\ i # 1 =>
        i - 1 \in 1 .. Len(rest) /\ i - 1 \in Nat /\ rest[i - 1] = queue[i]
  <2>1. \A i \in Nat : i \in 1 .. Len(queue) /\ i # 1 =>
          i - 1 \in 1 .. Len(rest) /\ i - 1 \in Nat /\ (i - 1) + 1 = i
    BY <1>2
  <2> QED BY <1>2, <2>1
<1>8. \A i \in Nat : i \in 1 .. Len(rest) =>
        i + 1 \in 1 .. Len(queue) /\ i + 1 \in Nat /\ i + 1 # 1 /\ (i + 1) - 1 = i /\ queue[i + 1] = rest[i]
  BY <1>2
<1>9. moved \in [left -> QueuedIn(R)']
  <2> SUFFICES ASSUME NEW p \in left
               PROVE  moved[p] \in QueuedIn(R)'
    OBVIOUS
  <2>1. PICK u \in Thread, i \in Nat : p = <<u, i>>
    BY <1>6
  <2>2. CASE u = t
    <3>1. i \in 1 .. Len(queue) /\ queue[i] \in R /\ i # 1
      BY <1>4, <2>1, <2>2 DEF queue
    <3>2. moved[p] = <<t, i - 1>>
      BY <2>1, <2>2
    <3>3. i - 1 \in Nat /\ i - 1 \in 1 .. Len(rest) /\ rest[i - 1] \in R
      BY <1>7, <3>1
    <3> QED
      BY <1>3, <1>5, <3>2, <3>3
  <2>3. CASE u # t
    <3>1. moved[p] = <<u, i>>
      BY <2>1, <2>3
    <3> QED
      BY <1>3, <1>4, <1>5, <2>1, <2>3, <3>1
  <2> QED BY <2>2, <2>3
<1>10. \A p, q \in left : moved[p] = moved[q] => p = q
  <2> SUFFICES ASSUME NEW p \in left, NEW q \in left, moved[p] = moved[q]
               PROVE  p = q
    OBVIOUS
  <2>1. PICK u \in Thread, i \in Nat : p = <<u, i>>
    BY <1>6
  <2>2. PICK v \in Thread, j \in Nat : q = <<v, j>>
    BY <1>6
  <2>3. moved[p] = IF u = t THEN <<t, i - 1>> ELSE <<u, i>>
    BY <2>1
  <2>4. moved[q] = IF v = t THEN <<t, j - 1>> ELSE <<v, j>>
    BY <2>2
  <2>5. u = v /\ (u = t => i - 1 = j - 1) /\ (u # t => i = j)
    BY <2>3, <2>4
  <2> QED BY <2>1, <2>2, <2>5
<1>11. \A q \in QueuedIn(R)' : \E p \in left : moved[p] = q
  <2> SUFFICES ASSUME NEW q \in QueuedIn(R)'
               PROVE  \E p \in left : moved[p] = q
    OBVIOUS
  <2>1. PICK u \in Thread, i \in Nat : q = <<u, i>>
    BY <1>6
  <2>2. CASE u = t
    <3>1. i \in 1 .. Len(rest) /\ rest[i] \in R
      BY <1>3, <1>5, <2>1, <2>2
    <3>2. <<t, i + 1>> \in left
      BY <1>4, <1>8, <3>1 DEF queue
    <3>3. moved[<<t, i + 1>>] = <<t, i>>
      BY <1>8, <3>1, <3>2
    <3> QED
      BY <2>1, <2>2, <3>2, <3>3
  <2>3. CASE u # t
    <3>1. <<u, i>> \in left
      BY <1>3, <1>4, <1>5, <2>1, <2>3
    <3>2. moved[<<u, i>>] = <<u, i>>
      BY <2>3, <3>1
    <3> QED
      BY <2>1, <3>1, <3>2
  <2> QED BY <2>2, <2>3
<1>12. /\ IsFiniteSet(left) /\ Cardinality(QueuedIn(R)) \in Nat
       /\ Cardinality(left) = IF first \in QueuedIn(R) THEN Cardinality(QueuedIn(R)) - 1
                              ELSE Cardinality(QueuedIn(R))
  BY FS_RemoveElement, FS_CardinalityType DEF left
<1>13. ExistsBijection(left, QueuedIn(R)')
  <2> HIDE DEF moved
  <2>1. moved \in Bijection(left, QueuedIn(R)')
    BY <1>9, <1>10, <1>11 DEF Bijection, Injection, Surjection, IsInjective
  <2> QED BY <2>1 DEF ExistsBijection
<1>14. IsFiniteSet(QueuedIn(R)') /\ Cardinality(QueuedIn(R)') = Cardinality(left)
  BY <1>12, <1>13, FS_Bijection
<1>15. first \in QueuedIn(R) <=> r \in R
  <2>1. 1 \in 1 .. Len(queue) /\ 1 \in Nat
    BY <1>2
  <2> QED
    BY <1>2, <2>1 DEF QueuedIn, queue
<1> QED
  BY <1>12, <1>14, <1>15 DEF One, r, queue

(* What a step of thread t does to the calls under way. *)
LEMMA FlightsFinite ==
  ASSUME TypeInv, Countable, NEW t \in Thread, NEW place, NEW c,
         pc' = [pc EXCEPT ![t] = place], call' = [call EXCEPT ![t] = c]
  PROVE  IsFiniteSet({u \in Thread : Flying(u)})'
<1>1. \A u \in Thread \ {t} : (Flying(u)' <=> Flying(u))
  BY OthersFly
<1>2. {u \in Thread : Flying(u)} \ {t} = {u \in Thread : Flying(u)'} \ {t}
  BY <1>1
<1>3. IsFiniteSet({u \in Thread : Flying(u)'})
  BY <1>2, OneDiffers DEF Countable
<1> QED
  BY <1>3

(* What is counted of a call c that is at place. *)
Acquires(place, c, a) == place \in {"check", "enqueue"} /\ a \in AcquiredBy(c)
Releases(place, c, a) == place \in {"check", "enqueue"} /\ a \in ReleasedBy(c)

(* Thread t steps to place with the call c. *)
CallBecomes(t, place, c) == pc' = [pc EXCEPT ![t] = place] /\ call' = [call EXCEPT ![t] = c]

LEMMA FlightChanges ==
  ASSUME TypeInv, Countable, NEW t \in Thread, NEW place, NEW c, CallBecomes(t, place, c), NEW a
  PROVE  /\ Cardinality(Getting(a)') = Cardinality(Getting(a)) - One(Gets(t, a))
                                         + One(Acquires(place, c, a))
         /\ Cardinality(Giving(a)') = Cardinality(Giving(a)) - One(Gives(t, a))
                                        + One(Releases(place, c, a))
<1> DEFINE lands == place \in {"check", "enqueue"}
<1>1. /\ (Flying(t)' <=> lands) /\ call'[t] = c
      /\ \A u \in Thread \ {t} : (Flying(u)' <=> Flying(u)) /\ call'[u] = call[u]
  BY OthersFly DEF CallBecomes
<1> HIDE DEF lands
<1>2. /\ Getting(a) \ {t} = Getting(a)' \ {t}
      /\ Giving(a) \ {t} = Giving(a)' \ {t}
  BY <1>1 DEF Getting, Giving, Gets, Gives
<1>3. /\ t \in Getting(a) <=> Gets(t, a)
      /\ t \in Giving(a) <=> Gives(t, a)
      /\ t \in Getting(a)' <=> Acquires(place, c, a)
      /\ t \in Giving(a)' <=> Releases(place, c, a)
  BY <1>1 DEF Getting, Giving, Gets, Gives, Acquires, Releases, lands
<1>4. IsFiniteSet(Getting(a)) /\ IsFiniteSet(Giving(a))
  BY Counted
<1>5. Cardinality(Getting(a)') = Cardinality(Getting(a)) - One(t \in Getting(a)) + One(t \in Getting(a)')
  BY <1>2, <1>4, OneDiffers
<1>6. Cardinality(Giving(a)') = Cardinality(Giving(a)) - One(t \in Giving(a)) + One(t \in Giving(a)')
  BY <1>2, <1>4, OneDiffers
<1> QED
  BY <1>3, <1>5, <1>6 DEF One

(* The parts of a balance are numbers. *)
LEMMA BalanceParts ==
  ASSUME Countable, NEW a
  PROVE  /\ Cardinality(QueuedIn(Gaining(a))) \in Nat /\ Cardinality(QueuedIn(Closing(a))) \in Nat
         /\ Cardinality(Getting(a)) \in Nat /\ Cardinality(Giving(a)) \in Nat
         /\ IsFiniteSet(QueuedIn(Gaining(a))) /\ IsFiniteSet(QueuedIn(Closing(a)))
<1>1. Gaining(a) \in SUBSET RequestRecord /\ Closing(a) \in SUBSET RequestRecord
  BY DEF Gaining, Closing
<1> QED BY <1>1, Counted

LEMMA OneIsInt ==
  ASSUME NEW holds
  PROVE  One(holds) \in {0, 1}
BY DEF One

(* A step of a call that leaves queue and ledger alone. *)
LEMMA CallBalance ==
  ASSUME TypeInv, Countable, NEW t \in Thread, NEW place, NEW c,
         pc' = [pc EXCEPT ![t] = place], call' = [call EXCEPT ![t] = c],
         UNCHANGED <<allocations, worker_request_queue>>, NEW a \in Addr, Balance(a),
         One(Acquires(place, c, a)) + One(a \in heap) + One(Gives(t, a))
           <= One(a \in heap') + One(Gets(t, a)) + One(Releases(place, c, a))
  PROVE  Balance(a)'
<1>1. /\ QueuedIn(Gaining(a))' = QueuedIn(Gaining(a)) /\ QueuedIn(Closing(a))' = QueuedIn(Closing(a))
      /\ Open' = Open
  BY DEF QueuedIn, Gaining, Closing, Open
<1>2. /\ Cardinality(QueuedIn(Gaining(a))) \in Nat /\ Cardinality(QueuedIn(Closing(a))) \in Nat
      /\ Cardinality(Getting(a)) \in Nat /\ Cardinality(Giving(a)) \in Nat
  BY BalanceParts
<1>4. /\ Cardinality(Getting(a)') = Cardinality(Getting(a)) - One(Gets(t, a))
                                         + One(Acquires(place, c, a))
      /\ Cardinality(Giving(a)') = Cardinality(Giving(a)) - One(Gives(t, a))
                                        + One(Releases(place, c, a))
  <2>1. CallBecomes(t, place, c)
    BY DEF CallBecomes
  <2> QED BY <2>1, FlightChanges
<1>5. /\ One(a \in Open) \in Int /\ One(a \in heap) \in Int /\ One(a \in heap') \in Int
      /\ One(Acquires(place, c, a)) \in Int /\ One(Releases(place, c, a)) \in Int
      /\ One(Gets(t, a)) \in Int /\ One(Gives(t, a)) \in Int
  BY OneIsInt
<1>7. One(a \in Open) + Cardinality(QueuedIn(Gaining(a))) + Cardinality(Getting(a)')
        <= One(a \in heap') + Cardinality(QueuedIn(Closing(a))) + Cardinality(Giving(a)')
  BY <1>2, <1>4, <1>5 DEF Balance
<1> QED
  BY <1>1, <1>7 DEF Balance

(* A record enqueued: the call counts no more, its record does. *)
LEMMA RecordLeak ==
  ASSUME TypeInv, CallInv, LeakInv, NEW t \in Thread, EnqueueRecord(t)
  PROVE  LeakInv'
<1> DEFINE c == call[t]
           r == RequestOf(c)
<1>1. c \in Call /\ Flying(t) /\ (c.fn = "free" => c.result = Null)
  BY DEF EnqueueRecord, TypeInv, InCallHasCall, InCall, CallInv, Flying
<1>2. r \in RequestRecord
  BY <1>1, RequestType DEF RequestRecord, TypeInv, Types
<1>3. /\ Send(t, r)
      /\ UNCHANGED <<ledger_vars, heap, doubtful>>
      /\ pc' = [pc EXCEPT ![t] = "idle"] /\ call' = [call EXCEPT ![t] = NoCall]
  BY DEF EnqueueRecord, Return, GoTo
<1>4. \A a \in Addr : /\ r \in Gaining(a) => Gets(t, a)
                      /\ Gives(t, a) => r \in Closing(a)
  <2>1. c.fn \in HeapFunction
    BY <1>1, CallParts
  <2>2. CASE c.fn \in Acquiring
    BY <1>1, <1>2, <2>2, LedgerAssumption
       DEF RequestOf, Gaining, Closing, Opens, Gets, Gives, AcquiredBy, ReleasedBy, Acquiring
  <2>3. CASE c.fn = "realloc"
    <3>1. r = [op |-> "REALLOC", original |-> c.arg, new |-> c.result, size |-> c.size]
      BY <2>3 DEF RequestOf, Acquiring
    <3> HIDE DEF r
    <3> QED
      BY <1>1, <1>2, <2>3, <3>1, LedgerAssumption
         DEF Gaining, Closing, Opens, Closes, Gets, Gives, AcquiredBy, ReleasedBy
  <2>4. CASE c.fn = "free"
    <3>1. r = [op |-> "FREE", block |-> c.arg]
      BY <2>4 DEF RequestOf, Acquiring
    <3> HIDE DEF r
    <3> QED
      BY <1>1, <1>2, <2>4, <3>1
         DEF Gaining, Closing, Opens, Closes, Gets, Gives, AcquiredBy, ReleasedBy
  <2> QED
    BY <2>1, <2>2, <2>3, <2>4 DEF HeapFunction, StoreOrder, Acquiring
<1> HIDE DEF c, r
<1>5. Countable
  BY DEF LeakInv
<1>6. Countable'
  <2>1. IsFiniteSet(QueuedIn(RequestRecord)')
    BY <1>2, <1>3, <1>5, SentIsQueued DEF Countable
  <2>2. IsFiniteSet({u \in Thread : Flying(u)})'
    BY <1>3, <1>5, FlightsFinite
  <2>3. RequestRecord' = RequestRecord
    OBVIOUS
  <2> QED BY <2>1, <2>2, <2>3 DEF Countable
<1>7. ASSUME NEW a \in Addr \ (doubtful' \cup frees_without_mallocs' \cup orphan_reallocs')
      PROVE  Balance(a)'
  <2>1. Balance(a) /\ UNCHANGED allocations
    BY <1>3 DEF LeakInv, ledger_vars, anomalies
  <2>2. /\ Cardinality(QueuedIn(Gaining(a))) \in Nat /\ Cardinality(QueuedIn(Closing(a))) \in Nat
        /\ Cardinality(Getting(a)) \in Nat /\ Cardinality(Giving(a)) \in Nat
        /\ IsFiniteSet(QueuedIn(Gaining(a))) /\ IsFiniteSet(QueuedIn(Closing(a)))
    BY <1>5, BalanceParts
  <2>3. /\ Cardinality(QueuedIn(Gaining(a))') = Cardinality(QueuedIn(Gaining(a))) + One(r \in Gaining(a))
        /\ Cardinality(QueuedIn(Closing(a))') = Cardinality(QueuedIn(Closing(a))) + One(r \in Closing(a))
    BY <1>2, <1>3, <2>2, SentIsQueued
  <2>4. /\ Cardinality(Getting(a)') = Cardinality(Getting(a)) - One(Gets(t, a))
                                        + One(Acquires("idle", NoCall, a))
        /\ Cardinality(Giving(a)') = Cardinality(Giving(a)) - One(Gives(t, a))
                                       + One(Releases("idle", NoCall, a))
    <3>1. CallBecomes(t, "idle", NoCall)
      BY <1>3 DEF CallBecomes
    <3> QED BY <1>5, <3>1, FlightChanges
  <2>5. /\ One(Acquires("idle", NoCall, a)) = 0 /\ One(Releases("idle", NoCall, a)) = 0
        /\ One(a \in Open) \in Int /\ One(a \in heap) \in Int
        /\ One(Gets(t, a)) \in Int /\ One(r \in Gaining(a)) \in Int
        /\ One(Gives(t, a)) \in Int /\ One(r \in Closing(a)) \in Int
    BY DEF One, Acquires, Releases
  <2>6. One(r \in Gaining(a)) <= One(Gets(t, a)) /\ One(Gives(t, a)) <= One(r \in Closing(a))
    BY <1>4 DEF One
  <2>7. One(a \in Open) + Cardinality(QueuedIn(Gaining(a))') + Cardinality(Getting(a)')
          <= One(a \in heap) + Cardinality(QueuedIn(Closing(a))') + Cardinality(Giving(a)')
    BY <2>1, <2>2, <2>3, <2>4, <2>5, <2>6 DEF Balance
  <2>8. Open' = Open /\ heap' = heap
    BY <1>3, <2>1 DEF Open
  <2> QED
    BY <2>7, <2>8 DEF Balance
<1> QED
  BY <1>6, <1>7 DEF LeakInv

LEMMA HeapCallLeak ==
  ASSUME TypeInv, CallInv, LeakInv, NEW t \in Thread, HeapCall(t)
  PROVE  LeakInv'
<1>1. /\ UNCHANGED ledger_vars /\ doubtful \subseteq doubtful'
  BY DEF HeapCall, BeginCall, LibcMalloc, LibcRealloc, LibcFree, Libc, CheckUnwatched,
         CheckWatched, CountKnownLeak, EnqueueRecord, ReturnUnrecorded, history_vars
<1>2. UNCHANGED allocations /\ UNCHANGED frees_without_mallocs /\ UNCHANGED orphan_reallocs
  BY <1>1 DEF ledger_vars, anomalies
<1>3. \A a \in Addr \ (doubtful' \cup frees_without_mallocs' \cup orphan_reallocs') : Balance(a)
  BY <1>1, <1>2 DEF LeakInv
<1>4. Countable
  BY DEF LeakInv
<1>5. ASSUME UNCHANGED worker_request_queue, NEW place, NEW c,
             pc' = [pc EXCEPT ![t] = place], call' = [call EXCEPT ![t] = c],
             \A a \in Addr \ doubtful' :
               One(Acquires(place, c, a)) + One(a \in heap) + One(Gives(t, a))
                 <= One(a \in heap') + One(Gets(t, a)) + One(Releases(place, c, a))
      PROVE  LeakInv'
  <2>1. Countable'
    <3>1. QueuedIn(RequestRecord)' = QueuedIn(RequestRecord)
      BY <1>5 DEF QueuedIn
    <3>2. IsFiniteSet({u \in Thread : Flying(u)})'
      BY <1>4, <1>5, FlightsFinite
    <3> QED BY <1>4, <3>1, <3>2 DEF Countable
  <2>2. ASSUME NEW a \in Addr \ (doubtful' \cup frees_without_mallocs' \cup orphan_reallocs')
        PROVE  Balance(a)'
    <3>1. Balance(a) /\ a \in Addr /\ a \in Addr \ doubtful'
      BY <1>3
    <3>2. One(Acquires(place, c, a)) + One(a \in heap) + One(Gives(t, a))
            <= One(a \in heap') + One(Gets(t, a)) + One(Releases(place, c, a))
      BY <1>5, <3>1
    <3> QED
      BY <1>2, <1>4, <1>5, <3>1, <3>2, CallBalance
  <2> QED BY <2>1, <2>2 DEF LeakInv
<1>6. CASE BeginCall(t)
  <2>1. PICK c : pc' = [pc EXCEPT ![t] = "libc"] /\ call' = [call EXCEPT ![t] = c]
    BY <1>6 DEF BeginCall, Enter, GoTo
  <2>2. UNCHANGED <<worker_request_queue, heap>> /\ ~Flying(t)
    BY <1>6 DEF BeginCall, Flying
  <2>3. \A a : ~Acquires("libc", c, a) /\ ~Releases("libc", c, a) /\ ~Gives(t, a) /\ ~Gets(t, a)
    BY <2>2 DEF Acquires, Releases, Gives, Gets
  <2>4. \A a \in Addr : One(Acquires("libc", c, a)) + One(a \in heap) + One(Gives(t, a))
                            <= One(a \in heap') + One(Gets(t, a)) + One(Releases("libc", c, a))
    BY <2>2, <2>3 DEF One
  <2> QED
    BY <1>5, <2>1, <2>2, <2>4
<1>7. CASE LibcMalloc(t) \/ LibcRealloc(t) \/ LibcFree(t)
  <2>1. pc[t] = "libc"
    BY <1>7, CompletedCall
  <2>2. PICK c \in Call :
          /\ Libc(t, c)
          /\ c.fn = "free" => c.result = Null
          /\ c.result \in (Addr \ heap) \cup {Null} \/ (c.fn = "realloc" /\ c.result = c.arg)
    BY <1>7, CompletedCall
  <2>3. /\ heap' = (heap \ ReleasedBy(c)) \cup ({c.result} \ {Null})
        /\ UNCHANGED worker_request_queue
    BY <2>2 DEF Libc
  <2>4. \A a : ~Gives(t, a) /\ ~Gets(t, a)
    BY <2>1 DEF Gives, Gets, Flying
  <2>5. CASE c.hook = "libc"
    <3>1. /\ pc' = [pc EXCEPT ![t] = "idle"] /\ call' = [call EXCEPT ![t] = NoCall]
          /\ ReleasedBy(c) \subseteq doubtful'
      BY <2>2, <2>5 DEF Libc, ReturnUnrecorded, Return, GoTo
    <3>2. \A a : ~Acquires("idle", NoCall, a) /\ ~Releases("idle", NoCall, a)
      BY DEF Acquires, Releases
    <3>3. \A a \in Addr \ doubtful' : a \in heap => a \in heap'
      BY <2>3, <3>1
    <3>4. \A a \in Addr \ doubtful' : One(Acquires("idle", NoCall, a)) + One(a \in heap) + One(Gives(t, a))
                            <= One(a \in heap') + One(Gets(t, a)) + One(Releases("idle", NoCall, a))
      BY <2>4, <3>2, <3>3 DEF One
    <3> QED
      BY <1>5, <2>3, <3>1, <3>4
  <2>6. CASE c.hook # "libc"
    <3>1. pc' = [pc EXCEPT ![t] = "check"] /\ call' = [call EXCEPT ![t] = c]
      BY <2>2, <2>6 DEF Libc, GoTo
    <3>2. \A a : /\ Acquires("check", c, a) <=> a \in AcquiredBy(c)
                 /\ Releases("check", c, a) <=> a \in ReleasedBy(c)
      BY DEF Acquires, Releases
    <3>3. \A a \in Addr : /\ a \in AcquiredBy(c) => a \notin heap /\ a \in heap'
                          /\ a \in heap => a \in heap' \/ a \in ReleasedBy(c)
      BY <2>2, <2>3, LedgerAssumption DEF AcquiredBy
    <3>4. \A a \in Addr : One(Acquires("check", c, a)) + One(a \in heap) + One(Gives(t, a))
                            <= One(a \in heap') + One(Gets(t, a)) + One(Releases("check", c, a))
      BY <2>4, <3>2, <3>3 DEF One
    <3> QED
      BY <1>5, <2>3, <3>1, <3>4
  <2> QED BY <2>5, <2>6
<1>8. CASE CheckUnwatched(t) \/ CountKnownLeak(t)
  <2>1. /\ pc' = [pc EXCEPT ![t] = "idle"] /\ call' = [call EXCEPT ![t] = NoCall]
        /\ UNCHANGED <<worker_request_queue, heap>> /\ ReleasedBy(call[t]) \subseteq doubtful'
    BY <1>8 DEF CheckUnwatched, CountKnownLeak, ReturnUnrecorded, Return, GoTo
  <2>2. /\ \A a : ~Acquires("idle", NoCall, a) /\ ~Releases("idle", NoCall, a)
        /\ \A a \in Addr \ doubtful' : ~Gives(t, a)
    BY <2>1 DEF Acquires, Releases, Gives
  <2>3. \A a \in Addr \ doubtful' : One(Acquires("idle", NoCall, a)) + One(a \in heap) + One(Gives(t, a))
                            <= One(a \in heap') + One(Gets(t, a)) + One(Releases("idle", NoCall, a))
    BY <2>1, <2>2 DEF One
  <2> QED
    BY <1>5, <2>1, <2>3
<1>9. CASE CheckWatched(t)
  <2>1. PICK place \in {"count", "enqueue"}, c \in Call :
          /\ place = "count" => c.fn \in Acquiring
          /\ pc' = [pc EXCEPT ![t] = place] /\ call' = [call EXCEPT ![t] = c]
          /\ c.fn = call[t].fn /\ c.arg = call[t].arg /\ c.size = call[t].size
          /\ c.result = call[t].result
    BY <1>9, CheckedCall
  <2>2. ReleasedBy(c) = ReleasedBy(call[t]) /\ AcquiredBy(c) = AcquiredBy(call[t]) /\ Flying(t)
    BY <1>9, <2>1 DEF ReleasedBy, AcquiredBy, CheckWatched, Flying
  <2>3. UNCHANGED <<worker_request_queue, heap>>
    BY <1>9 DEF CheckWatched, heap_vars
  <2>4. \A a \in Addr : /\ Acquires(place, c, a) => Gets(t, a)
                        /\ Gives(t, a) => Releases(place, c, a)
    BY <2>1, <2>2 DEF Acquires, Releases, Gets, Gives, Acquiring, ReleasedBy
  <2>5. \A a \in Addr \ doubtful' : One(Acquires(place, c, a)) + One(a \in heap) + One(Gives(t, a))
                 <= One(a \in heap') + One(Gets(t, a)) + One(Releases(place, c, a))
    BY <2>3, <2>4 DEF One
  <2> QED
    BY <1>5, <2>1, <2>3, <2>5
<1>10. CASE EnqueueRecord(t)
  BY <1>10, RecordLeak
<1> QED
  BY <1>6, <1>7, <1>8, <1>9, <1>10 DEF HeapCall
(* Commands: their requests are counted on neither side, their storage and *)
(* tokens are live.                                                        *)
LEMMA CommandLeak ==
  ASSUME TypeInv, LeakInv, NEW t \in Thread,
         Pause(t) \/ Resume(t) \/ CallStart(t) \/ CallStop(t) \/ Ask(t) \/ CommandStep(t)
  PROVE  LeakInv'
<1>1. /\ UNCHANGED <<ledger_vars, doubtful>>
      /\ \A u \in Thread : (Flying(u)' <=> Flying(u)) /\ (Flying(u) => call'[u] = call[u])
  BY CommandSends
<1>2. heap \subseteq heap'
  BY DEF Pause, Resume, CallStart, CallStop, Ask, CommandStep, StartLock, StartCleared,
         StartStoreHook, StartWatching, StopLock, StopStoreHook, StopAsk, StopReturn, AskReturn,
         unchanged_by_commands, heap_vars
<1>3. Countable
  BY DEF LeakInv
<1>4. ASSUME NEW R, IsFiniteSet(QueuedIn(R)), R \cap Asked = {}
      PROVE  IsFiniteSet(QueuedIn(R)') /\ Cardinality(QueuedIn(R)') = Cardinality(QueuedIn(R))
  <2>1. CASE UNCHANGED worker_request_queue
    <3>1. QueuedIn(R)' = QueuedIn(R)
      BY <2>1 DEF QueuedIn
    <3> QED BY <1>4, <3>1
  <2>2. ASSUME NEW r \in Asked, Send(t, r)
        PROVE  IsFiniteSet(QueuedIn(R)') /\ Cardinality(QueuedIn(R)') = Cardinality(QueuedIn(R))
    <3>1. r \in RequestRecord /\ One(r \in R) = 0
      BY <1>4, CommandRequests DEF One, Asked
    <3>2. /\ IsFiniteSet(QueuedIn(R)')
          /\ Cardinality(QueuedIn(R)') = Cardinality(QueuedIn(R)) + One(r \in R)
      BY <1>4, <2>2, <3>1, SentIsQueued
    <3>3. Cardinality(QueuedIn(R)) \in Nat
      BY <1>4, FS_CardinalityType
    <3> QED BY <3>1, <3>2, <3>3
  <2> QED BY <2>1, <2>2, CommandQueues
<1>5. Countable'
  <2>1. IsFiniteSet(QueuedIn(RequestRecord)')
    <3>1. CASE UNCHANGED worker_request_queue
      BY <1>3, <3>1 DEF QueuedIn, Countable
    <3>2. ASSUME NEW r \in Asked, Send(t, r)
          PROVE  IsFiniteSet(QueuedIn(RequestRecord)')
      BY <1>3, <3>2, CommandRequests, SentIsQueued DEF Countable, Asked
    <3> QED BY <3>1, <3>2, CommandQueues
  <2>2. {u \in Thread : Flying(u)'} = {u \in Thread : Flying(u)}
    BY <1>1
  <2> QED BY <1>3, <2>1, <2>2 DEF Countable
<1>6. ASSUME NEW a \in Addr \ (doubtful' \cup frees_without_mallocs' \cup orphan_reallocs')
      PROVE  Balance(a)'
  <2>1. Balance(a) /\ Open' = Open
    BY <1>1 DEF LeakInv, ledger_vars, anomalies, Open
  <2>2. /\ Cardinality(QueuedIn(Closing(a))) \in Nat /\ Cardinality(Giving(a)) \in Nat
        /\ Cardinality(QueuedIn(Gaining(a))) \in Nat /\ Cardinality(Getting(a)) \in Nat
        /\ IsFiniteSet(QueuedIn(Gaining(a))) /\ IsFiniteSet(QueuedIn(Closing(a)))
    BY <1>3, BalanceParts
  <2>3. Gaining(a) \cap Asked = {} /\ Closing(a) \cap Asked = {}
    BY CommandClosesNothing DEF Gaining, Closing
  <2>4. /\ Cardinality(QueuedIn(Gaining(a))') = Cardinality(QueuedIn(Gaining(a)))
        /\ Cardinality(QueuedIn(Closing(a))') = Cardinality(QueuedIn(Closing(a)))
    BY <1>4, <2>2, <2>3
  <2>5. Getting(a)' = Getting(a) /\ Giving(a)' = Giving(a)
    BY <1>1 DEF Getting, Giving, Gets, Gives
  <2>6. /\ One(a \in heap) <= One(a \in heap') /\ One(a \in heap) \in Int
        /\ One(a \in heap') \in Int /\ One(a \in Open) \in Int
    BY <1>2 DEF One
  <2>7. One(a \in Open) + Cardinality(QueuedIn(Gaining(a))') + Cardinality(Getting(a))
          <= One(a \in heap') + Cardinality(QueuedIn(Closing(a))') + Cardinality(Giving(a))
    BY <2>1, <2>2, <2>4, <2>6 DEF Balance
  <2> QED BY <2>1, <2>5, <2>7 DEF Balance
<1> QED
  BY <1>5, <1>6 DEF LeakInv

(* What handling a record does to the balance of an address. *)
LEMMA RecordBalance ==
  ASSUME TypeInv, NEW r \in RequestRecord, HandleRecord(r),
         NEW a \in Addr \ (frees_without_mallocs' \cup orphan_reallocs')
  PROVE  One(a \in Open') + One(r \in Closing(a)) <= One(a \in Open) + One(r \in Gaining(a))
<1>1. Open' = (Open \ Closes(r)) \cup Opens(r)
  BY RecordSteps
<1>2. r.op = "FREE" /\ r.block = a => a \in Open
  BY RecordSteps
<1>3. r.op = "REALLOC" /\ r.original = a => a \in Open
  BY RecordSteps
<1>4. CASE a \in Closes(r)
  <2>1. a \notin Opens(r) /\ a \in Open
    BY <1>2, <1>3, <1>4 DEF Closes, Opens
  <2>2. a \notin Open'
    BY <1>1, <1>4, <2>1
  <2> QED
    BY <2>1, <2>2 DEF One
<1>5. CASE a \notin Closes(r) /\ a \in Opens(r)
  <2>1. a \in Open \/ r \in Gaining(a)
    BY <1>3, <1>5 DEF Gaining
  <2>2. r \notin Closing(a)
    BY <1>5 DEF Closing
  <2> QED
    BY <2>1, <2>2 DEF One
<1>6. CASE a \notin Closes(r) /\ a \notin Opens(r)
  <2>1. a \in Open' <=> a \in Open
    BY <1>1, <1>6
  <2>2. r \notin Closing(a) /\ r \notin Gaining(a)
    BY <1>6 DEF Closing, Gaining
  <2> QED
    BY <2>1, <2>2 DEF One
<1> QED
  BY <1>4, <1>5, <1>6

LEMMA WorkerLeak ==
  ASSUME TypeInv, LeakInv, NEW t \in Thread, WorkerHandles(t)
  PROVE  LeakInv'
<1> DEFINE r == Head(worker_request_queue[t])
<1>1. /\ r \in RequestRecord /\ r \in Pending
      /\ HandleRecord(r) \/ HandleCommand(t, r)
      /\ Pending' \subseteq Pending
  BY PendingShrinks
<1>2. \A u \in Thread : (Flying(u)' <=> Flying(u)) /\ call'[u] = call[u]
  BY DEF WorkerHandles, Flying
<1>3. Countable
  BY DEF LeakInv
<1>4. ASSUME NEW R, IsFiniteSet(QueuedIn(R))
      PROVE  /\ IsFiniteSet(QueuedIn(R)')
             /\ Cardinality(QueuedIn(R)') = Cardinality(QueuedIn(R)) - One(r \in R)
  BY <1>4, TakenIsGone
<1> HIDE DEF r
<1>5. Countable'
  <2>1. IsFiniteSet(QueuedIn(RequestRecord)')
    BY <1>3, <1>4 DEF Countable
  <2>2. {u \in Thread : Flying(u)'} = {u \in Thread : Flying(u)}
    BY <1>2
  <2> QED BY <1>3, <2>1, <2>2 DEF Countable
<1>6. ASSUME NEW a \in Addr, Balance(a), heap \subseteq heap',
             One(a \in Open') + One(r \in Closing(a)) <= One(a \in Open) + One(r \in Gaining(a))
      PROVE  Balance(a)'
  <2>1. /\ Cardinality(QueuedIn(Closing(a))) \in Nat /\ Cardinality(Giving(a)) \in Nat
        /\ Cardinality(QueuedIn(Gaining(a))) \in Nat /\ Cardinality(Getting(a)) \in Nat
        /\ IsFiniteSet(QueuedIn(Gaining(a))) /\ IsFiniteSet(QueuedIn(Closing(a)))
    BY <1>3, BalanceParts
  <2>2. /\ Cardinality(QueuedIn(Gaining(a))') = Cardinality(QueuedIn(Gaining(a))) - One(r \in Gaining(a))
        /\ Cardinality(QueuedIn(Closing(a))') = Cardinality(QueuedIn(Closing(a))) - One(r \in Closing(a))
    BY <1>4, <2>1
  <2>3. Getting(a)' = Getting(a) /\ Giving(a)' = Giving(a)
    BY <1>2 DEF Getting, Giving, Gets, Gives
  <2>4. /\ One(a \in heap) <= One(a \in heap') /\ One(a \in heap) \in Int
        /\ One(a \in heap') \in Int /\ One(a \in Open) \in Int /\ One(a \in Open') \in Int
        /\ One(r \in Closing(a)) \in Int /\ One(r \in Gaining(a)) \in Int
    BY <1>6 DEF One
  <2>5. One(a \in Open') + Cardinality(QueuedIn(Gaining(a))') + Cardinality(Getting(a))
          <= One(a \in heap') + Cardinality(QueuedIn(Closing(a))') + Cardinality(Giving(a))
    BY <1>6, <2>1, <2>2, <2>4 DEF Balance
  <2> QED BY <2>3, <2>5 DEF Balance
<1> SUFFICES ASSUME NEW a \in Addr, a \notin doubtful', a \notin frees_without_mallocs',
                    a \notin orphan_reallocs'
             PROVE  Balance(a)'
  BY <1>5 DEF LeakInv
<1>7. CASE HandleRecord(r)
  <2>1. UNCHANGED <<doubtful, heap>>
    BY <1>7 DEF HandleRecord
  <2>2. Balance(a)
    BY <1>1, <1>7, <2>1, RecordSteps DEF LeakInv
  <2>3. One(a \in Open') + One(r \in Closing(a)) <= One(a \in Open) + One(r \in Gaining(a))
    BY <1>1, <1>7, RecordBalance
  <2> QED
    BY <1>6, <2>1, <2>2, <2>3
<1>8. CASE HandleCommand(t, r) /\ r.op = "CLEAR"
  <2>1. a \notin LeftOver /\ a \notin Open'
    BY <1>8 DEF HandleCommand, HandleClear, Open
  <2>2. QueuedIn(Gaining(a))' = {}
    <3>1. \A q \in Pending' : a \notin Opens(q)
      BY <1>1, <2>1, NotLeftOver
    <3>2. \A p \in QueuedIn(Gaining(a))' :
            /\ p[1] \in Thread /\ p[2] \in 1 .. Len(worker_request_queue'[p[1]])
            /\ worker_request_queue'[p[1]][p[2]] \in RequestRecord
            /\ a \in Opens(worker_request_queue'[p[1]][p[2]])
      BY DEF QueuedIn, Gaining
    <3>3. TypeInv'
      BY TypeStep DEF Next, Worker
    <3>4. \A p \in QueuedIn(Gaining(a))' : worker_request_queue'[p[1]][p[2]] \in Pending'
      <4>1. \A u \in Thread : DOMAIN worker_request_queue'[u] = 1 .. Len(worker_request_queue'[u])
        BY <3>3, LenProperties DEF TypeInv, Types
      <4> QED
        BY <3>2, <4>1 DEF Pending, QueueRange
    <3> QED BY <3>1, <3>2, <3>4
  <2>3. Getting(a)' = {}
    BY <1>2, <2>1, NotLeftOver DEF Getting, Gets, AcquiredBy
  <2>4. Cardinality({}) = 0
    BY FS_EmptySet
  <2>5. Cardinality(QueuedIn(Closing(a))') \in Nat /\ Cardinality(Giving(a)') \in Nat
    <3>1. IsFiniteSet(QueuedIn(Closing(a))) /\ Cardinality(Giving(a)) \in Nat
      BY <1>3, BalanceParts
    <3>2. IsFiniteSet(QueuedIn(Closing(a))')
      BY <1>4, <3>1
    <3>3. Giving(a)' = Giving(a)
      BY <1>2 DEF Giving, Gives
    <3> QED BY <3>1, <3>2, <3>3, FS_CardinalityType
  <2>6. One(a \in Open') = 0 /\ One(a \in heap') \in {0, 1}
    BY <2>1 DEF One
  <2> QED
    BY <2>2, <2>3, <2>4, <2>5, <2>6 DEF Balance
<1>9. CASE HandleCommand(t, r) /\ r.op # "CLEAR"
  <2>1. /\ UNCHANGED <<doubtful, frees_without_mallocs, orphan_reallocs>> /\ heap \subseteq heap'
        /\ r.op \in {"SNAPSHOT", "STATS"}
        /\ HandleSnapshot \/ HandleStats
    BY <1>9 DEF HandleCommand, HandleSnapshot, HandleStats, ledger_vars, anomalies
  <2>2. Balance(a)
    BY <2>1 DEF LeakInv
  <2>3. a \in Open' => a \in Open
    BY <2>1 DEF HandleSnapshot, HandleStats, ledger_vars, Open
  <2>4. r \notin Closing(a) /\ r \notin Gaining(a)
    BY <2>1 DEF Closing, Gaining, Closes, Opens
  <2>5. One(a \in Open') + One(r \in Closing(a)) <= One(a \in Open) + One(r \in Gaining(a))
    BY <2>3, <2>4 DEF One
  <2> QED
    BY <1>6, <2>1, <2>2, <2>5
<1> QED
  BY <1>1, <1>7, <1>8, <1>9

(* The books balance only if what is reported is live or about to be released. *)
LEMMA ReportedIsLive ==
  ASSUME TypeInv, LeakInv, NEW a \in (Reported \ {Null}) \ (doubtful \cup orphan_reallocs)
  PROVE  a \in heap \/ ReleaseUnderway(a)
<1> SUFFICES ASSUME a \notin heap, ~ReleaseUnderway(a)
             PROVE  FALSE
  OBVIOUS
<1>1. Balance(a) /\ Countable /\ a \in Open
  BY DEF LeakInv, Reported, Open, Pointer
<1>2. QueuedIn(Closing(a)) = {}
  <2> SUFFICES ASSUME NEW p \in QueuedIn(Closing(a))
               PROVE  FALSE
    OBVIOUS
  <2> DEFINE q == worker_request_queue[p[1]][p[2]]
  <2>1. /\ p[1] \in Thread /\ p[2] \in 1 .. Len(worker_request_queue[p[1]])
        /\ q \in RequestRecord /\ a \in Closes(q)
    BY DEF QueuedIn, Closing
  <2>2. q \in Pending
    BY <2>1, PendingIs
  <2> HIDE DEF q
  <2> QED BY <2>1, <2>2 DEF ReleaseUnderway, Closes
<1>3. Giving(a) = {}
  BY DEF Giving, Gives, Flying, ReleaseUnderway, InFlight
<1>4. Cardinality({}) = 0
  BY FS_EmptySet
<1>5. Cardinality(QueuedIn(Gaining(a))) \in Nat /\ Cardinality(Getting(a)) \in Nat
  BY <1>1, BalanceParts
<1>6. One(a \in Open) = 1 /\ One(a \in heap) = 0
  BY <1>1 DEF One
<1>7. One(a \in Open) + Cardinality(QueuedIn(Gaining(a))) + Cardinality(Getting(a)) <= 0 + 0 + 0
  BY <1>1, <1>2, <1>3, <1>4, <1>6 DEF Balance
<1> QED
  BY <1>5, <1>6, <1>7

-----------------------------------------------------------------------------
(***************************************************************************)
(* What is recorded at NULL.  While no allocation fails, a call that       *)
(* returned NULL and will leave a record was a realloc to size 0, and so   *)
(* were those that left the queued records of NULL and its entry.          *)
(***************************************************************************)
NullInv ==
  /\ \A t \in Thread : Flying(t) /\ call[t].fn # "free" /\ call[t].result = Null => call[t].size = 0
  /\ \A r \in Pending : Null \in Opens(r) => r.size = 0
  /\ Null \in Open => allocations[Null].size = 0

(* A call goes on, and may leave a record. *)
LEMMA NullStep ==
  ASSUME TypeInv, NullInv, NEW t \in Thread, NEW place, NEW c, CallBecomes(t, place, c),
         place \in {"check", "enqueue"} /\ c.fn # "free" /\ c.result = Null => c.size = 0,
         UNCHANGED allocations,
         \A r \in Pending' \ Pending : Null \in Opens(r) => r.size = 0
  PROVE  NullInv'
<1>1. /\ (Flying(t)' <=> place \in {"check", "enqueue"}) /\ call'[t] = c
      /\ \A u \in Thread \ {t} : (Flying(u)' <=> Flying(u)) /\ call'[u] = call[u]
  BY OthersFly DEF CallBecomes
<1>2. ASSUME NEW u \in Thread, Flying(u)', call'[u].fn # "free", call'[u].result = Null
      PROVE  call'[u].size = 0
  <2>1. CASE u = t
    BY <1>1, <1>2, <2>1
  <2>2. CASE u # t
    BY <1>1, <1>2, <2>2 DEF NullInv
  <2> QED BY <2>1, <2>2
<1>3. Open' = Open
  BY DEF Open
<1> HIDE DEF Flying
<1> QED
  BY <1>2, <1>3 DEF NullInv

(* The C library's functions, none of which fails. *)
LEMMA LibcNull ==
  ASSUME ~HeapMayFail, TypeInv, CallInv, NEW t \in Thread,
         LibcMalloc(t) \/ LibcRealloc(t) \/ LibcFree(t)
  PROVE  \E c : Libc(t, c) /\ (c.fn # "free" /\ c.result = Null => c.size = 0)
<1>1. call[t] \in Call /\ call[t].arg \in Pointer
  BY CompletedCall, CallParts
<1>2. \A a \in Fresh : a # Null
  BY LedgerAssumption DEF Fresh
<1>3. \A a : /\ [call[t] EXCEPT !.result = a].result = a
             /\ [call[t] EXCEPT !.result = a].size = call[t].size
  BY <1>1 DEF Call
<1>4. CASE LibcMalloc(t)
  <2>1. PICK a \in Fresh : Libc(t, [call[t] EXCEPT !.result = a])
    BY <1>4 DEF LibcMalloc
  <2> QED BY <1>2, <1>3, <2>1
<1>5. CASE LibcRealloc(t)
  <2>1. PICK a \in CASE call[t].arg = Null -> Fresh
                    [] call[t].arg # Null /\ call[t].size = 0 -> {Null}
                    [] call[t].arg # Null /\ call[t].size # 0 -> {call[t].arg} \cup Fresh :
               Libc(t, [call[t] EXCEPT !.result = a])
    BY <1>5 DEF LibcRealloc
  <2>2. CASE call[t].arg = Null
    <3>1. a \in Fresh
      BY <2>1, <2>2
    <3> QED BY <1>2, <1>3, <2>1, <3>1
  <2>3. CASE call[t].arg # Null /\ call[t].size # 0
    <3>1. a \in {call[t].arg} \cup Fresh
      BY <2>1, <2>3
    <3> QED BY <1>2, <1>3, <2>1, <2>3, <3>1
  <2>4. CASE call[t].size = 0
    BY <1>3, <2>1, <2>4
  <2> QED BY <2>2, <2>3, <2>4
<1>6. CASE LibcFree(t)
  BY <1>6 DEF LibcFree
<1> QED
  BY <1>4, <1>5, <1>6

LEMMA HeapCallNull ==
  ASSUME ~HeapMayFail, TypeInv, CallInv, NullInv, NEW t \in Thread, HeapCall(t)
  PROVE  NullInv'
<1>1. UNCHANGED allocations
  BY DEF HeapCall, BeginCall, LibcMalloc, LibcRealloc, LibcFree, Libc, CheckUnwatched,
         CheckWatched, CountKnownLeak, EnqueueRecord, ledger_vars
<1>2. CASE BeginCall(t)
  <2>1. PICK c : CallBecomes(t, "libc", c)
    BY <1>2 DEF BeginCall, Enter, GoTo, CallBecomes
  <2>2. Pending' = Pending
    BY <1>2 DEF BeginCall, Pending, QueueRange
  <2> QED
    BY <1>1, <2>1, <2>2, NullStep
<1>3. CASE LibcMalloc(t) \/ LibcRealloc(t) \/ LibcFree(t)
  <2>1. PICK c : Libc(t, c) /\ (c.fn # "free" /\ c.result = Null => c.size = 0)
    BY <1>3, LibcNull
  <2>2. CallBecomes(t, "idle", NoCall) \/ CallBecomes(t, "check", c)
    BY <2>1 DEF Libc, ReturnUnrecorded, Return, GoTo, CallBecomes
  <2>3. Pending' = Pending
    BY <2>1 DEF Libc, Pending, QueueRange
  <2> QED
    BY <1>1, <2>1, <2>2, <2>3, NullStep
<1>4. CASE CheckUnwatched(t) \/ CountKnownLeak(t)
  <2>1. CallBecomes(t, "idle", NoCall)
    BY <1>4 DEF CheckUnwatched, CountKnownLeak, ReturnUnrecorded, Return, GoTo, CallBecomes
  <2>2. Pending' = Pending
    BY <1>4 DEF CheckUnwatched, CountKnownLeak, Pending, QueueRange
  <2> QED
    BY <1>1, <2>1, <2>2, NullStep
<1>5. CASE CheckWatched(t)
  <2>1. PICK place \in {"count", "enqueue"}, c \in Call :
          /\ CallBecomes(t, place, c)
          /\ c.fn = call[t].fn /\ c.size = call[t].size /\ c.result = call[t].result
    BY <1>5, CheckedCall DEF CallBecomes
  <2>2. Flying(t) /\ Pending' = Pending
    BY <1>5 DEF CheckWatched, Flying, Pending, QueueRange
  <2>3. c.fn # "free" /\ c.result = Null => c.size = 0
    BY <2>1, <2>2 DEF NullInv
  <2> QED
    BY <1>1, <2>1, <2>2, <2>3, NullStep
<1>6. CASE EnqueueRecord(t)
  <2> DEFINE c == call[t]
             r == RequestOf(c)
  <2>1. c \in Call /\ Flying(t)
    BY <1>6 DEF EnqueueRecord, TypeInv, InCallHasCall, InCall, Flying
  <2>2. r \in RequestRecord
    BY <2>1, RequestType DEF RequestRecord, TypeInv, Types
  <2>3. Null \in Opens(r) => r.size = 0
    <3>1. c.fn # "free" /\ c.result = Null => c.size = 0
      BY <2>1 DEF NullInv
    <3>2. c.fn \in HeapFunction
      BY <2>1, CallParts
    <3>3. CASE c.fn \in Acquiring
      <4>1. r = [op |-> "MALLOC", address |-> c.result, size |-> c.size, txn_id |-> g_txn_id]
        BY <3>3 DEF RequestOf, Acquiring
      <4> QED BY <3>1, <3>3, <4>1 DEF Opens, Acquiring
    <3>4. CASE c.fn = "realloc"
      <4>1. r = [op |-> "REALLOC", original |-> c.arg, new |-> c.result, size |-> c.size]
        BY <3>4 DEF RequestOf, Acquiring
      <4> QED BY <3>1, <3>4, <4>1 DEF Opens
    <3>5. CASE c.fn = "free"
      <4>1. r = [op |-> "FREE", block |-> c.arg]
        BY <3>5 DEF RequestOf, Acquiring
      <4> QED BY <4>1 DEF Opens
    <3> QED
      BY <3>2, <3>3, <3>4, <3>5 DEF HeapFunction, StoreOrder, Acquiring
  <2>4. Send(t, r) /\ CallBecomes(t, "idle", NoCall)
    BY <1>6 DEF EnqueueRecord, Return, GoTo, CallBecomes
  <2> HIDE DEF r
  <2>5. Pending' = Pending \cup {r}
    BY <2>2, <2>4, PendingGrows
  <2> QED
    BY <1>1, <2>3, <2>4, <2>5, NullStep
<1> QED
  BY <1>2, <1>3, <1>4, <1>5, <1>6 DEF HeapCall

(* An entry at NULL was there before, or is of the record's size. *)
LEMMA NullEntry ==
  ASSUME TypeInv, NEW r \in RequestRecord, HandleRecord(r), Null \in Open'
  PROVE  \/ Null \in Open /\ allocations'[Null] = allocations[Null]
         \/ Null \in Opens(r) /\ allocations'[Null].size = r.size
<1>1. LedgerTypeOK /\ Null \in Pointer /\ allocations'[Null] # NoRecord
  BY DEF TypeInv, Types, Pointer, Open
<1>2. \A map, a, record :
        map \in [Pointer -> AllocationRecord \cup {NoRecord}] =>
          \/ Emplace(map, a, record)[Null] = map[Null]
          \/ a = Null /\ Emplace(map, a, record)[Null] = record
  BY <1>1 DEF Emplace
<1>3. \A size, txn_id : [size |-> size, txn_id |-> txn_id].size = size
  OBVIOUS
<1>4. CASE r.op = "MALLOC"
  <2>1. allocations' = Emplace(allocations, r.address, [size |-> r.size, txn_id |-> r.txn_id])
    BY <1>4 DEF HandleRecord, HandleMalloc
  <2> QED
    BY <1>1, <1>2, <1>3, <1>4, <2>1 DEF LedgerTypeOK, Open, Opens
<1>5. CASE r.op = "REALLOC"
  <2>1. HandleRealloc(r)
    BY <1>5 DEF HandleRecord
  <2>2. PICK map \in [Pointer -> AllocationRecord \cup {NoRecord}], id \in TxnId :
          /\ allocations' = Emplace(map, r.new, [size |-> r.size, txn_id |-> id])
          /\ map[Null] \in {allocations[Null], NoRecord}
    <3>1. CASE HandleReallocKnown(r)
      <4>1. allocations[r.original] \in AllocationRecord /\ r.original \in Pointer
        BY <1>1, <1>5, <3>1, RequestKinds DEF HandleReallocKnown, LedgerTypeOK, ReallocRequest
      <4>2. allocations[r.original].txn_id \in TxnId
        BY <4>1 DEF AllocationRecord
      <4> DEFINE erased == Erase(allocations, r.original)
                 id     == allocations[r.original].txn_id
      <4>3. erased \in [Pointer -> AllocationRecord \cup {NoRecord}]
        BY <1>1 DEF Erase, LedgerTypeOK
      <4>4. erased[Null] \in {allocations[Null], NoRecord}
        BY <1>1 DEF Erase, LedgerTypeOK
      <4>5. allocations' = Emplace(erased, r.new, [size |-> r.size, txn_id |-> id])
        BY <3>1 DEF HandleReallocKnown
      <4>6. id \in TxnId
        BY <4>2
      <4> HIDE DEF erased, id
      <4> QED
        BY <4>3, <4>4, <4>5, <4>6
    <3>2. CASE HandleReallocUnknown(r)
      BY <1>1, <3>2 DEF HandleReallocUnknown, LedgerTypeOK
    <3> QED BY <2>1, <3>1, <3>2 DEF HandleRealloc
  <2> QED
    BY <1>1, <1>2, <1>3, <1>5, <2>2 DEF Open, Opens
<1>6. CASE r.op = "FREE"
  <2>1. UNCHANGED allocations \/ allocations' = Erase(allocations, r.block)
    BY <1>6 DEF HandleRecord, HandleFree, HandleFreeKnown, HandleFreeUnknown
  <2> QED
    BY <1>1, <2>1 DEF Erase, LedgerTypeOK, Open
<1> QED
  BY <1>4, <1>5, <1>6 DEF HandleRecord

LEMMA WorkerNull ==
  ASSUME TypeInv, NullInv, NEW t \in Thread, WorkerHandles(t)
  PROVE  NullInv'
<1> DEFINE r == Head(worker_request_queue[t])
<1>1. /\ r \in RequestRecord /\ r \in Pending
      /\ HandleRecord(r) \/ HandleCommand(t, r)
      /\ Pending' \subseteq Pending
  BY PendingShrinks
<1>2. \A u \in Thread : (Flying(u)' <=> Flying(u)) /\ call'[u] = call[u]
  BY DEF WorkerHandles, Flying
<1> HIDE DEF r
<1>3. Null \in Open' => allocations'[Null].size = 0
  <2> SUFFICES ASSUME Null \in Open'
               PROVE  allocations'[Null].size = 0
    OBVIOUS
  <2>1. CASE HandleRecord(r)
    BY <1>1, <2>1, NullEntry DEF NullInv
  <2>2. CASE HandleCommand(t, r)
    <3>1. Null \in Open /\ allocations'[Null] = allocations[Null]
      BY <2>2 DEF HandleCommand, HandleClear, HandleSnapshot, HandleStats, ledger_vars, Open
    <3> QED BY <3>1 DEF NullInv
  <2> QED BY <1>1, <2>1, <2>2
<1> HIDE DEF Flying
<1> QED
  BY <1>1, <1>2, <1>3 DEF NullInv

LEMMA NullNext ==
  ASSUME ~HeapMayFail, TypeInv, CallInv, NullInv, [Next]_vars
  PROVE  NullInv'
<1>1. CASE UNCHANGED vars
  BY <1>1 DEF vars, NullInv, Flying, Pending, QueueRange, Open, ledger_vars
<1>2. ASSUME NEW t \in Thread,
             Pause(t) \/ Resume(t) \/ CallStart(t) \/ CallStop(t) \/ Ask(t) \/ CommandStep(t)
      PROVE  NullInv'
  <2>1. /\ UNCHANGED ledger_vars
        /\ Pending' = Pending \/ \E r \in Asked : Pending' = Pending \cup {r}
        /\ \A u \in Thread : (Flying(u)' <=> Flying(u)) /\ (Flying(u) => call'[u] = call[u])
    BY <1>2, CommandSends
  <2>2. Open' = Open /\ UNCHANGED allocations
    BY <2>1 DEF ledger_vars, Open
  <2> HIDE DEF Flying
  <2> QED
    BY <2>1, <2>2, CommandClosesNothing DEF NullInv
<1> QED
  BY <1>1, <1>2, HeapCallNull, WorkerNull DEF Next, ThreadStep, Worker

LEMMA NullInvHolds == ~HeapMayFail => (Spec => []NullInv)
<1> SUFFICES ASSUME ~HeapMayFail
             PROVE  Spec => []NullInv
  OBVIOUS
<1>1. Init => NullInv
  <2> SUFFICES ASSUME Init PROVE NullInv
    OBVIOUS
  <2>1. Pending = {}
    BY TypeInit, PendingIs, EmptySeq DEF Init, InitWith
  <2>2. (\A t \in Thread : ~Flying(t)) /\ Open = {}
    BY DEF Init, InitWith, LedgerInit, Flying, Open
  <2> QED BY <2>1, <2>2 DEF NullInv
<1> QED
  BY <1>1, NullNext, CallInvHolds, TypeInvHolds, PTL DEF Spec

-----------------------------------------------------------------------------
(***************************************************************************)
(* No false leak: whatever the threads do and in whatever order the worker *)
(* handles their records, an address that a snapshot would report is live, *)
(* or its release is on its way to the worker; except one released while   *)
(* its thread was not watched, one with records left over from before the  *)
(* session, and the original of a realloc that overtook the record of its  *)
(* block.  NULL, which is no block, is reported only for a realloc to size *)
(* 0, if no allocation fails.                                              *)
(***************************************************************************)
THEOREM LeaksAreLive == Spec => []NoFalseLeak
<1>1. Init => LeakInv
  <2> SUFFICES ASSUME Init PROVE LeakInv
    OBVIOUS
  <2>1. \A R : QueuedIn(R) = {}
    <3>1. \A t \in Thread : Len(worker_request_queue[t]) = 0
      BY EmptySeq DEF Init, InitWith
    <3> QED BY <3>1 DEF QueuedIn
  <2>2. \A t \in Thread : ~Flying(t)
    BY DEF Init, InitWith, Flying
  <2>3. {t \in Thread : Flying(t)} = {}
    BY <2>2
  <2>4. IsFiniteSet({}) /\ Cardinality({}) = 0
    BY FS_EmptySet
  <2>5. Countable
    BY <2>1, <2>3, <2>4 DEF Countable
  <2>6. ASSUME NEW a \in Addr
        PROVE  Balance(a)
    <3>1. Getting(a) = {} /\ Giving(a) = {}
      BY <2>2 DEF Getting, Giving, Gets, Gives
    <3>2. One(a \in Open) = 0 /\ One(a \in heap) = 0
      BY DEF Init, InitWith, LedgerInit, Open, One
    <3> QED BY <2>1, <2>4, <3>1, <3>2 DEF Balance
  <2> QED BY <2>5, <2>6 DEF LeakInv
<1>2. TypeInv /\ CallInv /\ LeakInv /\ [Next]_vars => LeakInv'
  <2> SUFFICES ASSUME TypeInv, CallInv, LeakInv, [Next]_vars
               PROVE  LeakInv'
    OBVIOUS
  <2>1. CASE UNCHANGED vars
    BY <2>1 DEF vars, LeakInv, Balance, Countable, QueuedIn, Flying, Open, ledger_vars, anomalies,
                history_vars, heap_vars, Getting, Giving, Gets, Gives
  <2> QED
    BY <2>1, HeapCallLeak, CommandLeak, WorkerLeak DEF Next, ThreadStep, Worker
<1>3. TypeInv /\ LeakInv /\ (HeapMayFail \/ NullInv) => NoFalseLeak
  BY ReportedIsLive DEF NoFalseLeak, NullInv, Reported
<1>4. Spec => [](HeapMayFail \/ NullInv)
  <2>1. CASE HeapMayFail
    BY <2>1, PTL
  <2>2. CASE ~HeapMayFail
    BY <2>2, NullInvHolds, PTL
  <2> QED BY <2>1, <2>2
<1> QED
  BY <1>1, <1>2, <1>3, <1>4, CallInvHolds, TypeInvHolds, PTL DEF Spec

-----------------------------------------------------------------------------
(***************************************************************************)
(* Live blocks.  That the application passes on only live blocks is not    *)
(* inductive: two of its blocks could be one, or a block it holds also the *)
(* one a free is about to release, or the token of a guard.  Each live     *)
(* block has at most one owner: the application, a call (what it was given *)
(* until the C library has run, and then what it will give back), a        *)
(* snapshot that waits to be taken, or a guard.                            *)
(***************************************************************************)
KeptAt(place, c) ==
  CASE place = "libc"                           -> {c.arg} \ {Null}
    [] place \in {"check", "count", "enqueue"} -> Given(c)
    [] OTHER                                    -> {}

OwnerKind == {"app", "call", "answer", "guard"}

(* Owner i of this kind, of thread u, owns a. *)
Owns(kind, u, i, a) ==
  \/ kind = "app" /\ u = NoThread /\ i = 0 /\ a \in held
  \/ kind = "call" /\ u \in Thread /\ i = 0 /\ a \in KeptAt(pc[u], call[u])
  \/ kind = "answer" /\ u \in Thread /\ i = 0 /\ answer[u] # NoAnswer /\ answer[u].storage = a
  \/ kind = "guard" /\ u \in Thread /\ i \in 1 .. Len(guards[u]) /\ guards[u][i].token = a

OwnerInv ==
  \A a \in Addr : \A k, l \in OwnerKind, u, v \in Thread \cup {NoThread}, i, j \in Nat :
    /\ Owns(k, u, i, a) => a \in heap
    /\ Owns(k, u, i, a) /\ Owns(l, v, j, a) => k = l /\ u = v /\ i = j

(* A step after which nobody owns what it did not own before. *)
LEMMA OwnersStay ==
  ASSUME OwnerInv,
         \A a \in Addr : \A k \in OwnerKind, u \in Thread \cup {NoThread}, i \in Nat :
           Owns(k, u, i, a)' => Owns(k, u, i, a) /\ a \in heap'
  PROVE  OwnerInv'
<1> SUFFICES ASSUME NEW a \in Addr, NEW k \in OwnerKind, NEW l \in OwnerKind,
                    NEW u \in Thread \cup {NoThread}, NEW v \in Thread \cup {NoThread},
                    NEW i \in Nat, NEW j \in Nat, Owns(k, u, i, a)'
             PROVE  a \in heap' /\ (Owns(l, v, j, a)' => k = l /\ u = v /\ i = j)
  BY DEF OwnerInv
<1> QED
  BY DEF OwnerInv

(* A step that gives block x to one owner, who is the only one afterwards. *)
LEMMA OwnerGets ==
  ASSUME OwnerInv, NEW x, NEW kind, NEW w, NEW n, x \in heap',
         \A a \in Addr : \A k \in OwnerKind, u \in Thread \cup {NoThread}, i \in Nat :
           Owns(k, u, i, a)' => \/ a = x /\ k = kind /\ u = w /\ i = n
                                \/ a # x /\ Owns(k, u, i, a) /\ a \in heap'
  PROVE  OwnerInv'
<1> SUFFICES ASSUME NEW a \in Addr, NEW k \in OwnerKind, NEW l \in OwnerKind,
                    NEW u \in Thread \cup {NoThread}, NEW v \in Thread \cup {NoThread},
                    NEW i \in Nat, NEW j \in Nat, Owns(k, u, i, a)'
             PROVE  a \in heap' /\ (Owns(l, v, j, a)' => k = l /\ u = v /\ i = j)
  BY DEF OwnerInv
<1>1. CASE a = x
  BY <1>1
<1>2. CASE a # x
  BY <1>2 DEF OwnerInv
<1> QED BY <1>1, <1>2

(* What the owners of one kind own. *)
LEMMA OwnedBy ==
  ASSUME NEW a, NEW u, NEW i
  PROVE  /\ Owns("app", u, i, a) <=> u = NoThread /\ i = 0 /\ a \in held
         /\ Owns("call", u, i, a) <=> u \in Thread /\ i = 0 /\ a \in KeptAt(pc[u], call[u])
         /\ Owns("answer", u, i, a) <=>
              u \in Thread /\ i = 0 /\ answer[u] # NoAnswer /\ answer[u].storage = a
         /\ Owns("guard", u, i, a) <=>
              u \in Thread /\ i \in 1 .. Len(guards[u]) /\ guards[u][i].token = a
BY DEF Owns

(* The block a call gives back is one, if any. *)
LEMMA GivenIsOne ==
  ASSUME NEW c \in Call
  PROVE  Given(c) = {} \/ \E x \in Addr : Given(c) = {x} /\ (x = c.result \/ (x = c.arg /\ x \notin ReleasedBy(c)))
<1>1. c.fn \in HeapFunction /\ c.arg \in Pointer /\ c.result \in Pointer /\ c.size \in Nat
  BY CallParts, ConstantTypes
<1>2. CASE c.fn = "free"
  <2>1. Given(c) = {}
    BY <1>2 DEF Given
  <2> QED BY <2>1
<1>3. CASE c.fn # "free" /\ c.result # Null
  <2>1. Given(c) = {c.result} /\ c.result \in Addr
    BY <1>1, <1>3 DEF Given, Pointer
  <2> QED BY <2>1
<1>4. CASE c.fn # "free" /\ c.result = Null /\ c.fn = "realloc" /\ c.size > 0
  <2>1. Given(c) = {c.arg} \ {Null} /\ ReleasedBy(c) = {}
    BY <1>1, <1>4 DEF Given, ReleasedBy
  <2> QED BY <1>1, <2>1 DEF Pointer
<1>5. CASE c.fn # "free" /\ c.result = Null /\ ~(c.fn = "realloc" /\ c.size > 0)
  <2>1. Given(c) = {}
    BY <1>5 DEF Given
  <2> QED BY <2>1
<1> QED
  BY <1>2, <1>3, <1>4, <1>5

(* A step of a call moves blocks between the application and the call. *)
LEMMA CallMoves ==
  ASSUME TypeInv, NEW t \in Thread, NEW place, NEW c,
         pc' = [pc EXCEPT ![t] = place], call' = [call EXCEPT ![t] = c],
         UNCHANGED <<guards, answer>>,
         NEW a, NEW k \in OwnerKind, NEW u, NEW i, Owns(k, u, i, a)'
  PROVE  \/ k = "app" /\ u = NoThread /\ i = 0 /\ a \in held'
         \/ k = "call" /\ u = t /\ i = 0 /\ a \in KeptAt(place, c)
         \/ k # "app" /\ ~(k = "call" /\ u = t) /\ Owns(k, u, i, a)
<1>1. /\ pc'[t] = place /\ call'[t] = c
      /\ \A v \in Thread \ {t} : pc'[v] = pc[v] /\ call'[v] = call[v]
  BY DEF TypeInv, Types
<1> QED
  BY <1>1 DEF Owns

LEMMA HeapCallOwners ==
  ASSUME TypeInv, CallInv, OwnerInv, NEW t \in Thread, HeapCall(t)
  PROVE  OwnerInv'
<1>1. UNCHANGED <<guards, answer>>
  BY DEF HeapCall, BeginCall, LibcMalloc, LibcRealloc, LibcFree, Libc, CheckUnwatched,
         CheckWatched, CountKnownLeak, EnqueueRecord
<1>2. /\ NoThread \notin Thread /\ 0 \in Nat /\ Null \notin Addr /\ held \subseteq Addr
      /\ "app" \in OwnerKind /\ "call" \in OwnerKind
  BY WatcherAssumption, LedgerAssumption DEF OwnerKind, TypeInv, Types
<1>3. CASE BeginCall(t)
  <2>1. PICK fn, site, arg, size :
          /\ arg \in held \cup {Null} /\ Enter(t, fn, site, arg, size)
          /\ held' = held \ {arg} /\ UNCHANGED heap
    <3>1. held \ {Null} = held
      BY <1>2
    <3>2. UNCHANGED heap
      BY <1>3 DEF BeginCall
    <3>3. CASE \E fn \in Calls \cap Acquiring, site \in Site, size \in CallSize :
                 Enter(t, fn, site, Null, size) /\ UNCHANGED held
      <4>1. held' = held \ {Null}
        BY <3>1, <3>3
      <4> QED BY <3>2, <3>3, <4>1
    <3>4. CASE \E arg \in held \cup {Null}, size \in CallSize :
                 "realloc" \in Calls /\ Enter(t, "realloc", NoCall, arg, size) /\ held' = held \ {arg}
      BY <3>2, <3>4
    <3>5. CASE \E arg \in held \cup {Null} :
                 "free" \in Calls /\ Enter(t, "free", NoCall, arg, 0) /\ held' = held \ {arg}
      BY <3>2, <3>5
    <3> QED
      BY <1>3, <3>3, <3>4, <3>5 DEF BeginCall
  <2> DEFINE c == [fn |-> fn, hook |-> hooks[fn], site |-> site, arg |-> arg, size |-> size,
                   result |-> Null, seen |-> 0]
  <2>2. /\ pc' = [pc EXCEPT ![t] = "libc"] /\ call' = [call EXCEPT ![t] = c]
        /\ KeptAt("libc", c) = {arg} \ {Null}
    BY <2>1 DEF Enter, GoTo, KeptAt
  <2> HIDE DEF c
  <2>3. ASSUME NEW a \in Addr, NEW k \in OwnerKind, NEW u \in Thread \cup {NoThread}, NEW i \in Nat,
               Owns(k, u, i, a)'
        PROVE  \/ a = arg /\ k = "call" /\ u = t /\ i = 0
               \/ a # arg /\ Owns(k, u, i, a) /\ a \in heap'
    <3>1. \/ k = "app" /\ u = NoThread /\ i = 0 /\ a \in held'
          \/ k = "call" /\ u = t /\ i = 0 /\ a \in KeptAt("libc", c)
          \/ k # "app" /\ ~(k = "call" /\ u = t) /\ Owns(k, u, i, a)
      BY <1>1, <2>2, <2>3, CallMoves
    <3>2. Owns(k, u, i, a) => a \in heap'
      BY <2>1 DEF OwnerInv
    <3>3. k # "app" /\ Owns(k, u, i, a) => a \notin held
      BY <1>2, OwnedBy DEF OwnerInv
    <3> QED
      BY <1>2, <2>1, <2>2, <3>1, <3>2, <3>3, OwnedBy
  <2>4. CASE arg = Null
    BY <1>2, <2>3, <2>4, OwnersStay
  <2>5. CASE arg # Null
    <3>1. arg \in heap'
      BY <1>2, <2>1, <2>5, OwnedBy DEF OwnerInv
    <3> QED BY <2>3, <3>1, OwnerGets
  <2> QED BY <2>4, <2>5
<1>4. CASE LibcMalloc(t) \/ LibcRealloc(t) \/ LibcFree(t)
  <2>1. pc[t] = "libc"
    BY <1>4, CompletedCall
  <2>2. PICK c \in Call :
          /\ Libc(t, c) /\ c.arg = call[t].arg
          /\ c.result \in (Addr \ heap) \cup {Null} \/ (c.fn = "realloc" /\ c.result = c.arg)
    BY <1>4, CompletedCall
  <2>3. heap' = (heap \ ReleasedBy(c)) \cup ({c.result} \ {Null})
    BY <2>2 DEF Libc
  <2>4. KeptAt(pc[t], call[t]) = {c.arg} \ {Null} /\ ReleasedBy(c) \subseteq {c.arg} \ {Null}
    BY <2>1, <2>2 DEF KeptAt, ReleasedBy
  <2>5. \A a \in Addr \cap ({c.arg} \ {Null}) : Owns("call", t, 0, a)
    BY <2>4, OwnedBy
  <2>6. PICK kind, w, place, d :
          /\ kind \in OwnerKind /\ w \in Thread \cup {NoThread}
          /\ pc' = [pc EXCEPT ![t] = place] /\ call' = [call EXCEPT ![t] = d]
          /\ (kind = "app" /\ w = NoThread /\ held' = held \cup Given(c) /\ KeptAt(place, d) = {})
               \/ (kind = "call" /\ w = t /\ held' = held /\ KeptAt(place, d) = Given(c))
    <3>1. CASE c.hook = "libc"
      <4>1. /\ pc' = [pc EXCEPT ![t] = "idle"] /\ call' = [call EXCEPT ![t] = NoCall]
            /\ held' = held \cup Given(c) /\ KeptAt("idle", NoCall) = {}
        BY <2>2, <3>1 DEF Libc, ReturnUnrecorded, Return, GoTo, KeptAt
      <4> QED BY <1>2, <4>1
    <3>2. CASE c.hook # "libc"
      <4>1. /\ pc' = [pc EXCEPT ![t] = "check"] /\ call' = [call EXCEPT ![t] = c]
            /\ held' = held /\ KeptAt("check", c) = Given(c)
        BY <2>2, <3>2 DEF Libc, GoTo, KeptAt
      <4> QED BY <1>2, <4>1
    <3> QED BY <3>1, <3>2
  <2>7. ASSUME NEW a \in Addr, NEW k \in OwnerKind, NEW u \in Thread \cup {NoThread}, NEW i \in Nat,
               Owns(k, u, i, a)'
        PROVE  \/ a \in Given(c) /\ k = kind /\ u = w /\ i = 0
               \/ /\ Owns(k, u, i, a) /\ ~(k = "call" /\ u = t)
                  /\ a \notin {c.arg} \ {Null} /\ a \in heap /\ a \in heap'
    <3>1. \/ k = "app" /\ u = NoThread /\ i = 0 /\ a \in held'
          \/ k = "call" /\ u = t /\ i = 0 /\ a \in KeptAt(place, d)
          \/ k # "app" /\ ~(k = "call" /\ u = t) /\ Owns(k, u, i, a)
      BY <1>1, <2>6, <2>7, CallMoves
    <3>2. \/ a \in Given(c) /\ k = kind /\ u = w /\ i = 0
          \/ Owns(k, u, i, a) /\ ~(k = "call" /\ u = t)
      BY <1>2, <2>6, <3>1, OwnedBy
    <3>3. Owns(k, u, i, a) /\ ~(k = "call" /\ u = t) => a \in heap /\ a \notin {c.arg} \ {Null}
      BY <1>2, <2>5 DEF OwnerInv
    <3> QED
      BY <2>3, <2>4, <3>2, <3>3
  <2>8. CASE Given(c) = {}
    BY <2>7, <2>8, OwnersStay
  <2>9. ASSUME NEW x \in Addr, Given(c) = {x}, x = c.result \/ (x = c.arg /\ x \notin ReleasedBy(c))
        PROVE  OwnerInv'
    <3>1. x \in heap'
      <4>1. CASE x = c.result
        BY <1>2, <2>3, <4>1
      <4>2. CASE x = c.arg /\ x \notin ReleasedBy(c)
        <5>1. x \in heap
          BY <1>2, <2>5, <2>9, <4>2 DEF OwnerInv
        <5> QED BY <2>3, <4>2, <5>1
      <4> QED BY <2>9, <4>1, <4>2
    <3>2. x \notin heap \/ x = c.arg
      BY <1>2, <2>2, <2>9
    <3>3. \A a \in Addr : \A k \in OwnerKind, u \in Thread \cup {NoThread}, i \in Nat :
            Owns(k, u, i, a)' => \/ a = x /\ k = kind /\ u = w /\ i = 0
                                 \/ a # x /\ Owns(k, u, i, a) /\ a \in heap'
      BY <1>2, <2>7, <2>9, <3>2
    <3> QED BY <3>1, <3>3, OwnerGets
  <2> QED BY <2>8, <2>9, GivenIsOne
<1>5. CASE CheckUnwatched(t) \/ CountKnownLeak(t) \/ EnqueueRecord(t)
  <2> DEFINE c == call[t]
  <2>1. /\ c \in Call /\ KeptAt(pc[t], c) = Given(c) /\ held' = held \cup Given(c) /\ UNCHANGED heap
        /\ pc' = [pc EXCEPT ![t] = "idle"] /\ call' = [call EXCEPT ![t] = NoCall]
    BY <1>5 DEF CheckUnwatched, CountKnownLeak, EnqueueRecord, ReturnUnrecorded, Return, GoTo,
                KeptAt, TypeInv, InCallHasCall, InCall
  <2>2. KeptAt("idle", NoCall) = {}
    BY DEF KeptAt
  <2>3. \A a \in Given(c) : Owns("call", t, 0, a)
    BY <2>1, OwnedBy
  <2>4. ASSUME NEW a \in Addr, NEW k \in OwnerKind, NEW u \in Thread \cup {NoThread}, NEW i \in Nat,
               Owns(k, u, i, a)'
        PROVE  \/ a \in Given(c) /\ k = "app" /\ u = NoThread /\ i = 0
               \/ a \notin Given(c) /\ Owns(k, u, i, a) /\ a \in heap'
    <3>1. \/ k = "app" /\ u = NoThread /\ i = 0 /\ a \in held'
          \/ k # "app" /\ ~(k = "call" /\ u = t) /\ Owns(k, u, i, a)
      BY <1>1, <2>1, <2>2, <2>4, CallMoves
    <3>2. Owns(k, u, i, a) => a \in heap'
      BY <2>1 DEF OwnerInv
    <3>3. Owns(k, u, i, a) /\ ~(k = "call" /\ u = t) => a \notin Given(c)
      BY <1>2, <2>3 DEF OwnerInv
    <3> QED
      BY <1>2, <2>1, <3>1, <3>2, <3>3, OwnedBy
  <2>5. CASE Given(c) = {}
    BY <2>4, <2>5, OwnersStay
  <2>6. ASSUME NEW x \in Addr, Given(c) = {x}
        PROVE  OwnerInv'
    <3>1. x \in heap'
      BY <1>2, <2>1, <2>3, <2>6 DEF OwnerInv
    <3>2. \A a \in Addr : a \in Given(c) <=> a = x
      BY <2>6
    <3> HIDE DEF c
    <3> QED BY <2>4, <3>1, <3>2, OwnerGets
  <2> QED BY <2>1, <2>5, <2>6, GivenIsOne
<1>6. CASE CheckWatched(t)
  <2>1. PICK place \in {"count", "enqueue"}, c \in Call :
          /\ pc' = [pc EXCEPT ![t] = place] /\ call' = [call EXCEPT ![t] = c]
          /\ c.fn = call[t].fn /\ c.arg = call[t].arg /\ c.size = call[t].size
          /\ c.result = call[t].result
    BY <1>6, CheckedCall
  <2>2. KeptAt(place, c) = KeptAt(pc[t], call[t]) /\ UNCHANGED <<held, heap>>
    BY <1>6, <2>1 DEF CheckWatched, KeptAt, Given, heap_vars
  <2>3. ASSUME NEW a \in Addr, NEW k \in OwnerKind, NEW u \in Thread \cup {NoThread}, NEW i \in Nat,
               Owns(k, u, i, a)'
        PROVE  Owns(k, u, i, a) /\ a \in heap'
    <3>1. \/ k = "app" /\ u = NoThread /\ i = 0 /\ a \in held'
          \/ k = "call" /\ u = t /\ i = 0 /\ a \in KeptAt(place, c)
          \/ k # "app" /\ ~(k = "call" /\ u = t) /\ Owns(k, u, i, a)
      BY <1>1, <2>1, <2>3, CallMoves
    <3>2. Owns(k, u, i, a)
      BY <2>2, <3>1, OwnedBy
    <3> QED
      BY <2>2, <3>2 DEF OwnerInv
  <2> QED BY <2>3, OwnersStay
<1> QED
  BY <1>3, <1>4, <1>5, <1>6 DEF HeapCall

(* The token of a new guard is a block of its own. *)
LEMMA PauseOwners ==
  ASSUME TypeInv, OwnerInv, NEW t \in Thread, Pause(t)
  PROVE  OwnerInv'
<1>1. PICK token \in (Addr \ heap) \cup {Null} :
        /\ guards' = [guards EXCEPT ![t] = Append(@, [token |-> token, saved |-> watching_thread[t]])]
        /\ heap' = heap \cup ({token} \ {Null})
  BY DEF Pause
<1> DEFINE guard == [token |-> token, saved |-> watching_thread[t]]
           n     == Len(guards[t]) + 1
<1>2. guard \in [token : Pointer, saved : BOOLEAN] /\ guard.token = token
  BY <1>1 DEF TypeInv, Types, Pointer
<1>3. /\ guards'[t] = Append(guards[t], guard)
      /\ \A u \in Thread \ {t} : guards'[u] = guards[u]
  BY <1>1 DEF TypeInv, Types
<1> HIDE DEF guard
<1>4. /\ Len(Append(guards[t], guard)) = n /\ n \in Nat /\ Len(guards[t]) \in Nat
      /\ Append(guards[t], guard)[n] = guard
      /\ \A i \in 1 .. Len(guards[t]) : Append(guards[t], guard)[i] = guards[t][i]
  BY <1>2, AppendProperties, LenProperties DEF TypeInv, Types
<1>5. \A i \in Nat : i \in 1 .. n => i \in 1 .. Len(guards[t]) \/ i = n
  BY <1>4
<1>6. UNCHANGED <<held, pc, call, answer>>
  BY DEF Pause
<1> HIDE DEF n
<1>7. ASSUME NEW a \in Addr, NEW k \in OwnerKind, NEW u \in Thread \cup {NoThread}, NEW i \in Nat,
             Owns(k, u, i, a)'
      PROVE  \/ a = token /\ k = "guard" /\ u = t /\ i = n
             \/ a # token /\ Owns(k, u, i, a) /\ a \in heap'
  <2>1. Owns(k, u, i, a) => a \in heap' /\ a # token
    BY <1>1, LedgerAssumption DEF OwnerInv
  <2>2. CASE k # "guard" \/ u # t
    BY <1>3, <1>6, <1>7, <2>1, <2>2 DEF Owns
  <2>3. CASE k = "guard" /\ u = t /\ i \in 1 .. Len(guards[t])
    BY <1>3, <1>4, <1>7, <2>1, <2>3 DEF Owns
  <2>4. CASE k = "guard" /\ u = t /\ i = n
    BY <1>2, <1>3, <1>4, <1>7, <2>4 DEF Owns
  <2>5. k = "guard" /\ u = t => i \in 1 .. Len(guards[t]) \/ i = n
    BY <1>3, <1>4, <1>5, <1>7 DEF Owns
  <2> QED BY <2>2, <2>3, <2>4, <2>5
<1>8. CASE token = Null
  BY <1>7, <1>8, LedgerAssumption, OwnersStay
<1>9. CASE token # Null
  <2>1. token \in heap'
    BY <1>1, <1>9
  <2> QED BY <1>7, <2>1, OwnerGets
<1> QED BY <1>8, <1>9

(* The guard's destructor hands its token to the call that frees it. *)
LEMMA ResumeOwners ==
  ASSUME TypeInv, OwnerInv, NEW t \in Thread, Resume(t)
  PROVE  OwnerInv'
<1> DEFINE n     == Len(guards[t])
           rest  == SubSeq(guards[t], 1, n - 1)
           token == guards[t][n].token
           c     == [fn |-> "free", hook |-> hooks["free"], site |-> NoCall, arg |-> token,
                     size |-> 0, result |-> Null, seen |-> 0]
<1>1. /\ n \in Nat \ {0} /\ Len(rest) = n - 1
      /\ \A i \in 1 .. n - 1 : rest[i] = guards[t][i]
      /\ n \in 1 .. n /\ token \in Pointer
  <2>1. guards[t] \in Seq([token : Pointer, saved : BOOLEAN]) /\ guards[t] # <<>>
    BY DEF Resume, TypeInv, Types
  <2>2. /\ n \in Nat \ {0} /\ guards[t][n] \in [token : Pointer, saved : BOOLEAN]
        /\ Len(rest) = n - 1 /\ \A i \in 1 .. n - 1 : rest[i] = guards[t][i]
    BY <2>1, PopType
  <2> HIDE DEF n, rest
  <2>3. n \in 1 .. n
    BY <2>2
  <2> QED BY <2>2, <2>3
<1>2. /\ guards'[t] = rest /\ \A u \in Thread \ {t} : guards'[u] = guards[u]
      /\ UNCHANGED <<held, heap, answer>>
      /\ pc' = [pc EXCEPT ![t] = "libc"] /\ call' = [call EXCEPT ![t] = c]
  BY DEF Resume, Enter, GoTo, TypeInv, Types, heap_vars
<1>3. KeptAt("libc", c) = {token} \ {Null}
  BY DEF KeptAt
<1> HIDE DEF rest, c
<1>4. token \in Addr => Owns("guard", t, n, token)
  BY <1>1 DEF Owns
<1>5. \A i \in Nat : i \in 1 .. n - 1 => i \in 1 .. n /\ i # n
  BY <1>1
<1>6. /\ pc'[t] = "libc" /\ call'[t] = c
      /\ \A u \in Thread \ {t} : pc'[u] = pc[u] /\ call'[u] = call[u]
  BY <1>2 DEF TypeInv, Types
<1> HIDE DEF n, token
<1>7. ASSUME NEW a \in Addr, NEW k \in OwnerKind, NEW u \in Thread \cup {NoThread}, NEW i \in Nat,
             Owns(k, u, i, a)'
      PROVE  \/ a = token /\ k = "call" /\ u = t /\ i = 0
             \/ a # token /\ Owns(k, u, i, a) /\ a \in heap'
  <2>1. Owns(k, u, i, a) => a \in heap'
    BY <1>2 DEF OwnerInv
  <2>2. Owns(k, u, i, a) /\ ~(k = "guard" /\ u = t /\ i = n) => a # token
    BY <1>1, <1>4 DEF OwnerInv, OwnerKind
  <2>3. CASE k = "call" /\ u = t
    <3>1. i = 0 /\ a \in KeptAt("libc", c)
      BY <1>6, <1>7, <2>3 DEF Owns
    <3> QED BY <1>3, <2>3, <3>1
  <2>4. CASE k = "guard" /\ u = t
    <3>1. i \in 1 .. Len(rest) /\ rest[i].token = a
      BY <1>2, <1>7, <2>4 DEF Owns
    <3>2. guards[t][i].token = a /\ i \in 1 .. n /\ i # n
      BY <1>1, <1>5, <3>1
    <3>3. Owns(k, u, i, a)
      BY <2>4, <3>2 DEF Owns, n
    <3> QED BY <2>1, <2>2, <2>4, <3>2, <3>3
  <2>5. CASE ~(k = "call" /\ u = t) /\ ~(k = "guard" /\ u = t)
    BY <1>2, <1>6, <1>7, <2>1, <2>2, <2>5 DEF Owns
  <2> QED BY <2>3, <2>4, <2>5
<1>8. CASE token \notin Addr
  BY <1>7, <1>8, OwnersStay
<1>9. CASE token \in Addr
  <2>1. token \in heap'
    BY <1>1, <1>2, <1>4, <1>9 DEF OwnerInv, OwnerKind
  <2> QED BY <1>7, <2>1, OwnerGets
<1> QED BY <1>8, <1>9

(* A command's thread takes the storage of its snapshot, or nothing. *)
LEMMA CommandOwners ==
  ASSUME TypeInv, OwnerInv, NEW t \in Thread, CallStart(t) \/ CallStop(t) \/ Ask(t) \/ CommandStep(t)
  PROVE  OwnerInv'
<1>1. UNCHANGED <<heap, guards>>
  BY DEF CallStart, CallStop, Ask, CommandStep, StartLock, StartCleared, StartStoreHook,
         StartWatching, StopLock, StopStoreHook, StopAsk, StopReturn, AskReturn,
         unchanged_by_commands
<1>2. UNCHANGED call /\ \A u \in Thread : pc'[u] # pc[u] => pc[u] \notin InCall /\ pc'[u] \notin InCall
  BY CallFrame
<1>3. \A u \in Thread : KeptAt(pc[u], call[u])' = KeptAt(pc[u], call[u])
  BY <1>2 DEF KeptAt, InCall
<1>4. \A k, u, i, a : k \notin {"app", "answer"} /\ Owns(k, u, i, a)' => Owns(k, u, i, a)
  BY <1>1, <1>3 DEF Owns
<1>5. \/ TakeAnswer(t)
      \/ /\ UNCHANGED held
         /\ UNCHANGED answer \/ answer' = [answer EXCEPT ![t] = NoAnswer]
  BY DEF CallStart, CallStop, Ask, CommandStep, StartLock, StartCleared, StartStoreHook,
         StartWatching, StopLock, StopStoreHook, StopAsk, StopReturn, AskReturn
<1>6. NoThread \notin Thread /\ "app" \in OwnerKind /\ "answer" \in OwnerKind /\ 0 \in Nat
  BY WatcherAssumption DEF OwnerKind
<1>7. CASE /\ UNCHANGED held
           /\ UNCHANGED answer \/ answer' = [answer EXCEPT ![t] = NoAnswer]
  <2>1. \A u \in Thread : answer'[u] # NoAnswer => answer'[u] = answer[u]
    BY <1>7 DEF TypeInv, Types
  <2>2. \A k, u, i, a : k \in {"app", "answer"} /\ Owns(k, u, i, a)' => Owns(k, u, i, a)
    BY <1>7, <2>1 DEF Owns
  <2> QED
    BY <1>1, <1>4, <2>2, OwnersStay DEF OwnerInv
<1>8. CASE TakeAnswer(t)
  <2> DEFINE storage == answer[t].storage
  <2>1. /\ answer[t] # NoAnswer /\ storage \in Pointer
        /\ held' = held \cup ({storage} \ {Null})
        /\ answer'[t] = NoAnswer /\ \A u \in Thread \ {t} : answer'[u] = answer[u]
    BY <1>8 DEF TakeAnswer, TypeInv, Types, Answer
  <2>2. storage \in Addr => Owns("answer", t, 0, storage)
    BY <2>1 DEF Owns
  <2> HIDE DEF storage
  <2>3. ASSUME NEW a \in Addr, NEW k \in OwnerKind, NEW u \in Thread \cup {NoThread}, NEW i \in Nat,
               Owns(k, u, i, a)'
        PROVE  \/ a = storage /\ k = "app" /\ u = NoThread /\ i = 0
               \/ a # storage /\ Owns(k, u, i, a) /\ a \in heap'
    <3>1. Owns(k, u, i, a) => a \in heap'
      BY <1>1 DEF OwnerInv
    <3>2. Owns(k, u, i, a) /\ ~(k = "answer" /\ u = t /\ i = 0) => a # storage
      BY <1>6, <2>2 DEF OwnerInv
    <3>3. CASE k = "app"
      BY <1>6, <2>1, <2>3, <3>1, <3>2, <3>3 DEF Owns
    <3>4. CASE k = "answer"
      BY <2>1, <2>3, <3>1, <3>2, <3>4 DEF Owns
    <3>5. CASE k \notin {"app", "answer"}
      BY <1>4, <2>3, <3>1, <3>2, <3>5
    <3> QED BY <3>3, <3>4, <3>5
  <2>4. CASE storage \notin Addr
    BY <2>3, <2>4, OwnersStay
  <2>5. CASE storage \in Addr
    <3>1. storage \in heap'
      BY <1>1, <1>6, <2>2, <2>5 DEF OwnerInv
    <3> QED BY <2>3, <3>1, OwnerGets
  <2> QED BY <2>4, <2>5
<1> QED
  BY <1>5, <1>7, <1>8

(* The worker puts the storage of a snapshot into the promise. *)
LEMMA WorkerOwners ==
  ASSUME TypeInv, OwnerInv, NEW t \in Thread, WorkerHandles(t)
  PROVE  OwnerInv'
<1>1. UNCHANGED <<held, pc, call, guards>>
  BY DEF WorkerHandles
<1>2. \/ UNCHANGED <<answer, heap>>
      \/ \E leaks \in SUBSET Pointer, storage \in (Addr \ heap) \cup {Null} :
           Reply(t, leaks, storage) /\ heap' = heap \cup ({storage} \ {Null})
  <2> DEFINE r == Head(worker_request_queue[t])
  <2>1. HandleRecord(r) \/ HandleCommand(t, r)
    BY DEF WorkerHandles
  <2> HIDE DEF r
  <2>2. CASE HandleRecord(r)
    BY <2>2 DEF HandleRecord
  <2>3. CASE Reply(t, {}, Null) /\ UNCHANGED heap
    <3>1. heap' = heap \cup ({Null} \ {Null})
      BY <2>3
    <3> QED BY <2>3, <3>1
  <2>4. CASE \E storage \in (Addr \ heap) \cup {Null} :
               Reply(t, Open', storage) /\ heap' = heap \cup ({storage} \ {Null})
    <3>1. Open' \in SUBSET Pointer
      BY DEF Open
    <3> QED BY <2>4, <3>1
  <2> QED BY <2>1, <2>2, <2>3, <2>4 DEF HandleCommand
<1>3. CASE UNCHANGED <<answer, heap>>
  <2>1. \A k, u, i, a : Owns(k, u, i, a)' => Owns(k, u, i, a)
    BY <1>1, <1>3 DEF Owns
  <2> QED BY <1>3, <2>1, OwnersStay DEF OwnerInv
<1>4. ASSUME NEW leaks \in SUBSET Pointer, NEW storage \in (Addr \ heap) \cup {Null},
             Reply(t, leaks, storage), heap' = heap \cup ({storage} \ {Null})
      PROVE  OwnerInv'
  <2>1. /\ answer'[t].storage = storage
        /\ \A u \in Thread \ {t} : answer'[u] = answer[u]
    BY <1>4 DEF Reply, TypeInv, Types
  <2>2. ASSUME NEW a \in Addr, NEW k \in OwnerKind, NEW u \in Thread \cup {NoThread}, NEW i \in Nat,
               Owns(k, u, i, a)'
        PROVE  \/ a = storage /\ k = "answer" /\ u = t /\ i = 0
               \/ a # storage /\ Owns(k, u, i, a) /\ a \in heap'
    <3>1. Owns(k, u, i, a) => a \in heap' /\ a # storage
      BY <1>4, LedgerAssumption DEF OwnerInv
    <3>2. CASE k = "answer" /\ u = t
      BY <2>1, <2>2, <3>2 DEF Owns
    <3>3. CASE ~(k = "answer" /\ u = t)
      BY <1>1, <2>1, <2>2, <3>1, <3>3 DEF Owns
    <3> QED BY <3>2, <3>3
  <2>3. CASE storage = Null
    BY <2>2, <2>3, LedgerAssumption, OwnersStay
  <2>4. CASE storage # Null
    <3>1. storage \in heap'
      BY <1>4, <2>4
    <3> QED BY <2>2, <3>1, OwnerGets
  <2> QED BY <2>3, <2>4
<1> QED BY <1>2, <1>3, <1>4

(* Nothing is owned at first. *)
LEMMA OwnerInit == Init => OwnerInv
<1> SUFFICES ASSUME Init, NEW a \in Addr, NEW k, NEW u, NEW i
             PROVE  ~Owns(k, u, i, a)
  BY DEF OwnerInv
<1>1. \A t \in Thread : Len(guards[t]) = 0
  BY EmptySeq DEF Init, InitWith
<1> QED
  BY <1>1 DEF Init, InitWith, Owns, KeptAt

(* Every step leaves each live block at most one owner. *)
LEMMA OwnerNext ==
  ASSUME TypeInv, CallInv, OwnerInv, [Next]_vars
  PROVE  OwnerInv'
<1>1. CASE UNCHANGED vars
  <2>1. UNCHANGED <<held, pc, call, guards, answer, heap>>
    BY <1>1 DEF vars, heap_vars
  <2> QED
    BY <2>1, OwnersStay DEF Owns, OwnerInv
<1> QED
  BY <1>1, HeapCallOwners, PauseOwners, ResumeOwners, CommandOwners, WorkerOwners
  DEF Next, ThreadStep, Worker

(***************************************************************************)
(* The types, and that the blocks the application may still pass on are    *)
(* live: whatever its threads allocate, reallocate and free, and whatever  *)
(* guards and snapshots allocate in between, no block it holds has been    *)
(* released.                                                               *)
(***************************************************************************)
THEOREM HeldBlocksAreLive == Spec => []TypeOK
<1>1. Init => OwnerInv
  BY OwnerInit
<1>2. TypeInv /\ CallInv /\ OwnerInv /\ [Next]_vars => OwnerInv'
  BY OwnerNext
<1>3. TypeInv /\ OwnerInv => TypeOK
  <2> SUFFICES ASSUME TypeInv, OwnerInv
               PROVE  held \subseteq heap
    BY DEF TypeOK, TypeInv
  <2>1. \A a \in held : a \in Addr /\ Owns("app", NoThread, 0, a)
    BY OwnedBy DEF TypeInv, Types
  <2> QED
    BY <2>1 DEF OwnerInv, OwnerKind
<1> QED
  BY <1>1, <1>2, <1>3, CallInvHolds, TypeInvHolds, PTL DEF Spec

-----------------------------------------------------------------------------
(***************************************************************************)
(* Origins.  OriginsAreUnique is not inductive: the next MALLOC record in  *)
(* the queue could carry the id of an open entry, or g_txn_id be such an   *)
(* id.  The ids given out so far are the first n, and each is in at most   *)
(* one record of the queue or one entry of the map; the calls under way    *)
(* that will take one are counted with those that did.                     *)
(***************************************************************************)
TxnAfter(n) == IF n + 1 = TxnModulus THEN 0 ELSE n + 1
FirstIds(n) == {TxnAfter(k) : k \in 0 .. n - 1}

Making   == {t \in Thread : pc[t] \in InCall /\ call[t].fn \in Acquiring}
QueueIds == {r.txn_id : r \in {q \in Pending : q.op = "MALLOC"}}
OpenIds  == {allocations[a].txn_id : a \in Open}

MallocAt(t, i) == i \in 1 .. Len(worker_request_queue[t]) /\ worker_request_queue[t][i].op = "MALLOC"

TxnIdAt(t, i) == worker_request_queue[t][i].txn_id

QueueIdsDiffer ==
  \A t, u \in Thread, i, j \in Nat :
    MallocAt(t, i) /\ MallocAt(u, j) /\ TxnIdAt(t, i) = TxnIdAt(u, j) => t = u /\ i = j

IdsGiven(n) ==
  /\ n < TxnModulus => g_txn_id = TxnAfter(n)
  /\ n + Cardinality(Making) <= calls_made
  /\ QueueIds \subseteq FirstIds(n)
  /\ orphan_reallocs = {} => OpenIds \subseteq FirstIds(n)

OriginInv ==
  /\ IsFiniteSet(Making)
  /\ \E n \in 0 .. MaxCalls : IdsGiven(n)
  /\ QueueIdsDiffer
  /\ orphan_reallocs = {} => OpenIds \cap QueueIds = {}
  /\ OriginsAreUnique

LEMMA Remainder ==
  ASSUME NEW m \in Nat \ {0}, NEW x \in Nat, x <= m
  PROVE  x % m = IF x = m THEN 0 ELSE x
<1> DEFINE q == x \div m
           r == x % m
<1>1. q \in Int /\ r \in 0 .. m - 1 /\ x = m * q + r
  OBVIOUS
<1> HIDE DEF q, r
<1>2. q < 0 => m * q <= -m
  BY <1>1
<1>3. q > 1 => m * q >= 2 * m
  BY <1>1
<1>4. q \in {0, 1}
  BY <1>1, <1>2, <1>3
<1>5. (q = 0 => x = r) /\ (q = 1 => x = m + r)
  BY <1>1
<1> QED
  BY <1>1, <1>4, <1>5 DEF r

(* The next id is none of those given so far. *)
LEMMA NextId ==
  ASSUME NEW n \in Nat, n < TxnModulus
  PROVE  /\ TxnAfter(n) \notin FirstIds(n)
         /\ FirstIds(n) \cup {TxnAfter(n)} = FirstIds(n + 1)
         /\ n + 1 < TxnModulus => (TxnAfter(n) + 1) % TxnModulus = TxnAfter(n + 1)
<1>1. TxnModulus \in Nat \ {0}
  BY LedgerAssumption
<1>2. \A k \in 0 .. n - 1 : TxnAfter(k) = k + 1 /\ k + 1 # TxnAfter(n)
  BY <1>1 DEF TxnAfter
<1>3. 0 .. (n + 1) - 1 = (0 .. n - 1) \cup {n}
  OBVIOUS
<1>4. n + 1 < TxnModulus => (TxnAfter(n) + 1) % TxnModulus = TxnAfter(n + 1)
  <2> SUFFICES ASSUME n + 1 < TxnModulus
               PROVE  (TxnAfter(n) + 1) % TxnModulus = TxnAfter(n + 1)
    OBVIOUS
  <2>1. TxnAfter(n) = n + 1 /\ n + 2 \in Nat /\ n + 2 <= TxnModulus
    BY <1>1 DEF TxnAfter
  <2>2. (n + 2) % TxnModulus = IF n + 2 = TxnModulus THEN 0 ELSE n + 2
    BY <1>1, <2>1, Remainder
  <2>3. (n + 1) + 1 = n + 2
    OBVIOUS
  <2> QED BY <2>1, <2>2, <2>3 DEF TxnAfter
<1> QED
  BY <1>2, <1>3, <1>4 DEF FirstIds

(* What a thread's step does to the calls that will take an id. *)
LEMMA MakingChanges ==
  ASSUME TypeInv, IsFiniteSet(Making), NEW t \in Thread, NEW place, NEW c,
         pc' = [pc EXCEPT ![t] = place], call' = [call EXCEPT ![t] = c]
  PROVE  /\ IsFiniteSet(Making')
         /\ Cardinality(Making) \in Nat /\ Cardinality(Making') \in Nat
         /\ Cardinality(Making') = Cardinality(Making) - One(t \in Making)
                                     + One(place \in InCall /\ c.fn \in Acquiring)
<1>1. /\ pc'[t] = place /\ call'[t] = c
      /\ \A u \in Thread \ {t} : pc'[u] = pc[u] /\ call'[u] = call[u]
  BY DEF TypeInv, Types
<1>2. Making \ {t} = Making' \ {t} /\ (t \in Making' <=> place \in InCall /\ c.fn \in Acquiring)
  BY <1>1 DEF Making
<1>3. /\ IsFiniteSet(Making')
      /\ Cardinality(Making) \in Nat /\ Cardinality(Making') \in Nat
      /\ Cardinality(Making') = Cardinality(Making) - One(t \in Making) + One(t \in Making')
  BY <1>2, OneDiffers
<1> QED
  BY <1>2, <1>3 DEF One

(* Where the records are once one was sent. *)
LEMMA SentAt ==
  ASSUME TypeInv, NEW t \in Thread, NEW r \in RequestRecord, Send(t, r),
         NEW u \in Thread, NEW i \in Nat, MallocAt(u, i)'
  PROVE  \/ MallocAt(u, i) /\ TxnIdAt(u, i)' = TxnIdAt(u, i)
         \/ /\ u = t /\ i = Len(worker_request_queue[t]) + 1
            /\ r.op = "MALLOC" /\ TxnIdAt(u, i)' = r.txn_id
<1> DEFINE queue == worker_request_queue[t]
           sent  == Append(queue, r)
<1>1. queue \in Seq(RequestRecord)
  BY DEF TypeInv, Types
<1>2. /\ Len(queue) \in Nat /\ Len(sent) = Len(queue) + 1
      /\ \A j \in 1 .. Len(queue) : sent[j] = queue[j]
      /\ sent[Len(queue) + 1] = r
  BY <1>1, AppendProperties, LenProperties
<1>3. /\ worker_request_queue'[t] = sent
      /\ \A v \in Thread \ {t} : worker_request_queue'[v] = worker_request_queue[v]
  BY DEF Send, TypeInv, Types
<1>4. CASE u # t
  BY <1>3, <1>4 DEF MallocAt, TxnIdAt
<1>5. CASE u = t
  <2>1. i \in 1 .. Len(sent) /\ sent[i].op = "MALLOC" /\ TxnIdAt(u, i)' = sent[i].txn_id
    BY <1>3, <1>5 DEF MallocAt, TxnIdAt
  <2> HIDE DEF sent
  <2>2. i \in 1 .. Len(queue) \/ i = Len(queue) + 1
    BY <1>2, <2>1
  <2>3. CASE i \in 1 .. Len(queue)
    BY <1>2, <1>5, <2>1, <2>3 DEF MallocAt, TxnIdAt
  <2>4. CASE i = Len(queue) + 1
    BY <1>2, <1>5, <2>1, <2>4
  <2> QED BY <2>2, <2>3, <2>4
<1> QED BY <1>4, <1>5

(* Where they were before one was taken. *)
LEMMA TakenAt ==
  ASSUME TypeInv, NEW t \in Thread, WorkerHandles(t),
         NEW u \in Thread, NEW i \in Nat, MallocAt(u, i)'
  PROVE  \E j \in Nat : /\ MallocAt(u, j) /\ TxnIdAt(u, i)' = TxnIdAt(u, j)
                        /\ j = IF u = t THEN i + 1 ELSE i
<1> DEFINE queue == worker_request_queue[t]
           rest  == Tail(queue)
<1>1. queue \in Seq(RequestRecord) /\ queue # <<>>
  BY DEF WorkerHandles, Ready, TypeInv, Types
<1>2. /\ Len(queue) \in Nat \ {0} /\ Len(rest) = Len(queue) - 1
      /\ \A j \in 1 .. Len(rest) : rest[j] = queue[j + 1]
  BY <1>1, HeadTailProperties, EmptySeq
<1>3. /\ worker_request_queue'[t] = rest
      /\ \A v \in Thread \ {t} : worker_request_queue'[v] = worker_request_queue[v]
  BY DEF WorkerHandles, TypeInv, Types
<1>4. CASE u # t
  BY <1>3, <1>4 DEF MallocAt, TxnIdAt
<1>5. CASE u = t
  <2>1. i \in 1 .. Len(rest) /\ rest[i].op = "MALLOC" /\ TxnIdAt(u, i)' = rest[i].txn_id
    BY <1>3, <1>5 DEF MallocAt, TxnIdAt
  <2> HIDE DEF rest
  <2>2. i + 1 \in 1 .. Len(queue) /\ rest[i] = queue[i + 1]
    BY <1>2, <2>1
  <2>3. MallocAt(u, i + 1) /\ TxnIdAt(u, i)' = TxnIdAt(u, i + 1)
    BY <1>5, <2>1, <2>2 DEF MallocAt, TxnIdAt
  <2> QED BY <1>5, <2>3
<1> QED BY <1>4, <1>5

(* Steps that leave the ledger and the records of the queue alone. *)
LEMMA SameRecords ==
  ASSUME TypeInv, OriginInv, UNCHANGED <<ledger_vars, g_txn_id>>,
         UNCHANGED worker_request_queue
           \/ \E t \in Thread, r \in RequestRecord : Send(t, r) /\ r.op # "MALLOC",
         IsFiniteSet(Making'), Cardinality(Making) \in Nat, Cardinality(Making') \in Nat,
         calls_made \in Nat, calls_made' \in Nat,
         Cardinality(Making') - Cardinality(Making) <= calls_made' - calls_made
  PROVE  OriginInv'
<1>1. UNCHANGED <<allocations, orphan_reallocs>>
  BY DEF ledger_vars, anomalies
<1>2. QueueIds' = QueueIds /\ QueueIdsDiffer'
  <2>1. CASE UNCHANGED worker_request_queue
    BY <2>1 DEF QueueIds, Pending, QueueRange, OriginInv, QueueIdsDiffer, MallocAt, TxnIdAt
  <2>2. ASSUME NEW t \in Thread, NEW r \in RequestRecord, Send(t, r), r.op # "MALLOC"
        PROVE  QueueIds' = QueueIds /\ QueueIdsDiffer'
    <3>1. Pending' = Pending \cup {r}
      BY <2>2, PendingGrows
    <3>2. QueueIds' = QueueIds
      BY <2>2, <3>1 DEF QueueIds
    <3>3. \A u \in Thread, i \in Nat :
            MallocAt(u, i)' => MallocAt(u, i) /\ TxnIdAt(u, i)' = TxnIdAt(u, i)
      BY <2>2, SentAt
    <3> QED
      BY <3>2, <3>3 DEF OriginInv, QueueIdsDiffer
  <2> QED BY <2>1, <2>2
<1>3. OpenIds' = OpenIds /\ Open' = Open
  BY <1>1 DEF OpenIds, Open
<1>4. \E n \in 0 .. MaxCalls : IdsGiven(n)'
  <2>1. PICK n \in 0 .. MaxCalls : IdsGiven(n)
    BY DEF OriginInv
  <2>2. n + Cardinality(Making') <= calls_made'
    BY <2>1 DEF IdsGiven
  <2> QED
    BY <1>1, <1>2, <1>3, <2>1, <2>2 DEF IdsGiven
<1>5. OriginsAreUnique'
  BY <1>1, <1>3 DEF OriginInv, OriginsAreUnique
<1> QED
  BY <1>1, <1>2, <1>3, <1>4, <1>5 DEF OriginInv

(* A MALLOC record in the queue has one of the ids there. *)
LEMMA IdOfRecord ==
  ASSUME TypeInv, NEW t \in Thread, NEW i \in Nat, MallocAt(t, i)
  PROVE  TxnIdAt(t, i) \in QueueIds /\ TxnIdAt(t, i) \in TxnId
<1> DEFINE r == worker_request_queue[t][i]
<1>1. i \in 1 .. Len(worker_request_queue[t]) /\ r.op = "MALLOC"
  BY DEF MallocAt
<1>2. r \in RequestRecord
  BY <1>1, LenProperties DEF TypeInv, Types
<1>3. r \in Pending
  BY <1>1, <1>2, PendingIs
<1>4. r \in MallocRequest
  BY <1>1, <1>2, RequestKinds
<1> QED
  BY <1>1, <1>3, <1>4 DEF QueueIds, TxnIdAt, MallocRequest

(* A call goes on, or returns, without a record of its making a block. *)
LEMMA CallOrigins ==
  ASSUME TypeInv, OriginInv, NEW t \in Thread, NEW place, NEW c,
         pc' = [pc EXCEPT ![t] = place], call' = [call EXCEPT ![t] = c],
         UNCHANGED <<ledger_vars, g_txn_id>>,
         UNCHANGED worker_request_queue
           \/ \E r \in RequestRecord : Send(t, r) /\ r.op # "MALLOC",
         \/ calls_made' = calls_made + 1
         \/ UNCHANGED calls_made /\ (place \in InCall /\ c.fn \in Acquiring => t \in Making)
  PROVE  OriginInv'
<1>1. /\ IsFiniteSet(Making')
      /\ Cardinality(Making) \in Nat /\ Cardinality(Making') \in Nat
      /\ Cardinality(Making') = Cardinality(Making) - One(t \in Making)
                                  + One(place \in InCall /\ c.fn \in Acquiring)
  BY MakingChanges DEF OriginInv
<1>2. calls_made \in Nat
  BY ConstantTypes DEF TypeInv, Types
<1>3. calls_made' \in Nat
  BY <1>2
<1>4. One(place \in InCall /\ c.fn \in Acquiring) - One(t \in Making) <= calls_made' - calls_made
  BY <1>2 DEF One
<1>5. Cardinality(Making') - Cardinality(Making) <= calls_made' - calls_made
  <2> DEFINE x == One(place \in InCall /\ c.fn \in Acquiring)
             y == One(t \in Making)
  <2>1. x \in Nat /\ y \in Nat
    BY DEF One
  <2> HIDE DEF x, y
  <2> QED BY <1>1, <1>2, <1>3, <1>4, <2>1 DEF x, y
<1> QED
  BY <1>1, <1>2, <1>3, <1>5, SameRecords

(* The record of a block that was made: it takes the next id. *)
LEMMA MadeOrigin ==
  ASSUME MaxCalls <= TxnModulus, TypeInv, OriginInv, NEW t \in Thread, EnqueueRecord(t),
         call[t].fn \in Acquiring
  PROVE  OriginInv'
<1> DEFINE r == RequestOf(call[t])
<1>1. /\ r \in RequestRecord /\ r.op = "MALLOC" /\ r.txn_id = g_txn_id
  <2>1. call[t] \in Call
    BY DEF EnqueueRecord, TypeInv, InCallHasCall, InCall
  <2>2. r \in RequestRecord
    BY <2>1, RequestType DEF RequestRecord, TypeInv, Types
  <2>3. call[t].fn # "realloc" /\ call[t].fn # "free"
    BY DEF Acquiring
  <2>4. r = [op |-> "MALLOC", address |-> call[t].result, size |-> call[t].size,
             txn_id |-> g_txn_id]
    BY <2>3 DEF RequestOf
  <2> QED BY <2>2, <2>4
<1>2. /\ Send(t, r) /\ g_txn_id' = (g_txn_id + 1) % TxnModulus
      /\ UNCHANGED <<allocations, orphan_reallocs, calls_made>>
      /\ pc' = [pc EXCEPT ![t] = "idle"] /\ call' = [call EXCEPT ![t] = NoCall]
  BY DEF EnqueueRecord, Return, GoTo, ledger_vars, anomalies, bound_vars
<1> HIDE DEF r
<1>3. "idle" \notin InCall /\ t \in Making
  BY DEF EnqueueRecord, InCall, Making
<1>4. /\ IsFiniteSet(Making') /\ Cardinality(Making) \in Nat
      /\ Cardinality(Making') = Cardinality(Making) - 1 /\ Cardinality(Making') \in Nat
  <2>1. /\ IsFiniteSet(Making')
        /\ Cardinality(Making) \in Nat /\ Cardinality(Making') \in Nat
        /\ Cardinality(Making') = Cardinality(Making) - One(t \in Making)
                                    + One("idle" \in InCall /\ NoCall.fn \in Acquiring)
    BY <1>2, MakingChanges DEF OriginInv
  <2> QED BY <1>3, <2>1 DEF One
<1>5. PICK n \in 0 .. MaxCalls : IdsGiven(n)
  BY DEF OriginInv
<1>6. n \in Nat /\ n + 1 \in 0 .. MaxCalls /\ n < TxnModulus
  <2>1. calls_made \in 0 .. MaxCalls /\ MaxCalls \in Nat /\ TxnModulus \in Nat
    BY ConstantTypes, LedgerAssumption DEF TypeInv, Types
  <2> QED BY <1>4, <1>5, <2>1 DEF IdsGiven
<1>7. r.txn_id = TxnAfter(n)
  BY <1>1, <1>5, <1>6 DEF IdsGiven
<1>8. /\ TxnAfter(n) \notin FirstIds(n)
      /\ FirstIds(n) \cup {TxnAfter(n)} = FirstIds(n + 1)
      /\ n + 1 < TxnModulus => (TxnAfter(n) + 1) % TxnModulus = TxnAfter(n + 1)
  BY <1>6, NextId
<1>9. QueueIds' = QueueIds \cup {TxnAfter(n)}
  <2>1. Pending' = Pending \cup {r}
    BY <1>1, <1>2, PendingGrows
  <2> QED BY <1>1, <1>7, <2>1 DEF QueueIds
<1>10. Open' = Open /\ OpenIds' = OpenIds
  BY <1>2 DEF OpenIds, Open
<1>11. IdsGiven(n + 1)'
  <2>1. n + 1 + Cardinality(Making') <= calls_made'
    <3>1. calls_made \in Int /\ n + Cardinality(Making) <= calls_made
      BY <1>5 DEF IdsGiven, TypeInv, Types
    <3> QED BY <1>2, <1>4, <3>1
  <2>2. n + 1 < TxnModulus => g_txn_id' = TxnAfter(n + 1)
    BY <1>1, <1>2, <1>7, <1>8
  <2>3. QueueIds' \subseteq FirstIds(n + 1)
    BY <1>5, <1>8, <1>9 DEF IdsGiven
  <2>4. orphan_reallocs' = {} => OpenIds' \subseteq FirstIds(n + 1)
    BY <1>2, <1>5, <1>8, <1>10 DEF IdsGiven
  <2> QED BY <2>1, <2>2, <2>3, <2>4 DEF IdsGiven, FirstIds, TxnAfter
<1>12. QueueIdsDiffer'
  <2> SUFFICES ASSUME NEW u \in Thread, NEW v \in Thread, NEW i \in Nat, NEW j \in Nat,
                      MallocAt(u, i)', MallocAt(v, j)', TxnIdAt(u, i)' = TxnIdAt(v, j)'
               PROVE  u = v /\ i = j
    BY DEF QueueIdsDiffer
  <2>1. \/ MallocAt(u, i) /\ TxnIdAt(u, i)' = TxnIdAt(u, i)
        \/ u = t /\ i = Len(worker_request_queue[t]) + 1 /\ TxnIdAt(u, i)' = r.txn_id
    BY <1>1, <1>2, SentAt
  <2>2. \/ MallocAt(v, j) /\ TxnIdAt(v, j)' = TxnIdAt(v, j)
        \/ v = t /\ j = Len(worker_request_queue[t]) + 1 /\ TxnIdAt(v, j)' = r.txn_id
    BY <1>1, <1>2, SentAt
  <2>3. \A w \in Thread, k \in Nat : MallocAt(w, k) => TxnIdAt(w, k) # r.txn_id
    BY <1>5, <1>7, <1>8, IdOfRecord DEF IdsGiven
  <2> QED
    BY <2>1, <2>2, <2>3 DEF OriginInv, QueueIdsDiffer
<1>13. orphan_reallocs' = {} => OpenIds' \cap QueueIds' = {}
  BY <1>2, <1>5, <1>8, <1>9, <1>10 DEF OriginInv, IdsGiven
<1>14. OriginsAreUnique'
  BY <1>2, <1>10 DEF OriginInv, OriginsAreUnique
<1> QED
  BY <1>4, <1>6, <1>11, <1>12, <1>13, <1>14 DEF OriginInv

LEMMA HeapCallOrigins ==
  ASSUME MaxCalls <= TxnModulus, TypeInv, CallInv, OriginInv, NEW t \in Thread, HeapCall(t)
  PROVE  OriginInv'
<1>1. CASE BeginCall(t)
  <2>1. PICK c : pc' = [pc EXCEPT ![t] = "libc"] /\ call' = [call EXCEPT ![t] = c]
    BY <1>1 DEF BeginCall, Enter, GoTo
  <2> QED
    BY <1>1, <2>1, CallOrigins DEF BeginCall
<1>2. CASE LibcMalloc(t) \/ LibcRealloc(t) \/ LibcFree(t)
  <2>1. PICK c \in Call : Libc(t, c) /\ c.fn = call[t].fn
    BY <1>2, CompletedCall
  <2>2. pc[t] \in InCall
    BY <1>2 DEF LibcMalloc, LibcRealloc, LibcFree, InCall
  <2>3. UNCHANGED <<ledger_vars, g_txn_id, worker_request_queue, calls_made>>
    BY <2>1 DEF Libc, bound_vars
  <2>4. c.fn \in Acquiring => t \in Making
    BY <2>1, <2>2 DEF Making
  <2>5. \/ pc' = [pc EXCEPT ![t] = "idle"] /\ call' = [call EXCEPT ![t] = NoCall]
        \/ pc' = [pc EXCEPT ![t] = "check"] /\ call' = [call EXCEPT ![t] = c]
    BY <2>1 DEF Libc, ReturnUnrecorded, Return, GoTo
  <2>6. "idle" \notin InCall
    BY DEF InCall
  <2> QED
    BY <2>3, <2>4, <2>5, <2>6, CallOrigins
<1>3. CASE CheckUnwatched(t) \/ CountKnownLeak(t)
  <2>1. /\ pc' = [pc EXCEPT ![t] = "idle"] /\ call' = [call EXCEPT ![t] = NoCall]
        /\ UNCHANGED <<ledger_vars, g_txn_id, worker_request_queue, calls_made>>
    BY <1>3 DEF CheckUnwatched, CountKnownLeak, ReturnUnrecorded, Return, GoTo, bound_vars
  <2>2. "idle" \notin InCall
    BY DEF InCall
  <2> QED BY <2>1, <2>2, CallOrigins
<1>4. CASE CheckWatched(t)
  <2>1. PICK place \in {"count", "enqueue"}, c \in Call :
          /\ pc' = [pc EXCEPT ![t] = place] /\ call' = [call EXCEPT ![t] = c]
          /\ c.fn = call[t].fn /\ c.arg = call[t].arg /\ c.size = call[t].size
          /\ c.result = call[t].result
    BY <1>4, CheckedCall
  <2>2. UNCHANGED <<ledger_vars, g_txn_id, worker_request_queue, calls_made>>
    BY <1>4 DEF CheckWatched, bound_vars
  <2>3. c.fn \in Acquiring => t \in Making
    BY <1>4, <2>1 DEF CheckWatched, Making, InCall
  <2> QED BY <2>1, <2>2, <2>3, CallOrigins
<1>5. CASE EnqueueRecord(t) /\ call[t].fn \notin Acquiring
  <2> DEFINE r == RequestOf(call[t])
  <2>1. call[t] \in Call
    BY <1>5 DEF EnqueueRecord, TypeInv, InCallHasCall, InCall
  <2>2. r \in RequestRecord
    BY <2>1, RequestType DEF RequestRecord, TypeInv, Types
  <2>3. call[t].fn \in {"realloc", "free"}
    BY <1>5, <2>1, CallParts DEF HeapFunction, StoreOrder, Acquiring
  <2>4. r.op # "MALLOC"
    BY <2>3 DEF RequestOf, Acquiring
  <2>5. /\ Send(t, r) /\ UNCHANGED <<ledger_vars, g_txn_id, calls_made>>
        /\ pc' = [pc EXCEPT ![t] = "idle"] /\ call' = [call EXCEPT ![t] = NoCall]
    BY <1>5 DEF EnqueueRecord, Return, GoTo, bound_vars
  <2>6. "idle" \notin InCall
    BY DEF InCall
  <2> HIDE DEF r
  <2> QED BY <2>2, <2>4, <2>5, <2>6, CallOrigins
<1> QED
  BY <1>1, <1>2, <1>3, <1>4, <1>5, MadeOrigin DEF HeapCall

LEMMA CommandOrigins ==
  ASSUME TypeInv, OriginInv, NEW t \in Thread,
         Pause(t) \/ Resume(t) \/ CallStart(t) \/ CallStop(t) \/ Ask(t) \/ CommandStep(t)
  PROVE  OriginInv'
<1>1. UNCHANGED <<ledger_vars, g_txn_id, calls_made>>
  BY DEF Pause, Resume, CallStart, CallStop, Ask, CommandStep, StartLock, StartCleared,
         StartStoreHook, StartWatching, StopLock, StopStoreHook, StopAsk, StopReturn, AskReturn,
         unchanged_by_commands, bound_vars
<1>2. UNCHANGED worker_request_queue
        \/ \E u \in Thread, r \in RequestRecord : Send(u, r) /\ r.op # "MALLOC"
  <2>1. \A r \in Asked : r \in RequestRecord /\ r.op # "MALLOC"
    BY CommandRequests DEF Asked, ClearRequest, SnapshotRequest, StatsRequest
  <2> QED BY <2>1, CommandQueues
<1>3. CASE Resume(t)
  <2>1. PICK c : c.fn = "free" /\ pc' = [pc EXCEPT ![t] = "libc"] /\ call' = [call EXCEPT ![t] = c]
    <3> DEFINE guard == guards[t][Len(guards[t])]
               c == [fn |-> "free", hook |-> hooks["free"], site |-> NoCall, arg |-> guard.token,
                     size |-> 0, result |-> Null, seen |-> 0]
    <3>1. pc' = [pc EXCEPT ![t] = "libc"] /\ call' = [call EXCEPT ![t] = c]
      BY <1>3 DEF Resume, Enter, GoTo
    <3>2. c.fn = "free"
      OBVIOUS
    <3> HIDE DEF c
    <3> WITNESS c
    <3> QED BY <3>1, <3>2
  <2>2. c.fn \notin Acquiring /\ UNCHANGED worker_request_queue
    BY <1>3, <2>1 DEF Acquiring, Resume
  <2> QED BY <1>1, <2>1, <2>2, CallOrigins
<1>4. CASE Pause(t) \/ CallStart(t) \/ CallStop(t) \/ Ask(t) \/ CommandStep(t)
  <2>1. Making' = Making
    BY <1>4, CallFrame DEF Making
  <2>2. IsFiniteSet(Making) /\ Cardinality(Making) \in Nat /\ calls_made \in Nat
    <3>1. Cardinality(Making) \in Nat
      BY FS_CardinalityType DEF OriginInv
    <3> QED BY <3>1, ConstantTypes DEF OriginInv, TypeInv, Types
  <2>3. IsFiniteSet(Making') /\ Cardinality(Making') \in Nat /\ calls_made' \in Nat
    BY <1>1, <2>1, <2>2
  <2>4. Cardinality(Making') - Cardinality(Making) <= calls_made' - calls_made
    BY <1>1, <2>1, <2>2
  <2> QED BY <1>1, <1>2, <2>2, <2>3, <2>4, SameRecords
<1> QED
  BY <1>3, <1>4

(* A record handled: the ids of the entries move about, or go; a MALLOC's  *)
(* comes in from the queue.                                                *)
LEMMA RecordOrigins ==
  ASSUME TypeInv, NEW r \in RequestRecord, HandleRecord(r) \/ HandleSnapshot \/ HandleStats \/ HandleClear,
         orphan_reallocs' = {}, orphan_reallocs = {} => OriginsAreUnique,
         r.op = "MALLOC" => HandleRecord(r),
         orphan_reallocs = {} /\ r.op = "MALLOC" => r.txn_id \notin OpenIds
  PROVE  /\ OriginsAreUnique'
         /\ OpenIds' \subseteq IF orphan_reallocs # {} THEN {}
                               ELSE OpenIds \cup (IF r.op = "MALLOC" THEN {r.txn_id} ELSE {})
<1>1. LedgerTypeOK
  BY DEF TypeInv, Types
<1>2. CASE HandleClear
  <2>1. Open' = {}
    BY <1>2 DEF HandleClear, Open
  <2> QED BY <2>1 DEF OpenIds, OriginsAreUnique
<1>3. CASE HandleSnapshot \/ HandleStats
  <2>1. /\ UNCHANGED orphan_reallocs /\ Open' \subseteq Open
        /\ \A a \in Open' : allocations'[a] = allocations[a]
    BY <1>3 DEF HandleSnapshot, HandleStats, Open, ledger_vars, anomalies
  <2> QED BY <2>1 DEF OpenIds, OriginsAreUnique
<1>4. CASE HandleRecord(r) /\ r.op = "MALLOC"
  <2> DEFINE record == [size |-> r.size, txn_id |-> r.txn_id]
  <2>1. r \in MallocRequest /\ HandleMalloc(r) /\ r.address \in Pointer /\ record.txn_id = r.txn_id
    BY <1>4, RequestKinds DEF HandleRecord, MallocRequest
  <2>2. UNCHANGED orphan_reallocs /\ Open' = Open \cup {r.address}
    <3>1. Open' = Open \cup Opens(r) /\ UNCHANGED orphan_reallocs
      BY <1>4, <2>1, RecordSteps DEF Closes, HandleMalloc
    <3> QED BY <1>4, <3>1 DEF Opens
  <2>3. \A a \in Pointer : allocations'[a] = IF a = r.address /\ a \notin Open
                                               THEN record ELSE allocations[a]
    BY <1>1, <2>1 DEF HandleMalloc, Emplace, Open, LedgerTypeOK
  <2> HIDE DEF record
  <2>4. \A a \in Open' : \/ a \in Open /\ allocations'[a] = allocations[a]
                         \/ a = r.address /\ allocations'[a].txn_id = r.txn_id
    BY <2>1, <2>2, <2>3 DEF Open
  <2> QED BY <1>4, <2>2, <2>4 DEF OpenIds, OriginsAreUnique
<1>5. CASE HandleRecord(r) /\ r.op = "REALLOC"
  <2>1. r \in ReallocRequest /\ HandleRealloc(r) /\ r.original \in Pointer /\ r.new \in Pointer
    BY <1>5, RequestKinds DEF HandleRecord, ReallocRequest
  <2>2. HandleReallocKnown(r)
    BY <2>1 DEF HandleRealloc, HandleReallocUnknown
  <2> DEFINE record == [size |-> r.size, txn_id |-> allocations[r.original].txn_id]
             erased == Erase(allocations, r.original)
  <2>3. r.original \in Open /\ UNCHANGED orphan_reallocs
    BY <2>1, <2>2 DEF HandleReallocKnown, Open
  <2>4. record.txn_id = allocations[r.original].txn_id
    OBVIOUS
  <2>5. \A b \in Pointer : erased[b] = IF b = r.original THEN NoRecord ELSE allocations[b]
    BY <1>1 DEF Erase, LedgerTypeOK
  <2>6. \A b \in Pointer : allocations'[b] = IF b = r.new /\ erased[b] = NoRecord
                                               THEN record ELSE erased[b]
    BY <1>1, <2>1, <2>2 DEF HandleReallocKnown, Emplace, Erase, LedgerTypeOK
  <2> HIDE DEF record, erased
  <2>7. \A a \in Open' : \/ a \in Open \ {r.original} /\ allocations'[a] = allocations[a]
                         \/ a = r.new /\ allocations'[a].txn_id = allocations[r.original].txn_id
    BY <2>4, <2>5, <2>6 DEF Open
  <2> QED BY <1>5, <2>3, <2>7 DEF OpenIds, OriginsAreUnique
<1>6. CASE HandleRecord(r) /\ r.op = "FREE"
  <2>1. r \in FreeRequest /\ HandleFree(r) /\ r.block \in Pointer
    BY <1>6, RequestKinds DEF HandleRecord, FreeRequest
  <2>2. /\ UNCHANGED orphan_reallocs /\ Open' \subseteq Open
        /\ \A a \in Open' : allocations'[a] = allocations[a]
    BY <1>1, <2>1 DEF HandleFree, HandleFreeKnown, HandleFreeUnknown, Erase, Open, LedgerTypeOK,
                      anomalies
  <2> QED BY <1>6, <2>2 DEF OpenIds, OriginsAreUnique
<1> QED
  BY <1>2, <1>3, <1>4, <1>5, <1>6 DEF HandleRecord

LEMMA WorkerOrigins ==
  ASSUME TypeInv, OriginInv, NEW t \in Thread, WorkerHandles(t)
  PROVE  OriginInv'
<1> DEFINE r == Head(worker_request_queue[t])
<1>1. /\ r \in RequestRecord /\ r \in Pending
      /\ HandleRecord(r) \/ HandleCommand(t, r)
      /\ Pending' \subseteq Pending
  BY PendingShrinks
<1>2. r = worker_request_queue[t][1] /\ 1 \in 1 .. Len(worker_request_queue[t])
  <2>1. worker_request_queue[t] \in Seq(RequestRecord) /\ worker_request_queue[t] # <<>>
    BY DEF WorkerHandles, Ready, TypeInv, Types
  <2> QED BY <2>1, HeadTailProperties, EmptySeq
<1> HIDE DEF r
<1>3. UNCHANGED <<pc, call, g_txn_id, calls_made>>
  BY DEF WorkerHandles, bound_vars
<1>4. /\ HandleRecord(r) \/ HandleSnapshot \/ HandleStats \/ HandleClear
      /\ r.op = "MALLOC" => HandleRecord(r)
      /\ orphan_reallocs' = {} => orphan_reallocs = {} \/ HandleClear
  <2>1. CASE HandleRecord(r)
    BY <1>1, <2>1, RecordSteps
  <2>2. CASE HandleCommand(t, r)
    BY <2>2 DEF HandleCommand, HandleSnapshot, HandleStats, ledger_vars, anomalies
  <2> QED BY <1>1, <2>1, <2>2
<1>5. HandleClear => Open' = {}
  BY DEF HandleClear, Open
<1>6. QueueIds' \subseteq QueueIds /\ (r.op = "MALLOC" => r.txn_id \in QueueIds)
  BY <1>1 DEF QueueIds
<1>7. r.op = "MALLOC" => r.txn_id \notin QueueIds'
  <2> SUFFICES ASSUME r.op = "MALLOC", NEW q \in Pending', q.op = "MALLOC", q.txn_id = r.txn_id
               PROVE  FALSE
    BY DEF QueueIds
  <2>1. PICK u \in Thread, i \in Nat : MallocAt(u, i)' /\ TxnIdAt(u, i)' = q.txn_id
    <3>1. TypeInv'
      BY WorkerType
    <3>2. PICK u \in Thread : q \in QueueRange(u)'
      BY DEF Pending
    <3>3. DOMAIN worker_request_queue'[u] = 1 .. Len(worker_request_queue'[u])
      BY <3>1, LenProperties DEF TypeInv, Types
    <3>4. PICK i \in 1 .. Len(worker_request_queue'[u]) : worker_request_queue'[u][i] = q
      BY <3>2, <3>3 DEF QueueRange
    <3> QED BY <3>4 DEF MallocAt, TxnIdAt
  <2>2. PICK j \in Nat : /\ MallocAt(u, j) /\ TxnIdAt(u, j) = r.txn_id
                         /\ j = IF u = t THEN i + 1 ELSE i
    BY <2>1, TakenAt
  <2>3. MallocAt(t, 1) /\ TxnIdAt(t, 1) = r.txn_id
    BY <1>2 DEF MallocAt, TxnIdAt
  <2>4. u = t /\ j = 1
    BY <2>2, <2>3 DEF OriginInv, QueueIdsDiffer
  <2>5. i \in 1 .. Len(worker_request_queue'[u])
    BY <2>1 DEF MallocAt
  <2> QED BY <2>2, <2>4, <2>5
<1>8. orphan_reallocs' = {} =>
        /\ OriginsAreUnique'
        /\ OpenIds' \subseteq IF orphan_reallocs # {} THEN {}
                              ELSE OpenIds \cup (IF r.op = "MALLOC" THEN {r.txn_id} ELSE {})
  <2> SUFFICES ASSUME orphan_reallocs' = {}
               PROVE  /\ OriginsAreUnique'
                      /\ OpenIds' \subseteq IF orphan_reallocs # {} THEN {}
                              ELSE OpenIds \cup (IF r.op = "MALLOC" THEN {r.txn_id} ELSE {})
    OBVIOUS
  <2>1. orphan_reallocs = {} /\ r.op = "MALLOC" => r.txn_id \notin OpenIds
    BY <1>6 DEF OriginInv
  <2>2. CASE HandleClear
    BY <1>5, <2>2 DEF OpenIds, OriginsAreUnique
  <2>3. CASE orphan_reallocs = {}
    BY <1>1, <1>4, <2>1, <2>3, RecordOrigins DEF OriginInv
  <2> QED BY <1>4, <2>2, <2>3
<1>9. orphan_reallocs' = {} => OpenIds' \subseteq OpenIds \cup QueueIds /\ OpenIds' \cap QueueIds' = {}
                               /\ (orphan_reallocs # {} => OpenIds' = {})
  BY <1>6, <1>7, <1>8 DEF OriginInv
<1>10. OriginsAreUnique'
  BY <1>8 DEF OriginsAreUnique
<1>11. \E n \in 0 .. MaxCalls : IdsGiven(n)'
  <2>1. PICK n \in 0 .. MaxCalls : IdsGiven(n)
    BY DEF OriginInv
  <2>2. Making' = Making
    BY <1>3 DEF Making
  <2>3. orphan_reallocs' = {} => OpenIds' \subseteq FirstIds(n)
    BY <1>9, <2>1 DEF IdsGiven
  <2> QED BY <1>3, <1>6, <2>1, <2>2, <2>3 DEF IdsGiven, FirstIds, TxnAfter
<1>12. QueueIdsDiffer'
  <2> SUFFICES ASSUME NEW u \in Thread, NEW v \in Thread, NEW i \in Nat, NEW j \in Nat,
                      MallocAt(u, i)', MallocAt(v, j)', TxnIdAt(u, i)' = TxnIdAt(v, j)'
               PROVE  u = v /\ i = j
    BY DEF QueueIdsDiffer
  <2>1. PICK k \in Nat : /\ MallocAt(u, k) /\ TxnIdAt(u, i)' = TxnIdAt(u, k)
                         /\ k = IF u = t THEN i + 1 ELSE i
    BY TakenAt
  <2>2. PICK l \in Nat : /\ MallocAt(v, l) /\ TxnIdAt(v, j)' = TxnIdAt(v, l)
                         /\ l = IF v = t THEN j + 1 ELSE j
    BY TakenAt
  <2>3. u = v /\ k = l
    BY <2>1, <2>2 DEF OriginInv, QueueIdsDiffer
  <2> QED BY <2>1, <2>2, <2>3
<1>13. IsFiniteSet(Making')
  BY <1>3 DEF OriginInv, Making
<1> QED
  BY <1>9, <1>10, <1>11, <1>12, <1>13 DEF OriginInv

(***************************************************************************)
(* Two open allocations are never attributed to the same malloc, in a      *)
(* program that does not make more calls than there are ids: neither the   *)
(* order in which the worker takes the records of the threads nor the      *)
(* move of an entry by realloc repeats an id; only a realloc that overtook *)
(* its block's record can.                                                 *)
(***************************************************************************)
THEOREM OriginsStayUnique == MaxCalls <= TxnModulus => (Spec => []OriginsAreUnique)
<1> SUFFICES ASSUME MaxCalls <= TxnModulus
             PROVE  Spec => []OriginsAreUnique
  OBVIOUS
<1>1. Init => OriginInv
  <2> SUFFICES ASSUME Init
               PROVE  OriginInv
    OBVIOUS
  <2>1. Pending = {} /\ \A t \in Thread : worker_request_queue[t] = <<>>
    BY DEF Init, InitWith, Pending, QueueRange
  <2>2. QueueIds = {} /\ Open = {} /\ OpenIds = {}
    BY <2>1 DEF Init, InitWith, LedgerInit, QueueIds, OpenIds, Open
  <2>3. Making = {}
    BY DEF Init, InitWith, Making, InCall
  <2>4. IsFiniteSet(Making) /\ Cardinality(Making) = 0
    BY <2>3, FS_EmptySet
  <2>5. IdsGiven(0) /\ 0 \in 0 .. MaxCalls
    <3>1. g_txn_id = 1 % TxnModulus
      BY DEF Init, InitWith
    <3>2. 1 % TxnModulus = TxnAfter(0)
      BY Remainder, LedgerAssumption DEF TxnAfter
    <3> QED
      BY <2>2, <2>4, <3>1, <3>2, ConstantTypes DEF IdsGiven, Init, InitWith
  <2>6. QueueIdsDiffer
    <3>1. \A t \in Thread : Len(worker_request_queue[t]) = 0
      BY <2>1, EmptySeq
    <3> QED BY <3>1 DEF QueueIdsDiffer, MallocAt
  <2> QED
    BY <2>2, <2>4, <2>5, <2>6 DEF OriginInv, OriginsAreUnique
<1>2. TypeInv /\ CallInv /\ OriginInv /\ [Next]_vars => OriginInv'
  <2> SUFFICES ASSUME TypeInv, CallInv, OriginInv, [Next]_vars
               PROVE  OriginInv'
    OBVIOUS
  <2>1. CASE UNCHANGED vars
    <3>1. UNCHANGED <<ledger_vars, worker_request_queue, g_txn_id, pc, call, calls_made>>
      BY <2>1 DEF vars, bound_vars
    <3>2. Making' = Making
      BY <3>1 DEF Making
    <3>3. IsFiniteSet(Making) /\ Cardinality(Making) \in Nat /\ calls_made \in Nat
      <4>1. Cardinality(Making) \in Nat
        BY FS_CardinalityType DEF OriginInv
      <4> QED BY <4>1, ConstantTypes DEF OriginInv, TypeInv, Types
    <3>4. /\ IsFiniteSet(Making') /\ Cardinality(Making') \in Nat /\ calls_made' \in Nat
          /\ Cardinality(Making') - Cardinality(Making) <= calls_made' - calls_made
      BY <3>1, <3>2, <3>3
    <3> QED BY <3>1, <3>3, <3>4, SameRecords
  <2> QED
    BY <2>1, HeapCallOrigins, CommandOrigins, WorkerOrigins DEF Next, ThreadStep, Worker
<1>3. OriginInv => OriginsAreUnique
  BY DEF OriginInv
<1> QED
  BY <1>1, <1>2, <1>3, CallInvHolds, TypeInvHolds, PTL DEF Spec
=============================================================================
