---------------------------- MODULE SessionProofs ---------------------------
(***************************************************************************)
(* Proofs about the threads and their requests, for any set of threads,    *)
(* any mix of calls and commands and any bounds: the types of the state,   *)
(* that the watcher drives the ledger with the ledger's operations only,   *)
(* that pauses nest, and that commands exclude each other.                 *)
(***************************************************************************)
EXTENDS WatcherProofs, SequenceTheorems

(***************************************************************************)
(* The types are inductive once the call of a thread that is inside a heap *)
(* function is known to be one.                                            *)
(***************************************************************************)
InCallHasCall == \A t \in Thread : pc[t] \in InCall => call[t] \in Call

TypeInv == Types /\ InCallHasCall

(* What the environment gives a thread. *)
LEMMA ConstantTypes ==
  /\ Commander \subseteq Thread /\ CallSize \subseteq Size /\ Site \subseteq Seq(Frame)
  /\ Calls \subseteq HeapFunction /\ Addr \subseteq Pointer /\ Null \in Pointer
  /\ MaxCalls \in Nat /\ MaxCommands \in Nat /\ 0 \in Size /\ Size \subseteq Nat
BY WatcherAssumption, LedgerAssumption DEF Pointer, Size

LEMMA TxnType ==
  ASSUME NEW n \in Nat
  PROVE  n % TxnModulus \in TxnId
BY LedgerAssumption DEF TxnId

(* Loading a hook makes a call. *)
LEMMA EnterType ==
  ASSUME TypeInv, NEW t \in Thread, NEW fn \in HeapFunction, NEW site \in Site \cup {NoCall},
         NEW arg \in Pointer, NEW size \in Size, Enter(t, fn, site, arg, size)
  PROVE  /\ pc' \in [Thread -> {"idle"} \cup InCall \cup InCommand]
         /\ call' \in [Thread -> Call \cup {NoCall}]
         /\ InCallHasCall'
<1> DEFINE c == [fn |-> fn, hook |-> hooks[fn], site |-> site, arg |-> arg, size |-> size,
                 result |-> Null, seen |-> 0]
<1>1. c \in Call
  BY ConstantTypes DEF TypeInv, Types, Call
<1>2. pc' = [pc EXCEPT ![t] = "libc"] /\ call' = [call EXCEPT ![t] = c]
  BY DEF Enter, GoTo
<1> HIDE DEF c
<1> QED
  BY <1>1, <1>2 DEF TypeInv, Types, InCallHasCall, InCall

LEMMA BeginCallType ==
  ASSUME TypeInv, NEW t \in Thread, BeginCall(t)
  PROVE  TypeInv'
<1>1. \E fn \in HeapFunction, site \in Site \cup {NoCall}, arg \in Pointer, size \in Size :
        Enter(t, fn, site, arg, size)
  BY ConstantTypes DEF BeginCall, TypeInv, Types, HeapFunction, StoreOrder, Acquiring
<1>2. /\ pc' \in [Thread -> {"idle"} \cup InCall \cup InCommand]
      /\ call' \in [Thread -> Call \cup {NoCall}]
      /\ InCallHasCall'
  BY <1>1, EnterType
<1>3. held' \subseteq Addr /\ calls_made' \in 0 .. MaxCalls
  BY ConstantTypes DEF BeginCall, TypeInv, Types
<1>4. LedgerTypeOK'
  BY DEF BeginCall, TypeInv, Types, LedgerTypeOK, ledger_vars, counters, anomalies
<1> QED
  BY <1>2, <1>3, <1>4 DEF BeginCall, TypeInv, Types, hook_vars, leak_vars, history_vars

(* A call and what it leaves behind. *)
LEMMA CallParts ==
  ASSUME NEW c \in Call
  PROVE  /\ c.fn \in HeapFunction /\ c.hook \in Hook /\ c.site \in Site \cup {NoCall}
         /\ c.arg \in Pointer /\ c.size \in Size /\ c.result \in Pointer /\ c.seen \in Nat
         /\ Given(c) \subseteq Addr /\ ReleasedBy(c) \subseteq Addr
<1>1. /\ c.fn \in HeapFunction /\ c.hook \in Hook /\ c.site \in Site \cup {NoCall}
      /\ c.arg \in Pointer /\ c.size \in Size /\ c.result \in Pointer /\ c.seen \in Nat
  BY DEF Call
<1> QED
  BY <1>1 DEF Given, ReleasedBy, Pointer

(* A thread that returns from its call. *)
LEMMA ReturnType ==
  ASSUME TypeInv, NEW t \in Thread, NEW c \in Call, Return(t, c)
  PROVE  /\ pc' \in [Thread -> {"idle"} \cup InCall \cup InCommand]
         /\ call' \in [Thread -> Call \cup {NoCall}]
         /\ InCallHasCall'
         /\ held' \subseteq Addr
BY CallParts DEF Return, GoTo, TypeInv, Types, InCallHasCall, InCall

(* A thread that goes on in its call. *)
LEMMA GoOnType ==
  ASSUME TypeInv, NEW t \in Thread, NEW c \in Call, NEW place \in InCall,
         GoTo(t, place), call' = [call EXCEPT ![t] = c]
  PROVE  /\ pc' \in [Thread -> {"idle"} \cup InCall \cup InCommand]
         /\ call' \in [Thread -> Call \cup {NoCall}]
         /\ InCallHasCall'
BY DEF GoTo, TypeInv, Types, InCallHasCall

(* A thread that goes on, or comes back, in a command. *)
LEMMA CommandPlaceType ==
  ASSUME TypeInv, NEW t \in Thread, NEW place \in {"idle"} \cup InCommand,
         GoTo(t, place), UNCHANGED call
  PROVE  /\ pc' \in [Thread -> {"idle"} \cup InCall \cup InCommand]
         /\ call' \in [Thread -> Call \cup {NoCall}]
         /\ InCallHasCall'
<1>1. place \notin InCall
  BY DEF InCall, InCommand
<1> QED
  BY <1>1 DEF GoTo, TypeInv, Types, InCallHasCall

LEMMA LibcType ==
  ASSUME TypeInv, NEW t \in Thread, NEW c \in Call, Libc(t, c)
  PROVE  TypeInv'
<1>1. /\ ReleasedBy(c) \subseteq Addr /\ {c.result} \ {Null} \subseteq Addr
  BY CallParts DEF Pointer
<1>2. /\ heap' \subseteq Addr /\ released' \subseteq Addr /\ watched' \subseteq Addr
  BY <1>1 DEF Libc, TypeInv, Types
<1>3. /\ pc' \in [Thread -> {"idle"} \cup InCall \cup InCommand]
      /\ call' \in [Thread -> Call \cup {NoCall}]
      /\ InCallHasCall' /\ held' \subseteq Addr /\ doubtful' \subseteq Addr
  <2>1. CASE c.hook = "libc"
    BY <1>1, <2>1, ReturnType DEF Libc, ReturnUnrecorded, TypeInv, Types
  <2>2. CASE c.hook # "libc"
    BY <2>2, GoOnType DEF Libc, TypeInv, Types, InCall
  <2> QED BY <2>1, <2>2
<1>4. LedgerTypeOK'
  BY DEF Libc, TypeInv, Types, LedgerTypeOK, ledger_vars, counters, anomalies
<1> QED
  BY <1>2, <1>3, <1>4 DEF Libc, TypeInv, Types, hook_vars, leak_vars, bound_vars

LEMMA LibcCallType ==
  ASSUME TypeInv, NEW t \in Thread, LibcMalloc(t) \/ LibcRealloc(t) \/ LibcFree(t)
  PROVE  TypeInv'
<1>1. pc[t] = "libc" /\ call[t] \in Call
  BY DEF LibcMalloc, LibcRealloc, LibcFree, TypeInv, InCallHasCall, InCall
<1>2. CASE LibcFree(t)
  BY <1>1, <1>2, LibcType DEF LibcFree
<1>3. CASE LibcMalloc(t) \/ LibcRealloc(t)
  <2>1. Fresh \subseteq Pointer /\ call[t].arg \in Pointer
    BY <1>1, CallParts DEF Fresh, Pointer
  <2>2. PICK a \in Pointer : Libc(t, [call[t] EXCEPT !.result = a])
    BY <1>3, <2>1, ConstantTypes DEF LibcMalloc, LibcRealloc
  <2>3. [call[t] EXCEPT !.result = a] \in Call
    BY <1>1 DEF Call
  <2> QED BY <2>2, <2>3, LibcType
<1> QED
  BY <1>2, <1>3

LEMMA CheckType ==
  ASSUME TypeInv, NEW t \in Thread, CheckUnwatched(t) \/ CheckWatched(t) \/ CountKnownLeak(t)
  PROVE  TypeInv'
<1>1. call[t] \in Call
  BY DEF CheckUnwatched, CheckWatched, CountKnownLeak, TypeInv, InCallHasCall, InCall
<1>2. LedgerTypeOK'
  BY DEF CheckUnwatched, CheckWatched, CountKnownLeak, TypeInv, Types, LedgerTypeOK, ledger_vars, counters, anomalies
<1>3. CASE CheckUnwatched(t) \/ CountKnownLeak(t)
  <2>1. Return(t, call[t]) /\ doubtful' \subseteq Addr
    BY <1>1, <1>3, CallParts DEF CheckUnwatched, CountKnownLeak, ReturnUnrecorded, TypeInv, Types
  <2>2. number_of_known_leaks' \in Nat
    BY <1>1, <1>3, CallParts DEF CheckUnwatched, CountKnownLeak, leak_vars, TypeInv, Types
  <2> QED
    BY <1>1, <1>2, <1>3, <2>1, <2>2, ReturnType
    DEF CheckUnwatched, CountKnownLeak, TypeInv, Types, hook_vars, leak_vars, bound_vars
<1>4. CASE CheckWatched(t)
  <2> DEFINE seen == IF IgnoresCall(call[t]) THEN number_of_known_leaks ELSE 0
             place == IF IgnoresCall(call[t]) THEN "count" ELSE "enqueue"
  <2>1. [call[t] EXCEPT !.seen = seen] \in Call
    <3>1. seen \in Nat
      BY DEF TypeInv, Types
    <3> HIDE DEF seen
    <3> QED BY <1>1, <3>1 DEF Call
  <2>2. place \in InCall
    BY DEF InCall
  <2>3. GoTo(t, place) /\ call' = [call EXCEPT ![t] = [call[t] EXCEPT !.seen = seen]]
    BY <1>4 DEF CheckWatched
  <2> HIDE DEF seen, place
  <2> QED
    BY <1>2, <1>4, <2>1, <2>2, <2>3, GoOnType
    DEF CheckWatched, TypeInv, Types, hook_vars, leak_vars, heap_vars, bound_vars, history_vars
<1> QED
  BY <1>3, <1>4

(* The records of a call are requests. *)
LEMMA RequestType ==
  ASSUME g_txn_id \in TxnId, NEW c \in Call
  PROVE  RequestOf(c) \in MallocRequest \cup ReallocRequest \cup FreeRequest
BY CallParts
DEF RequestOf, MallocRequest, ReallocRequest, FreeRequest, HeapFunction, StoreOrder, Acquiring

LEMMA SendType ==
  ASSUME TypeInv, NEW t \in Thread, NEW r \in RequestRecord, Send(t, r)
  PROVE  worker_request_queue' \in [Thread -> Seq(RequestRecord)]
BY DEF TypeInv, Types, Send

LEMMA EnqueueType ==
  ASSUME TypeInv, NEW t \in Thread, EnqueueRecord(t)
  PROVE  TypeInv'
<1>1. call[t] \in Call
  BY DEF EnqueueRecord, TypeInv, InCallHasCall, InCall
<1>2. RequestOf(call[t]) \in RequestRecord
  BY <1>1, RequestType DEF RequestRecord, TypeInv, Types
<1>3. worker_request_queue' \in [Thread -> Seq(RequestRecord)]
  BY <1>2, SendType DEF EnqueueRecord
<1>4. g_txn_id' \in TxnId
  <2>1. g_txn_id + 1 \in Nat
    BY DEF TypeInv, Types, TxnId
  <2> QED
    BY <2>1, TxnType DEF EnqueueRecord, TypeInv, Types
<1>5. watched' \subseteq Addr
  BY <1>1, CallParts DEF EnqueueRecord, TypeInv, Types, Pointer
<1>6. LedgerTypeOK'
  BY DEF EnqueueRecord, TypeInv, Types, LedgerTypeOK, ledger_vars, counters, anomalies
<1> QED
  BY <1>1, <1>3, <1>4, <1>5, <1>6, ReturnType
  DEF EnqueueRecord, TypeInv, Types, hook_vars, leak_vars, bound_vars

LEMMA HeapCallType ==
  ASSUME TypeInv, NEW t \in Thread, HeapCall(t)
  PROVE  TypeInv'
BY BeginCallType, LibcCallType, CheckType, EnqueueType DEF HeapCall

-----------------------------------------------------------------------------
(* The guards a thread has, without the newest. *)
LEMMA PopType ==
  ASSUME NEW S, NEW stack \in Seq(S), stack # <<>>
  PROVE  /\ Len(stack) \in Nat \ {0} /\ stack[Len(stack)] \in S
         /\ SubSeq(stack, 1, Len(stack) - 1) \in Seq(S)
         /\ Len(SubSeq(stack, 1, Len(stack) - 1)) = Len(stack) - 1
         /\ \A i \in 1 .. Len(stack) - 1 : SubSeq(stack, 1, Len(stack) - 1)[i] = stack[i]
<1> DEFINE n == Len(stack) - 1
<1>1. Len(stack) \in Nat \ {0} /\ n \in Nat /\ Len(stack) \in 1 .. Len(stack)
  BY EmptySeq
<1>2. stack \in [1 .. Len(stack) -> S]
  BY LenProperties
<1>3. \A i \in 1 .. n : stack[i] \in S
  BY <1>1, <1>2
<1> HIDE DEF n
<1>4. n = n - 1 + 1 /\ (1 <= n \/ n = 0) /\ \A i \in 1 .. n : 1 + i - 1 = i
  BY <1>1
<1>5. /\ SubSeq(stack, 1, n) \in Seq(S)
      /\ Len(SubSeq(stack, 1, n)) = n
      /\ \A i \in 1 .. n : SubSeq(stack, 1, n)[i] = stack[i]
  BY <1>1, <1>3, <1>4, SubSeqProperties
<1> QED
  BY <1>1, <1>2, <1>5 DEF n

LEMMA PauseType ==
  ASSUME TypeInv, NEW t \in Thread, Pause(t)
  PROVE  TypeInv'
<1>1. /\ commands_made' \in 0 .. MaxCommands
  BY ConstantTypes DEF Pause, Issue, TypeInv, Types
<1>2. PICK token \in (Addr \ heap) \cup {Null} :
        /\ guards' = [guards EXCEPT ![t] = Append(@, [token |-> token, saved |-> watching_thread[t]])]
        /\ heap' = heap \cup ({token} \ {Null})
  BY DEF Pause
<1>3. heap' \subseteq Addr
  BY <1>2 DEF TypeInv, Types
<1>4. guards' \in [Thread -> Seq([token : Pointer, saved : BOOLEAN])]
  <2>1. [token |-> token, saved |-> watching_thread[t]] \in [token : Pointer, saved : BOOLEAN]
    BY <1>2 DEF TypeInv, Types, Pointer
  <2>2. Append(guards[t], [token |-> token, saved |-> watching_thread[t]])
          \in Seq([token : Pointer, saved : BOOLEAN])
    BY <2>1, AppendProperties DEF TypeInv, Types
  <2> QED
    BY <1>2, <2>2 DEF TypeInv, Types
<1>5. LedgerTypeOK'
  BY DEF Pause, TypeInv, Types, LedgerTypeOK, ledger_vars, counters, anomalies
<1>6. watching_thread' \in [Thread -> BOOLEAN]
  BY DEF Pause, TypeInv, Types
<1> QED
  BY <1>1, <1>3, <1>4, <1>5, <1>6
  DEF Pause, TypeInv, Types, InCallHasCall, hook_vars, leak_vars, history_vars

LEMMA ResumeType ==
  ASSUME TypeInv, NEW t \in Thread, Resume(t)
  PROVE  TypeInv'
<1> DEFINE guard == guards[t][Len(guards[t])]
<1>1. /\ guard \in [token : Pointer, saved : BOOLEAN]
      /\ SubSeq(guards[t], 1, Len(guards[t]) - 1) \in Seq([token : Pointer, saved : BOOLEAN])
  BY PopType DEF Resume, TypeInv, Types
<1>2. guards' \in [Thread -> Seq([token : Pointer, saved : BOOLEAN])]
  BY <1>1 DEF Resume, TypeInv, Types
<1>3. watching_thread' \in [Thread -> BOOLEAN]
  BY <1>1 DEF Resume, Restored, TypeInv, Types
<1>4. Enter(t, "free", NoCall, guard.token, 0)
  BY DEF Resume
<1>5. /\ pc' \in [Thread -> {"idle"} \cup InCall \cup InCommand]
      /\ call' \in [Thread -> Call \cup {NoCall}]
      /\ InCallHasCall'
  <2>1. guard.token \in Pointer /\ "free" \in HeapFunction
    BY <1>1 DEF HeapFunction, StoreOrder
  <2> HIDE DEF guard
  <2> QED BY <1>4, <2>1, ConstantTypes, EnterType
<1>6. LedgerTypeOK'
  BY DEF Resume, TypeInv, Types, LedgerTypeOK, ledger_vars, counters, anomalies
<1> QED
  BY <1>2, <1>3, <1>5, <1>6
  DEF Resume, TypeInv, Types, hook_vars, leak_vars, heap_vars, bound_vars, history_vars

-----------------------------------------------------------------------------
LEMMA CommandRequests == {ClearRequest, SnapshotRequest, StatsRequest} \subseteq RequestRecord
BY DEF RequestRecord

(* A hook that is stored is a hook. *)
LEMMA StoreType ==
  ASSUME hooks \in [HeapFunction -> Hook], NEW target \in {"libc", "multi"}, StoreHook(target)
  PROVE  hooks' \in [HeapFunction -> Hook]
BY DEF StoreHook, HeapFunction, Hook

(* What a command's step leaves alone. *)
LEMMA CommandFrame ==
  ASSUME TypeInv, UNCHANGED <<ledger_vars, unchanged_by_commands>>
  PROVE  /\ LedgerTypeOK' /\ UNCHANGED call
         /\ g_txn_id' \in TxnId /\ known_leaks' \in Seq(Leak) /\ number_of_known_leaks' \in Nat
         /\ guards' \in [Thread -> Seq([token : Pointer, saved : BOOLEAN])]
         /\ watching_thread' \in [Thread -> BOOLEAN]
         /\ heap' \subseteq Addr /\ calls_made' \in 0 .. MaxCalls
         /\ watched' \subseteq Addr /\ released' \subseteq Addr /\ doubtful' \subseteq Addr
<1>1. LedgerTypeOK'
  BY DEF TypeInv, Types, LedgerTypeOK, ledger_vars, counters, anomalies
<1> QED
  BY <1>1 DEF TypeInv, Types, unchanged_by_commands, leak_vars

(* A thread takes its answer. *)
LEMMA TakeType ==
  ASSUME TypeInv, NEW t \in Thread, TakeAnswer(t)
  PROVE  held' \subseteq Addr /\ answer' \in [Thread -> Answer \cup {NoAnswer}]
<1>1. answer[t] \in Answer
  BY DEF TakeAnswer, TypeInv, Types
<1>2. answer[t].storage \in Pointer
  BY <1>1 DEF Answer
<1> QED
  BY <1>2 DEF TakeAnswer, TypeInv, Types, Pointer

LEMMA CallCommandType ==
  ASSUME TypeInv, NEW t \in Thread, CallStart(t) \/ CallStop(t) \/ Ask(t)
  PROVE  TypeInv'
<1>1. commands_made' \in 0 .. MaxCommands
  BY ConstantTypes DEF CallStart, CallStop, Ask, Issue, TypeInv, Types
<1>2. worker_request_queue' \in [Thread -> Seq(RequestRecord)]
  <2>1. CASE Ask(t)
    BY <2>1, CommandRequests, SendType DEF Ask
  <2>2. CASE CallStart(t) \/ CallStop(t)
    BY <2>2 DEF CallStart, CallStop, TypeInv, Types
  <2> QED BY <2>1, <2>2
<1>3. \E place \in {"start", "stop", "ask"} : GoTo(t, place)
  BY DEF CallStart, CallStop, Ask
<1>4. UNCHANGED <<ledger_vars, hook_vars, unchanged_by_commands, held, backlog, answer>>
  BY DEF CallStart, CallStop, Ask
<1>5. /\ pc' \in [Thread -> {"idle"} \cup InCall \cup InCommand]
      /\ call' \in [Thread -> Call \cup {NoCall}]
      /\ InCallHasCall'
  BY <1>3, <1>4, CommandFrame, CommandPlaceType DEF InCommand
<1> QED
  BY <1>1, <1>2, <1>4, <1>5, CommandFrame DEF TypeInv, Types, hook_vars

LEMMA CommandStepType ==
  ASSUME TypeInv, NEW t \in Thread, CommandStep(t)
  PROVE  TypeInv'
<1>1. UNCHANGED <<ledger_vars, unchanged_by_commands, commands_made>>
  BY DEF CommandStep, StartLock, StartCleared, StartStoreHook, StartWatching, StopLock,
         StopStoreHook, StopAsk, StopReturn, AskReturn
<1>2. (\E place \in {"idle"} \cup InCommand : GoTo(t, place)) \/ UNCHANGED pc
  BY DEF CommandStep, StartLock, StartCleared, StartStoreHook, StartWatching, StopLock,
         StopStoreHook, StopAsk, StopReturn, AskReturn, TakeAnswer, InCommand
<1>3. /\ pc' \in [Thread -> {"idle"} \cup InCall \cup InCommand]
      /\ call' \in [Thread -> Call \cup {NoCall}]
      /\ InCallHasCall'
  <2>1. CASE UNCHANGED pc
    BY <1>1, <2>1 DEF TypeInv, Types, InCallHasCall, unchanged_by_commands
  <2> QED
    BY <1>1, <1>2, <2>1, CommandFrame, CommandPlaceType
<1>4. /\ hooks' \in [HeapFunction -> Hook] /\ watching_globally' \in BOOLEAN
      /\ command_mutex' \in Thread \cup {NoThread}
  BY StoreType
  DEF CommandStep, StartLock, StartCleared, StartStoreHook, StartWatching, StopLock, LowerFlag,
      Unlock, StopStoreHook, StopAsk, StopReturn, AskReturn, hook_vars, TypeInv, Types
<1>5. worker_request_queue' \in [Thread -> Seq(RequestRecord)]
  BY CommandRequests, SendType
  DEF CommandStep, StartLock, StartCleared, StartStoreHook, StartWatching, StopLock,
      StopStoreHook, StopAsk, StopReturn, AskReturn, TypeInv, Types
<1>6. backlog' \in [Thread -> Nat]
  <2>1. \A u \in Thread : Len(worker_request_queue[u]) \in Nat
    BY DEF TypeInv, Types
  <2> QED
    BY <2>1 DEF CommandStep, StartLock, StartCleared, StartStoreHook, StartWatching, StopLock,
                StopStoreHook, StopAsk, StopReturn, AskReturn, TypeInv, Types
<1>7. held' \subseteq Addr /\ answer' \in [Thread -> Answer \cup {NoAnswer}]
  BY TakeType DEF CommandStep, StartLock, StartCleared, StartStoreHook, StartWatching, StopLock,
                  StopStoreHook, StopAsk, StopReturn, AskReturn, TypeInv, Types
<1> QED
  BY <1>1, <1>3, <1>4, <1>5, <1>6, <1>7, CommandFrame DEF TypeInv, Types

-----------------------------------------------------------------------------
(***************************************************************************)
(* The worker.                                                             *)
(***************************************************************************)
(* A request is a record or a command. *)
LEMMA RequestKinds ==
  ASSUME NEW r \in RequestRecord
  PROVE  /\ r.op = "MALLOC" => r \in MallocRequest
         /\ r.op = "REALLOC" => r \in ReallocRequest
         /\ r.op = "FREE" => r \in FreeRequest
         /\ r.op = "CLEAR" => r = ClearRequest
         /\ r.op = "SNAPSHOT" => r = SnapshotRequest
         /\ r.op = "STATS" => r = StatsRequest
BY DEF RequestRecord, MallocRequest, ReallocRequest, FreeRequest, ClearRequest,
       SnapshotRequest, StatsRequest

(* The worker's next request, and the ones behind it. *)
LEMMA HeadType ==
  ASSUME TypeInv, NEW t \in Thread, Ready(t)
  PROVE  /\ Head(worker_request_queue[t]) \in RequestRecord
         /\ Tail(worker_request_queue[t]) \in Seq(RequestRecord)
BY HeadTailProperties DEF TypeInv, Types, Ready

(* Handling a request is an operation of the ledger. *)
LEMMA WorkerLedgerStep ==
  ASSUME TypeInv, NEW t \in Thread, WorkerHandles(t)
  PROVE  LedgerNext
<1> DEFINE r == Head(worker_request_queue[t])
<1>1. r \in RequestRecord
  BY HeadType DEF WorkerHandles
<1>2. HandleRecord(r) \/ HandleCommand(t, r)
  BY DEF WorkerHandles
<1> HIDE DEF r
<1>3. CASE HandleRecord(r)
  BY <1>1, <1>3, RequestKinds DEF HandleRecord, LedgerNext
<1>4. CASE HandleCommand(t, r)
  BY <1>4 DEF HandleCommand, LedgerNext
<1> QED
  BY <1>2, <1>3, <1>4

LEMMA ReplyType ==
  ASSUME TypeInv, LedgerTypeOK', NEW t \in Thread, NEW leaks \in SUBSET Pointer,
         NEW storage \in Pointer, Reply(t, leaks, storage)
  PROVE  answer' \in [Thread -> Answer \cup {NoAnswer}]
BY DEF Reply, Answer, TypeInv, Types, LedgerTypeOK

LEMMA WorkerType ==
  ASSUME TypeInv, NEW t \in Thread, WorkerHandles(t)
  PROVE  TypeInv'
<1> DEFINE r == Head(worker_request_queue[t])
<1>1. LedgerTypeOK'
  BY WorkerLedgerStep, LedgerNextType DEF TypeInv, Types
<1>2. worker_request_queue' \in [Thread -> Seq(RequestRecord)]
  BY HeadType DEF WorkerHandles, TypeInv, Types
<1>3. backlog' \in [Thread -> Nat]
  BY DEF WorkerHandles, TypeInv, Types
<1>4. /\ answer' \in [Thread -> Answer \cup {NoAnswer}]
      /\ heap' \subseteq Addr /\ watched' \subseteq Addr /\ released' \subseteq Addr
      /\ doubtful' \subseteq Addr
  <2>1. HandleRecord(r) \/ HandleCommand(t, r)
    BY DEF WorkerHandles
  <2> HIDE DEF r
  <2>2. CASE HandleRecord(r)
    BY <2>2 DEF HandleRecord, TypeInv, Types
  <2>3. CASE \E storage \in (Addr \ heap) \cup {Null} :
               /\ Reply(t, Open', storage) /\ heap' = heap \cup ({storage} \ {Null})
               /\ UNCHANGED <<watched, released, doubtful>>
    BY <1>1, <2>3, ReplyType DEF TypeInv, Types, Open, Pointer
  <2>4. CASE /\ Reply(t, {}, Null) /\ UNCHANGED heap
             /\ \/ watched' = {} /\ released' = {} /\ doubtful' = LeftOver
                \/ UNCHANGED <<watched, released, doubtful>>
    BY <1>1, <2>4, ConstantTypes, ReplyType DEF TypeInv, Types, LeftOver
  <2> QED
    BY <2>1, <2>2, <2>3, <2>4 DEF HandleCommand
<1> QED
  BY <1>1, <1>2, <1>3, <1>4
  DEF WorkerHandles, TypeInv, Types, InCallHasCall, hook_vars, leak_vars, bound_vars

LEMMA TypeStep ==
  ASSUME TypeInv, [Next]_vars
  PROVE  TypeInv'
<1>1. CASE UNCHANGED vars
  BY <1>1 DEF TypeInv, Types, InCallHasCall, LedgerTypeOK, vars, ledger_vars, counters,
              anomalies, hook_vars, leak_vars, heap_vars, bound_vars, history_vars
<1> QED
  BY <1>1, HeapCallType, PauseType, ResumeType, CallCommandType, CommandStepType, WorkerType
  DEF Next, ThreadStep, Worker

LEMMA TypeInit == Init => TypeInv
<1> SUFFICES ASSUME Init PROVE TypeInv
  OBVIOUS
<1>1. LedgerTypeOK
  BY LedgerAssumption DEF Init, InitWith, LedgerInit, LedgerTypeOK, Word
<1>2. g_txn_id \in TxnId
  BY TxnType DEF Init, InitWith
<1>3. InitialLeaks \in Seq(Leak) /\ NoThread \notin Thread
  BY WatcherAssumption
<1>4. /\ pc = [t \in Thread |-> "idle"] /\ call = [t \in Thread |-> NoCall]
      /\ pc \in [Thread -> {"idle"} \cup InCall \cup InCommand]
      /\ InCallHasCall
  BY DEF Init, InitWith, InCallHasCall, InCall
<1>5. /\ worker_request_queue \in [Thread -> Seq(RequestRecord)]
      /\ guards \in [Thread -> Seq([token : Pointer, saved : BOOLEAN])]
  <2>1. <<>> \in Seq(RequestRecord) /\ <<>> \in Seq([token : Pointer, saved : BOOLEAN])
    BY EmptySeq
  <2> QED
    BY <2>1 DEF Init, InitWith
<1>6. hooks \in [HeapFunction -> Hook]
  BY DEF Init, InitWith, Hook
<1>7. /\ watching_thread \in [Thread -> BOOLEAN] /\ backlog \in [Thread -> Nat]
      /\ answer \in [Thread -> Answer \cup {NoAnswer}]
  BY DEF Init, InitWith
<1>8. /\ watching_globally \in BOOLEAN /\ command_mutex \in Thread \cup {NoThread}
      /\ known_leaks \in Seq(Leak) /\ number_of_known_leaks \in Nat
  BY <1>3 DEF Init, InitWith
<1>9. /\ heap \subseteq Addr /\ held \subseteq Addr
      /\ calls_made \in 0 .. MaxCalls /\ commands_made \in 0 .. MaxCommands
      /\ watched \subseteq Addr /\ released \subseteq Addr /\ doubtful \subseteq Addr
  BY ConstantTypes DEF Init, InitWith
<1>10. call \in [Thread -> Call \cup {NoCall}]
  BY <1>4
<1> QED
  BY <1>1, <1>2, <1>4, <1>5, <1>6, <1>7, <1>8, <1>9, <1>10 DEF TypeInv, Types

(***************************************************************************)
(* The state of the watcher, its threads, its queue and its worker keeps   *)
(* its types, whatever the threads call and however the steps of the heap  *)
(* functions, the commands and the worker interleave.                      *)
(***************************************************************************)
THEOREM TypesHold == Spec => []Types
<1>1. TypeInv => Types
  BY DEF TypeInv
<1> QED
  BY <1>1, TypeInit, TypeStep, PTL DEF Spec

LEMMA TypeInvHolds == Spec => []TypeInv
BY TypeInit, TypeStep, PTL DEF Spec

-----------------------------------------------------------------------------
(* Only the worker touches the ledger. *)
LEMMA LedgerStep ==
  ASSUME TypeInv, [Next]_vars
  PROVE  [LedgerNext]_ledger_vars
<1>1. ASSUME NEW t \in Thread, ThreadStep(t)
      PROVE  UNCHANGED ledger_vars
  <2>1. CASE HeapCall(t)
    BY <2>1 DEF HeapCall, BeginCall, LibcMalloc, LibcRealloc, LibcFree, Libc, CheckUnwatched,
                CheckWatched, CountKnownLeak, EnqueueRecord
  <2>2. CASE Pause(t) \/ Resume(t) \/ CallStart(t) \/ CallStop(t) \/ Ask(t)
    BY <2>2 DEF Pause, Resume, CallStart, CallStop, Ask
  <2>3. CASE CommandStep(t)
    BY <2>3 DEF CommandStep, StartLock, StartCleared, StartStoreHook, StartWatching, StopLock,
                StopStoreHook, StopAsk, StopReturn, AskReturn
  <2> QED
    BY <1>1, <2>1, <2>2, <2>3 DEF ThreadStep
<1>2. CASE Worker
  BY <1>2, WorkerLedgerStep DEF Worker
<1>3. CASE UNCHANGED vars
  BY <1>3 DEF vars
<1> QED
  BY <1>1, <1>2, <1>3 DEF Next

(***************************************************************************)
(* The watcher implements the ledger: whatever the threads do, the worker  *)
(* does nothing to its maps and counters but what WorkerLedger says a      *)
(* request does, and nobody else touches them.                             *)
(***************************************************************************)
THEOREM WatcherDrivesLedger == Spec => LedgerSpec
<1>1. Init => LedgerInit
  BY DEF Init, InitWith
<1> QED
  BY <1>1, LedgerStep, TypeInvHolds, PTL DEF Spec, LedgerSpec

(***************************************************************************)
(* So the counters of any session agree with its open allocations, as      *)
(* long as no record collided and no realloc was orphaned.                 *)
(***************************************************************************)
THEOREM SessionCountsAgree == Spec => []CountsBalance
BY WatcherDrivesLedger, CountsAgree, PTL

(***************************************************************************)
(* And so do its bytes, modulo the width of their counters.                *)
(***************************************************************************)
THEOREM SessionBytesAgree == Spec => []BytesBalance
BY WatcherDrivesLedger, BytesAgree, PTL

-----------------------------------------------------------------------------
(***************************************************************************)
(* A thread's oldest guard, and no other, remembers that the thread was    *)
(* watched.  PausesNest says nothing of the guards below the newest, which *)
(* is what the next Resume needs.                                          *)
(***************************************************************************)
OldestGuardSaves ==
  \A t \in Thread : \A i \in 1 .. Len(guards[t]) : guards[t][i].saved <=> i = 1

GuardInv == PausesNest /\ OldestGuardSaves

LEMMA GuardsFrame ==
  ASSUME GuardInv, UNCHANGED <<guards, watching_thread>>
  PROVE  GuardInv'
BY DEF GuardInv, PausesNest, OldestGuardSaves

LEMMA PauseNests ==
  ASSUME TypeInv, GuardInv, NEW t \in Thread, Pause(t)
  PROVE  GuardInv'
<1> DEFINE Guard == [token : Pointer, saved : BOOLEAN]
<1>1. PICK token \in Pointer :
        guards' = [guards EXCEPT ![t] = Append(@, [token |-> token, saved |-> watching_thread[t]])]
  BY DEF Pause, TypeInv, Types, Pointer
<1> DEFINE guard == [token |-> token, saved |-> watching_thread[t]]
<1>2. guards \in [Thread -> Seq(Guard)] /\ guard \in Guard
  BY <1>1 DEF TypeInv, Types
<1>3. guards' = [guards EXCEPT ![t] = Append(guards[t], guard)] /\ guard.saved = watching_thread[t]
  BY <1>1
<1> HIDE DEF Guard, guard
<1>4. /\ Append(guards[t], guard) # <<>>
      /\ Len(Append(guards[t], guard)) = Len(guards[t]) + 1
      /\ \A i \in 1 .. Len(guards[t]) : Append(guards[t], guard)[i] = guards[t][i]
      /\ Append(guards[t], guard)[Len(guards[t]) + 1] = guard
      /\ Len(guards[t]) \in Nat
      /\ guards[t] # <<>> => Len(guards[t]) # 0
      /\ guards[t] = <<>> => Len(guards[t]) = 0
  BY <1>2, AppendProperties, EmptySeq, LenProperties
<1>5. watching_thread' = [watching_thread EXCEPT ![t] = FALSE] /\ watching_thread \in [Thread -> BOOLEAN]
  BY DEF Pause, TypeInv, Types
<1>6. PausesNest'
  BY <1>2, <1>3, <1>4, <1>5 DEF GuardInv, PausesNest
<1>7. OldestGuardSaves'
  <2> SUFFICES ASSUME NEW u \in Thread, NEW i \in 1 .. Len(guards'[u])
               PROVE  guards'[u][i].saved <=> i = 1
    BY DEF OldestGuardSaves
  <2>1. CASE u # t
    BY <1>2, <1>3, <2>1 DEF GuardInv, OldestGuardSaves
  <2>2. CASE u = t /\ i \in 1 .. Len(guards[t])
    BY <1>2, <1>3, <1>4, <2>2 DEF GuardInv, OldestGuardSaves
  <2>3. CASE u = t /\ i = Len(guards[t]) + 1
    <3>1. guards'[u][i] = guard
      BY <1>2, <1>3, <1>4, <2>3
    <3>2. watching_thread[t] <=> Len(guards[t]) = 0
      BY <1>4 DEF GuardInv, PausesNest
    <3>3. i = 1 <=> Len(guards[t]) = 0
      BY <1>4, <2>3
    <3> QED BY <1>3, <3>1, <3>2, <3>3
  <2>4. i \in 1 .. Len(guards[t]) \/ i = Len(guards[t]) + 1 \/ u # t
    BY <1>2, <1>3, <1>4
  <2> QED BY <2>1, <2>2, <2>3, <2>4
<1> QED
  BY <1>6, <1>7 DEF GuardInv

LEMMA ResumeNests ==
  ASSUME TypeInv, GuardInv, NEW t \in Thread, Resume(t)
  PROVE  GuardInv'
<1> DEFINE n    == Len(guards[t])
           rest == SubSeq(guards[t], 1, n - 1)
<1>1. /\ guards \in [Thread -> Seq([token : Pointer, saved : BOOLEAN])]
      /\ watching_thread \in [Thread -> BOOLEAN]
      /\ guards[t] # <<>>
      /\ guards' = [guards EXCEPT ![t] = rest]
      /\ watching_thread' = [watching_thread EXCEPT ![t] = guards[t][n].saved]
  BY DEF Resume, Restored, TypeInv, Types
<1>2. /\ n \in Nat \ {0} /\ Len(rest) = n - 1 /\ rest \in Seq([token : Pointer, saved : BOOLEAN])
      /\ \A i \in 1 .. n - 1 : rest[i] = guards[t][i]
  <2> DEFINE Guard == [token : Pointer, saved : BOOLEAN]
             stack == guards[t]
  <2>1. stack \in Seq(Guard) /\ stack # <<>>
    BY <1>1
  <2> HIDE DEF Guard, stack
  <2>2. /\ Len(stack) \in Nat \ {0}
        /\ SubSeq(stack, 1, Len(stack) - 1) \in Seq(Guard)
        /\ Len(SubSeq(stack, 1, Len(stack) - 1)) = Len(stack) - 1
        /\ \A i \in 1 .. Len(stack) - 1 : SubSeq(stack, 1, Len(stack) - 1)[i] = stack[i]
    BY <2>1, PopType
  <2> QED BY <2>2 DEF Guard, stack
<1> HIDE DEF rest
<1>3. rest = <<>> <=> n = 1
  <2>1. rest = <<>> => Len(rest) = 0
    BY EmptySeq
  <2>2. rest # <<>> => Len(rest) # 0
    BY <1>2, EmptySeq
  <2> QED
    BY <1>2, <2>1, <2>2
<1>4. guards[t][n].saved <=> n = 1
  <2>1. n \in 1 .. Len(guards[t])
    BY <1>2
  <2> QED
    BY <2>1 DEF GuardInv, OldestGuardSaves
<1>5. PausesNest'
  BY <1>1, <1>3, <1>4 DEF GuardInv, PausesNest
<1>6. OldestGuardSaves'
  <2> SUFFICES ASSUME NEW u \in Thread, NEW i \in 1 .. Len(guards'[u])
               PROVE  guards'[u][i].saved <=> i = 1
    BY DEF OldestGuardSaves
  <2>1. CASE u # t
    BY <1>1, <2>1 DEF GuardInv, OldestGuardSaves
  <2>2. CASE u = t
    <3>1. guards'[u] = rest /\ i \in 1 .. n - 1 /\ i \in 1 .. n
      BY <1>1, <1>2, <2>2
    <3> QED
      BY <1>2, <3>1 DEF GuardInv, OldestGuardSaves
  <2> QED BY <2>1, <2>2
<1> QED
  BY <1>5, <1>6 DEF GuardInv

(* No thread has a guard at first. *)
LEMMA GuardInit == Init => GuardInv
  BY EmptySeq DEF Init, InitWith, GuardInv, PausesNest, OldestGuardSaves

(* Every step keeps the guards nested. *)
LEMMA GuardNext ==
  ASSUME TypeInv, GuardInv, [Next]_vars
  PROVE  GuardInv'
<1>1. ASSUME NEW t \in Thread, HeapCall(t)
      PROVE  UNCHANGED <<guards, watching_thread>>
  BY <1>1 DEF HeapCall, BeginCall, LibcMalloc, LibcRealloc, LibcFree, Libc, CheckUnwatched,
              CheckWatched, CountKnownLeak, EnqueueRecord
<1>2. ASSUME NEW t \in Thread, CallStart(t) \/ CallStop(t) \/ Ask(t) \/ CommandStep(t)
      PROVE  UNCHANGED <<guards, watching_thread>>
  BY <1>2 DEF CallStart, CallStop, Ask, CommandStep, StartLock, StartCleared, StartStoreHook,
              StartWatching, StopLock, StopStoreHook, StopAsk, StopReturn, AskReturn,
              unchanged_by_commands
<1>3. CASE Worker \/ UNCHANGED vars
  BY <1>3, GuardsFrame DEF Worker, WorkerHandles, vars
<1> QED
  BY <1>1, <1>2, <1>3, PauseNests, ResumeNests, GuardsFrame DEF Next, ThreadStep

(***************************************************************************)
(* Pauses nest: a thread is watched again when, and only when, it has      *)
(* given up all its guards, however deep they are nested and whatever the  *)
(* other threads, the commands and the worker do in between.               *)
(***************************************************************************)
THEOREM PausesNestAlways == Spec => []PausesNest
<1>1. Init => GuardInv
  BY GuardInit
<1>2. TypeInv /\ GuardInv /\ [Next]_vars => GuardInv'
  BY GuardNext
<1>3. GuardInv => PausesNest
  BY DEF GuardInv
<1> QED
  BY <1>1, <1>2, <1>3, TypeInvHolds, PTL DEF Spec

-----------------------------------------------------------------------------
(***************************************************************************)
(* A command in the queue is the last request of its thread, which waits   *)
(* for it and has no answer yet; and only a thread that waits has one.     *)
(* CommandsExclude speaks of the CLEAR alone, and nothing in it says that  *)
(* a thread which leaves "clear" has no other CLEAR queued.                *)
(***************************************************************************)
Waiting == {"clear", "drain", "ask"}

Asked == {ClearRequest, SnapshotRequest, StatsRequest}

CommandsWaited ==
  \A t \in Thread : \A i \in 1 .. Len(worker_request_queue[t]) :
    worker_request_queue[t][i] \in Asked =>
      /\ i = Len(worker_request_queue[t])
      /\ answer[t] = NoAnswer
      /\ pc[t] \in Waiting
      /\ worker_request_queue[t][i] = ClearRequest => pc[t] = "clear"

AnswersAwaited == \A t \in Thread : answer[t] # NoAnswer => pc[t] \in Waiting

QueueInv == CommandsWaited /\ AnswersAwaited

(* Commands and records are different requests. *)
LEMMA RecordsAreNotCommands ==
  ASSUME NEW r \in MallocRequest \cup ReallocRequest \cup FreeRequest
  PROVE  r \notin Asked
BY DEF MallocRequest, ReallocRequest, FreeRequest, Asked, ClearRequest, SnapshotRequest, StatsRequest

LEMMA ClearIsNone == ClearRequest # SnapshotRequest /\ ClearRequest # StatsRequest
BY DEF ClearRequest, SnapshotRequest, StatsRequest

(* A thread that waits for nothing has no command in its queue. *)
LEMMA NothingAsked ==
  ASSUME QueueInv, NEW t \in Thread, pc[t] \notin Waiting \/ answer[t] # NoAnswer
  PROVE  \A i \in 1 .. Len(worker_request_queue[t]) : worker_request_queue[t][i] \notin Asked
BY DEF QueueInv, CommandsWaited

(* A step of a thread that asks nothing. *)
LEMMA QuietStep ==
  ASSUME TypeInv, QueueInv, NEW t \in Thread, NEW place, place \notin Waiting,
         pc' = [pc EXCEPT ![t] = place], pc[t] \notin Waiting \/ answer[t] # NoAnswer,
         UNCHANGED worker_request_queue,
         answer' = [answer EXCEPT ![t] = NoAnswer]
  PROVE  QueueInv'
<1>1. /\ pc' \in [Thread -> {"idle"} \cup InCall \cup InCommand \cup {place}]
      /\ pc'[t] = place /\ answer'[t] = NoAnswer
      /\ \A u \in Thread \ {t} : pc'[u] = pc[u] /\ answer'[u] = answer[u]
  BY DEF TypeInv, Types
<1>2. AnswersAwaited'
  BY <1>1 DEF QueueInv, AnswersAwaited
<1>3. CommandsWaited'
  BY <1>1, NothingAsked DEF QueueInv, CommandsWaited
<1> QED
  BY <1>2, <1>3 DEF QueueInv

(* A step that appends a request: a record, or a command to wait for. *)
LEMMA SendStep ==
  ASSUME TypeInv, QueueInv, NEW t \in Thread, NEW place, NEW r \in RequestRecord,
         pc' = [pc EXCEPT ![t] = place], pc[t] \notin Waiting,
         Send(t, r), UNCHANGED answer,
         r \in Asked => place \in Waiting,
         r = ClearRequest => place = "clear"
  PROVE  QueueInv'
<1> DEFINE queue == worker_request_queue[t]
           sent  == Append(queue, r)
<1>1. /\ pc'[t] = place /\ answer' = answer
      /\ \A u \in Thread \ {t} : pc'[u] = pc[u] /\ worker_request_queue'[u] = worker_request_queue[u]
      /\ worker_request_queue'[t] = sent
  BY DEF TypeInv, Types, Send
<1>2. queue \in Seq(RequestRecord)
  BY DEF TypeInv, Types
<1>3. /\ Len(queue) \in Nat /\ Len(sent) = Len(queue) + 1
      /\ \A i \in 1 .. Len(queue) : sent[i] = queue[i]
      /\ sent[Len(queue) + 1] = r
  BY <1>2, AppendProperties, LenProperties
<1>4. \A i \in 1 .. Len(queue) : queue[i] \notin Asked
  BY NothingAsked
<1>5. answer[t] = NoAnswer
  BY DEF QueueInv, AnswersAwaited
<1> HIDE DEF queue, sent
<1>6. \A i \in 1 .. Len(sent) : sent[i] \in Asked => i = Len(sent) /\ sent[i] = r
  BY <1>3, <1>4
<1>7. CommandsWaited'
  <2> SUFFICES ASSUME NEW u \in Thread, NEW i \in 1 .. Len(worker_request_queue'[u]),
                      worker_request_queue'[u][i] \in Asked
               PROVE  /\ i = Len(worker_request_queue'[u])
                      /\ answer'[u] = NoAnswer
                      /\ pc'[u] \in Waiting
                      /\ worker_request_queue'[u][i] = ClearRequest => pc'[u] = "clear"
    BY DEF CommandsWaited, Asked
  <2>1. CASE u = t
    BY <1>1, <1>5, <1>6, <2>1
  <2>2. CASE u # t
    BY <1>1, <2>2 DEF QueueInv, CommandsWaited
  <2> QED BY <2>1, <2>2
<1>8. AnswersAwaited'
  BY <1>1, <1>5 DEF QueueInv, AnswersAwaited
<1> QED
  BY <1>7, <1>8 DEF QueueInv

(* The worker answers the command it takes, and keeps the order of the rest. *)
LEMMA WorkerAnswers ==
  ASSUME TypeInv, QueueInv, NEW t \in Thread, WorkerHandles(t)
  PROVE  QueueInv'
<1> DEFINE queue == worker_request_queue[t]
           r     == Head(queue)
           rest  == Tail(queue)
<1>1. queue \in Seq(RequestRecord) /\ queue # <<>>
  BY DEF WorkerHandles, Ready, TypeInv, Types
<1>2. /\ Len(queue) \in Nat \ {0} /\ Len(rest) = Len(queue) - 1 /\ r = queue[1] /\ r \in RequestRecord
      /\ \A i \in 1 .. Len(rest) : rest[i] = queue[i + 1]
  BY <1>1, HeadTailProperties, EmptySeq
<1>3. /\ pc' = pc /\ (HandleRecord(r) \/ HandleCommand(t, r))
      /\ worker_request_queue' = [worker_request_queue EXCEPT ![t] = rest]
      /\ worker_request_queue \in [Thread -> Seq(RequestRecord)]
  BY DEF WorkerHandles, TypeInv, Types
<1>4. \A i \in 1 .. Len(queue) : queue[i] \in Asked =>
        /\ i = Len(queue) /\ answer[t] = NoAnswer /\ pc[t] \in Waiting
        /\ queue[i] = ClearRequest => pc[t] = "clear"
  BY DEF QueueInv, CommandsWaited
<1> HIDE DEF queue, r, rest
<1>5. CASE HandleRecord(r)
  <2>1. answer' = answer
    BY <1>5 DEF HandleRecord
  <2>2. \A i \in 1 .. Len(rest) : rest[i] = queue[i + 1] /\ i + 1 \in 1 .. Len(queue)
                                  /\ (i + 1 = Len(queue) => i = Len(rest))
    BY <1>2
  <2>3. \A i \in 1 .. Len(rest) : rest[i] \in Asked =>
          /\ i = Len(rest) /\ answer[t] = NoAnswer /\ pc[t] \in Waiting
          /\ rest[i] = ClearRequest => pc[t] = "clear"
    BY <1>4, <2>2
  <2>4. \A u \in Thread \ {t} : worker_request_queue'[u] = worker_request_queue[u]
    BY <1>3
  <2>5. worker_request_queue'[t] = rest
    BY <1>3
  <2> QED
    BY <1>3, <2>1, <2>3, <2>4, <2>5 DEF QueueInv, CommandsWaited, AnswersAwaited
<1>6. CASE HandleCommand(t, r)
  <2>1. r \in Asked
    BY <1>2, <1>6, RequestKinds DEF HandleCommand, Asked
  <2>2. Len(queue) = 1 /\ pc[t] \in Waiting
    <3>1. 1 \in 1 .. Len(queue)
      BY <1>2
    <3> QED BY <1>2, <1>4, <2>1, <3>1
  <2>3. Len(rest) = 0
    BY <1>2, <2>2
  <2>4. \A u \in Thread \ {t} : answer'[u] = answer[u] /\ worker_request_queue'[u] = worker_request_queue[u]
    <3>1. \E leaks, storage : Reply(t, leaks, storage)
      BY <1>6 DEF HandleCommand
    <3> QED
      BY <1>3, <3>1 DEF Reply, TypeInv, Types
  <2>5. worker_request_queue'[t] = rest /\ \A i \in 1 .. Len(rest) : FALSE
    BY <1>3, <2>3
  <2>6. CommandsWaited'
    BY <1>3, <2>4, <2>5 DEF QueueInv, CommandsWaited
  <2>7. AnswersAwaited'
    BY <1>3, <2>2, <2>4 DEF QueueInv, AnswersAwaited
  <2> QED
    BY <2>6, <2>7 DEF QueueInv
<1> QED
  BY <1>3, <1>5, <1>6

LEMMA QueueFrame ==
  ASSUME QueueInv, UNCHANGED <<pc, worker_request_queue, answer>>
  PROVE  QueueInv'
BY DEF QueueInv, CommandsWaited, AnswersAwaited

(* A thread that neither asks nor takes anything. *)
LEMMA IdleStep ==
  ASSUME TypeInv, QueueInv, NEW t \in Thread, NEW place, place \notin Waiting,
         pc' = [pc EXCEPT ![t] = place], pc[t] \notin Waiting,
         UNCHANGED <<worker_request_queue, answer>>
  PROVE  QueueInv'
<1>1. answer[t] = NoAnswer
  BY DEF QueueInv, AnswersAwaited
<1>2. answer' = [answer EXCEPT ![t] = NoAnswer]
  BY <1>1 DEF TypeInv, Types
<1> QED
  BY <1>2, QuietStep

LEMMA HeapCallAsksNothing ==
  ASSUME TypeInv, QueueInv, HookInv, NEW t \in Thread, HeapCall(t)
  PROVE  QueueInv'
<1>1. /\ pc[t] \notin Waiting
      /\ \E place \in {"idle"} \cup InCall : pc' = [pc EXCEPT ![t] = place]
  BY HeapCallControl DEF InCommand, Waiting
<1>2. PICK place \in {"idle"} \cup InCall : pc' = [pc EXCEPT ![t] = place]
  BY <1>1
<1>3. place \notin Waiting
  BY DEF InCall, Waiting
<1>4. CASE EnqueueRecord(t)
  <2>1. call[t] \in Call
    BY <1>4 DEF EnqueueRecord, TypeInv, InCallHasCall, InCall
  <2>2. RequestOf(call[t]) \in MallocRequest \cup ReallocRequest \cup FreeRequest
    BY <2>1, RequestType DEF TypeInv, Types
  <2>3. RequestOf(call[t]) \in RequestRecord \ Asked
    BY <2>2, RecordsAreNotCommands DEF RequestRecord
  <2>4. RequestOf(call[t]) # ClearRequest
    BY <2>3 DEF Asked
  <2>5. Send(t, RequestOf(call[t])) /\ UNCHANGED answer
    BY <1>4 DEF EnqueueRecord
  <2> HIDE DEF Waiting, Asked
  <2> QED
    BY <1>1, <1>2, <2>3, <2>4, <2>5, SendStep
<1>5. CASE UNCHANGED <<worker_request_queue, answer>>
  BY <1>1, <1>2, <1>3, <1>5, IdleStep
<1>6. EnqueueRecord(t) \/ UNCHANGED <<worker_request_queue, answer>>
  BY DEF HeapCall, BeginCall, LibcMalloc, LibcRealloc, LibcFree, Libc, CheckUnwatched,
         CheckWatched, CountKnownLeak
<1> QED
  BY <1>4, <1>5, <1>6

LEMMA CommandAsks ==
  ASSUME TypeInv, QueueInv, NEW t \in Thread,
         CallStart(t) \/ CallStop(t) \/ Ask(t) \/ Resume(t) \/ CommandStep(t)
  PROVE  QueueInv'
<1>1. CASE CallStart(t) \/ CallStop(t) \/ Resume(t)
  <2>1. /\ pc[t] = "idle" /\ UNCHANGED <<worker_request_queue, answer>>
        /\ \E place \in {"start", "stop", "libc"} : pc' = [pc EXCEPT ![t] = place]
    BY <1>1 DEF CallStart, CallStop, Resume, Issue, Enter, GoTo
  <2> QED
    BY <2>1, IdleStep DEF Waiting
<1>2. CASE Ask(t)
  <2>1. PICK r \in {SnapshotRequest, StatsRequest} : Send(t, r)
    BY <1>2 DEF Ask
  <2>2. pc[t] = "idle" /\ pc' = [pc EXCEPT ![t] = "ask"] /\ UNCHANGED answer
    BY <1>2 DEF Ask, Issue, GoTo
  <2>3. r \in RequestRecord /\ r # ClearRequest
    BY <2>1, CommandRequests, ClearIsNone
  <2> QED
    BY <2>1, <2>2, <2>3, SendStep DEF Waiting
<1>3. CASE StartLock(t)
  <2>1. pc[t] = "start" /\ UNCHANGED answer
    BY <1>3 DEF StartLock
  <2>2. CASE AlreadyWatching
    BY <1>3, <2>1, <2>2, IdleStep DEF StartLock, GoTo, Waiting
  <2>3. CASE ~AlreadyWatching
    <3>1. Send(t, ClearRequest) /\ pc' = [pc EXCEPT ![t] = "clear"] /\ ClearRequest \in RequestRecord
      BY <1>3, <2>3, CommandRequests DEF StartLock, GoTo
    <3> QED
      BY <2>1, <3>1, SendStep DEF Waiting
  <2> QED BY <2>2, <2>3
<1>4. CASE StopAsk(t)
  <2>1. /\ pc[t] = "uninstall" /\ pc' = [pc EXCEPT ![t] = "drain"] /\ UNCHANGED answer
        /\ Send(t, SnapshotRequest) /\ SnapshotRequest \in RequestRecord /\ SnapshotRequest # ClearRequest
    BY <1>4, CommandRequests, ClearIsNone DEF StopAsk, GoTo
  <2> QED
    BY <2>1, SendStep DEF Waiting
<1>5. CASE StartCleared(t) \/ StopReturn(t) \/ AskReturn(t)
  <2>1. /\ answer[t] # NoAnswer /\ UNCHANGED worker_request_queue
        /\ answer' = [answer EXCEPT ![t] = NoAnswer]
        /\ \E place \in {"install", "idle"} : pc' = [pc EXCEPT ![t] = place]
    BY <1>5 DEF StartCleared, StopReturn, AskReturn, TakeAnswer, GoTo
  <2> QED
    BY <2>1, QuietStep DEF Waiting
<1>6. CASE StartStoreHook(t) \/ StopStoreHook(t)
  BY <1>6, QueueFrame DEF StartStoreHook, StopStoreHook
<1>7. CASE StartWatching(t) \/ StopLock(t)
  <2>1. /\ pc[t] \in {"install", "stop"} /\ UNCHANGED <<worker_request_queue, answer>>
        /\ \E place \in {"idle", "uninstall"} : pc' = [pc EXCEPT ![t] = place]
    BY <1>7 DEF StartWatching, StopLock, GoTo
  <2> QED
    BY <2>1, IdleStep DEF Waiting
<1> QED
  BY <1>1, <1>2, <1>3, <1>4, <1>5, <1>6, <1>7 DEF CommandStep

(* Nobody waits at first. *)
LEMMA QueueInit == Init => QueueInv
<1> SUFFICES ASSUME Init PROVE QueueInv
  OBVIOUS
<1>1. \A t \in Thread : answer[t] = NoAnswer /\ Len(worker_request_queue[t]) = 0
  BY EmptySeq DEF Init, InitWith
<1> QED
  BY <1>1 DEF QueueInv, CommandsWaited, AnswersAwaited

(* Every step keeps the commands waited for. *)
LEMMA QueueNext ==
  ASSUME TypeInv, HookInv, QueueInv, [Next]_vars
  PROVE  QueueInv'
<1>1. ASSUME NEW t \in Thread, Pause(t)
      PROVE  QueueInv'
  BY <1>1, QueueFrame DEF Pause
<1>2. CASE UNCHANGED vars
  BY <1>2, QueueFrame DEF vars
<1> QED
  BY <1>1, <1>2, HeapCallAsksNothing, CommandAsks, WorkerAnswers DEF Next, ThreadStep, Worker

(***************************************************************************)
(* Commands exclude each other: only one thread is between a lock of       *)
(* command_mutex_ and its unlock, and a CLEAR waits in the queue only      *)
(* while its thread holds the mutex and nothing is watched, so no record   *)
(* of an open session is ever dropped.                                     *)
(***************************************************************************)
THEOREM CommandsExcludeAlways == Spec => []CommandsExclude
<1>1. Init => QueueInv
  BY QueueInit
<1>2. TypeInv /\ HookInv /\ QueueInv /\ [Next]_vars => QueueInv'
  BY QueueNext
<1>3. TypeInv /\ HookInv /\ QueueInv => CommandsExclude
  <2> SUFFICES ASSUME TypeInv, HookInv, QueueInv, NEW t \in Thread
               PROVE  /\ pc[t] \in InMutex <=> command_mutex = t
                      /\ ClearRequest \in QueueRange(t) => pc[t] = "clear" /\ ~watching_globally
    BY DEF CommandsExclude
  <2>1. pc[t] \in InMutex <=> command_mutex = t
    BY DEF HookInv, MutexHeld
  <2>2. ASSUME ClearRequest \in QueueRange(t)
        PROVE  pc[t] = "clear"
    <3>1. worker_request_queue[t] \in Seq(RequestRecord)
      BY DEF TypeInv, Types
    <3>2. PICK i \in 1 .. Len(worker_request_queue[t]) : worker_request_queue[t][i] = ClearRequest
      BY <2>2, <3>1, LenProperties DEF QueueRange
    <3> QED
      BY <3>2 DEF QueueInv, CommandsWaited, Asked
  <2>3. pc[t] = "clear" => ~watching_globally
    BY DEF HookInv, FlagMatchesHooks
  <2> QED
    BY <2>1, <2>2, <2>3
<1> QED
  BY <1>1, <1>2, <1>3, ControlHolds, TypeInvHolds, PTL DEF Spec
=============================================================================
