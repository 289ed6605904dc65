---------------------------- MODULE HeapWatcher -----------------------------
(***************************************************************************)
(* The watcher between the application and the C library: threads that     *)
(* call malloc, calloc, realloc and free through the hook table, the       *)
(* commands that open and close a watching session, and the worker that    *)
(* takes the records from the queue and keeps the ledger of WorkerLedger.  *)
(*                                                                         *)
(* A call to a heap function takes up to four steps, at each of which      *)
(* other threads may run: load the hook, call the C library, test whether  *)
(* this thread is watched, enqueue the record.  Between the test and the   *)
(* enqueue the code clears watching_thread_ and sets it again; no other    *)
(* thread reads that flag, so the two assignments cancel out here.         *)
(*                                                                         *)
(* The C library's heap and the queue are external.  The heap is the set   *)
(* of live addresses; a freed address may be handed out again at once.     *)
(* The queue keeps the records of one thread in order and promises nothing *)
(* about the order of records of different threads.  The worker takes up   *)
(* to 20 requests at a time; they are handled one by one and nobody sees   *)
(* the batch, so a step takes one.                                         *)
(***************************************************************************)
EXTENDS WorkerLedger, Sequences

CONSTANTS
  Thread,        \* application threads
  Commander,     \* those that issue commands
  Calls,         \* the heap functions the application uses in this instance
  Commands,      \* the commands it uses
  CallSize,      \* sizes it asks for
  Frame,         \* return addresses on its stacks
  Site,          \* stack traces its allocations are made with, innermost frame first
  InitialLeaks,  \* the known leaks when this instance begins
  HeapMayFail,   \* whether an allocation can fail when every address is live
  MaxCalls,      \* bound on the calls to heap functions
  MaxCommands,   \* bound on the commands
  NoThread,      \* command_mutex_ is free
  NoAnswer,      \* the promise has no value yet
  NoCall         \* the thread is not inside a heap function

Acquiring    == {"malloc", "calloc"}
StoreOrder   == <<"malloc", "calloc", "realloc", "free">>
HeapFunction == {StoreOrder[i] : i \in DOMAIN StoreOrder}
Hook         == {"libc", "multi", "single"}
Command      == {"start", "stop", "snapshot", "stats", "pause", "capture"}

(* LeakAddressAndOffset: a frame and its distance from the innermost one. *)
Leak == [address : Frame, offset : Nat]

ASSUME WatcherAssumption ==
  /\ Commander \subseteq Thread
  /\ NoThread \notin Thread
  /\ Calls \subseteq HeapFunction
  /\ Commands \subseteq Command
  /\ CallSize \subseteq Size
  /\ Site \subseteq Seq(Frame)
  /\ InitialLeaks \in Seq(Leak)
  /\ HeapMayFail \in BOOLEAN
  /\ MaxCalls \in Nat
  /\ MaxCommands \in Nat

VARIABLES
  hooks,                  \* malloc_function_, calloc_function_, ... by name
  watching_globally,
  watching_thread,        \* thread local
  command_mutex,
  worker_request_queue,   \* one queue per enqueuing thread
  g_txn_id,               \* only ever stored truncated, so kept truncated
  known_leaks,
  number_of_known_leaks,
  pc,                     \* where a thread is; see the type invariant
  call,                   \* the heap function call a thread is in
  guards,                 \* a thread's PauseThreadWatchGuards, newest last
  answer,                 \* the value of the promise a thread waits for
  heap,                   \* external: live addresses
  held,                   \* live blocks the application may still pass on
  calls_made, commands_made

(***************************************************************************)
(* History variables, for properties only.                                 *)
(***************************************************************************)
VARIABLES
  watched,    \* live blocks whose acquisition was enqueued since the CLEAR
  released,   \* addresses the C library took back since the CLEAR
  doubtful,   \* addresses with a record left over from before the CLEAR, or
              \* released without a record since
  backlog     \* records of each thread that were queued before the SNAPSHOT
              \* of stop_watching and are still queued

hook_vars    == <<hooks, watching_globally, command_mutex>>
leak_vars    == <<known_leaks, number_of_known_leaks>>
heap_vars    == <<heap, held>>
bound_vars   == <<calls_made, commands_made>>
history_vars == <<watched, released, doubtful, backlog>>
vars == <<ledger_vars, hook_vars, leak_vars, heap_vars, bound_vars, history_vars,
          watching_thread, worker_request_queue, g_txn_id, pc, call, guards, answer>>

Call == [fn : HeapFunction, hook : Hook, site : Site \cup {NoCall}, arg : Pointer,
         size : Size, result : Pointer, seen : Nat]

Answer == [leaks : SUBSET Pointer, storage : Pointer, number_of_mallocs : Nat,
           number_of_reallocs : Nat, number_of_frees : Nat, number_of_known_leaks : Nat,
           bytes_allocated : Word, bytes_freed : Word]

InCall    == {"libc", "check", "count", "enqueue"}
InCommand == {"start", "clear", "install", "stop", "uninstall", "drain", "ask",
              "capture", "leak"}   \* the last two are reached in KnownLeaks only
(* Holding command_mutex_. *)
InMutex   == {"clear", "install", "uninstall", "drain"}

Types ==
  /\ LedgerTypeOK
  /\ hooks \in [HeapFunction -> Hook]
  /\ watching_globally \in BOOLEAN
  /\ watching_thread \in [Thread -> BOOLEAN]
  /\ command_mutex \in Thread \cup {NoThread}
  /\ worker_request_queue \in [Thread -> Seq(RequestRecord)]
  /\ g_txn_id \in TxnId
  /\ known_leaks \in Seq(Leak)
  /\ number_of_known_leaks \in Nat
  /\ pc \in [Thread -> {"idle"} \cup InCall \cup InCommand]
  /\ call \in [Thread -> Call \cup {NoCall}]
  /\ guards \in [Thread -> Seq([token : Pointer, saved : BOOLEAN])]
  /\ answer \in [Thread -> Answer \cup {NoAnswer}]
  /\ heap \subseteq Addr
  /\ held \subseteq Addr
  /\ calls_made \in 0 .. MaxCalls
  /\ commands_made \in 0 .. MaxCommands
  /\ watched \subseteq Addr
  /\ released \subseteq Addr
  /\ doubtful \subseteq Addr
  /\ backlog \in [Thread -> Nat]

(* ... and the application passes on only live blocks. *)
TypeOK == Types /\ held \subseteq heap

InitWith(leaks) ==
  /\ LedgerInit
  /\ hooks = [f \in HeapFunction |-> "libc"]
  /\ watching_globally = FALSE
  /\ watching_thread = [t \in Thread |-> TRUE]
  /\ command_mutex = NoThread
  /\ worker_request_queue = [t \in Thread |-> <<>>]
  /\ g_txn_id = 1 % TxnModulus
  /\ known_leaks = leaks
  /\ number_of_known_leaks = 0
  /\ pc = [t \in Thread |-> "idle"]
  /\ call = [t \in Thread |-> NoCall]
  /\ guards = [t \in Thread |-> <<>>]
  /\ answer = [t \in Thread |-> NoAnswer]
  /\ heap = {}
  /\ held = {}
  /\ calls_made = 0
  /\ commands_made = 0
  /\ watched = {}
  /\ released = {}
  /\ doubtful = {}
  /\ backlog = [t \in Thread |-> 0]

Init == InitWith(InitialLeaks)

-----------------------------------------------------------------------------
(***************************************************************************)
(* The overrides of malloc, calloc, realloc and free: load the hook and    *)
(* call it.  free and realloc take a block the application holds, or NULL. *)
(***************************************************************************)
GoTo(t, place) == pc' = [pc EXCEPT ![t] = place]

Enter(t, fn, site, arg, size) ==
  /\ GoTo(t, "libc")
  /\ call' = [call EXCEPT ![t] = [fn |-> fn, hook |-> hooks[fn], site |-> site, arg |-> arg,
                                  size |-> size, result |-> Null, seen |-> 0]]

BeginCall(t) ==
  /\ pc[t] = "idle"
  /\ calls_made < MaxCalls
  /\ calls_made' = calls_made + 1
  /\ \/ \E fn \in Calls \cap Acquiring, site \in Site, size \in CallSize :
          Enter(t, fn, site, Null, size) /\ UNCHANGED held
     \/ \E arg \in held \cup {Null}, size \in CallSize :
          "realloc" \in Calls /\ Enter(t, "realloc", NoCall, arg, size) /\ held' = held \ {arg}
     \/ \E arg \in held \cup {Null} :
          "free" \in Calls /\ Enter(t, "free", NoCall, arg, 0) /\ held' = held \ {arg}
  /\ UNCHANGED <<ledger_vars, hook_vars, heap, commands_made, history_vars, watching_thread,
                 worker_request_queue, g_txn_id, leak_vars, guards, answer>>

(* External: addresses an allocation may return. *)
Fresh == IF heap = Addr THEN (IF HeapMayFail THEN {Null} ELSE {}) ELSE Addr \ heap

(* The blocks the application holds once call c has returned. *)
Given(c) ==
  CASE c.fn # "free" /\ c.result # Null                -> {c.result}
    [] c.fn = "realloc" /\ c.result = Null /\ c.size > 0 -> {c.arg} \ {Null}   \* it failed
    [] OTHER                                             -> {}

Return(t, c) ==
  /\ GoTo(t, "idle")
  /\ call' = [call EXCEPT ![t] = NoCall]
  /\ held' = held \cup Given(c)

(* The address that call c took from the application, if it released it. *)
ReleasedBy(c) ==
  IF c.fn = "free" \/ (c.fn = "realloc" /\ c.result # c.arg /\ (c.result # Null \/ c.size = 0))
    THEN {c.arg} \ {Null} ELSE {}

(* The heap function returns without leaving a record. *)
ReturnUnrecorded(t, c) ==
  /\ Return(t, c)
  /\ doubtful' = doubtful \cup ReleasedBy(c)

(***************************************************************************)
(* __libc_malloc and its siblings, and what follows them: the C library's  *)
(* own function returns to the application, an instrumented one goes on.   *)
(***************************************************************************)
Libc(t, c) ==
  /\ heap' = (heap \ ReleasedBy(c)) \cup ({c.result} \ {Null})
  /\ released' = released \cup ReleasedBy(c)
  /\ watched' = watched \ ReleasedBy(c)
  /\ IF c.hook = "libc"
       THEN ReturnUnrecorded(t, c)
       ELSE GoTo(t, "check") /\ call' = [call EXCEPT ![t] = c] /\ UNCHANGED <<held, doubtful>>
  /\ UNCHANGED <<ledger_vars, hook_vars, bound_vars, backlog, watching_thread,
                 worker_request_queue, g_txn_id, leak_vars, guards, answer>>

LibcMalloc(t) ==
  /\ pc[t] = "libc"
  /\ call[t].fn \in Acquiring
  /\ \E a \in Fresh : Libc(t, [call[t] EXCEPT !.result = a])

(* In place, moved, failed, and the realloc to size 0 that frees. *)
LibcRealloc(t) ==
  /\ pc[t] = "libc"
  /\ call[t].fn = "realloc"
  /\ \E a \in CASE call[t].arg = Null -> Fresh
                [] call[t].arg # Null /\ call[t].size = 0 -> {Null}
                [] call[t].arg # Null /\ call[t].size # 0 -> {call[t].arg} \cup Fresh :
       Libc(t, [call[t] EXCEPT !.result = a])

LibcFree(t) ==
  /\ pc[t] = "libc"
  /\ call[t].fn = "free"
  /\ Libc(t, call[t])

(* is_watching_this_thread, read once per call after the C library. *)
WatchingThisThread(t) == watching_globally /\ watching_thread[t]

(***************************************************************************)
(* is_known_leak: at the offset of one of the known leaks, the trace has   *)
(* the address of any of them, be it the same or another.                  *)
(***************************************************************************)
IsKnownLeak(leaks, trace) ==
  \E i, j \in DOMAIN leaks :
    leaks[i].offset < Len(trace) /\ trace[leaks[i].offset + 1] = leaks[j].address

(* Only malloc and calloc look at the stack trace. *)
IgnoresCall(c) == c.fn \in Acquiring /\ IsKnownLeak(known_leaks, c.site)

CheckUnwatched(t) ==
  /\ pc[t] = "check"
  /\ call[t].hook = "multi"
  /\ ~WatchingThisThread(t)
  /\ ReturnUnrecorded(t, call[t])
  /\ UNCHANGED <<ledger_vars, hook_vars, heap, bound_vars, watched, released, backlog,
                 watching_thread, worker_request_queue, g_txn_id, leak_vars,
                 guards, answer>>

(***************************************************************************)
(* A known leak leaves no record and adds one to number_of_known_leaks_,   *)
(* a plain counter that any thread may write: a load and a store.          *)
(***************************************************************************)
CheckWatched(t) ==
  /\ pc[t] = "check"
  /\ call[t].hook = "multi"
  /\ WatchingThisThread(t)
  /\ GoTo(t, IF IgnoresCall(call[t]) THEN "count" ELSE "enqueue")
  /\ call' = [call EXCEPT ![t].seen = IF IgnoresCall(call[t]) THEN number_of_known_leaks ELSE 0]
  /\ UNCHANGED <<ledger_vars, hook_vars, heap_vars, bound_vars, history_vars, watching_thread,
                 worker_request_queue, g_txn_id, leak_vars, guards, answer>>

CountKnownLeak(t) ==
  /\ pc[t] = "count"
  /\ number_of_known_leaks' = call[t].seen + 1
  /\ ReturnUnrecorded(t, call[t])
  /\ UNCHANGED <<ledger_vars, hook_vars, heap, bound_vars, watched, released, backlog,
                 watching_thread, worker_request_queue, g_txn_id, known_leaks, guards, answer>>

(* The records of WorkerRequest's factory methods. *)
RequestOf(c) ==
  CASE c.fn \in Acquiring  -> [op |-> "MALLOC", address |-> c.result, size |-> c.size,
                               txn_id |-> g_txn_id]
    [] c.fn = "realloc"    -> [op |-> "REALLOC", original |-> c.arg, new |-> c.result,
                               size |-> c.size]
    [] c.fn = "free"       -> [op |-> "FREE", block |-> c.arg]

Send(t, request) ==
  worker_request_queue' = [worker_request_queue EXCEPT ![t] = Append(@, request)]

EnqueueRecord(t) ==
  /\ pc[t] = "enqueue"
  /\ Send(t, RequestOf(call[t]))
  /\ g_txn_id' = IF call[t].fn \in Acquiring THEN (g_txn_id + 1) % TxnModulus ELSE g_txn_id
  /\ watched' = watched \cup ({call[t].result} \ {Null})
  /\ Return(t, call[t])
  /\ UNCHANGED <<ledger_vars, hook_vars, heap, bound_vars, released, doubtful, backlog,
                 watching_thread, leak_vars, guards, answer>>

HeapCall(t) ==
  \/ BeginCall(t)
  \/ LibcMalloc(t) \/ LibcRealloc(t) \/ LibcFree(t)
  \/ CheckUnwatched(t) \/ CheckWatched(t)
  \/ CountKnownLeak(t) \/ EnqueueRecord(t)

-----------------------------------------------------------------------------
(***************************************************************************)
(* pause_watching_this_thread clears the flag and then allocates the token *)
(* that remembers it; the guard's destructor restores the flag and then    *)
(* frees the token, through the hook.  Null stands for a token at some     *)
(* other address.                                                          *)
(***************************************************************************)
Issue(t, command) ==
  /\ t \in Commander
  /\ command \in Commands
  /\ pc[t] = "idle"
  /\ commands_made < MaxCommands
  /\ commands_made' = commands_made + 1

Pause(t) ==
  /\ Issue(t, "pause")
  /\ watching_thread' = [watching_thread EXCEPT ![t] = FALSE]
  /\ \E token \in (Addr \ heap) \cup {Null} :
       /\ guards' = [guards EXCEPT ![t] = Append(@, [token |-> token, saved |-> watching_thread[t]])]
       /\ heap' = heap \cup ({token} \ {Null})
  /\ UNCHANGED <<ledger_vars, hook_vars, held, calls_made, history_vars, worker_request_queue,
                 g_txn_id, leak_vars, pc, call, answer>>

(* Seeded bug: the end of any pause, nested or not, resumes watching. *)
RestoredTrue(guard) == TRUE

(* The value a guard's destructor gives back to watching_thread_. *)
Restored(guard) == guard.saved

Resume(t) ==
  /\ pc[t] = "idle"
  /\ guards[t] # <<>>
  /\ LET guard == guards[t][Len(guards[t])]
     IN  /\ watching_thread' = [watching_thread EXCEPT ![t] = Restored(guard)]
         /\ Enter(t, "free", NoCall, guard.token, 0)
  /\ guards' = [guards EXCEPT ![t] = SubSeq(@, 1, Len(@) - 1)]
  /\ UNCHANGED <<ledger_vars, hook_vars, heap_vars, bound_vars, history_vars,
                 worker_request_queue, g_txn_id, leak_vars, answer>>

-----------------------------------------------------------------------------
(***************************************************************************)
(* The four function pointers are stored one at a time, in this order.     *)
(***************************************************************************)
Stored(target) == \A f \in HeapFunction : hooks[f] = target

StoreHook(target) ==
  \E i \in DOMAIN StoreOrder :
    /\ hooks[StoreOrder[i]] # target
    /\ \A j \in 1 .. i - 1 : hooks[StoreOrder[j]] = target
    /\ hooks' = [hooks EXCEPT ![StoreOrder[i]] = target]

unchanged_by_commands == <<heap, g_txn_id, leak_vars, call, guards,
                           watching_thread, calls_made, watched, released, doubtful>>

(* Seeded bug: the mutex stays locked. *)
UnlockForgotten == UNCHANGED command_mutex

Unlock == command_mutex' = NoThread

(* Seeded bug: a command does not look whether a session is open. *)
AlreadyWatchingIgnored == FALSE

AlreadyWatching == watching_globally

CallStart(t) ==
  /\ Issue(t, "start")
  /\ GoTo(t, "start")
  /\ UNCHANGED <<ledger_vars, hook_vars, unchanged_by_commands, held, backlog,
                 worker_request_queue, answer>>

(* Takes the mutex; returns at once when already watching. *)
StartLock(t) ==
  /\ pc[t] = "start"
  /\ command_mutex = NoThread
  /\ IF AlreadyWatching
       THEN GoTo(t, "idle") /\ UNCHANGED <<command_mutex, worker_request_queue>>
       ELSE GoTo(t, "clear") /\ command_mutex' = t /\ Send(t, ClearRequest)
  /\ UNCHANGED <<ledger_vars, hooks, watching_globally, unchanged_by_commands, held, backlog,
                 commands_made, answer>>

StartCleared(t) ==
  /\ pc[t] = "clear"
  /\ answer[t] # NoAnswer
  /\ answer' = [answer EXCEPT ![t] = NoAnswer]
  /\ GoTo(t, "install")
  /\ UNCHANGED <<ledger_vars, hook_vars, unchanged_by_commands, held, backlog,
                 commands_made, worker_request_queue>>

StartStoreHook(t) ==
  /\ pc[t] = "install"
  /\ StoreHook("multi")
  /\ UNCHANGED <<ledger_vars, watching_globally, command_mutex, unchanged_by_commands, held,
                 backlog, commands_made, worker_request_queue, answer, pc>>

(* Seeded bug: the flag goes up before all the hooks are in. *)
InstalledEarly(target) == TRUE

Installed(target) == Stored(target)

StartWatching(t) ==
  /\ pc[t] = "install"
  /\ Installed("multi")
  /\ watching_globally' = TRUE
  /\ Unlock
  /\ GoTo(t, "idle")
  /\ UNCHANGED <<ledger_vars, hooks, unchanged_by_commands, held, backlog,
                 commands_made, worker_request_queue, answer>>

CallStop(t) ==
  /\ Issue(t, "stop")
  /\ GoTo(t, "stop")
  /\ UNCHANGED <<ledger_vars, hook_vars, unchanged_by_commands, held, backlog,
                 worker_request_queue, answer>>

(* Seeded bug: the hooks come out while the flag is still up. *)
LowerFlagForgotten == UNCHANGED watching_globally

LowerFlag == watching_globally' = FALSE

StopLock(t) ==
  /\ pc[t] = "stop"
  /\ command_mutex = NoThread
  /\ command_mutex' = t
  /\ LowerFlag
  /\ GoTo(t, "uninstall")
  /\ UNCHANGED <<ledger_vars, hooks, unchanged_by_commands, held, backlog,
                 commands_made, worker_request_queue, answer>>

StopStoreHook(t) ==
  /\ pc[t] = "uninstall"
  /\ StoreHook("libc")
  /\ UNCHANGED <<ledger_vars, watching_globally, command_mutex, unchanged_by_commands, held,
                 backlog, commands_made, worker_request_queue, answer, pc>>

StopAsk(t) ==
  /\ pc[t] = "uninstall"
  /\ Stored("libc")
  /\ Send(t, SnapshotRequest)
  /\ backlog' = [u \in Thread |-> Len(worker_request_queue[u])]
  /\ GoTo(t, "drain")
  /\ UNCHANGED <<ledger_vars, hook_vars, unchanged_by_commands, held, commands_made, answer>>

(* The storage of the snapshot passes to the caller. *)
TakeAnswer(t) ==
  /\ answer[t] # NoAnswer
  /\ held' = held \cup ({answer[t].storage} \ {Null})
  /\ answer' = [answer EXCEPT ![t] = NoAnswer]
  /\ GoTo(t, "idle")

StopReturn(t) ==
  /\ pc[t] = "drain"
  /\ TakeAnswer(t)
  /\ Unlock
  /\ backlog' = [u \in Thread |-> 0]
  /\ UNCHANGED <<ledger_vars, hooks, watching_globally, unchanged_by_commands,
                 commands_made, worker_request_queue>>

(***************************************************************************)
(* snapshot and high_level_stats take no mutex.  They pause their thread   *)
(* with a token on the stack while they wait.                              *)
(***************************************************************************)
Ask(t) ==
  /\ \/ Issue(t, "snapshot") /\ Send(t, SnapshotRequest)
     \/ Issue(t, "stats") /\ Send(t, StatsRequest)
  /\ GoTo(t, "ask")
  /\ UNCHANGED <<ledger_vars, hook_vars, unchanged_by_commands, held, backlog, answer>>

AskReturn(t) ==
  /\ pc[t] = "ask"
  /\ TakeAnswer(t)
  /\ UNCHANGED <<ledger_vars, hook_vars, unchanged_by_commands, backlog, commands_made,
                 worker_request_queue>>

CommandStep(t) ==
  \/ StartLock(t) \/ StartCleared(t) \/ StartStoreHook(t) \/ StartWatching(t)
  \/ StopLock(t) \/ StopStoreHook(t) \/ StopAsk(t) \/ StopReturn(t)
  \/ AskReturn(t)

-----------------------------------------------------------------------------
(***************************************************************************)
(* worker_main.                                                            *)
(***************************************************************************)
(* The addresses record r speaks of. *)
Mentioned(r) ==
  CASE r.op = "MALLOC"  -> {r.address}
    [] r.op = "REALLOC" -> {r.original, r.new}
    [] r.op = "FREE"    -> {r.block}
    [] OTHER            -> {}

QueueRange(t) == {worker_request_queue[t][i] : i \in DOMAIN worker_request_queue[t]}
Pending       == UNION {QueueRange(t) : t \in Thread}

(* Calls that may still leave a record of what the C library did for them. *)
InFlight == {call[t] : t \in {u \in Thread : pc[u] \in {"check", "enqueue"}}}

LeftOver == Addr \cap ((UNION {Mentioned(r) : r \in Pending})
                         \cup (UNION {{c.arg, c.result} : c \in InFlight}))

(* Sets the value of t's promise.  A CLEAR's promise is void and that of   *)
(* the statistics has no leaks: their waiters do not read the rest.        *)
Reply(t, leaks, storage) ==
  answer' = [answer EXCEPT ![t] =
    [leaks |-> leaks, storage |-> storage, number_of_mallocs |-> number_of_mallocs',
     number_of_reallocs |-> number_of_reallocs', number_of_frees |-> number_of_frees',
     number_of_known_leaks |-> number_of_known_leaks, bytes_allocated |-> bytes_allocated',
     bytes_freed |-> bytes_freed']]

HandleRecord(r) ==
  /\ \/ r.op = "MALLOC" /\ HandleMalloc(r)
     \/ r.op = "REALLOC" /\ HandleRealloc(r)
     \/ r.op = "FREE" /\ HandleFree(r)
  /\ UNCHANGED <<answer, heap, watched, released, doubtful>>

HandleCommand(t, r) ==
  \/ /\ r.op = "CLEAR"
     /\ HandleClear
     /\ Reply(t, {}, Null)
     /\ watched' = {} /\ released' = {} /\ doubtful' = LeftOver
     /\ UNCHANGED heap
  \/ /\ r.op = "SNAPSHOT"
     /\ HandleSnapshot
     /\ \E storage \in (Addr \ heap) \cup {Null} :
          Reply(t, Open', storage) /\ heap' = heap \cup ({storage} \ {Null})
     /\ UNCHANGED <<watched, released, doubtful>>
  \/ /\ r.op = "STATS"
     /\ HandleStats
     /\ Reply(t, {}, Null)
     /\ UNCHANGED <<heap, watched, released, doubtful>>

(* Seeded bug: the worker waits until there is more than one request. *)
ReadyBatch(t) == Len(worker_request_queue[t]) > 1

Ready(t) == worker_request_queue[t] # <<>>

WorkerHandles(t) ==
  /\ Ready(t)
  /\ LET r == Head(worker_request_queue[t])
     IN  HandleRecord(r) \/ HandleCommand(t, r)
  /\ worker_request_queue' = [worker_request_queue EXCEPT ![t] = Tail(@)]
  /\ backlog' = [backlog EXCEPT ![t] = IF @ = 0 THEN 0 ELSE @ - 1]
  /\ UNCHANGED <<hook_vars, leak_vars, held, bound_vars, watching_thread, g_txn_id,
                 pc, call, guards>>

Worker == \E t \in Thread : WorkerHandles(t)

-----------------------------------------------------------------------------
ThreadStep(t) ==
  HeapCall(t) \/ Pause(t) \/ Resume(t) \/ CallStart(t) \/ CallStop(t) \/ Ask(t) \/ CommandStep(t)

Next == (\E t \in Thread : ThreadStep(t)) \/ Worker

Spec == Init /\ [][Next]_vars

(* What a thread inside a heap function or a command does next. *)
Progress(t) == (HeapCall(t) /\ pc[t] \in InCall) \/ CommandStep(t)

-----------------------------------------------------------------------------
(***************************************************************************)
(* The mode of WatchModes, by the flag while command_mutex_ is free and    *)
(* else by the place of the thread that holds it (a place that is none of  *)
(* these belongs to a capture, see KnownLeaks).                            *)
(***************************************************************************)
Reach == {hooks[f] : f \in HeapFunction}

Mode ==
  CASE command_mutex = NoThread -> (CASE ~watching_globally                         -> "quiet"
                                      [] watching_globally /\ "single" \notin Reach -> "watching"
                                      [] OTHER                                      -> "abandoned")
    [] command_mutex # NoThread -> (CASE pc[command_mutex] \in {"clear", "install"}   -> "opening"
                                      [] pc[command_mutex] \in {"uninstall", "drain"} -> "closing"
                                      [] OTHER -> "capturing")

Modes == INSTANCE WatchModes WITH mode <- Mode, reach <- Reach

(***************************************************************************)
(* The commands of any number of threads, however they interleave, take    *)
(* watching through the modes of WatchModes: the mutex, the flag and the   *)
(* four stores together do what each of them does not.                     *)
(***************************************************************************)
RefinesModes == Modes!ModeSpec

(* A release of address a that the worker has yet to hear of. *)
ReleaseUnderway(a) ==
  \/ \E r \in Pending : \/ r.op = "FREE" /\ r.block = a
                        \/ r.op = "REALLOC" /\ r.original = a
  \/ \E c \in InFlight : a \in ReleasedBy(c)

(* An acquisition of address a that the worker has yet to hear of. *)
AcquisitionQueued(a) ==
  \E r \in Pending : \/ r.op = "MALLOC" /\ r.address = a
                     \/ r.op = "REALLOC" /\ r.new = a

(***************************************************************************)
(* No false leak.  An address the ledger would report is live, or its      *)
(* release is on its way to the worker; except an address released while   *)
(* its thread was not watched, one with records left over from before the  *)
(* session, and the original of a realloc that overtook the record of its  *)
(* block (worker_main, GET_ALLOCATION_SNAPSHOT's reconciliation).          *)
(*                                                                         *)
(* NULL is no block, so whatever is reported there is a false leak.  The   *)
(* code does report it: instrumented_realloc records the result of a       *)
(* realloc to size 0, and any of the three that of an allocation that      *)
(* failed.  Unless one failed, what is reported at NULL has no bytes.      *)
(***************************************************************************)
NoFalseLeak ==
  /\ \A a \in (Reported \ {Null}) \ (doubtful \cup orphan_reallocs) :
       a \in heap \/ ReleaseUnderway(a)
  /\ Null \in Reported => allocations[Null].size = 0 \/ HeapMayFail

(***************************************************************************)
(* No lost leak at a fresh address.  A live block whose acquisition was    *)
(* enqueued in this session is reported as soon as the worker has handled  *)
(* the record, in whatever order it handles the records of the threads,    *)
(* unless the address was released earlier in the session or has records   *)
(* left over from before it.                                               *)
(***************************************************************************)
FreshBlocksReported ==
  \A a \in watched \ (released \cup doubtful) : a \in Reported \/ AcquisitionQueued(a)

(***************************************************************************)
(* The order of the stores in set_multithreaded_instrumentation and        *)
(* remove_instrumentation: while the flag is up every heap function is     *)
(* instrumented, so no release can bypass the record of its acquisition.   *)
(***************************************************************************)
FlagImpliesHooks == watching_globally => Stored("multi")

(***************************************************************************)
(* The inductive invariant.  FlagImpliesHooks alone is not inductive: a    *)
(* stop could be taking the hooks out while a start raises the flag.  That *)
(* the two exclude each other, because the thread the mutex names is the   *)
(* one between a lock and its unlock, is the first strengthening; what the *)
(* flag and the hook table are at each place of that thread is the second. *)
(***************************************************************************)
Place == {"idle"} \cup InCall \cup InCommand

ControlType ==
  /\ pc \in [Thread -> Place]
  /\ hooks \in [HeapFunction -> Hook]
  /\ watching_globally \in BOOLEAN
  /\ command_mutex \in Thread \cup {NoThread}

MutexHeld == \A t \in Thread : pc[t] \in InMutex <=> command_mutex = t

Between(target) == \A f \in HeapFunction : hooks[f] \in {"libc", target}

FlagMatchesHooks ==
  /\ command_mutex = NoThread => Stored(IF watching_globally THEN "multi" ELSE "libc")
  /\ \A t \in Thread : pc[t] \in {"clear", "drain"} => ~watching_globally /\ Stored("libc")
  /\ \A t \in Thread : pc[t] \in {"install", "uninstall"} => ~watching_globally /\ Between("multi")

HookInv == ControlType /\ MutexHeld /\ FlagMatchesHooks

(***************************************************************************)
(* command_mutex_ covers all of start_watching and stop_watching: one      *)
(* thread at a time is inside either, and the worker clears the ledger     *)
(* only for a thread that holds the mutex with watching off, so no record  *)
(* of an open session is ever dropped.                                     *)
(***************************************************************************)
CommandsExclude ==
  \A t \in Thread :
    /\ pc[t] \in InMutex <=> command_mutex = t
    /\ ClearRequest \in QueueRange(t) => pc[t] = "clear" /\ ~watching_globally

(***************************************************************************)
(* Two open allocations are never attributed to the same malloc: realloc   *)
(* moves the txn_id and the stack trace of a record, it does not copy      *)
(* them; only a realloc that overtook its block's record can repeat one.   *)
(***************************************************************************)
OriginsAreUnique ==
  orphan_reallocs = {} =>
    \A a, b \in Open : a # b => allocations[a].txn_id # allocations[b].txn_id

(***************************************************************************)
(* Guards given up in the reverse of the order they were taken leave the   *)
(* thread watched again, and until then it is not: however pauses nest and *)
(* whatever commands run in between (PauseThreadWatchToken).               *)
(***************************************************************************)
PausesNest ==
  \A t \in Thread : watching_thread[t] <=> guards[t] = <<>>

(***************************************************************************)
(* What the documentation says of the snapshot stop_watching returns.      *)
(* Answered(t): its value is there; Settled: no call is in flight, no      *)
(* record is queued, every release in the session left a record, and none  *)
(* was left over from before, so the records tell the whole story.         *)
(***************************************************************************)
Answered(t) == pc[t] = "drain" /\ answer[t] # NoAnswer
Settled     == doubtful = {} /\ Pending = {} /\ \A t \in Thread : pc[t] \notin InCall

(* "When the HeapWatcher stops, the memory snapshot it returns is the      *)
(* result of processing all allocation records" (README.md:13).            *)
StopProcessesAllRecords ==
  \A t \in Thread : Answered(t) => \A u \in Thread : backlog[u] = 0

(* "... so it should be correct" (README.md:13): the leaks of the session  *)
(* are in it.                                                              *)
SettledSnapshotIsComplete ==
  \A t \in Thread : Answered(t) /\ Settled => watched \subseteq answer[t].leaks

(* "... so it should be correct" (README.md:13): what is in it is live.    *)
SettledSnapshotIsSound ==
  \A t \in Thread : Answered(t) /\ Settled => answer[t].leaks \subseteq heap

(* "This project provides a simple tool for tracking heap allocations      *)
(* between start/finish points" (README.md:3): a leak that it reports was  *)
(* acquired after the start.                                               *)
SnapshotIsOfItsSession ==
  \A t \in Thread : Answered(t) => answer[t].leaks \subseteq watched \cup released
=============================================================================
