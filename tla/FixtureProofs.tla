---------------------------- MODULE FixtureProofs ---------------------------
(***************************************************************************)
(* Proofs about a test with ScopedMultithreadedTestFixture, for any number *)
(* of threads and any workloads: the types, that the checker's verdict is  *)
(* right, and that it counts the leaky workloads.                          *)
(*                                                                         *)
(* The invariants of HeapWatcher hold here too, but not by its theorems: a *)
(* workload's calls, the last call of its thread and the block of a        *)
(* std::thread are steps that HeapWatcher's Next does not have.            *)
(***************************************************************************)
EXTENDS TestFixture, ReportProofs

LEMMA FixtureConstants ==
  /\ Main \in Thread /\ Main \notin TestThread /\ TestThread \subseteq Thread
  /\ Thread = TestThread \cup {Main} /\ Commander = {Main} /\ NoThread \notin Thread
  /\ \A w \in Workloads : UsedBy(w) \subseteq Calls
BY FixtureAssumption, WatcherAssumption DEF TestThread

(* Test thread t enters a heap function with a block that is its own. *)
EntersCall(t) ==
  /\ pc[t] = "idle"
  /\ \E fn \in Calls \cup {"free"}, site \in Site \cup {NoCall}, arg \in Pointer, size \in Size :
       Enter(t, fn, site, arg, size)
  /\ held' \subseteq held
  /\ UNCHANGED <<ledger_vars, hook_vars, leak_vars, heap, bound_vars, history_vars, watching_thread,
                 worker_request_queue, g_txn_id, guards, answer>>

(***************************************************************************)
(* The types, with what they need of the workloads: a thread that was      *)
(* added has a workload.                                                   *)
(***************************************************************************)
AddedInv ==
  /\ stage = "adding" => adding \in Workloads
  /\ \A t \in TestThread : place[t] # "none" => workload[t] \in Workloads

FixtureTypeInv == FixtureTypeOK /\ AddedInv

LEMMA NextCallsAreUsed ==
  ASSUME NEW t \in TestThread, workload[t] \in Workloads
  PROVE  NextCalls(t) \subseteq Calls \cap HeapFunction
<1>1. UsedBy(workload[t]) \subseteq Calls /\ Calls \subseteq HeapFunction
  BY FixtureConstants, ConstantTypes
<1>2. workload[t] \in DOMAIN Script \cup {"BuildBigMap", "RandomHeapOperations"}
  BY FixtureAssumption
<1>3. CASE workload[t] \in DOMAIN Script
  <2>1. NextCalls(t) \subseteq UsedBy(workload[t])
    BY <1>3 DEF NextCalls, UsedBy
  <2> QED BY <1>1, <2>1
<1>4. "BuildBigMap" \notin DOMAIN Script /\ "RandomHeapOperations" \notin DOMAIN Script
  BY DEF Script
<1>5. CASE workload[t] = "BuildBigMap"
  <2>1. UsedBy("BuildBigMap") = {"malloc", "free"}
    BY <1>4 DEF UsedBy
  <2>2. NextCalls(t) \subseteq {"malloc", "free"}
    BY <1>4, <1>5 DEF NextCalls
  <2> QED BY <1>1, <1>5, <2>1, <2>2
<1>6. CASE workload[t] = "RandomHeapOperations"
  <2>1. UsedBy("RandomHeapOperations") = {"malloc", "realloc", "free"}
    BY <1>4 DEF UsedBy
  <2>2. NextCalls(t) \subseteq {"malloc", "realloc", "free"}
    BY <1>4, <1>6 DEF NextCalls
  <2> QED BY <1>1, <1>6, <2>1, <2>2
<1> QED BY <1>2, <1>3, <1>5, <1>6

(* A workload's call, with the block it takes from the thread. *)
LEMMA WorkloadEnters ==
  ASSUME TypeInv, FixtureTypeInv, NEW t \in TestThread, WorkloadCalls(t)
  PROVE  /\ EntersCall(t)
         /\ place[t] = "working" /\ place'[t] = "working"
         /\ \E fn \in NextCalls(t), site \in Site \cup {NoCall}, arg \in Pointer, size \in Size :
              /\ Enter(t, fn, site, arg, size)
              /\ made' = [made EXCEPT ![t] = Append(@, fn)]
              /\ fn \in Acquiring => arg = Null /\ size \in CallSize /\ UNCHANGED <<held, mine>>
              /\ fn \notin Acquiring =>
                   /\ arg \in mine[t] /\ held' = held \ {arg}
                   /\ mine' = [mine EXCEPT ![t] = @ \ {arg}]
              /\ fn # "free" => size \in CallSize
              /\ fn \in Acquiring => site \in Site
<1>1. workload[t] \in Workloads /\ mine[t] \subseteq held /\ place[t] = "working" /\ pc[t] = "idle"
  BY DEF FixtureTypeInv, AddedInv, WorkloadCalls, Moves, FixtureTypeOK
<1>2. NextCalls(t) \subseteq Calls \cap HeapFunction
  BY <1>1, NextCallsAreUsed
<1>3. mine[t] \subseteq Pointer /\ Null \in Pointer /\ CallSize \subseteq Size /\ 0 \in Size
  BY <1>1, ConstantTypes DEF TypeInv, Types, Pointer
<1>4. PICK fn \in NextCalls(t) :
        /\ made' = [made EXCEPT ![t] = Append(@, fn)]
        /\ \/ /\ fn \in Acquiring
              /\ \E site \in Site, size \in CallSize : Enter(t, fn, site, Null, size)
              /\ UNCHANGED <<held, mine>>
           \/ /\ fn \notin Acquiring
              /\ \E block \in mine[t], size \in CallSize :
                   /\ Enter(t, fn, NoCall, block, IF fn = "free" THEN 0 ELSE size)
                   /\ held' = held \ {block}
                   /\ mine' = [mine EXCEPT ![t] = @ \ {block}]
  BY DEF WorkloadCalls, Without
<1>5. \E site \in Site \cup {NoCall}, arg \in Pointer, size \in Size :
        /\ Enter(t, fn, site, arg, size)
        /\ fn \in Acquiring => arg = Null /\ size \in CallSize /\ UNCHANGED <<held, mine>>
        /\ fn \notin Acquiring =>
             /\ arg \in mine[t] /\ held' = held \ {arg}
             /\ mine' = [mine EXCEPT ![t] = @ \ {arg}]
        /\ fn # "free" => size \in CallSize
        /\ fn \in Acquiring => site \in Site
  <2>1. CASE fn \in Acquiring
    <3>1. PICK site \in Site, size \in CallSize : Enter(t, fn, site, Null, size)
      BY <1>4, <2>1
    <3>2. UNCHANGED <<held, mine>>
      BY <1>4, <2>1
    <3> QED BY <1>3, <2>1, <3>1, <3>2
  <2>2. CASE fn \notin Acquiring
    <3>1. PICK block \in mine[t], size \in CallSize :
            /\ Enter(t, fn, NoCall, block, IF fn = "free" THEN 0 ELSE size)
            /\ held' = held \ {block}
            /\ mine' = [mine EXCEPT ![t] = @ \ {block}]
      BY <1>4, <2>2
    <3>2. (IF fn = "free" THEN 0 ELSE size) \in Size /\ (fn # "free" => (IF fn = "free" THEN 0 ELSE size) \in CallSize)
      BY <1>3
    <3> QED BY <1>3, <2>2, <3>1, <3>2
  <2> QED BY <2>1, <2>2
<1>6. held' \subseteq held
  BY <1>5
<1>7. EntersCall(t)
  BY <1>1, <1>2, <1>5, <1>6 DEF EntersCall, WorkloadCalls
<1>8. place'[t] = "working"
  BY DEF WorkloadCalls, Moves, FixtureTypeInv, FixtureTypeOK
<1> QED BY <1>1, <1>4, <1>5, <1>7, <1>8

LEMMA LeaveEnters ==
  ASSUME FixtureTypeInv, NEW t \in TestThread, Leave(t)
  PROVE  EntersCall(t) /\ UNCHANGED heap_vars /\ Enter(t, "free", NoCall, thread_state[t], 0)
BY ConstantTypes DEF Leave, Moves, EntersCall, FixtureTypeInv, FixtureTypeOK, heap_vars

(* Every other step of the test, but a new std::thread, is one of HeapWatcher's. *)
LEMMA FixtureSteps ==
  ASSUME [FixtureNext]_test_vars
  PROVE  [Next]_vars \/ \E t \in TestThread : WorkloadCalls(t) \/ Leave(t) \/ AddThread(t)
<1>1. CASE LedgerGoesOn
  BY <1>1 DEF LedgerGoesOn, Next
<1>2. CASE Construct
  BY <1>2, FixtureConstants DEF Construct, Next, ThreadStep
<1>3. CASE BeginAdding
  BY <1>3, FixtureConstants DEF BeginAdding, Next, ThreadStep
<1>4. CASE EndAdding
  BY <1>4, FixtureConstants DEF EndAdding, Next, ThreadStep
<1>5. CASE StartWorkload \/ GoOutOfScope
  BY <1>5 DEF StartWorkload, GoOutOfScope
<1>6. CASE StopWatching
  BY <1>6, FixtureConstants DEF StopWatching, Next, ThreadStep
<1>7. CASE MainGoesOn
  BY <1>7, FixtureConstants DEF MainGoesOn, Progress, Next, ThreadStep
<1>8. ASSUME NEW t \in TestThread, Begin(t) \/ End(t)
      PROVE  UNCHANGED vars
  BY <1>8 DEF Begin, End
<1>9. ASSUME NEW t \in TestThread, InHeapCall(t)
      PROVE  Next
  BY <1>9, FixtureConstants DEF InHeapCall, Next, ThreadStep
<1>10. CASE UNCHANGED test_vars
  BY <1>10 DEF test_vars
<1> QED
  BY <1>1, <1>2, <1>3, <1>4, <1>5, <1>6, <1>7, <1>8, <1>9, <1>10
  DEF FixtureNext, Test, WorkerGoesOn

-----------------------------------------------------------------------------
(***************************************************************************)
(* The block of a std::thread, until its thread frees it: it is live, and  *)
(* neither the application, nor a call, a promise or a guard has it, nor   *)
(* has another std::thread.                                                *)
(***************************************************************************)
Unowned(a) ==
  /\ a \in heap \ held
  /\ \A u \in Thread : /\ a \notin KeptAt(pc[u], call[u])
                       /\ answer[u] # NoAnswer => answer[u].storage # a
                       /\ \A i \in 1 .. Len(guards[u]) : guards[u][i].token # a

HasState(t) == place[t] \in {"waiting", "working"} /\ thread_state[t] # Null

StateInv ==
  \A t \in TestThread : HasState(t) =>
    /\ Unowned(thread_state[t])
    /\ \A u \in TestThread \ {t} : HasState(u) => thread_state[u] # thread_state[t]

LEMMA UnownedCall ==
  ASSUME TypeInv, NEW t \in Thread, NEW where, NEW c, CallBecomes(t, where, c),
         UNCHANGED <<guards, answer>>, NEW a, Unowned(a), a \in heap' \ held',
         a \notin KeptAt(where, c)
  PROVE  Unowned(a)'
<1>1. /\ pc'[t] = where /\ call'[t] = c
      /\ \A u \in Thread \ {t} : pc'[u] = pc[u] /\ call'[u] = call[u]
  BY DEF CallBecomes, TypeInv, Types
<1>2. \A u \in Thread : a \notin KeptAt(pc'[u], call'[u])
  BY <1>1 DEF Unowned
<1> QED
  BY <1>2 DEF Unowned, KeptAt

(* A call frees and gives back only what it took, or what was not live. *)
LEMMA HeapCallSpares ==
  ASSUME TypeInv, CallInv, NEW t \in Thread, HeapCall(t), NEW a \in Addr, Unowned(a)
  PROVE  Unowned(a)'
<1>1. UNCHANGED <<guards, answer>>
  BY DEF HeapCall, BeginCall, LibcMalloc, LibcRealloc, LibcFree, Libc, CheckUnwatched,
         CheckWatched, CountKnownLeak, EnqueueRecord
<1>2. a \in heap /\ a \notin held /\ a \notin KeptAt(pc[t], call[t]) /\ a # Null
  BY LedgerAssumption DEF Unowned
<1>3. CASE BeginCall(t)
  <2>1. PICK fn, site, arg, size : Enter(t, fn, site, arg, size) /\ arg \in held \cup {Null}
    BY <1>3 DEF BeginCall
  <2> DEFINE c == [fn |-> fn, hook |-> hooks[fn], site |-> site, arg |-> arg, size |-> size,
                   result |-> Null, seen |-> 0]
  <2>2. CallBecomes(t, "libc", c) /\ KeptAt("libc", c) = {arg} \ {Null}
    BY <2>1 DEF Enter, GoTo, CallBecomes, KeptAt
  <2> HIDE DEF c
  <2>3. heap' = heap /\ held' \subseteq held
    BY <1>3 DEF BeginCall
  <2> QED
    BY <1>1, <1>2, <2>1, <2>2, <2>3, UnownedCall
<1>4. CASE LibcMalloc(t) \/ LibcRealloc(t) \/ LibcFree(t)
  <2>1. pc[t] = "libc"
    BY <1>4, CompletedCall
  <2>2. PICK c \in Call :
          /\ Libc(t, c) /\ c.arg = call[t].arg
          /\ c.result \in (Addr \ heap) \cup {Null} \/ (c.fn = "realloc" /\ c.result = c.arg)
    BY <1>4, CompletedCall
  <2>3. heap' = (heap \ ReleasedBy(c)) \cup ({c.result} \ {Null})
    BY <2>2 DEF Libc
  <2>4. a # c.arg /\ a # c.result
    BY <1>2, <2>1, <2>2 DEF KeptAt
  <2>5. a \notin ReleasedBy(c) /\ a \notin Given(c)
    BY <2>4 DEF ReleasedBy, Given
  <2>6. CASE c.hook = "libc"
    <3>1. CallBecomes(t, "idle", NoCall) /\ held' = held \cup Given(c) /\ KeptAt("idle", NoCall) = {}
      BY <2>2, <2>6 DEF Libc, ReturnUnrecorded, Return, GoTo, KeptAt, CallBecomes
    <3> QED BY <1>1, <1>2, <2>3, <2>5, <3>1, UnownedCall
  <2>7. CASE c.hook # "libc"
    <3>1. CallBecomes(t, "check", c) /\ held' = held /\ KeptAt("check", c) = Given(c)
      BY <2>2, <2>7 DEF Libc, GoTo, KeptAt, CallBecomes
    <3> QED BY <1>1, <1>2, <2>3, <2>5, <3>1, UnownedCall
  <2> QED BY <2>6, <2>7
<1>5. CASE CheckUnwatched(t) \/ CountKnownLeak(t) \/ EnqueueRecord(t)
  <2>1. /\ KeptAt(pc[t], call[t]) = Given(call[t]) /\ held' = held \cup Given(call[t])
        /\ UNCHANGED heap /\ CallBecomes(t, "idle", NoCall)
    BY <1>5 DEF CheckUnwatched, CountKnownLeak, EnqueueRecord, ReturnUnrecorded, Return, GoTo,
                KeptAt, CallBecomes
  <2>2. KeptAt("idle", NoCall) = {}
    BY DEF KeptAt
  <2> QED BY <1>1, <1>2, <2>1, <2>2, UnownedCall
<1>6. CASE CheckWatched(t)
  <2>1. PICK where \in {"count", "enqueue"}, c \in Call :
          /\ CallBecomes(t, where, c)
          /\ c.fn = call[t].fn /\ c.arg = call[t].arg /\ c.size = call[t].size
          /\ c.result = call[t].result
    BY <1>6, CheckedCall DEF CallBecomes
  <2>2. KeptAt(where, c) = KeptAt(pc[t], call[t]) /\ UNCHANGED <<held, heap>>
    BY <1>6, <2>1 DEF CheckWatched, KeptAt, Given, heap_vars
  <2> QED BY <1>1, <1>2, <2>1, <2>2, UnownedCall
<1> QED
  BY <1>3, <1>4, <1>5, <1>6 DEF HeapCall

LEMMA UnownedStays ==
  ASSUME TypeInv, CallInv, [Next]_vars, NEW a \in Addr, Unowned(a)
  PROVE  Unowned(a)'
<1>1. a \in heap /\ a \notin held /\ a # Null
  BY LedgerAssumption DEF Unowned
<1>2. ASSUME NEW t \in Thread, Pause(t)
      PROVE  Unowned(a)'
  <2>1. PICK token \in (Addr \ heap) \cup {Null} :
          /\ guards' = [guards EXCEPT ![t] = Append(@, [token |-> token, saved |-> watching_thread[t]])]
          /\ heap' = heap \cup ({token} \ {Null})
    BY <1>2 DEF Pause
  <2> DEFINE guard == [token |-> token, saved |-> watching_thread[t]]
  <2>2. guard \in [token : Pointer, saved : BOOLEAN] /\ guard.token # a
    BY <1>1, <2>1 DEF TypeInv, Types, Pointer
  <2>3. /\ guards'[t] = Append(guards[t], guard)
        /\ \A u \in Thread \ {t} : guards'[u] = guards[u]
    BY <2>1 DEF TypeInv, Types
  <2> HIDE DEF guard
  <2>4. /\ Len(Append(guards[t], guard)) = Len(guards[t]) + 1 /\ Len(guards[t]) \in Nat
        /\ Append(guards[t], guard)[Len(guards[t]) + 1] = guard
        /\ \A i \in 1 .. Len(guards[t]) : Append(guards[t], guard)[i] = guards[t][i]
    BY <2>2, AppendProperties, LenProperties DEF TypeInv, Types
  <2>5. \A i \in 1 .. Len(guards'[t]) : guards'[t][i].token # a
    BY <2>2, <2>3, <2>4 DEF Unowned
  <2>6. UNCHANGED <<held, pc, call, answer>>
    BY <1>2 DEF Pause
  <2> QED
    BY <2>1, <2>3, <2>5, <2>6 DEF Unowned
<1>3. ASSUME NEW t \in Thread, Resume(t)
      PROVE  Unowned(a)'
  <2> DEFINE n     == Len(guards[t])
             rest  == SubSeq(guards[t], 1, n - 1)
             token == guards[t][n].token
             c     == [fn |-> "free", hook |-> hooks["free"], site |-> NoCall, arg |-> token,
                       size |-> 0, result |-> Null, seen |-> 0]
  <2>1. /\ n \in Nat \ {0} /\ Len(rest) = n - 1
        /\ \A i \in 1 .. n - 1 : rest[i] = guards[t][i]
    <3>1. guards[t] \in Seq([token : Pointer, saved : BOOLEAN]) /\ guards[t] # <<>>
      BY <1>3 DEF Resume, TypeInv, Types
    <3> DEFINE stack == guards[t]
    <3> HIDE DEF stack
    <3>2. /\ Len(stack) \in Nat \ {0} /\ Len(SubSeq(stack, 1, Len(stack) - 1)) = Len(stack) - 1
          /\ \A i \in 1 .. Len(stack) - 1 : SubSeq(stack, 1, Len(stack) - 1)[i] = stack[i]
      BY <3>1, PopType DEF stack
    <3> QED BY <3>2 DEF stack
  <2>2. /\ guards'[t] = rest /\ \A u \in Thread \ {t} : guards'[u] = guards[u]
        /\ UNCHANGED <<held, heap, answer>>
        /\ pc' = [pc EXCEPT ![t] = "libc"] /\ call' = [call EXCEPT ![t] = c]
    BY <1>3 DEF Resume, Enter, GoTo, TypeInv, Types, heap_vars
  <2>3. KeptAt("libc", c) = {token} \ {Null}
    BY DEF KeptAt
  <2> HIDE DEF rest, c
  <2>4. token # a
    BY <2>1 DEF Unowned
  <2>5. /\ pc'[t] = "libc" /\ call'[t] = c
        /\ \A u \in Thread \ {t} : pc'[u] = pc[u] /\ call'[u] = call[u]
    BY <2>2 DEF TypeInv, Types
  <2> HIDE DEF token
  <2>6. \A u \in Thread : a \notin KeptAt(pc'[u], call'[u])
    BY <2>3, <2>4, <2>5 DEF Unowned
  <2>7. \A i \in 1 .. n - 1 : i \in 1 .. n
    BY <2>1
  <2>8. \A i \in 1 .. Len(guards'[t]) : guards'[t][i].token # a
    BY <2>1, <2>2, <2>7 DEF Unowned
  <2> HIDE DEF n
  <2>9. \A u \in Thread : \A i \in 1 .. Len(guards'[u]) : guards'[u][i].token # a
    BY <2>2, <2>8 DEF Unowned
  <2> QED
    BY <2>2, <2>6, <2>9 DEF Unowned, KeptAt
<1>4. ASSUME NEW t \in Thread, CallStart(t) \/ CallStop(t) \/ Ask(t) \/ CommandStep(t)
      PROVE  Unowned(a)'
  <2>1. UNCHANGED <<heap, guards>>
    BY <1>4 DEF CallStart, CallStop, Ask, CommandStep, StartLock, StartCleared, StartStoreHook,
           StartWatching, StopLock, StopStoreHook, StopAsk, StopReturn, AskReturn,
           unchanged_by_commands
  <2>2. UNCHANGED call /\ \A u \in Thread : pc'[u] # pc[u] => pc[u] \notin InCall /\ pc'[u] \notin InCall
    BY <1>4, CallFrame
  <2>3. \A u \in Thread : KeptAt(pc[u], call[u])' = KeptAt(pc[u], call[u])
    BY <2>2 DEF KeptAt, InCall
  <2>4. \/ TakeAnswer(t)
        \/ /\ UNCHANGED held
           /\ UNCHANGED answer \/ answer' = [answer EXCEPT ![t] = NoAnswer]
    BY <1>4 DEF CallStart, CallStop, Ask, CommandStep, StartLock, StartCleared, StartStoreHook,
           StartWatching, StopLock, StopStoreHook, StopAsk, StopReturn, AskReturn
  <2>5. \A u \in Thread : answer'[u] # NoAnswer => answer'[u] = answer[u]
    BY <2>4 DEF TakeAnswer, TypeInv, Types
  <2>6. a \notin held'
    BY <1>1, <2>4 DEF TakeAnswer, Unowned
  <2> QED
    BY <2>1, <2>3, <2>5, <2>6 DEF Unowned
<1>5. ASSUME NEW t \in Thread, WorkerHandles(t)
      PROVE  Unowned(a)'
  <2>1. UNCHANGED <<held, pc, call, guards>>
    BY <1>5 DEF WorkerHandles
  <2> DEFINE r == Head(worker_request_queue[t])
  <2>2. HandleRecord(r) \/ HandleCommand(t, r)
    BY <1>5 DEF WorkerHandles
  <2> HIDE DEF r
  <2>3. \/ UNCHANGED <<answer, heap>>
        \/ \E storage \in (Addr \ heap) \cup {Null} :
             heap \subseteq heap' /\ \E leaks : Reply(t, leaks, storage)
    <3>1. CASE HandleRecord(r)
      BY <3>1 DEF HandleRecord
    <3>2. CASE Reply(t, {}, Null) /\ UNCHANGED heap
      BY <3>2
    <3>3. CASE \E storage \in (Addr \ heap) \cup {Null} :
                 Reply(t, Open', storage) /\ heap' = heap \cup ({storage} \ {Null})
      BY <3>3
    <3> QED BY <2>2, <3>1, <3>2, <3>3 DEF HandleCommand
  <2>4. heap \subseteq heap'
    BY <2>3
  <2>5. \A u \in Thread : answer'[u] # NoAnswer => answer'[u].storage # a
    <3>1. CASE UNCHANGED answer
      BY <3>1 DEF Unowned
    <3>2. ASSUME NEW leaks, NEW storage \in (Addr \ heap) \cup {Null}, Reply(t, leaks, storage)
          PROVE  \A u \in Thread : answer'[u] # NoAnswer => answer'[u].storage # a
      <4>1. answer'[t].storage = storage /\ \A u \in Thread \ {t} : answer'[u] = answer[u]
        BY <3>2 DEF Reply, TypeInv, Types
      <4> QED BY <1>1, <4>1 DEF Unowned
    <3> QED BY <2>3, <3>1, <3>2
  <2> QED
    BY <2>1, <2>4, <2>5 DEF Unowned
<1>6. CASE UNCHANGED vars
  BY <1>6 DEF vars, heap_vars, Unowned
<1> QED
  BY <1>2, <1>3, <1>4, <1>5, <1>6, HeapCallSpares DEF Next, ThreadStep, Worker

-----------------------------------------------------------------------------
(***************************************************************************)
(* HeapWatcher's invariants hold of every test.                            *)
(***************************************************************************)
BaseInv == TypeInv /\ HookInv /\ CallInv /\ GuardInv /\ QueueInv /\ OwnerInv

LEMMA EnterBase ==
  ASSUME TypeInv, HookInv, CallInv, GuardInv, QueueInv, NEW t \in TestThread, EntersCall(t)
  PROVE  TypeInv' /\ HookInv' /\ CallInv' /\ GuardInv' /\ QueueInv'
<1>1. t \in Thread
  BY FixtureConstants
<1>2. PICK fn \in Calls \cup {"free"}, site \in Site \cup {NoCall}, arg \in Pointer, size \in Size :
        Enter(t, fn, site, arg, size)
  BY DEF EntersCall
<1>3. fn \in HeapFunction
  BY ConstantTypes DEF HeapFunction, StoreOrder
<1>4. /\ pc[t] = "idle" /\ held' \subseteq held
      /\ UNCHANGED <<ledger_vars, hook_vars, leak_vars, heap, bound_vars, history_vars, watching_thread,
                     worker_request_queue, g_txn_id, guards, answer>>
  BY DEF EntersCall
<1>5. pc' = [pc EXCEPT ![t] = "libc"]
  BY <1>2 DEF Enter, GoTo
<1>6. TypeInv'
  <2>1. /\ pc' \in [Thread -> {"idle"} \cup InCall \cup InCommand]
        /\ call' \in [Thread -> Call \cup {NoCall}]
        /\ InCallHasCall'
    BY <1>1, <1>2, <1>3, EnterType
  <2> QED
    BY <1>4, <2>1 DEF TypeInv, Types, LedgerTypeOK, ledger_vars, counters, anomalies, hook_vars,
                      leak_vars, bound_vars, history_vars
<1>7. HookInv'
  <2>1. pc[t] \notin InMutex /\ "libc" \in Place \ InMutex
    BY <1>4 DEF InMutex, Place, InCall
  <2> QED BY <1>1, <1>4, <1>5, <2>1, ControlFrame
<1>8. CallInv'
  BY <1>1, <1>2, EnterCallInv
<1>9. GuardInv'
  BY <1>4, GuardsFrame
<1>10. QueueInv'
  <2>1. pc[t] \notin Waiting /\ "libc" \notin Waiting
    BY <1>4 DEF Waiting
  <2> QED BY <1>1, <1>4, <1>5, <2>1, IdleStep
<1> QED
  BY <1>6, <1>7, <1>8, <1>9, <1>10

(* The block a test thread enters a heap function with is its call's now. *)
LEMMA EnterOwners ==
  ASSUME TypeInv, OwnerInv, NEW t \in Thread, NEW fn, NEW site, NEW arg, NEW size,
         Enter(t, fn, site, arg, size), pc[t] = "idle",
         UNCHANGED <<heap, guards, answer>>, held' \subseteq held \ {arg},
         arg \in Addr => arg \in heap,
         arg \in Addr => \A k \in OwnerKind, u \in Thread \cup {NoThread}, i \in Nat :
                           ~Owns(k, u, i, arg) \/ k = "app"
  PROVE  OwnerInv'
<1> DEFINE c == [fn |-> fn, hook |-> hooks[fn], site |-> site, arg |-> arg, size |-> size,
                 result |-> Null, seen |-> 0]
<1>1. /\ pc' = [pc EXCEPT ![t] = "libc"] /\ call' = [call EXCEPT ![t] = c]
      /\ KeptAt("libc", c) = {arg} \ {Null}
  BY DEF Enter, GoTo, KeptAt
<1> HIDE DEF c
<1>2. ASSUME NEW a \in Addr, NEW k \in OwnerKind, NEW u \in Thread \cup {NoThread}, NEW i \in Nat,
             Owns(k, u, i, a)'
      PROVE  \/ a = arg /\ k = "call" /\ u = t /\ i = 0
             \/ a # arg /\ Owns(k, u, i, a) /\ a \in heap'
  <2>1. \/ k = "app" /\ u = NoThread /\ i = 0 /\ a \in held'
        \/ k = "call" /\ u = t /\ i = 0 /\ a \in KeptAt("libc", c)
        \/ k # "app" /\ ~(k = "call" /\ u = t) /\ Owns(k, u, i, a)
    BY <1>1, <1>2, CallMoves
  <2>2. Owns(k, u, i, a) => a \in heap'
    BY DEF OwnerInv
  <2>3. CASE k = "app" /\ u = NoThread /\ i = 0 /\ a \in held'
    <3>1. a # arg /\ Owns(k, u, i, a)
      BY <2>3, OwnedBy
    <3> QED BY <2>2, <3>1
  <2>4. CASE k # "app" /\ Owns(k, u, i, a)
    <3>1. a # arg
      BY <2>4
    <3> QED BY <2>2, <2>4, <3>1
  <2> QED
    BY <1>1, <2>1, <2>3, <2>4
<1>3. CASE arg \notin Addr
  BY <1>2, <1>3, OwnersStay
<1>4. CASE arg \in Addr
  <2>1. arg \in heap'
    BY <1>4
  <2>2. \A a \in Addr : \A k \in OwnerKind, u \in Thread \cup {NoThread}, i \in Nat :
          Owns(k, u, i, a)' => \/ a = arg /\ k = "call" /\ u = t /\ i = 0
                               \/ a # arg /\ Owns(k, u, i, a) /\ a \in heap'
    BY <1>2
  <2> QED BY <2>1, <2>2, OwnerGets
<1> QED BY <1>3, <1>4

LEMMA WorkloadOwners ==
  ASSUME TypeInv, OwnerInv, FixtureTypeInv, NEW t \in TestThread, WorkloadCalls(t)
  PROVE  OwnerInv'
<1>1. PICK fn \in NextCalls(t), site \in Site \cup {NoCall}, arg \in Pointer, size \in Size :
        /\ Enter(t, fn, site, arg, size)
        /\ fn \in Acquiring => arg = Null /\ UNCHANGED <<held, mine>>
        /\ fn \notin Acquiring => arg \in mine[t] /\ held' = held \ {arg}
  BY WorkloadEnters
<1>2. EntersCall(t) /\ t \in Thread /\ mine[t] \subseteq held /\ held \subseteq Addr
  BY WorkloadEnters, FixtureConstants DEF FixtureTypeInv, FixtureTypeOK, TypeInv, Types
<1>3. arg = Null \/ arg \in held
  BY <1>1, <1>2
<1>4. held' \subseteq held \ {arg}
  BY <1>1, <1>2, LedgerAssumption
<1>5. \A a \in held : a \in Addr /\ Owns("app", NoThread, 0, a)
  BY <1>2, OwnedBy
<1>6. arg \in Addr => arg \in heap
  BY <1>3, <1>5, LedgerAssumption DEF OwnerInv, OwnerKind
<1>7. ASSUME arg \in Addr, NEW k \in OwnerKind, NEW u \in Thread \cup {NoThread}, NEW i \in Nat
      PROVE  ~Owns(k, u, i, arg) \/ k = "app"
  BY <1>3, <1>5, <1>7, LedgerAssumption DEF OwnerInv, OwnerKind
<1> QED
  BY <1>1, <1>2, <1>4, <1>6, <1>7, EnterOwners DEF EntersCall

LEMMA LeaveOwners ==
  ASSUME TypeInv, OwnerInv, FixtureTypeInv, StateInv, NEW t \in TestThread, Leave(t)
  PROVE  OwnerInv'
<1> DEFINE arg == thread_state[t]
<1>1. /\ EntersCall(t) /\ UNCHANGED <<heap, held, guards, answer>> /\ Enter(t, "free", NoCall, arg, 0)
      /\ t \in Thread /\ arg \in Pointer /\ pc[t] = "idle" /\ place[t] = "working"
  BY LeaveEnters, FixtureConstants
  DEF EntersCall, heap_vars, FixtureTypeInv, FixtureTypeOK, Leave, Moves
<1>2. arg # Null => Unowned(arg)
  BY <1>1 DEF StateInv, HasState
<1> HIDE DEF arg
<1>3. held' \subseteq held \ {arg}
  BY <1>1, <1>2, LedgerAssumption DEF Unowned, TypeInv, Types
<1>4. ASSUME arg \in Addr
      PROVE  arg \in heap /\ \A k \in OwnerKind, u \in Thread \cup {NoThread}, i \in Nat : ~Owns(k, u, i, arg)
  BY <1>2, <1>4, LedgerAssumption DEF Unowned, Owns
<1> QED
  BY <1>1, <1>3, <1>4, EnterOwners

LEMMA AddThreadBase ==
  ASSUME BaseInv, NEW t \in TestThread, AddThread(t)
  PROVE  BaseInv'
<1>1. /\ UNCHANGED <<ledger_vars, hook_vars, leak_vars, held, bound_vars, history_vars,
                     watching_thread, worker_request_queue, g_txn_id, pc, call, guards, answer>>
      /\ heap \subseteq heap' /\ heap' \subseteq heap \cup Addr
  BY FixtureAssumption DEF AddThread
<1>2. TypeInv'
  BY <1>1 DEF BaseInv, TypeInv, Types, InCallHasCall, LedgerTypeOK, ledger_vars, counters, anomalies,
              hook_vars, leak_vars, bound_vars, history_vars
<1>3. HookInv'
  BY <1>1, ControlStutter DEF BaseInv
<1>4. CallInv'
  BY <1>1 DEF BaseInv, CallInv
<1>5. GuardInv' /\ QueueInv'
  BY <1>1, GuardsFrame, QueueFrame DEF BaseInv
<1>6. OwnerInv'
  <2>1. ASSUME NEW a \in Addr, NEW k \in OwnerKind, NEW u \in Thread \cup {NoThread}, NEW i \in Nat,
               Owns(k, u, i, a)'
        PROVE  Owns(k, u, i, a) /\ a \in heap'
    <3>1. Owns(k, u, i, a)
      BY <1>1, <2>1 DEF Owns
    <3> QED BY <1>1, <3>1 DEF BaseInv, OwnerInv
  <2> QED BY <2>1, OwnersStay DEF BaseInv
<1> QED
  BY <1>2, <1>3, <1>4, <1>5, <1>6 DEF BaseInv

LEMMA BaseNext ==
  ASSUME BaseInv, FixtureTypeInv, StateInv, [FixtureNext]_test_vars
  PROVE  BaseInv'
<1>1. CASE [Next]_vars
  BY <1>1, TypeStep, ControlStep, CallInvNext, GuardNext, QueueNext, OwnerNext DEF BaseInv
<1>2. ASSUME NEW t \in TestThread, WorkloadCalls(t)
      PROVE  BaseInv'
  BY <1>2, WorkloadEnters, EnterBase, WorkloadOwners DEF BaseInv
<1>3. ASSUME NEW t \in TestThread, Leave(t)
      PROVE  BaseInv'
  BY <1>3, LeaveEnters, EnterBase, LeaveOwners DEF BaseInv
<1> QED
  BY <1>1, <1>2, <1>3, FixtureSteps, AddThreadBase

-----------------------------------------------------------------------------
(***************************************************************************)
(* The types are kept.                                                     *)
(***************************************************************************)
LEMMA CallsGiveBack ==
  ASSUME NEW t \in Thread, CommandStep(t) \/ (HeapCall(t) /\ pc[t] # "idle")
  PROVE  held \subseteq held'
BY DEF CommandStep, StartLock, StartCleared, StartStoreHook, StartWatching, StopLock, StopStoreHook,
       StopAsk, StopReturn, AskReturn, TakeAnswer, HeapCall, BeginCall, LibcMalloc, LibcRealloc,
       LibcFree, Libc, CheckUnwatched, CheckWatched, CountKnownLeak, EnqueueRecord,
       ReturnUnrecorded, Return, heap_vars

LEMMA MineGrows ==
  ASSUME FixtureTypeInv, held \subseteq held', NEW t \in TestThread,
         mine' = mine \/ mine' = [mine EXCEPT ![t] = @ \cup (held' \ held)]
  PROVE  /\ mine' \in [TestThread -> SUBSET held']
         /\ \A u, v \in TestThread : u # v => mine'[u] \cap mine'[v] = {}
<1>1. /\ mine \in [TestThread -> SUBSET held]
      /\ \A u, v \in TestThread : u # v => mine[u] \cap mine[v] = {}
  BY DEF FixtureTypeInv, FixtureTypeOK
<1>2. CASE mine' = mine
  BY <1>1, <1>2
<1>3. CASE mine' = [mine EXCEPT ![t] = @ \cup (held' \ held)]
  <2>1. mine'[t] = mine[t] \cup (held' \ held) /\ \A u \in TestThread \ {t} : mine'[u] = mine[u]
    BY <1>1, <1>3
  <2>2. \A u \in TestThread : mine'[u] \subseteq held'
    BY <1>1, <2>1
  <2>3. mine' \in [TestThread -> SUBSET held']
    BY <1>1, <1>3, <2>2
  <2>4. \A u, v \in TestThread : u # v => mine'[u] \cap mine'[v] = {}
    BY <1>1, <2>1
  <2> QED BY <2>3, <2>4
<1> QED BY <1>2, <1>3

LEMMA MineShrinks ==
  ASSUME FixtureTypeInv, NEW t \in TestThread, NEW block \in mine[t], held' = held \ {block},
         mine' = [mine EXCEPT ![t] = @ \ {block}]
  PROVE  /\ mine' \in [TestThread -> SUBSET held']
         /\ \A u, v \in TestThread : u # v => mine'[u] \cap mine'[v] = {}
<1>1. /\ mine \in [TestThread -> SUBSET held]
      /\ \A u, v \in TestThread : u # v => mine[u] \cap mine[v] = {}
  BY DEF FixtureTypeInv, FixtureTypeOK
<1>2. mine'[t] = mine[t] \ {block} /\ \A u \in TestThread \ {t} : mine'[u] = mine[u]
  BY <1>1
<1>3. \A u \in TestThread : mine'[u] \subseteq held'
  BY <1>1, <1>2
<1>4. mine' \in [TestThread -> SUBSET held']
  BY <1>1, <1>3
<1>5. \A u, v \in TestThread : u # v => mine'[u] \cap mine'[v] = {}
  BY <1>1, <1>2
<1> QED BY <1>4, <1>5

LEMMA FixtureTypeNext ==
  ASSUME TypeInv, FixtureTypeInv, [FixtureNext]_test_vars
  PROVE  FixtureTypeInv'
<1> DEFINE MineOK == /\ mine' \in [TestThread -> SUBSET held']
                     /\ \A u, v \in TestThread : u # v => mine'[u] \cap mine'[v] = {}
<1> USE DEF FixtureTypeInv, FixtureTypeOK, AddedInv
<1>1. in_time' \in BOOLEAN
  BY DEF FixtureNext, LedgerGoesOn, test_vars
<1>2. ASSUME held \subseteq held', UNCHANGED mine
      PROVE  MineOK
  <2>1. CASE TestThread = {}
    BY <1>2, <2>1
  <2>2. ASSUME NEW t \in TestThread
        PROVE  MineOK
    BY <1>2, MineGrows
  <2> QED BY <2>1, <2>2
<1>3. CASE LedgerGoesOn \/ MainGoesOn \/ UNCHANGED test_vars
  <2>1. UNCHANGED fixture_vars
    BY <1>3 DEF LedgerGoesOn, MainGoesOn, test_vars
  <2>2. held \subseteq held'
    BY <1>3, CallsGiveBack, FixtureConstants
    DEF LedgerGoesOn, Worker, WorkerHandles, MainGoesOn, Progress, test_vars, vars, heap_vars
  <2>3. MineOK
    BY <1>2, <2>1, <2>2 DEF fixture_vars
  <2> HIDE DEF MineOK
  <2> QED BY <1>1, <2>1, <2>3 DEF fixture_vars, MineOK
<1>4. CASE Construct \/ StartWorkload \/ GoOutOfScope \/ StopWatching
  <2>1. UNCHANGED <<held, adding, place, workload, made, mine, thread_state>>
    BY <1>4 DEF Construct, StartWorkload, GoOutOfScope, StopWatching, CallStart, CallStop,
                unchanged_by_stage, vars, heap_vars
  <2>2. stage' \in {"ready", "joining", "checking"} /\ started' \in BOOLEAN /\ synchronized' \in BOOLEAN
    BY <1>4 DEF Construct, StartWorkload, GoOutOfScope, StopWatching, Stage, SetValue, unchanged_by_stage
  <2>3. MineOK
    BY <1>2, <2>1
  <2> HIDE DEF MineOK
  <2> QED BY <1>1, <2>1, <2>2, <2>3 DEF MineOK
<1>5. CASE BeginAdding \/ EndAdding
  <2>1. UNCHANGED <<held, started, synchronized, place, workload, made, mine, thread_state>>
    BY <1>5 DEF BeginAdding, EndAdding, Pause, Resume, heap_vars
  <2>2. \/ stage' = "adding" /\ adding' \in Workloads
        \/ stage' = "ready" /\ adding' = NotAdded
    BY <1>5 DEF BeginAdding, EndAdding, Stage
  <2>3. MineOK
    BY <1>2, <2>1
  <2> HIDE DEF MineOK
  <2> QED BY <1>1, <2>1, <2>2, <2>3 DEF MineOK
<1>6. ASSUME NEW t \in TestThread, AddThread(t)
      PROVE  FixtureTypeInv'
  <2>1. /\ stage = "adding" /\ stage' = "adding"
        /\ UNCHANGED <<held, started, synchronized, adding, made, mine>>
        /\ place' = [place EXCEPT ![t] = "waiting"]
        /\ workload' = [workload EXCEPT ![t] = adding]
        /\ \E state \in Pointer : thread_state' = [thread_state EXCEPT ![t] = state]
    BY <1>6, FixtureAssumption DEF AddThread, Stage, Pointer
  <2>2. MineOK
    BY <1>2, <2>1
  <2> HIDE DEF MineOK
  <2> QED BY <1>1, <2>1, <2>2 DEF MineOK
<1>7. ASSUME NEW t \in TestThread, Begin(t) \/ End(t) \/ Leave(t)
      PROVE  FixtureTypeInv'
  <2>1. /\ UNCHANGED <<held, stage, started, synchronized, adding, workload, made, mine, thread_state>>
        /\ place[t] # "none"
        /\ \E to \in {"working", "leaving", "ended"} : place' = [place EXCEPT ![t] = to]
    BY <1>7 DEF Begin, End, Leave, Moves, vars, heap_vars
  <2>2. MineOK
    BY <1>2, <2>1
  <2> HIDE DEF MineOK
  <2> QED BY <1>1, <2>1, <2>2 DEF MineOK
<1>8. ASSUME NEW t \in TestThread, InHeapCall(t)
      PROVE  FixtureTypeInv'
  <2>1. /\ UNCHANGED <<stage, started, synchronized, adding, place, workload, made, thread_state>>
        /\ held \subseteq held'
        /\ mine' = [mine EXCEPT ![t] = @ \cup (held' \ held)]
    BY <1>8, CallsGiveBack, FixtureConstants DEF InHeapCall, InCall
  <2>2. MineOK
    BY <2>1, MineGrows
  <2> HIDE DEF MineOK
  <2> QED BY <1>1, <2>1, <2>2 DEF MineOK
<1>9. ASSUME NEW t \in TestThread, WorkloadCalls(t)
      PROVE  FixtureTypeInv'
  <2>1. PICK fn \in NextCalls(t), arg \in Pointer :
          /\ made' = [made EXCEPT ![t] = Append(@, fn)]
          /\ fn \in Acquiring => UNCHANGED <<held, mine>>
          /\ fn \notin Acquiring =>
               /\ arg \in mine[t] /\ held' = held \ {arg}
               /\ mine' = [mine EXCEPT ![t] = @ \ {arg}]
    BY <1>9, WorkloadEnters
  <2>2. /\ place' = [place EXCEPT ![t] = "working"] /\ place[t] = "working"
        /\ UNCHANGED <<stage, started, synchronized, adding, workload, thread_state>>
    BY <1>9 DEF WorkloadCalls, Moves
  <2>3. fn \in HeapFunction
    BY <2>1, <2>2, NextCallsAreUsed
  <2>4. Append(made[t], fn) \in Seq(HeapFunction)
    BY <2>3, AppendProperties
  <2>5. MineOK
    BY <1>2, <2>1, MineShrinks
  <2>6. made' \in [TestThread -> Seq(HeapFunction)]
    BY <2>1, <2>4
  <2> HIDE DEF MineOK
  <2> QED BY <1>1, <2>2, <2>5, <2>6 DEF MineOK
<1> QED
  BY <1>3, <1>4, <1>5, <1>6, <1>7, <1>8, <1>9 DEF FixtureNext, Test, WorkerGoesOn

(***************************************************************************)
(* The blocks of the std::threads stay theirs.                             *)
(***************************************************************************)
LEMMA EntersSpares ==
  ASSUME TypeInv, NEW t \in TestThread, EntersCall(t), NEW fn, NEW site, NEW arg, NEW size,
         Enter(t, fn, site, arg, size), NEW a, Unowned(a), a # arg
  PROVE  Unowned(a)'
<1> DEFINE c == [fn |-> fn, hook |-> hooks[fn], site |-> site, arg |-> arg, size |-> size,
                 result |-> Null, seen |-> 0]
<1>1. CallBecomes(t, "libc", c) /\ KeptAt("libc", c) = {arg} \ {Null} /\ t \in Thread
  BY FixtureConstants DEF Enter, GoTo, CallBecomes, KeptAt
<1> HIDE DEF c
<1>2. UNCHANGED <<guards, answer, heap>> /\ held' \subseteq held
  BY DEF EntersCall
<1>3. a \in heap' \ held'
  BY <1>2 DEF Unowned
<1> QED
  BY <1>1, <1>2, <1>3, UnownedCall

LEMMA StatesStay ==
  ASSUME StateInv, UNCHANGED thread_state,
         \A t \in TestThread : HasState(t)' => /\ HasState(t)
                                           /\ \A a : a = thread_state[t] => Unowned(a)'
  PROVE  StateInv'
BY DEF StateInv, Unowned

LEMMA StatesMove ==
  ASSUME FixtureTypeInv, [FixtureNext]_test_vars
  PROVE  \/ \E t \in TestThread : AddThread(t)
         \/ UNCHANGED thread_state /\ \A t \in TestThread : HasState(t)' => HasState(t)
<1>1. place \in [TestThread -> {"none", "waiting", "working", "leaving", "ended"}]
  BY DEF FixtureTypeInv, FixtureTypeOK
<1>2. CASE UNCHANGED <<place, thread_state>>
  BY <1>2 DEF HasState
<1>3. ASSUME NEW t \in TestThread, Begin(t) \/ WorkloadCalls(t) \/ Leave(t) \/ End(t)
      PROVE  UNCHANGED thread_state /\ \A u \in TestThread : HasState(u)' => HasState(u)
  <2>1. UNCHANGED thread_state
    BY <1>3 DEF Begin, WorkloadCalls, Leave, End
  <2>2. \/ \E from, to \in {"waiting", "working"} : Moves(t, from, to)
        \/ \E from \in {"working", "leaving"}, to \in {"leaving", "ended"} : Moves(t, from, to)
    BY <1>3 DEF Begin, WorkloadCalls, Leave, End
  <2> QED BY <1>1, <2>1, <2>2 DEF HasState, Moves
<1>4. \/ UNCHANGED <<place, thread_state>>
      \/ \E t \in TestThread : AddThread(t) \/ Begin(t) \/ WorkloadCalls(t) \/ Leave(t) \/ End(t)
  BY DEF FixtureNext, Test, WorkerGoesOn, Construct, BeginAdding, EndAdding, StartWorkload,
         GoOutOfScope, StopWatching, unchanged_by_stage, MainGoesOn, LedgerGoesOn, InHeapCall,
         fixture_vars, test_vars
<1> QED
  BY <1>2, <1>3, <1>4

LEMMA AddThreadStates ==
  ASSUME BaseInv, FixtureTypeInv, StateInv, NEW t \in TestThread, AddThread(t)
  PROVE  StateInv'
<1>1. PICK state \in (OwnBlocks \ heap) \cup {Null} :
        /\ thread_state' = [thread_state EXCEPT ![t] = state]
        /\ heap' = heap \cup ({state} \ {Null})
  BY DEF AddThread
<1>2. UNCHANGED <<held, pc, call, guards, answer>> /\ place' = [place EXCEPT ![t] = "waiting"]
  BY DEF AddThread
<1>3. /\ thread_state'[t] = state
      /\ \A u \in TestThread \ {t} : thread_state'[u] = thread_state[u] /\ (HasState(u)' <=> HasState(u))
  BY <1>1, <1>2 DEF FixtureTypeInv, FixtureTypeOK, HasState
<1>4. \A a : Unowned(a) => Unowned(a)'
  BY <1>1, <1>2 DEF Unowned, KeptAt
<1>5. ASSUME state # Null
      PROVE  state \in Addr /\ state \notin heap /\ Unowned(state)'
  <2>1. state \in Addr /\ state \notin heap /\ state \in heap'
    BY <1>1, <1>5, FixtureAssumption
  <2>2. \A k \in OwnerKind, u \in Thread \cup {NoThread}, i \in Nat : ~Owns(k, u, i, state)
    BY <2>1 DEF BaseInv, OwnerInv
  <2>3. /\ state \notin held
        /\ \A u \in Thread : state \notin KeptAt(pc[u], call[u])
        /\ \A u \in Thread : answer[u] # NoAnswer => answer[u].storage # state
    BY <2>2, OwnedBy DEF OwnerKind
  <2>4. \A u \in Thread : \A i \in 1 .. Len(guards[u]) : guards[u][i].token # state
    <3> SUFFICES ASSUME NEW u \in Thread, NEW i \in 1 .. Len(guards[u])
                 PROVE  guards[u][i].token # state
      OBVIOUS
    <3>1. i \in Nat
      OBVIOUS
    <3> QED BY <2>2, <3>1, OwnedBy DEF OwnerKind
  <2> QED BY <1>2, <2>1, <2>3, <2>4 DEF Unowned, KeptAt
<1>6. \A u \in TestThread : HasState(u) => Unowned(thread_state[u]) /\ thread_state[u] \in heap
  BY DEF StateInv, Unowned
<1>7. HasState(t)' => state # Null
  BY <1>3 DEF HasState
<1> SUFFICES ASSUME NEW u \in TestThread, HasState(u)'
             PROVE  /\ Unowned(thread_state[u])'
                    /\ \A v \in TestThread \ {u} : HasState(v)' => thread_state'[v] # thread_state'[u]
  BY DEF StateInv
<1>8. Unowned(thread_state[u])'
  <2>1. CASE u = t
    <3>1. \A a : a = state => Unowned(a)'
      BY <1>5, <1>7, <2>1
    <3>2. thread_state'[u] = state
      BY <1>3, <2>1
    <3> QED BY <3>1, <3>2 DEF Unowned
  <2>2. CASE u # t
    <3>1. \A a : a = thread_state[u] => Unowned(a)'
      BY <1>3, <1>4, <1>6, <2>2
    <3>2. thread_state'[u] = thread_state[u]
      BY <1>3, <2>2
    <3> QED BY <3>1, <3>2 DEF Unowned
  <2> QED BY <2>1, <2>2
<1>9. \A v \in TestThread \ {u} : HasState(v)' => thread_state'[v] # thread_state'[u]
  BY <1>3, <1>5, <1>6, <1>7 DEF StateInv
<1> QED BY <1>8, <1>9

LEMMA StateUnowned ==
  ASSUME BaseInv, FixtureTypeInv, StateInv, [FixtureNext]_test_vars,
         ~\E t \in TestThread : AddThread(t),
         NEW u \in TestThread, HasState(u), HasState(u)', NEW a, a = thread_state[u]
  PROVE  Unowned(a)'
<1>1. Unowned(a) /\ a \in Addr /\ a # Null
  BY ConstantTypes, LedgerAssumption DEF StateInv, HasState, FixtureTypeInv, FixtureTypeOK, Pointer
<1>2. CASE [Next]_vars
  BY <1>1, <1>2, UnownedStays DEF BaseInv
<1>3. ASSUME NEW t \in TestThread, WorkloadCalls(t)
      PROVE  Unowned(a)'
  <2>1. PICK fn \in NextCalls(t), site \in Site \cup {NoCall}, arg \in Pointer, size \in Size :
          /\ Enter(t, fn, site, arg, size)
          /\ arg = Null \/ arg \in mine[t]
    BY <1>3, WorkloadEnters DEF BaseInv
  <2>2. EntersCall(t) /\ mine[t] \subseteq held
    BY <1>3, WorkloadEnters DEF BaseInv, FixtureTypeInv, FixtureTypeOK
  <2>3. a # arg
    BY <1>1, <2>1, <2>2 DEF Unowned
  <2> QED BY <1>1, <2>1, <2>2, <2>3, EntersSpares DEF BaseInv
<1>4. ASSUME NEW t \in TestThread, Leave(t)
      PROVE  Unowned(a)'
  <2>1. place[t] = "working" /\ place'[t] = "leaving"
    BY <1>4 DEF Leave, Moves, FixtureTypeInv, FixtureTypeOK
  <2>2. t # u
    BY <2>1 DEF HasState
  <2>3. a # thread_state[t]
    BY <1>1, <2>1, <2>2 DEF StateInv, HasState
  <2>4. EntersCall(t) /\ Enter(t, "free", NoCall, thread_state[t], 0)
    BY <1>4, LeaveEnters
  <2> QED BY <1>1, <2>3, <2>4, EntersSpares DEF BaseInv
<1> QED BY <1>2, <1>3, <1>4, FixtureSteps

LEMMA StateNext ==
  ASSUME BaseInv, FixtureTypeInv, StateInv, [FixtureNext]_test_vars
  PROVE  StateInv'
<1> SUFFICES ASSUME ~\E t \in TestThread : AddThread(t)
             PROVE  StateInv'
  BY AddThreadStates
<1>1. UNCHANGED thread_state /\ \A t \in TestThread : HasState(t)' => HasState(t)
  BY StatesMove
<1>2. ASSUME NEW u \in TestThread, HasState(u)'
      PROVE  \A a : a = thread_state[u] => Unowned(a)'
  BY <1>1, <1>2, StateUnowned
<1> QED BY <1>1, <1>2, StatesStay

(* HeapWatcher's invariants, the test's types and who has a thread's block. *)
OwnershipInv == BaseInv /\ FixtureTypeInv /\ StateInv

LEMMA OwnershipInit == FixtureInit => OwnershipInv
<1> SUFFICES ASSUME FixtureInit PROVE OwnershipInv
  OBVIOUS
<1>1. Init
  BY DEF FixtureInit
<1>2. BaseInv
  <2>1. CallInv
    BY <1>1 DEF Init, InitWith, CallInv, InCall
  <2> QED BY <1>1, <2>1, TypeInit, ControlInit, GuardInit, QueueInit, OwnerInit DEF BaseInv
<1>3. FixtureTypeInv
  BY <1>1, EmptySeq, ConstantTypes DEF FixtureInit, FixtureTypeInv, FixtureTypeOK, AddedInv, Pointer
<1>4. StateInv
  BY DEF FixtureInit, StateInv, HasState
<1> QED BY <1>2, <1>3, <1>4 DEF OwnershipInv

LEMMA OwnershipNext ==
  ASSUME OwnershipInv, [FixtureNext]_test_vars
  PROVE  OwnershipInv'
BY BaseNext, FixtureTypeNext, StateNext DEF OwnershipInv, BaseInv

(***************************************************************************)
(* Every variable of a test keeps its type: a block that a workload frees  *)
(* or reallocates is one the application holds, and two threads never have *)
(* the same block, whatever the workloads do (TestWorkloads.cpp).          *)
(***************************************************************************)
THEOREM FixtureTypesHold == FixtureSpec => []FixtureTypeOK
<1>1. FixtureInit => OwnershipInv
  BY OwnershipInit
<1>2. OwnershipInv /\ [FixtureNext]_test_vars => OwnershipInv'
  BY OwnershipNext
<1>3. OwnershipInv => FixtureTypeOK
  BY DEF OwnershipInv, FixtureTypeInv
<1> QED
  BY <1>1, <1>2, <1>3, PTL DEF FixtureSpec

-----------------------------------------------------------------------------
(***************************************************************************)
(* The test has one session, and everything its threads do to the heap     *)
(* lies inside it: there is no thread before the session is open and none  *)
(* is left when it closes, and while it is open every thread is watched,   *)
(* Main but for its pauses.                                                *)
(***************************************************************************)
BeforeSession == stage = "new" \/ (stage = "ready" /\ pc[Main] \in {"start", "clear", "install"})

InSession == \/ stage \in {"ready", "adding", "joining"} /\ pc[Main] \in {"idle"} \cup InCall
             \/ stage = "checking" /\ pc[Main] = "stop"

AfterSession == stage = "checking" /\ pc[Main] \in {"uninstall", "drain", "idle"}

StageInv ==
  /\ BeforeSession \/ InSession \/ AfterSession
  /\ stage \in {"new", "adding", "joining"} => pc[Main] = "idle"
  /\ BeforeSession => Pending \subseteq {ClearRequest} /\ \A t \in TestThread : place[t] = "none"
  /\ InSession => watching_globally
  /\ stage = "checking" => AllJoined
  /\ guards[Main] # <<>> => stage = "adding" /\ Len(guards[Main]) = 1
  /\ \A t \in TestThread : guards[t] = <<>>

(* A test thread is in a heap call only while it works or leaves. *)
WorkersInv ==
  \A t \in TestThread :
    /\ pc[t] \in {"idle"} \cup InCall
    /\ pc[t] # "idle" => place[t] \in {"working", "leaving"}
    /\ place[t] = "leaving" /\ pc[t] # "idle" => call[t].fn = "free"

(* Every call is instrumented, and no release goes unrecorded; only a block *)
(* that realloc or free was given is a call's argument.                    *)
RecordedInv ==
  /\ doubtful = {}
  /\ \A t \in Thread : pc[t] \in InCall =>
       /\ call[t].hook = "multi"
       /\ pc[t] = "count" => call[t].fn \in Acquiring
       /\ call[t].fn \in Acquiring => call[t].arg = Null
  /\ pc[Main] \in InCall => call[Main].fn = "free"

SessionInv == OwnershipInv /\ StageInv /\ WorkersInv /\ RecordedInv

LEMMA SessionTypes ==
  ASSUME SessionInv
  PROVE  TypeInv /\ HookInv /\ CallInv /\ GuardInv /\ QueueInv /\ OwnerInv /\ FixtureTypeInv
           /\ StageInv /\ WorkersInv /\ RecordedInv
BY DEF SessionInv, OwnershipInv, BaseInv

(* A test thread that does something does it in the session. *)
LEMMA ThreadsAreInSession ==
  ASSUME StageInv, NEW t \in TestThread, place[t] \notin {"none", "ended"}
  PROVE  InSession /\ ~BeforeSession /\ ~AfterSession /\ stage # "checking"
BY DEF StageInv, AllJoined, InSession, BeforeSession, AfterSession

LEMMA CallsAreInSession ==
  ASSUME SessionInv, NEW t \in Thread, pc[t] \in InCall
  PROVE  InSession /\ ~BeforeSession /\ ~AfterSession /\ stage # "checking" /\ WatchingThisThread(t)
<1>1. InSession /\ ~BeforeSession /\ ~AfterSession /\ stage # "checking" /\ guards[t] = <<>>
  <2>1. CASE t = Main
    BY <2>1, SessionTypes DEF StageInv, InSession, BeforeSession, AfterSession, InCall
  <2>2. CASE t \in TestThread
    <3>1. place[t] \in {"working", "leaving"}
      BY <2>2, SessionTypes DEF WorkersInv, InCall
    <3> QED BY <2>2, <3>1, SessionTypes, ThreadsAreInSession DEF StageInv
  <2> QED BY <2>1, <2>2, FixtureConstants
<1> QED
  BY <1>1, SessionTypes DEF StageInv, GuardInv, PausesNest, WatchingThisThread

LEMMA HooksAreIn ==
  ASSUME SessionInv, InSession
  PROVE  \A fn \in HeapFunction : hooks[fn] = "multi"
<1>1. \A t \in Thread : pc[t] \notin InMutex
  BY SessionTypes, FixtureConstants DEF InSession, WorkersInv, InMutex, InCall
<1>2. command_mutex = NoThread /\ watching_globally
  BY <1>1, SessionTypes DEF HookInv, ControlType, MutexHeld, StageInv
<1> QED
  BY <1>2, SessionTypes DEF HookInv, FlagMatchesHooks, Stored

(* What a call under way may do next. *)
LEMMA CallSteps ==
  ASSUME SessionInv, NEW t \in Thread, HeapCall(t), pc[t] \in InCall
  PROVE  \E where \in {"idle"} \cup InCall, c \in Call \cup {NoCall} :
           /\ CallBecomes(t, where, c)
           /\ where # "idle" => /\ c \in Call
                                /\ c.fn = call[t].fn /\ c.arg = call[t].arg
                                /\ c.size = call[t].size /\ c.hook = call[t].hook
                                /\ c.site = call[t].site
           /\ \/ pc[t] = "libc" /\ where = "check" /\ Libc(t, c)
              \/ /\ pc[t] = "check" /\ where \in {"count", "enqueue"}
                 /\ c.result = call[t].result
                 /\ where = "count" => c.fn \in Acquiring
                 /\ UNCHANGED <<heap_vars, history_vars, worker_request_queue>>
              \/ /\ pc[t] = "count" /\ where = "idle" /\ c = NoCall
                 /\ held' = held \cup Given(call[t])
                 /\ UNCHANGED <<heap, history_vars, worker_request_queue>>
              \/ pc[t] = "enqueue" /\ where = "idle" /\ c = NoCall /\ EnqueueRecord(t)
<1>1. /\ call[t] \in Call /\ call[t].hook = "multi" /\ WatchingThisThread(t)
      /\ pc[t] = "count" => call[t].fn \in Acquiring
  BY SessionTypes, CallsAreInSession DEF TypeInv, InCallHasCall, RecordedInv
<1>2. ~BeginCall(t) /\ ~CheckUnwatched(t)
  BY <1>1 DEF BeginCall, CheckUnwatched, InCall
<1>3. CASE LibcMalloc(t) \/ LibcRealloc(t) \/ LibcFree(t)
  <2>1. PICK c \in Call : /\ pc[t] = "libc" /\ Libc(t, c) /\ c.fn = call[t].fn /\ c.arg = call[t].arg
                          /\ c.size = call[t].size /\ c.hook = call[t].hook
                          /\ c.site = call[t].site
    <3>1. CASE LibcFree(t)
      BY <1>1, <3>1 DEF LibcFree
    <3>2. CASE LibcMalloc(t) \/ LibcRealloc(t)
      <4>1. PICK a : pc[t] = "libc" /\ Libc(t, [call[t] EXCEPT !.result = a])
                     /\ a \in Fresh \cup {Null, call[t].arg}
        BY <3>2 DEF LibcMalloc, LibcRealloc
      <4>2. a \in Pointer
        BY <1>1, <4>1, CallParts DEF Fresh, Pointer
      <4> DEFINE c == [call[t] EXCEPT !.result = a]
      <4>3. /\ c \in Call /\ c.fn = call[t].fn /\ c.arg = call[t].arg
            /\ c.size = call[t].size /\ c.hook = call[t].hook /\ c.site = call[t].site
        BY <1>1, <4>2 DEF Call
      <4> QED BY <4>1, <4>3
    <3> QED BY <1>3, <3>1, <3>2
  <2>2. CallBecomes(t, "check", c)
    BY <1>1, <2>1 DEF Libc, GoTo, CallBecomes
  <2> QED BY <2>1, <2>2 DEF InCall
<1>4. CASE CheckWatched(t)
  <2>1. PICK seen \in Nat, where \in {"count", "enqueue"} :
          /\ CallBecomes(t, where, [call[t] EXCEPT !.seen = seen])
          /\ where = "count" => call[t].fn \in Acquiring
    BY <1>4, SessionTypes DEF CheckWatched, CallBecomes, GoTo, IgnoresCall, TypeInv, Types
  <2> DEFINE c == [call[t] EXCEPT !.seen = seen]
  <2>2. /\ c \in Call /\ c.fn = call[t].fn /\ c.arg = call[t].arg /\ c.result = call[t].result
        /\ c.size = call[t].size /\ c.hook = call[t].hook /\ c.site = call[t].site
    BY <1>1 DEF Call
  <2>3. pc[t] = "check" /\ UNCHANGED <<heap_vars, history_vars, worker_request_queue>>
    BY <1>4 DEF CheckWatched
  <2> HIDE DEF c
  <2> QED BY <2>1, <2>2, <2>3 DEF InCall, c
<1>5. CASE CountKnownLeak(t)
  <2>1. ReleasedBy(call[t]) = {}
    BY <1>1, <1>5 DEF CountKnownLeak, ReleasedBy, Acquiring
  <2>2. CallBecomes(t, "idle", NoCall) /\ held' = held \cup Given(call[t])
        /\ UNCHANGED <<heap, history_vars, worker_request_queue>>
    BY <1>5, <2>1 DEF CountKnownLeak, ReturnUnrecorded, Return, GoTo, CallBecomes, history_vars
  <2> QED BY <1>5, <2>2 DEF CountKnownLeak
<1>6. CASE EnqueueRecord(t)
  <2>1. CallBecomes(t, "idle", NoCall) /\ pc[t] = "enqueue"
    BY <1>6 DEF EnqueueRecord, Return, GoTo, CallBecomes
  <2> QED BY <1>6, <2>1
<1> QED
  BY <1>2, <1>3, <1>4, <1>5, <1>6 DEF HeapCall

(***************************************************************************)
(* The stages follow each other.                                           *)
(***************************************************************************)
LEMMA ThreadFrame ==
  ASSUME SessionInv, NEW t \in TestThread, WorkerGoesOn(t)
  PROVE  /\ UNCHANGED <<stage, started, adding, workload, thread_state, guards, answer, hook_vars>>
         /\ place[t] \in {"waiting", "working", "leaving"}
         /\ \A u \in Thread \ {t} : pc'[u] = pc[u] /\ call'[u] = call[u]
         /\ \A u \in TestThread \ {t} : place'[u] = place[u] /\ made'[u] = made[u]
<1>1. CASE Begin(t) \/ End(t)
  BY <1>1, SessionTypes DEF Begin, End, Moves, vars, FixtureTypeInv, FixtureTypeOK
<1>2. CASE WorkloadCalls(t) \/ Leave(t)
  <2>1. EntersCall(t)
    BY <1>2, SessionTypes, WorkloadEnters, LeaveEnters
  <2>2. \A u \in Thread \ {t} : pc'[u] = pc[u] /\ call'[u] = call[u]
    BY <2>1, SessionTypes DEF EntersCall, Enter, GoTo, TypeInv, Types
  <2>3. /\ UNCHANGED <<stage, started, adding, workload, thread_state>> /\ place[t] = "working"
        /\ \A u \in TestThread \ {t} : place'[u] = place[u] /\ made'[u] = made[u]
    BY <1>2, SessionTypes DEF WorkloadCalls, Leave, Moves, FixtureTypeInv, FixtureTypeOK
  <2> QED BY <2>1, <2>2, <2>3 DEF EntersCall
<1>3. CASE InHeapCall(t)
  <2>1. t \in Thread /\ HeapCall(t) /\ pc[t] \in InCall /\ place[t] \in {"working", "leaving"}
    BY <1>3, SessionTypes, FixtureConstants DEF InHeapCall, WorkersInv, InCall
  <2>2. UNCHANGED <<guards, answer, hook_vars>>
    BY <2>1, HeapCallControl DEF HeapCall, BeginCall, LibcMalloc, LibcRealloc, LibcFree, Libc,
       CheckUnwatched, CheckWatched, CountKnownLeak, EnqueueRecord
  <2>3. \A u \in Thread \ {t} : pc'[u] = pc[u] /\ call'[u] = call[u]
    BY <2>1, SessionTypes, CallSteps DEF CallBecomes, TypeInv, Types
  <2> QED BY <1>3, <2>1, <2>2, <2>3 DEF InHeapCall
<1> QED BY <1>1, <1>2, <1>3 DEF WorkerGoesOn

LEMMA StageCommand ==
  ASSUME SessionInv, MainGoesOn, CommandStep(Main)
  PROVE  StageInv'
<1> USE FixtureConstants DEF BeforeSession, InSession, AfterSession
<1>1. StageInv /\ pc \in [Thread -> {"idle"} \cup InCall \cup InCommand] /\ TypeInv
  BY SessionTypes DEF TypeInv, Types
<1>2. UNCHANGED <<stage, place, guards>>
  BY DEF MainGoesOn, fixture_vars, CommandStep, StartLock, StartCleared, StartStoreHook,
         StartWatching, StopLock, StopStoreHook, StopAsk, StopReturn, AskReturn, unchanged_by_commands
<1>3. UNCHANGED worker_request_queue => Pending' = Pending
  BY DEF Pending, QueueRange
<1>4. CASE StartLock(Main)
  <2>1. pc[Main] = "start" /\ UNCHANGED watching_globally /\ pc'[Main] \in {"clear", "idle"}
        /\ (pc'[Main] = "idle" => watching_globally)
    BY <1>1, <1>4 DEF StartLock, GoTo, AlreadyWatching
  <2>2. stage = "ready" /\ BeforeSession
    BY <1>1, <2>1 DEF StageInv, InCall
  <2>3. Pending' \subseteq {ClearRequest}
    BY <1>1, <1>3, <1>4, <2>2, PendingGrows, CommandRequests DEF StartLock, StageInv
  <2> QED BY <1>1, <1>2, <2>1, <2>2, <2>3 DEF StageInv, InCall
<1>5. CASE StartCleared(Main) \/ StartStoreHook(Main) \/ StartWatching(Main)
  <2>1. /\ pc[Main] \in {"clear", "install"} /\ pc'[Main] \in {"install", "idle"}
        /\ pc'[Main] = "install" => UNCHANGED watching_globally
        /\ pc'[Main] = "idle" => watching_globally'
        /\ UNCHANGED worker_request_queue
    BY <1>1, <1>5 DEF StartCleared, StartStoreHook, StartWatching, GoTo, hook_vars
  <2>2. stage = "ready" /\ BeforeSession
    BY <1>1, <2>1 DEF StageInv, InCall
  <2> QED BY <1>1, <1>2, <1>3, <2>1, <2>2 DEF StageInv, InCall
<1>6. CASE StopLock(Main) \/ StopStoreHook(Main) \/ StopAsk(Main) \/ StopReturn(Main)
  <2>1. pc[Main] \in {"stop", "uninstall", "drain"} /\ pc'[Main] \in {"uninstall", "drain", "idle"}
    BY <1>1, <1>6 DEF StopLock, StopStoreHook, StopAsk, StopReturn, TakeAnswer, GoTo
  <2>2. stage = "checking"
    BY <1>1, <2>1 DEF StageInv, InCall
  <2> QED BY <1>1, <1>2, <2>1, <2>2 DEF StageInv, AllJoined
<1>7. ~AskReturn(Main)
  BY <1>1 DEF AskReturn, StageInv, InCall
<1> QED BY <1>4, <1>5, <1>6, <1>7 DEF CommandStep

LEMMA StageNext ==
  ASSUME SessionInv, [FixtureNext]_test_vars
  PROVE  StageInv'
<1> USE FixtureConstants DEF BeforeSession, InSession, AfterSession
<1>1. StageInv /\ TypeInv /\ pc \in [Thread -> {"idle"} \cup InCall \cup InCommand]
  BY SessionTypes DEF TypeInv, Types
<1>2. UNCHANGED worker_request_queue => Pending' = Pending
  BY DEF Pending, QueueRange
<1>3. CASE LedgerGoesOn
  <2>1. UNCHANGED <<pc, guards, watching_globally, fixture_vars>> /\ \E t \in Thread : WorkerHandles(t)
    BY <1>3 DEF LedgerGoesOn, Worker, WorkerHandles, hook_vars
  <2>2. Pending' \subseteq Pending
    BY <1>1, <2>1, PendingShrinks
  <2> QED BY <1>1, <2>1, <2>2 DEF StageInv, AllJoined, fixture_vars
<1>4. ASSUME NEW t \in TestThread, WorkerGoesOn(t)
      PROVE  StageInv'
  <2>1. /\ UNCHANGED <<stage, guards, watching_globally>> /\ pc'[Main] = pc[Main]
        /\ InSession /\ ~BeforeSession /\ ~AfterSession /\ stage # "checking"
    BY <1>1, <1>4, ThreadFrame, ThreadsAreInSession DEF hook_vars
  <2> QED BY <1>1, <2>1 DEF StageInv
<1>5. ASSUME NEW t \in TestThread, AddThread(t)
      PROVE  StageInv'
  <2>1. stage = "adding" /\ UNCHANGED <<stage, guards, watching_globally, pc>>
    BY <1>5 DEF AddThread, Stage, hook_vars
  <2> QED BY <1>1, <2>1 DEF StageInv
<1>6. CASE Construct \/ StopWatching
  <2>1. /\ UNCHANGED <<guards, watching_globally, place, worker_request_queue>>
        /\ \/ stage = "new" /\ stage' = "ready" /\ pc'[Main] = "start"
           \/ stage = "joining" /\ stage' = "checking" /\ pc'[Main] = "stop" /\ AllJoined
    BY <1>1, <1>6 DEF Construct, StopWatching, Stage, CallStart, CallStop, GoTo, unchanged_by_stage,
                      unchanged_by_commands, hook_vars
  <2> QED BY <1>1, <1>2, <2>1 DEF StageInv, AllJoined, InCall
<1>7. CASE BeginAdding
  <2>1. /\ stage = "ready" /\ stage' = "adding" /\ pc[Main] = "idle" /\ UNCHANGED <<pc, watching_globally>>
        /\ Pause(Main)
    BY <1>7 DEF BeginAdding, Stage, Pause, hook_vars
  <2>2. PICK token \in Pointer :
          guards' = [guards EXCEPT ![Main] = Append(@, [token |-> token, saved |-> watching_thread[Main]])]
    BY <1>1, <2>1 DEF Pause, Pointer, TypeInv, Types
  <2> DEFINE guard == [token |-> token, saved |-> watching_thread[Main]]
  <2>3. guard \in [token : Pointer, saved : BOOLEAN]
    BY <1>1 DEF TypeInv, Types
  <2>4. /\ guards'[Main] = Append(guards[Main], guard) /\ guards[Main] \in Seq([token : Pointer, saved : BOOLEAN])
        /\ \A t \in TestThread : guards'[t] = guards[t]
    BY <1>1, <2>2 DEF TypeInv, Types
  <2>5. guards[Main] = <<>>
    BY <1>1, <2>1 DEF StageInv
  <2> HIDE DEF guard
  <2>6. Len(guards'[Main]) = 1
    BY <2>3, <2>4, <2>5, AppendProperties, EmptySeq
  <2> QED BY <1>1, <2>1, <2>4, <2>6 DEF StageInv
<1>8. CASE EndAdding
  <2>1. /\ stage = "adding" /\ stage' = "ready" /\ pc'[Main] = "libc" /\ UNCHANGED watching_globally
        /\ guards' = [guards EXCEPT ![Main] = SubSeq(@, 1, Len(@) - 1)] /\ guards[Main] # <<>>
    BY <1>1, <1>8 DEF EndAdding, Stage, Resume, Enter, GoTo, hook_vars
  <2>2. Len(guards[Main]) = 1 /\ guards[Main] \in Seq([token : Pointer, saved : BOOLEAN])
    BY <1>1, <2>1 DEF StageInv, TypeInv, Types
  <2>3. Len(SubSeq(guards[Main], 1, Len(guards[Main]) - 1)) = 0
    BY <2>1, <2>2, PopType
  <2>4. SubSeq(guards[Main], 1, Len(guards[Main]) - 1) = <<>>
    BY <2>1, <2>2, <2>3, PopType, EmptySeq
  <2>5. guards'[Main] = <<>> /\ \A t \in TestThread : guards'[t] = guards[t]
    BY <1>1, <2>1, <2>4 DEF TypeInv, Types
  <2> QED BY <1>1, <2>1, <2>5 DEF StageInv, InCall
<1>9. CASE StartWorkload \/ GoOutOfScope
  <2>1. /\ stage = "ready" /\ pc[Main] = "idle" /\ stage' \in {"ready", "joining"}
        /\ UNCHANGED <<pc, guards, watching_globally>>
    BY <1>9 DEF StartWorkload, GoOutOfScope, Stage, vars, hook_vars
  <2> QED BY <1>1, <2>1 DEF StageInv
<1>10. CASE MainGoesOn
  <2>1. CASE HeapCall(Main) /\ pc[Main] \in InCall
    <3>1. /\ UNCHANGED <<stage, guards, watching_globally>> /\ pc'[Main] \in {"idle"} \cup InCall
      BY <1>1, <1>10, <2>1, HeapCallControl
      DEF MainGoesOn, fixture_vars, hook_vars, HeapCall, BeginCall, LibcMalloc, LibcRealloc, LibcFree,
          Libc, CheckUnwatched, CheckWatched, CountKnownLeak, EnqueueRecord
    <3>2. stage = "ready"
      BY <1>1, <2>1 DEF StageInv, InCall
    <3> QED BY <1>1, <2>1, <3>1, <3>2 DEF StageInv, InCall
  <2> QED BY <1>10, <2>1, StageCommand DEF MainGoesOn, Progress
<1>11. CASE UNCHANGED test_vars
  <2>1. UNCHANGED <<pc, guards, watching_globally, stage, place, worker_request_queue>>
    BY <1>11 DEF test_vars, vars, fixture_vars, hook_vars
  <2> QED BY <1>1, <1>2, <2>1 DEF StageInv, AllJoined
<1> QED
  BY <1>3, <1>4, <1>5, <1>6, <1>7, <1>8, <1>9, <1>10, <1>11 DEF FixtureNext, Test

(***************************************************************************)
(* The other steps leave the test threads where they are.                  *)
(***************************************************************************)
LEMMA MainFrame ==
  ASSUME SessionInv, [FixtureNext]_test_vars, ~\E u \in TestThread : WorkerGoesOn(u)
  PROVE  \A t \in TestThread :
           /\ pc'[t] = pc[t] /\ call'[t] = call[t] /\ made'[t] = made[t] /\ mine'[t] = mine[t]
           /\ place'[t] = place[t] \/ (place[t] = "none" /\ place'[t] = "waiting")
<1>1. /\ TypeInv /\ pc \in [Thread -> {"idle"} \cup InCall \cup InCommand]
      /\ call \in [Thread -> Call \cup {NoCall}]
      /\ place \in [TestThread -> {"none", "waiting", "working", "leaving", "ended"}]
      /\ Main \notin TestThread /\ TestThread \subseteq Thread /\ Main \in Thread
  BY SessionTypes, FixtureConstants DEF TypeInv, Types, FixtureTypeInv, FixtureTypeOK
<1>2. CASE LedgerGoesOn \/ UNCHANGED test_vars
  BY <1>2 DEF LedgerGoesOn, Worker, WorkerHandles, fixture_vars, test_vars, vars
<1>3. CASE Construct \/ BeginAdding \/ EndAdding \/ StartWorkload \/ GoOutOfScope \/ StopWatching
  <2>1. UNCHANGED <<made, mine, place>>
    BY <1>3 DEF Construct, BeginAdding, EndAdding, StartWorkload, GoOutOfScope, StopWatching,
                unchanged_by_stage
  <2>2. \/ UNCHANGED <<pc, call>>
        \/ \E where : GoTo(Main, where) /\ (UNCHANGED call \/ \E c : call' = [call EXCEPT ![Main] = c])
    BY <1>3 DEF Construct, BeginAdding, EndAdding, StartWorkload, GoOutOfScope, StopWatching,
                CallStart, CallStop, Pause, Resume, Enter, unchanged_by_commands, vars
  <2> QED BY <1>1, <2>1, <2>2 DEF GoTo
<1>4. ASSUME NEW u \in TestThread, AddThread(u)
      PROVE  /\ UNCHANGED <<pc, call, made, mine>>
             /\ \A t \in TestThread : place'[t] = place[t] \/ (place[t] = "none" /\ place'[t] = "waiting")
  BY <1>1, <1>4 DEF AddThread
<1>5. CASE MainGoesOn
  <2>1. UNCHANGED <<made, mine, place>>
    BY <1>5 DEF MainGoesOn, fixture_vars
  <2>2. CASE HeapCall(Main) /\ pc[Main] \in InCall
    <3>1. \E where, c : CallBecomes(Main, where, c)
      BY <1>1, <2>2, CallSteps
    <3> QED BY <1>1, <2>1, <3>1 DEF CallBecomes
  <2>3. CASE CommandStep(Main)
    <3>1. UNCHANGED call /\ (UNCHANGED pc \/ \E where : GoTo(Main, where))
      BY <2>3 DEF CommandStep, StartLock, StartCleared, StartStoreHook, StartWatching, StopLock,
         StopStoreHook, StopAsk, StopReturn, AskReturn, TakeAnswer, unchanged_by_commands
    <3> QED BY <1>1, <2>1, <3>1 DEF GoTo
  <2> QED BY <1>5, <2>2, <2>3 DEF MainGoesOn, Progress
<1> QED
  BY <1>2, <1>3, <1>4, <1>5 DEF FixtureNext, Test

LEMMA WorkersNext ==
  ASSUME SessionInv, [FixtureNext]_test_vars
  PROVE  WorkersInv'
<1>1. /\ WorkersInv /\ TypeInv /\ FixtureTypeInv
      /\ pc \in [Thread -> {"idle"} \cup InCall \cup InCommand]
      /\ call \in [Thread -> Call \cup {NoCall}]
      /\ place \in [TestThread -> {"none", "waiting", "working", "leaving", "ended"}]
      /\ TestThread \subseteq Thread
  BY SessionTypes, FixtureConstants DEF TypeInv, Types, FixtureTypeInv, FixtureTypeOK
<1>2. CASE ~\E u \in TestThread : WorkerGoesOn(u)
  BY <1>1, <1>2, MainFrame DEF WorkersInv
<1>3. ASSUME NEW t \in TestThread, WorkerGoesOn(t)
      PROVE  WorkersInv'
  <2>1. \A u \in TestThread \ {t} : pc'[u] = pc[u] /\ call'[u] = call[u] /\ place'[u] = place[u]
    BY <1>1, <1>3, ThreadFrame
  <2>2. CASE Begin(t) \/ End(t)
    <3>1. pc' = pc /\ pc[t] = "idle"
      BY <2>2 DEF Begin, End, Moves, vars
    <3> QED BY <1>1, <2>1, <3>1 DEF WorkersInv
  <2>3. CASE WorkloadCalls(t)
    <3>1. pc'[t] = "libc" /\ place'[t] = "working"
      BY <1>1, <2>3, WorkloadEnters DEF EntersCall, Enter, GoTo
    <3> QED BY <1>1, <2>1, <3>1 DEF WorkersInv, InCall
  <2>4. CASE Leave(t)
    <3>1. pc'[t] = "libc" /\ place'[t] = "leaving" /\ call'[t].fn = "free"
      BY <1>1, <2>4 DEF Leave, Moves, Enter, GoTo
    <3> QED BY <1>1, <2>1, <3>1 DEF WorkersInv, InCall
  <2>5. CASE InHeapCall(t)
    <3>1. pc[t] \in InCall /\ HeapCall(t) /\ place' = place
      BY <2>5 DEF InHeapCall
    <3>2. PICK where \in {"idle"} \cup InCall, c \in Call \cup {NoCall} :
            CallBecomes(t, where, c) /\ (where # "idle" => c.fn = call[t].fn)
      BY <1>1, <3>1, CallSteps
    <3>3. pc'[t] = where /\ call'[t] = c /\ pc[t] # "idle"
      BY <1>1, <3>1, <3>2 DEF CallBecomes, InCall
    <3> QED BY <1>1, <2>1, <3>1, <3>2, <3>3 DEF WorkersInv
  <2> QED BY <1>3, <2>2, <2>3, <2>4, <2>5 DEF WorkerGoesOn
<1> QED BY <1>2, <1>3

(***************************************************************************)
(* No record is left over when the session opens.                          *)
(***************************************************************************)
LEMMA ClearedBefore ==
  ASSUME SessionInv, NEW t \in Thread, WorkerHandles(t), Head(worker_request_queue[t]) = ClearRequest
  PROVE  BeforeSession
<1>1. pc[t] = "clear"
  <2>1. worker_request_queue[t] \in Seq(RequestRecord) /\ worker_request_queue[t] # <<>>
    BY SessionTypes DEF WorkerHandles, Ready, TypeInv, Types
  <2>2. 1 \in 1 .. Len(worker_request_queue[t]) /\ worker_request_queue[t][1] = ClearRequest
    BY <2>1, HeadTailProperties, EmptySeq
  <2> QED BY <2>2, SessionTypes DEF QueueInv, CommandsWaited, Asked
<1>2. t = Main
  BY <1>1, SessionTypes, FixtureConstants DEF WorkersInv, InCall
<1> QED
  BY <1>1, <1>2, SessionTypes DEF StageInv, InSession, AfterSession, InCall

LEMMA NothingIsLeftOver ==
  ASSUME SessionInv, NEW t \in Thread, WorkerHandles(t), Head(worker_request_queue[t]) = ClearRequest
  PROVE  LeftOver = {}
<1>1. BeforeSession
  BY ClearedBefore
<1>2. Pending \subseteq {ClearRequest}
  BY <1>1, SessionTypes DEF StageInv
<1>3. \A u \in Thread : pc[u] \notin InCall
  BY <1>1, CallsAreInSession
<1>4. InFlight = {}
  BY <1>3 DEF InFlight, InCall
<1>5. \A r \in Pending : Mentioned(r) = {}
  BY <1>2 DEF Mentioned, ClearRequest
<1> QED BY <1>4, <1>5 DEF LeftOver

LEMMA CallRecorded ==
  ASSUME TypeInv, RecordedInv, UNCHANGED doubtful, NEW t \in Thread, NEW where, NEW c,
         CallBecomes(t, where, c),
         where \in InCall => /\ c.hook = "multi"
                             /\ where = "count" => c.fn \in Acquiring
                             /\ c.fn \in Acquiring => c.arg = Null
                             /\ t = Main => c.fn = "free"
  PROVE  RecordedInv'
<1>1. /\ pc'[t] = where /\ call'[t] = c
      /\ \A u \in Thread \ {t} : pc'[u] = pc[u] /\ call'[u] = call[u]
  BY DEF CallBecomes, TypeInv, Types
<1>2. Main \in Thread
  BY FixtureConstants
<1> QED
  BY <1>1, <1>2 DEF RecordedInv

LEMMA EnterRecorded ==
  ASSUME SessionInv, InSession, UNCHANGED doubtful, NEW t \in Thread,
         NEW fn \in HeapFunction, NEW site, NEW arg, NEW size, Enter(t, fn, site, arg, size),
         fn \in Acquiring => arg = Null, t = Main => fn = "free"
  PROVE  RecordedInv'
<1> DEFINE c == [fn |-> fn, hook |-> hooks[fn], site |-> site, arg |-> arg, size |-> size,
                 result |-> Null, seen |-> 0]
<1>1. CallBecomes(t, "libc", c) /\ c.hook = "multi" /\ c.fn = fn /\ c.arg = arg
  BY HooksAreIn DEF Enter, GoTo, CallBecomes
<1> HIDE DEF c
<1> QED
  BY <1>1, SessionTypes, CallRecorded

LEMMA RecordedCallGoesOn ==
  ASSUME SessionInv, NEW t \in Thread, HeapCall(t), pc[t] \in InCall
  PROVE  RecordedInv'
<1>1. /\ call[t].hook = "multi"
      /\ call[t].fn \in Acquiring => call[t].arg = Null
      /\ t = Main => call[t].fn = "free"
  BY SessionTypes DEF RecordedInv
<1>2. PICK where \in {"idle"} \cup InCall, c \in Call \cup {NoCall} :
        /\ CallBecomes(t, where, c)
        /\ where # "idle" => c.fn = call[t].fn /\ c.hook = call[t].hook /\ c.arg = call[t].arg
        /\ \/ where = "check" /\ Libc(t, c)
           \/ where \in {"count", "enqueue"} /\ UNCHANGED history_vars /\ (where = "count" => c.fn \in Acquiring)
           \/ where = "idle" /\ UNCHANGED history_vars
           \/ where = "idle" /\ EnqueueRecord(t)
  BY CallSteps
<1>3. UNCHANGED doubtful
  BY <1>1, <1>2 DEF Libc, EnqueueRecord, history_vars
<1>4. where \in InCall => where # "idle"
  BY DEF InCall
<1> QED
  BY <1>1, <1>2, <1>3, <1>4, SessionTypes, CallRecorded

LEMMA RecordedNext ==
  ASSUME SessionInv, [FixtureNext]_test_vars
  PROVE  RecordedInv'
<1>1. RecordedInv /\ TypeInv /\ FixtureTypeInv /\ TestThread \subseteq Thread /\ Main \in Thread
      /\ Main \notin TestThread /\ "free" \in HeapFunction
  BY SessionTypes, FixtureConstants DEF HeapFunction, StoreOrder
<1>2. ASSUME UNCHANGED <<call, doubtful>>, \A u \in Thread : pc'[u] # pc[u] => pc'[u] \notin InCall
      PROVE  RecordedInv'
  BY <1>1, <1>2 DEF RecordedInv
<1>3. CASE LedgerGoesOn
  <2>1. PICK t \in Thread : WorkerHandles(t)
    BY <1>3 DEF LedgerGoesOn, Worker
  <2> DEFINE r == Head(worker_request_queue[t])
  <2>2. r \in RequestRecord /\ (HandleRecord(r) \/ HandleCommand(t, r)) /\ UNCHANGED <<pc, call>>
    BY <1>1, <2>1, PendingShrinks DEF WorkerHandles
  <2>3. r = ClearRequest => LeftOver = {}
    BY <2>1, NothingIsLeftOver
  <2> HIDE DEF r
  <2>4. HandleCommand(t, r) /\ r.op = "CLEAR" => r = ClearRequest
    BY <2>2, RequestKinds
  <2>5. UNCHANGED doubtful
    BY <1>1, <2>2, <2>3, <2>4 DEF HandleRecord, HandleCommand, RecordedInv
  <2> QED BY <1>2, <2>2, <2>5
<1>4. ASSUME NEW t \in TestThread, WorkerGoesOn(t)
      PROVE  RecordedInv'
  <2>1. InSession /\ t # Main
    BY <1>1, <1>4, ThreadFrame, SessionTypes, ThreadsAreInSession
  <2>2. CASE Begin(t) \/ End(t)
    BY <1>2, <2>2 DEF Begin, End, vars, history_vars
  <2>3. CASE WorkloadCalls(t) \/ Leave(t)
    <3>1. EntersCall(t)
      BY <1>1, <2>3, WorkloadEnters, LeaveEnters
    <3>2. PICK fn \in Calls \cup {"free"} : \E site, arg, size :
                 Enter(t, fn, site, arg, size) /\ (fn \in Acquiring => arg = Null)
      <4>1. CASE WorkloadCalls(t)
        <5>1. workload[t] \in Workloads
          BY <1>1, <4>1 DEF WorkloadCalls, Moves, FixtureTypeInv, AddedInv
        <5> QED BY <1>1, <4>1, <5>1, WorkloadEnters, NextCallsAreUsed
      <4>2. CASE Leave(t)
        BY <1>1, <4>2, LeaveEnters DEF Acquiring
      <4> QED BY <2>3, <4>1, <4>2
    <3>3. fn \in HeapFunction /\ UNCHANGED doubtful
      BY <1>1, <3>1, ConstantTypes DEF EntersCall, history_vars
    <3> QED BY <1>1, <2>1, <3>2, <3>3, EnterRecorded
  <2>4. CASE InHeapCall(t)
    BY <1>1, <2>4, RecordedCallGoesOn DEF InHeapCall
  <2> QED BY <1>4, <2>2, <2>3, <2>4 DEF WorkerGoesOn
<1>5. CASE \E t \in TestThread : AddThread(t)
  BY <1>2, <1>5 DEF AddThread, history_vars
<1>6. CASE Construct \/ BeginAdding \/ StartWorkload \/ GoOutOfScope \/ StopWatching
  <2>1. /\ UNCHANGED <<call, doubtful>>
        /\ UNCHANGED pc \/ \E where \in {"start", "stop"} : GoTo(Main, where)
    BY <1>6 DEF Construct, BeginAdding, StartWorkload, GoOutOfScope, StopWatching, CallStart, CallStop,
                Pause, unchanged_by_commands, vars, history_vars
  <2>2. \A u \in Thread : pc'[u] # pc[u] => pc'[u] \notin InCall
    BY <1>1, <2>1 DEF GoTo, TypeInv, Types, InCall
  <2> QED BY <1>2, <2>1, <2>2
<1>7. CASE EndAdding
  <2>1. PICK token : Enter(Main, "free", NoCall, token, 0)
    BY <1>7 DEF EndAdding, Resume
  <2>2. UNCHANGED doubtful /\ InSession
    BY <1>7 DEF EndAdding, Resume, Stage, InSession, history_vars
  <2>3. "free" \notin Acquiring
    BY DEF Acquiring
  <2> QED BY <1>1, <2>1, <2>2, <2>3, EnterRecorded
<1>8. CASE MainGoesOn
  <2>1. CASE CommandStep(Main)
    <3>1. UNCHANGED <<call, doubtful>>
      BY <2>1 DEF CommandStep, StartLock, StartCleared, StartStoreHook, StartWatching, StopLock,
         StopStoreHook, StopAsk, StopReturn, AskReturn, unchanged_by_commands
    <3> QED BY <1>1, <1>2, <2>1, <3>1, CallFrame
  <2> QED BY <1>1, <1>8, <2>1, RecordedCallGoesOn DEF MainGoesOn, Progress
<1>9. CASE UNCHANGED test_vars
  BY <1>2, <1>9 DEF test_vars, vars, history_vars
<1> QED
  BY <1>3, <1>4, <1>5, <1>6, <1>7, <1>8, <1>9 DEF FixtureNext, Test

LEMMA SessionInit == FixtureInit => SessionInv
<1> SUFFICES ASSUME FixtureInit PROVE SessionInv
  OBVIOUS
<1>1. OwnershipInv /\ Init /\ TypeInv
  BY OwnershipInit DEF FixtureInit, OwnershipInv, BaseInv
<1>2. Pending = {}
  <2>1. \A t \in Thread : Len(worker_request_queue[t]) = 0
    BY <1>1, EmptySeq DEF Init, InitWith
  <2> QED BY <1>1, <2>1, PendingIs
<1>3. \A t \in Thread : pc[t] = "idle" /\ guards[t] = <<>>
  BY <1>1 DEF Init, InitWith
<1>4. StageInv
  BY <1>2, <1>3, FixtureConstants DEF FixtureInit, StageInv, BeforeSession, InSession
<1>5. WorkersInv /\ RecordedInv
  BY <1>1, <1>3, FixtureConstants DEF WorkersInv, RecordedInv, InCall, Init, InitWith
<1> QED BY <1>1, <1>4, <1>5 DEF SessionInv

LEMMA SessionNext ==
  ASSUME SessionInv, [FixtureNext]_test_vars
  PROVE  SessionInv'
BY OwnershipNext, StageNext, WorkersNext, RecordedNext DEF SessionInv

-----------------------------------------------------------------------------
(***************************************************************************)
(* Entries.  A thread passes its blocks to no other, so whatever entry a   *)
(* record of its makes is accounted for by itself: it still has the block, *)
(* or a later record of its ends the entry.  The balance of ReportProofs   *)
(* counts the records of all threads together; that the records of one     *)
(* block are in the order in which they were made needs this.              *)
(***************************************************************************)
Holds(t, a) ==
  \/ Releases(pc[t], call[t], a)
  \/ a \in KeptAt(pc[t], call[t])
  \/ t \in TestThread /\ a \in mine[t]

(* The entry that t's i-th record in the queue makes for a. *)
Accounted(t, a, i) ==
  \/ Holds(t, a)
  \/ \E j \in 1 .. Len(worker_request_queue[t]) : j > i /\ a \in Closes(worker_request_queue[t][j])

EntryInv ==
  \A a \in Addr :
    /\ \A t \in Thread : \A i \in 1 .. Len(worker_request_queue[t]) :
         a \in Opens(worker_request_queue[t][i]) => Accounted(t, a, i)
    /\ a \in Open => \E t \in Thread : Accounted(t, a, 0)

LEMMA EntriesStay ==
  ASSUME EntryInv, UNCHANGED worker_request_queue, Open' \subseteq Open,
         \A t \in Thread, a \in Addr : Holds(t, a) => Holds(t, a)'
  PROVE  EntryInv'
<1>1. \A t \in Thread, a \in Addr, i \in Int : Accounted(t, a, i) => Accounted(t, a, i)'
  BY DEF Accounted
<1> SUFFICES ASSUME NEW a \in Addr
             PROVE  /\ \A t \in Thread : \A i \in 1 .. Len(worker_request_queue[t]) :
                         a \in Opens(worker_request_queue[t][i]) => Accounted(t, a, i)'
                    /\ a \in Open' => \E t \in Thread : Accounted(t, a, 0)'
  BY DEF EntryInv
<1> QED
  BY <1>1 DEF EntryInv

LEMMA EntrySends ==
  ASSUME TypeInv, EntryInv, NEW t \in Thread, NEW r \in RequestRecord, Send(t, r), UNCHANGED allocations,
         \A u \in Thread, a \in Addr : Holds(u, a) => Holds(u, a)' \/ (u = t /\ a \in Closes(r)),
         \A a \in Addr : a \in Opens(r) => Holds(t, a)'
  PROVE  EntryInv'
<1> DEFINE queue == worker_request_queue[t]
           sent  == Append(queue, r)
<1>1. queue \in Seq(RequestRecord)
  BY DEF TypeInv, Types
<1>2. /\ Len(queue) \in Nat /\ Len(sent) = Len(queue) + 1
      /\ \A i \in 1 .. Len(queue) : sent[i] = queue[i]
      /\ sent[Len(queue) + 1] = r
  BY <1>1, AppendProperties, LenProperties
<1>3. /\ worker_request_queue'[t] = sent
      /\ \A u \in Thread \ {t} : worker_request_queue'[u] = worker_request_queue[u]
  BY DEF Send, TypeInv, Types
<1> HIDE DEF sent
<1>4. ASSUME NEW a \in Addr, NEW i \in Nat, i <= Len(queue), Accounted(t, a, i)
      PROVE  Accounted(t, a, i)'
  <2>1. CASE Holds(t, a)
    <3>1. CASE a \in Closes(r)
      <4>1. Len(queue) + 1 \in 1 .. Len(sent) /\ Len(queue) + 1 > i
        BY <1>2, <1>4
      <4> QED BY <1>2, <1>3, <3>1, <4>1 DEF Accounted
    <3> QED BY <2>1, <3>1 DEF Accounted
  <2>2. ASSUME NEW j \in 1 .. Len(queue), j > i, a \in Closes(queue[j])
        PROVE  Accounted(t, a, i)'
    <3>1. j \in 1 .. Len(sent) /\ sent[j] = queue[j]
      BY <1>2
    <3> QED BY <1>3, <2>2, <3>1 DEF Accounted
  <2> QED BY <1>4, <2>1, <2>2 DEF Accounted
<1>5. \A u \in Thread \ {t}, a \in Addr, i \in Int : Accounted(u, a, i) => Accounted(u, a, i)'
  BY <1>3 DEF Accounted
<1> SUFFICES ASSUME NEW a \in Addr
             PROVE  /\ \A u \in Thread : \A i \in 1 .. Len(worker_request_queue'[u]) :
                         a \in Opens(worker_request_queue'[u][i]) => Accounted(u, a, i)'
                    /\ a \in Open' => \E u \in Thread : Accounted(u, a, 0)'
  BY DEF EntryInv
<1>6. ASSUME NEW i \in 1 .. Len(sent), a \in Opens(sent[i])
      PROVE  Accounted(t, a, i)'
  <2>1. CASE i \in 1 .. Len(queue)
    <3>1. i \in Nat /\ i <= Len(queue) /\ Accounted(t, a, i)
      BY <1>2, <1>6, <2>1 DEF EntryInv
    <3> QED BY <1>4, <3>1
  <2>2. CASE i = Len(queue) + 1
    BY <1>2, <1>6, <2>2 DEF Accounted
  <2>3. i \in 1 .. Len(queue) \/ i = Len(queue) + 1
    BY <1>2
  <2> QED BY <2>1, <2>2, <2>3
<1>7. \A u \in Thread : \A i \in 1 .. Len(worker_request_queue'[u]) :
        a \in Opens(worker_request_queue'[u][i]) => Accounted(u, a, i)'
  BY <1>3, <1>5, <1>6 DEF EntryInv
<1>8. ASSUME a \in Open'
      PROVE  \E u \in Thread : Accounted(u, a, 0)'
  <2>1. PICK u \in Thread : Accounted(u, a, 0)
    BY <1>8 DEF EntryInv, Open
  <2>2. 0 \in Nat /\ 0 <= Len(queue)
    BY <1>2
  <2> HIDE DEF queue
  <2> QED BY <1>4, <1>5, <2>1, <2>2
<1> QED BY <1>7, <1>8

(* The worker takes the oldest record of a thread. *)
LEMMA EntryTaken ==
  ASSUME TypeInv, EntryInv, NEW t \in Thread, Ready(t),
         worker_request_queue' = [worker_request_queue EXCEPT ![t] = Tail(@)],
         NEW r, r = Head(worker_request_queue[t]), Open' \subseteq (Open \ Closes(r)) \cup Opens(r),
         \A u \in Thread, a \in Addr : Holds(u, a) => Holds(u, a)'
  PROVE  EntryInv'
<1> DEFINE queue == worker_request_queue[t]
           rest  == Tail(queue)
<1>1. queue \in Seq(RequestRecord) /\ queue # <<>>
  BY DEF Ready, TypeInv, Types
<1>2. /\ Len(queue) \in Nat \ {0} /\ Len(rest) = Len(queue) - 1 /\ r = queue[1]
      /\ \A i \in 1 .. Len(rest) : rest[i] = queue[i + 1]
  BY <1>1, HeadTailProperties, EmptySeq
<1>3. /\ worker_request_queue'[t] = rest
      /\ \A u \in Thread \ {t} : worker_request_queue'[u] = worker_request_queue[u]
  BY DEF TypeInv, Types
<1> HIDE DEF rest
<1>4. ASSUME NEW a \in Addr, NEW i \in Nat, Accounted(t, a, i + 1)
      PROVE  Accounted(t, a, i)'
  <2>1. CASE Holds(t, a)
    BY <2>1 DEF Accounted
  <2>2. ASSUME NEW j \in 1 .. Len(queue), j > i + 1, a \in Closes(queue[j])
        PROVE  Accounted(t, a, i)'
    <3>1. j - 1 \in 1 .. Len(rest) /\ j - 1 > i /\ rest[j - 1] = queue[j]
      <4>1. j - 1 \in 1 .. Len(rest) /\ j - 1 > i /\ (j - 1) + 1 = j
        BY <1>2, <2>2
      <4> QED BY <1>2, <4>1
    <3> QED BY <1>3, <2>2, <3>1 DEF Accounted
  <2> QED BY <1>4, <2>1, <2>2 DEF Accounted
<1>5. \A u \in Thread \ {t}, a \in Addr, i \in Int : Accounted(u, a, i) => Accounted(u, a, i)'
  BY <1>3 DEF Accounted
<1> SUFFICES ASSUME NEW a \in Addr
             PROVE  /\ \A u \in Thread : \A i \in 1 .. Len(worker_request_queue'[u]) :
                         a \in Opens(worker_request_queue'[u][i]) => Accounted(u, a, i)'
                    /\ a \in Open' => \E u \in Thread : Accounted(u, a, 0)'
  BY DEF EntryInv
<1>6. ASSUME NEW i \in 1 .. Len(rest), a \in Opens(rest[i])
      PROVE  Accounted(t, a, i)'
  <2>1. i \in Nat /\ i + 1 \in 1 .. Len(queue) /\ rest[i] = queue[i + 1]
    BY <1>2
  <2>2. Accounted(t, a, i + 1)
    BY <1>6, <2>1 DEF EntryInv
  <2> QED BY <1>4, <2>1, <2>2
<1>7. \A u \in Thread : \A i \in 1 .. Len(worker_request_queue'[u]) :
        a \in Opens(worker_request_queue'[u][i]) => Accounted(u, a, i)'
  BY <1>3, <1>5, <1>6 DEF EntryInv
<1>8. ASSUME a \in Open'
      PROVE  \E u \in Thread : Accounted(u, a, 0)'
  <2>1. CASE a \in Opens(r)
    <3>1. Accounted(t, a, 0 + 1)
      BY <1>2, <2>1 DEF EntryInv
    <3> QED BY <1>4, <3>1
  <2>2. CASE a \in Open \ Closes(r)
    <3>1. PICK u \in Thread : Accounted(u, a, 0)
      BY <2>2 DEF EntryInv
    <3>2. CASE u # t
      BY <1>5, <3>1, <3>2
    <3>3. CASE u = t
      <4>1. \A j \in 1 .. Len(queue) : j > 0 /\ a \in Closes(queue[j]) => j > 0 + 1
        BY <1>2, <2>2
      <4>2. Accounted(t, a, 0 + 1)
        BY <3>1, <3>3, <4>1 DEF Accounted
      <4> QED BY <1>4, <4>2
    <3> QED BY <3>2, <3>3
  <2> QED BY <1>8, <2>1, <2>2
<1> QED BY <1>7, <1>8

(* What a call keeps of the block it was given, and what its record ends. *)
LEMMA CallKeeps ==
  ASSUME NEW c \in Call, c.fn \in Acquiring => c.arg = Null, c.fn = "free" => c.result = Null
  PROVE  /\ {c.arg} \ {Null} \subseteq ReleasedBy(c) \cup Given(c)
         /\ ReleasedBy(c) \subseteq Closes(RequestOf(c))
         /\ Opens(RequestOf(c)) \ {Null} \subseteq Given(c)
         /\ c.fn \in Acquiring => ReleasedBy(c) = {}
         /\ c.fn = "free" => Given(c) = {}
<1>1. c.fn \in HeapFunction /\ c.arg \in Pointer /\ c.result \in Pointer /\ c.size \in Nat
  BY CallParts, ConstantTypes
<1>2. CASE c.fn \in Acquiring
  BY <1>2 DEF RequestOf, Closes, Opens, Acquiring, ReleasedBy, Given
<1>3. CASE c.fn = "realloc"
  <2>1. RequestOf(c) = [op |-> "REALLOC", original |-> c.arg, new |-> c.result, size |-> c.size]
    BY <1>3 DEF RequestOf, Acquiring
  <2>2. Closes(RequestOf(c)) = {c.arg} \ {c.result} /\ Opens(RequestOf(c)) = {c.result}
    BY <2>1 DEF Closes, Opens
  <2>3. ReleasedBy(c) = IF c.result # c.arg /\ (c.result # Null \/ c.size = 0) THEN {c.arg} \ {Null} ELSE {}
    BY <1>3 DEF ReleasedBy
  <2>4. c.result # Null => Given(c) = {c.result}
    BY <1>3 DEF Given
  <2>5. c.result = Null /\ c.size # 0 => Given(c) = {c.arg} \ {Null}
    BY <1>1, <1>3 DEF Given
  <2> QED
    BY <1>3, <2>2, <2>3, <2>4, <2>5 DEF Acquiring
<1>4. CASE c.fn = "free"
  <2>1. RequestOf(c) = [op |-> "FREE", block |-> c.arg]
    BY <1>4 DEF RequestOf, Acquiring
  <2> QED
    BY <1>4, <2>1 DEF Closes, Opens, ReleasedBy, Given, Acquiring
<1> QED
  BY <1>1, <1>2, <1>3, <1>4 DEF HeapFunction, StoreOrder, Acquiring

(* A step of t's call; X are the blocks that t no longer holds. *)
LEMMA HoldsStay ==
  ASSUME TypeInv, NEW t \in Thread, NEW where, NEW c, CallBecomes(t, where, c),
         \A u \in TestThread \ {t} : mine'[u] = mine[u], NEW X,
         \A a \in Addr : Holds(t, a) => \/ Releases(where, c, a)
                                        \/ a \in KeptAt(where, c)
                                        \/ t \in TestThread /\ a \in mine'[t]
                                        \/ a \in X
  PROVE  \A u \in Thread, a \in Addr : Holds(u, a) => Holds(u, a)' \/ (u = t /\ a \in X)
<1>1. /\ pc'[t] = where /\ call'[t] = c
      /\ \A u \in Thread \ {t} : pc'[u] = pc[u] /\ call'[u] = call[u]
  BY DEF CallBecomes, TypeInv, Types
<1> SUFFICES ASSUME NEW u \in Thread, NEW a \in Addr, Holds(u, a)
             PROVE  Holds(u, a)' \/ (u = t /\ a \in X)
  OBVIOUS
<1>2. CASE u = t
  <2>1. \/ Releases(pc'[t], call'[t], a)
        \/ a \in KeptAt(pc'[t], call'[t])
        \/ t \in TestThread /\ a \in mine'[t]
        \/ a \in X
    BY <1>1, <1>2
  <2> QED BY <1>2, <2>1 DEF Holds, Releases, KeptAt
<1>3. CASE u # t
  BY <1>1, <1>3 DEF Holds, Releases, KeptAt
<1> QED BY <1>2, <1>3

LEMMA HoldsStayAll ==
  ASSUME TypeInv, NEW t \in Thread, NEW where, NEW c, CallBecomes(t, where, c),
         \A u \in TestThread \ {t} : mine'[u] = mine[u],
         \A a \in Addr : Holds(t, a) => \/ Releases(where, c, a)
                                        \/ a \in KeptAt(where, c)
                                        \/ t \in TestThread /\ a \in mine'[t]
  PROVE  \A u \in Thread, a \in Addr : Holds(u, a) => Holds(u, a)'
<1> DEFINE X == {}
<1>1. \A a \in Addr : Holds(t, a) => \/ Releases(where, c, a)
                                     \/ a \in KeptAt(where, c)
                                     \/ t \in TestThread /\ a \in mine'[t]
                                     \/ a \in X
  OBVIOUS
<1>2. \A a : a \notin X
  OBVIOUS
<1> HIDE DEF X
<1>3. \A u \in Thread, a \in Addr : Holds(u, a) => Holds(u, a)' \/ (u = t /\ a \in X)
  BY <1>1, HoldsStay
<1> QED BY <1>2, <1>3

(* A block that a call gives back becomes its thread's. *)
LEMMA GivenIsMine ==
  ASSUME SessionInv, NEW t \in Thread, pc[t] \in {"check", "count", "enqueue"},
         held' = held \cup Given(call[t]),
         t \in TestThread => mine'[t] = mine[t] \cup (held' \ held),
         NEW a \in Addr, a \in Given(call[t])
  PROVE  t \in TestThread /\ a \in mine'[t]
<1>1. t # Main
  BY SessionTypes DEF RecordedInv, InCall, Given
<1>2. t \in TestThread
  BY <1>1, FixtureConstants
<1>3. Owns("call", t, 0, a)
  BY OwnedBy DEF KeptAt
<1>4. ~Owns("app", NoThread, 0, a)
  BY <1>3, SessionTypes DEF OwnerInv, OwnerKind
<1>5. a \notin held
  BY <1>4, OwnedBy
<1> QED BY <1>2, <1>5

LEMMA HeapCallEntries ==
  ASSUME SessionInv, EntryInv, NEW t \in Thread, HeapCall(t), pc[t] \in InCall,
         \A u \in TestThread \ {t} : mine'[u] = mine[u],
         t \in TestThread => mine'[t] = mine[t] \cup (held' \ held)
  PROVE  EntryInv'
<1> DEFINE b == call[t]
<1>1. /\ TypeInv /\ b \in Call /\ (b.fn \in Acquiring => b.arg = Null)
      /\ (b.fn = "free" => b.result = Null) /\ (pc[t] = "count" => b.fn \in Acquiring)
  BY SessionTypes DEF TypeInv, InCallHasCall, RecordedInv, CallInv
<1>2. PICK where \in {"idle"} \cup InCall, c \in Call \cup {NoCall} :
           /\ CallBecomes(t, where, c)
           /\ where # "idle" => /\ c \in Call
                                /\ c.fn = call[t].fn /\ c.arg = call[t].arg
                                /\ c.size = call[t].size /\ c.hook = call[t].hook
           /\ \/ pc[t] = "libc" /\ where = "check" /\ Libc(t, c)
              \/ /\ pc[t] = "check" /\ where \in {"count", "enqueue"}
                 /\ c.result = call[t].result
                 /\ where = "count" => c.fn \in Acquiring
                 /\ UNCHANGED <<heap_vars, history_vars, worker_request_queue>>
              \/ /\ pc[t] = "count" /\ where = "idle" /\ c = NoCall
                 /\ held' = held \cup Given(call[t])
                 /\ UNCHANGED <<heap, history_vars, worker_request_queue>>
              \/ pc[t] = "enqueue" /\ where = "idle" /\ c = NoCall /\ EnqueueRecord(t)
  BY CallSteps
<1>3. UNCHANGED allocations /\ Open' = Open
  BY DEF HeapCall, BeginCall, LibcMalloc, LibcRealloc, LibcFree, Libc, CheckUnwatched, CheckWatched,
         CountKnownLeak, EnqueueRecord, ledger_vars, Open
<1>4. CASE pc[t] = "libc" /\ where = "check" /\ Libc(t, c)
  <2>1. c \in Call /\ c.fn = b.fn /\ c.arg = b.arg
    BY <1>2, <1>4
  <2>2. {c.arg} \ {Null} \subseteq ReleasedBy(c) \cup Given(c)
    <3>1. c.fn = "free" => c.result = Null
      <4>1. LibcMalloc(t) \/ LibcRealloc(t) \/ LibcFree(t)
        BY <1>4 DEF HeapCall, BeginCall, CheckUnwatched, CheckWatched, CountKnownLeak, EnqueueRecord
      <4>2. c.fn = "free" => LibcFree(t)
        BY <2>1, <4>1 DEF LibcMalloc, LibcRealloc, Acquiring
      <4>3. LibcFree(t) => c = b
        <5>1. ASSUME LibcFree(t)
              PROVE  c = b
          <6>1. Libc(t, b)
            BY <5>1 DEF LibcFree
          <6>2. call'[t] = b
            BY <1>1, <6>1, SessionTypes DEF Libc, GoTo, RecordedInv, TypeInv, Types, InCall
          <6> QED BY <1>1, <1>2, <6>2 DEF CallBecomes, TypeInv, Types
        <5> QED BY <5>1
      <4> QED BY <1>1, <2>1, <4>2, <4>3
    <3> QED BY <1>1, <2>1, <3>1, CallKeeps
  <2>3. \A a \in Addr : Holds(t, a) => \/ Releases("check", c, a)
                                       \/ a \in KeptAt("check", c)
                                       \/ t \in TestThread /\ a \in mine'[t]
    BY <1>4, <2>1, <2>2 DEF Holds, Releases, KeptAt
  <2>4. UNCHANGED worker_request_queue
    BY <1>4 DEF Libc
  <2>5. \A u \in Thread, a \in Addr : Holds(u, a) => Holds(u, a)'
    BY <1>1, <1>2, <1>4, <2>3, HoldsStayAll
  <2> QED BY <1>3, <2>4, <2>5, EntriesStay
<1>5. CASE pc[t] = "check" /\ where \in {"count", "enqueue"}
  <2>1. /\ c.fn = b.fn /\ c.arg = b.arg /\ c.size = b.size /\ c.result = b.result
        /\ UNCHANGED worker_request_queue
        /\ where = "count" => c.fn \in Acquiring
    BY <1>2, <1>5
  <2>2. ReleasedBy(c) = ReleasedBy(b) /\ Given(c) = Given(b)
    BY <2>1 DEF ReleasedBy, Given
  <2>3. where = "count" => ReleasedBy(b) = {}
    BY <2>1 DEF ReleasedBy, Acquiring
  <2>4. \A a \in Addr : Holds(t, a) => \/ Releases(where, c, a)
                                       \/ a \in KeptAt(where, c)
                                       \/ t \in TestThread /\ a \in mine'[t]
    BY <1>5, <2>2, <2>3 DEF Holds, Releases, KeptAt
  <2>5. \A u \in Thread, a \in Addr : Holds(u, a) => Holds(u, a)'
    BY <1>1, <1>2, <2>4, HoldsStayAll
  <2> QED BY <1>3, <2>1, <2>5, EntriesStay
<1>6. CASE pc[t] = "count" /\ where = "idle"
  <2>1. held' = held \cup Given(b) /\ UNCHANGED worker_request_queue
    BY <1>2, <1>6
  <2>2. \A a \in Addr : a \in Given(b) => t \in TestThread /\ a \in mine'[t]
    BY <1>6, <2>1, GivenIsMine
  <2>3. \A a \in Addr : Holds(t, a) => \/ Releases(where, c, a)
                                       \/ a \in KeptAt(where, c)
                                       \/ t \in TestThread /\ a \in mine'[t]
    BY <1>6, <2>2 DEF Holds, Releases, KeptAt
  <2>4. \A u \in Thread, a \in Addr : Holds(u, a) => Holds(u, a)'
    BY <1>1, <1>2, <2>3, HoldsStayAll
  <2> QED BY <1>3, <2>1, <2>4, EntriesStay
<1>7. CASE pc[t] = "enqueue" /\ EnqueueRecord(t)
  <2> DEFINE r == RequestOf(b)
  <2>1. Send(t, r) /\ held' = held \cup Given(b)
    BY <1>7 DEF EnqueueRecord, Return
  <2>2. r \in RequestRecord
    BY <1>1, RequestType DEF RequestRecord, TypeInv, Types
  <2>3. /\ ReleasedBy(b) \subseteq Closes(r) /\ Opens(r) \ {Null} \subseteq Given(b)
    BY <1>1, CallKeeps
  <2>4. \A a \in Addr : a \in Given(b) => t \in TestThread /\ a \in mine'[t]
    BY <1>7, <2>1, GivenIsMine
  <2> HIDE DEF r
  <2>5. \A a \in Addr : Holds(t, a) => \/ Releases(where, c, a)
                                       \/ a \in KeptAt(where, c)
                                       \/ t \in TestThread /\ a \in mine'[t]
                                       \/ a \in Closes(r)
    BY <1>7, <2>3, <2>4 DEF Holds, Releases, KeptAt
  <2>6. \A u \in Thread, a \in Addr : Holds(u, a) => Holds(u, a)' \/ (u = t /\ a \in Closes(r))
    BY <1>1, <1>2, <2>5, HoldsStay
  <2>7. \A a \in Addr : a \in Opens(r) => Holds(t, a)'
    BY <2>3, <2>4, LedgerAssumption DEF Holds
  <2> QED BY <1>1, <1>3, <2>1, <2>2, <2>6, <2>7, EntrySends
<1> QED BY <1>2, <1>4, <1>5, <1>6, <1>7

(* What the worker's next request does to the open allocations. *)
LEMMA WorkerOpens ==
  ASSUME TypeInv, NEW t \in Thread, WorkerHandles(t), NEW r, r = Head(worker_request_queue[t])
  PROVE  Open' \subseteq (Open \ Closes(r)) \cup Opens(r)
<1>1. r \in RequestRecord /\ (HandleRecord(r) \/ HandleCommand(t, r))
  BY PendingShrinks
<1>2. CASE HandleRecord(r)
  BY <1>1, <1>2, RecordSteps
<1>3. CASE HandleCommand(t, r)
  <2>1. Open' \subseteq Open
    BY <1>3 DEF HandleCommand, HandleClear, HandleSnapshot, HandleStats, ledger_vars, Open
  <2>2. Closes(r) = {}
    BY <1>3 DEF HandleCommand, Closes
  <2> QED BY <2>1, <2>2
<1> QED BY <1>1, <1>2, <1>3

(* Main holds a block only in a call; the other steps take none from a thread. *)
LEMMA MainHolds ==
  ASSUME SessionInv, [FixtureNext]_test_vars, ~\E u \in TestThread : WorkerGoesOn(u),
         pc[Main] \notin InCall \/ UNCHANGED <<pc, call>>
  PROVE  \A t \in Thread, a \in Addr : Holds(t, a) => Holds(t, a)'
<1>1. ASSUME NEW t \in TestThread, NEW a \in Addr, Holds(t, a)
      PROVE  Holds(t, a)'
  BY <1>1, MainFrame DEF Holds, Releases, KeptAt
<1>2. ASSUME NEW a \in Addr, Holds(Main, a)
      PROVE  Holds(Main, a)'
  BY <1>2, FixtureConstants DEF Holds, Releases, KeptAt, InCall
<1> QED
  BY <1>1, <1>2, FixtureConstants

LEMMA WorkerEntries ==
  ASSUME SessionInv, EntryInv, NEW t \in TestThread, WorkerGoesOn(t)
  PROVE  EntryInv'
<1>1. /\ TypeInv /\ FixtureTypeInv /\ t \in Thread
      /\ mine \in [TestThread -> SUBSET held]
  BY SessionTypes, FixtureConstants DEF FixtureTypeInv, FixtureTypeOK
<1>2. CASE Begin(t) \/ End(t)
  <2>1. UNCHANGED <<pc, call, mine, worker_request_queue, allocations>>
    BY <1>2 DEF Begin, End, vars, ledger_vars
  <2> QED BY <2>1, EntriesStay DEF Holds, Releases, KeptAt, Open
<1>3. CASE WorkloadCalls(t)
  <2>1. PICK fn, site, arg, size :
          /\ Enter(t, fn, site, arg, size)
          /\ UNCHANGED mine \/ mine' = [mine EXCEPT ![t] = @ \ {arg}]
    BY <1>1, <1>3, WorkloadEnters
  <2> DEFINE c == [fn |-> fn, hook |-> hooks[fn], site |-> site, arg |-> arg, size |-> size,
                   result |-> Null, seen |-> 0]
  <2>2. CallBecomes(t, "libc", c) /\ KeptAt("libc", c) = {arg} \ {Null}
    BY <2>1 DEF Enter, GoTo, CallBecomes, KeptAt
  <2>3. pc[t] = "idle" /\ UNCHANGED <<worker_request_queue, allocations>>
    BY <1>3 DEF WorkloadCalls, Moves, ledger_vars
  <2> HIDE DEF c
  <2>4. \A a \in Addr : Holds(t, a) => \/ Releases("libc", c, a)
                                       \/ a \in KeptAt("libc", c)
                                       \/ t \in TestThread /\ a \in mine'[t]
    BY <1>1, <2>1, <2>2, <2>3, LedgerAssumption DEF Holds, Releases, KeptAt
  <2>5. \A u \in TestThread \ {t} : mine'[u] = mine[u]
    BY <1>1, <2>1
  <2>6. \A u \in Thread, a \in Addr : Holds(u, a) => Holds(u, a)'
    BY <1>1, <2>2, <2>4, <2>5, HoldsStayAll
  <2> QED BY <2>3, <2>6, EntriesStay DEF Open
<1>4. CASE Leave(t)
  <2>1. PICK c : CallBecomes(t, "libc", c)
    BY <1>4 DEF Leave, Enter, GoTo, CallBecomes
  <2>2. pc[t] = "idle" /\ UNCHANGED <<mine, worker_request_queue, allocations>>
    BY <1>4 DEF Leave, Moves, ledger_vars
  <2>3. \A a \in Addr : Holds(t, a) => \/ Releases("libc", c, a)
                                       \/ a \in KeptAt("libc", c)
                                       \/ t \in TestThread /\ a \in mine'[t]
    BY <2>2 DEF Holds, Releases, KeptAt
  <2>4. \A u \in TestThread \ {t} : mine'[u] = mine[u]
    BY <2>2
  <2>5. \A u \in Thread, a \in Addr : Holds(u, a) => Holds(u, a)'
    BY <1>1, <2>1, <2>3, <2>4, HoldsStayAll
  <2> QED BY <2>2, <2>5, EntriesStay DEF Open
<1>5. CASE InHeapCall(t)
  <2>1. HeapCall(t) /\ pc[t] \in InCall /\ mine' = [mine EXCEPT ![t] = @ \cup (held' \ held)]
    BY <1>5 DEF InHeapCall
  <2>2. mine'[t] = mine[t] \cup (held' \ held) /\ \A u \in TestThread \ {t} : mine'[u] = mine[u]
    BY <1>1, <2>1
  <2> QED BY <1>1, <2>1, <2>2, HeapCallEntries
<1> QED
  BY <1>2, <1>3, <1>4, <1>5 DEF WorkerGoesOn

LEMMA EntryNext ==
  ASSUME SessionInv, EntryInv, [FixtureNext]_test_vars
  PROVE  EntryInv'
<1>1. TypeInv /\ Main \in Thread /\ Main \notin TestThread
  BY SessionTypes, FixtureConstants
<1>2. SUFFICES ASSUME ~\E t \in TestThread : WorkerGoesOn(t)
               PROVE  EntryInv'
  BY WorkerEntries
<1>3. CASE LedgerGoesOn
  <2>1. PICK t \in Thread : WorkerHandles(t)
    BY <1>3 DEF LedgerGoesOn, Worker
  <2>2. /\ UNCHANGED <<pc, call>> /\ Ready(t)
        /\ worker_request_queue' = [worker_request_queue EXCEPT ![t] = Tail(@)]
    BY <2>1 DEF WorkerHandles
  <2>3. \A u \in Thread, a \in Addr : Holds(u, a) => Holds(u, a)'
    BY <1>2, <2>2, MainHolds
  <2>4. \A r : r = Head(worker_request_queue[t]) => Open' \subseteq (Open \ Closes(r)) \cup Opens(r)
    BY <1>1, <2>1, WorkerOpens
  <2> QED BY <1>1, <2>2, <2>3, <2>4, EntryTaken
<1>4. CASE UNCHANGED test_vars
  <2>1. UNCHANGED <<pc, call, worker_request_queue, allocations>>
    BY <1>4 DEF test_vars, vars, ledger_vars
  <2> QED BY <1>2, <2>1, MainHolds, EntriesStay DEF Open
<1>5. CASE Test
  <2>1. pc[Main] \notin InCall
    BY <1>5 DEF Test, Construct, BeginAdding, EndAdding, StartWorkload, GoOutOfScope, StopWatching,
                AddThread, Stage, InCall
  <2>2. UNCHANGED <<worker_request_queue, allocations>>
    BY <1>5 DEF Test, Construct, BeginAdding, EndAdding, StartWorkload, GoOutOfScope, StopWatching,
                AddThread, CallStart, CallStop, Pause, Resume, vars, ledger_vars
  <2> QED BY <1>2, <2>1, <2>2, MainHolds, EntriesStay DEF Open
<1>6. CASE MainGoesOn /\ CommandStep(Main)
  <2>1. pc[Main] \notin InCall /\ UNCHANGED allocations
    BY <1>6 DEF CommandStep, StartLock, StartCleared, StartStoreHook, StartWatching, StopLock,
       StopStoreHook, StopAsk, StopReturn, AskReturn, InCall, ledger_vars
  <2>2. \A u \in Thread, a \in Addr : Holds(u, a) => Holds(u, a)'
    BY <1>2, <2>1, MainHolds
  <2>3. ASSUME NEW r \in Asked, Send(Main, r)
        PROVE  EntryInv'
    <3>1. r \in RequestRecord /\ Opens(r) = {}
      BY CommandRequests, CommandClosesNothing DEF Asked
    <3> QED BY <1>1, <2>1, <2>2, <2>3, <3>1, EntrySends
  <2>4. CASE UNCHANGED worker_request_queue
    BY <2>1, <2>2, <2>4, EntriesStay DEF Open
  <2> QED BY <1>1, <1>6, <2>3, <2>4, CommandQueues
<1>7. CASE MainGoesOn /\ HeapCall(Main) /\ pc[Main] \in InCall
  <2>1. UNCHANGED mine
    BY <1>7 DEF MainGoesOn, fixture_vars
  <2> QED BY <1>1, <1>7, <2>1, HeapCallEntries
<1> QED
  BY <1>2, <1>3, <1>4, <1>5, <1>6, <1>7 DEF FixtureNext, MainGoesOn, Progress

LEMMA EntryInit == FixtureInit => EntryInv
<1> SUFFICES ASSUME FixtureInit PROVE EntryInv
  OBVIOUS
<1>1. \A t \in Thread : Len(worker_request_queue[t]) = 0
  BY EmptySeq DEF FixtureInit, Init, InitWith
<1>2. Open = {}
  BY DEF FixtureInit, Init, InitWith, LedgerInit, Open
<1> QED BY <1>1, <1>2 DEF EntryInv

-----------------------------------------------------------------------------
(***************************************************************************)
(* The verdict.  When stop_watching's SNAPSHOT is the last request of all, *)
(* every entry is accounted for by a block some thread still has, and none *)
(* of a fresh block is missing.                                            *)
(***************************************************************************)
FreshWhenNoneFails == NoFailedReallocs => FreshInv

(* The queues of the test threads hold only what stop_watching waits for. *)
BacklogInv ==
  /\ StatsRequest \notin Pending
  /\ pc[Main] = "drain" => \A t \in TestThread : backlog[t] = Len(worker_request_queue[t])

Judged == Answered(Main) /\ in_time

Kept == UNION {mine[t] : t \in TestThread}

VerdictInv ==
  Judged => /\ \A t \in Thread : worker_request_queue[t] = <<>>
            /\ Verdict = Open
            /\ Open \cap Addr \subseteq Kept
            /\ NoFailedReallocs => watched \ released \subseteq Open

TestInv == SessionInv /\ EntryInv /\ FreshWhenNoneFails /\ BacklogInv /\ VerdictInv

LEMMA FixtureFresh ==
  ASSUME SessionInv, FreshWhenNoneFails, [FixtureNext]_test_vars
  PROVE  FreshWhenNoneFails'
<1> SUFFICES ASSUME NoFailedReallocs
             PROVE  FreshInv'
  BY DEF FreshWhenNoneFails, NoFailedReallocs
<1>1. TypeInv /\ CallInv /\ FreshInv /\ FixtureTypeInv /\ TestThread \subseteq Thread
  BY SessionTypes, FixtureConstants DEF FreshWhenNoneFails
<1>2. CASE [Next]_vars
  BY <1>1, <1>2, FreshNext
<1>3. ASSUME NEW t \in TestThread, WorkloadCalls(t) \/ Leave(t) \/ AddThread(t)
      PROVE  FreshInv'
  <2>1. /\ UNCHANGED <<allocations, frees_without_mallocs, released, doubtful, watched, worker_request_queue>>
        /\ \A u \in Thread : Flying(u)' => Flying(u) /\ call'[u] = call[u]
    <3>1. CASE AddThread(t)
      BY <3>1 DEF AddThread, ledger_vars, history_vars, Flying
    <3>2. CASE WorkloadCalls(t) \/ Leave(t)
      <4>1. EntersCall(t)
        BY <1>1, <3>2, WorkloadEnters, LeaveEnters
      <4>2. PICK c : pc' = [pc EXCEPT ![t] = "libc"] /\ call' = [call EXCEPT ![t] = c]
        BY <4>1 DEF EntersCall, Enter, GoTo
      <4> QED BY <1>1, <4>1, <4>2, OthersFly DEF EntersCall, ledger_vars, history_vars
    <3> QED BY <1>3, <3>1, <3>2
  <2>2. Pending' = Pending
    BY <2>1 DEF Pending, QueueRange
  <2> QED BY <1>1, <2>1, <2>2, FreshStep
<1> QED BY <1>2, <1>3, FixtureSteps

(* While Main waits for stop_watching's answer no test thread does anything. *)
LEMMA ThreadsAreDone ==
  ASSUME SessionInv, pc[Main] = "drain"
  PROVE  /\ stage = "checking" /\ ~\E t \in TestThread : WorkerGoesOn(t)
         /\ \A t \in TestThread : pc[t] = "idle"
<1>1. stage = "checking" /\ AllJoined
  BY SessionTypes DEF StageInv, BeforeSession, InSession, AfterSession, InCall
<1>2. \A t \in TestThread : place[t] \in {"none", "ended"}
  BY <1>1 DEF AllJoined
<1>3. ~\E t \in TestThread : WorkerGoesOn(t)
  BY <1>2, ThreadFrame
<1> QED
  BY <1>1, <1>2, <1>3, SessionTypes DEF WorkersInv

(* Main comes to "drain" by asking for the snapshot, and only then. *)
LEMMA MainDrains ==
  ASSUME SessionInv, [FixtureNext]_test_vars, pc'[Main] = "drain"
  PROVE  \/ pc[Main] = "drain" /\ (LedgerGoesOn \/ UNCHANGED test_vars)
         \/ pc[Main] # "drain" /\ StopAsk(Main) /\ answer'[Main] = NoAnswer
<1>1. TypeInv /\ Main \in Thread
  BY SessionTypes, FixtureConstants
<1>2. CASE LedgerGoesOn \/ UNCHANGED test_vars
  BY <1>2 DEF LedgerGoesOn, Worker, WorkerHandles, test_vars, vars
<1>3. CASE \E t \in TestThread : WorkerGoesOn(t)
  <2>1. pc[Main] = "drain"
    BY <1>1, <1>3, ThreadFrame, FixtureConstants
  <2> QED BY <1>3, <2>1, ThreadsAreDone
<1>4. CASE Test
  <2>1. pc[Main] = "idle"
    BY <1>4 DEF Test, Construct, BeginAdding, EndAdding, StartWorkload, GoOutOfScope, StopWatching,
                AddThread, Stage
  <2>2. UNCHANGED pc \/ \E where \in {"start", "stop", "libc"} : pc' = [pc EXCEPT ![Main] = where]
    BY <1>4 DEF Test, Construct, BeginAdding, EndAdding, StartWorkload, GoOutOfScope, StopWatching,
                AddThread, CallStart, CallStop, Pause, Resume, Enter, GoTo, vars
  <2> QED BY <1>1, <2>1, <2>2 DEF TypeInv, Types
<1>5. CASE MainGoesOn
  <2>1. CASE HeapCall(Main)
    <3>1. PICK where \in {"idle"} \cup InCall : pc' = [pc EXCEPT ![Main] = where]
      BY <1>1, <2>1, HeapCallControl
    <3> QED BY <1>1, <3>1 DEF TypeInv, Types, InCall
  <2>2. CASE StopAsk(Main)
    <3>1. pc[Main] = "uninstall" /\ answer' = answer
      BY <2>2 DEF StopAsk
    <3>2. answer[Main] = NoAnswer
      BY <1>1, <3>1, SessionTypes DEF QueueInv, AnswersAwaited, Waiting
    <3> QED BY <2>2, <3>1, <3>2
  <2>3. CASE CommandStep(Main) /\ ~StopAsk(Main)
    <3>1. \/ UNCHANGED pc /\ pc[Main] \in {"install", "uninstall"}
          \/ \E where \in {"idle", "clear", "install", "uninstall"} : pc' = [pc EXCEPT ![Main] = where]
      BY <2>3 DEF CommandStep, StartLock, StartCleared, StartStoreHook, StartWatching, StopLock,
         StopStoreHook, StopReturn, AskReturn, TakeAnswer, GoTo
    <3> QED BY <1>1, <3>1 DEF TypeInv, Types
  <2> QED BY <1>5, <2>1, <2>2, <2>3 DEF MainGoesOn, Progress
<1> QED
  BY <1>2, <1>3, <1>4, <1>5 DEF FixtureNext

LEMMA NoStatsAsked ==
  ASSUME SessionInv, StatsRequest \notin Pending, [FixtureNext]_test_vars
  PROVE  StatsRequest \notin Pending'
<1>1. TypeInv /\ Main \in Thread /\ TestThread \subseteq Thread
  BY SessionTypes, FixtureConstants
<1>2. CASE UNCHANGED worker_request_queue
  BY <1>2 DEF Pending, QueueRange
<1>3. CASE LedgerGoesOn
  BY <1>1, <1>3, PendingShrinks DEF LedgerGoesOn, Worker
<1>4. ASSUME NEW t \in Thread, EnqueueRecord(t)
      PROVE  StatsRequest \notin Pending'
  <2>1. call[t] \in Call /\ Send(t, RequestOf(call[t]))
    BY <1>1, <1>4 DEF EnqueueRecord, TypeInv, InCallHasCall, InCall
  <2>2. RequestOf(call[t]) \in MallocRequest \cup ReallocRequest \cup FreeRequest
    BY <1>1, <2>1, RequestType DEF TypeInv, Types
  <2>3. RequestOf(call[t]) \in RequestRecord /\ RequestOf(call[t]) # StatsRequest
    BY <2>2, RecordsAreNotCommands DEF RequestRecord, Asked
  <2> QED BY <1>1, <2>1, <2>3, PendingGrows
<1>5. CASE StartLock(Main) \/ StopAsk(Main)
  <2>1. UNCHANGED worker_request_queue \/ \E r \in {ClearRequest, SnapshotRequest} : Send(Main, r)
    BY <1>5 DEF StartLock, StopAsk
  <2>2. \A r \in {ClearRequest, SnapshotRequest} : r \in RequestRecord /\ r # StatsRequest
    BY CommandRequests DEF ClearRequest, SnapshotRequest, StatsRequest
  <2> QED BY <1>1, <1>2, <2>1, <2>2, PendingGrows
<1>6. ASSUME Test
      PROVE  UNCHANGED worker_request_queue
  BY <1>6
  DEF Test, Construct, BeginAdding, EndAdding, StartWorkload, GoOutOfScope, StopWatching, AddThread,
      CallStart, CallStop, Pause, Resume, vars
<1>7. ASSUME MainGoesOn
      PROVE  \/ UNCHANGED worker_request_queue \/ StartLock(Main) \/ StopAsk(Main)
             \/ EnqueueRecord(Main)
  BY <1>7
  DEF MainGoesOn, Progress, CommandStep, StartCleared, StartStoreHook, StartWatching, StopLock,
      StopStoreHook, StopReturn, AskReturn, HeapCall, BeginCall, LibcMalloc, LibcRealloc, LibcFree,
      Libc, CheckUnwatched, CheckWatched, CountKnownLeak
<1>8. ASSUME NEW t \in TestThread, WorkerGoesOn(t)
      PROVE  UNCHANGED worker_request_queue \/ EnqueueRecord(t)
  BY <1>8
  DEF WorkerGoesOn, Begin, WorkloadCalls, Leave, End, InHeapCall, HeapCall, BeginCall, LibcMalloc,
      LibcRealloc, LibcFree, Libc, CheckUnwatched, CheckWatched, CountKnownLeak, vars
<1>9. UNCHANGED test_vars => UNCHANGED worker_request_queue
  BY DEF test_vars, vars
<1> QED
  BY <1>1, <1>2, <1>3, <1>4, <1>5, <1>6, <1>7, <1>8, <1>9 DEF FixtureNext

LEMMA BacklogNext ==
  ASSUME SessionInv, BacklogInv, [FixtureNext]_test_vars
  PROVE  BacklogInv'
<1>1. TypeInv /\ Main \in Thread /\ TestThread \subseteq Thread /\ Main \notin TestThread
  BY SessionTypes, FixtureConstants
<1>2. StatsRequest \notin Pending'
  BY NoStatsAsked DEF BacklogInv
<1> SUFFICES ASSUME pc'[Main] = "drain", NEW u \in TestThread
             PROVE  backlog'[u] = Len(worker_request_queue'[u])
  BY <1>2 DEF BacklogInv
<1>3. CASE pc[Main] = "drain" /\ LedgerGoesOn
  <2>1. PICK t \in Thread : WorkerHandles(t)
    BY <1>3 DEF LedgerGoesOn, Worker
  <2>2. /\ worker_request_queue' = [worker_request_queue EXCEPT ![t] = Tail(@)]
        /\ backlog' = [backlog EXCEPT ![t] = IF @ = 0 THEN 0 ELSE @ - 1]
        /\ worker_request_queue[t] # <<>> /\ backlog[u] = Len(worker_request_queue[u])
    BY <1>3, <2>1 DEF WorkerHandles, Ready, BacklogInv
  <2>3. CASE u = t
    <3>1. worker_request_queue[t] \in Seq(RequestRecord)
      BY <1>1 DEF TypeInv, Types
    <3>2. /\ Len(worker_request_queue[t]) \in Nat \ {0}
          /\ Len(Tail(worker_request_queue[t])) = Len(worker_request_queue[t]) - 1
      BY <2>2, <3>1, HeadTailProperties, EmptySeq
    <3>3. /\ worker_request_queue'[u] = Tail(worker_request_queue[t])
          /\ backlog'[u] = IF backlog[u] = 0 THEN 0 ELSE backlog[u] - 1
      BY <1>1, <2>2, <2>3 DEF TypeInv, Types
    <3> QED BY <2>2, <2>3, <3>2, <3>3
  <2>4. CASE u # t
    BY <1>1, <2>2, <2>4 DEF TypeInv, Types
  <2> QED BY <2>3, <2>4
<1>4. CASE pc[Main] = "drain" /\ UNCHANGED test_vars
  BY <1>4 DEF BacklogInv, test_vars, vars, history_vars
<1>5. CASE StopAsk(Main)
  BY <1>1, <1>5 DEF StopAsk, Send, TypeInv, Types
<1> QED
  BY <1>3, <1>4, <1>5, MainDrains

(* The request that Main's answer comes from. *)
LEMMA AnswerIsSnapshot ==
  ASSUME SessionInv, BacklogInv, pc[Main] = "drain", NEW t \in Thread, WorkerHandles(t),
         answer'[Main] # answer[Main]
  PROVE  /\ t = Main /\ worker_request_queue'[Main] = <<>>
         /\ answer'[Main].leaks = Open'
         /\ UNCHANGED <<watched, released>>
<1> DEFINE r == Head(worker_request_queue[t])
<1>1. /\ r \in RequestRecord /\ r \in Pending /\ (HandleRecord(r) \/ HandleCommand(t, r))
      /\ TypeInv /\ QueueInv
  BY SessionTypes, PendingShrinks
<1>2. /\ worker_request_queue[t] \in Seq(RequestRecord) /\ worker_request_queue[t] # <<>>
      /\ worker_request_queue' = [worker_request_queue EXCEPT ![t] = Tail(@)]
  BY <1>1 DEF WorkerHandles, Ready, TypeInv, Types
<1>3. /\ 1 \in 1 .. Len(worker_request_queue[t]) /\ worker_request_queue[t][1] = r
      /\ Len(worker_request_queue[t]) \in Nat
  BY <1>2, HeadTailProperties, EmptySeq
<1> HIDE DEF r
<1>4. HandleCommand(t, r)
  BY <1>1 DEF HandleRecord
<1>5. t = Main
  <2>1. \E leaks, storage : Reply(t, leaks, storage)
    BY <1>4 DEF HandleCommand
  <2> QED BY <1>1, <2>1, FixtureConstants DEF Reply, TypeInv, Types
<1>6. r \in Asked \ {StatsRequest}
  BY <1>1, <1>4, RequestKinds DEF HandleCommand, Asked, BacklogInv
<1>7. 1 = Len(worker_request_queue[t]) /\ r # ClearRequest
  BY <1>1, <1>3, <1>5, <1>6 DEF QueueInv, CommandsWaited
<1>8. worker_request_queue'[Main] = <<>>
  <2>1. worker_request_queue'[Main] = Tail(worker_request_queue[t])
    BY <1>1, <1>2, <1>5 DEF TypeInv, Types
  <2>2. Tail(worker_request_queue[t]) \in Seq(RequestRecord) /\ Len(Tail(worker_request_queue[t])) = 0
    BY <1>2, <1>7, HeadTailProperties
  <2> QED BY <2>1, <2>2, EmptySeq
<1>9. r.op = "SNAPSHOT"
  BY <1>6, <1>7 DEF Asked, SnapshotRequest
<1>10. PICK storage : Reply(t, Open', storage) /\ UNCHANGED <<watched, released>>
  BY <1>4, <1>9 DEF HandleCommand
<1>11. answer'[Main].leaks = Open'
  BY <1>1, <1>5, <1>10, FixtureConstants DEF Reply, TypeInv, Types
<1> QED BY <1>5, <1>8, <1>10, <1>11

LEMMA VerdictNext ==
  ASSUME TestInv, EntryInv', FreshWhenNoneFails', [FixtureNext]_test_vars
  PROVE  VerdictInv'
<1>1. /\ SessionInv /\ BacklogInv /\ VerdictInv /\ TypeInv /\ RecordedInv
      /\ Main \in Thread /\ Thread = TestThread \cup {Main} /\ Main \notin TestThread
  BY SessionTypes, FixtureConstants DEF TestInv
<1> SUFFICES ASSUME Judged'
             PROVE  /\ \A t \in Thread : worker_request_queue'[t] = <<>>
                    /\ Verdict' = Open'
                    /\ Open' \cap Addr \subseteq Kept'
                    /\ NoFailedReallocs => watched' \ released' \subseteq Open'
  BY DEF VerdictInv, NoFailedReallocs
<1>2. pc'[Main] = "drain" /\ answer'[Main] # NoAnswer /\ in_time'
  BY DEF Judged, Answered
<1>3. pc[Main] = "drain" /\ (LedgerGoesOn \/ UNCHANGED test_vars)
  BY <1>1, <1>2, MainDrains
<1>4. CASE UNCHANGED test_vars
  <2>1. UNCHANGED <<pc, answer, in_time, worker_request_queue, Open, mine, watched, released>>
    BY <1>4 DEF test_vars, vars, fixture_vars, ledger_vars, history_vars, Open
  <2> QED BY <1>1, <2>1 DEF VerdictInv, Judged, Answered, Verdict, Kept
<1>5. CASE LedgerGoesOn
  <2>1. PICK t \in Thread : WorkerHandles(t)
    BY <1>5 DEF LedgerGoesOn, Worker
  <2>2. ~Judged
    BY <1>1, <2>1 DEF VerdictInv, WorkerHandles, Ready
  <2>3. answer'[Main] # answer[Main] /\ \A u \in TestThread : backlog[u] = 0
    BY <1>2, <1>3, <1>5, <2>2 DEF Judged, Answered, LedgerGoesOn
  <2>4. /\ t = Main /\ worker_request_queue'[Main] = <<>> /\ answer'[Main].leaks = Open'
        /\ UNCHANGED <<watched, released, pc, call, mine>>
    BY <1>1, <1>3, <1>5, <2>1, <2>3, AnswerIsSnapshot DEF WorkerHandles, LedgerGoesOn, fixture_vars
  <2>5. \A u \in TestThread : worker_request_queue'[u] = <<>>
    <3>1. \A u \in TestThread : worker_request_queue'[u] = worker_request_queue[u]
      BY <1>1, <2>1, <2>4 DEF WorkerHandles, TypeInv, Types
    <3>2. \A u \in TestThread : /\ worker_request_queue[u] \in Seq(RequestRecord)
                                /\ Len(worker_request_queue[u]) = 0
      BY <1>1, <1>3, <2>3 DEF BacklogInv, TypeInv, Types
    <3> QED BY <3>1, <3>2, EmptySeq
  <2>6. \A u \in Thread : worker_request_queue'[u] = <<>> /\ Len(worker_request_queue'[u]) = 0
    BY <1>1, <2>4, <2>5, EmptySeq
  <2>7. ASSUME NEW a \in Open' \cap Addr
        PROVE  a \in Kept'
    <3>1. PICK u \in Thread : Accounted(u, a, 0)'
      BY <2>7 DEF EntryInv
    <3>2. Holds(u, a)'
      BY <2>6, <3>1 DEF Accounted
    <3>3. pc'[u] \in {"idle", "drain"}
      BY <1>1, <1>3, <2>4, ThreadsAreDone
    <3> QED BY <3>2, <3>3 DEF Holds, Releases, KeptAt, Kept
  <2>8. ASSUME NoFailedReallocs, NEW a \in watched' \ released'
        PROVE  a \in Open'
    <3>1. a \in Addr /\ doubtful' = {}
      BY <1>1, <1>5, <2>4, <2>8, RecordedNext DEF TypeInv, Types, RecordedInv, FixtureNext
    <3>2. CleanAt(a)'
      BY <2>8, <3>1 DEF FreshWhenNoneFails, NoFailedReallocs, FreshInv
    <3>3. Pending' = {}
      <4>1. \A u \in Thread : DOMAIN worker_request_queue'[u] = {}
        BY <2>6
      <4> QED BY <4>1 DEF Pending, QueueRange
    <3> QED BY <2>8, <3>2, <3>3 DEF CleanAt
  <2> QED BY <2>4, <2>6, <2>7, <2>8 DEF Verdict
<1> QED BY <1>3, <1>4, <1>5

LEMMA TestInit == FixtureInit => TestInv
<1> SUFFICES ASSUME FixtureInit PROVE TestInv
  OBVIOUS
<1>1. SessionInv /\ EntryInv /\ TypeInv /\ FreshInv
  BY SessionInit, EntryInit, FreshInit, SessionTypes DEF FixtureInit
<1>2. Pending = {}
  <2>1. \A t \in Thread : Len(worker_request_queue[t]) = 0
    BY EmptySeq DEF FixtureInit, Init, InitWith
  <2> QED BY <1>1, <2>1, PendingIs
<1>3. pc[Main] # "drain"
  BY FixtureConstants DEF FixtureInit, Init, InitWith
<1> QED
  BY <1>1, <1>2, <1>3 DEF TestInv, FreshWhenNoneFails, BacklogInv, VerdictInv, Judged, Answered

LEMMA TestNext ==
  ASSUME TestInv, [FixtureNext]_test_vars
  PROVE  TestInv'
BY SessionNext, EntryNext, FixtureFresh, BacklogNext, VerdictNext DEF TestInv

(***************************************************************************)
(* The checker of a test sees no false leak, and every leak but those at   *)
(* addresses that the session released before, whatever the workloads, the *)
(* number of threads and the order in which the worker handles their       *)
(* records, as long as no realloc fails: the join comes before             *)
(* stop_watching, so no thread is still between the C library and its      *)
(* record, and each entry left is a block that a thread still has.         *)
(***************************************************************************)
THEOREM VerdictIsRightAlways == NoFailedReallocs => (FixtureSpec => []VerdictIsRight)
<1> SUFFICES ASSUME NoFailedReallocs
             PROVE  FixtureSpec => []VerdictIsRight
  OBVIOUS
<1>1. TestInv => VerdictIsRight
  <2> SUFFICES ASSUME TestInv, Judged
               PROVE  Verdict \cap Addr \subseteq heap /\ watched \ released \subseteq Verdict
    BY DEF VerdictIsRight, Judged
  <2>1. /\ OwnerInv /\ FixtureTypeInv /\ VerdictInv
    BY SessionTypes DEF TestInv
  <2>2. Verdict = Open /\ Open \cap Addr \subseteq Kept /\ watched \ released \subseteq Open
    BY <2>1 DEF VerdictInv
  <2>3. \A a \in Kept : a \in held
    BY <2>1 DEF Kept, FixtureTypeInv, FixtureTypeOK
  <2>4. \A a \in held \cap Addr : a \in heap
    BY <2>1, OwnedBy DEF OwnerInv, OwnerKind
  <2> QED BY <2>2, <2>3, <2>4
<1>2. TestInv /\ [FixtureNext]_test_vars => TestInv'
  BY TestNext
<1> QED
  BY <1>1, <1>2, TestInit, PTL DEF FixtureSpec

-----------------------------------------------------------------------------
(***************************************************************************)
(* The count.  The program of a test whose allocations all succeed, which  *)
(* asks for no block of size 0 and allocates at no place of a known leak:  *)
(* what a thread still has was recorded, and how much that is follows from *)
(* its script.                                                             *)
(***************************************************************************)
CleanRun ==
  /\ ~HeapMayFail
  /\ 0 \notin CallSize
  /\ \A site \in Site : ~IsKnownLeak(InitialLeaks, site)

(* Every call that acquires a block gets one, and none is ignored. *)
Yields(where, c) ==
  /\ where # "count"
  /\ c.fn # "free" => c.size # 0 /\ (where # "libc" => c.result # Null)
  /\ c.fn \in Acquiring => ~IsKnownLeak(InitialLeaks, c.site)

YieldInv == \A t \in Thread : pc[t] \in InCall => Yields(pc[t], call[t])

(* What a test thread has was recorded, and every record is of a block. *)
KeptInv ==
  /\ known_leaks = InitialLeaks
  /\ YieldInv
  /\ Null \notin Open
  /\ \A r \in Pending : Null \notin Opens(r)
  /\ Kept \subseteq watched

(* The n-th call of script w left nothing. *)
Empties(w, n) == n = 0 \/ Script[w][n] = "free"

(* How far a test thread has come in its script, and what it has then. *)
Scripted(t) ==
  LET w == workload[t]
      n == Len(made[t])
  IN  /\ place[t] \in {"none", "waiting"} => made[t] = <<>> /\ mine[t] = {}
      /\ place[t] = "none" => w = NotAdded
      /\ place[t] \in {"leaving", "ended"} =>
           IF w \in DOMAIN Script THEN n = Len(Script[w]) ELSE mine[t] = {}
      /\ w \in DOMAIN Script =>
           /\ n <= Len(Script[w])
           /\ pc[t] = "idle" \/ place[t] = "leaving" =>
                IF Empties(w, n) THEN mine[t] = {} ELSE \E a \in Addr : mine[t] = {a}
           /\ pc[t] # "idle" /\ place[t] = "working" =>
                n > 0 /\ mine[t] = {} /\ call[t].fn = Script[w][n]

ScriptInv == \A t \in TestThread : Scripted(t)

CountInv == TestInv /\ KeptInv /\ ScriptInv

(* A script acquires once, first; a leaky one does not end with a free. *)
LEMMA ScriptFacts ==
  ASSUME NEW w \in DOMAIN Script
  PROVE  /\ Len(Script[w]) \in Nat \ {0} /\ DOMAIN Script[w] = 1 .. Len(Script[w])
         /\ \A i \in DOMAIN Script[w] : Script[w][i] \in Acquiring => i = 1
         /\ Script[w][Len(Script[w])] # "free" <=> w \in Leaky
<1>1. DOMAIN Script = {"NoLeaks", "OneLeak", "OneCallocLeak", "NoLeaksWithRealloc", "OneLeakWithRealloc"}
  BY DEF Script
<1>2. /\ Script["NoLeaks"] = <<"malloc", "free">>
      /\ Script["OneLeak"] = <<"malloc">>
      /\ Script["OneCallocLeak"] = <<"calloc">>
      /\ Script["NoLeaksWithRealloc"] = <<"malloc", "realloc", "free">>
      /\ Script["OneLeakWithRealloc"] = <<"malloc", "realloc">>
  BY DEF Script
<1>3. CASE w = "NoLeaks"
  BY <1>2, <1>3 DEF Acquiring, Leaky
<1>4. CASE w = "OneLeak"
  BY <1>2, <1>4 DEF Acquiring, Leaky
<1>5. CASE w = "OneCallocLeak"
  BY <1>2, <1>5 DEF Acquiring, Leaky
<1>6. CASE w = "NoLeaksWithRealloc"
  <2>1. Script[w] = <<"malloc", "realloc", "free">>
    BY <1>2, <1>6
  <2>2. /\ Len(Script[w]) = 3 /\ DOMAIN Script[w] = 1 .. 3
        /\ Script[w][1] = "malloc" /\ Script[w][2] = "realloc" /\ Script[w][3] = "free"
    BY <2>1
  <2>3. \A i \in 1 .. 3 : i \in {1, 2, 3}
    OBVIOUS
  <2> QED BY <1>6, <2>2, <2>3 DEF Acquiring, Leaky
<1>7. CASE w = "OneLeakWithRealloc"
  BY <1>2, <1>7 DEF Acquiring, Leaky
<1> QED BY <1>1, <1>3, <1>4, <1>5, <1>6, <1>7

(* The steps of a test, by what they do to the calls. *)
LEMMA StepKinds ==
  ASSUME SessionInv, [FixtureNext]_test_vars
  PROVE  \/ LedgerGoesOn
         \/ \E t \in TestThread : WorkloadCalls(t) \/ Leave(t)
         \/ EndAdding
         \/ \E t \in Thread : /\ HeapCall(t) /\ pc[t] \in InCall
                              /\ \A u \in TestThread \ {t} : mine'[u] = mine[u]
                              /\ t \in TestThread => mine'[t] = mine[t] \cup (held' \ held)
         \/ /\ UNCHANGED <<call, allocations, watched, mine>>
            /\ \A u \in Thread : pc'[u] # pc[u] => pc'[u] \notin InCall
            /\ UNCHANGED worker_request_queue \/ \E r \in Asked : Send(Main, r)
<1> DEFINE Quiet == /\ UNCHANGED <<call, allocations, watched, mine>>
                    /\ \A u \in Thread : pc'[u] # pc[u] => pc'[u] \notin InCall
                    /\ UNCHANGED worker_request_queue \/ \E r \in Asked : Send(Main, r)
<1>1. TypeInv /\ FixtureTypeInv /\ TestThread \subseteq Thread /\ Main \in Thread /\ Main \notin TestThread
      /\ mine \in [TestThread -> SUBSET held]
  BY SessionTypes, FixtureConstants DEF FixtureTypeInv, FixtureTypeOK
<1>2. CASE UNCHANGED test_vars
  BY <1>2 DEF test_vars, vars, fixture_vars, ledger_vars, history_vars
<1>3. ASSUME NEW t \in TestThread, Begin(t) \/ End(t) \/ AddThread(t)
      PROVE  Quiet
  BY <1>3 DEF Begin, End, AddThread, vars, ledger_vars, history_vars
<1>4. ASSUME NEW t \in TestThread, InHeapCall(t)
      PROVE  /\ HeapCall(t) /\ pc[t] \in InCall
             /\ \A u \in TestThread \ {t} : mine'[u] = mine[u]
             /\ mine'[t] = mine[t] \cup (held' \ held)
  BY <1>1, <1>4 DEF InHeapCall
<1>5. CASE Construct \/ BeginAdding \/ StartWorkload \/ GoOutOfScope \/ StopWatching
  <2>1. UNCHANGED <<call, allocations, watched, mine, worker_request_queue>>
    BY <1>5 DEF Construct, BeginAdding, StartWorkload, GoOutOfScope, StopWatching, CallStart, CallStop,
                Pause, unchanged_by_commands, unchanged_by_stage, vars, ledger_vars, history_vars
  <2>2. UNCHANGED pc \/ \E where \in {"start", "stop"} : GoTo(Main, where)
    BY <1>5 DEF Construct, BeginAdding, StartWorkload, GoOutOfScope, StopWatching, CallStart, CallStop,
                Pause, vars
  <2>3. \A u \in Thread : pc'[u] # pc[u] => pc'[u] \notin InCall
    BY <1>1, <2>2 DEF GoTo, TypeInv, Types, InCall
  <2> QED BY <2>1, <2>3
<1>6. CASE MainGoesOn /\ CommandStep(Main)
  <2>1. UNCHANGED <<call, allocations, watched, mine>>
    BY <1>6 DEF MainGoesOn, fixture_vars, CommandStep, StartLock, StartCleared, StartStoreHook,
       StartWatching, StopLock, StopStoreHook, StopAsk, StopReturn, AskReturn, unchanged_by_commands,
       ledger_vars
  <2>2. \A u \in Thread : pc'[u] # pc[u] => pc'[u] \notin InCall
    BY <1>1, <1>6, CallFrame
  <2> QED BY <1>1, <1>6, <2>1, <2>2, CommandQueues
<1>7. CASE MainGoesOn /\ HeapCall(Main) /\ pc[Main] \in InCall
  BY <1>1, <1>7 DEF MainGoesOn, fixture_vars
<1> HIDE DEF Quiet
<1> QED
  BY <1>1, <1>2, <1>3, <1>4, <1>5, <1>6, <1>7
  DEF FixtureNext, Test, MainGoesOn, Progress, WorkerGoesOn, Quiet

LEMMA CallYields ==
  ASSUME TypeInv, YieldInv, NEW t \in Thread, NEW where, NEW c, CallBecomes(t, where, c),
         where \in InCall => Yields(where, c)
  PROVE  YieldInv'
<1>1. /\ pc'[t] = where /\ call'[t] = c
      /\ \A u \in Thread \ {t} : pc'[u] = pc[u] /\ call'[u] = call[u]
  BY DEF CallBecomes, TypeInv, Types
<1> QED
  BY <1>1 DEF YieldInv, Yields

LEMMA EnterYields ==
  ASSUME TypeInv, YieldInv, NEW t \in Thread, NEW fn, NEW site, NEW arg, NEW size,
         Enter(t, fn, site, arg, size), fn # "free" => size # 0,
         fn \in Acquiring => ~IsKnownLeak(InitialLeaks, site)
  PROVE  YieldInv'
<1> DEFINE c == [fn |-> fn, hook |-> hooks[fn], site |-> site, arg |-> arg, size |-> size,
                 result |-> Null, seen |-> 0]
<1>1. CallBecomes(t, "libc", c) /\ Yields("libc", c)
  BY DEF Enter, GoTo, CallBecomes, Yields
<1> HIDE DEF c
<1> QED BY <1>1, CallYields

LEMMA HeapCallYields ==
  ASSUME CleanRun, SessionInv, KeptInv, NEW t \in Thread, HeapCall(t), pc[t] \in InCall
  PROVE  YieldInv'
<1> DEFINE b == call[t]
<1>1. TypeInv /\ b \in Call /\ Yields(pc[t], b) /\ YieldInv
  BY SessionTypes DEF TypeInv, InCallHasCall, KeptInv, YieldInv
<1>2. PICK where \in {"idle"} \cup InCall, c \in Call \cup {NoCall} :
        /\ CallBecomes(t, where, c)
        /\ where # "idle" => c.fn = b.fn /\ c.arg = b.arg /\ c.size = b.size /\ c.site = b.site
        /\ \/ pc[t] = "libc" /\ where = "check"
           \/ pc[t] = "check" /\ where \in {"count", "enqueue"} /\ c.result = b.result
           \/ where = "idle"
  BY CallSteps
<1>3. pc'[t] = where /\ call'[t] = c
  BY <1>1, <1>2 DEF CallBecomes, TypeInv, Types
<1>4. CASE pc[t] = "libc" /\ where = "check"
  <2>1. ASSUME c.fn # "free"
        PROVE  c.result # Null
    <3>1. LibcMalloc(t) \/ LibcRealloc(t) \/ LibcFree(t)
      BY <1>4 DEF HeapCall, BeginCall, CheckUnwatched, CheckWatched, CountKnownLeak, EnqueueRecord
    <3>2. b.fn # "free" /\ b.size # 0 /\ Null \notin Fresh
      BY <1>1, <1>2, <1>4, <2>1, LedgerAssumption DEF Yields, CleanRun, Fresh
    <3>3. PICK a \in Fresh \cup ({b.arg} \ {Null}) : Libc(t, [b EXCEPT !.result = a])
      BY <3>1, <3>2 DEF LibcMalloc, LibcRealloc, LibcFree
    <3>4. call'[t] = [b EXCEPT !.result = a]
      <4> DEFINE d == [b EXCEPT !.result = a]
      <4>1. d.hook = "multi"
        BY <1>1, SessionTypes DEF RecordedInv, Call
      <4> HIDE DEF d
      <4>2. call' = [call EXCEPT ![t] = d]
        BY <3>3, <4>1 DEF Libc, d
      <4> QED BY <1>1, <4>2 DEF TypeInv, Types, d
    <3> QED BY <1>1, <1>3, <3>2, <3>3, <3>4 DEF Call
  <2> QED BY <1>1, <1>2, <1>4, <2>1, CallYields DEF Yields
<1>5. CASE pc[t] = "check" /\ where \in {"count", "enqueue"}
  <2>1. CheckWatched(t)
    BY <1>5, SessionTypes, CallsAreInSession
    DEF HeapCall, BeginCall, LibcMalloc, LibcRealloc, LibcFree, CheckUnwatched, CountKnownLeak, EnqueueRecord
  <2>2. ~IgnoresCall(b)
    BY <1>1 DEF KeptInv, IgnoresCall, Yields
  <2>3. where = "enqueue"
    BY <1>1, <1>3, <2>1, <2>2 DEF CheckWatched, GoTo, TypeInv, Types
  <2> QED BY <1>1, <1>2, <1>5, <2>3, CallYields DEF Yields
<1>6. CASE where = "idle"
  BY <1>1, <1>2, <1>6, CallYields DEF InCall
<1> QED BY <1>2, <1>4, <1>5, <1>6

LEMMA HeapCallKept ==
  ASSUME CleanRun, SessionInv, KeptInv, NEW t \in Thread, HeapCall(t), pc[t] \in InCall,
         \A u \in TestThread \ {t} : mine'[u] = mine[u],
         t \in TestThread => mine'[t] = mine[t] \cup (held' \ held)
  PROVE  KeptInv'
<1> DEFINE b == call[t]
<1>1. /\ TypeInv /\ CallInv /\ OwnerInv /\ FixtureTypeInv /\ b \in Call /\ Yields(pc[t], b)
      /\ b.hook = "multi" /\ (b.fn = "free" => b.result = Null) /\ mine \in [TestThread -> SUBSET held]
  BY SessionTypes
  DEF TypeInv, InCallHasCall, KeptInv, YieldInv, CallInv, RecordedInv, FixtureTypeInv, FixtureTypeOK
<1>2. YieldInv' /\ UNCHANGED known_leaks /\ Open' = Open
  BY HeapCallYields
  DEF HeapCall, BeginCall, LibcMalloc, LibcRealloc, LibcFree, Libc, CheckUnwatched, CheckWatched,
      CountKnownLeak, EnqueueRecord, ledger_vars, leak_vars, Open
<1>3. PICK where \in {"idle"} \cup InCall, c \in Call \cup {NoCall} :
        /\ where # "idle" => c.arg = b.arg /\ c.hook = b.hook
        /\ \/ pc[t] = "libc" /\ where = "check" /\ Libc(t, c)
           \/ UNCHANGED <<heap_vars, history_vars, worker_request_queue>>
           \/ pc[t] = "enqueue" /\ EnqueueRecord(t)
  BY <1>1, CallSteps DEF Yields
<1>4. CASE pc[t] = "enqueue" /\ EnqueueRecord(t)
  <2> DEFINE r == RequestOf(b)
  <2>1. Send(t, r) /\ held' = held \cup Given(b) /\ watched' = watched \cup ({b.result} \ {Null})
    BY <1>4 DEF EnqueueRecord, Return
  <2>2. r \in RequestRecord /\ Opens(r) \subseteq {b.result} /\ (b.fn = "free" => Opens(r) = {})
    BY <1>1, RequestType, RecordOfCall DEF RequestRecord, TypeInv, Types, RequestOf, Acquiring, Opens
  <2>3. (b.fn # "free" => b.result # Null) /\ Given(b) \subseteq {b.result} \ {Null}
    BY <1>1, <1>4 DEF Yields, Given
  <2> HIDE DEF r
  <2>4. \A q \in Pending' : Null \notin Opens(q)
    BY <1>1, <2>1, <2>2, <2>3, PendingGrows DEF KeptInv
  <2>5. \A u \in TestThread : mine'[u] \subseteq watched'
    BY <2>1, <2>3 DEF KeptInv, Kept
  <2>6. Kept' \subseteq watched'
    BY <2>5 DEF Kept
  <2> QED BY <1>2, <2>4, <2>6 DEF KeptInv
<1>5. CASE pc[t] = "libc" /\ where = "check" /\ Libc(t, c)
  <2>1. c.arg = b.arg /\ UNCHANGED <<held, worker_request_queue>> /\ watched' = watched \ ReleasedBy(c)
    BY <1>1, <1>3, <1>5 DEF Libc
  <2>2. Pending' = Pending
    BY <2>1 DEF Pending, QueueRange
  <2>3. ASSUME NEW a \in held, a \in ReleasedBy(c)
        PROVE  FALSE
    <3>1. a \in KeptAt(pc[t], b) /\ a \in Addr
      BY <1>1, <1>5, <2>1, <2>3 DEF ReleasedBy, KeptAt, TypeInv, Types
    <3>2. Owns("call", t, 0, a) /\ Owns("app", NoThread, 0, a)
      BY <2>3, <3>1, OwnedBy
    <3> QED BY <1>1, <3>1, <3>2 DEF OwnerInv, OwnerKind
  <2>4. \A u \in TestThread : mine'[u] = mine[u]
    BY <1>1, <2>1
  <2>5. \A u \in TestThread : mine[u] \subseteq watched'
    BY <1>1, <2>1, <2>3 DEF KeptInv, Kept
  <2>6. Kept' \subseteq watched'
    BY <2>4, <2>5 DEF Kept
  <2> QED BY <1>2, <2>2, <2>6 DEF KeptInv
<1>6. CASE UNCHANGED <<heap_vars, history_vars, worker_request_queue>>
  <2>1. UNCHANGED <<held, watched>> /\ Pending' = Pending
    BY <1>6 DEF heap_vars, history_vars, Pending, QueueRange
  <2>2. \A u \in TestThread : mine'[u] = mine[u]
    BY <1>1, <2>1
  <2>3. Kept' = Kept
    BY <2>2 DEF Kept
  <2> QED BY <1>2, <2>1, <2>3 DEF KeptInv
<1> QED BY <1>3, <1>4, <1>5, <1>6

LEMMA KeptLedger ==
  ASSUME SessionInv, KeptInv, ScriptInv, LedgerGoesOn
  PROVE  KeptInv'
<1>1. TypeInv /\ UNCHANGED <<known_leaks, pc, call, mine>>
  BY SessionTypes DEF LedgerGoesOn, Worker, WorkerHandles, fixture_vars, leak_vars
<1>2. PICK t \in Thread : WorkerHandles(t)
  BY DEF LedgerGoesOn, Worker
<1> DEFINE r == Head(worker_request_queue[t])
<1>3. /\ r \in RequestRecord /\ r \in Pending /\ Pending' \subseteq Pending
      /\ HandleRecord(r) \/ HandleCommand(t, r)
  BY <1>1, <1>2, PendingShrinks
<1>4. Open' \subseteq Open \cup Opens(r)
  BY <1>1, <1>2, WorkerOpens
<1>5. r = ClearRequest => BeforeSession
  BY <1>2, ClearedBefore
<1> HIDE DEF r
<1>6. CASE r.op = "CLEAR"
  <2>1. \A u \in TestThread : mine[u] = {}
    BY <1>3, <1>5, <1>6, RequestKinds, SessionTypes DEF StageInv, ScriptInv, Scripted
  <2> QED BY <1>1, <1>3, <1>4, <2>1 DEF KeptInv, YieldInv, Yields, Kept
<1>7. CASE r.op # "CLEAR"
  <2>1. UNCHANGED watched
    BY <1>3, <1>7 DEF HandleRecord, HandleCommand
  <2> QED BY <1>1, <1>3, <1>4, <2>1 DEF KeptInv, YieldInv, Yields, Kept
<1> QED BY <1>6, <1>7

LEMMA KeptNext ==
  ASSUME CleanRun, SessionInv, KeptInv, ScriptInv, [FixtureNext]_test_vars
  PROVE  KeptInv'
<1>1. /\ TypeInv /\ FixtureTypeInv /\ TestThread \subseteq Thread /\ Main \in Thread
      /\ mine \in [TestThread -> SUBSET held] /\ YieldInv
  BY SessionTypes, FixtureConstants DEF FixtureTypeInv, FixtureTypeOK, KeptInv
<1>2. UNCHANGED known_leaks
  <2>1. CASE LedgerGoesOn \/ Test \/ UNCHANGED test_vars
    BY <2>1
    DEF LedgerGoesOn, Worker, WorkerHandles, Test, Construct, BeginAdding, EndAdding, StartWorkload,
        GoOutOfScope, StopWatching, AddThread, CallStart, CallStop, Pause, Resume,
        unchanged_by_commands, leak_vars, test_vars, vars
  <2>2. ASSUME NEW t \in Thread, HeapCall(t)
        PROVE  UNCHANGED known_leaks
    BY <2>2
    DEF HeapCall, BeginCall, LibcMalloc, LibcRealloc, LibcFree, Libc, CheckUnwatched, CheckWatched,
        CountKnownLeak, EnqueueRecord, leak_vars
  <2>3. CASE MainGoesOn
    BY <1>1, <2>2, <2>3
    DEF MainGoesOn, Progress, CommandStep, StartLock, StartCleared, StartStoreHook, StartWatching,
        StopLock, StopStoreHook, StopAsk, StopReturn, AskReturn, unchanged_by_commands, leak_vars
  <2>4. ASSUME NEW t \in TestThread, WorkerGoesOn(t)
        PROVE  UNCHANGED known_leaks
    BY <1>1, <2>2, <2>4
    DEF WorkerGoesOn, Begin, WorkloadCalls, Leave, End, InHeapCall, leak_vars, vars
  <2> QED BY <2>1, <2>3, <2>4 DEF FixtureNext
<1>3. ASSUME YieldInv', UNCHANGED <<allocations, watched, worker_request_queue>>,
             \A u \in TestThread : mine'[u] \subseteq mine[u]
      PROVE  KeptInv'
  <2>1. Pending' = Pending /\ Open' = Open
    BY <1>3 DEF Pending, QueueRange, Open
  <2>2. Kept' \subseteq watched'
    BY <1>3 DEF KeptInv, Kept
  <2> QED BY <1>2, <1>3, <2>1, <2>2 DEF KeptInv
<1>4. ASSUME NEW t \in TestThread, WorkloadCalls(t) \/ Leave(t)
      PROVE  KeptInv'
  <2>1. EntersCall(t)
    BY <1>1, <1>4, WorkloadEnters, LeaveEnters
  <2>2. \A u \in TestThread : mine'[u] \subseteq mine[u]
    BY <1>1, <1>4, WorkloadEnters DEF Leave
  <2>3. YieldInv'
    <3>1. \E fn, site, arg, size :
            /\ Enter(t, fn, site, arg, size)
            /\ fn # "free" => size # 0
            /\ fn \in Acquiring => ~IsKnownLeak(InitialLeaks, site)
      BY <1>1, <1>4, WorkloadEnters, LeaveEnters DEF CleanRun, Acquiring
    <3> QED BY <1>1, <3>1, EnterYields
  <2> QED BY <1>3, <2>1, <2>2, <2>3 DEF EntersCall, ledger_vars, history_vars
<1>5. CASE EndAdding
  <2>1. PICK token : Enter(Main, "free", NoCall, token, 0)
    BY <1>5 DEF EndAdding, Resume
  <2>2. UNCHANGED <<allocations, watched, worker_request_queue, mine>>
    BY <1>5 DEF EndAdding, Resume, ledger_vars, history_vars
  <2> QED BY <1>1, <1>3, <2>1, <2>2, EnterYields DEF Acquiring
<1>6. ASSUME UNCHANGED <<call, allocations, watched, mine>>,
             \A u \in Thread : pc'[u] # pc[u] => pc'[u] \notin InCall,
             UNCHANGED worker_request_queue \/ \E r \in Asked : Send(Main, r)
      PROVE  KeptInv'
  <2>1. YieldInv'
    BY <1>1, <1>6 DEF YieldInv, Yields
  <2>2. CASE UNCHANGED worker_request_queue
    BY <1>3, <1>6, <2>1, <2>2
  <2>3. ASSUME NEW r \in Asked, Send(Main, r)
        PROVE  KeptInv'
    <3>1. r \in RequestRecord /\ Opens(r) = {}
      BY CommandRequests, CommandClosesNothing DEF Asked
    <3>2. Pending' = Pending \cup {r}
      BY <1>1, <2>3, <3>1, PendingGrows
    <3> QED BY <1>2, <1>6, <2>1, <3>1, <3>2 DEF KeptInv, Kept, Open
  <2> QED BY <1>6, <2>2, <2>3
<1> QED
  BY <1>4, <1>5, <1>6, StepKinds, KeptLedger, HeapCallKept

-----------------------------------------------------------------------------
(* The threads follow their scripts. *)
LEMMA ScriptCalls ==
  ASSUME SessionInv, NEW t \in TestThread, Scripted(t), WorkloadCalls(t)
  PROVE  Scripted(t)'
<1> DEFINE w == workload[t]
           n == Len(made[t])
<1>1. /\ TypeInv /\ FixtureTypeInv /\ t \in Thread /\ made \in [TestThread -> Seq(HeapFunction)]
      /\ mine \in [TestThread -> SUBSET held] /\ w \in Workloads
  BY SessionTypes, FixtureConstants DEF FixtureTypeInv, FixtureTypeOK, AddedInv, WorkloadCalls, Moves
<1>2. PICK fn \in NextCalls(t), site \in Site \cup {NoCall}, arg \in Pointer, size \in Size :
        /\ Enter(t, fn, site, arg, size)
        /\ made' = [made EXCEPT ![t] = Append(@, fn)]
        /\ fn \in Acquiring => UNCHANGED mine
        /\ fn \notin Acquiring => arg \in mine[t] /\ mine' = [mine EXCEPT ![t] = @ \ {arg}]
  BY <1>1, WorkloadEnters
<1>3. /\ place'[t] = "working" /\ place[t] = "working" /\ pc[t] = "idle" /\ pc'[t] = "libc"
      /\ call'[t].fn = fn /\ UNCHANGED workload
  <2>1. pc'[t] = "libc" /\ call'[t].fn = fn
    BY <1>1, <1>2 DEF Enter, GoTo, TypeInv, Types
  <2>2. place'[t] = "working" /\ place[t] = "working"
    BY <1>1, WorkloadEnters
  <2> QED BY <2>1, <2>2 DEF WorkloadCalls, Moves
<1>4. CASE w \notin DOMAIN Script
  <2>1. workload'[t] \notin DOMAIN Script /\ place'[t] \notin {"none", "waiting", "leaving", "ended"}
    BY <1>3, <1>4
  <2> QED BY <2>1 DEF Scripted
<1>5. CASE w \in DOMAIN Script
  <2>1. n + 1 \in DOMAIN Script[w] /\ fn = Script[w][n + 1]
    <3>0. w # "BuildBigMap" /\ w # "RandomHeapOperations"
      BY <1>5 DEF Script
    <3>1. NextCalls(t) = {Script[w][i] : i \in {n + 1} \cap DOMAIN Script[w]}
      BY <1>5, <3>0, Zenon DEF NextCalls
    <3> HIDE DEF n
    <3>2. PICK i \in {n + 1} \cap DOMAIN Script[w] : fn = Script[w][i]
      BY <1>2, <3>1
    <3> QED BY <3>2
  <2>2. fn \in HeapFunction
    BY <1>1, NextCallsAreUsed
  <2>3. /\ n \in Nat /\ Len(made'[t]) = n + 1
    BY <1>1, <1>2, <2>2, AppendProperties, LenProperties
  <2>4. n + 1 <= Len(Script[w]) /\ (fn \in Acquiring => n = 0)
    BY <1>5, <2>1, <2>3, ScriptFacts
  <2>5. mine[t] = {} \/ \E a \in Addr : mine[t] = {a}
    BY <1>3, <1>5 DEF Scripted
  <2>6. n = 0 => mine[t] = {}
    BY <1>3, <1>5 DEF Scripted, Empties
  <2>7. mine'[t] = {}
    BY <1>1, <1>2, <2>4, <2>5, <2>6
  <2> HIDE DEF n
  <2> QED BY <1>3, <2>1, <2>3, <2>4, <2>7 DEF Scripted
<1> QED BY <1>4, <1>5

LEMMA ScriptReturns ==
  ASSUME CleanRun, SessionInv, KeptInv, NEW t \in TestThread, Scripted(t), InHeapCall(t)
  PROVE  Scripted(t)'
<1> DEFINE b == call[t]
           w == workload[t]
           n == Len(made[t])
<1>1. /\ TypeInv /\ OwnerInv /\ WorkersInv /\ t \in Thread /\ Yields(pc[t], b) /\ b \in Call
      /\ b.hook = "multi" /\ mine \in [TestThread -> SUBSET held]
  BY SessionTypes, FixtureConstants
  DEF InHeapCall, TypeInv, InCallHasCall, KeptInv, YieldInv, RecordedInv, FixtureTypeInv, FixtureTypeOK
<1>2. /\ pc[t] \in InCall /\ pc[t] # "idle" /\ mine'[t] = mine[t] \cup (held' \ held)
      /\ UNCHANGED <<place, workload, made>>
  BY <1>1 DEF InHeapCall, InCall
<1>3. PICK where \in {"idle"} \cup InCall, c \in Call \cup {NoCall} :
        /\ CallBecomes(t, where, c)
        /\ where # "idle" => c.fn = b.fn /\ c.hook = b.hook
        /\ \/ where = "check" /\ Libc(t, c)
           \/ where # "idle" /\ UNCHANGED heap_vars
           \/ where = "idle" /\ pc[t] = "enqueue" /\ EnqueueRecord(t)
  <2>1. HeapCall(t)
    BY DEF InHeapCall
  <2>2. "check" # "idle" /\ "count" # "idle" /\ "enqueue" # "idle" /\ pc[t] # "count"
    BY <1>1 DEF Yields
  <2> QED BY <1>1, <1>2, <2>1, <2>2, CallSteps
<1>4. pc'[t] = where /\ call'[t] = c
  BY <1>1, <1>3 DEF CallBecomes, TypeInv, Types
<1>5. place[t] \in {"working", "leaving"} /\ (place[t] = "leaving" => b.fn = "free")
  BY <1>1, <1>2 DEF WorkersInv
<1>6. CASE where # "idle"
  <2>1. held' = held
    BY <1>1, <1>3, <1>6 DEF Libc, heap_vars
  <2>2. mine'[t] = mine[t]
    BY <1>2, <2>1
  <2> QED BY <1>2, <1>3, <1>4, <1>5, <1>6, <2>2 DEF Scripted, Empties
<1>7. CASE where = "idle"
  <2>1. pc[t] = "enqueue" /\ held' = held \cup Given(b)
    BY <1>3, <1>7 DEF EnqueueRecord, Return
  <2>2. CASE b.fn = "free"
    <3>1. mine'[t] = mine[t]
      BY <1>2, <2>1, <2>2 DEF Given
    <3> QED BY <1>2, <1>4, <1>5, <1>7, <2>2, <3>1 DEF Scripted, Empties
  <2>3. CASE b.fn # "free"
    <3>1. b.result \in Addr /\ Given(b) = {b.result}
      BY <1>1, <2>1, <2>3, CallParts DEF Yields, Given, Pointer
    <3>2. b.result \notin held
      <4>1. Owns("call", t, 0, b.result)
        BY <1>1, <2>1, <3>1, OwnedBy DEF KeptAt
      <4>2. ~Owns("app", NoThread, 0, b.result)
        BY <1>1, <3>1, <4>1 DEF OwnerInv, OwnerKind
      <4> QED BY <4>2, OwnedBy
    <3>3. mine'[t] = mine[t] \cup {b.result}
      BY <1>2, <2>1, <3>1, <3>2
    <3> QED BY <1>2, <1>4, <1>5, <1>7, <2>3, <3>1, <3>3 DEF Scripted, Empties
  <2> QED BY <2>2, <2>3
<1> QED BY <1>6, <1>7


(* The steps that call nothing: the threads begin, leave and end. *)
LEMMA ScriptMoves ==
  ASSUME SessionInv, NEW t \in TestThread, Scripted(t), Begin(t) \/ End(t) \/ Leave(t)
  PROVE  Scripted(t)'
<1> DEFINE w == workload[t]
           n == Len(made[t])
<1>1. /\ TypeInv /\ FixtureTypeInv /\ t \in Thread
      /\ made \in [TestThread -> Seq(HeapFunction)]
      /\ place \in [TestThread -> {"none", "waiting", "working", "leaving", "ended"}]
  BY SessionTypes, FixtureConstants DEF FixtureTypeInv, FixtureTypeOK
<1>2. UNCHANGED <<made, mine, workload>> /\ pc[t] = "idle"
  BY DEF Begin, End, Leave, Moves
<1>3. CASE Begin(t)
  <2>1. place[t] = "waiting" /\ place'[t] = "working" /\ pc'[t] = "idle"
    BY <1>1, <1>2, <1>3 DEF Begin, Moves, vars
  <2> QED BY <1>2, <2>1 DEF Scripted, Empties
<1>4. CASE End(t)
  <2>1. place[t] = "leaving" /\ place'[t] = "ended" /\ pc'[t] = "idle"
    BY <1>1, <1>2, <1>4 DEF End, Moves, vars
  <2> QED BY <1>2, <2>1 DEF Scripted, Empties
<1>5. CASE Leave(t)
  <2>1. place[t] = "working" /\ place'[t] = "leaving" /\ MayReturn(t)
    BY <1>1, <1>5 DEF Leave, Moves
  <2>2. CASE w \notin DOMAIN Script
    <3>1. mine[t] = {}
      BY <2>1, <2>2 DEF MayReturn
    <3> QED BY <1>2, <2>1, <2>2, <3>1 DEF Scripted, Empties
  <2>3. CASE w \in DOMAIN Script
    <3>1. w # "BuildBigMap" /\ w # "RandomHeapOperations"
      BY <2>3 DEF Script
    <3>2. NextCalls(t) = {Script[w][i] : i \in {n + 1} \cap DOMAIN Script[w]}
      BY <2>3, <3>1, Zenon DEF NextCalls
    <3>3. NextCalls(t) = {}
      BY <2>1, <2>3 DEF MayReturn
    <3>4. n + 1 \notin DOMAIN Script[w]
      BY <3>2, <3>3
    <3>5. n = Len(Script[w])
      <4>1. n \in Nat /\ n <= Len(Script[w])
        BY <1>1, <2>3, LenProperties DEF Scripted
      <4>2. Len(Script[w]) \in Nat /\ DOMAIN Script[w] = 1 .. Len(Script[w])
        BY <2>3, ScriptFacts
      <4> HIDE DEF n
      <4> QED BY <3>4, <4>1, <4>2
    <3> QED BY <1>2, <2>1, <2>3, <3>5 DEF Scripted, Empties
  <2> QED BY <2>2, <2>3
<1> QED BY <1>3, <1>4, <1>5

LEMMA ScriptNext ==
  ASSUME CleanRun, SessionInv, KeptInv, ScriptInv, [FixtureNext]_test_vars
  PROVE  ScriptInv'
<1>1. TypeInv /\ FixtureTypeInv /\ TestThread \subseteq Thread
      /\ mine \in [TestThread -> SUBSET held]
      /\ workload \in [TestThread -> Workloads \cup {NotAdded}]
  BY SessionTypes, FixtureConstants DEF FixtureTypeInv, FixtureTypeOK
<1>2. ASSUME NEW u \in TestThread,
             pc'[u] = pc[u], call'[u] = call[u], made'[u] = made[u], mine'[u] = mine[u],
             workload'[u] = workload[u],
             place'[u] = place[u] \/ (place[u] = "none" /\ place'[u] = "waiting")
      PROVE  Scripted(u)'
  BY <1>2 DEF ScriptInv, Scripted, Empties
<1>3. ASSUME NEW t \in TestThread, WorkerGoesOn(t)
      PROVE  ScriptInv'
  <2>1. \A u \in TestThread \ {t} : mine'[u] = mine[u]
    <3>1. CASE WorkloadCalls(t)
      BY <1>1, <3>1, WorkloadEnters
    <3> QED BY <1>1, <1>3, <3>1 DEF WorkerGoesOn, Begin, End, Leave, InHeapCall
  <2>2. \A u \in TestThread \ {t} : Scripted(u)'
    BY <1>1, <1>2, <1>3, <2>1, ThreadFrame
  <2>3. Scripted(t)'
    BY <1>3, ScriptMoves, ScriptCalls, ScriptReturns DEF WorkerGoesOn, ScriptInv
  <2> QED BY <2>2, <2>3 DEF ScriptInv
<1>4. ASSUME NEW t \in TestThread, AddThread(t), ~\E u \in TestThread : WorkerGoesOn(u)
      PROVE  ScriptInv'
  <2>1. \A u \in TestThread :
          pc'[u] = pc[u] /\ call'[u] = call[u] /\ made'[u] = made[u] /\ mine'[u] = mine[u]
    BY <1>4, MainFrame
  <2>2. \A u \in TestThread \ {t} : workload'[u] = workload[u] /\ place'[u] = place[u]
    BY <1>1, <1>4 DEF AddThread, FixtureTypeInv, FixtureTypeOK
  <2>3. Scripted(t)'
    <3>1. place[t] = "none" /\ place'[t] = "waiting"
      BY <1>1, <1>4 DEF AddThread, FixtureTypeInv, FixtureTypeOK
    <3>2. made'[t] = <<>> /\ mine'[t] = {} /\ pc'[t] = "idle"
      BY <2>1, <3>1, SessionTypes DEF ScriptInv, Scripted, WorkersInv
    <3>3. Len(made'[t]) = 0
      BY <3>2, EmptySeq
    <3>4. \A w \in DOMAIN Script : 0 <= Len(Script[w])
      BY ScriptFacts
    <3> QED BY <3>1, <3>2, <3>3, <3>4 DEF Scripted, Empties
  <2> QED BY <1>2, <2>1, <2>2, <2>3 DEF ScriptInv
<1>5. ASSUME ~\E t \in TestThread : WorkerGoesOn(t) \/ AddThread(t)
      PROVE  ScriptInv'
  <2>1. UNCHANGED workload
    BY <1>5
    DEF FixtureNext, LedgerGoesOn, Test, Construct, BeginAdding, EndAdding, StartWorkload, GoOutOfScope,
        StopWatching, MainGoesOn, unchanged_by_stage, fixture_vars, test_vars
  <2> QED BY <1>2, <1>5, <2>1, MainFrame DEF ScriptInv
<1> QED BY <1>3, <1>4, <1>5

LEMMA CountInit ==
  ASSUME CleanRun, FixtureInit
  PROVE  CountInv
<1>1. TestInv /\ TypeInv /\ Init
  BY TestInit, SessionTypes DEF TestInv, FixtureInit
<1>2. Pending = {} /\ Open = {} /\ known_leaks = InitialLeaks /\ \A t \in Thread : pc[t] = "idle"
  <2>1. \A t \in Thread : Len(worker_request_queue[t]) = 0
    BY <1>1, EmptySeq DEF Init, InitWith
  <2> QED BY <1>1, <2>1, PendingIs DEF Init, InitWith, LedgerInit, Open
<1>3. \A t \in TestThread : /\ made[t] = <<>> /\ mine[t] = {} /\ workload[t] = NotAdded
                            /\ place[t] = "none"
  BY DEF FixtureInit
<1>4. KeptInv
  BY <1>2, <1>3 DEF KeptInv, YieldInv, Kept, InCall
<1>5. ScriptInv
  <2>1. NotAdded \notin DOMAIN Script
    BY DEF NotAdded, Script
  <2> QED BY <1>3, <2>1 DEF ScriptInv, Scripted
<1> QED BY <1>1, <1>4, <1>5 DEF CountInv

LEMMA CountNext ==
  ASSUME CleanRun, CountInv, [FixtureNext]_test_vars
  PROVE  CountInv'
BY TestNext, KeptNext, ScriptNext DEF CountInv, TestInv

-----------------------------------------------------------------------------
(* A thread that has done with a leaky workload has one block, others none. *)
LEMMA LeftByThread ==
  ASSUME SessionInv, ScriptInv, stage = "checking", NEW t \in TestThread, pc[t] = "idle"
  PROVE  IF workload[t] \in Leaky THEN \E a \in Addr : mine[t] = {a} ELSE mine[t] = {}
<1> DEFINE w == workload[t]
           n == Len(made[t])
<1>1. Scripted(t) /\ place[t] \in {"none", "ended"}
  BY SessionTypes DEF ScriptInv, StageInv, AllJoined
<1>2. Leaky \subseteq DOMAIN Script /\ NotAdded \notin Leaky
  BY DEF Leaky, Script, NotAdded
<1>3. CASE place[t] = "none"
  BY <1>1, <1>2, <1>3 DEF Scripted
<1>4. CASE place[t] = "ended" /\ w \notin DOMAIN Script
  BY <1>1, <1>2, <1>4 DEF Scripted
<1>5. CASE place[t] = "ended" /\ w \in DOMAIN Script
  <2>1. n = Len(Script[w]) /\ (IF Empties(w, n) THEN mine[t] = {} ELSE \E a \in Addr : mine[t] = {a})
    BY <1>1, <1>5 DEF Scripted
  <2>2. Empties(w, n) <=> w \notin Leaky
    BY <1>5, <2>1, ScriptFacts DEF Empties
  <2> QED BY <2>1, <2>2
<1> QED BY <1>1, <1>3, <1>4, <1>5

(* So as many blocks are kept as there are leaky threads. *)
LEMMA KeptCount ==
  ASSUME SessionInv, ScriptInv, pc[Main] = "drain"
  PROVE  Cardinality(Kept) = Cardinality({t \in TestThread : workload[t] \in Leaky})
<1> DEFINE L == {t \in TestThread : workload[t] \in Leaky}
           f == [a \in Kept |-> CHOOSE t \in TestThread : a \in mine[t]]
<1>1. /\ \A t \in TestThread : mine[t] \subseteq Addr
      /\ \A t, u \in TestThread : t # u => mine[t] \cap mine[u] = {}
  BY SessionTypes DEF FixtureTypeInv, FixtureTypeOK, TypeInv, Types
<1>2. \A t \in TestThread : IF t \in L THEN \E a \in Addr : mine[t] = {a} ELSE mine[t] = {}
  BY ThreadsAreDone, LeftByThread
<1>3. IsFiniteSet(Kept)
  <2>1. Kept \subseteq Addr
    BY <1>1 DEF Kept
  <2> QED BY <2>1, LedgerAssumption, FS_Subset
<1>4. \A a \in Kept : f[a] \in TestThread /\ a \in mine[f[a]]
  BY DEF Kept
<1>5. f \in [Kept -> L]
  <2>1. \A a \in Kept : f[a] \in L
    BY <1>2, <1>4
  <2> QED BY <2>1
<1>6. \A a, b \in Kept : f[a] = f[b] => a = b
  BY <1>2, <1>4
<1>7. \A t \in L : \E a \in Kept : f[a] = t
  <2>1. SUFFICES ASSUME NEW t \in L
                 PROVE  \E a \in Kept : f[a] = t
    OBVIOUS
  <2>2. PICK a \in Addr : mine[t] = {a}
    BY <1>2
  <2>3. a \in Kept
    BY <2>2 DEF Kept
  <2>4. f[a] = t
    BY <1>1, <1>4, <2>2, <2>3
  <2> QED BY <2>3, <2>4
<1> HIDE DEF L, f
<1>8. ExistsBijection(Kept, L)
  BY <1>5, <1>6, <1>7 DEF ExistsBijection, Bijection, Injection, Surjection, IsInjective
<1> QED BY <1>3, <1>8, FS_Bijection DEF L

(***************************************************************************)
(* The number that the tests require: unless a leak has an address that    *)
(* the session released before, the checker sees one leak for each thread  *)
(* whose workload leaks, for any number of threads and every interleaving  *)
(* of their calls, records and requests (MultithreadedTestFixture.hpp's    *)
(* join and the SNAPSHOT of HeapWatcher.cpp).  Of the test it assumes that *)
(* no allocation fails, none is of size 0 and none is a known leak.        *)
(***************************************************************************)
THEOREM LeaksAreCounted == CleanRun => (FixtureSpec => []VerdictCountsLeaks)
<1> SUFFICES ASSUME CleanRun
             PROVE  FixtureSpec => []VerdictCountsLeaks
  OBVIOUS
<1>1. FixtureInit => CountInv
  BY CountInit
<1>2. CountInv /\ [FixtureNext]_test_vars => CountInv'
  BY CountNext
<1>3. CountInv => VerdictCountsLeaks
  <2> SUFFICES ASSUME CountInv, Judged, watched \cap released = {}
               PROVE  Cardinality(Verdict) = Cardinality({t \in TestThread : workload[t] \in Leaky})
    BY DEF VerdictCountsLeaks, Judged
  <2>1. NoFailedReallocs
    BY DEF CleanRun, NoFailedReallocs
  <2>2. /\ Verdict = Open /\ Open \cap Addr \subseteq Kept /\ watched \subseteq Open
        /\ Kept \subseteq watched /\ Null \notin Open
    BY <2>1 DEF CountInv, TestInv, VerdictInv, KeptInv
  <2>3. Open \subseteq Pointer
    BY SessionTypes DEF CountInv, TestInv, TypeInv, Types, LedgerTypeOK, Open
  <2>4. Verdict = Kept
    BY <2>2, <2>3 DEF Pointer
  <2> QED BY <2>4, KeptCount DEF CountInv, TestInv, Judged, Answered
<1> QED
  BY <1>1, <1>2, <1>3, PTL DEF FixtureSpec
=============================================================================
