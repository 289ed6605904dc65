----------------------------- MODULE LifeProofs -----------------------------
(***************************************************************************)
(* Proofs about the life of the HeapWatcher, from its constructor to the   *)
(* end of its destructor, for any threads, any workload, any size of the   *)
(* worker's batch and any bounds: that the worker's batch is always in the *)
(* queue, that watching goes through the modes of WatchModes from the      *)
(* constructor's probe on, and that the probe's assert holds.              *)
(*                                                                         *)
(* Most steps of LifeCycle are steps of KnownLeaks that are taken at a     *)
(* certain time of life; the lemmas of CaptureProofs hold for them.  The   *)
(* constructor's probe is not: it swaps the hooks without the mutex.       *)
(***************************************************************************)
EXTENDS LifeCycle, CaptureProofs

LeakerCommandless == pc[Leaker] \notin InCommand

LifeTypes == LeaksTypes /\ LifeTypeOK /\ LeakerCommandless

LEMMA LifeThreads == Main \in Thread /\ Leaker \in Thread /\ Main # Leaker /\ Main \in Commander
BY LifeAssumption, LeakerIsThread, ConstantTypes

(***************************************************************************)
(* Types.  Each step is one of KnownLeaks, one of Main or the worker that  *)
(* changes their own state only, or one of the probe.                      *)
(***************************************************************************)
unchanged_by_life_itself == <<vars, single_vars, leaker_vars, captured>>

Probe == BeginProbe \/ ProbeStoresHook \/ ProbeAllocates \/ ProbeLowersFlag \/ ProbeFrees \/ EndProbe

(* What threads do, once or while they are in a call or a command. *)
LEMMA GoesOnLeaks ==
  ASSUME LeakerCommandless, NEW t \in Thread, Begins(t) \/ GoesOn(t), WatchLeaker
  PROVE  LeaksNext
<1>1. CASE Begins(t)
  <2>1. CASE t = Leaker /\ ~CallCapture(t)
    <3>1. WatcherStep
      BY <1>1, <2>1 DEF Begins, WatcherStep
    <3> QED BY <3>1 DEF LeaksNext
  <2>2. CASE t # Leaker /\ ~CallCapture(t)
    <3>1. WatcherStep
      BY <1>1, <2>2 DEF Begins, WatcherStep
    <3> QED BY <3>1 DEF LeaksNext
  <2>3. CASE CallCapture(t)
    BY <2>3 DEF LeaksNext
  <2> QED BY <2>1, <2>2, <2>3
<1>2. CASE GoesOn(t)
  <2>1. CASE Progress(t) /\ (t = Leaker => leaking = "run") /\ UNCHANGED <<single_vars, leaker_vars, captured>>
    <3>1. CASE t = Leaker
      <4>1. ~CommandStep(t)
        BY <3>1 DEF LeakerCommandless, CommandStep, StartLock, StartCleared, StartStoreHook, StartWatching,
                    StopLock, StopStoreHook, StopAsk, StopReturn, AskReturn, InCommand
      <4>2. WatcherStep
        BY <2>1, <3>1, <4>1 DEF Progress, WatcherStep
      <4> QED BY <4>2 DEF LeaksNext
    <3>2. CASE t # Leaker
      <4>1. WatcherStep
        BY <2>1, <3>2 DEF Progress, WatcherStep, ThreadStep
      <4> QED BY <4>1 DEF LeaksNext
    <3> QED BY <3>1, <3>2
  <2>2. CASE (SingleUnwatched(t) \/ SingleWatched(t)) /\ UNCHANGED <<leaker_vars, captured>>
    <3>1. SingleStep
      BY <2>2 DEF SingleStep
    <3> QED BY <3>1 DEF LeaksNext
  <2>3. CASE CaptureStep(t)
    BY <2>3 DEF LeaksNext
  <2> QED BY <1>2, <2>1, <2>2, <2>3 DEF GoesOn
<1> QED BY <1>1, <1>2

(* What a step of the life does to the state below it. *)
LEMMA LifeStepKinds ==
  ASSUME LeakerCommandless, LifeNext
  PROVE  /\ WatchLeaker
         /\ \/ Probe
            \/ /\ LeakerStep \/ \E t \in Thread : Begins(t) \/ GoesOn(t)
               /\ LeaksNext /\ UNCHANGED <<worker_vars, life>>
            \/ \E t \in Thread : LeaksNext /\ WorkerHandlesTaken(t)
            \/ UNCHANGED unchanged_by_life_itself /\ Live("capture", "alive") /\ UNCHANGED worker_vars
            \/ UNCHANGED unchanged_by_life_itself
                 /\ (StartWorker \/ Destroy \/ Join \/ WorkerStarts \/ WorkerTests \/ WorkerTimesOut)
            \/ UNCHANGED unchanged_by_life_itself /\ WorkerTakes
<1>1. WatchLeaker
  BY DEF LifeNext
<1>2. CASE Construct
  <2>1. StartWorker => UNCHANGED unchanged_by_life_itself
    BY DEF StartWorker, unchanged_by_life_itself, unchanged_by_main, unchanged_by_life, vars, hook_vars,
           heap_vars
  <2>2. UNCHANGED leaks_vars => UNCHANGED unchanged_by_life_itself
    BY DEF leaks_vars, watch_vars, unchanged_by_life_itself
  <2> QED
    BY <1>1, <1>2, <2>1, <2>2 DEF Construct, Probe
<1>3. CASE Destroy \/ Join
  BY <1>1, <1>3 DEF Destroy, Join, leaks_vars, watch_vars, unchanged_by_life_itself
<1>4. CASE WorkerLoop
  <2>1. ASSUME NEW t \in Thread, WorkerHandlesTaken(t)
        PROVE  LeaksNext
    <3>1. WatcherStep
      BY <2>1 DEF WorkerHandlesTaken, WatcherStep, Worker
    <3> QED BY <1>1, <3>1 DEF LeaksNext
  <2>2. WorkerStarts \/ WorkerTests \/ WorkerTimesOut => UNCHANGED unchanged_by_life_itself
    BY DEF WorkerStarts, WorkerTests, WorkerTimesOut, unchanged_by_loop, unchanged_by_life_itself
  <2>3. WorkerTakes => UNCHANGED unchanged_by_life_itself
    BY DEF WorkerTakes, unchanged_by_loop, unchanged_by_life_itself
  <2> QED
    BY <1>1, <1>4, <2>1, <2>2, <2>3 DEF WorkerLoop
<1>5. CASE InProcess /\ (LeakerStep \/ \E t \in Thread : Begins(t) \/ GoesOn(t))
  <2>1. UNCHANGED <<worker_vars, life>>
    BY <1>5 DEF InProcess
  <2>2. LeaksNext
    BY <1>1, <1>5, GoesOnLeaks DEF LeaksNext
  <2> QED BY <1>1, <1>5, <2>1, <2>2
<1> QED
  BY <1>2, <1>3, <1>4, <1>5 DEF LifeNext

(* The probe's calls and stores keep the types. *)
LEMMA ProbeType ==
  ASSUME LeaksTypes, Probe, WatchLeaker
  PROVE  LeaksTypes'
<1>1. TypeInv /\ SitesKnown /\ LeaksTypeOK
  BY DEF LeaksTypes
<1>2. Main \in Thread
  BY LifeThreads
<1>3. TypeInv' /\ SitesKnown'
  <2>1. CASE ProbeAllocates \/ ProbeFrees
    <3>1. \E fn \in {"malloc", "free"}, site \in Site \cup {NoCall}, arg \in Pointer, size \in Size :
            /\ Enter(Main, fn, site, arg, size)
            /\ fn \in Acquiring => site \in Site
      <4>1. CASE ProbeAllocates
        BY <4>1, ConstantTypes DEF ProbeAllocates
      <4>2. CASE ProbeFrees
        <5>1. PICK block \in held : Enter(Main, "free", NoCall, block, 0)
          BY <4>2 DEF ProbeFrees
        <5>2. block \in Pointer /\ 0 \in Size
          BY <1>1, <5>1, ConstantTypes DEF TypeInv, Types
        <5> QED BY <5>1, <5>2 DEF Acquiring
      <4> QED BY <2>1, <4>1, <4>2
    <3>2. {"malloc", "free"} \subseteq HeapFunction
      BY DEF HeapFunction, StoreOrder
    <3>3. /\ pc' \in [Thread -> {"idle"} \cup InCall \cup InCommand]
          /\ call' \in [Thread -> Call \cup {NoCall}]
          /\ InCallHasCall' /\ SitesKnown'
      BY <1>1, <1>2, <3>1, <3>2, EnterType, EnterSites
    <3>4. /\ UNCHANGED <<unchanged_by_life, hooks, command_mutex>>
          /\ watching_globally' \in BOOLEAN /\ held' \subseteq Addr
      BY <1>1, <2>1 DEF ProbeAllocates, ProbeFrees, hook_vars, TypeInv, Types
    <3>5. LedgerTypeOK'
      BY <1>1, <3>4 DEF TypeInv, Types, LedgerTypeOK, unchanged_by_life, ledger_vars, counters, anomalies
    <3> QED
      BY <1>1, <3>3, <3>4, <3>5
      DEF TypeInv, Types, unchanged_by_life, leak_vars, bound_vars, history_vars
  <2>2. CASE BeginProbe \/ ProbeStoresHook \/ ProbeLowersFlag \/ EndProbe
    <3>1. /\ UNCHANGED <<unchanged_by_life, command_mutex, held, call>>
          /\ hooks' \in [HeapFunction -> Hook] /\ watching_globally' \in BOOLEAN
      <4>1. \A target \in Hook : StoreHook(target) => hooks' \in [HeapFunction -> Hook]
        BY <1>1 DEF StoreHook, TypeInv, Types, Hook
      <4>2. {"single", "libc"} \subseteq Hook
        BY DEF Hook
      <4> QED
        BY <1>1, <2>2, <4>1, <4>2
        DEF BeginProbe, ProbeStoresHook, ProbeLowersFlag, EndProbe, unchanged_by_main, LowerFlag,
            hook_vars, TypeInv, Types
    <3>2. UNCHANGED pc \/ GoTo(Main, "capture")
      BY <2>2 DEF BeginProbe, ProbeStoresHook, ProbeLowersFlag, EndProbe, unchanged_by_main
    <3>3. /\ pc' \in [Thread -> {"idle"} \cup InCall \cup InCommand]
          /\ \A t \in Thread : pc'[t] # pc[t] => pc'[t] \notin InCall
      BY <1>1, <3>2 DEF GoTo, TypeInv, Types, InCall, InCommand
    <3>4. SitesKnown'
      BY <1>1, <3>1, <3>3, SitesFrame
    <3>5. LedgerTypeOK'
      BY <1>1, <3>1 DEF TypeInv, Types, LedgerTypeOK, unchanged_by_life, ledger_vars, counters, anomalies
    <3>6. InCallHasCall'
      BY <1>1, <3>1, <3>3 DEF TypeInv, InCallHasCall
    <3> QED
      BY <1>1, <3>1, <3>3, <3>4, <3>5, <3>6
      DEF TypeInv, Types, unchanged_by_life, leak_vars, bound_vars, history_vars
  <2> QED BY <2>1, <2>2 DEF Probe
<1>4. /\ UNCHANGED <<leaker_vars, captured, known_leaks>>
      /\ single_threaded_allocations' \in SingleMap
      /\ watched_single_thread_id' \in Thread \cup {NoThread}
  <2>1. UNCHANGED unchanged_by_life
    BY DEF Probe, BeginProbe, ProbeStoresHook, ProbeAllocates, ProbeLowersFlag, ProbeFrees, EndProbe,
           unchanged_by_main
  <2>2. UNCHANGED single_vars \/ BeginProbe \/ EndProbe
    BY DEF Probe, ProbeStoresHook, ProbeAllocates, ProbeLowersFlag, ProbeFrees
  <2>3. /\ single_threaded_allocations' \in SingleMap
        /\ watched_single_thread_id' \in Thread \cup {NoThread}
    BY <1>1, <1>2, <2>2 DEF BeginProbe, EndProbe, LeaksTypeOK, SingleMap, single_vars
  <2> QED BY <2>1, <2>3 DEF unchanged_by_life, leak_vars
<1>5. leaked' \subseteq heap' /\ strayed' \subseteq Addr
  BY <1>3, WatchTypes
<1> QED
  BY <1>1, <1>3, <1>4, <1>5 DEF LeaksTypes, LeaksTypeOK, leaker_vars

(* The thread of std::async issues no commands. *)
LEMMA LeakerStaysCommandless ==
  ASSUME TypeInv, LeakerCommandless, LeaksNext
  PROVE  LeakerCommandless'
<1>1. /\ Leaker \in Thread /\ Leaker \notin Commander
      /\ pc \in [Thread -> {"idle"} \cup InCall \cup InCommand]
  BY LeakerIsThread DEF TypeInv, Types
<1>2. \A place \in {"idle"} \cup InCall : place \notin InCommand
  BY DEF InCall, InCommand
<1>3. CASE WatcherStep
  <2>1. CASE \E t \in Thread \ {Leaker} : ThreadStep(t)
    BY <1>1, <2>1, OthersStay DEF ThreadStays, LeakerCommandless
  <2>2. CASE HeapCall(Leaker)
    BY <1>1, <1>2, <2>2, HeapCallControl DEF LeakerCommandless
  <2>3. CASE Worker
    BY <2>3 DEF Worker, WorkerHandles, LeakerCommandless
  <2> QED BY <1>3, <2>1, <2>2, <2>3 DEF WatcherStep
<1>4. CASE SingleStep
  <2>1. PICK t \in Thread : pc' = [pc EXCEPT ![t] = "idle"]
    BY <1>4, SingleFrame DEF SingleStep, ReturnUnrecorded, Return, GoTo
  <2> QED BY <1>1, <1>2, <2>1 DEF LeakerCommandless
<1>5. ASSUME NEW t \in Thread, CallCapture(t) \/ CaptureStep(t)
      PROVE  LeakerCommandless'
  <2>1. t = Leaker => UNCHANGED pc
    BY <1>1, <1>5 DEF CallCapture, Issue, CaptureStep, CaptureLock, CaptureLeak, CaptureReturn,
                      LeakerCommandless, InCommand
  <2>2. UNCHANGED pc \/ \E place : pc' = [pc EXCEPT ![t] = place]
    BY <1>5 DEF CallCapture, CaptureStep, CaptureLock, CaptureLeak, CaptureReturn, GoTo
  <2> QED BY <1>1, <2>1, <2>2 DEF LeakerCommandless
<1>6. CASE LeakerStep
  BY <1>6 DEF LeakerStep, LeakerBegins, LeakerStoresHook, LeakerWatches, LeakerLowersFlag, LeakerEnds,
              unchanged_by_leaker, LeakerCommandless
<1> QED
  BY <1>3, <1>4, <1>5, <1>6 DEF LeaksNext

(* No thread takes anything from the queue. *)
LEMMA LifeQueues ==
  ASSUME TypeInv, LeakerStep \/ \E t \in Thread : Begins(t) \/ GoesOn(t)
  PROVE  UNCHANGED worker_request_queue \/ \E t \in Thread : \E r : Send(t, r)
<1>1. ASSUME NEW t \in Thread, HeapCall(t)
      PROVE  UNCHANGED worker_request_queue \/ \E r : Send(t, r)
  <2>1. CASE LibcMalloc(t) \/ LibcRealloc(t) \/ LibcFree(t)
    <3>1. PICK c : Libc(t, c)
      BY <2>1 DEF LibcMalloc, LibcRealloc, LibcFree
    <3> QED BY <3>1 DEF Libc
  <2> QED
    BY <1>1, <2>1 DEF HeapCall, BeginCall, CheckUnwatched, CheckWatched, CountKnownLeak, EnqueueRecord
<1>2. ASSUME NEW t \in Thread, ThreadStep(t)
      PROVE  UNCHANGED worker_request_queue \/ \E r : Send(t, r)
  BY <1>1, <1>2, CommandQueues DEF ThreadStep
<1>3. ASSUME NEW t \in Thread, CallCapture(t) \/ CaptureStep(t)
      PROVE  UNCHANGED worker_request_queue
  BY <1>3 DEF CallCapture, CaptureStep, CaptureLock, CaptureLeak, CaptureReturn, unchanged_by_capture
<1>4. ASSUME NEW t \in Thread, SingleUnwatched(t) \/ SingleWatched(t)
      PROVE  UNCHANGED worker_request_queue
  BY <1>4, SingleFrame DEF unchanged_by_single
<1>5. LeakerStep => UNCHANGED worker_request_queue
  BY DEF LeakerStep, LeakerBegins, LeakerStoresHook, LeakerWatches, LeakerLowersFlag, LeakerEnds,
         unchanged_by_leaker, unchanged_by_capture
<1>6. ASSUME NEW t \in Thread, Begins(t) \/ GoesOn(t)
      PROVE  UNCHANGED worker_request_queue \/ \E r : Send(t, r)
  BY <1>1, <1>2, <1>3, <1>4, <1>6 DEF Begins, GoesOn, Progress, ThreadStep
<1> QED BY <1>5, <1>6

(* The batch: what the worker has taken is still at the head of the queue. *)
BatchTypes ==
  /\ taken \in [Thread -> 0 .. MaxBatch]
  /\ \A t \in Thread : taken[t] <= Len(worker_request_queue[t])
  /\ (\E t \in Thread : taken[t] > 0) <=> worker = "handle"

LEMMA BatchStays ==
  ASSUME TypeInv, TypeInv', BatchTypes, UNCHANGED <<worker, taken>>,
         UNCHANGED worker_request_queue \/ \E t \in Thread : \E r : Send(t, r)
  PROVE  BatchTypes'
<1>1. worker_request_queue \in [Thread -> Seq(RequestRecord)]
  BY DEF TypeInv, Types
<1>2. CASE UNCHANGED worker_request_queue
  BY <1>2 DEF BatchTypes
<1>3. ASSUME NEW t \in Thread, NEW r, Send(t, r)
      PROVE  BatchTypes'
  <2>1. /\ worker_request_queue'[t] = Append(worker_request_queue[t], r)
        /\ \A u \in Thread \ {t} : worker_request_queue'[u] = worker_request_queue[u]
    BY <1>1, <1>3 DEF Send
  <2>2. \A S : \A seq \in Seq(S) : Len(seq) \in Nat /\ Len(Append(seq, r)) = Len(seq) + 1
    OBVIOUS
  <2>3. \A u \in Thread : /\ Len(worker_request_queue[u]) \in Nat
                          /\ Len(worker_request_queue'[u]) \in {Len(worker_request_queue[u]),
                                                               Len(worker_request_queue[u]) + 1}
    BY <1>1, <2>1, <2>2
  <2>4. \A u \in Thread : taken[u] \in Int /\ taken[u] <= Len(worker_request_queue[u])
    BY DEF BatchTypes
  <2>5. \A u \in Thread : taken[u] <= Len(worker_request_queue'[u])
    <3>1. \A n \in Int, m \in Nat : n <= m => n <= m + 1
      OBVIOUS
    <3> QED BY <2>3, <2>4, <3>1
  <2> QED BY <2>5 DEF BatchTypes
<1> QED BY <1>2, <1>3

LEMMA BatchHandled ==
  ASSUME TypeInv, BatchTypes, NEW t \in Thread, WorkerHandlesTaken(t)
  PROVE  BatchTypes' /\ worker' \in {"test", "handle"}
<1>1. /\ worker_request_queue \in [Thread -> Seq(RequestRecord)]
      /\ taken \in [Thread -> 0 .. MaxBatch] /\ MaxBatch \in Nat
  BY LifeAssumption DEF TypeInv, Types, BatchTypes
<1>2. /\ worker_request_queue' = [worker_request_queue EXCEPT ![t] = Tail(@)]
      /\ worker_request_queue[t] # <<>> /\ taken[t] > 0
      /\ taken' = [taken EXCEPT ![t] = @ - 1]
      /\ worker' = IF BatchEnds(taken') THEN "test" ELSE "handle"
  BY DEF WorkerHandlesTaken, WorkerHandles, Ready
<1>3. /\ Len(worker_request_queue[t]) \in Nat
      /\ Len(worker_request_queue'[t]) = Len(worker_request_queue[t]) - 1
  <2>1. worker_request_queue[t] \in Seq(RequestRecord)
    BY <1>1
  <2>2. worker_request_queue'[t] = Tail(worker_request_queue[t])
    BY <1>1, <1>2
  <2> QED BY <1>2, <2>1, <2>2, HeadTailProperties, LenProperties
<1>4. taken'[t] = taken[t] - 1 /\ taken[t] \in 0 .. MaxBatch /\ \A u \in Thread \ {t} : taken'[u] = taken[u]
  BY <1>1, <1>2
<1>5. taken' \in [Thread -> 0 .. MaxBatch]
  <2>1. taken[t] - 1 \in 0 .. MaxBatch
    BY <1>1, <1>2, <1>4
  <2> QED BY <1>1, <1>2, <2>1
<1>6. \A u \in Thread : taken'[u] <= Len(worker_request_queue'[u])
  <2>1. taken'[t] <= Len(worker_request_queue'[t])
    <3>1. taken[t] <= Len(worker_request_queue[t])
      BY DEF BatchTypes
    <3> QED BY <1>1, <1>3, <1>4, <3>1
  <2>2. \A u \in Thread \ {t} : taken'[u] <= Len(worker_request_queue'[u])
    BY <1>1, <1>2, <1>4 DEF BatchTypes
  <2> QED BY <2>1, <2>2
<1>7. (\E u \in Thread : taken'[u] > 0) <=> worker' = "handle"
  <2>1. \A u \in Thread : taken'[u] > 0 <=> taken'[u] # 0
    BY <1>5
  <2> QED BY <1>2, <2>1 DEF BatchEnds
<1> QED
  BY <1>2, <1>5, <1>6, <1>7 DEF BatchTypes

LEMMA BatchTaken ==
  ASSUME BatchTypes, WorkerTakes
  PROVE  BatchTypes'
<1>1. /\ taken' \in [Thread -> 0 .. MaxBatch] /\ worker' = "handle" /\ MaxBatch \in Nat
      /\ \A t \in Thread : taken'[t] <= Len(worker_request_queue[t])
      /\ UNCHANGED worker_request_queue
  BY LifeAssumption DEF WorkerTakes, unchanged_by_loop, vars
<1>2. Cardinality(Batch') # 0
  <2>1. Cardinality(Batch') \in 1 .. MaxBatch
    BY DEF WorkerTakes
  <2> QED BY <1>1, <2>1
<1>3. Batch' # {}
  BY <1>2, FS_EmptySet
<1>4. PICK request \in Thread \X (1 .. MaxBatch) : request[2] <= taken'[request[1]]
  BY <1>3 DEF Batch
<1>5. \E t \in Thread : taken'[t] > 0
  <2>1. request[1] \in Thread /\ request[2] \in 1 .. MaxBatch /\ taken'[request[1]] \in 0 .. MaxBatch
    BY <1>1
  <2>2. taken'[request[1]] > 0
    BY <1>1, <1>4, <2>1
  <2> QED BY <2>1, <2>2
<1> QED
  BY <1>1, <1>5 DEF BatchTypes

(* Before the constructor starts it there is no worker. *)
WorkerStartsLater == life = "new" => worker = "none"

LifeTypesInv == LifeTypes /\ WorkerStartsLater

LEMMA LifeTypesStep ==
  ASSUME LifeTypesInv, [LifeNext]_life_vars
  PROVE  LifeTypesInv'
<1>1. LeaksTypes /\ TypeInv /\ LeakerCommandless /\ LifeTypeOK /\ BatchTypes /\ WorkerStartsLater
  BY DEF LifeTypesInv, LifeTypes, LifeTypeOK, BatchTypes, LeaksTypes
<1> DEFINE PlacesOK ==
             /\ life \in {"new", "waiting", "capture", "alive", "joining", "destroyed"} \cup Probing
             /\ worker \in {"none", "started", "test", "wait", "handle", "exited"}
             /\ worker_thread_running \in BOOLEAN
             /\ WorkerStartsLater
           Goal == LeaksTypes' /\ LeakerCommandless' /\ BatchTypes' /\ PlacesOK'
<1>2. Goal => LifeTypesInv'
  BY DEF LifeTypesInv, LifeTypes, LifeTypeOK, BatchTypes
<1>3. CASE UNCHANGED life_vars
  <2>1. UNCHANGED leaks_vars /\ UNCHANGED <<pc, worker_request_queue, worker, taken, worker_thread_running, life>>
    BY <1>3 DEF life_vars, leaks_vars, vars, worker_vars
  <2>2. LeaksTypes'
    BY <1>1, <2>1, LeaksTypesStep
  <2> QED
    BY <1>1, <1>2, <2>1, <2>2 DEF LifeTypeOK, BatchTypes, LeakerCommandless, WorkerStartsLater
<1>4. CASE LifeNext
  <2>1. WatchLeaker
    BY <1>1, <1>4, LifeStepKinds
  <2>2. CASE Probe
    <3>1. LeaksTypes'
      BY <1>1, <2>1, <2>2, ProbeType
    <3>2. UNCHANGED <<worker_request_queue, worker, taken, worker_thread_running>> /\ life' \in {"capture"} \cup Probing
      BY <2>2 DEF Probe, BeginProbe, ProbeStoresHook, ProbeAllocates, ProbeLowersFlag, ProbeFrees, EndProbe,
                  unchanged_by_main, unchanged_by_life, worker_vars, Live, Probing
    <3>3. LeakerCommandless'
      <4>1. UNCHANGED pc \/ \E place : pc' = [pc EXCEPT ![Main] = place]
        BY <2>2 DEF Probe, BeginProbe, ProbeStoresHook, ProbeAllocates, ProbeLowersFlag, ProbeFrees, EndProbe,
                    unchanged_by_main, Enter, GoTo
      <4> QED BY <1>1, <4>1, LifeThreads DEF LeakerCommandless, TypeInv, Types
    <3>4. life' # "new"
      BY <3>2 DEF Probing
    <3>5. BatchTypes'
      BY <1>1, <3>2 DEF BatchTypes
    <3> QED
      BY <1>1, <1>2, <3>1, <3>2, <3>3, <3>4, <3>5 DEF LifeTypeOK, WorkerStartsLater
  <2>3. CASE /\ LeakerStep \/ \E t \in Thread : Begins(t) \/ GoesOn(t)
             /\ LeaksNext /\ UNCHANGED <<worker_vars, life>>
    <3>1. LeaksTypes'
      BY <1>1, <2>3, LeaksTypesStep
    <3>2. TypeInv' /\ UNCHANGED <<worker, taken, worker_thread_running, life>>
      BY <2>3, <3>1 DEF LeaksTypes, worker_vars
    <3>3. BatchTypes'
      BY <1>1, <2>3, <3>2, LifeQueues, BatchStays
    <3>4. LeakerCommandless'
      BY <1>1, <2>3, LeakerStaysCommandless
    <3> QED
      BY <1>1, <1>2, <3>1, <3>2, <3>3, <3>4 DEF LifeTypeOK, WorkerStartsLater
  <2>4. CASE \E t \in Thread : LeaksNext /\ WorkerHandlesTaken(t)
    <3>1. PICK t \in Thread : WorkerHandlesTaken(t)
      BY <2>4
    <3>2. LeaksTypes' /\ LeakerCommandless'
      BY <1>1, <2>4, LeaksTypesStep, LeakerStaysCommandless
    <3>3. BatchTypes' /\ worker' \in {"test", "handle"}
      BY <1>1, <3>1, BatchHandled
    <3>4. UNCHANGED <<worker_thread_running, life>> /\ worker = "handle"
      BY <3>1 DEF WorkerHandlesTaken
    <3> QED
      BY <1>1, <1>2, <3>2, <3>3, <3>4 DEF LifeTypeOK, WorkerStartsLater
  <2>5. CASE UNCHANGED unchanged_by_life_itself
    <3>1. UNCHANGED <<pc, worker_request_queue>>
      BY <2>5 DEF unchanged_by_life_itself, vars
    <3>2. LeaksTypes'
      <4>1. UNCHANGED vars
        BY <2>5 DEF unchanged_by_life_itself
      <4>2. TypeInv' /\ SitesKnown'
        BY <1>1, <4>1, TypeStep DEF vars, SitesKnown, LeaksTypes
      <4>3. leaked' \subseteq heap' /\ strayed' \subseteq Addr
        BY <1>1, <2>1, <4>2, WatchTypes
      <4> QED
        BY <1>1, <2>5, <4>2, <4>3
        DEF LeaksTypes, LeaksTypeOK, unchanged_by_life_itself, single_vars, leaker_vars, vars, leak_vars
    <3>3. LeakerCommandless'
      BY <1>1, <3>1 DEF LeakerCommandless
    <3>4. CASE Live("capture", "alive") /\ UNCHANGED worker_vars
      <4>1. BatchTypes'
        BY <1>1, <3>1, <3>4 DEF BatchTypes, worker_vars
      <4> QED
        BY <1>1, <1>2, <3>2, <3>3, <3>4, <4>1 DEF LifeTypeOK, WorkerStartsLater, Live, worker_vars
    <3>5. CASE StartWorker \/ Destroy \/ Join \/ WorkerStarts \/ WorkerTests \/ WorkerTimesOut
      <4>1. /\ UNCHANGED taken /\ worker_thread_running' \in BOOLEAN
            /\ life' \in {"waiting", "joining", "destroyed", life}
        BY <1>1, <3>5
        DEF StartWorker, Destroy, Join, WorkerStarts, WorkerTests, WorkerTimesOut, Live, worker_vars,
            unchanged_by_loop, RaiseRunning, LifeTypeOK
      <4>2. /\ worker' \in {"started", "test", "wait", "exited", worker}
            /\ worker' # worker => worker # "handle" /\ (worker # "none" \/ life' = "waiting")
        BY <1>1, <3>5
        DEF StartWorker, Destroy, Join, WorkerStarts, WorkerTests, WorkerTimesOut, Live, worker_vars,
            WorkerStartsLater
      <4>3. BatchTypes'
        BY <1>1, <3>1, <4>1, <4>2 DEF BatchTypes
      <4> QED
        BY <1>1, <1>2, <3>2, <3>3, <4>1, <4>2, <4>3 DEF LifeTypeOK, WorkerStartsLater
    <3>6. CASE WorkerTakes
      <4>1. BatchTypes' /\ worker = "wait" /\ worker' = "handle" /\ UNCHANGED <<worker_thread_running, life>>
        BY <1>1, <3>6, BatchTaken DEF WorkerTakes, unchanged_by_loop
      <4> QED
        BY <1>1, <1>2, <3>2, <3>3, <4>1 DEF LifeTypeOK, WorkerStartsLater
    <3> QED
      BY <1>1, <1>4, <2>2, <2>3, <2>4, <3>4, <3>5, <3>6, LifeStepKinds
  <2> QED
    BY <1>1, <1>4, <2>2, <2>3, <2>4, <2>5, LifeStepKinds
<1> QED BY <1>3, <1>4

LEMMA LifeTypesInit == LifeInit => LifeTypesInv
<1> SUFFICES ASSUME LifeInit
             PROVE  LifeTypesInv
  OBVIOUS
<1>1. LeaksTypes /\ LeakerCommandless
  BY LeaksTypesInit, LifeThreads DEF LifeInit, LeaksInit, Init, InitWith, LeakerCommandless, InCommand
<1>2. \A t \in Thread : worker_request_queue[t] = <<>> /\ taken[t] = 0
  BY DEF LifeInit, LeaksInit, Init, InitWith
<1>3. BatchTypes
  <2>1. Len(<<>>) = 0 /\ 0 \in 0 .. MaxBatch
    BY LifeAssumption
  <2> QED BY <1>2, <2>1 DEF BatchTypes, LifeInit
<1> QED
  BY <1>1, <1>3 DEF LifeTypesInv, LifeTypes, LifeTypeOK, BatchTypes, WorkerStartsLater, LifeInit

LEMMA LifeTypesInvHolds == LifeSpec => []LifeTypesInv
BY LifeTypesInit, LifeTypesStep, PTL DEF LifeSpec

(***************************************************************************)
(* The types of the worker's and Main's state: what the worker has taken   *)
(* from the queue and not yet handled is at the head of the queue, and it  *)
(* is at its batch just when there is some left.                           *)
(***************************************************************************)
THEOREM LifeTypesHold == LifeSpec => []LifeTypeOK
BY LifeTypesInvHolds, PTL DEF LifeTypesInv, LifeTypes

-----------------------------------------------------------------------------
(***************************************************************************)
(* The constructor.  Until it captures the leak of std::thread, Main is    *)
(* the only thread inside a heap function, and nobody has the mutex; the   *)
(* hooks, the call Main is in and the single-threaded map are told by how  *)
(* far it has come.  From then on CaptureControl holds.                    *)
(***************************************************************************)
Early == {"new", "waiting"} \cup Probing

MapIsEmpty == \A a \in Pointer : single_threaded_allocations[a] = NoRecord

MapHasOne ==
  \E a \in Pointer : /\ single_threaded_allocations[a] # NoRecord
                     /\ \A b \in Pointer \ {a} : single_threaded_allocations[b] = NoRecord

MainIsAlone ==
  /\ CaptureTypes
  /\ command_mutex = NoThread /\ leaking = "none" /\ watching_thread[Main]
  /\ \A t \in Thread \ {Main} : pc[t] = "idle"

Before == pc[Main] = "idle" /\ HooksAre(FALSE, "libc")

Swapping == pc[Main] = "idle" /\ ~watching_globally /\ Between("single")

MainAllocates ==
  /\ HooksAre(TRUE, "single")
  /\ pc[Main] \in {"idle", "libc", "check"}
  /\ pc[Main] # "idle" => call[Main].fn = "malloc" /\ call[Main].hook = "single" /\ MapIsEmpty
  /\ pc[Main] = "idle" => MapHasOne

MainFrees ==
  /\ HooksAre(FALSE, "libc")
  /\ pc[Main] \in {"idle", "libc"}
  /\ pc[Main] # "idle" => call[Main].fn = "free" /\ call[Main].hook = "libc"

EarlyInv ==
  /\ MainIsAlone
  /\ life \in {"new", "waiting"} => Before
  /\ life = "instrument" => Swapping /\ MapIsEmpty
  /\ life = "probe"      => MainAllocates
  /\ life = "remove"     => Swapping /\ MapHasOne
  /\ life = "free"       => MainFrees /\ MapHasOne
  /\ life \in Probing    => watched_single_thread_id = Main

LifeControl == IF life \in Early THEN EarlyInv ELSE CaptureControl

(* A thread that is inside no command makes no step of one. *)
LEMMA NoCommandUnderway ==
  ASSUME NEW t \in Thread, pc[t] \notin InCommand
  PROVE  ~CommandStep(t) /\ ~CaptureStep(t)
BY DEF CommandStep, StartLock, StartCleared, StartStoreHook, StartWatching, StopLock, StopStoreHook,
       StopAsk, StopReturn, AskReturn, CaptureStep, CaptureLock, CaptureLeak, CaptureReturn, InCommand

unchanged_by_calls == <<hook_vars, leaking, watching_thread, watched_single_thread_id>>

(* All that threads do before the constructor's capture: Main allocates,   *)
(* the allocation is noted, and Main frees what it allocated.              *)
LEMMA EarlyCalls ==
  ASSUME LeaksTypes, EarlyInv, life \in Early,
         LeakerStep \/ \E t \in Thread : Begins(t) \/ GoesOn(t)
  PROVE  /\ UNCHANGED unchanged_by_calls
         /\ \/ /\ life = "probe" /\ pc[Main] = "libc" /\ UNCHANGED single_threaded_allocations
               /\ pc' = [pc EXCEPT ![Main] = "check"]
               /\ call'[Main].fn = "malloc" /\ call'[Main].hook = "single"
            \/ /\ life = "probe" /\ pc[Main] = "check" /\ pc' = [pc EXCEPT ![Main] = "idle"]
               /\ \E a \in Pointer, site \in Site :
                    single_threaded_allocations' = Emplace(single_threaded_allocations, a, site)
            \/ /\ life = "free" /\ pc[Main] = "libc" /\ UNCHANGED single_threaded_allocations
               /\ pc' = [pc EXCEPT ![Main] = "idle"]
<1>1. /\ Main \in Thread /\ leaking = "none"
      /\ call \in [Thread -> Call \cup {NoCall}]
      /\ \A t \in Thread \ {Main} : pc[t] = "idle"
  BY LifeThreads DEF EarlyInv, MainIsAlone, LeaksTypes, TypeInv, Types
<1>2. /\ pc[Main] \in {"idle", "libc", "check"}
      /\ pc[Main] # "idle" => \/ life = "probe" /\ call[Main].fn = "malloc" /\ call[Main].hook = "single"
                              \/ /\ life = "free" /\ call[Main].fn = "free" /\ call[Main].hook = "libc"
                                 /\ pc[Main] = "libc"
  BY DEF EarlyInv, Early, Probing, Before, Swapping, MainAllocates, MainFrees
<1>3. PICK t \in Thread : GoesOn(t)
  BY <1>1, LeakerAdvances DEF Begins, MayBegin, Early, Probing
<1>4. ~CommandStep(t) /\ ~CaptureStep(t)
  BY <1>1, <1>2, <1>3, NoCommandUnderway DEF InCommand
<1>5. \/ HeapCall(t) /\ pc[t] \in InCall /\ UNCHANGED <<single_vars, leaker_vars>>
      \/ (SingleUnwatched(t) \/ SingleWatched(t)) /\ UNCHANGED leaker_vars
  BY <1>3, <1>4 DEF GoesOn, Progress
<1>6. pc[t] # "idle" /\ t = Main
  BY <1>1, <1>5, SingleFrame DEF InCall
<1>7. call[Main] \in Call /\ (call[Main].fn \in Acquiring => call[Main].site \in Site)
  BY <1>1, <1>2, <1>6 DEF LeaksTypes, TypeInv, InCallHasCall, SitesKnown, InCall
<1>8. CASE HeapCall(t) /\ UNCHANGED <<single_vars, leaker_vars>>
  <2>1. \/ LibcMalloc(Main) /\ life = "probe"
        \/ LibcFree(Main) /\ life = "free"
    BY <1>2, <1>6, <1>8 DEF HeapCall, BeginCall, LibcMalloc, LibcRealloc, LibcFree, CheckUnwatched, CheckWatched,
                            CountKnownLeak, EnqueueRecord, Acquiring
  <2>2. CASE LibcMalloc(Main) /\ life = "probe"
    <3>1. pc[Main] = "libc" /\ call[Main].fn = "malloc" /\ call[Main].hook = "single"
      BY <1>2, <2>2 DEF LibcMalloc
    <3>2. PICK a : Libc(Main, [call[Main] EXCEPT !.result = a])
      BY <2>2 DEF LibcMalloc
    <3> DEFINE c == [call[Main] EXCEPT !.result = a]
    <3>3. c.fn = "malloc" /\ c.hook = "single"
      BY <1>7, <3>1 DEF Call
    <3>4. Libc(Main, c)
      BY <3>2
    <3> HIDE DEF c
    <3>5. /\ pc' = [pc EXCEPT ![Main] = "check"] /\ call' = [call EXCEPT ![Main] = c]
          /\ UNCHANGED <<hook_vars, watching_thread>>
      BY <3>3, <3>4 DEF Libc, GoTo
    <3>6. call'[Main] = c
      BY <1>1, <3>5
    <3> QED
      BY <1>8, <2>2, <3>1, <3>3, <3>5, <3>6 DEF unchanged_by_calls, single_vars, leaker_vars
  <2>3. CASE LibcFree(Main) /\ life = "free"
    <3>1. call[Main].hook = "libc" /\ pc[Main] = "libc" /\ Libc(Main, call[Main])
      BY <1>2, <2>3 DEF LibcFree
    <3>2. pc' = [pc EXCEPT ![Main] = "idle"] /\ UNCHANGED <<hook_vars, watching_thread>>
      BY <3>1 DEF Libc, ReturnUnrecorded, Return, GoTo
    <3> QED
      BY <1>8, <2>3, <3>1, <3>2 DEF unchanged_by_calls, single_vars, leaker_vars
  <2> QED BY <2>1, <2>2, <2>3
<1>9. CASE (SingleUnwatched(t) \/ SingleWatched(t)) /\ UNCHANGED leaker_vars
  <2>1. /\ pc[Main] = "check" /\ ReturnUnrecorded(Main, call[Main])
        /\ UNCHANGED <<unchanged_by_single, watched_single_thread_id>>
    BY <1>6, <1>9, SingleFrame
  <2>2. life = "probe" /\ call[Main].fn = "malloc"
    BY <1>2, <2>1
  <2>3. WatchedSingly(Main)
    BY <2>2 DEF WatchedSingly, EarlyInv, MainIsAlone, Probing
  <2>4. SingleRecord(call[Main])
    BY <1>6, <1>9, <2>3 DEF SingleUnwatched, SingleWatched
  <2>5. single_threaded_allocations'
          = Emplace(single_threaded_allocations, call[Main].result, call[Main].site)
    BY <2>2, <2>4 DEF SingleRecord, Acquiring
  <2>6. call[Main].result \in Pointer /\ call[Main].site \in Site
    BY <1>7, <2>2, CallParts DEF Acquiring
  <2>7. pc' = [pc EXCEPT ![Main] = "idle"]
    BY <2>1 DEF ReturnUnrecorded, Return, GoTo
  <2> QED
    BY <1>9, <2>1, <2>2, <2>5, <2>6, <2>7 DEF unchanged_by_calls, unchanged_by_single, leaker_vars
<1> QED BY <1>5, <1>8, <1>9

LifeMode == IF life \in Probing THEN "capturing" ELSE Mode

(* What a step of the life has to show. *)
LifeModeStep == [LifeModes!ModeNext]_<<LifeMode, Reach>>

(* Main's place, the hooks and the flag change, all else the invariant     *)
(* speaks of is left alone.                                                *)
LEMMA StillAlone ==
  ASSUME LeaksTypes', MainIsAlone, UNCHANGED <<command_mutex, leaking, watching_thread>>,
         pc \in [Thread -> Place],
         UNCHANGED pc \/ \E place : pc' = [pc EXCEPT ![Main] = place]
  PROVE  MainIsAlone'
<1>1. CaptureTypes'
  BY DEF LeaksTypes, LeaksTypeOK, TypeInv, Types, CaptureTypes, Place
<1> QED
  BY <1>1 DEF MainIsAlone

(* One step of the probe after the other. *)
LEMMA ProbeControl ==
  ASSUME LeaksTypes, LeaksTypes', EarlyInv, life \in Early, Probe
  PROVE  LifeControl' /\ LifeModeStep
<1>1. /\ Main \in Thread /\ pc \in [Thread -> Place] /\ hooks \in [HeapFunction -> Hook]
      /\ call \in [Thread -> Call \cup {NoCall}] /\ MainIsAlone
      /\ command_mutex = NoThread
  BY LifeThreads DEF EarlyInv, MainIsAlone, CaptureTypes, LeaksTypes, TypeInv, Types
<1>2. UNCHANGED pc \/ \E place : pc' = [pc EXCEPT ![Main] = place]
  BY DEF Probe, BeginProbe, ProbeStoresHook, ProbeAllocates, ProbeLowersFlag, ProbeFrees, EndProbe,
         unchanged_by_main, Enter, GoTo
<1>3. UNCHANGED <<command_mutex, leaking, watching_thread>>
  BY DEF Probe, BeginProbe, ProbeStoresHook, ProbeAllocates, ProbeLowersFlag, ProbeFrees, EndProbe,
         unchanged_by_main, unchanged_by_life, hook_vars, leaker_vars
<1>4. MainIsAlone'
  BY <1>1, <1>2, <1>3, StillAlone
<1>5. CASE BeginProbe
  <2>1. /\ life = "waiting" /\ life' = "instrument" /\ Before
        /\ UNCHANGED <<hooks, watching_globally, pc, command_mutex>>
        /\ MapIsEmpty' /\ watched_single_thread_id' = Main
    BY <1>5 DEF BeginProbe, Live, unchanged_by_main, EarlyInv, MapIsEmpty
  <2>2. Swapping'
    BY <2>1 DEF Before, Swapping, HooksAre, Stored, Between
  <2>3. LifeControl'
    BY <1>4, <2>1, <2>2 DEF LifeControl, EarlyInv, Early, Probing
  <2>4. LifeMode = "quiet" /\ LifeMode' = "capturing" /\ Reach' = Reach
    BY <1>1, <2>1 DEF LifeMode, Mode, Before, HooksAre, Probing, Reach
  <2> QED
    BY <2>3, <2>4 DEF LifeModeStep, LifeMode, LifeModes!ModeNext, LifeModes!Begin
<1>6. CASE ProbeStoresHook
  <2>1. /\ \/ life = "instrument" /\ StoreHook("single")
           \/ life = "remove" /\ StoreHook("libc")
        /\ life' = life /\ Swapping
        /\ UNCHANGED <<watching_globally, pc, call, single_threaded_allocations, watched_single_thread_id>>
    BY <1>6 DEF ProbeStoresHook, Live, unchanged_by_main, EarlyInv, single_vars
  <2>2. /\ Between("single")'
        /\ \/ life = "instrument" /\ Reach \subseteq {"libc", "single"}
              /\ Reach' \in {{"libc", "single"}, {"single"}}
           \/ life = "remove" /\ Reach' \in {Reach \cup {"libc"}, {"libc"}}
    BY <1>1, <2>1, StoreReach DEF Swapping
  <2>3. Swapping'
    BY <2>1, <2>2 DEF Swapping
  <2>4. LifeControl'
    BY <1>4, <2>1, <2>3 DEF LifeControl, EarlyInv, Early, Probing, MapIsEmpty, MapHasOne
  <2>5. LifeMode = "capturing" /\ LifeMode' = "capturing"
    BY <2>1 DEF LifeMode, Probing
  <2> QED
    BY <2>2, <2>4, <2>5 DEF LifeModeStep, LifeMode, LifeModes!ModeNext, LifeModes!Instrument, LifeModes!Remove
<1>7. CASE ProbeAllocates
  <2>1. /\ life = "instrument" /\ life' = "probe" /\ Stored("single") /\ watching_globally' = TRUE
        /\ UNCHANGED <<hooks, single_threaded_allocations, watched_single_thread_id>>
        /\ MapIsEmpty /\ watched_single_thread_id = Main
    BY <1>7 DEF ProbeAllocates, Installed, Live, EarlyInv, single_vars, Probing
  <2>2. PICK site, size : Enter(Main, "malloc", site, Null, size)
    BY <1>7 DEF ProbeAllocates
  <2>3. pc'[Main] = "libc" /\ call'[Main].fn = "malloc" /\ call'[Main].hook = "single"
    <3>1. hooks["malloc"] = "single"
      BY <2>1 DEF Stored, HeapFunction, StoreOrder
    <3> QED BY <1>1, <2>2, <3>1 DEF Enter, GoTo
  <2>4. HooksAre(TRUE, "single")' /\ MapIsEmpty'
    BY <2>1 DEF HooksAre, Stored, MapIsEmpty
  <2>5. MainAllocates'
    BY <2>3, <2>4 DEF MainAllocates
  <2>6. LifeControl'
    BY <1>4, <2>1, <2>5 DEF LifeControl, EarlyInv, Early, Probing
  <2> QED
    BY <2>1, <2>6 DEF LifeModeStep, LifeMode, Probing, Reach
<1>8. CASE ProbeLowersFlag
  <2>1. /\ life = "probe" /\ life' = "remove" /\ pc[Main] = "idle" /\ watching_globally' = FALSE
        /\ UNCHANGED <<hooks, pc, single_threaded_allocations, watched_single_thread_id>>
        /\ MainAllocates /\ watched_single_thread_id = Main
    BY <1>8 DEF ProbeLowersFlag, LowerFlag, Live, EarlyInv, single_vars, unchanged_by_main, Probing
  <2>2. Swapping' /\ MapHasOne'
    BY <2>1 DEF MainAllocates, Swapping, HooksAre, Stored, Between, MapHasOne
  <2>3. LifeControl'
    BY <1>4, <2>1, <2>2 DEF LifeControl, EarlyInv, Early, Probing
  <2> QED
    BY <2>1, <2>3 DEF LifeModeStep, LifeMode, Probing, Reach
<1>9. CASE ProbeFrees
  <2>1. /\ life = "remove" /\ life' = "free" /\ Stored("libc") /\ Swapping /\ MapHasOne
        /\ UNCHANGED <<hooks, watching_globally, single_threaded_allocations, watched_single_thread_id>>
        /\ watched_single_thread_id = Main
    BY <1>9 DEF ProbeFrees, Live, EarlyInv, single_vars, hook_vars, Probing
  <2>2. PICK block : Enter(Main, "free", NoCall, block, 0)
    BY <1>9 DEF ProbeFrees
  <2>3. pc'[Main] = "libc" /\ call'[Main].fn = "free" /\ call'[Main].hook = "libc"
    <3>1. hooks["free"] = "libc"
      BY <2>1 DEF Stored, HeapFunction, StoreOrder
    <3> QED BY <1>1, <2>2, <3>1 DEF Enter, GoTo
  <2>4. HooksAre(FALSE, "libc")' /\ MapHasOne'
    BY <1>1, <2>1, <1>4 DEF HooksAre, Stored, MapHasOne, Swapping, MainIsAlone, CaptureTypes
  <2>5. MainFrees'
    BY <2>3, <2>4 DEF MainFrees
  <2>6. LifeControl'
    BY <1>4, <2>1, <2>4, <2>5 DEF LifeControl, EarlyInv, Early, Probing
  <2> QED
    BY <2>1, <2>6 DEF LifeModeStep, LifeMode, Probing, Reach
<1>10. CASE EndProbe
  <2>1. /\ life = "free" /\ life' = "capture" /\ pc' = [pc EXCEPT ![Main] = "capture"]
        /\ UNCHANGED <<hooks, watching_globally>> /\ HooksAre(FALSE, "libc")
    BY <1>10 DEF EndProbe, Live, GoTo, hook_vars, EarlyInv, MainFrees
  <2>2. \A t \in Thread : pc'[t] \in {"idle", "capture"}
    BY <1>1, <2>1 DEF MainIsAlone
  <2>3. \A t \in Thread : pc'[t] \notin InMutex \cup {"leak"}
    BY <2>2 DEF InMutex
  <2>4. /\ HooksAre(FALSE, "libc")' /\ command_mutex' = NoThread /\ leaking' = "none" /\ CaptureTypes'
        /\ NoThread \notin Thread
    BY <1>4, <2>1, WatcherAssumption DEF HooksAre, Stored, MainIsAlone
  <2>5. CaptureControl'
    BY <2>3, <2>4 DEF CaptureControl, LockHeld, LeakingInside, HooksMatch, InMutex
  <2>6. life' \notin Early
    BY <2>1 DEF Early, Probing
  <2>7. Reach = {"libc"} /\ Reach' = Reach
    BY <2>1, ReachOf DEF HooksAre, Reach
  <2>8. LifeMode = "capturing" /\ LifeMode' = "quiet"
    BY <2>1, <2>4 DEF LifeMode, Probing, Mode, HooksAre
  <2> QED
    BY <2>5, <2>6, <2>7, <2>8 DEF LifeControl, LifeModeStep, LifeMode, LifeModes!ModeNext, LifeModes!Rest
<1> QED
  BY <1>5, <1>6, <1>7, <1>8, <1>9, <1>10 DEF Probe

(* Steps that the probe does not see. *)
LEMMA EarlyFrame ==
  ASSUME LeaksTypes', EarlyInv, life \in Early, pc \in [Thread -> Place],
         UNCHANGED <<unchanged_by_calls, pc, call, single_threaded_allocations>>,
         UNCHANGED life \/ (life = "new" /\ life' = "waiting")
  PROVE  LifeControl' /\ LifeModeStep
<1>1. /\ UNCHANGED <<hooks, watching_globally, command_mutex, leaking, watching_thread>>
      /\ UNCHANGED <<watched_single_thread_id, pc, call, single_threaded_allocations>>
  BY DEF unchanged_by_calls, hook_vars
<1>2. MainIsAlone'
  BY <1>1, StillAlone DEF EarlyInv
<1>3. life' \in Early
  BY DEF Early
<1>4. EarlyInv'
  BY <1>1, <1>2
  DEF EarlyInv, Before, Swapping, MainAllocates, MainFrees, HooksAre, Stored, Between, MapIsEmpty, MapHasOne,
      Probing
<1>5. LifeMode' = LifeMode /\ Reach' = Reach
  BY <1>1 DEF LifeMode, Mode, Reach, Probing
<1> QED
  BY <1>3, <1>4, <1>5 DEF LifeControl, LifeModeStep

(* The calls of the probe. *)
LEMMA EarlyCallControl ==
  ASSUME LeaksTypes, LeaksTypes', EarlyInv, life \in Early, UNCHANGED life,
         LeakerStep \/ \E t \in Thread : Begins(t) \/ GoesOn(t)
  PROVE  LifeControl' /\ LifeModeStep
<1>1. /\ UNCHANGED <<hooks, watching_globally, command_mutex, leaking, watching_thread, watched_single_thread_id>>
      /\ \/ /\ life = "probe" /\ pc[Main] = "libc" /\ UNCHANGED single_threaded_allocations
            /\ pc' = [pc EXCEPT ![Main] = "check"]
            /\ call'[Main].fn = "malloc" /\ call'[Main].hook = "single"
         \/ /\ life = "probe" /\ pc[Main] = "check" /\ pc' = [pc EXCEPT ![Main] = "idle"]
            /\ \E a \in Pointer, site \in Site :
                 single_threaded_allocations' = Emplace(single_threaded_allocations, a, site)
         \/ /\ life = "free" /\ pc[Main] = "libc" /\ UNCHANGED single_threaded_allocations
            /\ pc' = [pc EXCEPT ![Main] = "idle"]
  BY EarlyCalls DEF unchanged_by_calls, hook_vars
<1>2. /\ Main \in Thread /\ pc \in [Thread -> Place] /\ NoRecord \notin Site
      /\ single_threaded_allocations \in SingleMap
  BY LifeThreads, KnownLeaksAssumption
  DEF EarlyInv, MainIsAlone, CaptureTypes, LeaksTypes, LeaksTypeOK
<1>3. MainIsAlone'
  <2>1. \E place : pc' = [pc EXCEPT ![Main] = place]
    BY <1>1
  <2> QED BY <1>1, <1>2, <2>1, StillAlone DEF EarlyInv
<1>4. life \in {"probe", "free"} /\ watched_single_thread_id' = Main
  BY <1>1 DEF EarlyInv, Probing
<1>5. LifeMode' = LifeMode /\ Reach' = Reach
  BY <1>1, <1>4 DEF LifeMode, Reach, Probing
<1>6. CASE life = "probe" /\ pc[Main] = "libc"
  <2>1. pc'[Main] = "check" /\ call'[Main].fn = "malloc" /\ call'[Main].hook = "single" /\ MapIsEmpty'
    BY <1>1, <1>2, <1>6 DEF EarlyInv, MainAllocates, MapIsEmpty
  <2>2. HooksAre(TRUE, "single")'
    BY <1>1, <1>6 DEF EarlyInv, MainAllocates, HooksAre, Stored
  <2>3. MainAllocates'
    BY <2>1, <2>2 DEF MainAllocates
  <2> QED
    BY <1>3, <1>4, <1>5, <1>6, <2>3 DEF LifeControl, LifeModeStep, EarlyInv, Early, Probing
<1>7. CASE life = "probe" /\ pc[Main] = "check"
  <2>1. pc'[Main] = "idle" /\ MapIsEmpty /\ HooksAre(TRUE, "single")
    BY <1>1, <1>2, <1>7 DEF EarlyInv, MainAllocates
  <2>2. PICK a \in Pointer, site \in Site :
          single_threaded_allocations' = Emplace(single_threaded_allocations, a, site)
    BY <1>1, <1>7
  <2>3. /\ single_threaded_allocations'[a] = site
        /\ \A b \in Pointer \ {a} : single_threaded_allocations'[b] = NoRecord
    BY <1>2, <2>1, <2>2 DEF Emplace, MapIsEmpty, SingleMap
  <2>4. MapHasOne'
    BY <1>2, <2>3 DEF MapHasOne
  <2>5. HooksAre(TRUE, "single")'
    BY <1>1, <2>1 DEF HooksAre, Stored
  <2>6. MainAllocates'
    BY <2>1, <2>4, <2>5 DEF MainAllocates
  <2> QED
    BY <1>3, <1>4, <1>5, <1>7, <2>6 DEF LifeControl, LifeModeStep, EarlyInv, Early, Probing
<1>8. CASE life = "free" /\ pc[Main] = "libc"
  <2>1. pc'[Main] = "idle" /\ UNCHANGED single_threaded_allocations /\ HooksAre(FALSE, "libc") /\ MapHasOne
    BY <1>1, <1>2, <1>8 DEF EarlyInv, MainFrees
  <2>2. MapHasOne' /\ HooksAre(FALSE, "libc")'
    BY <1>1, <2>1 DEF MapHasOne, HooksAre, Stored
  <2>3. MainFrees'
    BY <2>1, <2>2 DEF MainFrees
  <2> QED
    BY <1>3, <1>4, <1>5, <1>8, <2>2, <2>3 DEF LifeControl, LifeModeStep, EarlyInv, Early, Probing
<1> QED BY <1>1, <1>6, <1>7, <1>8

(* After the probe, KnownLeaks' steps take watching through its modes.     *)
LEMMA LateControl ==
  ASSUME CaptureControl, life \notin Early, life' \notin Early,
         [LeaksNext]_leaks_vars \/ UNCHANGED unchanged_by_life_itself
  PROVE  LifeControl' /\ LifeModeStep
<1>1. CaptureControl' /\ ModeStep
  <2>1. CASE [LeaksNext]_leaks_vars
    BY <2>1, CaptureControlStep
  <2>2. CASE UNCHANGED unchanged_by_life_itself
    <3>1. UNCHANGED <<hook_vars, leaking, pc>>
      BY <2>2 DEF unchanged_by_life_itself, vars, leaker_vars
    <3> QED BY <3>1, ControlStays
  <2> QED BY <2>1, <2>2
<1>2. LifeMode = Mode /\ LifeMode' = Mode'
  BY DEF LifeMode, Early
<1> HIDE DEF Mode, Reach
<1>3. Modes!ModeNext => LifeModes!ModeNext
  BY <1>2
  DEF LifeMode, Modes!ModeNext, Modes!Begin, Modes!Instrument, Modes!Remove, Modes!Watch, Modes!Rest, Modes!Abandon,
      LifeModes!ModeNext, LifeModes!Begin, LifeModes!Instrument, LifeModes!Remove, LifeModes!Watch,
      LifeModes!Rest, LifeModes!Abandon
<1> QED
  BY <1>1, <1>2, <1>3 DEF LifeControl, ModeStep, LifeModeStep

LEMMA LifeControlStep ==
  ASSUME LifeTypes, LeaksTypes', LifeControl, [LifeNext]_life_vars
  PROVE  LifeControl' /\ LifeModeStep
<1>1. LeaksTypes /\ LeakerCommandless /\ pc \in [Thread -> Place]
  BY DEF LifeTypes, LeaksTypes, TypeInv, Types, Place
<1>2. CASE life \in Early
  <2>1. EarlyInv
    BY <1>2 DEF LifeControl
  <2>2. CASE Probe
    BY <1>1, <1>2, <2>1, <2>2, ProbeControl
  <2>3. CASE (LeakerStep \/ \E t \in Thread : Begins(t) \/ GoesOn(t)) /\ UNCHANGED life
    BY <1>1, <1>2, <2>1, <2>3, EarlyCallControl
  <2>4. ASSUME NEW t \in Thread, WorkerHandlesTaken(t)
        PROVE  LifeControl' /\ LifeModeStep
    <3>1. /\ UNCHANGED <<unchanged_by_calls, pc, call, single_threaded_allocations>>
          /\ UNCHANGED life
      BY <2>4 DEF WorkerHandlesTaken, WorkerHandles, unchanged_by_calls, single_vars, leaker_vars
    <3> QED BY <1>1, <1>2, <2>1, <3>1, EarlyFrame
  <2>5. CASE UNCHANGED unchanged_by_life_itself /\ (UNCHANGED life \/ StartWorker)
    <3>1. /\ UNCHANGED <<unchanged_by_calls, pc, call, single_threaded_allocations>>
          /\ UNCHANGED life \/ (life = "new" /\ life' = "waiting")
      BY <2>5 DEF unchanged_by_life_itself, vars, unchanged_by_calls, single_vars, leaker_vars, StartWorker, Live
    <3> QED BY <1>1, <1>2, <2>1, <3>1, EarlyFrame
  <2>6. UNCHANGED life_vars => UNCHANGED unchanged_by_life_itself /\ UNCHANGED life
    BY DEF life_vars, leaks_vars, watch_vars, unchanged_by_life_itself
  <2>7. Destroy \/ Join \/ Live("capture", "alive") => FALSE
    BY <1>2 DEF Destroy, Join, Live, Early, Probing
  <2>8. WorkerStarts \/ WorkerTests \/ WorkerTimesOut \/ WorkerTakes => UNCHANGED life
    BY DEF WorkerStarts, WorkerTests, WorkerTimesOut, WorkerTakes, unchanged_by_loop
  <2> QED
    BY <1>1, <2>2, <2>3, <2>4, <2>5, <2>6, <2>7, <2>8, LifeStepKinds
<1>3. CASE life \notin Early
  <2>1. CaptureControl
    BY <1>3 DEF LifeControl
  <2>2. ~Probe /\ ~StartWorker
    BY <1>3 DEF Probe, BeginProbe, ProbeStoresHook, ProbeAllocates, ProbeLowersFlag, ProbeFrees, EndProbe,
                StartWorker, Live, Early, Probing
  <2>3. life' \notin Early
    <3>1. UNCHANGED life \/ life' \in {"alive", "joining", "destroyed"}
      BY <1>1, <2>2, LifeStepKinds
      DEF Live, Destroy, Join, WorkerStarts, WorkerTests, WorkerTimesOut, WorkerTakes, WorkerHandlesTaken,
          unchanged_by_loop, life_vars
    <3> QED BY <1>3, <3>1 DEF Early, Probing
  <2>4. [LeaksNext]_leaks_vars \/ UNCHANGED unchanged_by_life_itself
    BY <1>1, <2>2, LifeStepKinds DEF life_vars
  <2> QED
    BY <1>3, <2>1, <2>3, <2>4, LateControl
<1> QED BY <1>2, <1>3

LEMMA LifeControlInit == LifeInit => LifeControl /\ LifeModes!ModeInit
<1> SUFFICES ASSUME LifeInit
             PROVE  LifeControl /\ LifeModes!ModeInit
  OBVIOUS
<1>1. LeaksInit /\ life = "new"
  BY DEF LifeInit
<1>2. CaptureControl /\ Modes!ModeInit
  BY <1>1, CaptureControlInit
<1>3. /\ command_mutex = NoThread /\ leaking = "none" /\ watching_thread[Main] /\ HooksAre(FALSE, "libc")
      /\ \A t \in Thread : pc[t] = "idle"
  BY <1>1, LifeThreads DEF LeaksInit, Init, InitWith, HooksAre, Stored
<1>4. LifeControl
  BY <1>1, <1>2, <1>3, LifeThreads
  DEF LifeControl, EarlyInv, MainIsAlone, CaptureControl, Before, Early, Probing
<1>5. LifeModes!ModeInit
  BY <1>1, <1>2 DEF Modes!ModeInit, LifeModes!ModeInit, Probing
<1> QED BY <1>4, <1>5

LEMMA LifeControlHolds == LifeSpec => []LifeControl
<1>1. LifeTypesInv /\ LifeTypesInv' /\ LifeControl /\ [LifeNext]_life_vars => LifeControl'
  BY LifeControlStep DEF LifeTypesInv, LifeTypes
<1> QED
  BY <1>1, LifeControlInit, LifeTypesInvHolds, PTL DEF LifeSpec

(***************************************************************************)
(* From the constructor to the end of the destructor watching goes through *)
(* the modes of WatchModes, the probe being a capture: when the            *)
(* application's first session begins, the C library's functions are back. *)
(***************************************************************************)
THEOREM LifeKeepsModes == LifeSpec => LifeRefinesModes
<1>1. LifeTypesInv /\ LifeTypesInv' /\ LifeControl /\ [LifeNext]_life_vars
        => [LifeModes!ModeNext]_(LifeModes!mode_vars)
  BY LifeControlStep DEF LifeTypesInv, LifeTypes, LifeModeStep, LifeMode, LifeModes!mode_vars
<1> QED
  BY <1>1, LifeControlInit, LifeControlHolds, LifeTypesInvHolds, PTL
  DEF LifeSpec, LifeRefinesModes, LifeModes!ModeSpec

(***************************************************************************)
(* The probe's assert holds: when it has allocated, the single-threaded    *)
(* map has one entry, whatever the address the C library gave it, and      *)
(* until the probe ends nothing else gets in.                              *)
(***************************************************************************)
THEOREM ProbeAssertHolds == LifeSpec => []ProbeFindsOneLeak
<1>1. LifeControl => ProbeFindsOneLeak
  <2> SUFFICES ASSUME LifeControl, life \in {"remove", "free"}
               PROVE  Cardinality({a \in Pointer : single_threaded_allocations[a] # NoRecord}) = 1
    BY DEF ProbeFindsOneLeak
  <2>1. MapHasOne
    BY DEF LifeControl, EarlyInv, Early, Probing
  <2>2. PICK a \in Pointer : {b \in Pointer : single_threaded_allocations[b] # NoRecord} = {a}
    BY <2>1 DEF MapHasOne
  <2> QED BY <2>2, FS_Singleton
<1> QED
  BY <1>1, LifeControlHolds, PTL
=============================================================================
