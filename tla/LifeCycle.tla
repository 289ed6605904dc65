----------------------------- MODULE LifeCycle ------------------------------
(***************************************************************************)
(* The life of the one HeapWatcher, a static object.  Before main, its     *)
(* constructor starts the worker and waits until it runs, probes for the   *)
(* depth of malloc on the stack with the single-threaded heap functions,   *)
(* and captures the known leak of std::thread.  At exit, its destructor    *)
(* lowers worker_thread_running_ and joins the worker, while other threads *)
(* may still be running.                                                   *)
(*                                                                         *)
(* Here the batch matters that the worker takes from the queue at once: it *)
(* looks at the flag only between two batches.                             *)
(***************************************************************************)
EXTENDS KnownLeaks

CONSTANTS
  Main,      \* the thread that runs constructor, main and destructor
  MaxBatch   \* MAX_REQUESTS_TO_DEQUEUE

ASSUME LifeAssumption ==
  /\ Main \in Commander
  /\ MaxBatch \in Nat \ {0}

VARIABLES
  life,                    \* how far Main has come
  worker,                  \* where the worker is in worker_main
  worker_thread_running,
  taken                    \* requests of each thread in the worker's batch

worker_vars == <<worker, worker_thread_running, taken>>
life_vars   == <<leaks_vars, worker_vars, life>>

Probing == {"instrument", "probe", "remove", "free"}

LifeTypeOK ==
  /\ life \in {"new", "waiting", "capture", "alive", "joining", "destroyed"} \cup Probing
  /\ worker \in {"none", "started", "test", "wait", "handle", "exited"}
  /\ worker_thread_running \in BOOLEAN
  /\ taken \in [Thread -> 0 .. MaxBatch]
  /\ \A t \in Thread : taken[t] <= Len(worker_request_queue[t])
  /\ (\E t \in Thread : taken[t] > 0) <=> worker = "handle"

LifeInit ==
  /\ LeaksInit
  /\ life = "new"
  /\ worker = "none"
  /\ worker_thread_running = FALSE
  /\ taken = [t \in Thread |-> 0]

-----------------------------------------------------------------------------
(***************************************************************************)
(* The constructor.  Main goes to the next place of its life once the heap *)
(* call it makes on the way, if any, has returned.                         *)
(***************************************************************************)
Live(from, to) ==
  /\ life = from
  /\ pc[Main] = "idle"
  /\ life' = to

unchanged_by_life == <<ledger_vars, leak_vars, heap, bound_vars, history_vars, watching_thread,
                       worker_request_queue, g_txn_id, guards, answer, leaker_vars, captured>>

unchanged_by_main == <<unchanged_by_life, command_mutex, held, pc, call>>

StartWorker ==
  /\ Live("new", "waiting")
  /\ worker' = "started"
  /\ UNCHANGED <<unchanged_by_main, hooks, watching_globally, single_vars, worker_thread_running,
                 taken>>

WorkerIsUp == worker_thread_running

(* The worker runs; Main is now the thread that is watched singly. *)
BeginProbe ==
  /\ Live("waiting", "instrument")
  /\ WorkerIsUp
  /\ single_threaded_allocations' = [a \in Pointer |-> NoRecord]
  /\ watched_single_thread_id' = Main
  /\ UNCHANGED <<unchanged_by_main, hooks, watching_globally, worker_vars>>

ProbeStoresHook ==
  /\ \/ Live("instrument", life) /\ StoreHook("single")
     \/ Live("remove", life) /\ StoreHook("libc")
  /\ UNCHANGED <<unchanged_by_main, watching_globally, single_vars, worker_vars>>

(* The flag goes up, and the probe allocates. *)
ProbeAllocates ==
  /\ Live("instrument", "probe")
  /\ Installed("single")
  /\ watching_globally' = TRUE
  /\ \E site \in Site, size \in CallSize : Enter(Main, "malloc", site, Null, size)
  /\ UNCHANGED <<unchanged_by_life, hooks, command_mutex, held, single_vars, worker_vars>>

ProbeLowersFlag ==
  /\ Live("probe", "remove")
  /\ LowerFlag
  /\ UNCHANGED <<unchanged_by_main, hooks, single_vars, worker_vars>>

(* With the C library's functions back, the probe's block is freed. *)
ProbeFrees ==
  /\ Live("remove", "free")
  /\ Stored("libc")
  /\ \E block \in held : Enter(Main, "free", NoCall, block, 0) /\ held' = held \ {block}
  /\ UNCHANGED <<unchanged_by_life, hook_vars, single_vars, worker_vars>>

(* The depth of malloc is found; the first capture begins. *)
EndProbe ==
  /\ Live("free", "capture")
  /\ single_threaded_allocations' = [a \in Pointer |-> NoRecord]
  /\ GoTo(Main, "capture")
  /\ UNCHANGED <<unchanged_by_life, hook_vars, held, call, watched_single_thread_id, worker_vars>>

Construct ==
  \/ StartWorker \/ BeginProbe \/ ProbeStoresHook \/ ProbeAllocates \/ ProbeLowersFlag
  \/ ProbeFrees \/ EndProbe
  \/ Live("capture", "alive") /\ UNCHANGED <<leaks_vars, worker_vars>>

-----------------------------------------------------------------------------
(***************************************************************************)
(* The destructor.                                                         *)
(***************************************************************************)
Destroy ==
  /\ Live("alive", "joining")
  /\ worker_thread_running' = FALSE
  /\ UNCHANGED <<leaks_vars, worker, taken>>

Join ==
  /\ Live("joining", "destroyed")
  /\ worker = "exited"
  /\ UNCHANGED <<leaks_vars, worker_vars>>

-----------------------------------------------------------------------------
(***************************************************************************)
(* worker_main's loop.                                                     *)
(***************************************************************************)
unchanged_by_loop == <<vars, single_vars, leaker_vars, captured, life>>

(* Seeded bug: the worker does not say that it runs. *)
RaiseRunningForgotten == UNCHANGED worker_thread_running

RaiseRunning == worker_thread_running' = TRUE

WorkerStarts ==
  /\ worker = "started"
  /\ RaiseRunning
  /\ worker' = "test"
  /\ UNCHANGED <<unchanged_by_loop, taken>>

WorkerTests ==
  /\ worker = "test"
  /\ worker' = IF worker_thread_running THEN "wait" ELSE "exited"
  /\ UNCHANGED <<unchanged_by_loop, worker_thread_running, taken>>

(* The requests in the worker's batch, by thread and number. *)
Batch == {request \in Thread \X (1 .. MaxBatch) : request[2] <= taken[request[1]]}

(* Up to MaxBatch requests, the oldest of any of the threads. *)
WorkerTakes ==
  /\ worker = "wait"
  /\ taken' \in [Thread -> 0 .. MaxBatch]
  /\ \A t \in Thread : taken'[t] <= Len(worker_request_queue[t])
  /\ Cardinality(Batch') \in 1 .. MaxBatch
  /\ worker' = "handle"
  /\ UNCHANGED <<unchanged_by_loop, worker_thread_running>>

(* Seeded bug: the wait for requests has no end. *)
TimeIsUpNever == FALSE

(* The queue stayed empty for half a second. *)
TimeIsUp == \A t \in Thread : worker_request_queue[t] = <<>>

WorkerTimesOut ==
  /\ worker = "wait"
  /\ TimeIsUp
  /\ worker' = "test"
  /\ UNCHANGED <<unchanged_by_loop, worker_thread_running, taken>>

(* Seeded bug: the batch ends with the requests of one thread. *)
BatchEndsEarly(left) == \E t \in Thread : left[t] = 0

BatchEnds(left) == \A t \in Thread : left[t] = 0

WorkerHandlesTaken(t) ==
  /\ worker = "handle"
  /\ taken[t] > 0
  /\ WorkerHandles(t)
  /\ taken' = [taken EXCEPT ![t] = @ - 1]
  /\ worker' = IF BatchEnds(taken') THEN "test" ELSE "handle"
  /\ UNCHANGED <<single_vars, leaker_vars, captured, life, worker_thread_running>>

WorkerLoop ==
  \/ WorkerStarts \/ WorkerTests \/ WorkerTakes \/ WorkerTimesOut
  \/ \E t \in Thread : WorkerHandlesTaken(t)

-----------------------------------------------------------------------------
(***************************************************************************)
(* Threads begin calls and commands between constructor and destructor,    *)
(* Main's own waiting in the destructor; the rest of what they do, and the *)
(* constructor's capture, is KnownLeaks'.                                  *)
(***************************************************************************)
MayBegin(t) == life = "alive" \/ (life = "joining" /\ t # Main)

GoesOn(t) ==
  \/ /\ Progress(t)
     /\ t = Leaker => leaking = "run"
     /\ UNCHANGED <<single_vars, leaker_vars, captured>>
  \/ /\ SingleUnwatched(t) \/ SingleWatched(t)
     /\ UNCHANGED <<leaker_vars, captured>>
  \/ CaptureStep(t)

Begins(t) ==
  \/ /\ IF t = Leaker THEN leaking = "run" /\ HeapCall(t) ELSE MayBegin(t) /\ ThreadStep(t)
     /\ pc[t] = "idle"
     /\ UNCHANGED <<single_vars, leaker_vars, captured>>
  \/ MayBegin(t) /\ CallCapture(t)

InProcess == life # "destroyed" /\ UNCHANGED <<worker_vars, life>>

LifeNext ==
  /\ \/ Construct \/ Destroy \/ Join \/ WorkerLoop
     \/ InProcess /\ (LeakerStep \/ \E t \in Thread : Begins(t) \/ GoesOn(t))
  /\ WatchLeaker

LifeSpec == LifeInit /\ [][LifeNext]_life_vars

(***************************************************************************)
(* Fairness: constructor and destructor go on, as the worker does, and so  *)
(* do threads inside a heap function or a command; nothing obliges Main to *)
(* leave main, or the application to make a call or to end a pause.  Weak  *)
(* fairness is enough for the mutex because the bound on the commands      *)
(* bounds the number of times another thread can take it.  The leaking     *)
(* function of a capture is assumed to end.                                *)
(***************************************************************************)
LifeFairSpec ==
  /\ LifeSpec
  /\ WF_life_vars((Construct \/ Join) /\ WatchLeaker)
  /\ WF_life_vars(WorkerLoop /\ WatchLeaker)
  /\ WF_life_vars(InProcess /\ LeakerStep /\ WatchLeaker)
  /\ \A t \in Thread : WF_life_vars(InProcess /\ GoesOn(t) /\ WatchLeaker)

-----------------------------------------------------------------------------
(* The probe counts as a capture: it takes the same hooks in and out. *)
LifeModes == INSTANCE WatchModes
               WITH mode <- IF life \in Probing THEN "capturing" ELSE Mode, reach <- Reach

(***************************************************************************)
(* From the constructor's probe to the destructor, watching goes through   *)
(* the modes of WatchModes: the application's first call finds the C       *)
(* library's own functions, whatever probe and capture did before.         *)
(***************************************************************************)
LifeRefinesModes == LifeModes!ModeSpec

(***************************************************************************)
(* probe_for_malloc_stack_depth's assert: between the probe's allocation   *)
(* and the end of the probe the map has one entry.                         *)
(***************************************************************************)
ProbeFindsOneLeak ==
  life \in {"remove", "free"} =>
    Cardinality({a \in Pointer : single_threaded_allocations[a] # NoRecord}) = 1

(* The constructor ends: the worker comes up, and the capture returns. *)
ConstructorReturns == <>(life = "alive")

(***************************************************************************)
(* The destructor returns, whatever is in the queue and whatever other     *)
(* threads go on doing meanwhile: the worker sees that its flag went down, *)
(* and nothing puts the flag up again.                                     *)
(***************************************************************************)
DestructorReturns == life = "joining" ~> life = "destroyed"

(***************************************************************************)
(* "All allocation records go into a queue, will not be lost and will      *)
(* eventually be processed" (README.md:13), as long as the HeapWatcher     *)
(* lives; and those the worker has taken when the destructor begins, too.  *)
(***************************************************************************)
RecordsAreProcessed ==
  \A t \in Thread :
    /\ worker_request_queue[t] # <<>> ~> worker_request_queue[t] = <<>> \/ life = "destroyed"
    /\ taken[t] > 0 ~> taken[t] = 0

(***************************************************************************)
(* Every command returns, unless it waits for an answer when the worker is *)
(* told to end; Main's own commands always return.                         *)
(***************************************************************************)
CommandsReturn ==
  \A t \in Thread :
    pc[t] \in InCommand ~>
      pc[t] = "idle" \/ (t # Main /\ life \in {"joining", "destroyed"})
=============================================================================
