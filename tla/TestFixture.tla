---------------------------- MODULE TestFixture -----------------------------
(***************************************************************************)
(* A test with ScopedMultithreadedTestFixture: its constructor starts      *)
(* watching, add_workload creates threads that wait for start_workload,    *)
(* its destructor joins them, stops watching and hands the snapshot to the *)
(* test's checker.  The threads run the workloads of TestWorkloads.cpp.    *)
(*                                                                         *)
(* Everything the threads do to the heap, and Main's commands, are         *)
(* HeapWatcher's actions: what the checker sees depends on the order in    *)
(* which calls, records and requests happen there.                         *)
(***************************************************************************)
EXTENDS HeapWatcher

CONSTANTS
  Main,           \* the thread of the test
  OwnBlocks,      \* where the blocks of std::thread and of pause tokens may lie
  Workloads,      \* the workloads it may add
  MaxOperations   \* bound on the heap calls of a workload without a script

(* Workloads that make the same calls each time. *)
Script == [NoLeaks            |-> <<"malloc", "free">>,
           OneLeak            |-> <<"malloc">>,
           OneCallocLeak      |-> <<"calloc">>,
           NoLeaksWithRealloc |-> <<"malloc", "realloc", "free">>,
           OneLeakWithRealloc |-> <<"malloc", "realloc">>]

Leaky == {"OneLeak", "OneCallocLeak", "OneLeakWithRealloc"}

(* The heap functions that workload w calls. *)
UsedBy(w) ==
  CASE w \in DOMAIN Script       -> {Script[w][i] : i \in DOMAIN Script[w]}
    [] w = "BuildBigMap"          -> {"malloc", "free"}
    [] w = "RandomHeapOperations" -> {"malloc", "realloc", "free"}

ASSUME FixtureAssumption ==
  /\ Commander = {Main}
  /\ Commands = {"start", "stop", "pause"}
  /\ Workloads \subseteq DOMAIN Script \cup {"BuildBigMap", "RandomHeapOperations"}
  /\ \A w \in Workloads : UsedBy(w) \subseteq Calls
  /\ OwnBlocks \subseteq Addr
  /\ MaxOperations \in Nat

TestThread == Thread \ {Main}
NotAdded == "not added"

VARIABLES
  stage,          \* how far the test has come
  started,        \* start_workload was called
  synchronized,   \* the value of start_synchronizer_ is set
  adding,         \* the workload that add_workload is adding
  place,          \* where a worker is in workload_wrapper
  workload,       \* the function it was given
  made,           \* the heap functions that function has called
  mine,           \* the blocks it has
  thread_state    \* std::thread's heap block for it

(***************************************************************************)
(* A history variable, for properties only: the last request of Main was   *)
(* answered when the records queued before it had all been handled.        *)
(***************************************************************************)
VARIABLE in_time

fixture_vars == <<stage, started, synchronized, adding, place, workload, made, mine, thread_state>>
test_vars    == <<vars, fixture_vars, in_time>>

FixtureTypeOK ==
  /\ stage \in {"new", "ready", "adding", "joining", "checking"}
  /\ started \in BOOLEAN
  /\ in_time \in BOOLEAN
  /\ synchronized \in BOOLEAN
  /\ adding \in Workloads \cup {NotAdded}
  /\ place \in [TestThread -> {"none", "waiting", "working", "leaving", "ended"}]
  /\ workload \in [TestThread -> Workloads \cup {NotAdded}]
  /\ made \in [TestThread -> Seq(HeapFunction)]
  /\ mine \in [TestThread -> SUBSET held]
  /\ thread_state \in [TestThread -> Pointer]
  /\ \A t, u \in TestThread : t # u => mine[t] \cap mine[u] = {}

FixtureInit ==
  /\ Init
  /\ stage = "new"
  /\ in_time = FALSE
  /\ started = FALSE
  /\ synchronized = FALSE
  /\ adding = NotAdded
  /\ place = [t \in TestThread |-> "none"]
  /\ workload = [t \in TestThread |-> NotAdded]
  /\ made = [t \in TestThread |-> <<>>]
  /\ mine = [t \in TestThread |-> {}]
  /\ thread_state = [t \in TestThread |-> Null]

-----------------------------------------------------------------------------
(***************************************************************************)
(* The thread of the test.  It goes to the next stage when the command or  *)
(* heap call it is in has returned.                                        *)
(***************************************************************************)
Stage(from, to) == stage = from /\ pc[Main] = "idle" /\ stage' = to

unchanged_by_stage == <<started, synchronized, adding, place, workload, made, mine, thread_state>>

(* ScopedMultithreadedTestFixture's constructor. *)
Construct ==
  /\ Stage("new", "ready")
  /\ CallStart(Main)
  /\ UNCHANGED unchanged_by_stage

(* add_workload pauses watching, creates its threads and resumes.  The     *)
(* tests call it before start_workload.                                    *)
BeginAdding ==
  /\ Stage("ready", "adding")
  /\ ~started
  /\ commands_made + 1 < MaxCommands   \* a bound: one is left for stop_watching
  /\ Pause(Main)
  /\ heap' \subseteq heap \cup OwnBlocks
  /\ adding' \in Workloads
  /\ UNCHANGED <<started, synchronized, place, workload, made, mine, thread_state>>

(* A heap block of each std::thread, allocated while Main is paused, is    *)
(* freed by the thread when it ends.                                       *)
AddThread(t) ==
  /\ Stage("adding", "adding")
  /\ place[t] = "none"
  /\ place' = [place EXCEPT ![t] = "waiting"]
  /\ workload' = [workload EXCEPT ![t] = adding]
  /\ \E state \in (OwnBlocks \ heap) \cup {Null} :
       /\ thread_state' = [thread_state EXCEPT ![t] = state]
       /\ heap' = heap \cup ({state} \ {Null})
  /\ UNCHANGED <<ledger_vars, hook_vars, leak_vars, held, bound_vars, history_vars,
                 watching_thread, worker_request_queue, g_txn_id, pc, call, guards, answer,
                 started, synchronized, adding, made, mine>>

EndAdding ==
  /\ Stage("adding", "ready")
  /\ Resume(Main)
  /\ adding' = NotAdded
  /\ UNCHANGED <<started, synchronized, place, workload, made, mine, thread_state>>

(* Seeded bug: the promise is never given its value. *)
SetValueForgotten == UNCHANGED synchronized

SetValue == synchronized' = TRUE

(* Once: setting the value again throws. *)
StartWorkload ==
  /\ Stage("ready", "ready")
  /\ ~started
  /\ started' = TRUE
  /\ SetValue
  /\ UNCHANGED <<vars, adding, place, workload, made, mine, thread_state>>

(* The fixture goes out of scope, start_workload called or not. *)
GoOutOfScope ==
  /\ Stage("ready", "joining")
  /\ UNCHANGED <<vars, unchanged_by_stage>>

(* Seeded bug: the destructor does not wait for the threads. *)
AllJoinedUnchecked == TRUE

(* wait_for_completion. *)
AllJoined == \A t \in TestThread : place[t] \in {"none", "ended"}

StopWatching ==
  /\ Stage("joining", "checking")
  /\ AllJoined
  /\ CallStop(Main)
  /\ UNCHANGED unchanged_by_stage

MainGoesOn ==
  /\ pc[Main] # "idle"
  /\ Progress(Main)
  /\ UNCHANGED fixture_vars

Test ==
  \/ Construct \/ BeginAdding \/ EndAdding \/ StartWorkload \/ GoOutOfScope \/ StopWatching
  \/ \E t \in TestThread : AddThread(t)

-----------------------------------------------------------------------------
(***************************************************************************)
(* The workers.                                                            *)
(***************************************************************************)
Moves(t, from, to) ==
  /\ place[t] = from
  /\ pc[t] = "idle"
  /\ place' = [place EXCEPT ![t] = to]

Begin(t) ==
  /\ Moves(t, "waiting", "working")
  /\ synchronized
  /\ UNCHANGED <<vars, stage, started, synchronized, adding, workload, made, mine, thread_state>>

(***************************************************************************)
(* The calls t's workload may make next; if none, it returns.  BuildBigMap *)
(* allocates its nodes, then frees them all.  RandomHeapOperations does as *)
(* it likes, except that the switch falls through from realloc to free,    *)
(* and frees what is left in the end; the 10 blocks it wants before it     *)
(* frees any are none here.  An iteration of either may allocate nothing.  *)
(***************************************************************************)
Last(seq) == IF seq = <<>> THEN "none" ELSE seq[Len(seq)]

NextCalls(t) ==
  LET more == IF Len(made[t]) < MaxOperations THEN {"malloc"} ELSE {}
      some == mine[t] # {}
  IN  CASE workload[t] \in DOMAIN Script ->
             {Script[workload[t]][i] : i \in {Len(made[t]) + 1} \cap DOMAIN Script[workload[t]]}
        [] workload[t] = "BuildBigMap" ->
             (IF Last(made[t]) = "free" THEN {} ELSE more) \cup (IF some THEN {"free"} ELSE {})
        [] workload[t] = "RandomHeapOperations" ->
             IF Last(made[t]) = "realloc" THEN {"free"}
             ELSE more \cup (IF some THEN {"free"} ELSE {})
                       \cup (IF some /\ more # {} THEN {"realloc"} ELSE {})

MayReturn(t) ==
  CASE workload[t] \in DOMAIN Script -> NextCalls(t) = {}
    [] OTHER                         -> mine[t] = {}

(* A bound: no thread waits for memory inside an allocation. *)
Room == Cardinality(heap) + Cardinality({t \in Thread : pc[t] = "libc" /\ call[t].fn \in Acquiring})
          < Cardinality(Addr)

(* Seeded bug: a workload keeps the address of a block it gave up. *)
WithoutKept(blocks, block) == blocks

Without(blocks, block) == blocks \ {block}

WorkloadCalls(t) ==
  /\ Moves(t, "working", "working")
  /\ \E fn \in NextCalls(t) :
       /\ made' = [made EXCEPT ![t] = Append(@, fn)]
       /\ \/ /\ fn \in Acquiring /\ Room
             /\ \E site \in Site, size \in CallSize : Enter(t, fn, site, Null, size)
             /\ UNCHANGED <<held, mine>>
          \/ /\ fn \notin Acquiring
             /\ \E block \in mine[t], size \in CallSize :
                  /\ Enter(t, fn, NoCall, block, IF fn = "free" THEN 0 ELSE size)
                  /\ held' = held \ {block}
                  /\ mine' = [mine EXCEPT ![t] = Without(@, block)]
  /\ UNCHANGED <<ledger_vars, hook_vars, leak_vars, heap, bound_vars, history_vars, watching_thread,
                 worker_request_queue, g_txn_id, guards, answer, stage, started, synchronized, adding,
                 workload, thread_state>>

(* The workload has returned; its thread's own block is freed. *)
Leave(t) ==
  /\ Moves(t, "working", "leaving")
  /\ MayReturn(t)
  /\ Enter(t, "free", NoCall, thread_state[t], 0)
  /\ UNCHANGED <<ledger_vars, hook_vars, leak_vars, heap_vars, bound_vars, history_vars,
                 watching_thread, worker_request_queue, g_txn_id, guards, answer, stage,
                 started, synchronized, adding, workload, made, mine, thread_state>>

End(t) ==
  /\ Moves(t, "leaving", "ended")
  /\ UNCHANGED <<vars, stage, started, synchronized, adding, workload, made, mine, thread_state>>

InHeapCall(t) ==
  /\ pc[t] \in InCall
  /\ HeapCall(t)
  /\ mine' = [mine EXCEPT ![t] = @ \cup (held' \ held)]
  /\ UNCHANGED <<stage, started, synchronized, adding, place, workload, made, thread_state>>

WorkerGoesOn(t) == Begin(t) \/ WorkloadCalls(t) \/ Leave(t) \/ End(t) \/ InHeapCall(t)

LedgerGoesOn ==
  /\ Worker
  /\ in_time' = IF answer'[Main] = answer[Main] THEN in_time
                ELSE \A t \in TestThread : backlog[t] = 0
  /\ UNCHANGED fixture_vars

FixtureNext ==
  \/ LedgerGoesOn
  \/ UNCHANGED in_time /\ (Test \/ MainGoesOn \/ \E t \in TestThread : WorkerGoesOn(t))

FixtureSpec == FixtureInit /\ [][FixtureNext]_test_vars

-----------------------------------------------------------------------------
(***************************************************************************)
(* What the checker gets: the leaks in the snapshot of stop_watching.      *)
(***************************************************************************)
Verdict == answer[Main].leaks

(***************************************************************************)
(* The checker sees no false leak, and every leak but those at addresses   *)
(* that the session released before: the join comes before stop_watching,  *)
(* so no test thread is still between the C library and its record.  NULL, *)
(* which a workload can leave in the map (see NoFalseLeak), is no block    *)
(* and left out here.                                                      *)
(***************************************************************************)
VerdictIsRight ==
  Answered(Main) /\ in_time =>
    /\ Verdict \cap Addr \subseteq heap
    /\ watched \ released \subseteq Verdict

(***************************************************************************)
(* The number that the tests require (TestFixtureTests.cpp:50 and 95,      *)
(* "snapshot.numberof_leaks() == 5"): one leak for each thread whose       *)
(* workload leaks, whatever the others do at the same time; unless a leak  *)
(* has an address that the session released before.                        *)
(***************************************************************************)
VerdictCountsLeaks ==
  Answered(Main) /\ in_time /\ watched \cap released = {} =>
    Cardinality(Verdict) = Cardinality({t \in TestThread : workload[t] \in Leaky})

(***************************************************************************)
(* A test that started its workload, or added none, gets to its checker:   *)
(* it never comes to a state in which nobody can go on.  (Every step uses  *)
(* up some of what is bounded, so no run goes on for ever.)  Without       *)
(* start_workload the destructor joins the threads for ever.               *)
(***************************************************************************)
StartedTestGoesOn ==
  \/ ~started /\ \E t \in TestThread : place[t] # "none"
  \/ stage = "checking" /\ pc[Main] = "idle"
  \/ ENABLED FixtureNext
=============================================================================
