# HeapWatcher: models, checks and proofs

HeapWatcher is a C++ library that finds heap leaks in unit tests. It overrides
`malloc`, `calloc`, `realloc` and `free`; between `start_watching()` and
`stop_watching()` the overrides send a record of every call to a worker thread,
which keeps a map of open allocations and answers with a snapshot of what was
never freed. This directory holds TLA+ modules that model it, TLC instances that
check them, and proofs for every value of the constants. Paths below are
relative to the repository's root.

## Inventory

| Component | State | Operations | Made correct by |
|---|---|---|---|
| Overrides and hook table (`src/HeapWatcher.cpp` 851-863, 452-470) | four atomic function pointers | `malloc`, `calloc`, `realloc`, `free`; the four stores of install and remove | while the flag is up all four point at instrumented functions |
| Multi-threaded instrumentation (226-304) | `watching_globally_` (atomic), `watching_thread_` (thread local), `number_of_known_leaks_` (plain), the transaction counter | call the C library, test the flags, enqueue a record or count a known leak | no release without its record once the acquisition was recorded |
| Sessions (149-185) | `command_mutex_`, a promise for each request | `start_watching`, `stop_watching` | commands exclude each other; a session starts from an empty ledger; every command returns |
| Queries (198-220) | a promise for each request | `snapshot`, `high_level_stats` | they change nothing but settled frees; every query returns |
| Request queue (moodycamel, third party) and `src/WorkerRequest.hpp` | one queue per producer | enqueue, bulk dequeue with a timeout | nothing lost; order kept within a producer |
| Worker (656-789) | `allocations_`, `frees_without_mallocs_`, six counters | one case for each request | reports exactly what was acquired and not released, in whatever order it hears of it |
| Pauses (187-196, 482-492; `include/HeapWatcher.hpp`) | `watching_thread_` and the value each token saved | `pause_watching_this_thread`, a guard's destructor | nested pauses restore the flag |
| Known leaks (116-147, 579-654; `src/KnownLeaks.cpp`) | `known_leaks_`, `single_threaded_allocations_`, `watched_single_thread_id_` | `capture_known_leak`, `is_known_leak`, `known_leaks` | records exactly the frames that the named symbols leaked through |
| Single-threaded instrumentation (310-384, 472-480) | the same | four instrumented functions | the map holds what the one watched thread left open |
| Life cycle (80-112, 523-577) | `worker_thread_`, `worker_thread_running_`, `malloc_depth_in_call_stack_` | constructor with its probe and first capture, destructor | the worker runs before and after every request |
| Fixtures (`include/MultithreadedTestFixture.hpp`) | a promise, the workers' futures | `add_workload`, `start_workload`, `wait_for_completion`, destructor | every workload starts after the signal and is joined |
| Demangling, printing, record types | none that changes | formatting, accessors | out of scope |
| Unit tests and workloads (`unit_tests/TestFixtureTests.cpp`, `unit_tests/TestWorkloads.cpp`) | the blocks a workload has | the calls of each workload | the checker's count of leaks is the one the tests require |

How they interact. Application threads share with the commands the hook table
and `watching_globally_`, with each other the counter of known leaks and the
transaction counter, and with the worker the queue. The worker alone touches
the map and its counters. Commands talk to the worker by a request in the same
queue and a promise; only `start_watching`, `stop_watching` and
`capture_known_leak` take `command_mutex_`.

What is hard. A heap function is not atomic: the C library has released a block
before its FREE is enqueued, so another thread can acquire the address and be
recorded first. The queue orders one producer's records only, so the worker may
hear of a FREE or a REALLOC before the MALLOC of the block, of a SNAPSHOT before
records that are older, and of the previous session's records after CLEAR. The
flags are read once per call and acted on later. Everything the code does about
this is `frees_without_mallocs_` and its reconciliation at a snapshot; most of
the properties ask how far that reaches. `PROJECT.json` lists every hazard with
its line.

## Modules

| Module | Models | Extends |
|---|---|---|
| `WorkerLedger` | the cases of `worker_main`, the request payloads; one action per case | |
| `LedgerAudit` | the worker under any stream of requests whatever, with an audit of it | `WorkerLedger` |
| `WatchModes` | abstract: the modes that watching goes through, and the kinds of heap function reachable in each | |
| `HeapWatcher` | threads, hook table, sessions, queries, pauses, queue and worker, composed; implements `WatchModes` | `WorkerLedger` |
| `KnownLeaks` | `capture_known_leak` with the thread it starts, the single-threaded heap functions and their map, beside everything `HeapWatcher` does | `HeapWatcher` |
| `LifeCycle` | constructor, probe, first capture, the worker's loop with its batches, destructor, around `KnownLeaks` | `KnownLeaks` |
| `TestFixture` | a test with the scoped fixture and the workloads of the unit tests, on top of `HeapWatcher` | `HeapWatcher` |
| `MCLedgerAudit`, `MCHeapWatcher`, `MCKnownLeaks`, `MCLifeCycle`, `MCTestFixture` | TLC instances | the module named |
| `LedgerTheorems` | proofs about the ledger alone | `WorkerLedger` |
| `LedgerProofs` | proofs about the audited worker | `LedgerAudit`, `LedgerTheorems` |
| `WatcherProofs` | proofs about the commands and the hook table | `HeapWatcher`, `LedgerTheorems` |
| `SessionProofs` | proofs about the threads, their requests and pauses, and that `HeapWatcher` implements the ledger | `WatcherProofs` |
| `ReportProofs` | proofs about what a session reports and whose the live blocks are | `SessionProofs` |
| `CaptureProofs` | proofs about captures, beside sessions | `KnownLeaks`, `ReportProofs` |
| `LifeProofs` | proofs about the constructor's probe and the worker's batches | `LifeCycle`, `CaptureProofs` |
| `FixtureProofs` | proofs about what the checker of a test gets | `TestFixture`, `ReportProofs` |

State and code correspond by name, without the trailing underscore
(`allocations` is `allocations_`). What is not the code's:

- `pc` and `call` stand for a thread's program counter and the locals of the
  heap function it is in; `guards` for the pause guards on its stack, `answer`
  for the promise it waits on; `leaking` and `named` for the place and the
  argument of the thread a capture starts; `life` and `worker` for the places of
  the constructor, the destructor and the worker; `stage` and `place` for those
  of a test and of its threads.
- `heap` is the C library's heap: the set of live addresses. An allocation
  returns any address that is not live; when all are, it fails if `HeapMayFail`
  and otherwise is not considered. `held` is the part the application
  may still pass to `free` or `realloc`: it never frees a block twice nor hands
  one to two calls at once, whatever thread acquired it.
- `worker_request_queue` keeps a sequence for each thread and the worker takes
  the head of any of them, which is what the queue promises. In `HeapWatcher`
  it takes one request at a time, since nobody sees the batch; in `LifeCycle`
  `taken` says how many of each thread's requests are in its local batch,
  because there it matters that the worker looks at its flag between batches
  only.
- `watched`, `released`, `doubtful`, `backlog`, `collisions`, `orphan_reallocs`,
  `leaked`, `strayed`, `captured` and `in_time` are history variables. No
  action's guard reads them.

A call to a heap function is `BeginCall` (load the hook), `LibcMalloc`,
`LibcRealloc` or `LibcFree`, then for the multi-threaded functions
`CheckWatched` or `CheckUnwatched` and `EnqueueRecord` or `CountKnownLeak`, for
the single-threaded ones `SingleWatched` or `SingleUnwatched`; other threads run
between any two. `start_watching` is `CallStart`, `StartLock` (mutex, early
return, enqueue CLEAR), `StartCleared`, four `StartStoreHook`, `StartWatching`;
`stop_watching` is `CallStop`, `StopLock` (mutex, lower the flag), four
`StopStoreHook`, `StopAsk`, `StopReturn`; `snapshot` and `high_level_stats` are
`Ask` and `AskReturn`. `Worker` is one iteration of the inner loop of
`worker_main`.

`capture_known_leak` is `CallCapture`, `CaptureLock` (mutex, early return, empty
the map), then on the thread of `std::async` `LeakerBegins`, four
`LeakerStoresHook`, `LeakerWatches`, the heap calls of the caller's function,
`LeakerLowersFlag`, four `LeakerStoresHook`, `LeakerEnds`, and again on the
caller's thread a `CaptureLeak` for each entry of the map, and `CaptureReturn`.
A function that throws goes from its last heap call to `LeakerEnds` directly.

The constructor is `StartWorker` (the thread is created), `BeginProbe` (the
worker's flag is up), the four stores, `ProbeAllocates`, `ProbeLowersFlag`, four
stores, `ProbeFrees`, `EndProbe`, and a capture; the destructor `Destroy` and
`Join`. The worker is `WorkerStarts`, `WorkerTests` (its flag), `WorkerTakes` or
`WorkerTimesOut`, and a `WorkerHandlesTaken` for each request of the batch.

A test is `Construct`, any number of `BeginAdding` .. `AddThread` .. `EndAdding`,
`StartWorkload`, `GoOutOfScope`, `StopWatching`; its threads are `Begin`,
`WorkloadCalls` for each heap call of their workload, `Leave`, `End`.

Choices that matter:

- Reading through `allocations_.end()` in the not-found branch of REALLOC is
  undefined; the model takes any transaction id.
- A stack trace and the transaction id of a record are made together and carried
  together; in the ledger the id stands for both. A trace itself is a sequence
  of frames, innermost first; a known leak is a frame and its offset from the
  innermost one, matched as `is_known_leak` does. Symbols are not modelled: the
  symbols named to `capture_known_leak` are the set of frames that lie in them.
- A capture goes through the single-threaded map in any order: the code's is
  that of the addresses, which the C library chooses.
- `Null` as the address of a token or of a snapshot's storage stands for "some
  address that is none of `Addr`". The others are the interesting ones.
- The allocations of the instrumented function itself (queue blocks) happen with
  `watching_thread_` off and leave no record; they are left out.
- Transaction ids are stored truncated to 32 bits and kept modulo `TxnModulus`;
  byte counters modulo `WordModulus`.

## Abstract specifications

- `WatchModes` says what the commands promise together: at rest only the C
  library's functions are reachable, while watching only instrumented ones, the
  table changes only while a session opens or closes or a capture runs, and the
  modes follow one another in a fixed order. `HeapWatcher`, `KnownLeaks` and
  `LifeCycle` implement it under a mapping that reads the mode off the mutex, the
  flag and the place of the thread that holds the mutex, and `reach` off the hook
  table (`RefinesModes`, `LifeRefinesModes`), which is also proved. A capture whose function throws is a mode of its own,
  `abandoned`, that only `stop_watching` leaves.
- `WorkerLedger` is what the worker promises of its maps and counters, whatever
  it is sent. `HeapWatcher` implements `LedgerSpec` (proved), so what is proved of
  the ledger alone holds in every session. `LedgerAudit` takes the ledger's own
  actions and only adds history to them.

## Runs

Every run but `ledger` says `CHECK_DEADLOCK FALSE`: the application makes a
bounded number of calls and commands and then stops. `ledger` checks deadlock,
and in `fixture` the invariant `StartedTestGoesOn` says where a stop is wrong.

| Run | Instance | What it shows |
|---|---|---|
| `ledger` | 2 addresses and NULL, 4 requests after each CLEAR, any order | the ledger balances and reports what the audit says, except where a record was discarded or a REALLOC came first |
| `sessions` | 2 threads, 2 addresses, 3 calls (malloc, free, realloc of NULL, to size 0, in place and moved), start-stop-start | no false leak, but that a realloc to size 0 leaves an entry without bytes at NULL; no lost leak at a fresh address; no two open allocations have one origin |
| `commands` | 2 threads, both issue 3 commands in all (start, stop, snapshot, statistics, pause), 3 calls, a known-leak site | the flag is up only over a full hook table; the mutex covers a session's opening and closing; CLEAR reaches the worker only while nothing is watched; pauses nest; no false or lost leak while snapshots settle frees; `WatchModes` is implemented |
| `captures` | 2 threads with commands and the leaking function's, 3 commands (start, stop, capture), 2 calls, nested and plain traces, exceptions | what was captured is ignored ever after and known once; the map is what the function left open; a capture is alone; `WatchModes` is implemented |
| `life_cycle` | main, another thread and the leaking function's, 3 commands, 1 call after the probe's, allocation may fail, batches of 2 | construction and destruction end; no record is lost while the watcher lives and none of a batch ever; commands return; the probe finds its own block; `WatchModes` is implemented from the first store on |
| `fixture` | a test and 2 worker threads, up to 2 workloads of three kinds, 3 addresses, 2 calls of a random workload | the checker gets exactly the leaks, one for each thread whose workload leaks; a started test never hangs |

Bounds. `MaxCalls`, `MaxCommands`, `MaxRequests` and `MaxOperations` bound the
length of a run, `Addr`, `Thread`, `CallSize` its breadth. The hazards need: one
address acquired, released and acquired again, or acquired and moved away from (3
calls); the records of two threads in the wrong order (2 threads); a second
address for REALLOC to move to; one stop between two starts for left-over records
(3 commands); a capture before and a capture or a session after another capture (3
commands). `sessions` has all but the last at once, and there each exception of
its properties is needed. With one size of block the modulus of 2 (`sessions`,
`commands`) makes the byte counters wrap. In `ledger` they wrap only after a
collision or an orphaned realloc, which `BytesBalance` leaves out: that it holds
over a wrap is shown by the theorem `BytesAgree`, not by the run. In `sessions` the
ids do not wrap (3 calls, modulus 3): `OriginsAreUnique` is a promise only up to
2^32 allocations, and the code makes no other. In `fixture`, a thread takes part
with at most `MaxOperations` calls of its own choice, no thread waits inside an
allocation for memory (`Room`), and the blocks of `std::thread` and of pause tokens
lie outside the addresses of the workloads (`OwnBlocks = {}`). With one of them
among the three addresses (`OwnBlocks = {a3}`) and the workloads that have a
script, TLC finds nothing either: a leak that is missed is at an address released
before, which both properties leave out, and `pause_hides_leak` is about. With
random workloads that instance takes too long. Symmetry is used on addresses and on
threads that do the same, never where liveness is checked.

Fairness (`life_cycle` only, `LifeFairSpec`). Weak fairness of the constructor
and of the join in the destructor, which run on a scheduled thread; of the
worker's loop, which ends only when its flag is down, and whose dequeue returns
something from a non-empty queue and otherwise times out; of the thread of
`std::async`, whose function is assumed to end; and of each thread that is inside
a heap function or a command. No fairness makes a thread begin a call, issue a
command, end a pause or leave `main`. A worker's batch may take all its requests
from one producer; a request is not overtaken for ever because the calls and
commands are bounded. `std::mutex` does not promise a waiter its turn; weak
fairness suffices because `MaxCommands` bounds how often it can be taken. Threads
other than main's may find the worker gone once the destructor began: a request
they make then is never handled, and `RecordsAreProcessed` and `CommandsReturn`
say exactly that.

### Where the code and its documentation part

`README.md:13` says that all records are processed and that the snapshot
`stop_watching` returns "is the result of processing all allocation records - so
it should be correct". Each of the first four runs ends in a counterexample to
one reading of it; the last three of those look only at settled states: nothing
in flight, no record queued, none missing and none left over, so nothing is left
to wait for. `README.md:3` says that allocations are tracked between a start and
a finish, which the fifth run is about; `README.md:129` that an allocation is
ignored only if it is as far from a named frame as at the capture, which is the
sixth.

| Run | Counterexample |
|---|---|
| `stop_early` | the SNAPSHOT of `stop_watching` travels in the caller's own producer and overtakes records other threads had enqueued |
| `pause_hides_leak` | a pause guard restores the flag and then frees its token, a block allocated unrecorded: the FREE stays in `frees_without_mallocs_` and settles the next live block at that address. One thread is enough |
| `realloc_overtakes` | a REALLOC handled before its MALLOC: the MALLOC then opens an entry no FREE will close |
| `realloc_to_zero` | `realloc(p, 0)` frees `p` and returns NULL, which is recorded as where the block moved to: the snapshot has a leak of size 0 at NULL. One thread is enough |
| `stale_records` | a call finds the flag up, the session ends, and its record, enqueued then, is handled after the CLEAR of the next session: that session reports the block |
| `wrong_frame` | after two captures at different depths, an allocation with the frame of the one at the depth of the other is ignored |

`NoFalseLeak` and `FreshBlocksReported` are stated with exceptions: addresses with
records left over from before the CLEAR or released without a record
(`doubtful`), addresses released earlier in the session (`released`: an early
FREE stays in `frees_without_mallocs_` and a snapshot may settle the next block
with it), and originals of an orphaned realloc. At NULL, where there is no block,
`NoFalseLeak` says less: what is reported there is a false leak, and has no bytes
unless an allocation may fail (`HeapMayFail`), since a failed one is recorded at
NULL with the size it asked for. None of the exceptions is idle: with any one of
them taken out of the property, TLC finds a counterexample in the instance of
`sessions`, for `HeapMayFail` with allocations that may fail. `BytesBalance` leaves
orphaned reallocs out: `realloc(NULL, n)` adds nothing to `bytes_allocated_`, its
free adds `n` to `bytes_freed_`. `VerdictIsRight` leaves NULL out. It and
`VerdictCountsLeaks` have the exception of reused addresses for the same reason,
and look only at snapshots that did not overtake a record (`in_time`), which is
what `stop_early` is about. `SingleMapIsExact` leaves out
addresses the leaking function has reallocated, because the single-threaded
realloc looks its block up in the other map.

## Proofs

`LedgerTheorems`, about the ledger under any requests, for any finite set of
addresses, any sizes and moduli:

- `LedgerTypeCorrect`: the ledger's types.
- `CountsAgree`: mallocs equal frees plus open entries as long as no record was
  discarded and no realloc orphaned, by the cardinality of the set of open keys.
- `OriginsKept`: an entry keeps the malloc it is attributed to (action property).
- `BytesAgree`: the same as `CountsAgree` of bytes, modulo the counters' width. A
  byte is a pair of address and offset, so what an entry adds is the cardinality
  of a set and no sum over the map is needed.

`LedgerProofs`, about the audited worker, for any bound on requests too:

- `AuditTypeCorrect`: the types of worker and audit.
- `BalanceHolds`: for every trusted address (no early free, no orphaned
  realloc), releases handled plus the open entry never exceed acquisitions
  handled, and equal them when no record of the address was discarded.
- `NoFalseReport`, `NoLostReport`: what a snapshot reports, from `Balance`.
  Neither is inductive. An address reported now says nothing of what a FREE will
  do to it next; `Balance` ties the map's entry to the two tallies, and the cases
  where the tie is cut are those `frees_without_mallocs`, `orphan_reallocs` and
  `collisions` remember. A SNAPSHOT erases only entries that are not trusted, so
  it keeps `Balance`.

`WatcherProofs`, for any threads and any mix of calls and commands:

- `ControlHolds`: the inductive invariant `HookInv`. It says that a thread
  between lock and unlock is the one `command_mutex` names, and what flag and
  hook table are at each place of that thread.
- `HooksCoverWatching`: `watching_globally` implies that all four hooks are in.
  Without the mutex's part of `HookInv`, a stop could take out what a start is
  about to announce; without the rest, its first store would break the claim.
- `ModesAreKept`: `HeapWatcher` implements `WatchModes`. Each step of a command
  is one step of the modes or none, and every other step is none.

`SessionProofs`, likewise:

- `TypesHold`: the types of the composed state. They are inductive together with
  `InCallHasCall`, that a thread at a place inside a heap function has a call.
- `WatcherDrivesLedger`: `Spec => LedgerSpec`. The worker's step is an operation
  of the ledger because the queue holds requests (`TypesHold`), and no other step
  touches the ledger's variables. `SessionCountsAgree` and `SessionBytesAgree`
  carry `CountsAgree` and `BytesAgree` over.
- `PausesNestAlways`: a thread is watched exactly when it has no guard. The
  strengthening `OldestGuardSaves` says that the oldest guard saved "watched" and
  all others "not watched"; the claim itself says nothing of the guard that comes
  to the top when one is given up.
- `CommandsExcludeAlways`: the strengthening `QueueInv` says that a command is
  the last request of its thread, which waits for it unanswered, and that nobody
  else has an answer. Without it a thread could leave "clear" by an old answer
  while its CLEAR is still queued.

`ReportProofs`, likewise; no bound on threads, records or calls is used except
where one is named:

- `FreshBlocksAreReported`: no lost leak at a fresh address. An entry of a live
  block can be closed by a record that is queued, by one that a call is about to
  leave, or by an early free that is remembered; the inductive invariant `FreshInv`
  excludes all three for an address that was not released in this session and has
  nothing left over from before. Its hypothesis `NoFailedReallocs` (allocations do
  not fail, or the application does not use realloc) is needed:
  `instrumented_realloc` does not look at the result, so the record of a failed
  realloc ends the entry of a block that is still live. The instances that check
  the property satisfy it.
- `LeaksAreLive`: no false leak. "Live or about to be released" is not inductive:
  while a release is on its way the address can be handed out and recorded again.
  `LeakInv` counts: at an address without exceptions, the entry, the queued
  records that make one and the calls that will leave one are together no more
  than the block, the queued records that end an entry and the calls that will
  leave one of those. It needs that what is counted is finite, which is part of
  the invariant, so the set of threads need not be. `NullInv` is about NULL:
  unless an allocation failed, what is there, queued or still to be recorded has
  size 0.
- `HeldBlocksAreLive`: the types, and that what the application may still free is
  live. `OwnerInv` says that every block has at most one owner (the application, a
  call under way, a guard on a stack or a snapshot in a promise) and that what is
  owned is live; without it a free could release a block that a guard's token or
  another thread's realloc still has.
- `OriginsStayUnique`: no two open allocations have one origin. `OriginInv` says
  which ids have been given out (the first n), that the calls which still have to
  take one fit into the bound, and that those in the queue and in the map are all
  different. Its hypothesis `MaxCalls <= TxnModulus` is that ids do not wrap: the
  code makes no promise beyond 2^32 allocations.

`CaptureProofs`, about `KnownLeaks`, for any captures beside any calls and
commands. `HookInv` does not hold there, since a capture that throws leaves the
single-threaded functions in the table:

- `CaptureTypesHold`: the types, with `SitesKnown`, that an allocation under way
  has a stack trace; the map's entries come from there.
- `LeaksStayDistinct`, `CapturedStaysIgnored`: the list of known leaks has no
  duplicates, if the instance begins without any (`InitialLeaksDiffer`), and what
  was captured matches it ever after. Both rest on what `CaptureLeak` appends:
  never what the list matches already, always something the trace at hand matches.
- `CapturesKeepModes`, `CapturesAreAlone`: from `CaptureInv`, which says what flag
  and hook table are at each place of a command, of a capture and of the thread
  of `std::async`, that the mutex names the thread inside either, and that
  the hooks the leaking function loads are the single-threaded ones, so that it
  gets nowhere near the queue.
- `MapIsLiveBlocks`: `SingleMapIsExact`. It says nothing of the moments between
  the C library and the single-threaded function; `MapInv` does: at the address of
  the call under way the map is behind by exactly that call.

`LifeProofs`, about `LifeCycle`, for any size of the worker's batch:

- `LifeTypesHold`: the types, and that what the worker has taken is at the head of
  the queue, so that a batch is handled to its end whatever is queued behind it.
- `LifeKeepsModes`: `LifeCycle` implements `WatchModes`, the probe being a capture.
  The probe swaps the hooks without the mutex, so `CaptureControl` does not hold
  there. `LifeControl` says what does: until the first capture begins, Main is the
  only thread inside a heap function and nobody has the mutex, and what the hooks,
  the flag, Main's call and the single-threaded map are is told by how far the
  probe has come. When it ends, that is what `CaptureControl` asks for.
- `ProbeAssertHolds`: the probe's assert, from the same invariant: while the probe
  allocates the map is empty, and from the return of its allocation on it has one
  entry.

`FixtureProofs`, about `TestFixture`, for any number of threads, any workloads and
any bound on a workload's calls. The theorems of `HeapWatcher` do not carry over:
a workload's calls, the last call of its thread and the block of a `std::thread`
are steps that `Next` does not have. What carries over are the lemmas on its
actions, so its invariants (types, `HookInv`, `CallInv`, `GuardInv`, `QueueInv`,
`OwnerInv`) are inductive here too, in `OwnershipInv`:

- `FixtureTypesHold`: the types, and that two threads never have one block.
  `StateInv` is needed for the block of a `std::thread`: until the thread frees it,
  it is live and neither the application, a call, a guard nor a snapshot has it.
- `VerdictIsRightAlways`: the checker's snapshot has no false leak, and misses only
  those at addresses released earlier in the session. `SessionInv` says where the
  one session of a test stands: no test thread exists before it is open or is left
  when it closes, every call in between is instrumented and recorded, and the CLEAR
  finds nothing left over. `EntryInv` accounts for every entry of the map and every
  queued record that will make one: a thread has the block, or a release of it is
  on its way behind that record in the same producer, since a workload's thread
  releases only what it acquired itself.
  `BacklogInv` says that while `stop_watching` waits, the queues hold only what was
  there when it asked; so a snapshot made `in_time` is made with empty queues, and
  by the join no call is under way: what is accounted for is what the threads
  have, and `FreshInv` gives the converse. The hypothesis is that of
  `FreshBlocksAreReported`, `NoFailedReallocs`, and it is needed: with failing
  reallocs TLC finds `VerdictIsRight` violated.
- `LeaksAreCounted`: the number that the tests require, for any number of threads.
  The checker sees exactly the blocks that threads have (`KeptInv`: each of them was
  recorded, and no record is of NULL), and a thread has one block or none by how
  far it is in its script (`ScriptInv`), so mapping each block to its thread is a
  bijection to the threads whose workload leaks. `CleanRun` is what it assumes of
  the program: no allocation fails, none is of size 0, none is made where a known
  leak is. Each would change the number, and what `TestFixtureTests.cpp` runs does
  none of them; the known leak that the constructor captures is elsewhere.

The proofs rest on `LedgerAssumption`, `AuditAssumption`, `WatcherAssumption`,
`KnownLeaksAssumption`, `LifeAssumption` and `FixtureAssumption`, which TLC evaluates
in the runs: the address set is
finite, NULL is not one of the heap's addresses, moduli are positive, "no record"
is no record, commanders are threads, what the application asks for is of the
right type, the thread of `std::async` issues no commands, the worker's batch has
room for a request, and the heap functions that a test's workloads call are among
those the instance has. The inductive
invariants were checked by TLC on the instances of the runs before they were
proved.

Model-checked only: the liveness of `LifeCycle` under fairness, and
`StartedTestGoesOn`, which is a statement about `ENABLED`: both out of the
prover's reach. Every other invariant that a run checks is the statement of a
theorem.

## Not modelled

- A leaking function that issues a command: the thread of `std::async` would wait
  for the mutex that its capture holds, for ever. The function is the caller's.
- The time before the constructor, when the hook table is already in use, and
  after the destructor.
- Guards moved to another thread or given up out of order: nothing in the
  repository does it.
- What a failed allocation promises: that it is recorded, at NULL, and that a
  failed realloc ends the entry of the block it left alone, is modelled as the
  code does it; no document says what to expect.
- That an operating system may give the id of the thread of `std::async` to a
  later thread: after a capture whose function threw, `watched_single_thread_id_`
  would then name that one.
- A checker that throws: it runs in a destructor, so the process ends.
- The plain fixture's use without the scoped one: the same operations, called by
  the test itself. Its random start delay is any delay.
- `BasicTests.cpp` and the benchmark workloads (`JustMalloc`, `JustFree`,
  `MallocFreeRace`), except for what they claim.
- How the probe finds `malloc` among the symbols of its trace; demangling,
  printing and the record accessors: symbols and formatting, no state.
- The queue's implementation, backtrace and the C library: third party.

## Plan

1. An abstract specification of a session (what start, stop and snapshot promise
   of open blocks, with the exceptions as explicit choices), and `HeapWatcher`
   shown to implement it.
2. Larger instances of `fixture`, with the fixture's own blocks among the
   addresses of random workloads.

To check by hand, in this directory: `tlc -workers 2 -config Sessions.cfg
MCHeapWatcher`, `tlapm LedgerProofs.tla`, and so on for the other configurations
and modules of proofs.
