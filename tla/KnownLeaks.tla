----------------------------- MODULE KnownLeaks -----------------------------
(***************************************************************************)
(* capture_known_leak beside the commands and heap calls of HeapWatcher.   *)
(* It holds command_mutex_ while a thread of its own (std::async) swaps in *)
(* the single-threaded heap functions, runs the caller's leaking function  *)
(* and swaps them out again; then it goes through what that thread left    *)
(* open and adds to the known leaks the frames whose symbols were named.   *)
(*                                                                         *)
(* Symbols are not modelled: to name a function is to name the frames      *)
(* (return addresses) that lie in it.  The single-threaded map is read     *)
(* only for its stack traces, and in an order that depends on addresses,   *)
(* so a capture goes through it in any order.                              *)
(***************************************************************************)
EXTENDS HeapWatcher

CONSTANTS
  Leaker,        \* the thread of std::async
  NamedFrames,   \* the sets of frames a capture may name
  MayThrow       \* whether the leaking function may end with an exception

ASSUME KnownLeaksAssumption ==
  /\ Leaker \in Thread \ Commander
  /\ NamedFrames \subseteq SUBSET Frame
  /\ MayThrow \in BOOLEAN
  /\ NoRecord \notin Site

VARIABLES
  single_threaded_allocations,  \* stack traces, by address
  watched_single_thread_id,
  leaking,                      \* how far the thread of std::async has come
  named                         \* leaking_symbols, of the capture under way

(***************************************************************************)
(* History variables, for properties only.                                 *)
(***************************************************************************)
VARIABLES
  leaked,     \* live blocks the leaking function got from malloc or calloc
  strayed,    \* addresses it has reallocated or another thread released
  captured    \* stack traces in which a capture found a named frame

single_vars == <<single_threaded_allocations, watched_single_thread_id>>
leaker_vars == <<leaking, named>>
watch_vars  == <<leaked, strayed, captured>>
leaks_vars  == <<vars, single_vars, leaker_vars, watch_vars>>

SingleMap == [Pointer -> Site \cup {NoRecord}]

LeaksTypeOK ==
  /\ known_leaks \in Seq(Leak)
  /\ single_threaded_allocations \in SingleMap
  /\ watched_single_thread_id \in Thread \cup {NoThread}
  /\ leaking \in {"none", "begin", "install", "run", "remove", "ended"}
  /\ named \in NamedFrames \cup {{}}
  /\ leaked \subseteq heap
  /\ strayed \subseteq Addr
  /\ captured \subseteq Site

LeaksInit ==
  /\ Init
  /\ single_threaded_allocations = [a \in Pointer |-> NoRecord]
  /\ watched_single_thread_id = NoThread
  /\ leaking = "none"
  /\ named = {}
  /\ leaked = {}
  /\ strayed = {}
  /\ captured = {}

-----------------------------------------------------------------------------
(***************************************************************************)
(* The single-threaded instrumented functions, after the C library's.      *)
(* They look at watching_thread_ and the thread's id, not at the global    *)
(* flag, and put nothing in the queue.                                     *)
(***************************************************************************)
WatchedSingly(t) == watching_thread[t] /\ t = watched_single_thread_id

unchanged_by_single == <<ledger_vars, hook_vars, leak_vars, heap, bound_vars, watched, released,
                         backlog, watching_thread, worker_request_queue, guards, answer>>

SingleUnwatched(t) ==
  /\ pc[t] = "check"
  /\ call[t].hook = "single"
  /\ ~WatchedSingly(t)
  /\ ReturnUnrecorded(t, call[t])
  /\ UNCHANGED <<unchanged_by_single, g_txn_id, single_vars>>

(* realloc looks its block up in the worker's map.  A record found there   *)
(* has some stack trace of the session it was made in.                     *)
SingleRecord(c) ==
  \/ /\ c.fn \in Acquiring
     /\ single_threaded_allocations' = Emplace(single_threaded_allocations, c.result, c.site)
     /\ g_txn_id' = (g_txn_id + 1) % TxnModulus
  \/ /\ c.fn = "realloc"
     /\ allocations[c.arg] # NoRecord
     /\ \E trace \in Site :
          single_threaded_allocations' =
            Emplace(Erase(single_threaded_allocations, c.arg), c.result, trace)
     /\ g_txn_id' = (g_txn_id + 1) % TxnModulus
  \/ /\ c.fn = "realloc"
     /\ allocations[c.arg] = NoRecord
     /\ UNCHANGED <<single_threaded_allocations, g_txn_id>>
  \/ /\ c.fn = "free"
     /\ single_threaded_allocations' = Erase(single_threaded_allocations, c.arg)
     /\ UNCHANGED g_txn_id

SingleWatched(t) ==
  /\ pc[t] = "check"
  /\ call[t].hook = "single"
  /\ WatchedSingly(t)
  /\ SingleRecord(call[t])
  /\ ReturnUnrecorded(t, call[t])
  /\ UNCHANGED <<unchanged_by_single, watched_single_thread_id>>

-----------------------------------------------------------------------------
(***************************************************************************)
(* capture_known_leak, as the thread that calls it sees it.                *)
(***************************************************************************)
unchanged_by_capture == <<ledger_vars, unchanged_by_commands, held, backlog, worker_request_queue,
                          answer>>

CallCapture(t) ==
  /\ Issue(t, "capture")
  /\ GoTo(t, "capture")
  /\ UNCHANGED <<hook_vars, unchanged_by_capture, single_vars, leaker_vars, captured>>

(* Takes the mutex; returns -1 at once when watching. *)
CaptureLock(t) ==
  /\ pc[t] = "capture"
  /\ command_mutex = NoThread
  /\ IF AlreadyWatching
       THEN GoTo(t, "idle") /\ UNCHANGED <<command_mutex, single_threaded_allocations, leaker_vars>>
       ELSE /\ GoTo(t, "leak")
            /\ command_mutex' = t
            /\ single_threaded_allocations' = [a \in Pointer |-> NoRecord]
            /\ leaking' = "begin"
            /\ named' \in NamedFrames
  /\ UNCHANGED <<hooks, watching_globally, unchanged_by_capture, commands_made,
                 watched_single_thread_id, captured>>

(* Seeded bug: what is known already is captured again. *)
IsNewEvenIfKnown(trace) == TRUE

IsNew(trace) == ~IsKnownLeak(known_leaks, trace)

NamedIn(trace) == {i \in DOMAIN trace : trace[i] \in named}

(* Seeded bug: the offset is counted from one. *)
LeakFromOne(trace, i) == [address |-> trace[i], offset |-> i]

(* Seeded bug: the frame of malloc, cut off already, is subtracted again. *)
LeakTooNear(trace, i) == [address |-> trace[i], offset |-> i - 2]

(* Frame i of the trace, counted from zero. *)
LeakAt(trace, i) == [address |-> trace[i], offset |-> i - 1]

(* The innermost named frame becomes a known leak; leaks known already     *)
(* and leaks without a named frame are passed over.                        *)
CaptureLeak(t) ==
  /\ pc[t] = "leak"
  /\ leaking = "ended"
  /\ \E a \in Pointer :
       LET trace == single_threaded_allocations[a]
       IN  /\ trace # NoRecord
           /\ single_threaded_allocations' = Erase(single_threaded_allocations, a)
           /\ IF IsNew(trace) /\ NamedIn(trace) # {}
                THEN \E i \in NamedIn(trace) :
                       /\ \A j \in NamedIn(trace) : i <= j
                       /\ known_leaks' = Append(known_leaks, LeakAt(trace, i))
                ELSE UNCHANGED known_leaks
           /\ captured' = IF NamedIn(trace) # {} THEN captured \cup {trace} ELSE captured
  /\ UNCHANGED <<ledger_vars, hook_vars, heap_vars, bound_vars, history_vars, watching_thread,
                 worker_request_queue, g_txn_id, number_of_known_leaks, pc, call, guards, answer,
                 watched_single_thread_id, leaker_vars>>

CaptureReturn(t) ==
  /\ pc[t] = "leak"
  /\ leaking = "ended"
  /\ \A a \in Pointer : single_threaded_allocations[a] = NoRecord
  /\ leaking' = "none"
  /\ Unlock
  /\ GoTo(t, "idle")
  /\ UNCHANGED <<hooks, watching_globally, unchanged_by_capture, commands_made, single_vars,
                 named, captured>>

-----------------------------------------------------------------------------
(***************************************************************************)
(* The same as the thread of std::async sees it.  An exception of the      *)
(* leaking function goes to a future nobody reads, past the call that      *)
(* removes the instrumentation.                                            *)
(***************************************************************************)
unchanged_by_leaker == <<unchanged_by_capture, command_mutex, commands_made, pc,
                         single_threaded_allocations, named, captured>>

LeakerBegins ==
  /\ leaking = "begin"
  /\ watched_single_thread_id' = Leaker
  /\ leaking' = "install"
  /\ UNCHANGED <<hooks, watching_globally, unchanged_by_leaker>>

LeakerStoresHook ==
  /\ \/ leaking = "install" /\ StoreHook("single")
     \/ leaking = "remove" /\ StoreHook("libc")
  /\ UNCHANGED <<watching_globally, unchanged_by_leaker, leaking, watched_single_thread_id>>

LeakerWatches ==
  /\ leaking = "install"
  /\ Stored("single")
  /\ watching_globally' = TRUE
  /\ leaking' = "run"
  /\ UNCHANGED <<hooks, unchanged_by_leaker, watched_single_thread_id>>

LeakerLowersFlag ==
  /\ leaking = "run"
  /\ pc[Leaker] = "idle"
  /\ LowerFlag
  /\ leaking' = "remove"
  /\ UNCHANGED <<hooks, unchanged_by_leaker, watched_single_thread_id>>

LeakerEnds ==
  /\ \/ leaking = "remove" /\ Stored("libc")
     \/ leaking = "run" /\ pc[Leaker] = "idle" /\ MayThrow
  /\ leaking' = "ended"
  /\ UNCHANGED <<hooks, watching_globally, unchanged_by_leaker, watched_single_thread_id>>

LeakerStep == LeakerBegins \/ LeakerStoresHook \/ LeakerWatches \/ LeakerLowersFlag \/ LeakerEnds

-----------------------------------------------------------------------------
(* The leaking function makes heap calls while it runs, and no commands. *)
WatcherStep ==
  /\ \/ \E t \in Thread \ {Leaker} : ThreadStep(t)
     \/ leaking = "run" /\ HeapCall(Leaker)
     \/ Worker
  /\ UNCHANGED <<single_vars, leaker_vars, captured>>

SingleStep ==
  /\ \E t \in Thread : SingleUnwatched(t) \/ SingleWatched(t)
  /\ UNCHANGED <<leaker_vars, captured>>

CaptureStep(t) == CaptureLock(t) \/ CaptureLeak(t) \/ CaptureReturn(t)

(* The history of the blocks of the leaking function, told by the C        *)
(* library's steps and the call they serve.                                *)
LeakerCall(fns) ==
  pc[Leaker] = "libc" /\ pc'[Leaker] = "check" /\ call[Leaker].fn \in fns

WatchLeaker ==
  /\ leaked' = IF leaking' = "begin" THEN {}
               ELSE (leaked \cap heap') \cup (IF LeakerCall(Acquiring) THEN heap' \ heap ELSE {})
  /\ strayed' = IF leaking' = "begin" THEN {}
                ELSE strayed \cup (CASE LeakerCall({"realloc"}) -> Addr \cap {call[Leaker].arg, call'[Leaker].result}
                                     [] LeakerCall({"free"})    -> {}
                                     [] OTHER                   -> heap \ heap')

LeaksNext ==
  /\ \/ WatcherStep
     \/ SingleStep
     \/ \E t \in Thread : CallCapture(t) \/ CaptureStep(t)
     \/ LeakerStep
  /\ WatchLeaker

LeaksSpec == LeaksInit /\ [][LeaksNext]_leaks_vars

-----------------------------------------------------------------------------
(***************************************************************************)
(* No leak is known twice: capture_known_leak passes over what the list    *)
(* matches already, however often the same function is captured, so the    *)
(* list every instrumented allocation searches does not grow.              *)
(***************************************************************************)
NoLeakTwice ==
  \A i, j \in DOMAIN known_leaks : known_leaks[i] = known_leaks[j] => i = j

(***************************************************************************)
(* What was captured is ignored from then on: a later allocation with the  *)
(* stack trace of a captured leak is a known leak (README, "Capturing      *)
(* Known Leaks"), whatever was captured before or since.                   *)
(***************************************************************************)
CapturedIsIgnored == \A trace \in captured : IsKnownLeak(known_leaks, trace)

(***************************************************************************)
(* The single-threaded map against the heap: when the leaking function is  *)
(* between two heap calls, the map's entries are its live blocks, except   *)
(* for addresses it has reallocated (single_thread_instrumented_realloc    *)
(* looks them up in the wrong map) and addresses another thread released.  *)
(***************************************************************************)
SingleMapIsExact ==
  leaking \in {"run", "remove"} /\ pc[Leaker] # "check" =>
    \A a \in Addr \ strayed : single_threaded_allocations[a] # NoRecord <=> a \in leaked

(***************************************************************************)
(* A capture is the only thing the HeapWatcher is doing: its thread swaps  *)
(* the hooks while no session is open or being opened or closed, no other  *)
(* command comes in between, and none of its allocations reaches the queue *)
(* (capture_known_leak's lock and its early return).                       *)
(***************************************************************************)
CaptureIsAlone ==
  /\ leaking # "none" => \E t \in Thread : command_mutex = t /\ pc[t] = "leak"
  /\ \A t \in Thread : pc[t] \in InMutex \cup {"leak"} <=> command_mutex = t
  /\ leaking \in {"begin", "install"} => ~watching_globally /\ "multi" \notin Reach
  /\ worker_request_queue[Leaker] = <<>>

(***************************************************************************)
(* What the documentation says of captures.                                *)
(***************************************************************************)
(* "the allocation will only be ignored if it appears at the same number   *)
(* of frames above the memory allocation as at the time the leak was       *)
(* captured" (README.md:129).                                              *)
IgnoredAtCapturedDepth ==
  \A t \in Thread : pc[t] = "count" =>
    \E i \in DOMAIN known_leaks :
      /\ known_leaks[i].offset < Len(call[t].site)
      /\ call[t].site[known_leaks[i].offset + 1] = known_leaks[i].address
=============================================================================
