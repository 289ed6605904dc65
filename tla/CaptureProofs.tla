---------------------------- MODULE CaptureProofs ---------------------------
(***************************************************************************)
(* Proofs about capture_known_leak beside sessions, for any set of threads *)
(* and addresses, any stack traces, any mix of calls, commands and         *)
(* captures and any bounds: that captures and sessions exclude each other  *)
(* and keep to the modes of WatchModes, that what a capture finds is known *)
(* from then on and known once, and that the single-threaded map is the    *)
(* leaking function's live blocks.                                         *)
(*                                                                         *)
(* A step of HeapWatcher beside a capture is a step of HeapWatcher, so     *)
(* the lemmas about its steps hold here too.  HookInv does not: a capture  *)
(* that throws leaves the single-threaded hooks in.                        *)
(***************************************************************************)
EXTENDS KnownLeaks, ReportProofs

(***************************************************************************)
(* Captures and the hook table.  The thread the mutex names is inside a    *)
(* command or a capture; what the flag and the hooks are then is told by   *)
(* its place and, inside a capture, by how far the thread of std::async    *)
(* has come.  That thread leaves nothing in the queue because the hooks it *)
(* loads are the single-threaded ones: it calls only while it runs.        *)
(***************************************************************************)
HooksAre(flag, kind) == watching_globally = flag /\ Stored(kind)

CaptureTypes ==
  /\ pc \in [Thread -> Place]
  /\ hooks \in [HeapFunction -> Hook]
  /\ watching_globally \in BOOLEAN
  /\ command_mutex \in Thread \cup {NoThread}
  /\ leaking \in {"none", "begin", "install", "run", "remove", "ended"}

LockHeld == \A t \in Thread : pc[t] \in InMutex \cup {"leak"} <=> command_mutex = t

LeakingInside == leaking # "none" <=> \E t \in Thread : pc[t] = "leak"

HooksMatch ==
  /\ command_mutex = NoThread =>
       HooksAre(FALSE, "libc") \/ HooksAre(TRUE, "multi") \/ HooksAre(TRUE, "single")
  /\ \A t \in Thread : pc[t] \in {"clear", "drain"} => HooksAre(FALSE, "libc")
  /\ \A t \in Thread : pc[t] = "install" => ~watching_globally /\ Between("multi")
  /\ \A t \in Thread :
       pc[t] = "uninstall" => ~watching_globally /\ (Between("multi") \/ Between("single"))
  /\ leaking = "begin" => HooksAre(FALSE, "libc")
  /\ leaking \in {"install", "remove"} => ~watching_globally /\ Between("single")
  /\ leaking = "run" => HooksAre(TRUE, "single")
  /\ leaking = "ended" => HooksAre(FALSE, "libc") \/ HooksAre(TRUE, "single")

LeakerInv ==
  /\ pc[Leaker] \in {"idle", "libc", "check"}
  /\ pc[Leaker] # "idle" => leaking = "run" /\ call[Leaker].hook = "single"
  /\ pc[Leaker] = "libc" => call[Leaker].result = Null
  /\ worker_request_queue[Leaker] = <<>>
  /\ watched_single_thread_id \in {NoThread, Leaker}

CaptureControl == CaptureTypes /\ LockHeld /\ LeakingInside /\ HooksMatch

CaptureInv == CaptureControl /\ LeakerInv

SitesKnown ==
  \A t \in Thread : pc[t] \in InCall /\ call[t].fn \in Acquiring => call[t].site \in Site

-----------------------------------------------------------------------------
(***************************************************************************)
(* Types.  That the map's entries are stack traces is inductive once the   *)
(* site of every allocation under way is known to be one.                  *)
(***************************************************************************)
LeaksTypes == TypeInv /\ LeaksTypeOK /\ SitesKnown

LEMMA LeakerIsThread == Leaker \in Thread /\ Leaker \notin Commander
BY KnownLeaksAssumption

(* Steps of HeapWatcher beside a capture are steps of HeapWatcher. *)
LEMMA WatcherStepIsNext ==
  ASSUME WatcherStep
  PROVE  Next
BY LeakerIsThread DEF WatcherStep, Next, ThreadStep

(* A thread returns from a single-threaded instrumented function. *)
LEMMA SingleFrame ==
  ASSUME NEW t \in Thread, SingleUnwatched(t) \/ SingleWatched(t)
  PROVE  /\ pc[t] = "check" /\ call[t].hook = "single"
         /\ ReturnUnrecorded(t, call[t])
         /\ UNCHANGED <<unchanged_by_single, watched_single_thread_id>>
BY DEF SingleUnwatched, SingleWatched, single_vars

LEMMA SingleType ==
  ASSUME LeaksTypes, NEW t \in Thread, SingleUnwatched(t) \/ SingleWatched(t)
  PROVE  TypeInv' /\ single_threaded_allocations' \in SingleMap
<1>1. /\ pc[t] = "check" /\ ReturnUnrecorded(t, call[t]) /\ UNCHANGED unchanged_by_single
  BY SingleFrame
<1>2. call[t] \in Call /\ (call[t].fn \in Acquiring => call[t].site \in Site)
  BY <1>1 DEF LeaksTypes, TypeInv, InCallHasCall, SitesKnown, InCall
<1>3. /\ call[t].fn \in HeapFunction /\ call[t].arg \in Pointer /\ call[t].result \in Pointer
      /\ ReleasedBy(call[t]) \subseteq Addr
  BY <1>2, CallParts
<1>4. g_txn_id' \in TxnId
  <2>1. g_txn_id \in TxnId /\ (g_txn_id + 1) % TxnModulus \in TxnId
    <3>1. g_txn_id \in TxnId /\ g_txn_id + 1 \in Nat
      BY DEF LeaksTypes, TypeInv, Types, TxnId
    <3> QED BY <3>1, TxnType
  <2> QED
    BY <2>1 DEF SingleUnwatched, SingleWatched, SingleRecord
<1>5. single_threaded_allocations' \in SingleMap
  <2>1. single_threaded_allocations \in SingleMap
    BY DEF LeaksTypes, LeaksTypeOK
  <2>2. \A map \in SingleMap : \A a \in Pointer : Erase(map, a) \in SingleMap
    BY DEF Erase, SingleMap
  <2>3. \A map \in SingleMap : \A a \in Pointer : \A trace \in Site : Emplace(map, a, trace) \in SingleMap
    BY DEF Emplace, SingleMap
  <2>4. CASE SingleUnwatched(t)
    BY <2>1, <2>4 DEF SingleUnwatched, single_vars
  <2>5. CASE SingleWatched(t)
    <3>1. SingleRecord(call[t])
      BY <2>5 DEF SingleWatched
    <3> QED
      BY <1>2, <1>3, <2>1, <2>2, <2>3, <3>1 DEF SingleRecord
  <2> QED BY <2>4, <2>5
<1>6. /\ pc' \in [Thread -> {"idle"} \cup InCall \cup InCommand]
      /\ call' \in [Thread -> Call \cup {NoCall}]
      /\ InCallHasCall' /\ held' \subseteq Addr /\ doubtful' \subseteq Addr
  <2>1. Return(t, call[t]) /\ doubtful' \subseteq Addr
    BY <1>1, <1>3 DEF ReturnUnrecorded, LeaksTypes, TypeInv, Types
  <2> QED
    BY <1>2, <2>1, ReturnType DEF LeaksTypes
<1>7. LedgerTypeOK'
  BY <1>1 DEF LeaksTypes, TypeInv, Types, LedgerTypeOK, unchanged_by_single, ledger_vars, counters,
              anomalies
<1> QED
  BY <1>1, <1>4, <1>5, <1>6, <1>7
  DEF LeaksTypes, TypeInv, Types, unchanged_by_single, hook_vars, leak_vars, bound_vars

(* A step that only moves a thread into or out of a capture, or swaps hooks. *)
LEMMA CaptureFrame ==
  ASSUME TypeInv, UNCHANGED unchanged_by_capture,
         UNCHANGED pc \/ \E t \in Thread : \E place \in {"idle", "capture", "leak"} : GoTo(t, place),
         UNCHANGED commands_made \/ \E t \in Thread : Issue(t, "capture"),
         hooks' \in [HeapFunction -> Hook], watching_globally' \in BOOLEAN,
         command_mutex' \in Thread \cup {NoThread}
  PROVE  TypeInv'
<1>1. UNCHANGED <<ledger_vars, unchanged_by_commands>>
  BY DEF unchanged_by_capture
<1>2. /\ pc' \in [Thread -> {"idle"} \cup InCall \cup InCommand]
      /\ \A t \in Thread : pc'[t] \in InCall => pc[t] \in InCall
  BY DEF TypeInv, Types, GoTo, InCall, InCommand
<1>3. call' = call
  BY <1>1 DEF unchanged_by_commands
<1>4. commands_made' \in 0 .. MaxCommands
  BY ConstantTypes DEF TypeInv, Types, Issue
<1> QED
  BY <1>1, <1>2, <1>3, <1>4, CommandFrame
  DEF TypeInv, Types, InCallHasCall, unchanged_by_capture

LEMMA CaptureCallType ==
  ASSUME TypeInv, NEW t \in Thread, CallCapture(t) \/ CaptureLock(t) \/ CaptureReturn(t)
  PROVE  TypeInv'
<1>1. UNCHANGED <<unchanged_by_capture, hooks, watching_globally>>
  BY DEF CallCapture, CaptureLock, CaptureReturn, hook_vars
<1>2. \E place \in {"idle", "capture", "leak"} : GoTo(t, place)
  BY DEF CallCapture, CaptureLock, CaptureReturn
<1>3. UNCHANGED commands_made \/ Issue(t, "capture")
  BY DEF CallCapture, CaptureLock, CaptureReturn
<1>4. command_mutex' \in Thread \cup {NoThread}
  BY DEF CallCapture, CaptureLock, CaptureReturn, Unlock, hook_vars, TypeInv, Types
<1> QED
  BY <1>1, <1>2, <1>3, <1>4, CaptureFrame DEF TypeInv, Types

LEMMA LeakerStepType ==
  ASSUME TypeInv, LeakerStep
  PROVE  TypeInv'
<1>1. UNCHANGED unchanged_by_leaker
  BY DEF LeakerStep, LeakerBegins, LeakerStoresHook, LeakerWatches, LeakerLowersFlag, LeakerEnds
<1>2. hooks' \in [HeapFunction -> Hook] /\ watching_globally' \in BOOLEAN
  <2>1. CASE UNCHANGED hooks
    BY <2>1 DEF LeakerStep, LeakerBegins, LeakerStoresHook, LeakerWatches, LeakerLowersFlag,
                LeakerEnds, LowerFlag, TypeInv, Types
  <2>2. CASE LeakerStoresHook
    <3>1. PICK target \in {"single", "libc"} : StoreHook(target)
      BY <2>2 DEF LeakerStoresHook
    <3>2. PICK f \in HeapFunction : hooks' = [hooks EXCEPT ![f] = target]
      BY <3>1 DEF StoreHook, HeapFunction
    <3> QED
      BY <2>2, <3>1, <3>2 DEF LeakerStoresHook, TypeInv, Types, Hook
  <2> QED
    BY <2>1, <2>2 DEF LeakerStep, LeakerBegins, LeakerWatches, LeakerLowersFlag, LeakerEnds
<1> QED
  BY <1>1, <1>2, CaptureFrame DEF unchanged_by_leaker, TypeInv, Types

(* What a capture adds to the list is a known leak, and only that. *)
LEMMA CaptureAdds ==
  ASSUME LeaksTypes, NEW t \in Thread, CaptureLeak(t)
  PROVE  \E a \in Pointer : \E trace \in Site :
           /\ trace = single_threaded_allocations[a]
           /\ single_threaded_allocations' = Erase(single_threaded_allocations, a)
           /\ \/ UNCHANGED known_leaks
                 /\ (NamedIn(trace) # {} => IsKnownLeak(known_leaks, trace))
              \/ /\ ~IsKnownLeak(known_leaks, trace)
                 /\ \E i \in 1 .. Len(trace) :
                      LeakAt(trace, i) \in Leak /\ known_leaks' = Append(known_leaks, LeakAt(trace, i))
           /\ captured' = IF NamedIn(trace) # {} THEN captured \cup {trace} ELSE captured
<1>1. PICK a \in Pointer :
        LET trace == single_threaded_allocations[a]
        IN  /\ trace # NoRecord
            /\ single_threaded_allocations' = Erase(single_threaded_allocations, a)
            /\ IF IsNew(trace) /\ NamedIn(trace) # {}
                 THEN \E i \in NamedIn(trace) :
                        /\ \A j \in NamedIn(trace) : i <= j
                        /\ known_leaks' = Append(known_leaks, LeakAt(trace, i))
                 ELSE UNCHANGED known_leaks
            /\ captured' = IF NamedIn(trace) # {} THEN captured \cup {trace} ELSE captured
  BY DEF CaptureLeak
<1> DEFINE trace == single_threaded_allocations[a]
<1>2. trace \in Site /\ trace \in Seq(Frame)
  BY <1>1, WatcherAssumption DEF LeaksTypes, LeaksTypeOK, SingleMap
<1> HIDE DEF trace
<1>3. DOMAIN trace = 1 .. Len(trace) /\ Len(trace) \in Nat /\ \A i \in 1 .. Len(trace) : trace[i] \in Frame
  BY <1>2, LenProperties
<1>4. \A i \in NamedIn(trace) : i \in 1 .. Len(trace) /\ LeakAt(trace, i) \in Leak
  BY <1>3 DEF NamedIn, LeakAt, Leak
<1>5. \/ UNCHANGED known_leaks /\ (NamedIn(trace) # {} => IsKnownLeak(known_leaks, trace))
      \/ /\ ~IsKnownLeak(known_leaks, trace)
         /\ \E i \in 1 .. Len(trace) :
              LeakAt(trace, i) \in Leak /\ known_leaks' = Append(known_leaks, LeakAt(trace, i))
  <2>1. CASE IsNew(trace) /\ NamedIn(trace) # {}
    BY <1>1, <1>4, <2>1 DEF trace, IsNew
  <2>2. CASE ~(IsNew(trace) /\ NamedIn(trace) # {})
    BY <1>1, <2>2 DEF trace, IsNew
  <2> QED BY <2>1, <2>2
<1> QED
  BY <1>1, <1>2, <1>5 DEF trace

LEMMA CaptureLeakType ==
  ASSUME LeaksTypes, NEW t \in Thread, CaptureLeak(t)
  PROVE  /\ TypeInv'
         /\ single_threaded_allocations' \in SingleMap
         /\ captured' \subseteq Site
<1>1. PICK a \in Pointer, trace \in Site :
        /\ single_threaded_allocations' = Erase(single_threaded_allocations, a)
        /\ UNCHANGED known_leaks \/ \E leak \in Leak : known_leaks' = Append(known_leaks, leak)
        /\ captured' \subseteq captured \cup {trace}
  BY CaptureAdds
<1>2. known_leaks' \in Seq(Leak)
  BY <1>1, AppendProperties DEF LeaksTypes, LeaksTypeOK
<1>3. TypeInv'
  BY <1>2 DEF CaptureLeak, LeaksTypes, TypeInv, Types, InCallHasCall, LedgerTypeOK, ledger_vars,
              counters, anomalies, hook_vars, heap_vars, bound_vars, history_vars
<1>4. single_threaded_allocations' \in SingleMap
  BY <1>1 DEF LeaksTypes, LeaksTypeOK, SingleMap, Erase
<1> QED
  BY <1>1, <1>3, <1>4 DEF LeaksTypes, LeaksTypeOK

(* Every step keeps the types of HeapWatcher's state. *)
LEMMA CaptureTypeStep ==
  ASSUME LeaksTypes, [LeaksNext]_leaks_vars
  PROVE  TypeInv'
<1>1. TypeInv
  BY DEF LeaksTypes
<1>2. CASE WatcherStep
  BY <1>1, <1>2, WatcherStepIsNext, TypeStep
<1>3. CASE SingleStep
  BY <1>3, SingleType DEF SingleStep
<1>4. CASE \E t \in Thread : CallCapture(t) \/ CaptureStep(t)
  BY <1>1, <1>4, CaptureCallType, CaptureLeakType DEF CaptureStep
<1>5. CASE LeakerStep
  BY <1>1, <1>5, LeakerStepType
<1>6. CASE UNCHANGED leaks_vars
  <2>1. UNCHANGED vars
    BY <1>6 DEF leaks_vars
  <2> QED BY <1>1, <2>1, TypeStep
<1> QED
  BY <1>2, <1>3, <1>4, <1>5, <1>6 DEF LeaksNext

(* The blocks of the leaking function are live by their definition. *)
LEMMA WatchTypes ==
  ASSUME LeaksTypes, TypeInv', WatchLeaker
  PROVE  leaked' \subseteq heap' /\ strayed' \subseteq Addr
BY DEF WatchLeaker, LeaksTypes, LeaksTypeOK, TypeInv, Types

(* An allocation keeps the site it was begun with. *)
LEMMA SitesStep ==
  ASSUME TypeInv, SitesKnown, NEW t \in Thread, NEW place, NEW c,
         pc' = [pc EXCEPT ![t] = place], call' = [call EXCEPT ![t] = c],
         place \in InCall /\ c.fn \in Acquiring => c.site \in Site
  PROVE  SitesKnown'
<1>1. /\ pc'[t] = place /\ call'[t] = c
      /\ \A u \in Thread \ {t} : pc'[u] = pc[u] /\ call'[u] = call[u]
  BY DEF TypeInv, Types
<1> QED
  BY <1>1 DEF SitesKnown

LEMMA EnterSites ==
  ASSUME TypeInv, SitesKnown, NEW t \in Thread, NEW fn, NEW site, NEW arg, NEW size,
         Enter(t, fn, site, arg, size), fn \in Acquiring => site \in Site
  PROVE  SitesKnown'
<1> DEFINE c == [fn |-> fn, hook |-> hooks[fn], site |-> site, arg |-> arg, size |-> size,
                 result |-> Null, seen |-> 0]
<1>1. c.fn = fn /\ c.site = site
  OBVIOUS
<1>2. pc' = [pc EXCEPT ![t] = "libc"] /\ call' = [call EXCEPT ![t] = c]
  BY DEF Enter, GoTo
<1> HIDE DEF c
<1> QED
  BY <1>1, <1>2, SitesStep

LEMMA HeapCallSites ==
  ASSUME LeaksTypes, NEW t \in Thread, HeapCall(t)
  PROVE  SitesKnown'
<1>1. TypeInv /\ SitesKnown /\ "idle" \notin InCall
  BY DEF LeaksTypes, InCall
<1>2. CASE BeginCall(t)
  <2>1. CASE \E fn \in Calls \cap Acquiring, site \in Site, size \in CallSize :
               Enter(t, fn, site, Null, size)
    BY <1>1, <2>1, EnterSites
  <2>2. CASE \E fn \in {"realloc", "free"}, arg \in held \cup {Null}, size \in CallSize \cup {0} :
               Enter(t, fn, NoCall, arg, size)
    BY <1>1, <2>2, EnterSites DEF Acquiring
  <2> QED
    BY <1>2, <2>1, <2>2 DEF BeginCall
<1>3. CASE LibcMalloc(t) \/ LibcRealloc(t) \/ LibcFree(t)
  <2>1. pc[t] \in InCall /\ call[t] \in Call
    BY <1>1, <1>3 DEF LibcMalloc, LibcRealloc, LibcFree, TypeInv, InCallHasCall, InCall
  <2>2. PICK c : Libc(t, c) /\ c.fn = call[t].fn /\ c.site = call[t].site
    <3>1. CASE LibcFree(t)
      BY <3>1 DEF LibcFree
    <3>2. CASE LibcMalloc(t) \/ LibcRealloc(t)
      <4>1. PICK a : Libc(t, [call[t] EXCEPT !.result = a])
        BY <3>2 DEF LibcMalloc, LibcRealloc
      <4>2. /\ [call[t] EXCEPT !.result = a].fn = call[t].fn
            /\ [call[t] EXCEPT !.result = a].site = call[t].site
        BY <2>1 DEF Call
      <4> QED BY <4>1, <4>2
    <3> QED BY <1>3, <3>1, <3>2
  <2>3. \/ pc' = [pc EXCEPT ![t] = "idle"] /\ call' = [call EXCEPT ![t] = NoCall]
        \/ pc' = [pc EXCEPT ![t] = "check"] /\ call' = [call EXCEPT ![t] = c]
    BY <2>2 DEF Libc, ReturnUnrecorded, Return, GoTo
  <2> QED
    BY <1>1, <2>1, <2>2, <2>3, SitesStep DEF SitesKnown
<1>4. CASE CheckUnwatched(t) \/ CountKnownLeak(t) \/ EnqueueRecord(t)
  <2>1. pc' = [pc EXCEPT ![t] = "idle"] /\ call' = [call EXCEPT ![t] = NoCall]
    BY <1>4 DEF CheckUnwatched, CountKnownLeak, EnqueueRecord, ReturnUnrecorded, Return, GoTo
  <2> QED BY <1>1, <2>1, SitesStep
<1>5. CASE CheckWatched(t)
  <2> DEFINE seen  == IF IgnoresCall(call[t]) THEN number_of_known_leaks ELSE 0
             place == IF IgnoresCall(call[t]) THEN "count" ELSE "enqueue"
             c     == [call[t] EXCEPT !.seen = seen]
  <2>1. pc[t] \in InCall /\ call[t] \in Call
    BY <1>1, <1>5 DEF CheckWatched, TypeInv, InCallHasCall, InCall
  <2>2. pc' = [pc EXCEPT ![t] = place] /\ call' = [call EXCEPT ![t] = c]
    BY <1>5 DEF CheckWatched, GoTo
  <2> HIDE DEF seen, place
  <2>3. c.fn = call[t].fn /\ c.site = call[t].site
    BY <2>1 DEF Call
  <2> HIDE DEF c
  <2> QED
    BY <1>1, <2>1, <2>2, <2>3, SitesStep DEF SitesKnown
<1> QED
  BY <1>2, <1>3, <1>4, <1>5 DEF HeapCall

(* Steps that leave the calls alone. *)
LEMMA SitesFrame ==
  ASSUME SitesKnown, UNCHANGED call,
         \A u \in Thread : pc'[u] # pc[u] => pc'[u] \notin InCall
  PROVE  SitesKnown'
BY DEF SitesKnown

LEMMA SitesNext ==
  ASSUME LeaksTypes, [LeaksNext]_leaks_vars
  PROVE  SitesKnown'
<1>1. TypeInv /\ SitesKnown
  BY DEF LeaksTypes
<1>2. ASSUME NEW t \in Thread, Resume(t)
      PROVE  SitesKnown'
  BY <1>1, <1>2, EnterSites DEF Resume, Acquiring
<1>3. ASSUME NEW t \in Thread,
             Pause(t) \/ CallStart(t) \/ CallStop(t) \/ Ask(t) \/ CommandStep(t) \/ WorkerHandles(t)
      PROVE  SitesKnown'
  BY <1>1, <1>3, CallFrame, SitesFrame
<1>4. CASE WatcherStep
  BY <1>2, <1>3, <1>4, HeapCallSites, LeakerIsThread DEF WatcherStep, ThreadStep, Worker
<1>5. CASE SingleStep
  <2>1. PICK t \in Thread : SingleUnwatched(t) \/ SingleWatched(t)
    BY <1>5 DEF SingleStep
  <2>2. /\ "idle" \notin InCall
        /\ pc' = [pc EXCEPT ![t] = "idle"] /\ call' = [call EXCEPT ![t] = NoCall]
    BY <2>1, SingleFrame DEF ReturnUnrecorded, Return, GoTo, InCall
  <2> QED BY <1>1, <2>2, SitesStep
<1>6. CASE (\E t \in Thread : CallCapture(t) \/ CaptureStep(t)) \/ LeakerStep \/ UNCHANGED leaks_vars
  <2>1. UNCHANGED call
    BY <1>6 DEF CallCapture, CaptureStep, CaptureLock, CaptureLeak, CaptureReturn, LeakerStep,
                LeakerBegins, LeakerStoresHook, LeakerWatches, LeakerLowersFlag, LeakerEnds,
                unchanged_by_leaker, unchanged_by_capture, unchanged_by_commands, leaks_vars, vars
  <2>2. UNCHANGED pc \/ \E t \in Thread : \E place \in {"idle", "capture", "leak"} : GoTo(t, place)
    BY <1>6 DEF CallCapture, CaptureStep, CaptureLock, CaptureLeak, CaptureReturn, LeakerStep,
                LeakerBegins, LeakerStoresHook, LeakerWatches, LeakerLowersFlag, LeakerEnds,
                unchanged_by_leaker, leaks_vars, vars
  <2>3. \A u \in Thread : pc'[u] # pc[u] => pc'[u] \notin InCall
    BY <1>1, <2>2 DEF GoTo, InCall, TypeInv, Types
  <2> QED BY <1>1, <2>1, <2>3, SitesFrame
<1> QED
  BY <1>4, <1>5, <1>6 DEF LeaksNext

LEMMA LeaksTypesStep ==
  ASSUME LeaksTypes, [LeaksNext]_leaks_vars
  PROVE  LeaksTypes'
<1>1. TypeInv' /\ SitesKnown'
  BY CaptureTypeStep, SitesNext
<1>2. LeaksTypeOK
  BY DEF LeaksTypes
<1>3. CASE UNCHANGED leaks_vars
  BY <1>1, <1>2, <1>3
  DEF LeaksTypes, LeaksTypeOK, leaks_vars, vars, single_vars, leaker_vars, watch_vars, leak_vars, heap_vars
<1>4. CASE LeaksNext
  <2>1. leaked' \subseteq heap' /\ strayed' \subseteq Addr /\ known_leaks' \in Seq(Leak)
    BY <1>1, <1>4, WatchTypes DEF LeaksNext, TypeInv, Types
  <2> DEFINE CaptureOK ==
               /\ single_threaded_allocations \in SingleMap
               /\ watched_single_thread_id \in Thread \cup {NoThread}
               /\ leaking \in {"none", "begin", "install", "run", "remove", "ended"}
               /\ named \in NamedFrames \cup {{}}
               /\ captured \subseteq Site
  <2>2. CaptureOK'
    <3>1. CASE WatcherStep
      BY <1>2, <3>1 DEF WatcherStep, LeaksTypeOK, single_vars, leaker_vars
    <3>2. CASE SingleStep
      BY <1>2, <3>2, SingleType, SingleFrame DEF SingleStep, LeaksTypeOK, leaker_vars
    <3>3. ASSUME NEW t \in Thread, CallCapture(t) \/ CaptureLock(t) \/ CaptureReturn(t)
          PROVE  CaptureOK'
      BY <1>2, <3>3 DEF CallCapture, CaptureLock, CaptureReturn, LeaksTypeOK, single_vars,
                        leaker_vars, SingleMap
    <3>4. ASSUME NEW t \in Thread, CaptureLeak(t)
          PROVE  CaptureOK'
      BY <1>2, <3>4, CaptureLeakType DEF CaptureLeak, LeaksTypeOK, leaker_vars
    <3>5. CASE LeakerStep
      BY <1>2, <3>5, LeakerIsThread
      DEF LeakerStep, LeakerBegins, LeakerStoresHook, LeakerWatches, LeakerLowersFlag, LeakerEnds,
          unchanged_by_leaker, LeaksTypeOK
    <3> QED
      BY <1>4, <3>1, <3>2, <3>3, <3>4, <3>5 DEF LeaksNext, CaptureStep
  <2> QED
    BY <1>1, <2>1, <2>2 DEF LeaksTypes, LeaksTypeOK
<1> QED
  BY <1>3, <1>4

LEMMA LeaksTypesInit == LeaksInit => LeaksTypes
BY TypeInit, ConstantTypes DEF LeaksInit, LeaksTypes, LeaksTypeOK, SingleMap, TypeInv, Types, SitesKnown, Init,
   InitWith, InCall

LEMMA LeaksTypesHold == LeaksSpec => []LeaksTypes
BY LeaksTypesInit, LeaksTypesStep, PTL DEF LeaksSpec

(***************************************************************************)
(* The types of a capture's state, and that the leaking function's blocks  *)
(* are live.                                                               *)
(***************************************************************************)
THEOREM CaptureTypesHold == LeaksSpec => []LeaksTypeOK
BY LeaksTypesHold, PTL DEF LeaksTypes

-----------------------------------------------------------------------------
(***************************************************************************)
(* The list of known leaks.  It only grows, and each new leak matches the  *)
(* trace it was found in, which no leak of the list did.                   *)
(***************************************************************************)
LEMMA AppendKeeps ==
  ASSUME NEW leaks \in Seq(Leak), NEW leak \in Leak, NEW trace \in Seq(Frame),
         IsKnownLeak(leaks, trace)
  PROVE  IsKnownLeak(Append(leaks, leak), trace)
<1> DEFINE longer == Append(leaks, leak)
<1>1. /\ Len(leaks) \in Nat /\ Len(longer) = Len(leaks) + 1
      /\ \A k \in 1 .. Len(leaks) : longer[k] = leaks[k]
      /\ DOMAIN leaks = 1 .. Len(leaks) /\ DOMAIN longer = 1 .. Len(longer)
  BY AppendProperties, LenProperties
<1> HIDE DEF longer
<1>2. DOMAIN leaks \subseteq DOMAIN longer
  BY <1>1
<1>3. IsKnownLeak(longer, trace)
  BY <1>1, <1>2 DEF IsKnownLeak
<1> QED
  BY <1>3 DEF longer

LEMMA AppendKnows ==
  ASSUME NEW leaks \in Seq(Leak), NEW trace \in Seq(Frame), NEW i \in 1 .. Len(trace),
         LeakAt(trace, i) \in Leak
  PROVE  IsKnownLeak(Append(leaks, LeakAt(trace, i)), trace)
<1> DEFINE leak   == LeakAt(trace, i)
           longer == Append(leaks, leak)
           n      == Len(leaks) + 1
<1>1. /\ Len(leaks) \in Nat /\ Len(longer) = Len(leaks) + 1 /\ longer[n] = leak
      /\ DOMAIN longer = 1 .. Len(longer)
  BY AppendProperties, LenProperties
<1>2. leak.address = trace[i] /\ leak.offset = i - 1
  BY DEF LeakAt
<1>3. Len(trace) \in Nat /\ i \in Nat /\ i - 1 < Len(trace) /\ (i - 1) + 1 = i
  BY LenProperties
<1> HIDE DEF leak, longer
<1>4. n \in DOMAIN longer
  BY <1>1
<1> HIDE DEF n
<1>5. longer[n].offset < Len(trace) /\ trace[longer[n].offset + 1] = longer[n].address
  BY <1>1, <1>2, <1>3
<1> QED
  BY <1>4, <1>5 DEF IsKnownLeak, longer, leak

(* What a capture finds new differs from all that is known. *)
LEMMA NewLeakDiffers ==
  ASSUME NEW leaks \in Seq(Leak), NEW trace \in Seq(Frame), NEW i \in 1 .. Len(trace),
         ~IsKnownLeak(leaks, trace), NEW k \in 1 .. Len(leaks)
  PROVE  leaks[k] # LeakAt(trace, i)
<1> SUFFICES ASSUME leaks[k] = LeakAt(trace, i)
             PROVE  IsKnownLeak(leaks, trace)
  OBVIOUS
<1>1. leaks[k].address = trace[i] /\ leaks[k].offset = i - 1
  BY DEF LeakAt
<1>2. Len(trace) \in Nat /\ i \in Nat /\ i - 1 < Len(trace) /\ (i - 1) + 1 = i
  BY LenProperties
<1>3. k \in DOMAIN leaks
  BY LenProperties
<1> QED
  BY <1>1, <1>2, <1>3 DEF IsKnownLeak

(* Nobody but a capture adds to the list. *)
LEMMA ListFrame ==
  ASSUME [LeaksNext]_leaks_vars
  PROVE  UNCHANGED <<known_leaks, captured>> \/ \E t \in Thread : CaptureLeak(t)
<1>1. ASSUME NEW t \in Thread, HeapCall(t)
      PROVE  UNCHANGED known_leaks
  BY <1>1 DEF HeapCall, BeginCall, LibcMalloc, LibcRealloc, LibcFree, Libc, CheckUnwatched,
              CheckWatched, CountKnownLeak, EnqueueRecord, leak_vars
<1>2. ASSUME NEW t \in Thread, ThreadStep(t) \/ WorkerHandles(t)
      PROVE  UNCHANGED known_leaks
  BY <1>1, <1>2 DEF ThreadStep, Pause, Resume, CallStart, CallStop, Ask, CommandStep, StartLock,
     StartCleared, StartStoreHook, StartWatching, StopLock, StopStoreHook, StopAsk, StopReturn,
     AskReturn, unchanged_by_commands, leak_vars, WorkerHandles
<1>3. CASE WatcherStep
  BY <1>1, <1>2, <1>3, LeakerIsThread DEF WatcherStep, Worker
<1>4. CASE SingleStep
  BY <1>4, SingleFrame DEF SingleStep, unchanged_by_single, leak_vars
<1>5. CASE \E t \in Thread : CallCapture(t) \/ CaptureStep(t)
  BY <1>5 DEF CallCapture, CaptureStep, CaptureLock, CaptureReturn, unchanged_by_capture,
              unchanged_by_commands, leak_vars
<1>6. CASE LeakerStep
  BY <1>6 DEF LeakerStep, LeakerBegins, LeakerStoresHook, LeakerWatches, LeakerLowersFlag, LeakerEnds,
              unchanged_by_leaker, unchanged_by_capture, unchanged_by_commands, leak_vars
<1>7. CASE UNCHANGED leaks_vars
  BY <1>7 DEF leaks_vars, vars, leak_vars, watch_vars
<1> QED
  BY <1>3, <1>4, <1>5, <1>6, <1>7 DEF LeaksNext

(* The list the program begins with has no leak twice. *)
InitialLeaksDiffer ==
  \A i, j \in DOMAIN InitialLeaks : InitialLeaks[i] = InitialLeaks[j] => i = j

LEMMA ListStep ==
  ASSUME LeaksTypes, [LeaksNext]_leaks_vars
  PROVE  (NoLeakTwice => NoLeakTwice') /\ (CapturedIsIgnored => CapturedIsIgnored')
<1>1. CASE UNCHANGED <<known_leaks, captured>>
  BY <1>1 DEF NoLeakTwice, CapturedIsIgnored
<1>2. ASSUME NEW t \in Thread, CaptureLeak(t)
      PROVE  (NoLeakTwice => NoLeakTwice') /\ (CapturedIsIgnored => CapturedIsIgnored')
  <2>1. PICK trace \in Site :
           /\ \/ UNCHANGED known_leaks
                 /\ (NamedIn(trace) # {} => IsKnownLeak(known_leaks, trace))
              \/ /\ ~IsKnownLeak(known_leaks, trace)
                 /\ \E i \in 1 .. Len(trace) :
                      LeakAt(trace, i) \in Leak /\ known_leaks' = Append(known_leaks, LeakAt(trace, i))
           /\ captured' = IF NamedIn(trace) # {} THEN captured \cup {trace} ELSE captured
    BY <1>2, CaptureAdds
  <2>2. /\ trace \in Seq(Frame) /\ known_leaks \in Seq(Leak)
        /\ captured \subseteq Seq(Frame)
    BY WatcherAssumption DEF LeaksTypes, LeaksTypeOK
  <2>3. CASE UNCHANGED known_leaks /\ (NamedIn(trace) # {} => IsKnownLeak(known_leaks, trace))
    BY <2>1, <2>3 DEF NoLeakTwice, CapturedIsIgnored
  <2>4. ASSUME ~IsKnownLeak(known_leaks, trace), NEW i \in 1 .. Len(trace),
               LeakAt(trace, i) \in Leak, known_leaks' = Append(known_leaks, LeakAt(trace, i))
        PROVE  (NoLeakTwice => NoLeakTwice') /\ (CapturedIsIgnored => CapturedIsIgnored')
    <3> DEFINE leak   == LeakAt(trace, i)
               longer == Append(known_leaks, leak)
    <3>1. /\ Len(known_leaks) \in Nat /\ Len(longer) = Len(known_leaks) + 1
          /\ \A k \in 1 .. Len(known_leaks) : longer[k] = known_leaks[k]
          /\ longer[Len(known_leaks) + 1] = leak
          /\ DOMAIN longer = 1 .. Len(longer) /\ DOMAIN known_leaks = 1 .. Len(known_leaks)
      BY <2>2, <2>4, AppendProperties, LenProperties
    <3>2. \A k \in 1 .. Len(known_leaks) : known_leaks[k] # leak
      BY <2>2, <2>4, NewLeakDiffers
    <3>3. CapturedIsIgnored => CapturedIsIgnored'
      BY <2>1, <2>2, <2>4, AppendKeeps, AppendKnows DEF CapturedIsIgnored
    <3> HIDE DEF leak, longer
    <3>4. \A k \in 1 .. Len(longer) : k \in 1 .. Len(known_leaks) \/ k = Len(known_leaks) + 1
      BY <3>1
    <3>5. NoLeakTwice => NoLeakTwice'
      <4>1. known_leaks' = longer
        BY <2>4 DEF longer, leak
      <4>2. NoLeakTwice => \A j, k \in 1 .. Len(longer) : longer[j] = longer[k] => j = k
        BY <3>1, <3>2, <3>4 DEF NoLeakTwice
      <4> QED BY <3>1, <4>1, <4>2 DEF NoLeakTwice
    <3> QED BY <3>3, <3>5
  <2> QED BY <2>1, <2>3, <2>4
<1> QED
  BY <1>1, <1>2, ListFrame

(***************************************************************************)
(* No leak is known twice, if none is when the program begins: however     *)
(* often and in whatever order captures find the same traces.              *)
(***************************************************************************)
THEOREM LeaksStayDistinct == InitialLeaksDiffer => (LeaksSpec => []NoLeakTwice)
<1> SUFFICES ASSUME InitialLeaksDiffer
             PROVE  LeaksSpec => []NoLeakTwice
  OBVIOUS
<1>1. LeaksInit => NoLeakTwice
  BY DEF LeaksInit, Init, InitWith, InitialLeaksDiffer, NoLeakTwice
<1>2. LeaksTypes /\ NoLeakTwice /\ [LeaksNext]_leaks_vars => NoLeakTwice'
  BY ListStep
<1> QED
  BY <1>1, <1>2, LeaksTypesHold, PTL DEF LeaksSpec

(***************************************************************************)
(* Once a capture has found a named frame in a stack trace, allocations    *)
(* with that trace are known leaks from then on, whatever is captured      *)
(* before and after.                                                       *)
(***************************************************************************)
THEOREM CapturedStaysIgnored == LeaksSpec => []CapturedIsIgnored
<1>1. LeaksInit => CapturedIsIgnored
  BY DEF LeaksInit, CapturedIsIgnored
<1>2. LeaksTypes /\ CapturedIsIgnored /\ [LeaksNext]_leaks_vars => CapturedIsIgnored'
  BY ListStep
<1> QED
  BY <1>1, <1>2, LeaksTypesHold, PTL DEF LeaksSpec

-----------------------------------------------------------------------------
(***************************************************************************)
(* Captures and commands.                                                  *)
(***************************************************************************)
(* A store, of a session's or a capture's hook or of the C library's. *)
LEMMA StoreReach ==
  ASSUME hooks \in [HeapFunction -> Hook], NEW kind \in {"multi", "single"}, Between(kind)
  PROVE  /\ StoreHook(kind) =>
              /\ hooks' \in [HeapFunction -> Hook] /\ Between(kind)'
              /\ Reach \subseteq {"libc", kind} /\ Reach' \in {{"libc", kind}, {kind}}
         /\ StoreHook("libc") =>
              /\ hooks' \in [HeapFunction -> Hook] /\ Between(kind)'
              /\ Reach' \in {Reach \cup {"libc"}, {"libc"}}
<1>1. Reach \subseteq {"libc", kind} /\ Reach # {}
  BY ReachIsAny, ReachOf
<1>2. ASSUME NEW target \in {"libc", kind}, StoreHook(target)
      PROVE  /\ hooks' \in [HeapFunction -> Hook] /\ Between(kind)'
             /\ target \in Reach' /\ Reach' \subseteq {"libc", kind}
             /\ Reach' \subseteq Reach \cup {target}
  <2>1. PICK f \in HeapFunction : hooks' = [hooks EXCEPT ![f] = target]
    BY <1>2 DEF StoreHook, HeapFunction
  <2>2. hooks'[f] = target /\ \A g \in HeapFunction \ {f} : hooks'[g] = hooks[g]
    BY <2>1
  <2>3. hooks' \in [HeapFunction -> Hook]
    BY <2>1 DEF Hook
  <2>4. Between(kind)'
    BY <2>2 DEF Between
  <2> QED
    BY <2>2, <2>3, <2>4 DEF Reach, Between
<1>3. StoreHook(kind) =>
        /\ hooks' \in [HeapFunction -> Hook] /\ Between(kind)'
        /\ Reach' \in {{"libc", kind}, {kind}}
  BY <1>2
<1>4. StoreHook("libc") =>
        /\ hooks' \in [HeapFunction -> Hook] /\ Between(kind)'
        /\ Reach' \in {Reach \cup {"libc"}, {"libc"}}
  BY <1>1, <1>2
<1> QED
  BY <1>1, <1>3, <1>4

Outside == Place \ (InMutex \cup {"leak"})

(* Steps outside of the mutex. *)
LEMMA OutsideStep ==
  ASSUME CaptureControl, NEW t \in Thread, UNCHANGED <<hook_vars, leaking>>,
         pc[t] \in Outside, NEW place \in Outside, pc' = [pc EXCEPT ![t] = place]
  PROVE  CaptureControl' /\ ModeStep
<1>1. pc \in [Thread -> Place] /\ command_mutex \in Thread \cup {NoThread} /\ NoThread \notin Thread
  BY WatcherAssumption DEF CaptureControl, CaptureTypes
<1>2. \A u \in Thread : /\ (pc'[u] \in InMutex \cup {"leak"} <=> pc[u] \in InMutex \cup {"leak"})
                        /\ (u # t => pc'[u] = pc[u])
  BY <1>1 DEF Outside
<1>3. \A u \in Thread, p \in InMutex \cup {"leak"} : pc'[u] = p <=> pc[u] = p
  BY <1>1 DEF Outside
<1>4. CaptureControl'
  BY <1>1, <1>2, <1>3
  DEF CaptureControl, CaptureTypes, LockHeld, LeakingInside, HooksMatch, HooksAre, Stored, Between,
      hook_vars, InMutex, Outside
<1>5. command_mutex # t
  BY DEF CaptureControl, LockHeld, Outside
<1> QED
  BY <1>1, <1>2, <1>4, <1>5 DEF ModeStep, Mode, Reach, hook_vars

(* Steps that move no thread and leave the hooks alone. *)
LEMMA ControlStays ==
  ASSUME CaptureControl, UNCHANGED <<hook_vars, leaking, pc>>
  PROVE  CaptureControl' /\ ModeStep
<1>1. CaptureControl'
  BY DEF CaptureControl, CaptureTypes, LockHeld, LeakingInside, HooksMatch, HooksAre, Stored,
         Between, hook_vars
<1> QED
  BY <1>1 DEF ModeStep, Mode, Reach, hook_vars

(* One thread is inside the mutex, and while it is inside a command no     *)
(* capture is under way.                                                   *)
LEMMA OneInside ==
  ASSUME CaptureControl
  PROVE  /\ \A t, u \in Thread :
              pc[t] \in InMutex \cup {"leak"} /\ pc[u] \in InMutex \cup {"leak"} => t = u
         /\ \A t \in Thread : pc[t] \in InMutex => command_mutex = t /\ leaking = "none"
         /\ \A t \in Thread : pc[t] = "leak" => command_mutex = t /\ leaking # "none"
         /\ command_mutex = NoThread =>
              leaking = "none" /\ \A t \in Thread : pc[t] \notin InMutex \cup {"leak"}
<1>1. \A t \in Thread : pc[t] = "leak" => pc[t] \notin InMutex
  BY DEF InMutex
<1> QED
  BY <1>1, WatcherAssumption DEF CaptureControl, LockHeld, LeakingInside, CaptureTypes

LEMMA CommandInCapture ==
  ASSUME CaptureControl, NEW t \in Thread, CommandStep(t), UNCHANGED leaking
  PROVE  CaptureControl' /\ ModeStep
<1> USE DEF CaptureControl, CaptureTypes, LockHeld, LeakingInside, HooksMatch, HooksAre
<1>1. /\ pc \in [Thread -> Place] /\ hooks \in [HeapFunction -> Hook]
      /\ command_mutex \in Thread \cup {NoThread} /\ NoThread \notin Thread
      /\ watching_globally \in BOOLEAN
  BY WatcherAssumption
<1> DEFINE Step(place) == pc' = [pc EXCEPT ![t] = place]
<1>2. /\ \A u, v \in Thread :
           pc[u] \in InMutex \cup {"leak"} /\ pc[v] \in InMutex \cup {"leak"} => u = v
      /\ \A u \in Thread : pc[u] \in InMutex => command_mutex = u /\ leaking = "none"
      /\ command_mutex = NoThread =>
           leaking = "none" /\ \A u \in Thread : pc[u] \notin InMutex \cup {"leak"}
  BY OneInside
<1>3. CASE StartLock(t)
  <2>1. CASE watching_globally
    <3>1. pc[t] = "start" /\ Step("idle") /\ UNCHANGED hook_vars
      BY <1>3, <2>1 DEF StartLock, AlreadyWatching, GoTo, hook_vars
    <3>2. pc[t] \in Outside /\ "idle" \in Outside
      BY <3>1 DEF Outside, Place, InMutex, InCall, InCommand
    <3> QED BY <3>1, <3>2, OutsideStep
  <2>2. CASE ~watching_globally
    <3>1. /\ command_mutex = NoThread /\ command_mutex' = t /\ Step("clear")
          /\ hooks' = hooks /\ watching_globally' = watching_globally
      BY <1>3, <2>2 DEF StartLock, AlreadyWatching, GoTo
    <3>2. leaking = "none" /\ \A u \in Thread : pc[u] \notin InMutex \cup {"leak"}
      BY <1>2, <3>1
    <3>3. CaptureControl'
      BY <1>1, <2>2, <3>1, <3>2 DEF Place, InCommand, InMutex, Stored
    <3>4. Mode = "quiet" /\ Mode' = "opening" /\ Reach' = Reach
      BY <1>1, <2>2, <3>1 DEF Mode, Reach
    <3> QED
      BY <3>3, <3>4 DEF ModeStep, Modes!ModeNext, Modes!Begin
  <2> QED BY <2>1, <2>2
<1>4. CASE StartCleared(t)
  <2>1. pc[t] = "clear" /\ Step("install") /\ UNCHANGED hook_vars /\ command_mutex = t
    BY <1>4 DEF StartCleared, GoTo, InMutex
  <2>2. leaking = "none" /\ \A u \in Thread \ {t} : pc[u] \notin InMutex \cup {"leak"}
    BY <1>2, <2>1 DEF InMutex
  <2>3. CaptureControl'
    BY <1>1, <2>1, <2>2 DEF Place, InCommand, InMutex, Stored, Between, hook_vars
  <2> QED
    BY <1>1, <2>1, <2>3 DEF ModeStep, Mode, Reach, hook_vars
<1>5. CASE StartStoreHook(t) \/ StopStoreHook(t)
  <2>1. /\ pc[t] \in {"install", "uninstall"} /\ command_mutex = t /\ leaking = "none"
        /\ UNCHANGED <<watching_globally, command_mutex, pc>> /\ ~watching_globally
    BY <1>2, <1>5 DEF StartStoreHook, StopStoreHook, InMutex
  <2>2. PICK kind \in {"multi", "single"}, target \in {"libc", "multi", "single"} :
          /\ target \in {"libc", kind} /\ StoreHook(target) /\ Between(kind)
          /\ target # "libc" => pc[t] = "install" /\ kind = "multi"
          /\ target = "libc" => pc[t] = "uninstall"
    BY <1>5 DEF StartStoreHook, StopStoreHook
  <2>3. hooks' \in [HeapFunction -> Hook] /\ Between(kind)'
    BY <1>1, <2>2, StoreReach
  <2>4. CaptureControl'
    <3>1. \A u \in Thread \ {t} : pc[u] \notin InMutex \cup {"leak"}
      BY <1>2, <2>1 DEF InMutex
    <3>2. pc[t] = "install" => kind = "multi"
      BY <2>2
    <3> QED
      BY <1>1, <2>1, <2>3, <3>1, <3>2 DEF InMutex
  <2>5. CASE target # "libc"
    <3>1. Mode = "opening" /\ Mode' = Mode
      BY <1>1, <2>1, <2>2, <2>5 DEF Mode
    <3>2. Reach \subseteq {"libc", "multi"} /\ Reach' \in {{"libc", "multi"}, {"multi"}}
      BY <1>1, <2>2, <2>5, StoreReach
    <3> QED
      BY <2>4, <3>1, <3>2 DEF ModeStep, Modes!ModeNext, Modes!Instrument
  <2>6. CASE target = "libc"
    <3>1. Mode = "closing" /\ Mode' = Mode
      BY <1>1, <2>1, <2>2, <2>6 DEF Mode
    <3>2. Reach' \in {Reach \cup {"libc"}, {"libc"}}
      BY <1>1, <2>2, <2>6, StoreReach
    <3> QED
      BY <2>4, <3>1, <3>2 DEF ModeStep, Modes!ModeNext, Modes!Remove
  <2> QED BY <2>5, <2>6
<1>6. CASE StartWatching(t)
  <2>1. /\ pc[t] = "install" /\ command_mutex = t /\ Stored("multi") /\ hooks' = hooks
        /\ watching_globally' = TRUE /\ command_mutex' = NoThread /\ Step("idle")
    BY <1>6 DEF StartWatching, Installed, Unlock, GoTo, InMutex
  <2>2. leaking = "none" /\ \A u \in Thread : pc'[u] \notin InMutex \cup {"leak"}
    BY <1>1, <1>2, <2>1 DEF InMutex
  <2>3. CaptureControl'
    BY <1>1, <2>1, <2>2 DEF Place, InMutex, Stored
  <2>4. Mode = "opening" /\ Mode' = "watching" /\ Reach = {"multi"} /\ Reach' = Reach
    BY <1>1, <2>1, ReachOf DEF Mode, Reach
  <2> QED
    BY <2>3, <2>4 DEF ModeStep, Modes!ModeNext, Modes!Watch
<1>7. CASE StopLock(t)
  <2>1. /\ command_mutex = NoThread /\ command_mutex' = t /\ watching_globally' = FALSE
        /\ hooks' = hooks /\ Step("uninstall")
    BY <1>7 DEF StopLock, LowerFlag, GoTo
  <2>2. leaking = "none" /\ \A u \in Thread : pc[u] \notin InMutex \cup {"leak"}
    BY <1>2, <2>1
  <2>3. Between("multi") \/ Between("single")
    BY <2>1 DEF Stored, Between
  <2>4. CaptureControl'
    BY <1>1, <2>1, <2>2, <2>3 DEF Place, InCommand, InMutex, Between
  <2>5. Mode \in {"quiet", "watching", "abandoned"} /\ Mode' = "closing" /\ Reach' = Reach
    BY <1>1, <2>1 DEF Mode, Reach
  <2> QED
    BY <2>4, <2>5 DEF ModeStep, Modes!ModeNext, Modes!Begin
<1>8. CASE StopAsk(t)
  <2>1. pc[t] = "uninstall" /\ Step("drain") /\ Stored("libc") /\ UNCHANGED hook_vars /\ command_mutex = t
    BY <1>8 DEF StopAsk, GoTo, InMutex
  <2>2. leaking = "none" /\ \A u \in Thread \ {t} : pc[u] \notin InMutex \cup {"leak"}
    BY <1>2, <2>1 DEF InMutex
  <2>3. CaptureControl'
    BY <1>1, <2>1, <2>2 DEF Place, InCommand, InMutex, Stored, Between, hook_vars
  <2> QED
    BY <1>1, <2>1, <2>3 DEF ModeStep, Mode, Reach, hook_vars
<1>9. CASE StopReturn(t)
  <2>1. /\ pc[t] = "drain" /\ command_mutex = t /\ Stored("libc") /\ ~watching_globally
        /\ UNCHANGED <<hooks, watching_globally>> /\ command_mutex' = NoThread /\ Step("idle")
    BY <1>9 DEF StopReturn, TakeAnswer, Unlock, GoTo, InMutex
  <2>2. leaking = "none" /\ \A u \in Thread : pc'[u] \notin InMutex \cup {"leak"}
    BY <1>1, <1>2, <2>1 DEF InMutex
  <2>3. CaptureControl'
    BY <1>1, <2>1, <2>2 DEF Place, InMutex, Stored
  <2>4. Mode = "closing" /\ Mode' = "quiet" /\ Reach = {"libc"} /\ Reach' = Reach
    BY <1>1, <2>1, ReachOf DEF Mode, Reach
  <2> QED
    BY <2>3, <2>4 DEF ModeStep, Modes!ModeNext, Modes!Rest
<1>10. CASE AskReturn(t)
  <2>1. pc[t] = "ask" /\ Step("idle") /\ UNCHANGED hook_vars
    BY <1>10 DEF AskReturn, TakeAnswer, GoTo
  <2>2. pc[t] \in Outside /\ "idle" \in Outside
    BY <2>1 DEF Outside, Place, InMutex, InCall, InCommand
  <2> QED BY <2>1, <2>2, OutsideStep
<1> QED
  BY <1>3, <1>4, <1>5, <1>6, <1>7, <1>8, <1>9, <1>10 DEF CommandStep

(* capture_known_leak, in the thread that calls it. *)
LEMMA CaptureSteps ==
  ASSUME CaptureControl, NEW t \in Thread, CallCapture(t) \/ CaptureStep(t)
  PROVE  CaptureControl' /\ ModeStep
<1> USE DEF CaptureControl, CaptureTypes, LockHeld, LeakingInside, HooksMatch, HooksAre
<1>1. /\ pc \in [Thread -> Place] /\ hooks \in [HeapFunction -> Hook]
      /\ command_mutex \in Thread \cup {NoThread} /\ NoThread \notin Thread
      /\ watching_globally \in BOOLEAN
  BY WatcherAssumption
<1> DEFINE Step(place) == pc' = [pc EXCEPT ![t] = place]
<1>2. CASE CallCapture(t)
  <2>1. pc[t] = "idle" /\ Step("capture") /\ UNCHANGED <<hook_vars, leaking>>
    BY <1>2 DEF CallCapture, Issue, GoTo, leaker_vars
  <2>2. pc[t] \in Outside /\ "capture" \in Outside
    BY <2>1 DEF Outside, Place, InMutex, InCall, InCommand
  <2> QED BY <2>1, <2>2, OutsideStep
<1>3. CASE CaptureLock(t) /\ watching_globally
  <2>1. pc[t] = "capture" /\ Step("idle") /\ UNCHANGED <<hook_vars, leaking>>
    BY <1>3 DEF CaptureLock, AlreadyWatching, GoTo, leaker_vars, hook_vars
  <2>2. pc[t] \in Outside /\ "idle" \in Outside
    BY <2>1 DEF Outside, Place, InMutex, InCall, InCommand
  <2> QED BY <2>1, <2>2, OutsideStep
<1>4. CASE CaptureLock(t) /\ ~watching_globally
  <2>1. /\ command_mutex = NoThread /\ command_mutex' = t /\ Step("leak") /\ leaking' = "begin"
        /\ hooks' = hooks /\ watching_globally' = watching_globally
    BY <1>4 DEF CaptureLock, AlreadyWatching, GoTo
  <2>2. \A u \in Thread : pc[u] \notin InMutex \cup {"leak"}
    BY <2>1, OneInside
  <2>3. pc'[t] = "leak" /\ \A u \in Thread \ {t} : pc'[u] = pc[u]
    BY <1>1, <2>1
  <2>4. CaptureControl'
    BY <1>1, <1>4, <2>1, <2>2, <2>3 DEF Place, InCommand, InMutex, Stored
  <2>5. Mode = "quiet" /\ Mode' = "capturing" /\ Reach' = Reach
    BY <1>1, <1>4, <2>1, <2>3 DEF Mode, Reach
  <2> QED
    BY <2>4, <2>5 DEF ModeStep, Modes!ModeNext, Modes!Begin
<1>5. CASE CaptureLeak(t)
  <2>1. UNCHANGED <<hook_vars, leaking, pc>>
    BY <1>5 DEF CaptureLeak, leaker_vars
  <2> QED BY <2>1, ControlStays
<1>6. CASE CaptureReturn(t)
  <2>1. /\ pc[t] = "leak" /\ command_mutex = t /\ leaking = "ended" /\ leaking' = "none"
        /\ command_mutex' = NoThread /\ Step("idle") /\ UNCHANGED <<hooks, watching_globally>>
        /\ HooksAre(FALSE, "libc") \/ HooksAre(TRUE, "single")
    BY <1>6, OneInside DEF CaptureReturn, Unlock, GoTo
  <2>2. \A u \in Thread \ {t} : pc[u] \notin InMutex \cup {"leak"}
    BY <2>1, OneInside
  <2>3. \A u \in Thread : pc'[u] \notin InMutex \cup {"leak"}
    BY <1>1, <2>1, <2>2 DEF InMutex
  <2>4. CaptureControl'
    BY <1>1, <2>1, <2>3 DEF Place, InMutex, Stored
  <2>5. Mode = "capturing" /\ Reach' = Reach
    BY <1>1, <2>1 DEF Mode, Reach
  <2>6. CASE HooksAre(FALSE, "libc")
    <3>1. Mode' = "quiet" /\ Reach = {"libc"}
      BY <1>1, <2>1, <2>6, ReachOf DEF Mode
    <3> QED BY <2>4, <2>5, <3>1 DEF ModeStep, Modes!ModeNext, Modes!Rest
  <2>7. CASE HooksAre(TRUE, "single")
    <3>1. Reach = {"single"}
      BY <2>7, ReachOf
    <3>2. Mode' = "abandoned"
      BY <1>1, <2>1, <2>5, <2>7, <3>1 DEF Mode
    <3> QED BY <2>4, <2>5, <3>1, <3>2 DEF ModeStep, Modes!ModeNext, Modes!Abandon
  <2> QED BY <2>1, <2>6, <2>7
<1> QED
  BY <1>2, <1>3, <1>4, <1>5, <1>6 DEF CaptureStep

(* And in the thread of std::async. *)
LEMMA LeakerSteps ==
  ASSUME CaptureControl, LeakerStep
  PROVE  CaptureControl' /\ ModeStep
<1>1. /\ pc \in [Thread -> Place] /\ hooks \in [HeapFunction -> Hook]
      /\ command_mutex \in Thread \cup {NoThread} /\ NoThread \notin Thread
      /\ watching_globally \in BOOLEAN
  BY WatcherAssumption DEF CaptureControl, CaptureTypes
<1>2. UNCHANGED <<pc, command_mutex>> /\ leaking # "none" /\ leaking' # "none"
  BY DEF LeakerStep, LeakerBegins, LeakerStoresHook, LeakerWatches, LeakerLowersFlag, LeakerEnds,
         unchanged_by_leaker
<1>3. PICK t \in Thread : pc[t] = "leak" /\ command_mutex = t
  BY <1>2, OneInside DEF CaptureControl, LeakingInside
<1>4. \A u \in Thread : pc[u] \notin InMutex
  BY <1>2, OneInside
<1>5. Mode = "capturing" /\ Mode' = "capturing"
  BY <1>1, <1>2, <1>3 DEF Mode
<1>6. hooks' \in [HeapFunction -> Hook] /\ watching_globally' \in BOOLEAN
        /\ leaking' \in {"none", "begin", "install", "run", "remove", "ended"} /\ HooksMatch'
        => CaptureControl'
  BY <1>1, <1>2, <1>3 DEF CaptureControl, CaptureTypes, LockHeld, LeakingInside
<1>7. command_mutex' # NoThread /\ \A u \in Thread : pc'[u] \notin {"clear", "drain", "install", "uninstall"}
  BY <1>1, <1>2, <1>3, <1>4 DEF InMutex
<1>8. CASE LeakerStoresHook
  <2>1. /\ UNCHANGED <<watching_globally, leaking>> /\ leaking \in {"install", "remove"}
        /\ StoreHook(IF leaking = "install" THEN "single" ELSE "libc")
        /\ Between("single") /\ ~watching_globally
    BY <1>8 DEF LeakerStoresHook, CaptureControl, HooksMatch
  <2>2. hooks' \in [HeapFunction -> Hook] /\ Between("single")'
    BY <1>1, <2>1, StoreReach
  <2>3. CaptureControl'
    BY <1>1, <1>6, <1>7, <2>1, <2>2 DEF HooksMatch
  <2>4. \/ leaking = "install" /\ Reach \subseteq {"libc", "single"}
           /\ Reach' \in {{"libc", "single"}, {"single"}}
        \/ leaking = "remove" /\ Reach' \in {Reach \cup {"libc"}, {"libc"}}
    BY <1>1, <2>1, StoreReach
  <2> QED
    BY <1>5, <2>3, <2>4 DEF ModeStep, Modes!ModeNext, Modes!Instrument, Modes!Remove
<1>9. CASE LeakerBegins \/ LeakerWatches \/ LeakerLowersFlag \/ LeakerEnds
  <2>1. /\ UNCHANGED hooks /\ watching_globally' \in BOOLEAN
        /\ leaking' \in {"none", "begin", "install", "run", "remove", "ended"}
        /\ UNCHANGED watching_globally \/ watching_globally' \in BOOLEAN
    BY <1>1, <1>9 DEF LeakerBegins, LeakerWatches, LeakerLowersFlag, LeakerEnds, LowerFlag
  <2>2. HooksMatch'
    <3>1. \/ leaking = "begin" /\ leaking' = "install" /\ UNCHANGED watching_globally
          \/ leaking = "install" /\ Stored("single") /\ leaking' = "run" /\ watching_globally' = TRUE
          \/ leaking = "run" /\ leaking' = "remove" /\ watching_globally' = FALSE
          \/ leaking = "remove" /\ Stored("libc") /\ leaking' = "ended" /\ UNCHANGED watching_globally
          \/ leaking = "run" /\ leaking' = "ended" /\ UNCHANGED watching_globally
      BY <1>9 DEF LeakerBegins, LeakerWatches, LeakerLowersFlag, LeakerEnds, LowerFlag
    <3>2. HooksMatch
      BY DEF CaptureControl
    <3> QED
      BY <1>1, <1>7, <2>1, <3>1, <3>2 DEF HooksMatch, HooksAre, Stored, Between
  <2>3. CaptureControl'
    BY <1>1, <1>6, <2>1, <2>2
  <2> QED
    BY <1>5, <2>1, <2>3 DEF ModeStep, Reach
<1> QED
  BY <1>8, <1>9 DEF LeakerStep

LEMMA CaptureControlStep ==
  ASSUME CaptureControl, [LeaksNext]_leaks_vars
  PROVE  CaptureControl' /\ ModeStep
<1> DEFINE Goal == CaptureControl' /\ ModeStep
<1>1. ASSUME NEW t \in Thread, HeapCall(t), UNCHANGED leaking
      PROVE  Goal
  <2>1. PICK place \in {"idle"} \cup InCall : pc' = [pc EXCEPT ![t] = place]
    BY <1>1, HeapCallControl
  <2>2. pc[t] \in Place /\ pc[t] \notin InCommand /\ UNCHANGED hook_vars
    BY <1>1, HeapCallControl DEF CaptureControl, CaptureTypes
  <2>3. pc[t] \in Outside /\ place \in Outside
    BY <2>2 DEF Outside, Place, InMutex, InCall, InCommand
  <2> QED BY <1>1, <2>1, <2>2, <2>3, OutsideStep
<1>2. ASSUME NEW t \in Thread, Resume(t) \/ CallStart(t) \/ CallStop(t) \/ Ask(t), UNCHANGED leaking
      PROVE  Goal
  <2>1. pc[t] = "idle" /\ UNCHANGED hook_vars
    BY <1>2 DEF Resume, CallStart, CallStop, Ask, Issue
  <2>2. PICK place \in {"libc", "start", "stop", "ask"} : pc' = [pc EXCEPT ![t] = place]
    BY <1>2 DEF Resume, Enter, CallStart, CallStop, Ask, GoTo
  <2>3. pc[t] \in Outside /\ place \in Outside
    BY <2>1 DEF Outside, Place, InMutex, InCall, InCommand
  <2> QED BY <1>2, <2>1, <2>2, <2>3, OutsideStep
<1>3. CASE WatcherStep
  <2>1. UNCHANGED leaking
    BY <1>3 DEF WatcherStep, leaker_vars
  <2>2. CASE Worker \/ \E t \in Thread : Pause(t)
    <3>1. UNCHANGED <<hook_vars, pc>>
      BY <2>2 DEF Worker, WorkerHandles, Pause
    <3> QED BY <2>1, <3>1, ControlStays
  <2> QED
    BY <1>1, <1>2, <1>3, <2>1, <2>2, CommandInCapture, LeakerIsThread DEF WatcherStep, ThreadStep
<1>4. CASE SingleStep
  <2>1. PICK t \in Thread : SingleUnwatched(t) \/ SingleWatched(t)
    BY <1>4 DEF SingleStep
  <2>2. /\ pc[t] = "check" /\ pc' = [pc EXCEPT ![t] = "idle"]
        /\ UNCHANGED <<hook_vars, leaking>>
    BY <1>4, <2>1, SingleFrame DEF ReturnUnrecorded, Return, GoTo, unchanged_by_single, SingleStep, leaker_vars
  <2>3. pc[t] \in Outside /\ "idle" \in Outside
    BY <2>2 DEF Outside, Place, InMutex, InCall, InCommand
  <2> QED BY <2>2, <2>3, OutsideStep
<1>5. CASE UNCHANGED leaks_vars
  <2>1. UNCHANGED <<hook_vars, leaking, pc>>
    BY <1>5 DEF leaks_vars, vars, leaker_vars
  <2> QED BY <2>1, ControlStays
<1> QED
  BY <1>3, <1>4, <1>5, CaptureSteps, LeakerSteps DEF LeaksNext

LEMMA CaptureControlInit == LeaksInit => CaptureControl /\ Modes!ModeInit
<1> SUFFICES ASSUME LeaksInit
             PROVE  CaptureControl /\ Modes!ModeInit
  OBVIOUS
<1>1. /\ Init /\ leaking = "none" /\ HooksAre(FALSE, "libc") /\ command_mutex = NoThread
      /\ \A t \in Thread : pc[t] = "idle"
  BY DEF LeaksInit, Init, InitWith, HooksAre, Stored
<1>2. Modes!ModeInit /\ hooks \in [HeapFunction -> Hook] /\ pc \in [Thread -> Place]
  BY <1>1, ControlInit DEF HookInv, ControlType
<1>3. CaptureControl
  BY <1>1, <1>2, WatcherAssumption
  DEF CaptureControl, CaptureTypes, LockHeld, LeakingInside, HooksMatch, HooksAre, InMutex
<1> QED BY <1>2, <1>3

(***************************************************************************)
(* start_watching, stop_watching and capture_known_leak, called by any     *)
(* number of threads, with captures that end well and captures that throw, *)
(* implement the modes of WatchModes.                                      *)
(***************************************************************************)
THEOREM CapturesKeepModes == LeaksSpec => RefinesModes
<1>1. CaptureControl /\ [LeaksNext]_leaks_vars => [Modes!ModeNext]_(Modes!mode_vars)
  BY CaptureControlStep DEF ModeStep, Modes!mode_vars
<1>2. CaptureControl /\ [LeaksNext]_leaks_vars => CaptureControl'
  BY CaptureControlStep
<1> QED
  BY <1>1, <1>2, CaptureControlInit, PTL DEF LeaksSpec, RefinesModes, Modes!ModeSpec

-----------------------------------------------------------------------------
(***************************************************************************)
(* The thread of std::async.  It is moved by no step but its own calls,    *)
(* and these are all instrumented for a single thread.                     *)
(***************************************************************************)
ThreadStays(u) == UNCHANGED <<pc[u], call[u], worker_request_queue[u], watching_thread[u]>>

LEMMA OthersStay ==
  ASSUME TypeInv, NEW t \in Thread, ThreadStep(t), NEW u \in Thread \ {t}
  PROVE  ThreadStays(u)
<1>1. /\ pc \in [Thread -> {"idle"} \cup InCall \cup InCommand]
      /\ call \in [Thread -> Call \cup {NoCall}]
      /\ worker_request_queue \in [Thread -> Seq(RequestRecord)]
      /\ watching_thread \in [Thread -> BOOLEAN]
  BY DEF TypeInv, Types
<1>2. /\ UNCHANGED watching_thread \/ \E flag : watching_thread' = [watching_thread EXCEPT ![t] = flag]
      /\ UNCHANGED worker_request_queue \/ \E r : Send(t, r)
      /\ UNCHANGED call \/ \E c : call' = [call EXCEPT ![t] = c]
      /\ UNCHANGED pc \/ \E place : pc' = [pc EXCEPT ![t] = place]
  <2>1. CASE BeginCall(t)
    BY <2>1 DEF BeginCall, Enter, GoTo
  <2>2. CASE LibcMalloc(t) \/ LibcRealloc(t) \/ LibcFree(t)
    <3>1. PICK c : Libc(t, c)
      BY <2>2 DEF LibcMalloc, LibcRealloc, LibcFree
    <3> QED BY <3>1 DEF Libc, ReturnUnrecorded, Return, GoTo
  <2>3. CASE CheckUnwatched(t) \/ CountKnownLeak(t)
    BY <2>3 DEF CheckUnwatched, CountKnownLeak, ReturnUnrecorded, Return, GoTo
  <2>4. CASE CheckWatched(t)
    <3>1. UNCHANGED <<watching_thread, worker_request_queue>> /\ \E place : GoTo(t, place)
      BY <2>4 DEF CheckWatched
    <3>2. \E c : call' = [call EXCEPT ![t] = c]
      BY <2>4, CheckedCall
    <3> QED BY <3>1, <3>2 DEF GoTo
  <2>5. CASE EnqueueRecord(t)
    BY <2>5 DEF EnqueueRecord, Return, GoTo
  <2>6. CASE Pause(t)
    BY <2>6 DEF Pause
  <2>7. CASE Resume(t)
    BY <2>7 DEF Resume, Enter, GoTo
  <2>8. CASE CallStart(t) \/ CallStop(t) \/ Ask(t)
    BY <2>8 DEF CallStart, CallStop, Ask, GoTo, unchanged_by_commands
  <2>9. CASE CommandStep(t)
    BY <2>9 DEF CommandStep, StartLock, StartCleared, StartStoreHook, StartWatching, StopLock,
                StopStoreHook, StopAsk, StopReturn, AskReturn, TakeAnswer, GoTo, unchanged_by_commands
  <2> QED
    BY <2>1, <2>2, <2>3, <2>4, <2>5, <2>6, <2>7, <2>8, <2>9 DEF ThreadStep, HeapCall
<1> QED
  BY <1>1, <1>2 DEF ThreadStays, Send

(* A call of the leaking function goes from idle to libc, and on to check. *)
LEMMA LeakerCalls ==
  ASSUME LeaksTypes, CaptureControl, LeakerInv, leaking = "run", HeapCall(Leaker)
  PROVE  \/ /\ pc[Leaker] = "idle" /\ pc'[Leaker] = "libc"
            /\ call'[Leaker].hook = "single" /\ call'[Leaker].result = Null
            /\ UNCHANGED <<heap, worker_request_queue, watching_thread>>
         \/ /\ pc[Leaker] = "libc" /\ pc'[Leaker] = "check"
            /\ call[Leaker] \in Call /\ call[Leaker].result = Null
            /\ \E a \in Pointer :
                 /\ call'[Leaker] = [call[Leaker] EXCEPT !.result = a]
                 /\ heap' = (heap \ ReleasedBy(call'[Leaker])) \cup ({a} \ {Null})
                 /\ call[Leaker].fn \in Acquiring => a \notin heap
                 /\ call[Leaker].fn = "free" => a = Null
            /\ UNCHANGED <<worker_request_queue, watching_thread>>
<1> DEFINE c == call[Leaker]
<1>1. /\ Leaker \in Thread /\ pc \in [Thread -> {"idle"} \cup InCall \cup InCommand]
      /\ call \in [Thread -> Call \cup {NoCall}] /\ heap \subseteq Addr
      /\ Null \notin Addr /\ Addr \subseteq Pointer /\ Null \in Pointer
  BY LeakerIsThread, ConstantTypes, LedgerAssumption DEF LeaksTypes, TypeInv, Types
<1>2. \A fn \in HeapFunction : hooks[fn] = "single"
  BY DEF CaptureControl, HooksMatch, HooksAre, Stored
<1>3. pc[Leaker] \in {"idle", "libc", "check"} /\ (pc[Leaker] # "idle" => c.hook = "single")
        /\ (pc[Leaker] = "libc" => c.result = Null)
  BY DEF LeakerInv
<1>4. CASE BeginCall(Leaker)
  <2>1. PICK fn \in HeapFunction, site \in Site \cup {NoCall}, arg \in held \cup {Null}, size \in Nat :
          Enter(Leaker, fn, site, arg, size)
    BY <1>4, ConstantTypes DEF BeginCall, HeapFunction, StoreOrder
  <2> QED
    BY <1>1, <1>2, <1>4, <2>1 DEF BeginCall, Enter, GoTo
<1>5. CASE LibcMalloc(Leaker) \/ LibcRealloc(Leaker) \/ LibcFree(Leaker)
  <2>1. pc[Leaker] = "libc" /\ c \in Call
    BY <1>1, <1>5 DEF LibcMalloc, LibcRealloc, LibcFree, LeaksTypes, TypeInv, InCallHasCall, InCall
  <2>2. \A a \in Fresh : a \in Pointer /\ a \notin heap
    BY <1>1 DEF Fresh
  <2>3. PICK a \in Pointer :
          /\ Libc(Leaker, [c EXCEPT !.result = a])
          /\ c.fn \in Acquiring => a \notin heap
          /\ c.fn = "free" => a = Null
    <3>1. CASE LibcMalloc(Leaker)
      BY <2>2, <3>1 DEF LibcMalloc, Acquiring
    <3>2. CASE LibcRealloc(Leaker)
      <4>1. c.arg \in Pointer
        BY <2>1, CallParts
      <4> QED BY <1>1, <2>2, <3>2, <4>1 DEF LibcRealloc, Acquiring
    <3>3. CASE LibcFree(Leaker)
      <4>1. c = [c EXCEPT !.result = Null]
        BY <1>3, <2>1 DEF Call
      <4> QED BY <1>1, <3>3, <4>1 DEF LibcFree, Acquiring
    <3> QED BY <1>5, <3>1, <3>2, <3>3
  <2> DEFINE done == [c EXCEPT !.result = a]
  <2>4. done.hook = "single" /\ done.result = a
    BY <1>3, <2>1 DEF Call
  <2>5. /\ GoTo(Leaker, "check") /\ call' = [call EXCEPT ![Leaker] = done]
        /\ heap' = (heap \ ReleasedBy(done)) \cup ({a} \ {Null})
        /\ UNCHANGED <<worker_request_queue, watching_thread>>
    <3> HIDE DEF done
    <3>1. Libc(Leaker, done)
      BY <2>3 DEF done
    <3> QED BY <2>4, <3>1 DEF Libc
  <2>6. pc'[Leaker] = "check" /\ call'[Leaker] = done
    BY <1>1, <2>5 DEF GoTo
  <2> QED
    BY <1>3, <2>1, <2>3, <2>5, <2>6
<1>6. ~(CheckUnwatched(Leaker) \/ CheckWatched(Leaker) \/ CountKnownLeak(Leaker) \/ EnqueueRecord(Leaker))
  BY <1>3 DEF CheckUnwatched, CheckWatched, CountKnownLeak, EnqueueRecord
<1> QED
  BY <1>4, <1>5, <1>6 DEF HeapCall

(* What a step does to the thread of std::async and to the map it fills. *)
LEMMA LeakerMoves ==
  ASSUME LeaksTypes, CaptureControl, LeakerInv, LeaksNext
  PROVE  \/ ThreadStays(Leaker) /\ UNCHANGED <<single_vars, leaking>>
         \/ leaking = "run" /\ HeapCall(Leaker) /\ UNCHANGED <<single_vars, leaking>>
         \/ leaking = "run" /\ pc[Leaker] = "check" /\ UNCHANGED leaking
              /\ (SingleUnwatched(Leaker) \/ SingleWatched(Leaker))
         \/ /\ leaking = "none" /\ leaking' = "begin" /\ ThreadStays(Leaker)
            /\ single_threaded_allocations' = [a \in Pointer |-> NoRecord]
            /\ UNCHANGED watched_single_thread_id
         \/ /\ leaking = "ended" /\ leaking' \in {"none", "ended"} /\ ThreadStays(Leaker)
            /\ UNCHANGED watched_single_thread_id
         \/ /\ LeakerStep /\ ThreadStays(Leaker) /\ UNCHANGED <<heap, single_threaded_allocations, pc>>
<1>1. /\ Leaker \in Thread /\ Leaker \notin Commander /\ TypeInv
      /\ pc \in [Thread -> {"idle"} \cup InCall \cup InCommand]
      /\ call \in [Thread -> Call \cup {NoCall}]
  BY LeakerIsThread DEF LeaksTypes, TypeInv, Types
<1>2. pc[Leaker] \in {"idle", "libc", "check"} /\ (pc[Leaker] # "idle" => leaking = "run")
  BY DEF LeakerInv
<1>3. CASE WatcherStep
  <2>1. UNCHANGED <<single_vars, leaking>>
    BY <1>3 DEF WatcherStep, leaker_vars
  <2>2. CASE \E t \in Thread \ {Leaker} : ThreadStep(t)
    BY <1>1, <2>1, <2>2, OthersStay
  <2>3. CASE Worker
    <3>1. PICK t \in Thread : WorkerHandles(t)
      BY <2>3 DEF Worker
    <3>2. t # Leaker
      BY <3>1 DEF WorkerHandles, Ready, LeakerInv
    <3> QED
      BY <1>1, <2>1, <3>1, <3>2 DEF WorkerHandles, ThreadStays, TypeInv, Types
  <2> QED
    BY <1>3, <2>1, <2>2, <2>3 DEF WatcherStep
<1>4. CASE SingleStep
  <2>1. PICK t \in Thread : SingleUnwatched(t) \/ SingleWatched(t)
    BY <1>4 DEF SingleStep
  <2>2. UNCHANGED leaking
    BY <1>4 DEF SingleStep, leaker_vars
  <2>3. /\ pc[t] = "check" /\ ReturnUnrecorded(t, call[t])
        /\ UNCHANGED <<worker_request_queue, watching_thread>>
    BY <2>1, SingleFrame DEF unchanged_by_single
  <2>4. CASE t = Leaker
    BY <1>2, <2>1, <2>2, <2>3, <2>4
  <2>5. CASE t # Leaker
    <3>1. ThreadStays(Leaker)
      BY <1>1, <2>3, <2>5 DEF ReturnUnrecorded, Return, GoTo, ThreadStays
    <3>2. CASE SingleUnwatched(t)
      BY <2>2, <3>1, <3>2 DEF SingleUnwatched
    <3>3. CASE SingleWatched(t)
      BY <2>5, <3>3, WatcherAssumption DEF SingleWatched, WatchedSingly, LeakerInv
    <3> QED BY <2>1, <3>2, <3>3
  <2> QED BY <2>4, <2>5
<1>5. ASSUME NEW t \in Thread, CallCapture(t) \/ CaptureStep(t)
      PROVE  \/ ThreadStays(Leaker) /\ UNCHANGED <<single_vars, leaking>>
             \/ /\ leaking = "none" /\ leaking' = "begin" /\ ThreadStays(Leaker)
                /\ single_threaded_allocations' = [a \in Pointer |-> NoRecord]
                /\ UNCHANGED watched_single_thread_id
             \/ /\ leaking = "ended" /\ leaking' \in {"none", "ended"} /\ ThreadStays(Leaker)
                /\ UNCHANGED watched_single_thread_id
  <2>1. t # Leaker
    BY <1>1, <1>2, <1>5 DEF CallCapture, CaptureStep, CaptureLock, CaptureLeak, CaptureReturn, Issue
  <2>2. UNCHANGED <<call, worker_request_queue, watching_thread>>
    BY <1>5 DEF CallCapture, CaptureStep, CaptureLock, CaptureLeak, CaptureReturn,
                unchanged_by_capture, unchanged_by_commands
  <2>3. UNCHANGED pc \/ \E place : pc' = [pc EXCEPT ![t] = place]
    BY <1>5 DEF CallCapture, CaptureStep, CaptureLock, CaptureLeak, CaptureReturn, GoTo
  <2>4. ThreadStays(Leaker)
    BY <1>1, <2>1, <2>2, <2>3 DEF ThreadStays
  <2>5. CASE CallCapture(t)
    BY <2>4, <2>5 DEF CallCapture, leaker_vars
  <2>6. CASE CaptureLock(t)
    <3>1. leaking = "none"
      BY <2>6, OneInside DEF CaptureLock
    <3> QED BY <2>4, <2>6, <3>1 DEF CaptureLock, single_vars, leaker_vars
  <2>7. CASE CaptureLeak(t) \/ CaptureReturn(t)
    BY <2>4, <2>7 DEF CaptureLeak, CaptureReturn, leaker_vars, single_vars
  <2> QED BY <1>5, <2>5, <2>6, <2>7 DEF CaptureStep
<1>6. CASE LeakerStep
  <2>1. UNCHANGED unchanged_by_leaker
    BY <1>6 DEF LeakerStep, LeakerBegins, LeakerStoresHook, LeakerWatches, LeakerLowersFlag, LeakerEnds
  <2> QED
    BY <1>6, <2>1 DEF unchanged_by_leaker, unchanged_by_capture, unchanged_by_commands, ThreadStays
<1> QED
  BY <1>3, <1>4, <1>5, <1>6 DEF LeaksNext

(* How far a capture comes in a step of the thread of std::async. *)
LEMMA LeakerAdvances ==
  ASSUME LeakerStep
  PROVE  /\ leaking # "none" /\ leaking' # "begin"
         /\ leaking = "begin" => leaking' = "install" /\ watched_single_thread_id' = Leaker
         /\ leaking # "begin" => UNCHANGED watched_single_thread_id
         /\ leaking = "run" => leaking' \in {"remove", "ended"} /\ pc[Leaker] = "idle"
         /\ leaking' \in {"install", "run", "remove"} => leaking \in {"begin", "install", "run", "remove"}
BY DEF LeakerStep, LeakerBegins, LeakerStoresHook, LeakerWatches, LeakerLowersFlag, LeakerEnds

LEMMA LeakerInvStep ==
  ASSUME LeaksTypes, CaptureControl, LeakerInv, [LeaksNext]_leaks_vars
  PROVE  LeakerInv'
<1>1. CASE UNCHANGED leaks_vars
  <2>1. ThreadStays(Leaker) /\ UNCHANGED <<leaking, watched_single_thread_id>>
    BY <1>1 DEF leaks_vars, vars, leaker_vars, single_vars, ThreadStays
  <2> QED BY <2>1 DEF LeakerInv, ThreadStays
<1>2. CASE LeaksNext
  <2>1. CASE /\ ThreadStays(Leaker) /\ UNCHANGED watched_single_thread_id
             /\ UNCHANGED leaking \/ leaking \in {"none", "ended"}
    BY <2>1 DEF LeakerInv, ThreadStays
  <2>2. CASE leaking = "run" /\ HeapCall(Leaker) /\ UNCHANGED <<single_vars, leaking>>
    <3>1. \A a \in Pointer : call[Leaker] \in Call => [call[Leaker] EXCEPT !.result = a].hook = call[Leaker].hook
      BY DEF Call
    <3> QED BY <2>2, <3>1, LeakerCalls DEF LeakerInv, single_vars
  <2>3. CASE leaking = "run" /\ UNCHANGED leaking /\ (SingleUnwatched(Leaker) \/ SingleWatched(Leaker))
    <3>1. /\ ReturnUnrecorded(Leaker, call[Leaker])
          /\ UNCHANGED <<worker_request_queue, watched_single_thread_id>>
      BY <2>3, SingleFrame, LeakerIsThread DEF unchanged_by_single
    <3>2. pc'[Leaker] = "idle"
      BY <3>1, LeakerIsThread DEF ReturnUnrecorded, Return, GoTo, LeaksTypes, TypeInv, Types
    <3> QED BY <3>1, <3>2 DEF LeakerInv
  <2>4. CASE LeakerStep /\ ThreadStays(Leaker)
    BY <2>4, LeakerAdvances DEF LeakerInv, ThreadStays
  <2> QED
    BY <1>2, <2>1, <2>2, <2>3, <2>4, LeakerMoves DEF single_vars
<1> QED BY <1>1, <1>2

LEMMA CaptureInvHolds == LeaksSpec => [](LeaksTypes /\ CaptureInv)
<1>1. LeaksInit => CaptureInv
  <2>1. LeaksInit => LeakerInv
    BY LeakerIsThread DEF LeaksInit, Init, InitWith, LeakerInv
  <2> QED BY <2>1, CaptureControlInit DEF CaptureInv
<1>2. CaptureInv /\ LeaksTypes /\ [LeaksNext]_leaks_vars => CaptureInv'
  BY CaptureControlStep, LeakerInvStep DEF CaptureInv
<1> QED
  BY <1>1, <1>2, LeaksTypesHold, PTL DEF LeaksSpec

(***************************************************************************)
(* A capture is all that is going on: no session is open or being opened   *)
(* or closed when it swaps the hooks, and nothing the leaking function     *)
(* allocates is ever queued for the worker.                                *)
(***************************************************************************)
THEOREM CapturesAreAlone == LeaksSpec => []CaptureIsAlone
<1>1. CaptureInv => CaptureIsAlone
  <2> SUFFICES ASSUME CaptureInv
               PROVE  CaptureIsAlone
    OBVIOUS
  <2>1. CaptureControl /\ LockHeld /\ LeakingInside /\ HooksMatch
    BY DEF CaptureInv, CaptureControl
  <2>2. leaking # "none" => \E t \in Thread : command_mutex = t /\ pc[t] = "leak"
    BY <2>1 DEF LockHeld, LeakingInside
  <2>3. leaking \in {"begin", "install"} => ~watching_globally /\ "multi" \notin Reach
    BY <2>1, ReachOf DEF HooksMatch, HooksAre
  <2>4. worker_request_queue[Leaker] = <<>>
    BY DEF CaptureInv, LeakerInv
  <2> QED
    BY <2>1, <2>2, <2>3, <2>4 DEF CaptureIsAlone, LockHeld
<1> QED
  BY <1>1, CaptureInvHolds, PTL

-----------------------------------------------------------------------------
(***************************************************************************)
(* The single-threaded map.  At an address that has not strayed it can be  *)
(* ahead of or behind the heap only while the leaking function is between  *)
(* the C library and the single-threaded function that records the call.   *)
(***************************************************************************)
ExactAt(a) == single_threaded_allocations[a] # NoRecord <=> a \in leaked

AcquiringAt(a) == pc[Leaker] = "check" /\ call[Leaker].fn \in Acquiring /\ call[Leaker].result = a
ReleasingAt(a) == pc[Leaker] = "check" /\ call[Leaker].fn = "free" /\ call[Leaker].arg = a
StrayingAt(a)  == pc[Leaker] = "check" /\ call[Leaker].fn = "realloc"
                    /\ a \in {call[Leaker].arg, call[Leaker].result}

MapInv ==
  /\ watching_thread[Leaker]
  /\ leaking \in {"install", "run", "remove"} => watched_single_thread_id = Leaker
  /\ leaking = "begin" => leaked = {} /\ strayed = {}
  /\ leaking \in {"begin", "install", "run", "remove"} =>
       \A a \in Addr \ strayed :
         /\ AcquiringAt(a) => a \in leaked
         /\ ReleasingAt(a) => a \notin leaked
         /\ ~StrayingAt(a)
         /\ ~AcquiringAt(a) /\ ~ReleasingAt(a) => ExactAt(a)

(* While the thread of std::async rests or makes a step of its own, the    *)
(* map can only fall behind at addresses that stray.                       *)
LEMMA MapKept ==
  ASSUME LeaksTypes, MapInv, WatchLeaker, UNCHANGED single_threaded_allocations,
         UNCHANGED <<pc[Leaker], call[Leaker], leaking>>
  PROVE  leaking \in {"begin", "install", "run", "remove"} =>
           \A a \in Addr \ strayed' :
             /\ AcquiringAt(a)' => a \in leaked'
             /\ ReleasingAt(a)' => a \notin leaked'
             /\ ~StrayingAt(a)'
             /\ ~AcquiringAt(a)' /\ ~ReleasingAt(a)' => ExactAt(a)'
<1> SUFFICES ASSUME leaking \in {"begin", "install", "run", "remove"}, NEW a \in Addr \ strayed'
             PROVE  /\ AcquiringAt(a)' => a \in leaked'
                    /\ ReleasingAt(a)' => a \notin leaked'
                    /\ ~StrayingAt(a)'
                    /\ ~AcquiringAt(a)' /\ ~ReleasingAt(a)' => ExactAt(a)'
  OBVIOUS
<1>1. \A fns : ~LeakerCall(fns)
  BY DEF LeakerCall
<1>2. CASE leaking = "begin"
  BY <1>2 DEF MapInv, WatchLeaker, ExactAt, AcquiringAt, ReleasingAt, StrayingAt
<1>3. CASE leaking # "begin"
  <2>1. leaked' = leaked \cap heap' /\ strayed' = strayed \cup (heap \ heap')
    BY <1>1, <1>3 DEF WatchLeaker
  <2>2. leaked \subseteq heap
    BY DEF LeaksTypes, LeaksTypeOK
  <2>3. a \notin strayed /\ (a \in leaked' <=> a \in leaked)
    BY <2>1, <2>2
  <2> QED
    BY <2>3 DEF MapInv, ExactAt, AcquiringAt, ReleasingAt, StrayingAt
<1> QED BY <1>2, <1>3

(* A step of the C library for the leaking function: the block it hands    *)
(* out is the function's, the block it takes back is no longer.            *)
LEMMA LeakerCallMap ==
  ASSUME LeaksTypes, CaptureInv, MapInv, WatchLeaker, leaking = "run", HeapCall(Leaker),
         UNCHANGED <<single_vars, leaking>>
  PROVE  MapInv'
<1> DEFINE c    == call[Leaker]
           done == call'[Leaker]
<1>1. Null \notin Addr /\ leaked \subseteq heap /\ heap \subseteq Addr
  BY LedgerAssumption DEF LeaksTypes, LeaksTypeOK, TypeInv, Types
<1>2. \/ /\ pc[Leaker] = "idle" /\ pc'[Leaker] = "libc"
         /\ UNCHANGED <<heap, worker_request_queue, watching_thread>>
      \/ /\ pc[Leaker] = "libc" /\ pc'[Leaker] = "check" /\ c \in Call
         /\ \E a \in Pointer :
              /\ done = [c EXCEPT !.result = a]
              /\ heap' = (heap \ ReleasedBy(done)) \cup ({a} \ {Null})
              /\ c.fn \in Acquiring => a \notin heap
              /\ c.fn = "free" => a = Null
         /\ UNCHANGED <<worker_request_queue, watching_thread>>
  BY LeakerCalls DEF CaptureInv
<1>3. UNCHANGED <<watching_thread, single_threaded_allocations, watched_single_thread_id, leaking>>
  BY <1>2 DEF single_vars
<1>4. CASE pc[Leaker] = "idle"
  <2>1. \A fns : ~LeakerCall(fns)
    BY <1>4 DEF LeakerCall
  <2>2. leaked' = leaked /\ strayed' = strayed
    BY <1>1, <1>2, <1>3, <1>4, <2>1 DEF WatchLeaker
  <2> QED
    BY <1>2, <1>3, <1>4, <2>2 DEF MapInv, ExactAt, AcquiringAt, ReleasingAt, StrayingAt
<1>5. CASE pc[Leaker] = "libc"
  <2>1. PICK r \in Pointer :
          /\ done = [c EXCEPT !.result = r]
          /\ heap' = (heap \ ReleasedBy(done)) \cup ({r} \ {Null})
          /\ c.fn \in Acquiring => r \notin heap
          /\ c.fn = "free" => r = Null
    BY <1>2, <1>5
  <2>2. pc'[Leaker] = "check" /\ c \in Call
    BY <1>2, <1>5
  <2>3. done.fn = c.fn /\ done.arg = c.arg /\ done.result = r /\ c.fn \in HeapFunction
    BY <2>1, <2>2 DEF Call
  <2>4. \A fns : LeakerCall(fns) <=> c.fn \in fns
    BY <1>5, <2>2 DEF LeakerCall
  <2> HIDE DEF c, done
  <2>5. \A a \in Addr \ strayed : ExactAt(a)
    BY <1>5, LeakerIsThread DEF MapInv, AcquiringAt, ReleasingAt
  <2>6. /\ leaked' = (leaked \cap heap') \cup (IF c.fn \in Acquiring THEN heap' \ heap ELSE {})
        /\ strayed' = strayed \cup (CASE c.fn = "realloc" -> Addr \cap {c.arg, r}
                                      [] c.fn = "free"    -> {}
                                      [] OTHER            -> heap \ heap')
    BY <1>3, <2>3, <2>4 DEF WatchLeaker, c, done
  <2>7. c.fn \in Acquiring \/ c.fn = "realloc" \/ c.fn = "free"
    BY <2>3 DEF HeapFunction, StoreOrder, Acquiring
  <2>8. ASSUME NEW a \in Addr \ strayed'
        PROVE  /\ AcquiringAt(a)' => a \in leaked'
               /\ ReleasingAt(a)' => a \notin leaked'
               /\ ~StrayingAt(a)'
               /\ ~AcquiringAt(a)' /\ ~ReleasingAt(a)' => ExactAt(a)'
    <3>1. a \notin strayed /\ (single_threaded_allocations[a] # NoRecord <=> a \in leaked)
      BY <2>5, <2>6, <2>8 DEF ExactAt
    <3>2. /\ AcquiringAt(a)' <=> c.fn \in Acquiring /\ r = a
          /\ ReleasingAt(a)' <=> c.fn = "free" /\ c.arg = a
          /\ StrayingAt(a)' <=> c.fn = "realloc" /\ a \in {c.arg, r}
      BY <2>2, <2>3 DEF AcquiringAt, ReleasingAt, StrayingAt, done
    <3>3. ExactAt(a)' <=> (single_threaded_allocations[a] # NoRecord <=> a \in leaked')
      BY <1>3 DEF ExactAt
    <3>4. CASE c.fn \in Acquiring
      <4>1. ReleasedBy(done) = {} /\ c.fn # "free" /\ c.fn # "realloc"
        BY <2>3, <3>4 DEF ReleasedBy, Acquiring
      <4>2. heap' = heap \cup ({r} \ {Null}) /\ r \notin heap
        BY <2>1, <3>4, <4>1
      <4>3. leaked' = (leaked \cap heap') \cup (heap' \ heap)
        BY <2>6, <3>4
      <4>4. a \in leaked' <=> (a \in leaked \/ a = r)
        BY <1>1, <2>8, <4>2, <4>3
      <4> QED BY <3>1, <3>2, <3>3, <3>4, <4>1, <4>4
    <3>5. CASE c.fn = "realloc"
      <4>1. ReleasedBy(done) \subseteq {c.arg} /\ c.fn \notin Acquiring
        BY <2>3, <3>5 DEF ReleasedBy, Acquiring
      <4>2. a # c.arg /\ a # r
        BY <2>6, <2>8, <3>5
      <4>3. a \in leaked' <=> a \in leaked
        BY <1>1, <2>1, <2>6, <4>1, <4>2
      <4> QED BY <3>1, <3>2, <3>3, <3>5, <4>1, <4>2, <4>3
    <3>6. CASE c.fn = "free"
      <4>1. ReleasedBy(done) = {c.arg} \ {Null} /\ c.fn \notin Acquiring /\ c.fn # "realloc"
        BY <2>3, <3>6 DEF ReleasedBy, Acquiring
      <4>2. heap' = heap \ {c.arg}
        BY <1>1, <2>1, <3>6, <4>1
      <4>3. leaked' = leaked \cap heap'
        BY <2>6, <4>1
      <4>4. a \in leaked' <=> (a \in leaked /\ a # c.arg)
        BY <1>1, <4>2, <4>3
      <4> QED BY <3>1, <3>2, <3>3, <3>6, <4>1, <4>4
    <3> QED BY <2>7, <3>4, <3>5, <3>6
  <2> QED
    BY <1>3, <2>8 DEF MapInv
<1> QED BY <1>2, <1>4, <1>5

(* The single-threaded function records the call: now it is exact again.   *)
LEMMA SingleCallMap ==
  ASSUME LeaksTypes, CaptureInv, MapInv, WatchLeaker, leaking = "run", pc[Leaker] = "check",
         UNCHANGED leaking, SingleUnwatched(Leaker) \/ SingleWatched(Leaker)
  PROVE  MapInv'
<1> DEFINE c == call[Leaker]
<1>1. /\ Leaker \in Thread /\ c \in Call /\ (c.fn \in Acquiring => c.site \in Site)
      /\ single_threaded_allocations \in SingleMap /\ NoRecord \notin Site
      /\ Addr \subseteq Pointer /\ leaked \subseteq heap
  BY LeakerIsThread, ConstantTypes, KnownLeaksAssumption
  DEF LeaksTypes, LeaksTypeOK, SitesKnown, TypeInv, InCallHasCall, InCall
<1>2. /\ UNCHANGED <<heap, watching_thread, watched_single_thread_id>> /\ ReturnUnrecorded(Leaker, c)
  BY <1>1, SingleFrame DEF unchanged_by_single
<1>3. pc'[Leaker] = "idle"
  BY <1>1, <1>2 DEF ReturnUnrecorded, Return, GoTo, LeaksTypes, TypeInv, Types
<1>4. \A fns : ~LeakerCall(fns)
  BY DEF LeakerCall
<1>5. leaked' = leaked /\ strayed' = strayed
  BY <1>1, <1>2, <1>4 DEF WatchLeaker
<1>6. SingleRecord(c)
  BY DEF SingleUnwatched, SingleWatched, WatchedSingly, MapInv
<1>7. c.arg \in Pointer /\ c.result \in Pointer
  BY <1>1, CallParts
<1> HIDE DEF c
<1>8. ASSUME NEW a \in Addr \ strayed
      PROVE  ExactAt(a)'
  <2>1. /\ c.fn \in Acquiring /\ c.result = a => a \in leaked
        /\ c.fn = "free" /\ c.arg = a => a \notin leaked
        /\ ~(c.fn = "realloc" /\ a \in {c.arg, c.result})
        /\ ~(c.fn \in Acquiring /\ c.result = a) /\ ~(c.fn = "free" /\ c.arg = a) => ExactAt(a)
    BY DEF MapInv, AcquiringAt, ReleasingAt, StrayingAt, c
  <2>2. a \in Pointer
    BY <1>1
  <2>3. CASE c.fn \in Acquiring
    <3>1. /\ single_threaded_allocations' = Emplace(single_threaded_allocations, c.result, c.site)
          /\ c.fn # "free"
      BY <1>6, <2>3 DEF SingleRecord, Acquiring
    <3> QED
      BY <1>1, <1>5, <1>7, <2>1, <2>2, <2>3, <3>1 DEF Emplace, ExactAt, SingleMap
  <2>4. CASE c.fn = "free"
    <3>1. /\ single_threaded_allocations' = Erase(single_threaded_allocations, c.arg)
          /\ c.fn \notin Acquiring
      BY <1>6, <2>4 DEF SingleRecord, Acquiring
    <3> QED
      BY <1>1, <1>5, <1>7, <2>1, <2>2, <2>4, <3>1 DEF Erase, ExactAt, SingleMap
  <2>5. CASE c.fn = "realloc"
    <3>1. a # c.arg /\ a # c.result /\ ExactAt(a)
      BY <2>1, <2>5 DEF Acquiring
    <3>2. \/ UNCHANGED single_threaded_allocations
          \/ \E trace \in Site : single_threaded_allocations' =
               Emplace(Erase(single_threaded_allocations, c.arg), c.result, trace)
      BY <1>6, <2>5 DEF SingleRecord, Acquiring
    <3>3. single_threaded_allocations'[a] = single_threaded_allocations[a]
      BY <1>1, <2>2, <3>1, <3>2 DEF Emplace, Erase, SingleMap
    <3> QED BY <1>5, <3>1, <3>3 DEF ExactAt
  <2> QED
    BY <1>6, <2>3, <2>4, <2>5 DEF SingleRecord
<1> QED
  BY <1>2, <1>3, <1>5, <1>8 DEF MapInv, AcquiringAt, ReleasingAt, StrayingAt

LEMMA MapStep ==
  ASSUME LeaksTypes, CaptureInv, MapInv, [LeaksNext]_leaks_vars
  PROVE  MapInv'
<1>1. CASE UNCHANGED leaks_vars
  <2>1. /\ ThreadStays(Leaker) /\ UNCHANGED <<leaking, leaked, strayed>>
        /\ UNCHANGED <<single_threaded_allocations, watched_single_thread_id>>
    BY <1>1 DEF leaks_vars, vars, leaker_vars, single_vars, watch_vars, ThreadStays
  <2> QED
    BY <2>1 DEF MapInv, ExactAt, AcquiringAt, ReleasingAt, StrayingAt, ThreadStays
<1>2. CASE LeaksNext
  <2>1. WatchLeaker /\ CaptureControl /\ LeakerInv
    BY <1>2 DEF LeaksNext, CaptureInv
  <2>2. CASE ThreadStays(Leaker) /\ UNCHANGED <<single_vars, leaking>>
    <3>1. /\ UNCHANGED <<pc[Leaker], call[Leaker], leaking, single_threaded_allocations>>
          /\ UNCHANGED <<watched_single_thread_id, watching_thread[Leaker]>>
      BY <2>2 DEF ThreadStays, single_vars
    <3>2. leaking = "begin" => leaked' = {} /\ strayed' = {}
      BY <2>1, <3>1 DEF WatchLeaker
    <3> QED BY <2>1, <3>1, <3>2, MapKept DEF MapInv
  <2>3. CASE leaking = "run" /\ HeapCall(Leaker) /\ UNCHANGED <<single_vars, leaking>>
    BY <2>1, <2>3, LeakerCallMap
  <2>4. CASE leaking = "run" /\ pc[Leaker] = "check" /\ UNCHANGED leaking
              /\ (SingleUnwatched(Leaker) \/ SingleWatched(Leaker))
    BY <2>1, <2>4, SingleCallMap
  <2>5. CASE /\ leaking = "none" /\ leaking' = "begin" /\ ThreadStays(Leaker)
             /\ single_threaded_allocations' = [a \in Pointer |-> NoRecord]
    <3>1. pc'[Leaker] = "idle" /\ watching_thread'[Leaker] = watching_thread[Leaker]
      BY <2>1, <2>5 DEF LeakerInv, ThreadStays
    <3>2. leaked' = {} /\ strayed' = {} /\ Addr \subseteq Pointer
      BY <2>1, <2>5, ConstantTypes DEF WatchLeaker
    <3>3. \A a \in Addr : ExactAt(a)'
      BY <2>5, <3>2 DEF ExactAt
    <3> QED
      BY <2>5, <3>1, <3>2, <3>3 DEF MapInv, AcquiringAt, ReleasingAt, StrayingAt
  <2>6. CASE leaking = "ended" /\ leaking' \in {"none", "ended"} /\ ThreadStays(Leaker)
    BY <2>6 DEF MapInv, ThreadStays
  <2>7. CASE LeakerStep /\ ThreadStays(Leaker) /\ UNCHANGED <<heap, single_threaded_allocations, pc>>
    <3>1. /\ leaking # "none" /\ leaking' # "begin"
          /\ leaking' \in {"install", "run", "remove"} => watched_single_thread_id' = Leaker
          /\ leaking' \in {"install", "run", "remove"} => leaking \in {"begin", "install", "run", "remove"}
      BY <2>7, LeakerAdvances DEF MapInv
    <3>2. leaked' = leaked /\ strayed' = strayed
      <4>1. \A fns : ~LeakerCall(fns)
        BY <2>7 DEF LeakerCall
      <4>2. leaked \subseteq heap
        BY DEF LeaksTypes, LeaksTypeOK
      <4> QED BY <2>1, <2>7, <3>1, <4>1, <4>2 DEF WatchLeaker
    <3> QED
      BY <2>7, <3>1, <3>2 DEF MapInv, ExactAt, AcquiringAt, ReleasingAt, StrayingAt, ThreadStays
  <2> QED
    BY <1>2, <2>1, <2>2, <2>3, <2>4, <2>5, <2>6, <2>7, LeakerMoves
<1> QED BY <1>1, <1>2

(***************************************************************************)
(* The single-threaded map has, between two calls of the leaking function, *)
(* exactly its live blocks; what strayed is excepted, no more.             *)
(***************************************************************************)
THEOREM MapIsLiveBlocks == LeaksSpec => []SingleMapIsExact
<1>1. LeaksInit => MapInv
  BY LeakerIsThread DEF LeaksInit, Init, InitWith, MapInv
<1>2. LeaksTypes /\ CaptureInv /\ MapInv /\ [LeaksNext]_leaks_vars => MapInv'
  BY MapStep
<1>3. MapInv => SingleMapIsExact
  BY DEF MapInv, SingleMapIsExact, ExactAt, AcquiringAt, ReleasingAt
<1> QED
  BY <1>1, <1>2, <1>3, CaptureInvHolds, PTL DEF LeaksSpec
=============================================================================
