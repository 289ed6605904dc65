---------------------------- MODULE WatcherProofs ---------------------------
(***************************************************************************)
(* Proofs about the commands and the hook table, for any set of threads,   *)
(* any mix of calls and commands and any bounds, from the inductive        *)
(* invariant HookInv.                                                      *)
(***************************************************************************)
EXTENDS HeapWatcher, LedgerTheorems

(* Stores only ever put in a hook of the kind being installed. *)
LEMMA StoreKeepsType ==
  ASSUME hooks \in [HeapFunction -> Hook], NEW target \in {"libc", "multi"},
         Between("multi"), StoreHook(target)
  PROVE  /\ hooks' \in [HeapFunction -> Hook]
         /\ Between("multi")'
         /\ target \in Reach'
BY DEF StoreHook, Between, HeapFunction, Reach, Hook

(* The steps of a heap function leave the commands' state alone. *)
LEMMA HeapCallControl ==
  ASSUME NEW t \in Thread, HeapCall(t)
  PROVE  /\ UNCHANGED hook_vars
         /\ pc[t] \notin InCommand
         /\ \E place \in {"idle"} \cup InCall : pc' = [pc EXCEPT ![t] = place]
<1>1. CASE BeginCall(t)
  BY <1>1 DEF BeginCall, Enter, GoTo, InCall, InCommand
<1>2. ASSUME NEW c, Libc(t, c), pc[t] = "libc"
      PROVE  /\ UNCHANGED hook_vars
             /\ pc[t] \notin InCommand
             /\ \E place \in {"idle"} \cup InCall : pc' = [pc EXCEPT ![t] = place]
  BY <1>2 DEF Libc, ReturnUnrecorded, Return, GoTo, InCall, InCommand
<1>3. CASE LibcMalloc(t) \/ LibcRealloc(t) \/ LibcFree(t)
  <2>1. pc[t] = "libc" /\ \E c : Libc(t, c)
    BY <1>3 DEF LibcMalloc, LibcRealloc, LibcFree
  <2> QED BY <1>2, <2>1
<1>4. CASE CheckUnwatched(t) \/ CheckWatched(t)
  BY <1>4 DEF CheckUnwatched, CheckWatched, ReturnUnrecorded, Return, GoTo, InCall, InCommand,
              hook_vars
<1>5. CASE CountKnownLeak(t) \/ EnqueueRecord(t)
  <2>1. pc[t] \in InCall /\ pc[t] \notin InCommand /\ UNCHANGED hook_vars /\ GoTo(t, "idle")
    BY <1>5 DEF CountKnownLeak, EnqueueRecord, ReturnUnrecorded, Return, InCall, InCommand
  <2> QED BY <2>1 DEF GoTo
<1> QED
  BY <1>1, <1>3, <1>4, <1>5 DEF HeapCall

(* What a step of any kind has to show. *)
ModeStep == [Modes!ModeNext]_<<Mode, Reach>>

(* A step outside of the mutex that leaves the commands' state alone keeps *)
(* the invariant and the mode.                                             *)
LEMMA ControlFrame ==
  ASSUME HookInv, NEW t \in Thread, UNCHANGED hook_vars,
         pc[t] \notin InMutex,
         NEW place \in Place \ InMutex, pc' = [pc EXCEPT ![t] = place]
  PROVE  HookInv' /\ ModeStep
<1>1. pc \in [Thread -> Place] /\ command_mutex \in Thread \cup {NoThread} /\ NoThread \notin Thread
  BY WatcherAssumption DEF HookInv, ControlType
<1>2. \A u \in Thread : (pc'[u] \in InMutex <=> pc[u] \in InMutex) /\ (u # t => pc'[u] = pc[u])
  BY <1>1
<1>3. HookInv'
  BY <1>1, <1>2 DEF HookInv, ControlType, MutexHeld, FlagMatchesHooks, Stored, Between, hook_vars, InMutex
<1>4. command_mutex # t
  BY DEF HookInv, MutexHeld
<1> QED
  BY <1>1, <1>2, <1>3, <1>4 DEF ModeStep, Mode, Reach, hook_vars

(* A step that moves no thread and leaves the hook table alone keeps both. *)
LEMMA ControlStutter ==
  ASSUME HookInv, UNCHANGED <<hook_vars, pc>>
  PROVE  HookInv' /\ ModeStep
<1>1. HookInv'
  BY DEF HookInv, ControlType, MutexHeld, FlagMatchesHooks, Stored, Between, hook_vars
<1> QED
  BY <1>1 DEF ModeStep, Mode, Reach, hook_vars

(* The kinds the hook table leads to, from what is stored in it. *)
LEMMA ReachOf ==
  ASSUME NEW kind
  PROVE  /\ Stored(kind) <=> Reach = {kind}
         /\ Between(kind) <=> Reach \subseteq {"libc", kind}
BY DEF Stored, Between, Reach, HeapFunction, StoreOrder

(* Every hook is of a kind, and there is one. *)
LEMMA ReachIsAny == Reach # {}
BY DEF Reach, HeapFunction, StoreOrder

(***************************************************************************)
(* Each step of a command keeps the invariant, and takes WatchModes        *)
(* through one step of its own or none.                                    *)
(***************************************************************************)
LEMMA CommandControl ==
  ASSUME HookInv, NEW t \in Thread, CommandStep(t)
  PROVE  HookInv' /\ ModeStep
<1> USE DEF HookInv, ControlType, MutexHeld, FlagMatchesHooks
<1>1. /\ pc \in [Thread -> Place] /\ hooks \in [HeapFunction -> Hook]
      /\ command_mutex \in Thread \cup {NoThread} /\ NoThread \notin Thread
      /\ watching_globally \in BOOLEAN
  BY WatcherAssumption
<1>2. \A u, v \in Thread : pc[u] \in InMutex /\ pc[v] \in InMutex => u = v
  OBVIOUS
<1> DEFINE Step(place) == pc' = [pc EXCEPT ![t] = place]
<1>3. CASE StartLock(t)
  <2>1. CASE watching_globally
    BY <1>1, <1>3, <2>1, ControlFrame
    DEF StartLock, AlreadyWatching, GoTo, Place, InMutex, InCall, InCommand, hook_vars
  <2>2. CASE ~watching_globally
    <3>1. /\ command_mutex = NoThread /\ command_mutex' = t /\ Step("clear")
          /\ hooks' = hooks /\ watching_globally' = watching_globally
      BY <1>3, <2>2 DEF StartLock, AlreadyWatching, GoTo
    <3>2. \A u \in Thread : pc[u] \notin InMutex
      BY <1>1, <3>1
    <3>3. HookInv'
      BY <1>1, <2>2, <3>1, <3>2 DEF Place, InCommand, InMutex, Stored
    <3>4. Mode = "quiet" /\ Mode' = "opening" /\ Reach' = Reach
      BY <1>1, <2>2, <3>1 DEF Mode, Reach
    <3> QED
      BY <3>3, <3>4 DEF ModeStep, Modes!ModeNext, Modes!Begin
  <2> QED BY <2>1, <2>2
<1>4. CASE StartCleared(t)
  <2>1. pc[t] = "clear" /\ Step("install") /\ UNCHANGED hook_vars /\ command_mutex = t
    BY <1>4 DEF StartCleared, GoTo, InMutex
  <2>2. HookInv'
    BY <1>1, <2>1 DEF Place, InCommand, InMutex, Stored, Between, hook_vars
  <2> QED
    BY <1>1, <2>1, <2>2 DEF ModeStep, Mode, Reach, hook_vars
<1>5. CASE StartStoreHook(t) \/ StopStoreHook(t)
  <2>1. /\ pc[t] \in {"install", "uninstall"} /\ command_mutex = t /\ Between("multi")
        /\ UNCHANGED <<watching_globally, command_mutex, pc>> /\ ~watching_globally
    BY <1>5 DEF StartStoreHook, StopStoreHook, InMutex
  <2>2. PICK target \in {"libc", "multi"} :
          StoreHook(target) /\ pc[t] = IF target = "multi" THEN "install" ELSE "uninstall"
    BY <1>5 DEF StartStoreHook, StopStoreHook
  <2>3. hooks' \in [HeapFunction -> Hook] /\ Between("multi")' /\ target \in Reach'
    BY <1>1, <2>1, <2>2, StoreKeepsType
  <2>4. HookInv'
    <3>1. \A u \in Thread : pc[u] \notin {"clear", "drain"}
      BY <1>2, <2>1 DEF InMutex
    <3> QED
      BY <1>1, <2>1, <2>3, <3>1
  <2>5. Reach \subseteq {"libc", "multi"} /\ Reach' \subseteq {"libc", "multi"} /\ Reach # {}
    BY <2>1, <2>3, ReachIsAny, ReachOf DEF Between, Reach
  <2>6. CASE target = "multi"
    <3>1. Mode = "opening" /\ Mode' = Mode
      BY <1>1, <2>1, <2>2, <2>6 DEF Mode
    <3>2. Reach' \in {{"libc", "multi"}, {"multi"}}
      BY <2>3, <2>5, <2>6
    <3> QED
      BY <2>4, <2>5, <3>1, <3>2 DEF ModeStep, Modes!ModeNext, Modes!Instrument
  <2>7. CASE target = "libc"
    <3>1. Mode = "closing" /\ Mode' = Mode
      BY <1>1, <2>1, <2>2, <2>7 DEF Mode
    <3>2. Reach' = Reach \cup {"libc"} \/ Reach' = {"libc"}
      <4>1. \A f \in HeapFunction : hooks'[f] \in Reach \cup {"libc"}
        BY <1>1, <2>2, <2>7 DEF StoreHook, Reach, HeapFunction
      <4>2. Reach' \subseteq Reach \cup {"libc"}
        BY <4>1 DEF Reach
      <4> QED BY <2>3, <2>5, <2>7, <4>2
    <3> QED
      BY <2>4, <3>1, <3>2 DEF ModeStep, Modes!ModeNext, Modes!Remove
  <2> QED BY <2>2, <2>6, <2>7
<1>6. CASE StartWatching(t)
  <2>1. /\ pc[t] = "install" /\ command_mutex = t /\ Stored("multi") /\ hooks' = hooks
        /\ watching_globally' = TRUE /\ command_mutex' = NoThread /\ Step("idle")
    BY <1>6 DEF StartWatching, Installed, Unlock, GoTo, InMutex
  <2>2. \A u \in Thread : pc'[u] \notin InMutex
    BY <1>1, <1>2, <2>1 DEF InMutex
  <2>3. HookInv'
    BY <1>1, <2>1, <2>2 DEF Place, InMutex, Stored
  <2>4. Mode = "opening" /\ Mode' = "watching" /\ Reach = {"multi"} /\ Reach' = Reach
    BY <1>1, <2>1, ReachOf DEF Mode, Reach
  <2> QED
    BY <2>3, <2>4 DEF ModeStep, Modes!ModeNext, Modes!Watch
<1>7. CASE StopLock(t)
  <2>1. /\ command_mutex = NoThread /\ command_mutex' = t /\ watching_globally' = FALSE
        /\ hooks' = hooks /\ Step("uninstall")
    BY <1>7 DEF StopLock, LowerFlag, GoTo
  <2>2. \A u \in Thread : pc[u] \notin InMutex
    BY <1>1, <2>1
  <2>3. HookInv'
    BY <1>1, <2>1, <2>2 DEF Place, InCommand, InMutex, Stored, Between
  <2>4. Mode \in {"quiet", "watching", "abandoned"} /\ Mode' = "closing" /\ Reach' = Reach
    BY <1>1, <2>1 DEF Mode, Reach
  <2> QED
    BY <2>3, <2>4 DEF ModeStep, Modes!ModeNext, Modes!Begin
<1>8. CASE StopAsk(t)
  <2>1. pc[t] = "uninstall" /\ Step("drain") /\ Stored("libc") /\ UNCHANGED hook_vars /\ command_mutex = t
    BY <1>8 DEF StopAsk, GoTo, InMutex
  <2>2. HookInv'
    BY <1>1, <2>1 DEF Place, InCommand, InMutex, Stored, Between, hook_vars
  <2> QED
    BY <1>1, <2>1, <2>2 DEF ModeStep, Mode, Reach, hook_vars
<1>9. CASE StopReturn(t)
  <2>1. /\ pc[t] = "drain" /\ command_mutex = t /\ Stored("libc") /\ ~watching_globally
        /\ UNCHANGED <<hooks, watching_globally>> /\ command_mutex' = NoThread /\ Step("idle")
    BY <1>9 DEF StopReturn, TakeAnswer, Unlock, GoTo, InMutex
  <2>2. \A u \in Thread : pc'[u] \notin InMutex
    BY <1>1, <1>2, <2>1 DEF InMutex
  <2>3. HookInv'
    BY <1>1, <2>1, <2>2 DEF Place, InMutex, Stored
  <2>4. Mode = "closing" /\ Mode' = "quiet" /\ Reach = {"libc"} /\ Reach' = Reach
    BY <1>1, <2>1, ReachOf DEF Mode, Reach
  <2> QED
    BY <2>3, <2>4 DEF ModeStep, Modes!ModeNext, Modes!Rest
<1>10. CASE AskReturn(t)
  BY <1>1, <1>10, ControlFrame
  DEF AskReturn, TakeAnswer, GoTo, Place, InMutex, InCall, InCommand
<1> QED
  BY <1>3, <1>4, <1>5, <1>6, <1>7, <1>8, <1>9, <1>10 DEF CommandStep

(* Every step keeps the invariant and implements WatchModes. *)
LEMMA ControlStep ==
  ASSUME HookInv, [Next]_vars
  PROVE  HookInv' /\ ModeStep
<1>1. ASSUME NEW t \in Thread, HeapCall(t)
      PROVE  HookInv' /\ ModeStep
  BY <1>1, HeapCallControl, ControlFrame DEF Place, InMutex, InCall, InCommand
<1>2. ASSUME NEW t \in Thread, Resume(t)
      PROVE  HookInv' /\ ModeStep
  BY <1>2, ControlFrame DEF Resume, Enter, GoTo, Place, InMutex, InCall, InCommand
<1>3. ASSUME NEW t \in Thread, CallStart(t) \/ CallStop(t) \/ Ask(t)
      PROVE  HookInv' /\ ModeStep
  <2>1. pc[t] = "idle" /\ UNCHANGED hook_vars
    BY <1>3 DEF CallStart, CallStop, Ask, Issue
  <2>2. \E place \in {"start", "stop", "ask"} : pc' = [pc EXCEPT ![t] = place]
    BY <1>3 DEF CallStart, CallStop, Ask, GoTo
  <2> QED
    BY <2>1, <2>2, ControlFrame DEF Place, InMutex, InCall, InCommand
<1>4. CASE Worker \/ (\E t \in Thread : Pause(t)) \/ UNCHANGED vars
  BY <1>4, ControlStutter DEF Worker, WorkerHandles, Pause, vars
<1> QED
  BY <1>1, <1>2, <1>3, <1>4, CommandControl DEF Next, ThreadStep

LEMMA ControlInit == Init => HookInv /\ Modes!ModeInit
<1> SUFFICES ASSUME Init
             PROVE  HookInv /\ Modes!ModeInit
  OBVIOUS
<1>1. Stored("libc") /\ command_mutex = NoThread /\ ~watching_globally /\ \A t \in Thread : pc[t] = "idle"
  BY DEF Init, InitWith, Stored
<1>2. HookInv
  BY <1>1, WatcherAssumption
  DEF Init, InitWith, HookInv, ControlType, MutexHeld, FlagMatchesHooks, Stored, Place, InMutex, Hook
<1>3. Mode = "quiet" /\ Reach = {"libc"}
  BY <1>1, ReachOf DEF Mode
<1> QED
  BY <1>2, <1>3 DEF Modes!ModeInit

(***************************************************************************)
(* The hook table, the flag and the mutex are always in one of the         *)
(* combinations of HookInv.                                                *)
(***************************************************************************)
THEOREM ControlHolds == Spec => []HookInv
BY ControlInit, ControlStep, PTL DEF Spec

(***************************************************************************)
(* While watching_globally_ is up all four heap functions are              *)
(* instrumented, however start_watching and stop_watching of different     *)
(* threads interleave with each other and with the heap calls.             *)
(***************************************************************************)
THEOREM HooksCoverWatching == Spec => []FlagImpliesHooks
<1>1. HookInv => FlagImpliesHooks
  <2> SUFFICES ASSUME HookInv, watching_globally
               PROVE  Stored("multi")
    BY DEF FlagImpliesHooks
  <2>1. command_mutex = NoThread
    BY DEF HookInv, ControlType, MutexHeld, FlagMatchesHooks, InMutex
  <2> QED
    BY <2>1 DEF HookInv, FlagMatchesHooks
<1> QED
  BY <1>1, ControlHolds, PTL

(***************************************************************************)
(* start_watching and stop_watching, called by any number of threads,      *)
(* implement the modes of WatchModes.                                      *)
(***************************************************************************)
THEOREM ModesAreKept == Spec => RefinesModes
<1>1. HookInv /\ [Next]_vars => [Modes!ModeNext]_(Modes!mode_vars)
  BY ControlStep DEF ModeStep, Modes!mode_vars
<1> QED
  BY <1>1, ControlInit, ControlHolds, PTL DEF Spec, RefinesModes, Modes!ModeSpec
=============================================================================
