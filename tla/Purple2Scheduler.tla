--------------------------- MODULE Purple2Scheduler ---------------------------
(***************************************************************************)
(* The pump that drives the plugin's GLib context from libpurple's event   *)
(* loop (purple2-scheduler.cpp), the sources the plugin attaches to that   *)
(* context (module-activity.cpp), its background threads                   *)
(* (AccountThread, client-utils.cpp) and its loading and unloading         *)
(* (tdlib-purple.cpp).                                                     *)
(*                                                                         *)
(* The main thread is libpurple's; stage says where in fire() it is.       *)
(* Between its steps threads attach sources and signal the context.        *)
(***************************************************************************)
EXTENDS Naturals, FiniteSets

CONSTANTS
  Idles,     \* sources of moduleActivityAddIdle called on the main thread
  Timeouts,  \* sources of moduleActivityAddTimeout
  Workers,   \* AccountThreads, each with the idle source it attaches at its end
  MaxLoads,  \* bound: how often the plugin is loaded
  MaxLogins  \* bound: how many TDLib sessions are started

ASSUME BoundsAssumption ==
  /\ IsFiniteSet(Idles \cup Timeouts \cup Workers)
  /\ Idles \cap Timeouts = {} /\ (Idles \cup Timeouts) \cap Workers = {}
  /\ MaxLoads \in Nat /\ MaxLogins \in Nat

Sources == Idles \cup Timeouts \cup Workers

\* Host handles: at most one timer and one watch are ever registered by the pump.
Handles == 1 .. 2
NoHandle == 0

VARIABLES
  declined,   \* libpurple's loop has no usable ops, or the environment says no
  loaded,     \* the commands are registered and the runtime callbacks enabled
  installed,  \* g_pump # nullptr
  firing,     \* g_pump->firing
  uninstallRequested, \* g_pump->uninstallRequested
  watch, timer,             \* the handles g_pump remembers
  hostWatches, hostTimers,  \* the handles libpurple's event loop serves
  stage,      \* what the main thread does: see Stages
  reported,   \* the revents pollDescriptors found for the wakeup descriptor
  batch,      \* sources g_main_context_dispatch still has to run
  timeout,    \* g_main_context_query asked for a timeout
  signalled,  \* the context's wakeup descriptor is readable
  source,     \* where each source is: see SourceStates
  due,        \* timeouts whose time has come
  worker,     \* where each AccountThread is: see WorkerStates
  activity,   \* activityCount()
  session,    \* TdPollingBackend::hasActiveWorkers()
  loads, logins  \* history, for the bounds

pump == <<installed, firing, uninstallRequested, watch, timer>>
host == <<hostWatches, hostTimers>>
cycle == <<stage, reported, batch, timeout>>
work == <<source, due, worker, activity>>
plugin == <<declined, loaded, session, loads, logins>>
vars == <<pump, host, cycle, signalled, work, plugin>>

Stages == {"host", "polled", "dispatching", "running", "ending", "prepared"}
SourceStates == {"new", "attached", "running", "gone"}
WorkerStates == {"new", "created", "started", "attached", "woken", "ended"}

Init ==
  /\ declined \in BOOLEAN
  /\ loaded = FALSE /\ session = FALSE /\ loads = 0 /\ logins = 0
  /\ installed = FALSE /\ firing = FALSE /\ uninstallRequested = FALSE
  /\ watch = NoHandle /\ timer = NoHandle
  /\ hostWatches = {} /\ hostTimers = {}
  /\ stage = "host" /\ reported = FALSE /\ batch = {} /\ timeout = FALSE
  /\ signalled = FALSE
  /\ source = [s \in Sources |-> "new"] /\ due = {}
  /\ worker = [w \in Workers |-> "new"]
  /\ activity = 0

-----------------------------------------------------------------------------
(* The context: what GLib does for the pump. *)

Attached == {s \in Sources : source[s] = "attached"}

\* An idle source is always ready, a timeout when its time has come.
Ready == {s \in Attached : s \notin Timeouts \/ s \in due}

\* g_main_context_check keeps the ready sources of the highest priority: timeouts
\* have G_PRIORITY_DEFAULT, idles G_PRIORITY_DEFAULT_IDLE.
TopReady == IF Ready \cap Timeouts # {} THEN Ready \cap Timeouts ELSE Ready

-----------------------------------------------------------------------------
(* The pump *)

FreshHandle(used) == CHOOSE h \in Handles : h \notin used

\* plan()'s armWatches: the wakeup descriptor is the only one, so the watch is
\* added once and matches from then on.
ArmWatches ==
  IF watch # NoHandle
    THEN UNCHANGED <<watch, hostWatches>>
    ELSE /\ watch' = FreshHandle(hostWatches)
         /\ hostWatches' = hostWatches \cup {watch'}

\* plan()'s armTimeout: the remembered timer is removed, and another is added
\* unless nothing waits on the clock.
ArmTimeout ==
  LET others == hostTimers \ {timer} IN
  IF timeout
    THEN /\ timer' = FreshHandle(others)
         /\ hostTimers' = others \cup {timer'}
    ELSE timer' = NoHandle /\ hostTimers' = others

\* purple2SchedulerInstall, with the plan of a context that has no sources yet.
Install ==
  IF declined \/ installed
    THEN UNCHANGED <<pump, host, signalled>>
    ELSE /\ installed' = TRUE /\ signalled' = FALSE
         /\ UNCHANGED <<firing, uninstallRequested, timer, hostTimers>>
         /\ ArmWatches

\* finishUninstall: libpurple gets its handles back, the context goes.
FinishUninstall ==
  /\ installed' = FALSE
  /\ uninstallRequested' = FALSE
  /\ timer' = NoHandle /\ hostTimers' = hostTimers \ {timer}
  /\ watch' = NoHandle /\ hostWatches' = hostWatches \ {watch}
  /\ signalled' = FALSE

\* purple2SchedulerUninstall: never under the cycle that is running.
Uninstall ==
  IF ~installed
    THEN UNCHANGED <<pump, host, signalled>>
    ELSE IF firing
      THEN /\ uninstallRequested' = TRUE
           /\ UNCHANGED <<installed, firing, watch, timer, host, signalled>>
      ELSE FinishUninstall /\ UNCHANGED firing

\* Mutant: the descriptors are not polled.
FireUnpolled ==
  /\ firing' = TRUE
  /\ stage' = "polled" /\ reported' = FALSE
  /\ UNCHANGED <<batch, timeout>>

\* fire() and pollDescriptors: called for a watch or a timer alike.
Fire ==
  /\ firing' = TRUE
  /\ stage' = "polled" /\ reported' = signalled
  /\ UNCHANGED <<batch, timeout>>

\* libpurple's loop finds the descriptor readable: inputReady.
InputReady ==
  /\ stage = "host" /\ hostWatches # {} /\ signalled
  /\ Fire
  /\ UNCHANGED <<installed, uninstallRequested, watch, timer, host, signalled,
                 work, plugin>>

\* libpurple's timer expires: timeoutReady forgets the handle before it fires.
TimeoutReady ==
  /\ stage = "host" /\ hostTimers # {}
  /\ hostTimers' = {} /\ timer' = NoHandle
  /\ Fire
  /\ UNCHANGED <<installed, uninstallRequested, watch, hostWatches, signalled,
                 work, plugin>>

\* Mutant: the handle of a timer that expires in a nested loop stays remembered.
NestedTimeoutKeepsHandle ==
  /\ stage = "running" /\ firing /\ hostTimers # {}
  /\ hostTimers' = {}
  /\ UNCHANGED <<pump, hostWatches, cycle, signalled, work, plugin>>

\* A callback runs libpurple's loop itself and the timer expires there: the handle
\* is forgotten, fire() returns at once.
NestedTimeoutReady ==
  /\ stage = "running" /\ firing /\ hostTimers # {}
  /\ hostTimers' = {} /\ timer' = NoHandle
  /\ UNCHANGED <<installed, firing, uninstallRequested, watch, hostWatches, cycle,
                 signalled, work, plugin>>

\* g_main_context_check: it consumes the wakeup when it was handed as readable.
Check ==
  /\ stage = "polled"
  /\ signalled' = (signalled /\ ~reported)
  /\ batch' = TopReady
  /\ stage' = "dispatching"
  /\ UNCHANGED <<pump, host, reported, timeout, work, plugin>>

\* g_main_context_dispatch calls the next source of the batch; one that was
\* removed since is skipped.
Dispatch(s) ==
  /\ stage = "dispatching" /\ s \in batch
  /\ batch' = batch \ {s}
  /\ IF source[s] = "attached"
       THEN stage' = "running" /\ source' = [source EXCEPT ![s] = "running"]
       ELSE UNCHANGED <<stage, source>>
  /\ UNCHANGED <<pump, host, reported, timeout, signalled, due, worker, activity,
                 plugin>>

DispatchDone ==
  /\ stage = "dispatching" /\ batch = {}
  /\ stage' = "ending"
  /\ UNCHANGED <<pump, host, reported, batch, timeout, signalled, work, plugin>>

\* The end of fire(): the deferred uninstall, or g_main_context_prepare and query.
FireEnds ==
  /\ stage = "ending"
  /\ firing' = FALSE
  /\ IF uninstallRequested
       THEN /\ FinishUninstall
            /\ stage' = "host" /\ UNCHANGED timeout
       ELSE /\ stage' = "prepared" /\ timeout' = (Attached # {})
            /\ UNCHANGED <<installed, uninstallRequested, watch, timer, host,
                           signalled>>
  /\ UNCHANGED <<reported, batch, work, plugin>>

\* The rest of plan(): ask libpurple's loop for what the context wants.
Arm ==
  /\ stage = "prepared"
  /\ ArmWatches /\ ArmTimeout
  /\ stage' = "host"
  /\ UNCHANGED <<installed, firing, uninstallRequested, reported, batch, timeout,
                 signalled, work, plugin>>

\* The default context, where the sources go when install declines, is run by the
\* host's own GLib loop.
DefaultContextRuns(s) ==
  /\ declined /\ stage = "host" /\ s \in TopReady
  /\ stage' = "running" /\ source' = [source EXCEPT ![s] = "running"]
  /\ UNCHANGED <<pump, host, reported, batch, timeout, signalled, due, worker,
                 activity, plugin>>

-----------------------------------------------------------------------------
(* Plugin code: sources, threads, load and unload *)

\* Plugin code runs on the main thread: called by libpurple, or by the context.
PluginRuns == loaded /\ stage \in {"host", "running"}

\* Mutant: nothing follows the attach; GLib signals one by another thread only.
AttachSilently(s) ==
  /\ source' = [source EXCEPT ![s] = "attached"]
  /\ activity' = activity + 1
  /\ signalled' = (signalled \/ (installed /\ s \in Workers))

\* attachTrackedSource: GLib signals an attach by another thread only, so the
\* wakeup follows in any case.
AttachTrackedSource(s) ==
  /\ source' = [source EXCEPT ![s] = "attached"]
  /\ activity' = activity + 1
  /\ signalled' = (signalled \/ installed)

AddSource(s) ==
  /\ PluginRuns /\ s \in Idles \cup Timeouts /\ source[s] = "new"
  /\ AttachTrackedSource(s)
  /\ UNCHANGED <<pump, host, cycle, due, worker, plugin>>

TimePasses(s) ==
  /\ s \in Timeouts \ due /\ source[s] = "attached"
  /\ due' = due \cup {s}
  /\ UNCHANGED <<pump, host, cycle, signalled, source, worker, activity, plugin>>

\* Mutant: the thread's own guard is given back with the object's, too.
GuardsOfAll(s) == IF s \in Workers THEN 3 ELSE 1

\* What the destroy notifier of a source gives back: its guard and, for a thread,
\* the guard of the AccountThread it deletes.
GuardsOf(s) == IF s \in Workers THEN 2 ELSE 1

\* destroyTrackedSource.
Destroy(s) ==
  /\ source' = [source EXCEPT ![s] = "gone"]
  /\ due' = due \ {s}
  /\ activity' = activity - GuardsOf(s)

\* moduleActivityRemove, of the reauthorization timeout.
Remove(s) ==
  /\ PluginRuns /\ s \in Timeouts /\ source[s] = "attached"
  /\ Destroy(s)
  /\ UNCHANGED <<pump, host, cycle, signalled, worker, plugin>>

\* dispatchTrackedSource returns: a timeout may stay, whatever else is destroyed. An
\* AccountThread's callback and notifier join the thread first.
SourceReturns(s, keep) ==
  /\ stage = "running" /\ source[s] = "running"
  /\ keep => s \in Timeouts
  /\ s \in Workers => worker[s] = "ended"
  /\ IF keep
       THEN /\ source' = [source EXCEPT ![s] = "attached"]
            /\ due' = due \ {s} /\ UNCHANGED activity
       ELSE Destroy(s)
  /\ stage' = IF firing THEN "dispatching" ELSE "host"
  /\ UNCHANGED <<pump, host, reported, batch, timeout, signalled, worker, plugin>>

\* An AccountThread is made and started: the object holds a guard.
StartThread(w) ==
  /\ PluginRuns /\ worker[w] = "new"
  /\ worker' = [worker EXCEPT ![w] = "created"]
  /\ activity' = activity + 1
  /\ UNCHANGED <<pump, host, cycle, signalled, source, due, plugin>>

\* threadFunc: the thread takes a guard of its own and runs.
ThreadBegins(w) ==
  /\ worker[w] = "created"
  /\ worker' = [worker EXCEPT ![w] = "started"]
  /\ activity' = activity + 1
  /\ UNCHANGED <<pump, host, cycle, signalled, source, due, plugin>>

\* It attaches its idle source: GLib itself signals an attach by another thread.
ThreadAttaches(w) ==
  /\ worker[w] = "started"
  /\ worker' = [worker EXCEPT ![w] = "attached"]
  /\ AttachTrackedSource(w)
  /\ UNCHANGED <<pump, host, cycle, due, plugin>>

ThreadWakes(w) ==
  /\ worker[w] = "attached"
  /\ worker' = [worker EXCEPT ![w] = "woken"]
  /\ signalled' = (signalled \/ installed)
  /\ UNCHANGED <<pump, host, cycle, source, due, activity, plugin>>

\* As it returns, it drops its guard.
ThreadReturns(w) ==
  /\ worker[w] = "woken"
  /\ worker' = [worker EXCEPT ![w] = "ended"]
  /\ activity' = activity - 1
  /\ UNCHANGED <<pump, host, cycle, signalled, source, due, plugin>>

ThreadStep(w) == ThreadBegins(w) \/ ThreadAttaches(w) \/ ThreadWakes(w) \/ ThreadReturns(w)

\* A session starts polling; some time after it was closed its worker is reaped.
LogIn ==
  /\ PluginRuns /\ ~session /\ logins < MaxLogins
  /\ session' = TRUE /\ logins' = logins + 1
  /\ UNCHANGED <<pump, host, cycle, signalled, work, declined, loaded, loads>>

WorkerReaped ==
  /\ session /\ session' = FALSE
  /\ UNCHANGED <<pump, host, cycle, signalled, work, declined, loaded, loads, logins>>

\* tgprpl_load, the commands registered.
Load ==
  /\ stage = "host" /\ ~loaded /\ loads < MaxLoads
  /\ loaded' = TRUE /\ loads' = loads + 1
  /\ Install
  /\ UNCHANGED <<cycle, work, declined, session, logins>>

\* Mutant: only the workers of sessions are asked about.
MayUnloadIfNoSession == ~session

\* The question tgprpl_unload asks, before and after it disables the callbacks.
MayUnload == ~session /\ activity = 0

\* tgprpl_unload, called by libpurple's loop or from within a callback. Nothing
\* the second question asks about can start between the two.
Unload ==
  /\ PluginRuns /\ MayUnload
  /\ loaded' = FALSE
  /\ Uninstall
  /\ UNCHANGED <<cycle, work, declined, session, loads, logins>>

-----------------------------------------------------------------------------

Next ==
  \/ InputReady \/ TimeoutReady \/ NestedTimeoutReady
  \/ Check \/ DispatchDone \/ FireEnds \/ Arm
  \/ \E s \in Sources : Dispatch(s) \/ DefaultContextRuns(s)
  \/ \E s \in Sources, keep \in BOOLEAN : SourceReturns(s, keep)
  \/ \E s \in Sources : AddSource(s) \/ TimePasses(s) \/ Remove(s)
  \/ \E w \in Workers : StartThread(w) \/ ThreadStep(w)
  \/ LogIn \/ WorkerReaped \/ Load \/ Unload

Spec == Init /\ [][Next]_vars

\* libpurple's loop serves what is registered, callbacks return, threads run. Nobody
\* need ever add work, load or unload.
FairSpec ==
  /\ Spec
  /\ WF_vars(InputReady \/ TimeoutReady)
  /\ WF_vars(Check \/ DispatchDone \/ FireEnds \/ Arm \/ \E s \in Sources : Dispatch(s))
  /\ \A s \in Sources : WF_vars(\E keep \in BOOLEAN : SourceReturns(s, keep))
  /\ \A w \in Workers : WF_vars(ThreadStep(w))

-----------------------------------------------------------------------------
(* Properties *)

\* Every variable keeps its type; the count of guards never runs below zero.
TypeOK ==
  /\ declined \in BOOLEAN /\ loaded \in BOOLEAN /\ session \in BOOLEAN
  /\ installed \in BOOLEAN /\ firing \in BOOLEAN /\ uninstallRequested \in BOOLEAN
  /\ reported \in BOOLEAN /\ timeout \in BOOLEAN /\ signalled \in BOOLEAN
  /\ watch \in Handles \cup {NoHandle} /\ timer \in Handles \cup {NoHandle}
  /\ hostWatches \subseteq Handles /\ hostTimers \subseteq Handles
  /\ stage \in Stages /\ batch \subseteq Sources /\ due \subseteq Timeouts
  /\ source \in [Sources -> SourceStates]
  /\ worker \in [Workers -> WorkerStates]
  /\ activity \in Nat /\ loads \in 0 .. MaxLoads /\ logins \in 0 .. MaxLogins

\* libpurple's loop serves exactly the handles the pump remembers, whatever fired,
\* nested or was torn down in between, so the pump neither leaks a handle nor
\* removes one that has fired; and a cycle never loses the pump it stands on.
HandlesAreOurs ==
  /\ hostTimers = {timer} \ {NoHandle} /\ hostWatches = {watch} \ {NoHandle}
  /\ ~installed => hostTimers = {} /\ hostWatches = {}
  /\ firing \/ stage = "prepared" => installed

\* Whenever the pump is out of its cycle, work that is attached has something in
\* libpurple's loop that will bring the pump back: an armed timer or a readable
\* descriptor that is watched.
NothingIsStranded ==
  installed /\ stage = "host" /\ Attached # {}
    => hostTimers # {} \/ (signalled /\ hostWatches # {})

\* The pump knows its handles in libpurple's loop whatever expires in a nested loop,
\* and with them it is brought back to work that anybody attached meanwhile.
PumpServesItsWork == HandlesAreOurs /\ NothingIsStranded

\* A plugin that was unloaded leaves nothing that runs its code: no source, no
\* thread, no worker, no handle in libpurple's loop, no cycle or callback under way.
UnloadLeavesNothing ==
  ~loaded =>
    /\ \A s \in Sources : source[s] \in {"new", "gone"}
    /\ \A w \in Workers : worker[w] \in {"new", "ended"}
    /\ ~session /\ ~installed /\ ~uninstallRequested
    /\ hostTimers = {} /\ hostWatches = {} /\ stage = "host"

\* The wakeup descriptor does not stay readable once nobody signals it any more:
\* libpurple's loop, which is level triggered, is not kept busy.
QuietInTheEnd == <>[]~signalled

=============================================================================
