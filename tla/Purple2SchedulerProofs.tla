------------------------ MODULE Purple2SchedulerProofs ------------------------
(***************************************************************************)
(* Theorems about Purple2Scheduler, for every set of sources and threads   *)
(* and every bound: the host's handles match the pump's, attached work     *)
(* always brings the pump back, and an unloaded plugin leaves nothing      *)
(* behind. The last rests on the count of guards: it is the number of the  *)
(* sources, threads and thread objects that are alive.                     *)
(***************************************************************************)
EXTENDS Purple2Scheduler, FiniteSetTheorems, TLAPS

\* Who holds a guard: sources, AccountThread objects, threads.
SourceGuards == {s \in Sources : source[s] \in {"attached", "running"}}
ObjectGuards == {w \in Workers : worker[w] # "new" /\ source[w] # "gone"}
ThreadGuards == {w \in Workers : worker[w] \in {"started", "attached", "woken"}}

GuardsCounted ==
  activity = Cardinality(SourceGuards) + Cardinality(ObjectGuards)
             + Cardinality(ThreadGuards)

\* A thread attaches its source once, and its object goes after it has returned.
ThreadsAgree ==
  \A w \in Workers :
    /\ worker[w] \in {"new", "created", "started"} <=> source[w] = "new"
    /\ source[w] = "gone" => worker[w] = "ended"

\* Every variable but the count of guards keeps its type.
TypesKept ==
  /\ declined \in BOOLEAN /\ loaded \in BOOLEAN /\ session \in BOOLEAN
  /\ installed \in BOOLEAN /\ firing \in BOOLEAN /\ uninstallRequested \in BOOLEAN
  /\ reported \in BOOLEAN /\ timeout \in BOOLEAN /\ signalled \in BOOLEAN
  /\ watch \in Handles \cup {NoHandle} /\ timer \in Handles \cup {NoHandle}
  /\ hostWatches \subseteq Handles /\ hostTimers \subseteq Handles
  /\ stage \in Stages /\ batch \subseteq Sources /\ due \subseteq Timeouts
  /\ source \in [Sources -> SourceStates]
  /\ worker \in [Workers -> WorkerStates]
  /\ loads \in 0 .. MaxLoads /\ logins \in 0 .. MaxLogins

\* Where the main thread is, the cycle and its pump agree.
CycleShape ==
  /\ stage = "running" => \E s \in Sources : source[s] = "running"
  /\ stage \in {"polled", "dispatching", "ending"} => firing
  /\ stage \in {"host", "prepared"} => ~firing
  /\ stage = "running" /\ installed => firing

\* The pump comes and goes with the plugin: a deferred uninstall never happens.
PumpFollowsPlugin ==
  /\ installed <=> loaded /\ ~declined
  /\ ~uninstallRequested
  /\ installed => watch # NoHandle

\* What was attached after the context was asked has signalled it.
PlannedWork == stage = "prepared" /\ Attached # {} => timeout \/ signalled

Inv ==
  /\ TypesKept /\ ThreadsAgree /\ GuardsCounted /\ CycleShape
  /\ PumpFollowsPlugin /\ PlannedWork
  /\ HandlesAreOurs /\ NothingIsStranded /\ UnloadLeavesNothing

LEMMA GuardsAreFinite ==
  ASSUME NEW S \in SUBSET Sources
  PROVE  IsFiniteSet(S) /\ Cardinality(S) \in Nat
<1>1. IsFiniteSet(S)
  BY FS_Subset, BoundsAssumption DEF Sources
<1> QED
  BY <1>1, FS_CardinalityType

LEMMA GuardSets ==
  /\ Workers \subseteq Sources /\ Timeouts \subseteq Sources /\ Idles \subseteq Sources
  /\ SourceGuards \in SUBSET Sources /\ ObjectGuards \in SUBSET Sources
  /\ ThreadGuards \in SUBSET Sources
BY DEF Sources, SourceGuards, ObjectGuards, ThreadGuards

LEMMA CountsAreNatural ==
  /\ Cardinality(SourceGuards) \in Nat /\ Cardinality(ObjectGuards) \in Nat
  /\ Cardinality(ThreadGuards) \in Nat
BY GuardSets, GuardsAreFinite

\* Who may unload has nobody alive: every guard is given back.
LEMMA NobodyHoldsAGuard ==
  ASSUME Inv, activity = 0
  PROVE  /\ \A s \in Sources : source[s] \in {"new", "gone"}
         /\ \A w \in Workers : worker[w] \in {"new", "ended"}
         /\ stage # "running"
<1>1. Cardinality(SourceGuards) = 0 /\ Cardinality(ObjectGuards) = 0
  BY CountsAreNatural DEF Inv, GuardsCounted
<1>2. SourceGuards = {} /\ ObjectGuards = {}
  BY <1>1, GuardSets, GuardsAreFinite, FS_EmptySet
<1>3. \A s \in Sources : source[s] \in {"new", "gone"}
  BY <1>2 DEF SourceGuards, Inv, TypesKept, SourceStates
<1>4. \A w \in Workers : worker[w] \in {"new", "ended"}
  BY <1>2, <1>3, GuardSets DEF ObjectGuards, Inv, ThreadsAgree
<1> QED
  BY <1>3, <1>4 DEF Inv, CycleShape

\* The pump finds a handle for the timer and the watch it adds.
LEMMA HandleIsFresh ==
  /\ FreshHandle({}) \in Handles /\ FreshHandle({}) # NoHandle
<1>1. \E h \in Handles : h \notin {}
  BY DEF Handles
<1> QED
  BY <1>1 DEF FreshHandle, Handles, NoHandle

LEMMA InitInv == Init => Inv
<1> SUFFICES ASSUME Init PROVE Inv
  OBVIOUS
<1>1. TypesKept
  <2>1. /\ watch \in Handles \cup {NoHandle} /\ timer \in Handles \cup {NoHandle}
        /\ hostWatches \subseteq Handles /\ hostTimers \subseteq Handles
    BY DEF Init
  <2>2. /\ stage \in Stages /\ batch \subseteq Sources /\ due \subseteq Timeouts
        /\ source \in [Sources -> SourceStates]
        /\ worker \in [Workers -> WorkerStates]
    BY DEF Init, Stages, SourceStates, WorkerStates
  <2>3. loads \in 0 .. MaxLoads /\ logins \in 0 .. MaxLogins
    BY BoundsAssumption DEF Init
  <2> QED
    BY <2>1, <2>2, <2>3 DEF Init, TypesKept
<1>2. ThreadsAgree
  BY GuardSets DEF Init, ThreadsAgree
<1>3. GuardsCounted
  <2>1. SourceGuards = {} /\ ObjectGuards = {} /\ ThreadGuards = {}
    BY DEF Init, SourceGuards, ObjectGuards, ThreadGuards
  <2> QED
    BY <2>1, FS_EmptySet DEF Init, GuardsCounted
<1>4. CycleShape /\ PumpFollowsPlugin /\ PlannedWork
  BY DEF Init, CycleShape, PumpFollowsPlugin, PlannedWork
<1>5. HandlesAreOurs /\ NothingIsStranded
  BY DEF Init, HandlesAreOurs, NothingIsStranded
<1>6. UnloadLeavesNothing
  BY GuardSets DEF Init, UnloadLeavesNothing
<1> QED
  BY <1>1, <1>2, <1>3, <1>4, <1>5, <1>6 DEF Inv

\* The steps of Next, by what they disturb: the cycle, or the work the plugin has.
CycleStep ==
  \/ InputReady \/ TimeoutReady \/ NestedTimeoutReady
  \/ Check \/ DispatchDone \/ FireEnds \/ Arm
  \/ \E s \in Sources : Dispatch(s) \/ DefaultContextRuns(s)

WorkStep ==
  \/ \E s \in Sources, keep \in BOOLEAN : SourceReturns(s, keep)
  \/ \E s \in Sources : AddSource(s) \/ TimePasses(s) \/ Remove(s)
  \/ \E w \in Workers : StartThread(w) \/ ThreadStep(w)

PluginStep == LogIn \/ WorkerReaped \/ Load \/ Unload

\* Outside Load the deferred uninstall and the first plan play no part: what the
\* pump's steps do to its handles.
LEMMA HandlesStep == Inv /\ Next => HandlesAreOurs' /\ PumpFollowsPlugin'
<1> SUFFICES ASSUME Inv, Next PROVE HandlesAreOurs' /\ PumpFollowsPlugin'
  OBVIOUS
<1> USE DEF Inv, HandlesAreOurs, PumpFollowsPlugin, pump, host, cycle, work, plugin
<1>1. CASE InputReady
  BY <1>1 DEF InputReady, Fire
<1>2. CASE TimeoutReady \/ NestedTimeoutReady
  BY <1>2 DEF TimeoutReady, NestedTimeoutReady, Fire
<1>3. CASE Check \/ DispatchDone
  BY <1>3 DEF Check, DispatchDone, CycleShape
<1>4. CASE FireEnds
  BY <1>4 DEF FireEnds, CycleShape
<1>5. CASE Arm
  BY <1>5, HandleIsFresh DEF Arm, ArmWatches, ArmTimeout, CycleShape
<1>6. CASE \E s \in Sources : Dispatch(s) \/ DefaultContextRuns(s)
  BY <1>6 DEF Dispatch, DefaultContextRuns
<1>7. CASE WorkStep
  BY <1>7 DEF WorkStep, SourceReturns, AddSource, TimePasses, Remove, StartThread,
     ThreadStep, ThreadBegins, ThreadAttaches, ThreadWakes, ThreadReturns
<1>8. CASE LogIn \/ WorkerReaped
  BY <1>8 DEF LogIn, WorkerReaped
<1>9. CASE Load
  BY <1>9, HandleIsFresh DEF Load, Install, ArmWatches, UnloadLeavesNothing
<1>10. CASE Unload
  BY <1>10, NobodyHoldsAGuard
     DEF Unload, PluginRuns, MayUnload, Uninstall, FinishUninstall, CycleShape
<1> QED
  BY <1>1, <1>2, <1>3, <1>4, <1>5, <1>6, <1>7, <1>8, <1>9, <1>10
     DEF Next, WorkStep

LEMMA TypesStep == Inv /\ Next => TypesKept'
<1> SUFFICES ASSUME Inv, Next PROVE TypesKept'
  OBVIOUS
<1> USE GuardSets DEF Inv, TypesKept, pump, host, cycle, work, plugin, Stages,
        SourceStates, WorkerStates
<1>1. CASE InputReady
  BY <1>1 DEF InputReady, Fire
<1>2. CASE TimeoutReady \/ NestedTimeoutReady
  BY <1>2, ZenonT(40) DEF TimeoutReady, NestedTimeoutReady, Fire
<1>3. CASE Check \/ DispatchDone
  BY <1>3, ZenonT(40) DEF Check, DispatchDone, TopReady, Ready, Attached
<1>4. CASE FireEnds
  BY <1>4 DEF FireEnds, PumpFollowsPlugin
<1>5. CASE Arm
  BY <1>5, HandleIsFresh DEF Arm, ArmWatches, ArmTimeout, HandlesAreOurs
<1>6. CASE \E s \in Sources : Dispatch(s) \/ DefaultContextRuns(s)
  BY <1>6 DEF Dispatch, DefaultContextRuns
<1>7. CASE \E s \in Sources, keep \in BOOLEAN : SourceReturns(s, keep)
  BY <1>7 DEF SourceReturns, Destroy
<1>8. CASE \E s \in Sources : AddSource(s) \/ TimePasses(s) \/ Remove(s)
  BY <1>8 DEF AddSource, TimePasses, Remove, AttachTrackedSource, Destroy
<1>9. CASE \E w \in Workers : StartThread(w) \/ ThreadStep(w)
  BY <1>9 DEF StartThread, ThreadStep, ThreadBegins, ThreadAttaches, ThreadWakes,
     ThreadReturns, AttachTrackedSource
<1>10. CASE LogIn
  <2>1. logins < MaxLogins /\ logins' = logins + 1
    BY <1>10 DEF LogIn
  <2>2. logins' \in 0 .. MaxLogins
    BY <2>1, BoundsAssumption
  <2> QED
    BY <1>10, <2>2 DEF LogIn
<1>13. CASE WorkerReaped
  <2>1. session' \in BOOLEAN
    BY <1>13 DEF WorkerReaped
  <2>2. UNCHANGED <<pump, host, cycle, signalled, work, declined, loaded, loads, logins>>
    BY <1>13 DEF WorkerReaped
  <2> QED
    BY <2>1, <2>2
<1>11. CASE Load
  <2>1. loads' \in 0 .. MaxLoads
    BY <1>11, BoundsAssumption DEF Load
  <2>2. /\ watch' \in Handles \cup {NoHandle} /\ timer' \in Handles \cup {NoHandle}
        /\ hostWatches' \subseteq Handles /\ hostTimers' \subseteq Handles
        /\ installed' \in BOOLEAN /\ signalled' \in BOOLEAN
        /\ firing' \in BOOLEAN /\ uninstallRequested' \in BOOLEAN
    BY <1>11, HandleIsFresh DEF Load, Install, ArmWatches, HandlesAreOurs
  <2> QED
    BY <1>11, <2>1, <2>2 DEF Load
<1>12. CASE Unload
  BY <1>12, ZenonT(40) DEF Unload, Uninstall, FinishUninstall
<1> QED
  BY <1>1, <1>2, <1>3, <1>4, <1>5, <1>6, <1>7, <1>8, <1>9, <1>10, <1>11, <1>12, <1>13
     DEF Next

\* A timeout or an idle of the main thread is no thread's source.
LEMMA ThreadsStep == Inv /\ Next => ThreadsAgree'
<1> SUFFICES ASSUME Inv, Next PROVE ThreadsAgree'
  OBVIOUS
<1> USE GuardSets DEF Inv, TypesKept, ThreadsAgree, work, plugin
<1>1. CASE UNCHANGED <<source, worker>>
  BY <1>1
<1>2. CASE \E s \in Sources : Dispatch(s) \/ DefaultContextRuns(s)
  BY <1>2 DEF Dispatch, DefaultContextRuns, TopReady, Ready, Attached
<1>3. CASE \E s \in Sources, keep \in BOOLEAN : SourceReturns(s, keep)
  BY <1>3 DEF SourceReturns, Destroy
<1>4. CASE \E s \in Sources : AddSource(s) \/ Remove(s)
  BY <1>4, BoundsAssumption DEF AddSource, Remove, AttachTrackedSource, Destroy
<1>5. CASE \E w \in Workers : StartThread(w) \/ ThreadStep(w)
  BY <1>5 DEF StartThread, ThreadStep, ThreadBegins, ThreadAttaches, ThreadWakes,
     ThreadReturns, AttachTrackedSource
<1>6. CASE CycleStep \/ PluginStep \/ \E s \in Sources : TimePasses(s)
  <2>1. UNCHANGED <<source, worker>> \/ \E s \in Sources : Dispatch(s) \/ DefaultContextRuns(s)
    BY <1>6 DEF CycleStep, PluginStep, InputReady, TimeoutReady, NestedTimeoutReady,
       Check, DispatchDone, FireEnds, Arm, TimePasses, LogIn, WorkerReaped, Load, Unload
  <2> QED
    BY <2>1, <1>1, <1>2
<1> QED
  BY <1>1, <1>2, <1>3, <1>4, <1>5, <1>6 DEF Next, CycleStep, PluginStep

LEMMA CycleShapeStep == Inv /\ Next => CycleShape'
<1> SUFFICES ASSUME Inv, Next PROVE CycleShape'
  OBVIOUS
<1> USE GuardSets DEF Inv, TypesKept, CycleShape, pump, host, cycle, work, plugin
<1>1. CASE InputReady \/ TimeoutReady \/ NestedTimeoutReady
  BY <1>1 DEF InputReady, TimeoutReady, NestedTimeoutReady, Fire
<1>2. CASE Check \/ DispatchDone \/ FireEnds \/ Arm
  BY <1>2 DEF Check, DispatchDone, FireEnds, Arm, PumpFollowsPlugin
<1>3. CASE \E s \in Sources : Dispatch(s) \/ DefaultContextRuns(s)
  BY <1>3 DEF Dispatch, DefaultContextRuns, PumpFollowsPlugin
<1>4. CASE \E s \in Sources, keep \in BOOLEAN : SourceReturns(s, keep)
  BY <1>4 DEF SourceReturns
<1>5. CASE \E s \in Sources : AddSource(s) \/ TimePasses(s) \/ Remove(s)
  BY <1>5 DEF AddSource, TimePasses, Remove, AttachTrackedSource, Destroy
<1>6. CASE \E w \in Workers : StartThread(w) \/ ThreadStep(w)
  BY <1>6 DEF StartThread, ThreadStep, ThreadBegins, ThreadAttaches, ThreadWakes,
     ThreadReturns, AttachTrackedSource, ThreadsAgree
<1>7. CASE LogIn \/ WorkerReaped
  BY <1>7 DEF LogIn, WorkerReaped
<1>8. CASE Load
  BY <1>8 DEF Load, Install
<1>9. CASE Unload
  BY <1>9, NobodyHoldsAGuard
     DEF Unload, PluginRuns, MayUnload, Uninstall, FinishUninstall, PumpFollowsPlugin
<1> QED
  BY <1>1, <1>2, <1>3, <1>4, <1>5, <1>6, <1>7, <1>8, <1>9 DEF Next

\* Work is never left behind: whoever attaches signals the context, and the plan that
\* did not see it finds the signal.
LEMMA StrandedStep == Inv /\ Next => PlannedWork' /\ NothingIsStranded'
<1> SUFFICES ASSUME Inv, Next PROVE PlannedWork' /\ NothingIsStranded'
  OBVIOUS
<1> USE DEF Inv, TypesKept, PlannedWork, NothingIsStranded, Attached, pump, host, cycle,
        work, plugin
<1>1. CASE InputReady \/ TimeoutReady \/ NestedTimeoutReady \/ Check \/ DispatchDone
  BY <1>1 DEF InputReady, TimeoutReady, NestedTimeoutReady, Fire, Check, DispatchDone
<1>2. CASE FireEnds
  BY <1>2 DEF FireEnds, PumpFollowsPlugin
<1>3. CASE Arm
  BY <1>3, HandleIsFresh DEF Arm, ArmWatches, ArmTimeout, HandlesAreOurs
<1>4. CASE \E s \in Sources : Dispatch(s) \/ DefaultContextRuns(s)
  BY <1>4 DEF Dispatch, DefaultContextRuns, PumpFollowsPlugin
<1>5. CASE \E s \in Sources, keep \in BOOLEAN : SourceReturns(s, keep)
  BY <1>5 DEF SourceReturns, CycleShape
<1>6. CASE \E s \in Sources : AddSource(s) \/ TimePasses(s) \/ Remove(s)
  BY <1>6 DEF AddSource, TimePasses, Remove, AttachTrackedSource, Destroy,
     HandlesAreOurs, PumpFollowsPlugin
<1>7. CASE \E w \in Workers : StartThread(w) \/ ThreadStep(w)
  BY <1>7 DEF StartThread, ThreadStep, ThreadBegins, ThreadAttaches, ThreadWakes,
     ThreadReturns, AttachTrackedSource, HandlesAreOurs, PumpFollowsPlugin
<1>8. CASE LogIn \/ WorkerReaped
  BY <1>8 DEF LogIn, WorkerReaped
<1>9. CASE Load
  BY <1>9 DEF Load, UnloadLeavesNothing
<1>10. CASE Unload
  BY <1>10, NobodyHoldsAGuard DEF Unload, PluginRuns, MayUnload
<1> QED
  BY <1>1, <1>2, <1>3, <1>4, <1>5, <1>6, <1>7, <1>8, <1>9, <1>10 DEF Next

\* Nothing comes to life in a plugin that is not loaded.
LEMMA UnloadedStep == Inv /\ Next => UnloadLeavesNothing'
<1> SUFFICES ASSUME Inv, Next, ~loaded' PROVE UnloadLeavesNothing'
  BY DEF UnloadLeavesNothing
<1> USE GuardSets DEF Inv, TypesKept, UnloadLeavesNothing, pump, host, cycle, work, plugin
<1>1. CASE InputReady \/ TimeoutReady \/ NestedTimeoutReady \/ Check \/ DispatchDone
           \/ FireEnds \/ Arm
  BY <1>1 DEF InputReady, TimeoutReady, NestedTimeoutReady, Check, DispatchDone,
     FireEnds, Arm
<1>2. CASE \E s \in Sources : Dispatch(s) \/ DefaultContextRuns(s)
  BY <1>2 DEF Dispatch, DefaultContextRuns, TopReady, Ready, Attached
<1>3. CASE WorkStep
  BY <1>3 DEF WorkStep, PluginRuns, SourceReturns, AddSource, TimePasses, Remove,
     StartThread, ThreadStep, ThreadBegins, ThreadAttaches, ThreadWakes, ThreadReturns
<1>4. CASE LogIn \/ WorkerReaped
  BY <1>4 DEF LogIn, WorkerReaped, PluginRuns
<1>5. CASE Load
  BY <1>5 DEF Load
<1>6. CASE Unload
  BY <1>6, NobodyHoldsAGuard
     DEF Unload, PluginRuns, MayUnload, Uninstall, FinishUninstall, CycleShape,
     HandlesAreOurs, PumpFollowsPlugin, NoHandle
<1> QED
  BY <1>1, <1>2, <1>3, <1>4, <1>5, <1>6 DEF Next, WorkStep

\* The guards of a step are counted when each of the three sets changes by what the
\* step gives and takes.
LEMMA CountSame ==
  ASSUME Inv, UNCHANGED activity, SourceGuards' = SourceGuards,
         ObjectGuards' = ObjectGuards, ThreadGuards' = ThreadGuards
  PROVE  GuardsCounted'
BY DEF Inv, GuardsCounted

LEMMA CountStep == Inv /\ Next => GuardsCounted'
<1> SUFFICES ASSUME Inv, Next PROVE GuardsCounted'
  OBVIOUS
<1> USE GuardSets DEF Inv, TypesKept, work, plugin
<1>0. /\ IsFiniteSet(SourceGuards) /\ IsFiniteSet(ObjectGuards)
      /\ IsFiniteSet(ThreadGuards)
  BY GuardsAreFinite
<1>1. CASE UNCHANGED <<source, worker, activity>>
  BY <1>1, CountSame DEF SourceGuards, ObjectGuards, ThreadGuards
<1>2. CASE \E s \in Sources : Dispatch(s) \/ DefaultContextRuns(s)
  <2>1. UNCHANGED activity
    BY <1>2 DEF Dispatch, DefaultContextRuns
  <2>2. ThreadGuards' = ThreadGuards
    BY <1>2 DEF Dispatch, DefaultContextRuns, ThreadGuards
  <2>3. SourceGuards' = SourceGuards
    BY <1>2 DEF Dispatch, DefaultContextRuns, SourceGuards, TopReady, Ready, Attached
  <2>4. ObjectGuards' = ObjectGuards
    BY <1>2 DEF Dispatch, DefaultContextRuns, ObjectGuards, TopReady, Ready, Attached
  <2> QED
    BY <2>1, <2>2, <2>3, <2>4, CountSame
<1>3. ASSUME NEW s \in Sources, source[s] \in {"attached", "running"},
             s \in Workers => worker[s] = "ended", UNCHANGED worker, Destroy(s)
      PROVE  GuardsCounted'
  <2>1. s \in SourceGuards /\ SourceGuards' = SourceGuards \ {s}
    BY <1>3 DEF Destroy, SourceGuards
  <2>2. Cardinality(SourceGuards') = Cardinality(SourceGuards) - 1
    BY <2>1, <1>0, FS_RemoveElement
  <2>3. ThreadGuards' = ThreadGuards
    BY <1>3 DEF ThreadGuards
  <2>4. CASE s \in Workers
    <3>1. s \in ObjectGuards /\ ObjectGuards' = ObjectGuards \ {s}
      BY <1>3, <2>4 DEF Destroy, ObjectGuards
    <3>2. Cardinality(ObjectGuards') = Cardinality(ObjectGuards) - 1
      BY <3>1, <1>0, FS_RemoveElement
    <3>3. activity' = activity - 2
      BY <1>3, <2>4 DEF Destroy, GuardsOf
    <3> QED
      BY <2>2, <2>3, <3>2, <3>3, CountsAreNatural DEF GuardsCounted
  <2>5. CASE s \notin Workers
    <3>1. ObjectGuards' = ObjectGuards
      BY <1>3, <2>5 DEF Destroy, ObjectGuards
    <3>2. activity' = activity - 1
      BY <1>3, <2>5 DEF Destroy, GuardsOf
    <3> QED
      BY <2>2, <2>3, <3>1, <3>2, CountsAreNatural DEF GuardsCounted
  <2> QED
    BY <2>4, <2>5
<1>4. ASSUME NEW s \in Sources, NEW keep \in BOOLEAN, SourceReturns(s, keep)
      PROVE  GuardsCounted'
  <2>1. source[s] = "running" /\ (s \in Workers => worker[s] = "ended")
        /\ UNCHANGED worker
    BY <1>4 DEF SourceReturns
  <2>2. CASE keep
    <3>1. UNCHANGED activity /\ ThreadGuards' = ThreadGuards
      BY <1>4, <2>2 DEF SourceReturns, ThreadGuards
    <3>2. SourceGuards' = SourceGuards /\ ObjectGuards' = ObjectGuards
      BY <1>4, <2>2 DEF SourceReturns, SourceGuards, ObjectGuards
    <3> QED
      BY <3>1, <3>2, CountSame
  <2>3. CASE ~keep
    <3>1. Destroy(s)
      BY <1>4, <2>3 DEF SourceReturns
    <3> QED
      BY <2>1, <3>1, <1>3
  <2> QED
    BY <2>2, <2>3
<1>5. ASSUME NEW s \in Sources, Remove(s) PROVE GuardsCounted'
  <2>1. /\ source[s] = "attached" /\ s \notin Workers /\ UNCHANGED worker /\ Destroy(s)
    BY <1>5, BoundsAssumption DEF Remove
  <2> QED
    BY <2>1, <1>3
<1>6. ASSUME NEW s \in Sources, source[s] = "new", AttachTrackedSource(s),
             ThreadGuards' = ThreadGuards,
             \A w \in Workers : worker'[w] = "new" <=> worker[w] = "new"
      PROVE  GuardsCounted'
  <2>1. s \notin SourceGuards /\ SourceGuards' = SourceGuards \cup {s}
    BY <1>6 DEF AttachTrackedSource, SourceGuards
  <2>2. Cardinality(SourceGuards') = Cardinality(SourceGuards) + 1
    BY <2>1, <1>0, FS_AddElement
  <2>3. ObjectGuards' = ObjectGuards
    BY <1>6 DEF AttachTrackedSource, ObjectGuards
  <2>4. activity' = activity + 1
    BY <1>6 DEF AttachTrackedSource
  <2> QED
    BY <1>6, <2>2, <2>3, <2>4, CountsAreNatural DEF GuardsCounted
<1>7. ASSUME NEW s \in Sources, AddSource(s) PROVE GuardsCounted'
  BY <1>7, <1>6 DEF AddSource, ThreadGuards
<1>8. ASSUME NEW w \in Workers, StartThread(w) PROVE GuardsCounted'
  <2>1. w \notin ObjectGuards /\ ObjectGuards' = ObjectGuards \cup {w}
    BY <1>8 DEF StartThread, ObjectGuards, ThreadsAgree
  <2>2. Cardinality(ObjectGuards') = Cardinality(ObjectGuards) + 1
    BY <2>1, <1>0, FS_AddElement
  <2>3. SourceGuards' = SourceGuards /\ ThreadGuards' = ThreadGuards
    BY <1>8 DEF StartThread, SourceGuards, ThreadGuards
  <2> QED
    BY <1>8, <2>2, <2>3, CountsAreNatural DEF StartThread, GuardsCounted
<1>9. ASSUME NEW w \in Workers, ThreadBegins(w) PROVE GuardsCounted'
  <2>1. w \notin ThreadGuards /\ ThreadGuards' = ThreadGuards \cup {w}
    BY <1>9 DEF ThreadBegins, ThreadGuards
  <2>2. Cardinality(ThreadGuards') = Cardinality(ThreadGuards) + 1
    BY <2>1, <1>0, FS_AddElement
  <2>3. SourceGuards' = SourceGuards /\ ObjectGuards' = ObjectGuards
    BY <1>9 DEF ThreadBegins, SourceGuards, ObjectGuards
  <2> QED
    BY <1>9, <2>2, <2>3, CountsAreNatural DEF ThreadBegins, GuardsCounted
<1>10. ASSUME NEW w \in Workers, ThreadAttaches(w) PROVE GuardsCounted'
  <2>1. source[w] = "new" /\ AttachTrackedSource(w)
    BY <1>10 DEF ThreadAttaches, ThreadsAgree
  <2>2. ThreadGuards' = ThreadGuards
    BY <1>10 DEF ThreadAttaches, ThreadGuards
  <2>3. \A v \in Workers : worker'[v] = "new" <=> worker[v] = "new"
    BY <1>10 DEF ThreadAttaches
  <2> QED
    BY <2>1, <2>2, <2>3, <1>6
<1>11. ASSUME NEW w \in Workers, ThreadWakes(w) PROVE GuardsCounted'
  <2>1. UNCHANGED activity /\ SourceGuards' = SourceGuards
        /\ ObjectGuards' = ObjectGuards /\ ThreadGuards' = ThreadGuards
    BY <1>11 DEF ThreadWakes, SourceGuards, ObjectGuards, ThreadGuards
  <2> QED
    BY <2>1, CountSame
<1>12. ASSUME NEW w \in Workers, ThreadReturns(w) PROVE GuardsCounted'
  <2>1. w \in ThreadGuards /\ ThreadGuards' = ThreadGuards \ {w}
    BY <1>12 DEF ThreadReturns, ThreadGuards
  <2>2. Cardinality(ThreadGuards') = Cardinality(ThreadGuards) - 1
    BY <2>1, <1>0, FS_RemoveElement
  <2>3. SourceGuards' = SourceGuards /\ ObjectGuards' = ObjectGuards
    BY <1>12 DEF ThreadReturns, SourceGuards, ObjectGuards
  <2> QED
    BY <1>12, <2>2, <2>3, CountsAreNatural DEF ThreadReturns, GuardsCounted
<1>13. CASE CycleStep \/ PluginStep \/ \E s \in Sources : TimePasses(s)
  <2>1. \/ UNCHANGED <<source, worker, activity>>
        \/ \E s \in Sources : Dispatch(s) \/ DefaultContextRuns(s)
    BY <1>13 DEF CycleStep, PluginStep, InputReady, TimeoutReady, NestedTimeoutReady,
       Check, DispatchDone, FireEnds, Arm, TimePasses, LogIn, WorkerReaped, Load, Unload
  <2> QED
    BY <2>1, <1>1, <1>2
<1> QED
  BY <1>4, <1>5, <1>7, <1>8, <1>9, <1>10, <1>11, <1>12, <1>13
     DEF Next, CycleStep, PluginStep, ThreadStep

LEMMA StutterInv == Inv /\ UNCHANGED vars => Inv'
<1> SUFFICES ASSUME Inv, UNCHANGED vars PROVE Inv'
  OBVIOUS
<1> USE DEF vars, pump, host, cycle, work, plugin
<1>1. TypesKept' /\ ThreadsAgree' /\ CycleShape' /\ PumpFollowsPlugin'
  BY DEF Inv, TypesKept, ThreadsAgree, CycleShape, PumpFollowsPlugin
<1>2. GuardsCounted'
  BY DEF Inv, GuardsCounted, SourceGuards, ObjectGuards, ThreadGuards
<1>3. PlannedWork' /\ NothingIsStranded'
  BY DEF Inv, PlannedWork, NothingIsStranded, Attached
<1>4. HandlesAreOurs' /\ UnloadLeavesNothing'
  BY DEF Inv, HandlesAreOurs, UnloadLeavesNothing
<1> QED
  BY <1>1, <1>2, <1>3, <1>4 DEF Inv

\* What all the theorems below rest on.
THEOREM PumpInvariant == Spec => []Inv
<1>1. Inv /\ Next => Inv'
  BY TypesStep, ThreadsStep, CountStep, CycleShapeStep, HandlesStep, StrandedStep,
     UnloadedStep DEF Inv
<1>2. Inv /\ [Next]_vars => Inv'
  BY <1>1, StutterInv
<1> QED
  BY InitInv, <1>2, PTL DEF Spec

\* Every variable keeps its type, and the count of guards never runs below zero: each
\* guard is taken once and given back once.
THEOREM TypesAndGuards == Spec => []TypeOK
<1>1. Inv => TypeOK
  <2> SUFFICES ASSUME Inv PROVE TypeOK
    OBVIOUS
  <2>1. activity \in Nat
    BY CountsAreNatural DEF Inv, GuardsCounted
  <2> QED
    BY <2>1 DEF Inv, TypesKept, TypeOK
<1> QED
  BY <1>1, PumpInvariant, PTL

\* libpurple's loop serves exactly what the pump remembers, whatever fires or nests, and
\* attached work always has a timer or a watched signal that brings the pump back.
THEOREM PumpIsThere == Spec => []PumpServesItsWork
<1>1. Inv => PumpServesItsWork
  BY DEF Inv, PumpServesItsWork
<1> QED
  BY <1>1, PumpInvariant, PTL

\* However many sources and threads there are, an unload that succeeds leaves none.
THEOREM UnloadIsClean == Spec => []UnloadLeavesNothing
<1>1. Inv => UnloadLeavesNothing
  BY DEF Inv
<1> QED
  BY <1>1, PumpInvariant, PTL
=============================================================================
