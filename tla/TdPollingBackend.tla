--------------------------- MODULE TdPollingBackend ---------------------------
(***************************************************************************)
(* One TDLib session: its client, its polling thread and the reaper that   *)
(* joins it (td-polling-backend.cpp).                                      *)
(*                                                                         *)
(* Five threads take part: the owner (the GLib context that starts and     *)
(* closes the backend and runs its sources), the polling worker, the       *)
(* reaper, a thread inside sender(), and a helper that settles the receipt *)
(* of the closed update. todo[t] is what thread t still has to do, one     *)
(* entry per critical section of TdPollingBackendState::mutex; an entry    *)
(* that calls another function puts that function's entries before the     *)
(* rest. The owner runs a source when it has nothing to do.                *)
(***************************************************************************)
EXTENDS Naturals, Sequences, FiniteSets

CONSTANTS
  Callbacks,        \* the close callbacks ever passed to close()
  DeadlineOutcomes  \* whether prepareDeadline can make a source: of BOOLEAN

ASSUME DeadlineAssumption == DeadlineOutcomes \subseteq BOOLEAN

Threads == {"owner", "worker", "reaper", "sender", "helper"}
Results == {"Closed", "TimedOut", "Failed"}
Phases == {"New", "Starting", "Running", "CloseRequested", "Failed",
           "PhysicallyStopped"}

\* The Boolean members of TdPollingBackendState.
Flags == {"closeSent", "closeQueued", "abortWorker", "closedReceived",
          "physicalFinished", "closeRequestedDuringStart",
          "runtimeFailureReported", "logicalResultReported",
          "logicalFailureDeliveryPending", "logicalFailureSourceScheduled",
          "finalizerUnavailable", "closedDeliveryExpected",
          "closedDeliverySettled", "unexpectedClosedAwaitingReport",
          "failureHandoffPending", "failureFallbackPending", "reaperReady",
          "finalizationScheduled"}

\* What a thread may still have to do; each entry is explained at its action.
Entries ==
  {"complete", "completeUnexpected", "finishHandoff", "finishUnexpected", "handOff",
   "handOffUnexpected", "reportLogicalFailure", "scheduleLogical", "attachFinalizer",
   "markSendFailure", "unlockSend", "settle", "leaveDelivery", "failureCallback",
   "invokeCallbacks", "inCallback", "reserve", "prepareFinalizer", "createClient",
   "createWorker", "createReaper", "activate", "openGate", "close", "closeSend",
   "sendClose", "installDeadline", "lockSend", "send", "waitGate", "poll", "lockClose",
   "receive", "noteClosed", "deliverClosed", "destroyClient", "finish", "joinWorker"}

VARIABLES
  phase,           \* state->phase
  flags,           \* the members of Flags that are true
  logicalResult,   \* what close() reports
  physicalResult,  \* how the worker ended
  closeCallbacks,  \* callbacks waiting in state->closeCallbacks
  failureCallback, \* state->runtimeFailureCallback is set
  registry,        \* who holds the session key: "none", "own" or "other"
  client,          \* record->client exists
  sendMutex,       \* the thread holding record->sendMutex, or "none"
  gateOpen,        \* record->gateOpen
  receipt,         \* the closed update's receipt: "none", "held", "settled"
  deliveryExit,    \* the thread holding closedDeliveryExitMutex, or "none"
  started,         \* which of the worker and the reaper were created
  todo,            \* what each thread still has to do
  deadline,        \* the deadline source is attached
  failureSource,   \* the failure source: "none", "runtime" or "unexpected"
  logicalSources,  \* attached sources that deliver the logical failure
  finalizer,       \* the finalizer source: "none", "prepared", "attached"
  knownResults,    \* attached sources that report a known result
  closing,         \* locals of close(): [prepared, established]; TRUE until it fails
  invoking,        \* the callbacks invokeCallbacks runs: [callbacks, result]
  passed,          \* history: callbacks passed to close() so far
  reports,         \* history: the results each callback was given
  failureCalls,    \* history: how often the failure callback ran
  closeRequests    \* history: how often the close request was sent

resultVars == <<logicalResult, physicalResult>>
threadVars == <<client, sendMutex, gateOpen, started, registry>>
receiptVars == <<receipt, deliveryExit>>
sourceVars == <<deadline, failureSource, logicalSources, finalizer, knownResults>>
callbackVars == <<closeCallbacks, failureCallback, invoking>>
historyVars == <<passed, reports, failureCalls, closeRequests>>
vars == <<phase, flags, resultVars, threadVars, receiptVars, sourceVars,
          callbackVars, historyVars, todo, closing>>

Init ==
  /\ phase = "New"
  /\ flags = {}
  /\ logicalResult = "Failed"
  /\ physicalResult = "Failed"
  /\ closeCallbacks = {}
  /\ failureCallback = FALSE
  /\ registry \in {"none", "other"}
  /\ client = FALSE
  /\ sendMutex = "none"
  /\ gateOpen = FALSE
  /\ receipt = "none"
  /\ deliveryExit = "none"
  /\ started = {}
  /\ todo = [t \in Threads |-> <<>>]
  /\ deadline = FALSE
  /\ failureSource = "none"
  /\ logicalSources = 0
  /\ finalizer = "none"
  /\ knownResults = {}
  /\ closing = [prepared |-> TRUE, established |-> FALSE]
  /\ invoking = [callbacks |-> {}, result |-> "Failed"]
  /\ passed = {}
  /\ reports = [c \in Callbacks |-> <<>>]
  /\ failureCalls = 0
  /\ closeRequests = 0

-----------------------------------------------------------------------------
(* What a thread does next *)

At(t, entry) == todo[t] # <<>> /\ Head(todo[t]) = entry
Idle(t) == todo[t] = <<>>
Exited(t) == t \in started /\ Idle(t)

\* Thread t replaces the entry it is at by these.
Continue(t, entries) == todo' = [todo EXCEPT ![t] = entries \o Tail(@)]

\* An entry that is there only on a condition.
If(condition, entry) == IF condition THEN <<entry>> ELSE <<>>

\* The owner runs application code: between sources, in a callback, or in a
\* factory that start() calls.
ApplicationRuns ==
  Idle("owner") \/ At("owner", "inCallback") \/ At("owner", "createClient")

-----------------------------------------------------------------------------
(* Helpers on the Boolean members *)

ReceiptSettled(F) ==
  "closedDeliveryExpected" \in F => "closedDeliverySettled" \in F

\* Mutant: the receipt of the closed update is not waited for.
DeliveryReadyWithoutReceipt(F) ==
  F \cap {"failureHandoffPending", "failureFallbackPending",
          "unexpectedClosedAwaitingReport"} = {}

TerminalDeliveryReady(F) ==
  /\ ReceiptSettled(F)
  /\ F \cap {"failureHandoffPending", "failureFallbackPending",
             "unexpectedClosedAwaitingReport"} = {}

\* Mutant: the worker is finalized while the receipt is held.
FinalizerIgnoresReceipt(F) == "failureHandoffPending" \notin F

\* Mutant: the finalizer waits for the fallback that only it delivers.
FinalizerWaitsForFallback(F) == TerminalDeliveryReady(F)

FinalizerCanRun(F) == ReceiptSettled(F) /\ "failureHandoffPending" \notin F

CanClaimFinalizer(F) ==
  "reaperReady" \in F /\ FinalizerCanRun(F) /\ "finalizationScheduled" \notin F

\* claimReadyFinalizerLocked
ClaimReadyFinalizer(F) ==
  IF CanClaimFinalizer(F) THEN F \cup {"finalizationScheduled"} ELSE F

CanBeginHandoff(F) ==
  F \cap {"runtimeFailureReported", "failureHandoffPending",
          "failureFallbackPending"} = {}

\* beginRuntimeFailureHandoffLocked
BeginHandoff(F) ==
  IF CanBeginHandoff(F) THEN F \cup {"failureHandoffPending"} ELSE F

\* takeFailureFallbackLocked, but for the callback it moves out.
TakeFallback(F) ==
  IF "failureFallbackPending" \in F
  THEN (F \ {"failureFallbackPending", "failureHandoffPending",
             "unexpectedClosedAwaitingReport"}) \cup {"runtimeFailureReported"}
  ELSE F

NeedsLogicalSource(F) ==
  "logicalFailureDeliveryPending" \in F /\ "logicalFailureSourceScheduled" \notin F

\* Mutant: it is not noted that the source was scheduled.
ScheduleUnnoted(F) == F

ScheduleLogical(F) ==
  IF NeedsLogicalSource(F) THEN F \cup {"logicalFailureSourceScheduled"} ELSE F

LogicalDelivery == {"logicalFailureDeliveryPending",
                    "logicalFailureSourceScheduled"}

\* Mutant: the logical failure that waited is forgotten.
ReleaseFinalizerOnly(t, F) ==
  /\ flags' = ClaimReadyFinalizer(F)
  /\ Continue(t, If(CanClaimFinalizer(F), "attachFinalizer"))

\* The end of completeRuntimeFailureDelivery and of the failed hand-over: F, and
\* the logical failure and the finalizer that waited for the hand-over.
ReleaseAfterHandoff(t, F) ==
  LET G == ScheduleLogical(F)
  IN /\ flags' = ClaimReadyFinalizer(G)
     /\ Continue(t, If(NeedsLogicalSource(F), "scheduleLogical")
                    \o If(CanClaimFinalizer(G), "attachFinalizer"))

-----------------------------------------------------------------------------
(* Failure delivery, on whatever thread calls it *)

\* completeRuntimeFailureDelivery
CompleteDelivery(t) ==
  /\ At(t, "complete") \/ At(t, "completeUnexpected")
  /\ IF "failureHandoffPending" \notin flags
     THEN Continue(t, <<>>) /\ UNCHANGED flags
     ELSE ReleaseAfterHandoff(t,
            (flags \ ({"failureHandoffPending"} \cup
               IF At(t, "completeUnexpected")
               THEN {"unexpectedClosedAwaitingReport"} ELSE {}))
            \cup {"runtimeFailureReported"})
  /\ UNCHANGED <<phase, resultVars, threadVars, receiptVars, sourceVars,
                 callbackVars, historyVars, closing>>

\* finishRuntimeFailureHandoff takes the callback and decides how to run it. A
\* receipt settled on the owner runs it directly.
FinishHandoff(t) ==
  /\ At(t, "finishHandoff") \/ At(t, "finishUnexpected")
  /\ LET unexpected == At(t, "finishUnexpected")
         complete == IF unexpected THEN "completeUnexpected" ELSE "complete"
     IN CASE "failureHandoffPending" \notin flags -> Continue(t, <<>>)
          [] "failureHandoffPending" \in flags /\ unexpected /\ t = "owner" ->
               Continue(t, If(failureCallback, "failureCallback") \o <<complete>>)
          [] OTHER ->
               Continue(t, IF ~failureCallback THEN <<complete>>
                           ELSE IF unexpected THEN <<"handOffUnexpected">>
                                              ELSE <<"handOff">>)
  /\ failureCallback' = (failureCallback /\ "failureHandoffPending" \notin flags)
  /\ UNCHANGED <<phase, flags, resultVars, threadVars, receiptVars, sourceVars,
                 closeCallbacks, invoking, historyVars, closing>>

\* scheduleFailureCallback attaches the source.
HandOff(t) ==
  /\ At(t, "handOff") \/ At(t, "handOffUnexpected")
  /\ failureSource' = IF At(t, "handOff") THEN "runtime" ELSE "unexpected"
  /\ Continue(t, <<>>)
  /\ UNCHANGED <<phase, flags, resultVars, threadVars, receiptVars, deadline,
                 logicalSources, finalizer, knownResults, callbackVars,
                 historyVars, closing>>

\* Mutant: a callback whose source is refused is lost.
HandOffLosesCallback(t) ==
  /\ At(t, "handOff") \/ At(t, "handOffUnexpected")
  /\ ReleaseAfterHandoff(t,
       (flags \ {"failureHandoffPending"}) \cup {"failureFallbackPending"} \cup
       IF "logicalResultReported" \in flags
       THEN {"logicalFailureDeliveryPending"} ELSE {})
  /\ UNCHANGED <<phase, resultVars, threadVars, receiptVars, sourceVars,
                 callbackVars, historyVars, closing>>

\* It could not: the callback goes back and waits for a fallback delivery.
HandOffFails(t) ==
  /\ At(t, "handOff") \/ At(t, "handOffUnexpected")
  /\ failureCallback' = TRUE
  /\ ReleaseAfterHandoff(t,
       (flags \ {"failureHandoffPending"}) \cup {"failureFallbackPending"} \cup
       IF "logicalResultReported" \in flags
       THEN {"logicalFailureDeliveryPending"} ELSE {})
  /\ UNCHANGED <<phase, resultVars, threadVars, receiptVars, sourceVars,
                 closeCallbacks, invoking, historyVars, closing>>

\* reportLogicalFailure
ReportLogicalFailure(t) ==
  /\ At(t, "reportLogicalFailure")
  /\ LET needed == \/ "logicalResultReported" \notin flags
                   \/ "logicalFailureDeliveryPending" \in flags
                   \/ "failureFallbackPending" \in flags
         F == flags \cup {"logicalResultReported", "logicalFailureDeliveryPending"}
         schedule == needed /\ "failureHandoffPending" \notin F
                            /\ NeedsLogicalSource(F)
     IN /\ flags' = IF ~needed THEN flags
                    ELSE IF schedule THEN ScheduleLogical(F) ELSE F
        /\ Continue(t, If(schedule, "scheduleLogical"))
  /\ logicalResult' = IF "logicalResultReported" \in flags THEN logicalResult
                                                           ELSE "Failed"
  /\ UNCHANGED <<phase, physicalResult, threadVars, receiptVars, sourceVars,
                 callbackVars, historyVars, closing>>

\* scheduleLogicalFailureDelivery
ScheduleLogicalSource(t) ==
  /\ At(t, "scheduleLogical")
  /\ logicalSources' = logicalSources + 1
  /\ Continue(t, <<>>)
  /\ UNCHANGED <<phase, flags, resultVars, threadVars, receiptVars, deadline,
                 failureSource, finalizer, knownResults, callbackVars,
                 historyVars, closing>>

\* attachPreparedFinalizer, and what it does when the source is refused.
AttachFinalizer(t) ==
  /\ At(t, "attachFinalizer")
  /\ \/ /\ finalizer' = "attached"
        /\ Continue(t, <<>>)
        /\ UNCHANGED flags
     \/ /\ flags' = flags \cup {"finalizerUnavailable"}
        /\ Continue(t, <<"reportLogicalFailure">>)
        /\ UNCHANGED finalizer
  /\ UNCHANGED <<phase, resultVars, threadVars, receiptVars, deadline,
                 failureSource, logicalSources, knownResults, callbackVars,
                 historyVars, closing>>

\* markSendFailure, with record->sendMutex held by its caller.
MarkSendFailure(t) ==
  /\ At(t, "markSendFailure")
  /\ LET late == flags \cap {"closedReceived", "physicalFinished"} # {}
         F == flags \cup {"abortWorker"}
     IN /\ flags' = IF late THEN flags ELSE BeginHandoff(F)
        /\ phase' = IF late THEN phase ELSE "Failed"
        /\ Continue(t, IF late THEN <<>>
                       ELSE If(CanBeginHandoff(F), "finishHandoff")
                            \o <<"reportLogicalFailure">>)
        /\ closing' = IF t = "owner" THEN [closing EXCEPT !.established = late]
                                     ELSE closing
  /\ UNCHANGED <<resultVars, threadVars, receiptVars, sourceVars, callbackVars,
                 historyVars>>

UnlockSend(t) ==
  /\ At(t, "unlockSend")
  /\ sendMutex' = "none"
  /\ Continue(t, <<>>)
  /\ UNCHANGED <<phase, flags, resultVars, client, gateOpen, started, registry,
                 receiptVars, sourceVars, callbackVars, historyVars, closing>>

\* invokeFailureCallback runs the application's callback on the owner.
InvokeFailure ==
  /\ At("owner", "failureCallback")
  /\ failureCalls' = failureCalls + 1
  /\ Continue("owner", <<"inCallback">>)
  /\ UNCHANGED <<phase, flags, resultVars, threadVars, receiptVars, sourceVars,
                 callbackVars, passed, reports, closeRequests, closing>>

\* invokeCallbacks
InvokeCallbacks ==
  /\ At("owner", "invokeCallbacks")
  /\ reports' = [c \in Callbacks |->
       IF c \in invoking.callbacks THEN Append(reports[c], invoking.result)
                                   ELSE reports[c]]
  /\ invoking' = [invoking EXCEPT !.callbacks = {}]
  /\ Continue("owner", <<"inCallback">>)
  /\ UNCHANGED <<phase, flags, resultVars, threadVars, receiptVars, sourceVars,
                 closeCallbacks, failureCallback, passed, failureCalls,
                 closeRequests, closing>>

CallbackReturns ==
  /\ At("owner", "inCallback")
  /\ Continue("owner", <<>>)
  /\ UNCHANGED <<phase, flags, resultVars, threadVars, receiptVars, sourceVars,
                 callbackVars, historyVars, closing>>

-----------------------------------------------------------------------------
(* start(), on the owner *)

\* start() is called, and again while another session holds the key.
Start ==
  /\ Idle("owner")
  /\ phase = "New"
  /\ phase' = "Starting"
  /\ todo' = [todo EXCEPT !["owner"] = <<"reserve">>]
  /\ UNCHANGED <<flags, resultVars, threadVars, receiptVars, sourceVars,
                 callbackVars, historyVars, closing>>

\* WorkerRegistry::reserve, or SessionBusy.
Reserve ==
  /\ At("owner", "reserve")
  /\ \/ /\ registry = "none"
        /\ registry' = "own"
        /\ Continue("owner", <<"prepareFinalizer">>)
        /\ UNCHANGED phase
     \/ /\ registry = "other"
        /\ phase' = "New"
        /\ Continue("owner", <<>>)
        /\ UNCHANGED registry
  /\ UNCHANGED <<flags, resultVars, client, sendMutex, gateOpen, started,
                 receiptVars, sourceVars, callbackVars, historyVars, closing>>

\* The other session with the same key is finalized.
OtherSessionEnds ==
  /\ registry = "other"
  /\ registry' = "none"
  /\ UNCHANGED <<phase, flags, resultVars, client, sendMutex, gateOpen, started,
                 receiptVars, sourceVars, callbackVars, historyVars, todo,
                 closing>>

\* The finalizer source is prepared before the client and the threads exist.
PrepareFinalizer ==
  /\ At("owner", "prepareFinalizer")
  /\ finalizer' = "prepared"
  /\ Continue("owner", <<"createClient">>)
  /\ UNCHANGED <<phase, flags, resultVars, threadVars, receiptVars, deadline,
                 failureSource, logicalSources, knownResults, callbackVars,
                 historyVars, closing>>

\* The source or the client cannot be made: nothing is left to clean up.
StartFails ==
  /\ At("owner", "prepareFinalizer") \/ At("owner", "createClient")
  /\ finalizer' = "none"
  /\ registry' = "none"
  /\ phase' = "Failed"
  /\ flags' = flags \ {"closeRequestedDuringStart"}
  /\ Continue("owner", <<"reportLogicalFailure">>)
  /\ UNCHANGED <<resultVars, client, sendMutex, gateOpen, started, receiptVars,
                 deadline, failureSource, logicalSources, knownResults,
                 callbackVars, historyVars, closing>>

\* clientFactory made a client; the caller may have given a failure callback.
CreateClient ==
  /\ At("owner", "createClient")
  /\ client' = TRUE
  /\ failureCallback' \in BOOLEAN
  /\ Continue("owner", <<"createWorker">>)
  /\ UNCHANGED <<phase, flags, resultVars, sendMutex, gateOpen, started, registry,
                 receiptVars, sourceVars, closeCallbacks, invoking, historyVars,
                 closing>>

CreateWorker ==
  /\ At("owner", "createWorker")
  /\ started' = started \cup {"worker"}
  /\ todo' = [todo EXCEPT !["owner"] = <<"createReaper">> \o Tail(@),
                         !["worker"] = <<"waitGate">>]
  /\ UNCHANGED <<phase, flags, resultVars, client, sendMutex, gateOpen, registry,
                 receiptVars, sourceVars, callbackVars, historyVars, closing>>

CreateReaper ==
  /\ At("owner", "createReaper")
  /\ started' = started \cup {"reaper"}
  /\ todo' = [todo EXCEPT !["owner"] = <<"activate">> \o Tail(@),
                         !["reaper"] = <<"joinWorker">>]
  /\ UNCHANGED <<phase, flags, resultVars, client, sendMutex, gateOpen, registry,
                 receiptVars, sourceVars, callbackVars, historyVars, closing>>

\* A thread cannot be created. The record stays registered for good; a worker
\* that waits at the gate is let through to destroy the client.
ThreadFails ==
  /\ At("owner", "createWorker") \/ At("owner", "createReaper")
  /\ phase' = "Failed"
  /\ flags' = (flags \cup {"abortWorker"}) \ {"closeRequestedDuringStart"}
  /\ gateOpen' = ("worker" \in started)
  /\ failureCallback' = FALSE
  /\ Continue("owner", <<"reportLogicalFailure">>)
  /\ UNCHANGED <<resultVars, client, sendMutex, started, registry, receiptVars,
                 sourceVars, closeCallbacks, invoking, historyVars, closing>>

\* The activation request is accepted: the session runs, and is closed at once
\* when a factory asked for that.
Activate ==
  /\ At("owner", "activate")
  /\ sendMutex = "none"
  /\ phase' = "Running"
  /\ flags' = flags \ {"closeRequestedDuringStart"}
  /\ Continue("owner", If("closeRequestedDuringStart" \in flags, "close")
                       \o <<"openGate">>)
  /\ UNCHANGED <<resultVars, threadVars, receiptVars, sourceVars, callbackVars,
                 historyVars, closing>>

ActivationFails ==
  /\ At("owner", "activate")
  /\ sendMutex = "none"
  /\ phase' = "Failed"
  /\ flags' = (flags \cup {"abortWorker"}) \ {"closeRequestedDuringStart"}
  /\ Continue("owner", <<"openGate", "reportLogicalFailure">>)
  /\ UNCHANGED <<resultVars, threadVars, receiptVars, sourceVars, callbackVars,
                 historyVars, closing>>

OpenGate ==
  /\ At("owner", "openGate")
  /\ gateOpen' = TRUE
  /\ Continue("owner", <<>>)
  /\ UNCHANGED <<phase, flags, resultVars, client, sendMutex, started, registry,
                 receiptVars, sourceVars, callbackVars, historyVars, closing>>

-----------------------------------------------------------------------------
(* sender(), on a thread of its own *)

Sendable ==
  /\ phase = "Running"
  /\ flags \cap {"abortWorker", "closedReceived", "physicalFinished"} = {}

\* The first look at the state; when it fails the sender throws at once.
SenderCalled ==
  /\ Idle("sender")
  /\ Sendable
  /\ todo' = [todo EXCEPT !["sender"] = <<"lockSend">>]
  /\ UNCHANGED <<phase, flags, resultVars, threadVars, receiptVars, sourceVars,
                 callbackVars, historyVars, closing>>

\* Mutant: the state is not looked at again under sendMutex.
SenderLocksUnchecked ==
  /\ At("sender", "lockSend")
  /\ sendMutex = "none"
  /\ sendMutex' = "sender"
  /\ Continue("sender", <<"send">>)
  /\ UNCHANGED <<phase, flags, resultVars, client, gateOpen, started, registry,
                 receiptVars, sourceVars, callbackVars, historyVars, closing>>

\* The second look, under sendMutex.
SenderLocks ==
  /\ At("sender", "lockSend")
  /\ sendMutex = "none"
  /\ \/ /\ Sendable /\ client
        /\ sendMutex' = "sender"
        /\ Continue("sender", <<"send">>)
     \/ /\ ~(Sendable /\ client)
        /\ Continue("sender", <<>>)
        /\ UNCHANGED sendMutex
  /\ UNCHANGED <<phase, flags, resultVars, client, gateOpen, started, registry,
                 receiptVars, sourceVars, callbackVars, historyVars, closing>>

\* client->send returns, or throws.
SenderSends ==
  /\ At("sender", "send")
  /\ \/ Continue("sender", <<"unlockSend">>)
     \/ Continue("sender", <<"markSendFailure", "unlockSend">>)
  /\ UNCHANGED <<phase, flags, resultVars, threadVars, receiptVars, sourceVars,
                 callbackVars, historyVars, closing>>

-----------------------------------------------------------------------------
(* The polling worker *)

WaitGate ==
  /\ At("worker", "waitGate")
  /\ gateOpen
  /\ Continue("worker", IF "abortWorker" \in flags THEN <<"destroyClient">>
                                                   ELSE <<"poll">>)
  /\ UNCHANGED <<phase, flags, resultVars, threadVars, receiptVars, sourceVars,
                 callbackVars, historyVars, closing>>

AfterQueuedClose == IF "abortWorker" \in flags THEN <<"destroyClient">>
                                               ELSE <<"receive">>

\* sendQueuedClose: is there a close request to send?
Poll ==
  /\ At("worker", "poll")
  /\ Continue("worker", IF "closeQueued" \in flags THEN <<"lockClose">>
                                                   ELSE AfterQueuedClose)
  /\ UNCHANGED <<phase, flags, resultVars, threadVars, receiptVars, sourceVars,
                 callbackVars, historyVars, closing>>

\* sendQueuedClose under sendMutex.
LockClose ==
  /\ At("worker", "lockClose")
  /\ sendMutex = "none"
  /\ LET send == /\ "closeQueued" \in flags
                 /\ client
                 /\ flags \cap {"abortWorker", "closedReceived",
                               "physicalFinished"} = {}
     IN /\ flags' = (flags \ {"closeQueued"}) \cup
                    IF send THEN {"closeSent"} ELSE {}
        /\ sendMutex' = IF send THEN "worker" ELSE "none"
        /\ Continue("worker", IF send THEN <<"sendClose">> ELSE AfterQueuedClose)
  /\ UNCHANGED <<phase, resultVars, client, gateOpen, started, registry,
                 receiptVars, sourceVars, callbackVars, historyVars, closing>>

WorkerSendsClose ==
  /\ At("worker", "sendClose")
  /\ closeRequests' = closeRequests + 1
  /\ \/ Continue("worker", <<"unlockSend", "receive">>)
     \/ Continue("worker", <<"markSendFailure", "unlockSend", "destroyClient">>)
  /\ UNCHANGED <<phase, flags, resultVars, threadVars, receiptVars, sourceVars,
                 callbackVars, passed, reports, failureCalls, closing>>

\* receive() returns nothing, an update or a response: the next round.
Receive ==
  /\ At("worker", "receive")
  /\ Continue("worker", IF "abortWorker" \in flags THEN <<"destroyClient">>
                                                   ELSE <<"poll">>)
  /\ UNCHANGED <<phase, flags, resultVars, threadVars, receiptVars, sourceVars,
                 callbackVars, historyVars, closing>>

\* receive() throws.
ReceiveFails ==
  /\ At("worker", "receive")
  /\ phase' = "Failed"
  /\ flags' = BeginHandoff(flags \cup {"abortWorker"})
  /\ Continue("worker", If(CanBeginHandoff(flags), "finishHandoff")
                        \o <<"reportLogicalFailure", "destroyClient">>)
  /\ UNCHANGED <<resultVars, threadVars, receiptVars, sourceVars, callbackVars,
                 historyVars, closing>>

\* receive() returns the closed update, and nobody has aborted the worker yet.
ReceiveClosed ==
  /\ At("worker", "receive")
  /\ Continue("worker", IF "abortWorker" \in flags THEN <<"destroyClient">>
                                                   ELSE <<"noteClosed">>)
  /\ UNCHANGED <<phase, flags, resultVars, threadVars, receiptVars, sourceVars,
                 callbackVars, historyVars, closing>>

NoteClosed ==
  /\ At("worker", "noteClosed")
  /\ flags' =
       (flags \ {"unexpectedClosedAwaitingReport"})
       \cup {"closedReceived", "closedDeliveryExpected"}
       \cup IF phase = "Running" THEN {"unexpectedClosedAwaitingReport"} ELSE {}
  /\ Continue("worker", <<"deliverClosed">>)
  /\ UNCHANGED <<phase, resultVars, threadVars, receiptVars, sourceVars,
                 callbackVars, historyVars, closing>>

\* The receiver keeps the receipt until it has delivered the update, or it drops
\* the update and settles the receipt on this thread.
DeliverClosed ==
  /\ At("worker", "deliverClosed")
  /\ \/ /\ receipt' = "held"
        /\ Continue("worker", <<"destroyClient">>)
     \/ /\ receipt' = "settled"
        /\ Continue("worker", <<"settle", "destroyClient">>)
  /\ UNCHANGED <<phase, flags, resultVars, threadVars, deliveryExit, sourceVars,
                 callbackVars, historyVars, closing>>

DestroyClient ==
  /\ At("worker", "destroyClient")
  /\ sendMutex = "none"
  /\ client' = FALSE
  /\ Continue("worker", <<"finish">>)
  /\ UNCHANGED <<phase, flags, resultVars, sendMutex, gateOpen, started, registry,
                 receiptVars, sourceVars, callbackVars, historyVars, closing>>

\* The client's destructor returned, which nothing bounds.
FinishWorker ==
  /\ At("worker", "finish")
  /\ physicalResult' = IF "closedReceived" \in flags THEN "Closed" ELSE "Failed"
  /\ flags' = flags \cup {"physicalFinished"}
  /\ phase' = "PhysicallyStopped"
  /\ Continue("worker", <<>>)
  /\ UNCHANGED <<logicalResult, threadVars, receiptVars, sourceVars,
                 callbackVars, historyVars, closing>>

-----------------------------------------------------------------------------
(* The reaper, and the receipt of the closed update *)

\* runPollingReaper, markReaperReady
JoinWorker ==
  /\ At("reaper", "joinWorker")
  /\ Exited("worker")
  /\ LET F == flags \cup {"reaperReady"}
     IN /\ flags' = ClaimReadyFinalizer(F)
        /\ Continue("reaper", If(CanClaimFinalizer(F), "attachFinalizer"))
  /\ UNCHANGED <<phase, resultVars, threadVars, receiptVars, sourceVars,
                 callbackVars, historyVars, closing>>

\* The transport has delivered or dropped the closed update, on the owner, or a
\* helper thread lets go of the receipt.
ReceiptReleased(t) ==
  /\ t \in {"owner", "helper"}
  /\ Idle(t)
  /\ receipt = "held"
  /\ receipt' = "settled"
  /\ todo' = [todo EXCEPT ![t] = <<"settle">>]
  /\ UNCHANGED <<phase, flags, resultVars, threadVars, deliveryExit, sourceVars,
                 callbackVars, historyVars, closing>>

\* settleClosedDelivery, under closedDeliveryExitMutex
SettleClosedDelivery(t) ==
  /\ At(t, "settle")
  /\ deliveryExit = "none"
  /\ deliveryExit' = t
  /\ LET F == flags \cup {"closedDeliverySettled"}
         report == "unexpectedClosedAwaitingReport" \in F /\ CanBeginHandoff(F)
     IN /\ flags' = IF report THEN BeginHandoff(F) ELSE ClaimReadyFinalizer(F)
        /\ Continue(t, If(report, "finishUnexpected")
                       \o If(~report /\ CanClaimFinalizer(F), "attachFinalizer")
                       \o <<"leaveDelivery">>)
  /\ UNCHANGED <<phase, resultVars, threadVars, receipt, sourceVars,
                 callbackVars, historyVars, closing>>

LeaveDelivery(t) ==
  /\ At(t, "leaveDelivery")
  /\ deliveryExit' = "none"
  /\ Continue(t, <<>>)
  /\ UNCHANGED <<phase, flags, resultVars, threadVars, receipt, sourceVars,
                 callbackVars, historyVars, closing>>

-----------------------------------------------------------------------------
(* close(), on the owner *)

\* Mutant: a later close() hears how the worker ended.
ReportPhysical(callbacks, result) ==
  knownResults' =
    knownResults \cup [callback : callbacks, result : {physicalResult}]

\* scheduleResultCallback for each of these callbacks.
ReportKnown(callbacks, result) ==
  knownResults' = knownResults \cup [callback : callbacks, result : {result}]

\* The decision close() takes on entry. own is the callback it was given, as a
\* set of at most one; rest is what its caller still has to do.
CloseEnters(own, rest) ==
  LET ordered == /\ "logicalResultReported" \in flags
                 /\ logicalResult = "Failed"
                 /\ flags \cap {"logicalFailureDeliveryPending",
                               "failureHandoffPending",
                               "failureFallbackPending"} # {}
      known == "logicalResultReported" \in flags /\ ~ordered
      open == "logicalResultReported" \notin flags
      finished == "physicalFinished" \in flags
      ready == phase # "New" /\ finished /\ TerminalDeliveryReady(flags)
      waits == open /\ phase # "New" /\ ~ready
      begins == waits /\ IF finished THEN ~deadline ELSE phase = "Running"
      failedAlready == waits /\ ~finished
                       /\ phase \notin {"Running", "Starting"}
                       /\ (phase = "Failed" \/ "abortWorker" \in flags)
  IN /\ \/ /\ ordered
           /\ flags' = flags \cup {"logicalFailureDeliveryPending"}
           /\ closeCallbacks' = closeCallbacks \cup own
           /\ UNCHANGED <<phase, logicalResult, knownResults>>
        \/ /\ known
           /\ ReportKnown(own, logicalResult)
           /\ UNCHANGED <<phase, flags, logicalResult, closeCallbacks>>
        \/ /\ open /\ phase = "New"
           /\ phase' = "PhysicallyStopped"
           /\ flags' = flags \cup {"logicalResultReported"}
           /\ logicalResult' = "Closed"
           /\ ReportKnown(own, "Closed")
           /\ UNCHANGED closeCallbacks
        \/ /\ open /\ ready
           /\ flags' = flags \cup {"logicalResultReported"}
           /\ logicalResult' = physicalResult
           /\ ReportKnown(closeCallbacks \cup own, physicalResult)
           /\ closeCallbacks' = {}
           /\ UNCHANGED phase
        \/ /\ waits
           /\ closeCallbacks' = closeCallbacks \cup own
           /\ phase' = IF ~finished /\ phase = "Running" THEN "CloseRequested"
                                                         ELSE phase
           /\ flags' = IF ~finished /\ phase = "Starting"
                       THEN flags \cup {"closeRequestedDuringStart"} ELSE flags
           /\ UNCHANGED <<logicalResult, knownResults>>
     /\ todo' = [todo EXCEPT !["owner"] =
          If(begins, "closeSend") \o If(failedAlready, "reportLogicalFailure") \o rest]
     /\ closing' \in IF begins THEN [prepared : DeadlineOutcomes, established : {FALSE}]
                                ELSE {closing}
     /\ UNCHANGED <<physicalResult, threadVars, receiptVars, deadline,
                    failureSource, logicalSources, finalizer, failureCallback,
                    invoking, reports, failureCalls, closeRequests>>

\* The application closes the backend, with a callback or, as the destructor
\* does, without one.
Close(own) ==
  /\ ApplicationRuns
  /\ passed' = passed \cup own
  /\ CloseEnters(own, todo["owner"])

\* start() closes for the caller that asked while it was starting.
CloseAfterStart ==
  /\ At("owner", "close")
  /\ UNCHANGED passed
  /\ CloseEnters({}, Tail(todo["owner"]))

InProgress == flags \cap {"closedReceived", "physicalFinished"} # {}

\* No close request was sent or queued, and none is pointless yet.
MaySendClose ==
  flags \cap {"closeSent", "closeQueued", "abortWorker"} = {} /\ ~InProgress

\* close() has sendMutex and sends the request itself.
CloseLocks ==
  /\ At("owner", "closeSend")
  /\ sendMutex = "none"
  /\ LET send == MaySendClose /\ client
     IN /\ flags' = IF send THEN flags \cup {"closeSent"} ELSE flags
        /\ sendMutex' = IF send THEN "owner" ELSE "none"
        /\ Continue("owner", If(send, "sendClose") \o <<"installDeadline">>)
  /\ closing' = [closing EXCEPT !.established = InProgress]
  /\ UNCHANGED <<phase, resultVars, client, gateOpen, started, registry,
                 receiptVars, sourceVars, callbackVars, historyVars>>

\* try_to_lock fails: the worker will send the request when the sender clears.
CloseQueues ==
  /\ At("owner", "closeSend")
  /\ sendMutex # "none"
  /\ flags' = IF MaySendClose THEN flags \cup {"closeQueued"} ELSE flags
  /\ closing' = [closing EXCEPT !.established = InProgress \/ MaySendClose]
  /\ Continue("owner", <<"installDeadline">>)
  /\ UNCHANGED <<phase, resultVars, threadVars, receiptVars, sourceVars,
                 callbackVars, historyVars>>

OwnerSendsClose ==
  /\ At("owner", "sendClose")
  /\ closeRequests' = closeRequests + 1
  /\ \/ /\ Continue("owner", <<"unlockSend">>)
        /\ closing' = [closing EXCEPT !.established = TRUE]
     \/ /\ Continue("owner", <<"markSendFailure", "unlockSend">>)
        /\ UNCHANGED closing
  /\ UNCHANGED <<phase, flags, resultVars, threadVars, receiptVars, sourceVars,
                 callbackVars, passed, reports, failureCalls>>

\* installPreparedDeadline, and what close() does when there is no deadline.
InstallDeadline ==
  /\ At("owner", "installDeadline")
  /\ LET finished == "physicalFinished" \in flags /\ TerminalDeliveryReady(flags)
         needed == ~finished /\ "logicalResultReported" \notin flags
         attach == closing.established /\ closing.prepared /\ needed /\ ~deadline
         notNeeded == closing.established
                      /\ IF closing.prepared THEN ~needed ELSE finished
     IN /\ deadline' = (deadline \/ attach)
        /\ Continue("owner", If(~attach /\ ~notNeeded, "reportLogicalFailure"))
  /\ UNCHANGED <<phase, flags, resultVars, threadVars, receiptVars,
                 failureSource, logicalSources, finalizer, knownResults,
                 callbackVars, historyVars, closing>>

-----------------------------------------------------------------------------
(* The sources of the owner's context *)

\* Mutant: the callbacks stay in the state.
TakeCopies(F, result) ==
  /\ invoking' = [callbacks |-> closeCallbacks, result |-> result]
  /\ failureCallback' = (failureCallback /\ "failureFallbackPending" \notin F)
  /\ UNCHANGED closeCallbacks
  /\ todo' = [todo EXCEPT !["owner"] =
       If("failureFallbackPending" \in F /\ failureCallback, "failureCallback")
       \o <<"invokeCallbacks">>]

\* Mutant: the close callbacks run before the failure they stand for.
TakeFailureLast(F, result) ==
  /\ invoking' = [callbacks |-> closeCallbacks, result |-> result]
  /\ closeCallbacks' = {}
  /\ failureCallback' = (failureCallback /\ "failureFallbackPending" \notin F)
  /\ todo' = [todo EXCEPT !["owner"] = <<"invokeCallbacks">> \o
       If("failureFallbackPending" \in F /\ failureCallback, "failureCallback")]

\* Callbacks leave the state and run, after the fallback failure if F has one.
TakeCallbacks(F, result) ==
  /\ invoking' = [callbacks |-> closeCallbacks, result |-> result]
  /\ closeCallbacks' = {}
  /\ failureCallback' = (failureCallback /\ "failureFallbackPending" \notin F)
  /\ todo' = [todo EXCEPT !["owner"] =
       If("failureFallbackPending" \in F /\ failureCallback, "failureCallback")
       \o <<"invokeCallbacks">>]

\* reportDeadline
DeadlineExpires ==
  /\ Idle("owner")
  /\ deadline
  /\ deadline' = FALSE
  /\ \/ /\ {"logicalFailureDeliveryPending", "failureHandoffPending"}
             \subseteq flags
        /\ flags' = flags \ LogicalDelivery
        /\ logicalResult' = "TimedOut"
        /\ TakeCallbacks({}, "TimedOut")
     \/ /\ "logicalFailureDeliveryPending" \in flags
        /\ "failureHandoffPending" \notin flags
        /\ flags' = TakeFallback(flags \ LogicalDelivery)
        /\ TakeCallbacks(flags, logicalResult)
        /\ UNCHANGED logicalResult
     \/ /\ flags \cap {"logicalFailureDeliveryPending",
                       "logicalResultReported"} = {}
        /\ LET F == TakeFallback(flags)
           IN /\ logicalResult' =
                   IF "physicalFinished" \in F /\ TerminalDeliveryReady(F)
                   THEN physicalResult ELSE "TimedOut"
              /\ flags' = F \cup {"logicalResultReported"}
        /\ TakeCallbacks(flags, logicalResult')
     \/ /\ "logicalFailureDeliveryPending" \notin flags
        /\ "logicalResultReported" \in flags
        /\ UNCHANGED <<flags, logicalResult, callbackVars, todo>>
  /\ UNCHANGED <<phase, physicalResult, threadVars, receiptVars, failureSource,
                 logicalSources, finalizer, knownResults, historyVars, closing>>

\* runFailureCallback
FailureSourceRuns ==
  /\ Idle("owner")
  /\ failureSource # "none"
  /\ failureSource' = "none"
  /\ todo' = [todo EXCEPT !["owner"] = <<"failureCallback",
       IF failureSource = "runtime" THEN "complete" ELSE "completeUnexpected">>]
  /\ UNCHANGED <<phase, flags, resultVars, threadVars, receiptVars, deadline,
                 logicalSources, finalizer, knownResults, callbackVars,
                 historyVars, closing>>

\* reportLogicalFailureOnContext, deliverLogicalFailure
LogicalSourceRuns ==
  /\ Idle("owner")
  /\ logicalSources > 0
  /\ logicalSources' = logicalSources - 1
  /\ \/ /\ "failureHandoffPending" \in flags
        /\ flags' = flags \ {"logicalFailureSourceScheduled"}
        /\ UNCHANGED <<callbackVars, todo>>
     \/ /\ flags \cap {"failureHandoffPending",
                       "logicalFailureDeliveryPending"} = {}
        /\ UNCHANGED <<flags, callbackVars, todo>>
     \/ /\ "failureHandoffPending" \notin flags
        /\ "logicalFailureDeliveryPending" \in flags
        /\ flags' = TakeFallback(flags \ LogicalDelivery)
        /\ TakeCallbacks(flags, logicalResult)
  /\ UNCHANGED <<phase, resultVars, threadVars, receiptVars, deadline,
                 failureSource, finalizer, knownResults, historyVars, closing>>

\* finalizeWorker reports to the callbacks that wait.
FinalizerReports(F) ==
  "logicalFailureDeliveryPending" \in F \/ "logicalResultReported" \notin F

\* finalizeWorker, once it finds the reaper gone and no receipt being settled; it
\* runs again until then.
FinalizeWorker ==
  /\ Idle("owner")
  /\ finalizer = "attached"
  /\ Exited("reaper")
  /\ deliveryExit = "none"
  /\ "failureHandoffPending" \notin flags
  /\ LET pending == "logicalFailureDeliveryPending" \in flags
         report == FinalizerReports(flags)
         result == IF pending THEN logicalResult ELSE physicalResult
         F == TakeFallback(IF pending THEN flags \ LogicalDelivery ELSE flags)
         fallback == "failureFallbackPending" \in flags /\ failureCallback
     IN /\ flags' = IF report THEN F \cup {"logicalResultReported"} ELSE F
        /\ logicalResult' = IF report THEN result ELSE logicalResult
        /\ invoking' = [callbacks |-> IF report THEN closeCallbacks ELSE {},
                        result |-> result]
        /\ closeCallbacks' = IF report THEN {} ELSE closeCallbacks
        /\ todo' = [todo EXCEPT !["owner"] = If(fallback, "failureCallback")
                                            \o <<"invokeCallbacks">>]
  /\ failureCallback' = FALSE
  /\ phase' = "PhysicallyStopped"
  /\ deadline' = FALSE
  /\ finalizer' = "none"
  /\ registry' = "none"
  /\ UNCHANGED <<physicalResult, client, sendMutex, gateOpen, started,
                 receiptVars, failureSource, logicalSources, knownResults,
                 historyVars, closing>>

\* runResultCallback
KnownResultRuns ==
  /\ Idle("owner")
  /\ \E known \in knownResults :
       /\ knownResults' = knownResults \ {known}
       /\ reports' = [reports EXCEPT ![known.callback] = Append(@, known.result)]
  /\ todo' = [todo EXCEPT !["owner"] = <<"inCallback">>]
  /\ UNCHANGED <<phase, flags, resultVars, threadVars, receiptVars, deadline,
                 failureSource, logicalSources, finalizer, callbackVars, passed,
                 failureCalls, closeRequests, closing>>

-----------------------------------------------------------------------------
FailureStep(t) ==
  \/ CompleteDelivery(t) \/ FinishHandoff(t) \/ HandOff(t) \/ HandOffFails(t)
  \/ ReportLogicalFailure(t) \/ ScheduleLogicalSource(t) \/ AttachFinalizer(t)
  \/ MarkSendFailure(t) \/ UnlockSend(t)
  \/ SettleClosedDelivery(t) \/ LeaveDelivery(t)

StartStep ==
  \/ Reserve \/ PrepareFinalizer \/ StartFails \/ CreateClient \/ CreateWorker
  \/ CreateReaper \/ ThreadFails \/ Activate \/ ActivationFails \/ OpenGate

CloseStep ==
  \/ CloseAfterStart \/ CloseLocks \/ CloseQueues \/ OwnerSendsClose
  \/ InstallDeadline

OwnerStep ==
  \/ StartStep \/ CloseStep \/ InvokeFailure \/ InvokeCallbacks
  \/ CallbackReturns \/ FailureStep("owner")

SourceRuns ==
  \/ DeadlineExpires \/ FailureSourceRuns \/ LogicalSourceRuns
  \/ FinalizeWorker \/ KnownResultRuns

\* FinishWorker is apart: nothing bounds a client's destructor.
WorkerStep ==
  \/ WaitGate \/ Poll \/ LockClose \/ WorkerSendsClose \/ Receive
  \/ ReceiveFails \/ ReceiveClosed \/ NoteClosed \/ DeliverClosed
  \/ DestroyClient \/ FailureStep("worker")

ReaperStep == JoinWorker \/ FailureStep("reaper")

SenderStep == SenderLocks \/ SenderSends \/ FailureStep("sender")

Next ==
  \/ Start \/ OtherSessionEnds
  \/ \E own \in SUBSET (Callbacks \ passed) : Cardinality(own) <= 1 /\ Close(own)
  \/ OwnerStep \/ SourceRuns
  \/ SenderCalled \/ SenderStep
  \/ WorkerStep \/ FinishWorker \/ ReaperStep
  \/ \E t \in Threads : ReceiptReleased(t)
  \/ FailureStep("helper")

Spec == Init /\ [][Next]_vars

(***************************************************************************)
(* Threads run, sends and receives are bounded (the contract of            *)
(* TdPollingClient), callbacks return, and the loop runs each source that  *)
(* stays ready. The client's destructor need never return, the application *)
(* need never start, send or close, and TDLib need never report closed.    *)
(***************************************************************************)
Fairness ==
  /\ WF_vars(OwnerStep)
  /\ WF_vars(WorkerStep)
  /\ WF_vars(ReaperStep)
  /\ WF_vars(SenderStep)
  /\ WF_vars(FailureStep("helper"))
  /\ WF_vars(DeadlineExpires)
  /\ WF_vars(FailureSourceRuns)
  /\ WF_vars(LogicalSourceRuns)
  /\ WF_vars(FinalizeWorker)
  /\ WF_vars(KnownResultRuns)

\* The transport settles every receipt (TdTransport's EveryReceiptSettles).
ReceiptFairness == WF_vars(\E t \in Threads : ReceiptReleased(t))

FairSpec == Spec /\ Fairness /\ ReceiptFairness

\* A client whose destructor does return.
DestructorReturns == WF_vars(FinishWorker)

-----------------------------------------------------------------------------
(* Properties *)

\* Every variable keeps its type.
TypeOK ==
  /\ phase \in Phases
  /\ flags \subseteq Flags
  /\ logicalResult \in Results /\ physicalResult \in Results
  /\ closeCallbacks \subseteq Callbacks
  /\ failureCallback \in BOOLEAN
  /\ registry \in {"none", "own", "other"}
  /\ client \in BOOLEAN /\ gateOpen \in BOOLEAN /\ deadline \in BOOLEAN
  /\ sendMutex \in Threads \cup {"none"}
  /\ receipt \in {"none", "held", "settled"}
  /\ deliveryExit \in Threads \cup {"none"}
  /\ started \subseteq {"worker", "reaper"}
  /\ todo \in [Threads -> Seq(Entries)]
  /\ failureSource \in {"none", "runtime", "unexpected"}
  /\ logicalSources \in Nat
  /\ finalizer \in {"none", "prepared", "attached"}
  /\ knownResults \subseteq [callback : Callbacks, result : Results]
  /\ closing \in [prepared : BOOLEAN, established : BOOLEAN]
  /\ invoking \in [callbacks : SUBSET Callbacks, result : Results]
  /\ passed \subseteq Callbacks
  /\ reports \in [Callbacks -> Seq(Results)]
  /\ failureCalls \in Nat
  /\ closeRequests \in Nat

Heard(result) == \E c \in Callbacks : reports[c] # <<>> /\ Head(reports[c]) = result

\* The state is well formed, and no more than two sources ever wait to deliver the logical
\* failure. All close callbacks of one backend hear the same result, and
\* each hears it at most once, whichever of deadline, finalizer, logical failure and a
\* later close() reports it. "A successful Closed result is never reported before the terminal
\* receipt settles": and then the client is gone too, unless it never was there.
OneFinalResult ==
  /\ TypeOK
  /\ logicalSources <= 2
  /\ \E r \in Results : \A c \in Callbacks : reports[c] \in {<<>>, <<r>>}
  /\ Heard("Closed") => ReceiptSettled(flags) /\ ~client /\ receipt # "held"
                        /\ ("worker" \in started => "physicalFinished" \in flags)

\* There is a failure callback, and a failure it has to be told of: it is stored, on
\* its way to a source, in a source, or about to run.
FailureIsOwed ==
  \/ /\ flags \cap {"failureHandoffPending", "failureFallbackPending"} # {}
     /\ \/ failureCallback \/ failureSource # "none"
        \/ \E t \in Threads : At(t, "handOff") \/ At(t, "handOffUnexpected")
  \/ At("owner", "failureCallback")

\* A failure the application asked to hear of is never dropped on its way, also when no
\* source could be attached for it, when the deadline has won meanwhile, and when nobody
\* ever closes the backend. "Runtime failure notification completes before any Failed
\* close callback": it does when close() could make its deadline source.
FailureIsTold ==
  [][/\ FailureIsOwed => FailureIsOwed' \/ failureCalls' = failureCalls + 1
     /\ Heard("Failed") /\ closing.prepared => failureCalls' = failureCalls]_vars

\* close is sent to TDLib at most once, and a request is only ever sent to a client that
\* exists. The session key is free only when neither thread runs, the client is destroyed
\* and nobody holds or is settling the receipt: "unload and same-key reuse remain
\* blocked" until then.
ClientOutlivesItsUse ==
  /\ closeRequests <= 1
  /\ (At("owner", "sendClose") \/ At("worker", "sendClose") \/ At("sender", "send"))
       => client
  /\ registry # "own" =>
       /\ ~client /\ receipt # "held" /\ deliveryExit = "none"
       /\ \A t \in started : Exited(t)

\* Every close callback is called, even when TDLib never answers and the client's
\* destructor never returns: frontend shutdown stays bounded.
EveryCloseReported ==
  passed # {} ~> \A c \in passed : reports[c] # <<>>

\* The session key becomes free again after the closed update, unless the
\* finalizer could not be attached or the client's destructor hangs.
KeyIsReleased ==
  DestructorReturns =>
    (("closedReceived" \in flags)
       ~> (registry # "own" \/ "finalizerUnavailable" \in flags))
=============================================================================
