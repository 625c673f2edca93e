----------------------------- MODULE TdTransport -----------------------------
(***************************************************************************)
(* The request dispatcher between the plugin and TDLib (td-transport.cpp). *)
(*                                                                         *)
(* The owner thread (the GLib main context) sends requests, sets timers,   *)
(* runs the timers and the dispatch source, and shuts the transport down.  *)
(* Any other thread may hand in an object at any moment (receiveObject).   *)
(* Each action is one critical section of TdTransportState::mutex together *)
(* with the owner-thread work that follows it before the next one.         *)
(*                                                                         *)
(* A serial names one call of send; it is what the callback pointer and    *)
(* the TimeoutToken address identify in the code, where request            *)
(* identifiers may be used again after the counter wraps.                  *)
(***************************************************************************)
EXTENDS Naturals, Sequences, FiniteSets

CONSTANTS
  PublicMax,    \* td_request_id::PUBLIC_MAX, the largest identifier of a request
  Batch,        \* MAX_DELIVERIES_PER_DISPATCH
  MaxSends,     \* bound: how many requests are ever sent
  MaxObjects    \* bound: how many objects the backend ever hands in

ASSUME PublicMaxAssumption == PublicMax \in Nat \ {0}
ASSUME BatchAssumption == Batch \in Nat \ {0}
ASSUME BoundsAssumption == MaxSends \in Nat /\ MaxObjects \in Nat

RequestIds == 1 .. PublicMax
Serials == 1 .. MaxSends
Objects == 1 .. MaxObjects
SourceIds == 1 .. 3

None == 0       \* no serial, no source: the null pointer

TimerKinds == {"none", "terminal", "explicit", "notification"}
Terminal == {"terminal", "explicit"}   \* explicit has a callback of its own
Outcomes == {"none", "object", "timeout"}
ReceiptStates == {"none", "queued", "delivered", "dropped"}
DispatchStages == {"idle", "loop", "callback", "check", "retire"}
SendStages == {"idle", "plain", "timed", "cancelling"}

VARIABLES
  stopped,        \* shutdown() has run
  lastRequestId,  \* the identifier handed out last
  pending,        \* requests: for an identifier, the serial waiting under it
  queue,          \* objects accepted and not yet dispatched
  timerKind,      \* the timer a request owns; "none" also once it has fired
  attached,       \* serials whose timer source is attached to the context
  dispatchSource, \* the source new arrivals rely on to be dispatched
  sources,        \* dispatch sources whose destroy notifier has not run
  attachedCount,  \* attachedSourceCount
  lifetime,       \* sourceLifetime holds a reference to the state
  sendStage,      \* where the owner thread is inside send / sendWithTimeout
  sendSerial,     \* the request it is sending
  dispatchStage,  \* where the owner thread is inside dispatchPending
  dispatched,     \* [source, count, object, delivered] of that dispatch
  lastSerial,     \* history: number of requests sent
  lastObject,     \* history: number of objects handed in
  idOf,           \* requestId captured for each serial
  hasCallback,    \* whether the caller passed a response callback
  calls,          \* history: how often the caller of a request was called back
  outcome,        \* history: how the request was completed
  claimed,        \* history: serials whose response was accepted at ingress
  failed,         \* history: serials whose send returned 0
  notified,       \* history: serials whose notification timer ran
  lastDelivered,  \* history: the object dispatched last
  receipt         \* history: what became of each object's delivery receipt

requestVars == <<pending, timerKind, attached>>
sourceVars == <<dispatchSource, sources, attachedCount, lifetime>>
sendVars == <<sendStage, sendSerial>>
dispatchVars == <<dispatchStage, dispatched>>
serialVars == <<lastSerial, lastRequestId, idOf, hasCallback>>
callVars == <<calls, outcome>>
vars == <<stopped, queue, requestVars, sourceVars, sendVars, dispatchVars,
          serialVars, callVars, lastObject, claimed, failed, notified,
          lastDelivered, receipt>>

NoDispatch == [source |-> None, count |-> 0, object |-> 0, delivered |-> FALSE]

Init ==
  /\ stopped = FALSE
  /\ lastRequestId = 0
  /\ pending = [id \in RequestIds |-> None]
  /\ queue = <<>>
  /\ timerKind = [s \in Serials |-> "none"]
  /\ attached = {}
  /\ dispatchSource = None
  /\ sources = {}
  /\ attachedCount = 0
  /\ lifetime = FALSE
  /\ sendStage = "idle"
  /\ sendSerial = None
  /\ dispatchStage = "idle"
  /\ dispatched = NoDispatch
  /\ lastSerial = 0
  /\ lastObject = 0
  /\ idOf = [s \in Serials |-> None]
  /\ hasCallback = [s \in Serials |-> FALSE]
  /\ calls = [s \in Serials |-> 0]
  /\ outcome = [s \in Serials |-> "none"]
  /\ claimed = {}
  /\ failed = {}
  /\ notified = {}
  /\ lastDelivered = 0
  /\ receipt = [o \in Objects |-> "none"]

-----------------------------------------------------------------------------
(* Identifiers *)

\* The identifier nextPublic yields after k steps from id: it wraps to 1.
NextPublic(id, k) == IF id + k <= PublicMax THEN id + k ELSE id + k - PublicMax

\* reserveRequest's loop: the first identifier no pending request holds.
IsReserved(id) ==
  \E k \in 1 .. PublicMax :
    /\ id = NextPublic(lastRequestId, k)
    /\ pending[id] = None
    /\ \A j \in 1 .. (k - 1) : pending[NextPublic(lastRequestId, j)] # None

\* The request with this serial is still waiting for its response.
IsPending(s) == idOf[s] # None /\ pending[idOf[s]] = s

\* The owner thread may call the transport: it runs application code, either
\* between two sources or inside a delivery callback.
OwnerFree == sendStage = "idle" /\ dispatchStage \in {"idle", "callback"}

\* The owner thread is back in its main loop and picks a ready source.
LoopIdle == sendStage = "idle" /\ dispatchStage = "idle"

\* The request completes and its caller is called if it gave a callback.
CallBack(s, result, called) ==
  /\ outcome' = [outcome EXCEPT ![s] = result]
  /\ calls' = [calls EXCEPT ![s] = IF called THEN @ + 1 ELSE @]

-----------------------------------------------------------------------------
(* Sending: reserveRequest, the send callback, attachPreparedTimeout *)

\* Mutant: the timer is attached before the request is sent.
ReserveAttached(withCallback, kind) ==
  /\ OwnerFree
  /\ ~stopped
  /\ lastSerial < MaxSends
  /\ lastSerial' = lastSerial + 1
  /\ \E id \in RequestIds :
       /\ IsReserved(id)
       /\ lastRequestId' = id
       /\ pending' = [pending EXCEPT ![id] = lastSerial + 1]
       /\ idOf' = [idOf EXCEPT ![lastSerial + 1] = id]
  /\ hasCallback' = [hasCallback EXCEPT ![lastSerial + 1] = withCallback]
  /\ timerKind' = [timerKind EXCEPT
       ![lastSerial + 1] = IF kind = "timed" THEN "terminal" ELSE "none"]
  /\ attached' = IF kind = "timed" THEN attached \cup {lastSerial + 1} ELSE attached
  /\ sendStage' = kind
  /\ sendSerial' = lastSerial + 1
  /\ UNCHANGED <<stopped, queue, sourceVars, dispatchVars, callVars,
                 lastObject, claimed, failed, notified, lastDelivered, receipt>>

\* reserveRequest, and the hand-over to the backend's send callback begins.
\* kind "timed" has published its timer without attaching it.
Reserve(withCallback, kind) ==
  /\ OwnerFree
  /\ ~stopped
  /\ lastSerial < MaxSends
  /\ lastSerial' = lastSerial + 1
  /\ \E id \in RequestIds :
       /\ IsReserved(id)
       /\ lastRequestId' = id
       /\ pending' = [pending EXCEPT ![id] = lastSerial + 1]
       /\ idOf' = [idOf EXCEPT ![lastSerial + 1] = id]
  /\ hasCallback' = [hasCallback EXCEPT ![lastSerial + 1] = withCallback]
  /\ timerKind' = [timerKind EXCEPT
       ![lastSerial + 1] = IF kind = "timed" THEN "terminal" ELSE "none"]
  /\ sendStage' = kind
  /\ sendSerial' = lastSerial + 1
  /\ UNCHANGED <<stopped, queue, attached, sourceVars, dispatchVars, callVars,
                 lastObject, claimed, failed, notified, lastDelivered, receipt>>

\* Mutant: the owner thread stays inside send.
SendNotDone(result) ==
  /\ UNCHANGED sendStage
  /\ sendSerial' = None
  /\ failed' = IF result = 0 THEN failed \cup {sendSerial} ELSE failed

SendDone(result) ==
  /\ sendStage' = "idle"
  /\ sendSerial' = None
  /\ failed' = IF result = 0 THEN failed \cup {sendSerial} ELSE failed

\* The send callback returns: send() is done.
SendReturns ==
  /\ sendStage = "plain"
  /\ SendDone(idOf[sendSerial])
  /\ UNCHANGED <<stopped, queue, requestVars, sourceVars, dispatchVars,
                 serialVars, callVars, lastObject, claimed, notified,
                 lastDelivered, receipt>>

\* sendWithTimeout attaches the prepared timer, unless a response already
\* claimed the request and took the timer along.
AttachPreparedTimeout ==
  /\ sendStage = "timed"
  /\ attached' = IF IsPending(sendSerial) THEN attached \cup {sendSerial}
                                          ELSE attached
  /\ SendDone(idOf[sendSerial])
  /\ UNCHANGED <<stopped, queue, pending, timerKind, sourceVars, dispatchVars,
                 serialVars, callVars, lastObject, claimed, notified,
                 lastDelivered, receipt>>

\* The send callback throws, or the timer cannot be created or attached.
SendThrows ==
  /\ sendStage \in {"plain", "timed"}
  /\ sendStage' = "cancelling"
  /\ UNCHANGED <<stopped, queue, requestVars, sourceVars, sendSerial,
                 dispatchVars, serialVars, callVars, lastObject, claimed,
                 failed, notified, lastDelivered, receipt>>

\* The positions of queued responses that carry an identifier.
QueuedUnder(id) ==
  {i \in 1 .. Len(queue) : queue[i].serial # None /\ idOf[queue[i].serial] = id}

RemoveAt(seq, i) ==
  [j \in 1 .. (Len(seq) - 1) |-> IF j < i THEN seq[j] ELSE seq[j + 1]]

\* cancelRequest: forget the request, or the response that overtook the failure.
CancelRequest ==
  /\ sendStage = "cancelling"
  /\ LET id == idOf[sendSerial]
         s == pending[id]
     IN \/ /\ s # None
           /\ pending' = [pending EXCEPT ![id] = None]
           /\ timerKind' = [timerKind EXCEPT ![s] = "none"]
           /\ attached' = attached \ {s}
           /\ UNCHANGED <<queue, receipt>>
        \/ /\ s = None
           /\ QueuedUnder(id) # {}
           /\ \E i \in QueuedUnder(id) :
                /\ \A j \in QueuedUnder(id) : i <= j
                /\ queue' = RemoveAt(queue, i)
                /\ receipt' = [receipt EXCEPT ![queue[i].object] = "dropped"]
                /\ timerKind' = [timerKind EXCEPT ![queue[i].serial] = "none"]
                /\ attached' = attached \ {queue[i].serial}
           /\ UNCHANGED pending
        \/ /\ s = None
           /\ QueuedUnder(id) = {}
           /\ UNCHANGED <<requestVars, queue, receipt>>
  /\ SendDone(0)
  /\ UNCHANGED <<stopped, sourceVars, dispatchVars, serialVars, callVars,
                 lastObject, claimed, notified, lastDelivered>>

-----------------------------------------------------------------------------
(* Timers: setResponseTimeout, setNotificationTimeout, timeoutExpired *)

SetTimeout(s, kind) ==
  /\ OwnerFree
  /\ ~stopped
  /\ IsPending(s)
  /\ timerKind[s] = "none"
  /\ timerKind' = [timerKind EXCEPT ![s] = kind]
  /\ attached' = attached \cup {s}
  /\ UNCHANGED <<stopped, queue, pending, sourceVars, sendVars, dispatchVars,
                 serialVars, callVars, lastObject, claimed, failed, notified,
                 lastDelivered, receipt>>

\* The owner thread runs the main loop or a loop nested in application code.
ContextRuns == dispatchStage \in {"idle", "callback"}

\* Mutant: the timer does not look whether its request still waits.
TerminalTimerUnchecked(s) ==
  /\ ContextRuns
  /\ s \in attached
  /\ ~stopped /\ timerKind[s] \in Terminal
  /\ attached' = attached \ {s}
  /\ timerKind' = [timerKind EXCEPT ![s] = "none"]
  /\ pending' = [pending EXCEPT ![idOf[s]] = None]
  /\ CallBack(s, "timeout", hasCallback[s] \/ timerKind[s] = "explicit")
  /\ UNCHANGED <<stopped, queue, sourceVars, sendVars, dispatchVars, serialVars,
                 lastObject, claimed, failed, notified, lastDelivered, receipt>>

\* Mutant: the timer forgets the request without telling the caller.
TerminalTimerSilent(s) ==
  /\ ContextRuns
  /\ s \in attached
  /\ ~stopped /\ IsPending(s) /\ timerKind[s] \in Terminal
  /\ attached' = attached \ {s}
  /\ timerKind' = [timerKind EXCEPT ![s] = "none"]
  /\ pending' = [pending EXCEPT ![idOf[s]] = None]
  /\ UNCHANGED <<stopped, queue, sourceVars, sendVars, dispatchVars, serialVars,
                 callVars, lastObject, claimed, failed, notified, lastDelivered,
                 receipt>>

\* A terminal timer ends the request.
TerminalTimerFires(s) ==
  /\ ContextRuns
  /\ s \in attached
  /\ ~stopped /\ IsPending(s) /\ timerKind[s] \in Terminal
  /\ attached' = attached \ {s}
  /\ timerKind' = [timerKind EXCEPT ![s] = "none"]
  /\ pending' = [pending EXCEPT ![idOf[s]] = None]
  /\ CallBack(s, "timeout", hasCallback[s] \/ timerKind[s] = "explicit")
  /\ UNCHANGED <<stopped, queue, sourceVars, sendVars, dispatchVars, serialVars,
                 lastObject, claimed, failed, notified, lastDelivered, receipt>>

\* A notification timer tells the caller and leaves the request waiting.
NotificationTimerFires(s) ==
  /\ ContextRuns
  /\ s \in attached
  /\ ~stopped /\ IsPending(s) /\ timerKind[s] = "notification"
  /\ attached' = attached \ {s}
  /\ timerKind' = [timerKind EXCEPT ![s] = "none"]
  /\ notified' = notified \cup {s}
  /\ UNCHANGED <<stopped, queue, pending, sourceVars, sendVars, dispatchVars,
                 serialVars, callVars, lastObject, claimed, failed,
                 lastDelivered, receipt>>

\* The token no longer belongs to a waiting request: a response was claimed.
StaleTimerFires(s) ==
  /\ ContextRuns
  /\ s \in attached
  /\ stopped \/ ~IsPending(s)
  /\ attached' = attached \ {s}
  /\ UNCHANGED <<stopped, queue, pending, timerKind, sourceVars, sendVars,
                 dispatchVars, serialVars, callVars, lastObject, claimed,
                 failed, notified, lastDelivered, receipt>>

-----------------------------------------------------------------------------
(* Ingress, on any thread: receiveObject, enqueueUpdate *)

ScheduleDispatch ==
  \/ /\ dispatchSource # None
     /\ UNCHANGED sourceVars
  \/ /\ dispatchSource = None
     /\ \E src \in SourceIds \ sources :
          /\ dispatchSource' = src
          /\ sources' = sources \cup {src}
     /\ attachedCount' = attachedCount + 1
     /\ lifetime' = TRUE

\* Mutant: a new object overtakes the queued ones.
EnqueueFirst(s) ==
  /\ lastObject < MaxObjects
  /\ lastObject' = lastObject + 1
  /\ queue' = <<[object |-> lastObject + 1, serial |-> s]>> \o queue
  /\ receipt' = [receipt EXCEPT ![lastObject + 1] = "queued"]
  /\ ScheduleDispatch

\* The next object and its receipt enter the queue.
Enqueue(s) ==
  /\ lastObject < MaxObjects
  /\ lastObject' = lastObject + 1
  /\ queue' = Append(queue, [object |-> lastObject + 1, serial |-> s])
  /\ receipt' = [receipt EXCEPT ![lastObject + 1] = "queued"]
  /\ ScheduleDispatch

\* The next object is refused and its receipt settles as dropped.
Refuse ==
  /\ lastObject < MaxObjects
  /\ lastObject' = lastObject + 1
  /\ receipt' = [receipt EXCEPT ![lastObject + 1] = "dropped"]
  /\ UNCHANGED <<queue, sourceVars>>

ReceiveUpdate ==
  /\ (stopped /\ Refuse) \/ (~stopped /\ Enqueue(None))
  /\ UNCHANGED <<stopped, requestVars, sendVars, dispatchVars, serialVars,
                 callVars, claimed, failed, notified, lastDelivered>>

\* Mutant: a queued response leaves its request in the map.
ReceiveWithoutClaim(id) ==
  /\ \E s \in 1 .. lastSerial : idOf[s] = id
  /\ \/ /\ stopped \/ pending[id] = None
        /\ Refuse
        /\ UNCHANGED claimed
     \/ /\ ~stopped /\ pending[id] # None
        /\ Enqueue(pending[id])
        /\ claimed' = claimed \cup {pending[id]}
  /\ UNCHANGED <<stopped, requestVars, sendVars, dispatchVars, serialVars,
                 callVars, failed, notified, lastDelivered>>

\* A response to a request that was sent. Claiming it takes the request out of
\* the map; its timer stays attached until the response is dispatched.
ReceiveResponse(id) ==
  /\ \E s \in 1 .. lastSerial : idOf[s] = id
  /\ \/ /\ stopped \/ pending[id] = None
        /\ Refuse
        /\ UNCHANGED <<pending, claimed>>
     \/ /\ ~stopped /\ pending[id] # None
        /\ Enqueue(pending[id])
        /\ claimed' = claimed \cup {pending[id]}
        /\ pending' = [pending EXCEPT ![id] = None]
  /\ UNCHANGED <<stopped, timerKind, attached, sendVars, dispatchVars,
                 serialVars, callVars, failed, notified, lastDelivered>>

-----------------------------------------------------------------------------
(* Dispatch on the owner thread: dispatchPending, dispatchOne *)

\* The loop runs a dispatch source.
DispatchBegin ==
  /\ LoopIdle
  /\ \E src \in sources :
       dispatched' = [NoDispatch EXCEPT !.source = src]
  /\ dispatchStage' = IF lifetime THEN "loop" ELSE "retire"
  /\ UNCHANGED <<stopped, queue, requestVars, sourceVars, sendVars, serialVars,
                 callVars, lastObject, claimed, failed, notified,
                 lastDelivered, receipt>>

MoreToDispatch == dispatched.count < Batch /\ ~stopped /\ queue # <<>>

\* dispatchOne takes the head, destroys the timer it carries and calls back.
DispatchOne ==
  /\ dispatchStage = "loop"
  /\ MoreToDispatch
  /\ LET head == Head(queue)
         s == head.serial
     IN /\ dispatched' = [dispatched EXCEPT
              !.object = head.object,
              !.delivered = s = None \/ hasCallback[s]]
        /\ lastDelivered' = head.object
        /\ \/ /\ s = None
              /\ UNCHANGED <<timerKind, attached, callVars>>
           \/ /\ s # None
              /\ timerKind' = [timerKind EXCEPT ![s] = "none"]
              /\ attached' = attached \ {s}
              /\ CallBack(s, "object", hasCallback[s])
  /\ queue' = Tail(queue)
  /\ dispatchStage' = "callback"
  /\ UNCHANGED <<stopped, pending, sourceVars, sendVars, serialVars, lastObject,
                 claimed, failed, notified, receipt>>

\* The application callback returns and the receipt settles.
DispatchSettle ==
  /\ dispatchStage = "callback"
  /\ sendStage = "idle"
  /\ receipt' = [receipt EXCEPT
       ![dispatched.object] = IF dispatched.delivered THEN "delivered"
                                                      ELSE "dropped"]
  /\ dispatched' = [dispatched EXCEPT !.count = @ + 1, !.object = 0]
  /\ dispatchStage' = "loop"
  /\ UNCHANGED <<stopped, queue, requestVars, sourceVars, sendVars, serialVars,
                 callVars, lastObject, claimed, failed, notified,
                 lastDelivered>>

\* The batch is used up, or dispatchOne found nothing to do.
DispatchLoopEnd ==
  /\ dispatchStage = "loop"
  /\ ~MoreToDispatch
  /\ dispatchStage' = "check"
  /\ UNCHANGED <<stopped, queue, requestVars, sourceVars, sendVars, dispatched,
                 serialVars, callVars, lastObject, claimed, failed, notified,
                 lastDelivered, receipt>>

\* Mutant: the source is given up without another look at the queue.
DispatchNoRecheck ==
  /\ dispatchStage = "check"
  /\ dispatchStage' = "retire"
  /\ dispatchSource' = IF dispatchSource = dispatched.source
                       THEN None ELSE dispatchSource
  /\ UNCHANGED <<stopped, queue, requestVars, sources, attachedCount, lifetime,
                 sendVars, dispatched, serialVars, callVars, lastObject, claimed,
                 failed, notified, lastDelivered, receipt>>

\* An object may have arrived since the last dispatchOne: look again, and give
\* up the source only when there is nothing left for it.
DispatchCheck ==
  /\ dispatchStage = "check"
  /\ \/ /\ ~stopped /\ queue # <<>>
        /\ dispatchStage' = "idle"
        /\ dispatched' = NoDispatch
        /\ UNCHANGED dispatchSource
     \/ /\ stopped \/ queue = <<>>
        /\ dispatchStage' = "retire"
        /\ dispatchSource' = IF dispatchSource = dispatched.source
                             THEN None ELSE dispatchSource
        /\ UNCHANGED dispatched
  /\ UNCHANGED <<stopped, queue, requestVars, sources, attachedCount, lifetime,
                 sendVars, serialVars, callVars, lastObject, claimed, failed,
                 notified, lastDelivered, receipt>>

\* Mutant: the first source to go lets go of the state.
ReleaseLifetimeAtOnce(src) ==
  /\ sources' = sources \ {src}
  /\ attachedCount' = IF attachedCount > 0 THEN attachedCount - 1 ELSE 0
  /\ lifetime' = FALSE

\* releaseSourceLifetime for one source: GLib runs its destroy notifier.
ReleaseSourceLifetime(src) ==
  /\ sources' = sources \ {src}
  /\ attachedCount' = IF attachedCount > 0 THEN attachedCount - 1 ELSE 0
  /\ lifetime' = (lifetime /\ attachedCount' # 0)

\* dispatchPending returned FALSE: the loop destroys the source.
Retire ==
  /\ dispatchStage = "retire"
  /\ ReleaseSourceLifetime(dispatched.source)
  /\ dispatchStage' = "idle"
  /\ dispatched' = NoDispatch
  /\ UNCHANGED <<stopped, queue, requestVars, dispatchSource, sendVars,
                 serialVars, callVars, lastObject, claimed, failed, notified,
                 lastDelivered, receipt>>

-----------------------------------------------------------------------------
(* Shutdown *)

\* A source under dispatch is destroyed when its dispatch returns.
Shutdown ==
  /\ OwnerFree
  /\ ~stopped
  /\ stopped' = TRUE
  /\ queue' = <<>>
  /\ pending' = [id \in RequestIds |-> None]
  /\ timerKind' = [s \in Serials |-> "none"]
  /\ attached' = {}
  /\ receipt' = [o \in Objects |->
       IF \E i \in DOMAIN queue : queue[i].object = o THEN "dropped"
                                                     ELSE receipt[o]]
  /\ dispatchSource' = None
  /\ IF dispatchSource \notin {None, dispatched.source}
     THEN ReleaseSourceLifetime(dispatchSource)
     ELSE UNCHANGED <<sources, attachedCount, lifetime>>
  /\ UNCHANGED <<sendVars, dispatchVars, serialVars, callVars, lastObject,
                 claimed, failed, notified, lastDelivered>>

-----------------------------------------------------------------------------
SendStep == SendReturns \/ AttachPreparedTimeout \/ SendThrows \/ CancelRequest

DispatchStep ==
  \/ DispatchBegin \/ DispatchOne \/ DispatchSettle
  \/ DispatchLoopEnd \/ DispatchCheck \/ Retire

TimerFires(s) ==
  TerminalTimerFires(s) \/ NotificationTimerFires(s) \/ StaleTimerFires(s)

Next ==
  \/ \E withCallback \in BOOLEAN, kind \in {"plain", "timed"} :
       Reserve(withCallback, kind)
  \/ SendStep
  \/ \E s \in 1 .. lastSerial, kind \in {"terminal", "explicit", "notification"} :
       SetTimeout(s, kind)
  \/ \E s \in 1 .. lastSerial : TimerFires(s)
  \/ ReceiveUpdate
  \/ \E id \in RequestIds : ReceiveResponse(id)
  \/ DispatchStep
  \/ Shutdown

Spec == Init /\ [][Next]_vars

(***************************************************************************)
(* A send callback returns or throws, and the main loop runs every ready   *)
(* source: all of them have G_PRIORITY_DEFAULT, so GLib dispatches each    *)
(* one that is ready in the same iteration. Nothing makes the application  *)
(* send or shut down, nor TDLib answer.                                    *)
(***************************************************************************)
Fairness ==
  /\ WF_vars(SendStep)
  /\ WF_vars(DispatchStep)
  /\ \A s \in Serials : WF_vars(TimerFires(s))

FairSpec == Spec /\ Fairness

-----------------------------------------------------------------------------
(* Properties *)

\* Serials whose response is queued and not yet dispatched.
QueuedSerials == {queue[i].serial : i \in DOMAIN queue} \ {None}

\* Every variable keeps its type.
TypeOK ==
  /\ stopped \in BOOLEAN
  /\ lastRequestId \in 0 .. PublicMax
  /\ pending \in [RequestIds -> Serials \cup {None}]
  /\ queue \in Seq([object : Objects, serial : Serials \cup {None}])
  /\ timerKind \in [Serials -> TimerKinds]
  /\ attached \subseteq Serials
  /\ dispatchSource \in SourceIds \cup {None}
  /\ sources \subseteq SourceIds
  /\ attachedCount \in Nat
  /\ lifetime \in BOOLEAN
  /\ sendStage \in SendStages
  /\ sendSerial \in Serials \cup {None}
  /\ sendStage # "idle" => sendSerial \in Serials /\ idOf[sendSerial] # None
  /\ dispatchStage \in DispatchStages
  /\ dispatched \in [source : SourceIds \cup {None}, count : Nat,
                     object : Objects \cup {0}, delivered : BOOLEAN]
  /\ lastSerial \in 0 .. MaxSends
  /\ lastObject \in 0 .. MaxObjects
  /\ idOf \in [Serials -> RequestIds \cup {None}]
  /\ hasCallback \in [Serials -> BOOLEAN]
  /\ calls \in [Serials -> Nat]
  /\ outcome \in [Serials -> Outcomes]
  /\ claimed \subseteq Serials
  /\ failed \subseteq Serials
  /\ notified \subseteq Serials
  /\ lastDelivered \in 0 .. MaxObjects
  /\ receipt \in [Objects -> ReceiptStates]

\* A caller is called back at most once for a request, whatever the order in
\* which its response, its timer, a failing send and shutdown happen.
AtMostOnce == \A s \in Serials : calls[s] <= 1

\* "Claiming the request at ingress makes a received response win over a ready
\* timeout even when its main-context delivery is still queued."
ResponseWins == \A s \in claimed : outcome[s] # "timeout"

\* Anything in the queue has a source that will still look at the queue: it is
\* attached, and it is not past its last look.
NoLostWakeup ==
  (~stopped /\ queue # <<>>) =>
    /\ dispatchSource \in sources
    /\ dispatchStage = "retire" => dispatched.source # dispatchSource

\* The state object stays alive exactly until every source has run its destroy
\* notifier, and a retiring source overlaps at most one replacement.
SourcesKeepStateAlive ==
  /\ lifetime <=> sources # {}
  /\ attachedCount = Cardinality(sources)
  /\ attachedCount <= 2
  /\ dispatchSource # None => dispatchSource \in sources

\* No request is lost: one that was not completed, claimed or refused waits under
\* its identifier, also when the counter wraps past identifiers still in use.
NoRequestLost ==
  \A s \in 1 .. lastSerial :
    (~stopped /\ outcome[s] = "none" /\ s \notin claimed \cup failed)
      => IsPending(s)

\* Objects reach the application in the order the backend handed them in.
ArrivalOrder ==
  [][lastDelivered' # lastDelivered => lastDelivered' > lastDelivered]_vars

\* The life of each request as its caller sees it.
RequestState(s) ==
  IF s > lastSerial THEN "unused" ELSE
  IF s \in failed THEN "refused" ELSE
  IF IsPending(s) THEN (IF s = sendSerial THEN "sending" ELSE "open") ELSE
  IF s \in QueuedSerials THEN (IF s = sendSerial THEN "overtaken" ELSE "accepted") ELSE
  IF outcome[s] = "object" THEN "answered" ELSE
  IF outcome[s] = "timeout" THEN "timedOut" ELSE "abandoned"

Contract == INSTANCE RequestContract WITH
  Requests <- Serials, state <- [s \in Serials |-> RequestState(s)]

\* Every step of the transport is a step of the contract or leaves it alone: a
\* request is answered only after its response was accepted, times out only when
\* it was sent and no response was accepted, is refused only by the send that made
\* it, and never ends twice or comes back.
KeepsContract == Contract!Spec

\* Every receipt settles, so a backend that waits for one is never stuck.
EveryReceiptSettles ==
  \A o \in Objects : receipt[o] = "queued" ~> receipt[o] # "queued"

\* A request with a running terminal timer does not stay open: it times out or its
\* response is accepted.
TimedRequestEnds ==
  \A s \in Serials :
    (s \in attached /\ timerKind[s] \in Terminal)
      ~> (outcome[s] = "timeout" \/ s \in claimed \cup failed \/ stopped)
=============================================================================
