--------------------------- MODULE TdTransportProofs ---------------------------
(***************************************************************************)
(* Theorems about TdTransport for every bound and every size of the        *)
(* identifier space: types; the receipt of the closed update; the dispatch *)
(* sources, of which no wake-up is lost and which the state object         *)
(* outlives; and the requests, of which none is lost.                      *)
(* Last, TdTransport implements RequestContract as long as identifiers do  *)
(* not come back: fewer requests are sent than there are identifiers.      *)
(* Beyond 2^63 - 1 requests the code gives an identifier away while a      *)
(* response under it is still queued.                                      *)
(***************************************************************************)
EXTENDS TdTransport, SequenceTheorems, FiniteSetTheorems, TLAPS

QueueType == Seq([object : Objects, serial : Serials \cup {None}])
DispatchType == [source : SourceIds \cup {None}, count : Nat,
                 object : Objects \cup {0}, delivered : BOOLEAN]

\* Taking one element out of a sequence leaves a sequence of the others.
LEMMA RemoveAtType ==
  ASSUME NEW S, NEW seq \in Seq(S), NEW i \in 1 .. Len(seq)
  PROVE  /\ RemoveAt(seq, i) \in Seq(S)
         /\ Len(RemoveAt(seq, i)) = Len(seq) - 1
         /\ \A j \in 1 .. (Len(seq) - 1) :
              RemoveAt(seq, i)[j] = IF j < i THEN seq[j] ELSE seq[j + 1]
<1> DEFINE n == Len(seq) - 1
           r == [j \in 1 .. n |-> IF j < i THEN seq[j] ELSE seq[j + 1]]
<1>1. n \in Nat
  BY LenProperties
<1>2. \A j \in 1 .. n : r[j] \in S
  BY ElementOfSeq, LenProperties
<1>3. r \in Seq(S) /\ Len(r) = n
  BY <1>1, <1>2, IsASeq, LenProperties
<1> QED
  BY <1>3 DEF RemoveAt

\* The identifiers of sources and serials never collide with the null pointer.
LEMMA NoneIsNothing == None \notin Serials /\ None \notin SourceIds
  BY DEF None, Serials, SourceIds

\* Every variable keeps its type, initially.
LEMMA TypeInit == Init => TypeOK
<1> SUFFICES ASSUME Init PROVE TypeOK
  OBVIOUS
<1> USE PublicMaxAssumption, BoundsAssumption
<1>1. /\ pending \in [RequestIds -> Serials \cup {None}]
      /\ idOf \in [Serials -> RequestIds \cup {None}]
      /\ timerKind \in [Serials -> TimerKinds]
  BY DEF Init, TimerKinds
<1>2. queue \in Seq([object : Objects, serial : Serials \cup {None}])
  BY DEF Init
<1>3. /\ calls \in [Serials -> Nat]
      /\ outcome \in [Serials -> Outcomes]
      /\ receipt \in [Objects -> ReceiptStates]
  BY DEF Init, Outcomes, ReceiptStates
<1>4. hasCallback \in [Serials -> BOOLEAN]
  BY DEF Init
<1>5. dispatched \in [source : SourceIds \cup {None}, count : Nat,
                     object : Objects \cup {0}, delivered : BOOLEAN]
  BY DEF Init, NoDispatch
<1>6. /\ lastRequestId \in 0 .. PublicMax
      /\ lastSerial \in 0 .. MaxSends
      /\ lastObject \in 0 .. MaxObjects
      /\ lastDelivered \in 0 .. MaxObjects
      /\ attachedCount \in Nat
  BY DEF Init
<1>7. stopped \in BOOLEAN /\ lifetime \in BOOLEAN
  BY DEF Init
<1>8. sendStage \in SendStages /\ dispatchStage \in DispatchStages
  BY DEF Init, SendStages, DispatchStages
<1> QED
  BY <1>1, <1>2, <1>3, <1>4, <1>5, <1>6, <1>7, <1>8 DEF Init, TypeOK

\* No dispatch, and the beginning of one, are well-typed.
LEMMA DispatchBeginType ==
  /\ NoDispatch \in DispatchType
  /\ \A src \in SourceIds : [NoDispatch EXCEPT !.source = src] \in DispatchType
  BY DEF NoDispatch, DispatchType

\* A new arrival schedules a source of the right type.
LEMMA ScheduleType ==
  ASSUME TypeOK, ScheduleDispatch
  PROVE  /\ dispatchSource' \in SourceIds \cup {None}
         /\ sources' \subseteq SourceIds
         /\ attachedCount' \in Nat
         /\ lifetime' \in BOOLEAN
<1>1. lifetime' \in BOOLEAN
  BY DEF TypeOK, ScheduleDispatch, sourceVars
<1>2. dispatchSource' \in SourceIds \cup {None} /\ sources' \subseteq SourceIds
  BY DEF TypeOK, ScheduleDispatch, sourceVars
<1>3. attachedCount' \in Nat
  BY DEF TypeOK, ScheduleDispatch, sourceVars
<1> QED
  BY <1>1, <1>2, <1>3

\* A new arrival, queued or refused, keeps the types of what it changes.
LEMMA EnqueueType ==
  ASSUME TypeOK, NEW s \in Serials \cup {None}, Enqueue(s)
  PROVE  /\ lastObject' \in 0 .. MaxObjects
         /\ queue' \in QueueType
         /\ receipt' \in [Objects -> ReceiptStates]
<1>1. lastObject + 1 \in Objects /\ lastObject' \in 0 .. MaxObjects
  BY BoundsAssumption DEF TypeOK, Enqueue, Objects
<1>2. [object |-> lastObject + 1, serial |-> s]
        \in [object : Objects, serial : Serials \cup {None}]
  BY <1>1
<1>3. queue' \in QueueType
  BY <1>2, AppendProperties DEF TypeOK, Enqueue, QueueType
<1> QED
  BY <1>1, <1>3 DEF TypeOK, Enqueue, ReceiptStates

\* A refused arrival changes its receipt only.
LEMMA RefuseType ==
  ASSUME TypeOK, Refuse
  PROVE  /\ lastObject' \in 0 .. MaxObjects
         /\ receipt' \in [Objects -> ReceiptStates]
  BY BoundsAssumption DEF TypeOK, Refuse, Objects, ReceiptStates

\* Every step keeps every variable's type.
LEMMA TypeStep == TypeOK /\ [Next]_vars => TypeOK'
<1> SUFFICES ASSUME TypeOK, [Next]_vars PROVE TypeOK'
  OBVIOUS
<1> USE PublicMaxAssumption, BoundsAssumption, BatchAssumption
<1>1. ASSUME NEW withCallback \in BOOLEAN, NEW kind \in {"plain", "timed"},
             Reserve(withCallback, kind)
      PROVE  TypeOK'
  <2>1. /\ lastSerial' = lastSerial + 1
        /\ lastSerial' \in Serials /\ lastSerial' \in 0 .. MaxSends
    BY <1>1 DEF Reserve, TypeOK, Serials
  <2>2. /\ pending' \in [RequestIds -> Serials \cup {None}]
        /\ idOf' \in [Serials -> RequestIds \cup {None}]
        /\ idOf'[lastSerial'] \in RequestIds
    BY <1>1, <2>1 DEF Reserve, TypeOK
  <2>3. lastRequestId' \in 0 .. PublicMax
    BY <1>1 DEF Reserve, RequestIds
  <2>4. hasCallback' \in [Serials -> BOOLEAN]
    BY <1>1, <2>1 DEF Reserve, TypeOK
  <2>5. timerKind' \in [Serials -> TimerKinds]
    BY <1>1, <2>1 DEF Reserve, TypeOK, TimerKinds
  <2>6. sendStage' \in SendStages /\ sendSerial' = lastSerial'
    BY <1>1, <2>1 DEF Reserve, SendStages
  <2>7. idOf'[lastSerial'] # None
    BY <2>2 DEF RequestIds, None
  <2> QED
    BY <1>1, <2>1, <2>2, <2>3, <2>4, <2>5, <2>6, <2>7
       DEF TypeOK, Reserve, sourceVars, dispatchVars, callVars
<1>2. CASE SendReturns
  BY <1>2 DEF TypeOK, SendReturns, SendDone, SendStages, requestVars, sourceVars,
              dispatchVars, serialVars, callVars
<1>3. CASE AttachPreparedTimeout
  BY <1>3 DEF TypeOK, AttachPreparedTimeout, SendDone, SendStages, sourceVars,
              dispatchVars, serialVars, callVars, IsPending, None, Serials
<1>4. CASE SendThrows
  BY <1>4 DEF TypeOK, SendThrows, SendStages, requestVars, sourceVars,
              dispatchVars, serialVars, callVars
<1>5. CASE CancelRequest
  <2> DEFINE id == idOf[sendSerial]
             s == pending[id]
  <2>1. sendSerial \in Serials /\ id \in RequestIds
    BY <1>5 DEF CancelRequest, TypeOK
  <2>2. ASSUME NEW i \in QueuedUnder(id)
        PROVE  /\ RemoveAt(queue, i) \in QueueType
               /\ queue[i].object \in Objects
               /\ queue[i].serial \in Serials
    <3>1. i \in 1 .. Len(queue) /\ queue[i].serial # None
      BY <2>2 DEF QueuedUnder
    <3>2. queue \in QueueType
      BY DEF TypeOK, QueueType
    <3>3. queue[i] \in [object : Objects, serial : Serials \cup {None}]
      BY <3>1, <3>2, ElementOfSeq DEF QueueType
    <3>4. RemoveAt(queue, i) \in QueueType
      BY <3>1, <3>2, RemoveAtType DEF QueueType
    <3> QED
      BY <3>1, <3>3, <3>4
  <2>3. /\ queue' \in QueueType
        /\ pending' \in [RequestIds -> Serials \cup {None}]
        /\ timerKind' \in [Serials -> TimerKinds]
        /\ attached' \subseteq Serials
        /\ receipt' \in [Objects -> ReceiptStates]
    <3>1. CASE s # None
      <4>1. /\ pending' = [pending EXCEPT ![id] = None]
            /\ timerKind' = [timerKind EXCEPT ![s] = "none"]
            /\ attached' = attached \ {s}
            /\ UNCHANGED <<queue, receipt>>
        BY <1>5, <3>1 DEF CancelRequest
      <4>2. timerKind' \in [Serials -> TimerKinds]
        BY <4>1 DEF TypeOK, TimerKinds
      <4>3. pending' \in [RequestIds -> Serials \cup {None}]
        BY <4>1 DEF TypeOK
      <4> QED
        BY <4>1, <4>2, <4>3 DEF TypeOK, QueueType
    <3>2. CASE s = None /\ QueuedUnder(id) # {}
      <4>1. PICK i \in QueuedUnder(id) :
              /\ queue' = RemoveAt(queue, i)
              /\ receipt' = [receipt EXCEPT ![queue[i].object] = "dropped"]
              /\ timerKind' = [timerKind EXCEPT ![queue[i].serial] = "none"]
              /\ attached' = attached \ {queue[i].serial}
              /\ UNCHANGED pending
        BY <1>5, <3>2 DEF CancelRequest
      <4>2. queue' \in QueueType
        BY <2>2, <4>1
      <4>3. timerKind' \in [Serials -> TimerKinds]
        BY <4>1 DEF TypeOK, TimerKinds
      <4>4. receipt' \in [Objects -> ReceiptStates]
        BY <4>1 DEF TypeOK, ReceiptStates
      <4> QED
        BY <4>1, <4>2, <4>3, <4>4 DEF TypeOK
    <3>3. CASE s = None /\ QueuedUnder(id) = {}
      BY <1>5, <2>1, <3>3 DEF CancelRequest, TypeOK, QueueType, requestVars
    <3> QED
      BY <3>1, <3>2, <3>3
  <2> QED
    BY <1>5, <2>1, <2>3
       DEF TypeOK, CancelRequest, SendDone, SendStages, QueueType, sourceVars,
           dispatchVars, serialVars, callVars
<1>6. ASSUME NEW s \in 1 .. lastSerial,
             NEW kind \in {"terminal", "explicit", "notification"}, SetTimeout(s, kind)
      PROVE  TypeOK'
  BY <1>6, SMTT(30) DEF TypeOK, SetTimeout, Serials, TimerKinds, sourceVars, sendVars,
              dispatchVars, serialVars, callVars
<1>7. ASSUME NEW s \in 1 .. lastSerial, TimerFires(s)
      PROVE  TypeOK'
  <2>1. CASE TerminalTimerFires(s)
    <3>1. timerKind' \in [Serials -> TimerKinds]
      BY <2>1 DEF TypeOK, TerminalTimerFires, TimerKinds
    <3>2. pending' \in [RequestIds -> Serials \cup {None}]
      BY <2>1 DEF TypeOK, TerminalTimerFires
    <3>3. outcome' \in [Serials -> Outcomes]
      BY <2>1 DEF TypeOK, TerminalTimerFires, CallBack, Outcomes
    <3>4. calls' \in [Serials -> Nat]
      BY <2>1 DEF TypeOK, TerminalTimerFires, CallBack
    <3> QED
      BY <2>1, <3>1, <3>2, <3>3, <3>4
         DEF TypeOK, TerminalTimerFires, sourceVars, sendVars, dispatchVars,
             serialVars
  <2>2. CASE NotificationTimerFires(s)
    BY <1>7, <2>2 DEF TypeOK, NotificationTimerFires, Serials, TimerKinds,
              sourceVars, sendVars, dispatchVars, serialVars, callVars
  <2>3. CASE StaleTimerFires(s)
    BY <1>7, <2>3 DEF TypeOK, StaleTimerFires,
              sourceVars, sendVars, dispatchVars, serialVars, callVars
  <2> QED
    BY <1>7, <2>1, <2>2, <2>3 DEF TimerFires
<1>8. CASE ReceiveUpdate
  <2>1. CASE stopped /\ Refuse
    BY <1>8, <2>1, RefuseType
       DEF ReceiveUpdate, Refuse, TypeOK, requestVars, sourceVars, sendVars,
           dispatchVars, serialVars, callVars
  <2>2. CASE ~stopped /\ Enqueue(None)
    <3>1. ScheduleDispatch
      BY <2>2 DEF Enqueue
    <3> QED
      BY <1>8, <2>2, <3>1, EnqueueType, ScheduleType
         DEF ReceiveUpdate, TypeOK, QueueType, requestVars, sendVars,
             dispatchVars, serialVars, callVars
  <2> QED
    BY <1>8, <2>1, <2>2 DEF ReceiveUpdate
<1>9. ASSUME NEW id \in RequestIds, ReceiveResponse(id)
      PROVE  TypeOK'
  <2>1. CASE (stopped \/ pending[id] = None) /\ Refuse /\ UNCHANGED <<pending, claimed>>
    BY <1>9, <2>1, RefuseType
       DEF ReceiveResponse, Refuse, TypeOK, sourceVars, sendVars,
           dispatchVars, serialVars, callVars
  <2>2. CASE /\ ~stopped /\ pending[id] # None
             /\ Enqueue(pending[id])
             /\ claimed' = claimed \cup {pending[id]}
             /\ pending' = [pending EXCEPT ![id] = None]
    <3>1. ScheduleDispatch
      BY <2>2 DEF Enqueue
    <3>2. pending[id] \in Serials
      BY <2>2 DEF TypeOK
    <3> QED
      BY <1>9, <2>2, <3>1, <3>2, EnqueueType, ScheduleType
         DEF ReceiveResponse, TypeOK, QueueType, sendVars,
             dispatchVars, serialVars, callVars
  <2> QED
    BY <1>9, <2>1, <2>2 DEF ReceiveResponse
<1>10. CASE DispatchStep
  <2>1. CASE DispatchBegin
    <3>1. dispatchStage' \in DispatchStages
      BY <2>1 DEF DispatchBegin, DispatchStages
    <3>2. dispatched' \in DispatchType
      BY <2>1, DispatchBeginType DEF TypeOK, DispatchBegin
    <3> QED
      BY <2>1, <3>1, <3>2 DEF TypeOK, DispatchBegin, DispatchType, requestVars, sourceVars,
                sendVars, serialVars, callVars
  <2>2. CASE DispatchOne
    <3>1. /\ queue # <<>>
          /\ Head(queue) \in [object : Objects, serial : Serials \cup {None}]
          /\ Tail(queue) \in QueueType
      BY <2>2, HeadTailProperties DEF DispatchOne, MoreToDispatch, TypeOK, QueueType
    <3>2. dispatchStage' \in DispatchStages
      BY <2>2 DEF DispatchOne, DispatchStages
    <3>3. dispatched' \in DispatchType
      <4>1. (Head(queue).serial = None \/ hasCallback[Head(queue).serial])
              \in BOOLEAN
        BY <3>1 DEF TypeOK
      <4> QED
        BY <2>2, <3>1, <4>1 DEF DispatchOne, TypeOK, DispatchType
    <3>4. timerKind' \in [Serials -> TimerKinds] /\ attached' \subseteq Serials
      BY <2>2, <3>1 DEF DispatchOne, TypeOK, TimerKinds
    <3>5. outcome' \in [Serials -> Outcomes]
      BY <2>2, <3>1 DEF DispatchOne, TypeOK, CallBack, callVars, Outcomes
    <3>6. calls' \in [Serials -> Nat]
      BY <2>2, <3>1, SMTT(30) DEF DispatchOne, TypeOK, CallBack, callVars
    <3>7. lastDelivered' \in 0 .. MaxObjects
      BY <2>2, <3>1 DEF DispatchOne, Objects
    <3> QED
      BY <2>2, <3>1, <3>2, <3>3, <3>4, <3>5, <3>6, <3>7
         DEF TypeOK, DispatchOne, QueueType, DispatchType, sourceVars, sendVars, serialVars
  <2>3. CASE DispatchSettle
    <3>1. dispatchStage' \in DispatchStages
      BY <2>3 DEF DispatchSettle, DispatchStages
    <3>2. dispatched' \in DispatchType
      <4>1. dispatched' = [dispatched EXCEPT !.count = @ + 1, !.object = 0]
        BY <2>3 DEF DispatchSettle
      <4>2. dispatched \in DispatchType
        BY DEF TypeOK, DispatchType
      <4>3. /\ dispatched.source \in SourceIds \cup {None}
            /\ dispatched.count + 1 \in Nat
            /\ dispatched.delivered \in BOOLEAN
        BY <4>2 DEF DispatchType
      <4>4. dispatched' = [source |-> dispatched.source,
                           count |-> dispatched.count + 1, object |-> 0,
                           delivered |-> dispatched.delivered]
        BY <4>1, <4>2 DEF DispatchType
      <4> QED
        BY <4>3, <4>4 DEF DispatchType
    <3>3. receipt' \in [Objects -> ReceiptStates]
      BY <2>3 DEF DispatchSettle, TypeOK, ReceiptStates
    <3> QED
      BY <2>3, <3>1, <3>2, <3>3 DEF TypeOK, DispatchSettle, DispatchType, requestVars,
                sourceVars, sendVars, serialVars, callVars
  <2>4. CASE DispatchLoopEnd
    BY <2>4 DEF TypeOK, DispatchLoopEnd, DispatchStages,
                requestVars, sourceVars, sendVars, serialVars, callVars
  <2>5. CASE DispatchCheck
    <3>1. dispatchStage' \in DispatchStages
      BY <2>5 DEF DispatchCheck, DispatchStages
    <3>2. dispatched' \in DispatchType
      BY <2>5, DispatchBeginType DEF DispatchCheck, TypeOK, DispatchType
    <3>3. dispatchSource' \in SourceIds \cup {None}
      BY <2>5 DEF DispatchCheck, TypeOK
    <3> QED
      BY <2>5, <3>1, <3>2, <3>3 DEF TypeOK, DispatchCheck, DispatchType, requestVars, sendVars,
                serialVars, callVars
  <2>6. CASE Retire
    BY <2>6 DEF TypeOK, Retire, ReleaseSourceLifetime, DispatchStages, NoDispatch,
                requestVars, sendVars, serialVars, callVars
  <2> QED
    BY <1>10, <2>1, <2>2, <2>3, <2>4, <2>5, <2>6 DEF DispatchStep
<1>11. CASE Shutdown
  <2>1. /\ sources' \subseteq SourceIds
        /\ attachedCount' \in Nat
        /\ lifetime' \in BOOLEAN
    BY <1>11 DEF Shutdown, ReleaseSourceLifetime, TypeOK
  <2>2. <<>> \in QueueType
    BY DEF QueueType
  <2> QED
    BY <1>11, <2>1, <2>2
       DEF TypeOK, Shutdown, QueueType, TimerKinds, ReceiptStates, None,
           sendVars, dispatchVars, serialVars, callVars
<1>12. CASE UNCHANGED vars
  BY <1>12 DEF TypeOK, vars, requestVars, sourceVars, sendVars, dispatchVars,
               serialVars, callVars
<1> QED
  BY <1>1, <1>2, <1>3, <1>4, <1>5, <1>6, <1>7, <1>8, <1>9, <1>10, <1>11, <1>12
     DEF Next, SendStep

\* Every variable of the transport keeps its type, for every bound.
THEOREM TypeCorrect == Spec => []TypeOK
<1>1. Init => TypeOK
  BY TypeInit
<1>2. TypeOK /\ [Next]_vars => TypeOK'
  BY TypeStep
<1> QED
  BY <1>1, <1>2, PTL DEF Spec

-----------------------------------------------------------------------------
(***************************************************************************)
(* Why no caller is called back twice, and why a claimed response wins: a   *)
(* request is in the map, in the queue or over, and never in two places.    *)
(* The map owns each serial under its own identifier, the queue holds only  *)
(* claimed serials, each once, and neither holds one that was completed.    *)
(***************************************************************************)
NotCompleted(s) == calls[s] = 0 /\ outcome[s] = "none"

MapOwnsOpenRequests ==
  \A id \in RequestIds : pending[id] # None =>
    /\ idOf[pending[id]] = id
    /\ pending[id] <= lastSerial
    /\ pending[id] \notin claimed
    /\ NotCompleted(pending[id])

QueueOwnsClaimedRequests ==
  \A i \in 1 .. Len(queue) : queue[i].serial # None =>
    /\ queue[i].serial \in claimed
    /\ NotCompleted(queue[i].serial)

QueuedOnce ==
  \A i, j \in 1 .. Len(queue) :
    (i # j /\ queue[i].serial # None) => queue[i].serial # queue[j].serial

LaterRequestsUntouched ==
  \A s \in Serials : s > lastSerial => s \notin claimed /\ NotCompleted(s)

CompletionInv ==
  /\ TypeOK
  /\ MapOwnsOpenRequests
  /\ QueueOwnsClaimedRequests
  /\ QueuedOnce
  /\ LaterRequestsUntouched
  /\ ResponseWins
  /\ AtMostOnce

completionVars == <<pending, queue, calls, outcome, claimed, lastSerial, idOf>>

\* Before the first request nothing is completed, queued or claimed.
LEMMA CompletionInit == Init => CompletionInv
<1> SUFFICES ASSUME Init PROVE CompletionInv
  OBVIOUS
<1>1. TypeOK
  BY TypeInit
<1>2. MapOwnsOpenRequests
  BY DEF Init, MapOwnsOpenRequests
<1>3. QueueOwnsClaimedRequests /\ QueuedOnce
  BY DEF Init, QueueOwnsClaimedRequests, QueuedOnce
<1>4. LaterRequestsUntouched /\ ResponseWins /\ AtMostOnce
  BY DEF Init, LaterRequestsUntouched, NotCompleted, ResponseWins, AtMostOnce
<1> QED
  BY <1>1, <1>2, <1>3, <1>4 DEF CompletionInv

\* A step that touches neither requests, queue nor completions keeps them apart.
LEMMA CompletionStutter ==
  CompletionInv /\ TypeOK' /\ UNCHANGED completionVars => CompletionInv'
  BY DEF CompletionInv, completionVars, MapOwnsOpenRequests,
         QueueOwnsClaimedRequests, QueuedOnce, LaterRequestsUntouched,
         ResponseWins, AtMostOnce, NotCompleted

\* Dropping elements of the queue and of the map keeps the others apart: every
\* position of the new queue holds what a position of the old one held.
LEMMA CompletionShrinks ==
  ASSUME CompletionInv, TypeOK',
         UNCHANGED <<calls, outcome, claimed, lastSerial, idOf>>,
         \A id \in RequestIds : pending'[id] \in {pending[id], None},
         NEW from,
         \A i \in 1 .. Len(queue') :
           from[i] \in 1 .. Len(queue) /\ queue'[i] = queue[from[i]],
         \A i, j \in 1 .. Len(queue') : i # j => from[i] # from[j]
  PROVE  CompletionInv'
<1>1. MapOwnsOpenRequests'
  BY DEF CompletionInv, MapOwnsOpenRequests, NotCompleted
<1>2. QueueOwnsClaimedRequests'
  BY DEF CompletionInv, QueueOwnsClaimedRequests, NotCompleted
<1>3. QueuedOnce'
  <2> SUFFICES ASSUME NEW i \in 1 .. Len(queue'), NEW j \in 1 .. Len(queue'),
                      i # j, queue'[i].serial # None
               PROVE  queue'[i].serial # queue'[j].serial
    BY DEF QueuedOnce
  <2>1. /\ from[i] \in 1 .. Len(queue) /\ queue'[i] = queue[from[i]]
        /\ from[j] \in 1 .. Len(queue) /\ queue'[j] = queue[from[j]]
        /\ from[i] # from[j]
    OBVIOUS
  <2> QED
    BY <2>1 DEF CompletionInv, QueuedOnce
<1>4. LaterRequestsUntouched' /\ ResponseWins' /\ AtMostOnce'
  BY DEF CompletionInv, LaterRequestsUntouched, NotCompleted, ResponseWins,
         AtMostOnce
<1> QED
  BY <1>1, <1>2, <1>3, <1>4 DEF CompletionInv

\* Starting a request: its serial is new.
LEMMA CompletionReserve ==
  ASSUME CompletionInv, TypeOK', NEW withCallback \in BOOLEAN,
         NEW kind \in {"plain", "timed"}, Reserve(withCallback, kind)
  PROVE  CompletionInv'
<1> DEFINE n == lastSerial + 1
<1>1. PICK id \in RequestIds :
        /\ pending[id] = None
        /\ pending' = [pending EXCEPT ![id] = n]
        /\ idOf' = [idOf EXCEPT ![n] = id]
  BY DEF Reserve, IsReserved
<1>2. /\ n \in Serials /\ n > lastSerial /\ lastSerial \in Nat
      /\ lastSerial' = n
      /\ UNCHANGED <<queue, calls, outcome, claimed>>
  BY BoundsAssumption DEF CompletionInv, TypeOK, Reserve, Serials, callVars
<1>3. NotCompleted(n) /\ n \notin claimed
  BY <1>2 DEF CompletionInv, LaterRequestsUntouched
<1>4. MapOwnsOpenRequests'
  <2> SUFFICES ASSUME NEW other \in RequestIds, pending'[other] # None
               PROVE  /\ idOf'[pending'[other]] = other
                      /\ pending'[other] <= lastSerial'
                      /\ pending'[other] \notin claimed'
                      /\ calls'[pending'[other]] = 0
                      /\ outcome'[pending'[other]] = "none"
    BY DEF MapOwnsOpenRequests, NotCompleted
  <2>0. pending \in [RequestIds -> Serials \cup {None}] /\ idOf \in [Serials -> RequestIds \cup {None}]
    BY DEF CompletionInv, TypeOK
  <2>1. CASE other = id
    <3>1. pending'[other] = n /\ idOf'[n] = id
      BY <1>1, <1>2, <2>0, <2>1
    <3> QED
      BY <1>2, <1>3, <2>1, <3>1 DEF NotCompleted
  <2>2. CASE other # id
    <3>1. pending'[other] = pending[other]
      BY <1>1, <2>0, <2>2
    <3>2. /\ idOf[pending[other]] = other /\ pending[other] <= lastSerial
          /\ pending[other] \notin claimed /\ NotCompleted(pending[other])
      BY <3>1 DEF CompletionInv, MapOwnsOpenRequests
    <3>3. pending[other] \in Nat /\ pending[other] # n
      BY <1>2, <2>0, <3>1, <3>2 DEF Serials
    <3>4. idOf'[pending[other]] = idOf[pending[other]]
      BY <1>1, <2>0, <3>3, <3>1
    <3> QED
      BY <1>2, <3>1, <3>2, <3>3, <3>4 DEF NotCompleted
  <2> QED
    BY <2>1, <2>2
<1>5. QueueOwnsClaimedRequests' /\ QueuedOnce'
  BY <1>2 DEF CompletionInv, QueueOwnsClaimedRequests, QueuedOnce, NotCompleted
<1>6. LaterRequestsUntouched'
  <2> SUFFICES ASSUME NEW s \in Serials, s > lastSerial'
               PROVE  s \notin claimed' /\ NotCompleted(s)'
    BY DEF LaterRequestsUntouched
  <2>1. s > lastSerial
    BY <1>2 DEF Serials
  <2> QED
    BY <1>2, <2>1 DEF CompletionInv, LaterRequestsUntouched, NotCompleted
<1>7. ResponseWins' /\ AtMostOnce'
  BY <1>2 DEF CompletionInv, ResponseWins, AtMostOnce
<1> QED
  BY <1>4, <1>5, <1>6, <1>7 DEF CompletionInv

\* Completing a request that nothing else owns any more.
LEMMA CompletionCallBack ==
  ASSUME CompletionInv, TypeOK', NEW s \in Serials, NEW result \in Outcomes,
         NEW called \in BOOLEAN,
         s <= lastSerial,
         NotCompleted(s), CallBack(s, result, called),
         result = "timeout" => s \notin claimed,
         UNCHANGED <<claimed, lastSerial, idOf>>,
         \A id \in RequestIds :
           pending'[id] \in {pending[id], None} \ {s},
         NEW from,
         \A i \in 1 .. Len(queue') :
           /\ from[i] \in 1 .. Len(queue) /\ queue'[i] = queue[from[i]]
           /\ queue'[i].serial # s,
         \A i, j \in 1 .. Len(queue') : i # j => from[i] # from[j]
  PROVE  CompletionInv'
<1>1. /\ \A t \in Serials : t # s => (calls'[t] = calls[t] /\ outcome'[t] = outcome[t])
      /\ outcome'[s] = result
      /\ calls'[s] \in {0, 1}
  BY DEF CompletionInv, TypeOK, CallBack, NotCompleted
<1>2. \A t \in Serials : (t # s /\ NotCompleted(t)) => NotCompleted(t)'
  BY <1>1 DEF NotCompleted
<1>3. MapOwnsOpenRequests'
  BY <1>2, SMTT(30) DEF CompletionInv, TypeOK, MapOwnsOpenRequests
<1>4. QueueOwnsClaimedRequests'
  <2> SUFFICES ASSUME NEW i \in 1 .. Len(queue'), queue'[i].serial # None
               PROVE  /\ queue'[i].serial \in claimed'
                      /\ calls'[queue'[i].serial] = 0
                      /\ outcome'[queue'[i].serial] = "none"
    BY DEF QueueOwnsClaimedRequests, NotCompleted
  <2>1. /\ queue'[i].serial \in claimed /\ NotCompleted(queue'[i].serial)
        /\ queue'[i].serial # s
    BY DEF CompletionInv, QueueOwnsClaimedRequests
  <2>2. claimed \subseteq Serials
    BY DEF CompletionInv, TypeOK
  <2>3. calls'[queue'[i].serial] = 0 /\ outcome'[queue'[i].serial] = "none"
    BY <1>1, <2>1, <2>2 DEF NotCompleted
  <2> QED
    BY <2>1, <2>3
<1>5. QueuedOnce'
  <2> SUFFICES ASSUME NEW i \in 1 .. Len(queue'), NEW j \in 1 .. Len(queue'),
                      i # j, queue'[i].serial # None
               PROVE  queue'[i].serial # queue'[j].serial
    BY DEF QueuedOnce
  <2>1. /\ from[i] \in 1 .. Len(queue) /\ queue'[i] = queue[from[i]]
        /\ from[j] \in 1 .. Len(queue) /\ queue'[j] = queue[from[j]]
        /\ from[i] # from[j]
    OBVIOUS
  <2> QED
    BY <2>1 DEF CompletionInv, QueuedOnce
<1>6. LaterRequestsUntouched'
  <2> SUFFICES ASSUME NEW t \in Serials, t > lastSerial'
               PROVE  t \notin claimed' /\ NotCompleted(t)'
    BY DEF LaterRequestsUntouched
  <2>1. t > lastSerial /\ t # s
    <3>1. lastSerial \in Int /\ lastSerial' = lastSerial
      BY BoundsAssumption DEF CompletionInv, TypeOK
    <3>2. s \in Int /\ t \in Int
      BY BoundsAssumption DEF Serials
    <3> QED
      BY <3>1, <3>2
  <2> QED
    BY <1>2, <2>1 DEF CompletionInv, LaterRequestsUntouched
<1>7. ResponseWins'
  BY <1>1 DEF CompletionInv, TypeOK, ResponseWins
<1>8. AtMostOnce'
  BY <1>1 DEF CompletionInv, AtMostOnce
<1> QED
  BY <1>3, <1>4, <1>5, <1>6, <1>7, <1>8 DEF CompletionInv

\* An arrival at the end of the queue: an update, or a response claimed now.
LEMMA CompletionEnqueue ==
  ASSUME CompletionInv, TypeOK', NEW s \in Serials \cup {None}, Enqueue(s),
         UNCHANGED <<calls, outcome, lastSerial, idOf>>,
         s # None => /\ s \notin claimed /\ NotCompleted(s)
                     /\ s <= lastSerial,
         claimed' = claimed \cup ({s} \ {None}),
         \A id \in RequestIds : pending'[id] \in {pending[id], None} \ ({s} \ {None})
  PROVE  CompletionInv'
<1> DEFINE n == Len(queue)
           e == [object |-> lastObject + 1, serial |-> s]
<1>1. queue \in QueueType /\ queue' = Append(queue, e)
  BY DEF CompletionInv, TypeOK, QueueType, Enqueue
<1>2. /\ n \in Nat /\ Len(queue') = n + 1
      /\ queue'[n + 1] = e
      /\ \A i \in 1 .. n : queue'[i] = queue[i]
  BY <1>1, AppendProperties, LenProperties DEF QueueType
<1>3. MapOwnsOpenRequests'
  BY DEF CompletionInv, MapOwnsOpenRequests, NotCompleted
<1>4. QueueOwnsClaimedRequests'
  <2> SUFFICES ASSUME NEW i \in 1 .. (n + 1), queue'[i].serial # None
               PROVE  /\ queue'[i].serial \in claimed'
                      /\ NotCompleted(queue'[i].serial)
    BY <1>2 DEF QueueOwnsClaimedRequests, NotCompleted
  <2>1. CASE i = n + 1
    BY <1>2, <2>1
  <2>2. CASE i # n + 1
    <3>1. i \in 1 .. n
      BY <1>2, <2>2
    <3> QED
      BY <1>2, <3>1 DEF CompletionInv, QueueOwnsClaimedRequests
  <2> QED
    BY <2>1, <2>2
<1>5. QueuedOnce'
  <2> SUFFICES ASSUME NEW i \in 1 .. (n + 1), NEW j \in 1 .. (n + 1),
                      i # j, queue'[i].serial # None
               PROVE  queue'[i].serial # queue'[j].serial
    BY <1>2 DEF QueuedOnce
  <2>1. \A k \in 1 .. n : queue[k].serial # None => queue[k].serial # s
    BY DEF CompletionInv, QueueOwnsClaimedRequests
  <2>2. CASE i = n + 1
    <3>1. j \in 1 .. n /\ queue'[j] = queue[j] /\ queue'[i].serial = s
      BY <1>2, <2>2
    <3> QED
      BY <2>1, <3>1
  <2>3. CASE j = n + 1
    <3>1. i \in 1 .. n /\ queue'[i] = queue[i] /\ queue'[j].serial = s
      BY <1>2, <2>3
    <3> QED
      BY <2>1, <3>1
  <2>4. CASE i # n + 1 /\ j # n + 1
    <3>1. i \in 1 .. n /\ j \in 1 .. n
      BY <1>2, <2>4
    <3> QED
      BY <1>2, <3>1 DEF CompletionInv, QueuedOnce
  <2> QED
    BY <2>2, <2>3, <2>4
<1>6. LaterRequestsUntouched'
  <2> SUFFICES ASSUME NEW t \in Serials, t > lastSerial
               PROVE  t \notin claimed' /\ calls[t] = 0 /\ outcome[t] = "none"
    BY DEF LaterRequestsUntouched, NotCompleted
  <2>1. lastSerial \in Int /\ t \in Int /\ t # None
    BY BoundsAssumption, NoneIsNothing, SMTT(30) DEF CompletionInv, TypeOK, Serials
  <2>2. s # t
    BY <2>1 DEF Serials
  <2> QED
    BY <2>2 DEF CompletionInv, LaterRequestsUntouched, NotCompleted
<1>7. ResponseWins' /\ AtMostOnce'
  BY DEF CompletionInv, ResponseWins, AtMostOnce, NotCompleted
<1> QED
  BY <1>3, <1>4, <1>5, <1>6, <1>7 DEF CompletionInv

\* Every step keeps the completion invariant.
LEMMA CompletionStep == CompletionInv /\ [Next]_vars => CompletionInv'
<1> SUFFICES ASSUME CompletionInv, [Next]_vars PROVE CompletionInv'
  OBVIOUS
<1>0. TypeOK /\ TypeOK'
  BY TypeStep DEF CompletionInv
<1>1. ASSUME NEW withCallback \in BOOLEAN, NEW kind \in {"plain", "timed"},
             Reserve(withCallback, kind)
      PROVE  CompletionInv'
  BY <1>0, <1>1, CompletionReserve
<1>2. CASE SendReturns
  BY <1>0, <1>2, CompletionStutter DEF SendReturns, completionVars, requestVars,
     serialVars, callVars
<1>3. CASE AttachPreparedTimeout
  BY <1>0, <1>3, CompletionStutter DEF AttachPreparedTimeout, completionVars,
     serialVars, callVars
<1>4. CASE SendThrows
  BY <1>0, <1>4, CompletionStutter DEF SendThrows, completionVars, requestVars,
     serialVars, callVars
<1>5. CASE CancelRequest
  <2> DEFINE id == idOf[sendSerial]
             s == pending[id]
  <2>0. /\ UNCHANGED <<calls, outcome, claimed, lastSerial, idOf>>
        /\ id \in RequestIds
        /\ pending \in [RequestIds -> Serials \cup {None}]
    BY <1>0, <1>5 DEF CancelRequest, TypeOK, serialVars, callVars
  <2>1. CASE s # None \/ QueuedUnder(id) = {}
    <3>1. /\ queue' = queue
          /\ \A other \in RequestIds : pending'[other] \in {pending[other], None}
      BY <1>5, <2>0, <2>1 DEF CancelRequest, requestVars
    <3> DEFINE from == [i \in 1 .. Len(queue) |-> i]
    <3>2. /\ \A i \in 1 .. Len(queue') :
                from[i] \in 1 .. Len(queue) /\ queue'[i] = queue[from[i]]
          /\ \A i, j \in 1 .. Len(queue') : i # j => from[i] # from[j]
      BY <3>1
    <3> HIDE DEF from
    <3> QED
      BY <1>0, <2>0, <3>1, <3>2, CompletionShrinks
  <2>2. CASE s = None /\ QueuedUnder(id) # {}
    <3>1. PICK i \in QueuedUnder(id) :
            queue' = RemoveAt(queue, i) /\ pending' = pending
      BY <1>5, <2>2 DEF CancelRequest
    <3>2. i \in 1 .. Len(queue) /\ queue \in QueueType
      BY <1>0 DEF QueuedUnder, TypeOK, QueueType
    <3>3. /\ Len(queue) \in Nat
          /\ Len(queue') = Len(queue) - 1
          /\ \A j \in 1 .. (Len(queue) - 1) :
               queue'[j] = IF j < i THEN queue[j] ELSE queue[j + 1]
      BY <3>1, <3>2, RemoveAtType, LenProperties DEF QueueType
    <3> DEFINE from == [j \in 1 .. (Len(queue) - 1) |-> IF j < i THEN j ELSE j + 1]
    <3>4. \A j \in 1 .. Len(queue') :
            from[j] \in 1 .. Len(queue) /\ queue'[j] = queue[from[j]]
      BY <3>2, <3>3
    <3>5. \A j, k \in 1 .. Len(queue') : j # k => from[j] # from[k]
      BY <3>2, <3>3
    <3> HIDE DEF from
    <3> QED
      BY <1>0, <2>0, <3>1, <3>4, <3>5, CompletionShrinks
  <2> QED
    BY <2>1, <2>2
<1>6. ASSUME NEW s \in 1 .. lastSerial,
             NEW kind \in {"terminal", "explicit", "notification"}, SetTimeout(s, kind)
      PROVE  CompletionInv'
  BY <1>0, <1>6, CompletionStutter DEF SetTimeout, completionVars, serialVars,
     callVars
<1>7. ASSUME NEW s \in 1 .. lastSerial, TimerFires(s)
      PROVE  CompletionInv'
  <2>1. CASE TerminalTimerFires(s)
    <3>1. /\ s \in Serials /\ idOf[s] \in RequestIds /\ pending[idOf[s]] = s
          /\ pending' = [pending EXCEPT ![idOf[s]] = None]
          /\ pending \in [RequestIds -> Serials \cup {None}]
          /\ CallBack(s, "timeout", hasCallback[s] \/ timerKind[s] = "explicit")
          /\ UNCHANGED <<queue, claimed, lastSerial, idOf>>
      BY <1>0, <2>1 DEF TerminalTimerFires, IsPending, TypeOK, serialVars
    <3>2. s \notin claimed /\ NotCompleted(s) /\ s <= lastSerial
      BY <3>1, NoneIsNothing DEF CompletionInv, MapOwnsOpenRequests
    <3>3. \A id \in RequestIds : pending'[id] \in {pending[id], None} \ {s}
      BY <3>1, NoneIsNothing DEF CompletionInv, MapOwnsOpenRequests
    <3>4. \A i \in 1 .. Len(queue') : queue'[i].serial # s
      BY <3>1, <3>2, NoneIsNothing DEF CompletionInv, QueueOwnsClaimedRequests
    <3> DEFINE from == [i \in 1 .. Len(queue) |-> i]
    <3>5. /\ \A i \in 1 .. Len(queue') :
                from[i] \in 1 .. Len(queue) /\ queue'[i] = queue[from[i]]
          /\ \A i, j \in 1 .. Len(queue') : i # j => from[i] # from[j]
      BY <3>1
    <3> HIDE DEF from
    <3>6. "timeout" \in Outcomes
      BY DEF Outcomes
    <3> DEFINE called == hasCallback[s] \/ timerKind[s] = "explicit"
    <3>7. called \in BOOLEAN
      OBVIOUS
    <3>8. CallBack(s, "timeout", called)
      BY <3>1
    <3>9. \A i \in 1 .. Len(queue') :
            /\ from[i] \in 1 .. Len(queue) /\ queue'[i] = queue[from[i]]
            /\ queue'[i].serial # s
      BY <3>4, <3>5
    <3>10. s \in Serials /\ UNCHANGED <<claimed, lastSerial, idOf>>
      BY <3>1
    <3> HIDE DEF called
    <3> QED
      BY <1>0, <3>2, <3>3, <3>5, <3>6, <3>7, <3>8, <3>9, <3>10, CompletionCallBack, SMTT(30)
  <2>2. CASE NotificationTimerFires(s)
    BY <1>0, <2>2, CompletionStutter DEF NotificationTimerFires, completionVars,
       serialVars, callVars
  <2>3. CASE StaleTimerFires(s)
    BY <1>0, <2>3, CompletionStutter DEF StaleTimerFires, completionVars,
       serialVars, callVars
  <2> QED
    BY <1>7, <2>1, <2>2, <2>3 DEF TimerFires
<1>8. CASE ReceiveUpdate
  <2>1. CASE Refuse
    BY <1>0, <1>8, <2>1, CompletionStutter DEF ReceiveUpdate, Refuse,
       completionVars, requestVars, serialVars, callVars
  <2>2. CASE Enqueue(None)
    <3>1. UNCHANGED <<calls, outcome, claimed, lastSerial, idOf, pending>>
      BY <1>8 DEF ReceiveUpdate, requestVars, serialVars, callVars
    <3> QED
      BY <1>0, <2>2, <3>1, CompletionEnqueue
  <2> QED
    BY <1>8, <2>1, <2>2 DEF ReceiveUpdate
<1>9. ASSUME NEW id \in RequestIds, ReceiveResponse(id)
      PROVE  CompletionInv'
  <2>1. CASE Refuse /\ UNCHANGED <<pending, claimed>>
    BY <1>0, <1>9, <2>1, CompletionStutter DEF ReceiveResponse, Refuse,
       completionVars, serialVars, callVars
  <2>2. CASE /\ pending[id] # None
             /\ Enqueue(pending[id])
             /\ claimed' = claimed \cup {pending[id]}
             /\ pending' = [pending EXCEPT ![id] = None]
    <3>1. /\ UNCHANGED <<calls, outcome, lastSerial, idOf>>
          /\ pending \in [RequestIds -> Serials \cup {None}]
          /\ pending[id] \in Serials
      BY <1>0, <1>9, <2>2 DEF ReceiveResponse, serialVars, callVars, TypeOK
    <3>2. /\ pending[id] \notin claimed /\ NotCompleted(pending[id])
          /\ pending[id] <= lastSerial
      BY <2>2 DEF CompletionInv, MapOwnsOpenRequests
    <3>3. \A other \in RequestIds :
            pending'[other] \in {pending[other], None} \ {pending[id]}
      BY <2>2, <3>1 DEF CompletionInv, MapOwnsOpenRequests
    <3>4. {pending[id]} \ {None} = {pending[id]}
      BY <2>2
    <3> QED
      BY <1>0, <2>2, <3>1, <3>2, <3>3, <3>4, CompletionEnqueue
  <2> QED
    BY <1>9, <2>1, <2>2 DEF ReceiveResponse
<1>10. CASE DispatchStep
  <2>1. CASE DispatchOne
    <3> DEFINE s == Head(queue).serial
               from == [i \in 1 .. (Len(queue) - 1) |-> i + 1]
    <3>1. /\ queue # <<>> /\ queue \in QueueType
          /\ queue' = Tail(queue)
          /\ UNCHANGED <<pending, claimed, lastSerial, idOf>>
      BY <1>0, <2>1 DEF DispatchOne, MoreToDispatch, TypeOK, QueueType, serialVars
    <3>2. /\ Len(queue) \in Nat \ {0}
          /\ Len(queue') = Len(queue) - 1
          /\ Head(queue) = queue[1]
          /\ queue[1] \in [object : Objects, serial : Serials \cup {None}]
          /\ \A i \in 1 .. (Len(queue) - 1) : queue'[i] = queue[i + 1]
      <4>1. Len(queue) \in Nat \ {0}
        BY <3>1, EmptySeq DEF QueueType
      <4>2. /\ Len(queue') = Len(queue) - 1
            /\ \A i \in 1 .. (Len(queue) - 1) : queue'[i] = queue[i + 1]
        BY <3>1, <4>1, HeadTailProperties DEF QueueType
      <4>3. Head(queue) = queue[1]
        BY <3>1, <4>1
      <4>4. queue[1] \in [object : Objects, serial : Serials \cup {None}]
        <5>1. 1 \in 1 .. Len(queue)
          BY <4>1
        <5> QED
          BY <3>1, <5>1, ElementOfSeq DEF QueueType
      <4> QED
        BY <4>1, <4>2, <4>3, <4>4
    <3>3. /\ \A i \in 1 .. Len(queue') :
                from[i] \in 1 .. Len(queue) /\ queue'[i] = queue[from[i]]
          /\ \A i, j \in 1 .. Len(queue') : i # j => from[i] # from[j]
      BY <3>2
    <3>4. CASE s = None
      <4>1. UNCHANGED <<calls, outcome>>
        BY <2>1, <3>4 DEF DispatchOne, callVars
      <4> HIDE DEF from
      <4> QED
        BY <1>0, <3>1, <3>3, <4>1, CompletionShrinks
    <3>5. CASE s # None
      <4>1. /\ s \in Serials /\ CallBack(s, "object", hasCallback[s])
            /\ hasCallback[s] \in BOOLEAN
        BY <1>0, <2>1, <3>2, <3>5 DEF DispatchOne, TypeOK
      <4>2. s \in claimed /\ NotCompleted(s)
        BY <3>2, <3>5 DEF CompletionInv, QueueOwnsClaimedRequests
      <4>3. s <= lastSerial
        <5>1. s \in Int /\ lastSerial \in Int
          BY <1>0, <4>1, BoundsAssumption DEF Serials, TypeOK
        <5> QED
          BY <4>1, <4>2, <5>1 DEF CompletionInv, LaterRequestsUntouched
      <4>4. \A id \in RequestIds : pending'[id] \in {pending[id], None} \ {s}
        BY <3>1, <3>5, <4>2 DEF CompletionInv, MapOwnsOpenRequests
      <4>5. \A i \in 1 .. Len(queue') : queue'[i].serial # s
        BY <3>2, <3>5 DEF CompletionInv, QueuedOnce
      <4>6. "object" \in Outcomes
        BY DEF Outcomes
      <4> HIDE DEF from, s
      <4>7. \A i \in 1 .. Len(queue') :
              /\ from[i] \in 1 .. Len(queue) /\ queue'[i] = queue[from[i]]
              /\ queue'[i].serial # s
        BY <3>3, <4>5
      <4>8. UNCHANGED <<claimed, lastSerial, idOf>>
        BY <3>1
      <4>9. "object" # "timeout"
        OBVIOUS
      <4> QED
        BY <1>0, <3>3, <4>1, <4>2, <4>3, <4>4, <4>6, <4>7, <4>8, <4>9,
           CompletionCallBack
    <3> QED
      BY <3>4, <3>5
  <2>2. CASE \/ DispatchBegin \/ DispatchSettle \/ DispatchLoopEnd
             \/ DispatchCheck \/ Retire
    BY <1>0, <2>2, CompletionStutter
       DEF DispatchBegin, DispatchSettle, DispatchLoopEnd, DispatchCheck, Retire,
           completionVars, requestVars, serialVars, callVars
  <2> QED
    BY <1>10, <2>1, <2>2 DEF DispatchStep
<1>11. CASE Shutdown
  <2>1. /\ queue' = <<>> /\ \A id \in RequestIds : pending'[id] = None
        /\ UNCHANGED <<calls, outcome, claimed, lastSerial, idOf>>
    BY <1>11 DEF Shutdown, serialVars, callVars
  <2>2. Len(queue') = 0
    BY <2>1
  <2> DEFINE from == <<>>
  <2>3. /\ \A i \in 1 .. Len(queue') :
              from[i] \in 1 .. Len(queue) /\ queue'[i] = queue[from[i]]
        /\ \A i, j \in 1 .. Len(queue') : i # j => from[i] # from[j]
    BY <2>2
  <2> HIDE DEF from
  <2> QED
    BY <1>0, <2>1, <2>3, CompletionShrinks
<1>12. CASE UNCHANGED vars
  BY <1>0, <1>12, CompletionStutter DEF vars, completionVars, requestVars,
     serialVars, callVars
<1> QED
  BY <1>1, <1>2, <1>3, <1>4, <1>5, <1>6, <1>7, <1>8, <1>9, <1>10, <1>11, <1>12
     DEF Next, SendStep

\* The completion invariant holds throughout.
LEMMA CompletionAlways == Spec => []CompletionInv
<1>1. Init => CompletionInv
  BY CompletionInit
<1>2. CompletionInv /\ [Next]_vars => CompletionInv'
  BY CompletionStep
<1> QED
  BY <1>1, <1>2, PTL DEF Spec

\* A caller is called back at most once for each request, for every number of
\* requests, objects and identifiers, reused ones included.
THEOREM CalledBackAtMostOnce == Spec => []AtMostOnce
<1>1. CompletionInv => AtMostOnce
  BY DEF CompletionInv
<1> QED
  BY <1>1, CompletionAlways, PTL

\* A response accepted before a ready timer ran is never overtaken by it.
THEOREM ClaimedResponseWins == Spec => []ResponseWins
<1>1. CompletionInv => ResponseWins
  BY DEF CompletionInv
<1> QED
  BY <1>1, CompletionAlways, PTL

-----------------------------------------------------------------------------
(* The dispatch sources *)

\* The state object counts its sources and lives while there is one.
SourcesCounted ==
  /\ attachedCount = Cardinality(sources)
  /\ lifetime <=> sources # {}

\* There is no source but the one new arrivals rely on and the one under
\* dispatch, which exists until its dispatch is over.
SourcesKnown ==
  /\ dispatchSource # None => dispatchSource \in sources
  /\ dispatchStage # "idle" => dispatched.source \in sources
  /\ dispatchStage = "idle" => /\ sources \subseteq {dispatchSource}
                               /\ dispatched.source = None
  /\ sources \subseteq {dispatchSource, dispatched.source}

\* The source under dispatch is the one new arrivals rely on until it has looked
\* at the queue for the last time.
SourceLooksAgain ==
  /\ (~stopped /\ queue # <<>>) => dispatchSource # None
  /\ dispatchStage = "retire" => dispatchSource # dispatched.source
  /\ (~stopped /\ dispatchStage \in {"loop", "callback", "check"})
       => dispatchSource = dispatched.source
  /\ stopped => dispatchSource = None

DispatchInv == TypeOK /\ SourcesCounted /\ SourcesKnown /\ SourceLooksAgain

dispatchInvVars == <<stopped, queue, sourceVars, dispatchVars>>

\* There are finitely many sources.
LEMMA SourcesFinite == TypeOK => IsFiniteSet(sources) /\ Cardinality(sources) \in Nat
<1> SUFFICES ASSUME TypeOK PROVE IsFiniteSet(sources) /\ Cardinality(sources) \in Nat
  OBVIOUS
<1>0. 1 \in Int /\ 3 \in Int
  OBVIOUS
<1>1. IsFiniteSet(SourceIds)
  BY <1>0, FS_Interval, Zenon DEF SourceIds
<1>2. IsFiniteSet(sources)
  BY <1>1, FS_Subset DEF TypeOK
<1> QED
  BY <1>2, FS_CardinalityType

\* No source exists at first.
LEMMA DispatchInit == Init => DispatchInv
<1> SUFFICES ASSUME Init PROVE DispatchInv
  OBVIOUS
<1>1. SourcesCounted
  BY FS_EmptySet DEF Init, SourcesCounted
<1>2. SourcesKnown /\ SourceLooksAgain
  BY DEF Init, SourcesKnown, SourceLooksAgain, NoDispatch
<1> QED
  BY <1>1, <1>2, TypeInit DEF DispatchInv

\* A step that leaves the sources, the dispatch and the queue alone.
LEMMA DispatchStutter ==
  DispatchInv /\ TypeOK' /\ UNCHANGED dispatchInvVars => DispatchInv'
  BY DEF DispatchInv, dispatchInvVars, sourceVars, dispatchVars,
         SourcesCounted, SourcesKnown, SourceLooksAgain

\* An arrival finds the source it relies on, or attaches a new one.
LEMMA DispatchArrival ==
  ASSUME DispatchInv, TypeOK', NEW s, Enqueue(s), ~stopped,
         UNCHANGED <<stopped, dispatchVars>>
  PROVE  DispatchInv'
<1> USE DEF DispatchInv
<1>1. CASE UNCHANGED sourceVars
  <2>1. dispatchSource # None
    BY <1>1 DEF Enqueue, ScheduleDispatch, sourceVars, TypeOK, NoneIsNothing
  <2> QED
    BY <1>1, <2>1 DEF sourceVars, dispatchVars, SourcesCounted, SourcesKnown,
                      SourceLooksAgain
<1>2. CASE dispatchSource = None /\ ~UNCHANGED sourceVars
  <2>1. PICK src \in SourceIds \ sources :
          dispatchSource' = src /\ sources' = sources \cup {src}
    BY <1>2 DEF Enqueue, ScheduleDispatch
  <2>2. attachedCount' = attachedCount + 1 /\ lifetime'
    BY <1>2 DEF Enqueue, ScheduleDispatch
  <2>3. Cardinality(sources') = Cardinality(sources) + 1
    BY <2>1, SourcesFinite, FS_AddElement
  <2>4. SourcesCounted'
    BY <2>1, <2>2, <2>3 DEF SourcesCounted
  <2>5. dispatchStage # "retire" => sources = {}
    BY <1>2, NoneIsNothing, SMTT(30) DEF SourcesKnown, SourceLooksAgain, TypeOK, DispatchStages
  <2>6. SourcesKnown'
    BY <1>2, <2>1, NoneIsNothing, SMTT(30) DEF SourcesKnown, dispatchVars, TypeOK
  <2>7. SourceLooksAgain'
    BY <1>2, <2>1, <2>5, NoneIsNothing, SMTT(30)
       DEF SourcesKnown, SourceLooksAgain, dispatchVars, TypeOK
  <2> QED
    BY <2>4, <2>6, <2>7
<1> QED
  BY <1>1, <1>2 DEF Enqueue, ScheduleDispatch

\* A source goes: the state counts one less and dies with the last one.
LEMMA SourceGoes ==
  ASSUME DispatchInv, NEW src \in sources, ReleaseSourceLifetime(src)
  PROVE  SourcesCounted'
<1> USE DEF DispatchInv
<1>1. IsFiniteSet(sources) /\ Cardinality(sources) \in Nat
  BY SourcesFinite
<1>2. Cardinality(sources \ {src}) = Cardinality(sources) - 1
  BY <1>1, FS_RemoveElement
<1>3. Cardinality(sources) # 0
  BY <1>1, FS_EmptySet
<1>4. attachedCount' = Cardinality(sources')
  BY <1>1, <1>2, <1>3 DEF ReleaseSourceLifetime, SourcesCounted
<1>5. IsFiniteSet(sources')
  BY <1>1, FS_RemoveElement DEF ReleaseSourceLifetime
<1>6. attachedCount' = 0 <=> sources' = {}
  BY <1>4, <1>5, FS_EmptySet
<1>7. lifetime
  BY DEF SourcesCounted
<1> QED
  BY <1>4, <1>6, <1>7 DEF ReleaseSourceLifetime, SourcesCounted

\* Every step keeps the sources in order.
LEMMA DispatchInvStep == DispatchInv /\ [Next]_vars => DispatchInv'
<1> SUFFICES ASSUME DispatchInv, [Next]_vars PROVE DispatchInv'
  OBVIOUS
<1> USE DEF DispatchInv
<1>t. TypeOK'
  BY TypeStep
<1>1. ASSUME NEW withCallback \in BOOLEAN, NEW kind \in {"plain", "timed"},
             Reserve(withCallback, kind)
      PROVE  DispatchInv'
  BY <1>1, <1>t, DispatchStutter DEF Reserve, dispatchInvVars
<1>2. CASE SendReturns \/ AttachPreparedTimeout \/ SendThrows
  BY <1>2, <1>t, DispatchStutter
     DEF SendReturns, AttachPreparedTimeout, SendThrows, dispatchInvVars
<1>3. CASE CancelRequest
  <2>1. UNCHANGED <<stopped, sourceVars, dispatchVars>>
    BY <1>3 DEF CancelRequest
  <2>2. queue' # <<>> => queue # <<>>
    <3>1. CASE UNCHANGED queue
      BY <3>1
    <3>2. CASE QueuedUnder(idOf[sendSerial]) # {}
      BY <3>2 DEF QueuedUnder
    <3> QED
      BY <1>3, <3>1, <3>2 DEF CancelRequest
  <2> QED
    BY <1>t, <2>1, <2>2 DEF sourceVars, dispatchVars, SourcesCounted, SourcesKnown,
                            SourceLooksAgain
<1>4. ASSUME NEW s \in 1 .. lastSerial,
             NEW kind \in {"terminal", "explicit", "notification"},
             SetTimeout(s, kind)
      PROVE  DispatchInv'
  BY <1>4, <1>t, DispatchStutter DEF SetTimeout, dispatchInvVars
<1>5. ASSUME NEW s \in 1 .. lastSerial, TimerFires(s)
      PROVE  DispatchInv'
  BY <1>5, <1>t, DispatchStutter
     DEF TimerFires, TerminalTimerFires, NotificationTimerFires, StaleTimerFires,
         dispatchInvVars
<1>6. CASE ReceiveUpdate
  <2>1. CASE stopped /\ Refuse
    BY <1>6, <1>t, <2>1, DispatchStutter DEF ReceiveUpdate, Refuse, dispatchInvVars
  <2>2. CASE ~stopped /\ Enqueue(None)
    BY <1>6, <1>t, <2>2, DispatchArrival DEF ReceiveUpdate
  <2> QED
    BY <1>6, <2>1, <2>2 DEF ReceiveUpdate
<1>7. ASSUME NEW id \in RequestIds, ReceiveResponse(id)
      PROVE  DispatchInv'
  <2>0. UNCHANGED <<stopped, dispatchVars>>
    BY <1>7 DEF ReceiveResponse
  <2>1. CASE Refuse
    BY <1>t, <2>0, <2>1, DispatchStutter DEF Refuse, dispatchInvVars
  <2>2. CASE ~stopped /\ Enqueue(pending[id])
    BY <1>t, <2>0, <2>2, DispatchArrival
  <2> QED
    BY <1>7, <2>1, <2>2 DEF ReceiveResponse
<1>8. CASE DispatchBegin
  <2>1. PICK src \in sources : dispatched' = [NoDispatch EXCEPT !.source = src]
    BY <1>8 DEF DispatchBegin
  <2>2. dispatched'.source = src
    BY <2>1 DEF NoDispatch
  <2>3. dispatchStage' = "loop"
    BY <1>8 DEF DispatchBegin, SourcesCounted
  <2>4. dispatchStage = "idle"
    BY <1>8 DEF DispatchBegin, LoopIdle
  <2>5. dispatchSource = src
    BY <2>4 DEF SourcesKnown
  <2>6. UNCHANGED <<stopped, queue, sourceVars>>
    BY <1>8 DEF DispatchBegin
  <2> QED
    BY <1>t, <2>2, <2>3, <2>4, <2>5, <2>6
       DEF sourceVars, SourcesCounted, SourcesKnown, SourceLooksAgain
<1>9. CASE DispatchOne
  <2>1. /\ dispatched'.source = dispatched.source
        /\ dispatchStage = "loop" /\ dispatchStage' = "callback"
    BY <1>9 DEF DispatchOne, TypeOK
  <2>2. UNCHANGED <<stopped, sourceVars>> /\ queue # <<>>
    BY <1>9 DEF DispatchOne, MoreToDispatch
  <2> QED
    BY <1>t, <2>1, <2>2 DEF sourceVars, SourcesCounted, SourcesKnown, SourceLooksAgain
<1>10. CASE DispatchSettle
  <2>1. /\ dispatched'.source = dispatched.source
        /\ dispatchStage = "callback" /\ dispatchStage' = "loop"
    BY <1>10 DEF DispatchSettle, TypeOK
  <2>2. UNCHANGED <<stopped, queue, sourceVars>>
    BY <1>10 DEF DispatchSettle
  <2> QED
    BY <1>t, <2>1, <2>2 DEF sourceVars, SourcesCounted, SourcesKnown, SourceLooksAgain
<1>11. CASE DispatchLoopEnd
  <2>1. /\ UNCHANGED <<stopped, queue, sourceVars, dispatched>>
        /\ dispatchStage = "loop" /\ dispatchStage' = "check"
    BY <1>11 DEF DispatchLoopEnd
  <2> QED
    BY <1>t, <2>1 DEF sourceVars, SourcesCounted, SourcesKnown, SourceLooksAgain
<1>12. CASE DispatchCheck
  <2>0. /\ UNCHANGED <<stopped, queue, sources, attachedCount, lifetime>>
        /\ dispatchStage = "check"
    BY <1>12 DEF DispatchCheck
  <2>s. SourcesCounted'
    BY <2>0 DEF SourcesCounted
  <2>1. CASE /\ ~stopped /\ dispatchStage' = "idle" /\ UNCHANGED dispatchSource
             /\ dispatched' = NoDispatch
    BY <1>t, <2>0, <2>s, <2>1 DEF SourcesKnown, SourceLooksAgain, NoDispatch
  <2>2. CASE /\ stopped \/ queue = <<>>
             /\ dispatchStage' = "retire"
             /\ dispatchSource' = IF dispatchSource = dispatched.source
                                  THEN None ELSE dispatchSource
             /\ UNCHANGED dispatched
    <3>1. dispatchSource' = None
      BY <2>0, <2>2 DEF SourceLooksAgain
    <3>2. dispatched.source # None
      BY <2>0, NoneIsNothing DEF SourcesKnown, TypeOK
    <3> QED
      BY <1>t, <2>0, <2>s, <2>2, <3>1, <3>2 DEF SourcesKnown, SourceLooksAgain
  <2> QED
    BY <1>12, <2>1, <2>2 DEF DispatchCheck
<1>13. CASE Retire
  <2>0. /\ dispatchStage = "retire" /\ dispatchStage' = "idle"
        /\ ReleaseSourceLifetime(dispatched.source)
        /\ UNCHANGED <<stopped, queue, dispatchSource>>
        /\ dispatched'.source = None
    BY <1>13 DEF Retire, NoDispatch
  <2>1. SourcesCounted'
    BY <2>0, SourceGoes DEF SourcesKnown
  <2>2. sources' = sources \ {dispatched.source}
    BY <2>0 DEF ReleaseSourceLifetime
  <2> QED
    BY <1>t, <2>0, <2>1, <2>2 DEF SourcesKnown, SourceLooksAgain
<1>14. CASE Shutdown
  <2>0. /\ ~stopped /\ stopped' /\ dispatchSource' = None
        /\ UNCHANGED dispatchVars /\ dispatchStage \in {"idle", "callback"}
    BY <1>14 DEF Shutdown, OwnerFree
  <2>1. CASE dispatchSource \notin {None, dispatched.source}
    <3>1. dispatchStage = "idle"
      BY <2>0, <2>1 DEF SourceLooksAgain
    <3>2. ReleaseSourceLifetime(dispatchSource)
      BY <1>14, <2>1 DEF Shutdown
    <3>3. SourcesCounted'
      BY <2>1, <3>2, SourceGoes DEF SourcesKnown
    <3>4. sources' = {}
      BY <3>1, <3>2 DEF ReleaseSourceLifetime, SourcesKnown
    <3> QED
      BY <1>t, <2>0, <3>1, <3>3, <3>4 DEF dispatchVars, SourcesKnown, SourceLooksAgain
  <2>2. CASE dispatchSource \in {None, dispatched.source}
    <3>1. UNCHANGED <<sources, attachedCount, lifetime>>
      BY <1>14, <2>2 DEF Shutdown
    <3>2. None \notin sources
      BY NoneIsNothing DEF TypeOK
    <3>3. dispatchStage = "idle" => sources = {}
      BY <2>2, <3>2 DEF SourcesKnown
    <3> QED
      BY <1>t, <2>0, <2>2, <3>1, <3>2, <3>3
         DEF dispatchVars, SourcesCounted, SourcesKnown, SourceLooksAgain
  <2> QED
    BY <2>1, <2>2
<1>15. CASE UNCHANGED vars
  BY <1>15, <1>t, DispatchStutter DEF vars, dispatchInvVars
<1> QED
  BY <1>1, <1>2, <1>3, <1>4, <1>5, <1>6, <1>7, <1>8, <1>9, <1>10, <1>11, <1>12,
     <1>13, <1>14, <1>15 DEF Next, SendStep, DispatchStep

LEMMA DispatchAlways == Spec => []DispatchInv
<1>1. DispatchInv /\ [Next]_vars => DispatchInv'
  BY DispatchInvStep
<1> QED
  BY <1>1, DispatchInit, PTL DEF Spec

\* dispatchPending never lets go of its source while something is queued that no
\* other source will look at, whenever the receivers' threads run.
THEOREM WakeupIsNeverLost == Spec => []NoLostWakeup
<1>1. DispatchInv => NoLostWakeup
  BY DEF DispatchInv, SourcesKnown, SourceLooksAgain, NoLostWakeup
<1> QED
  BY <1>1, DispatchAlways, PTL

\* The state object outlives every source that points at it, and is let go with
\* the last one.
THEOREM StateOutlivesSources == Spec => []SourcesKeepStateAlive
<1>1. DispatchInv => SourcesKeepStateAlive
  <2> SUFFICES ASSUME DispatchInv PROVE SourcesKeepStateAlive
    OBVIOUS
  <2> USE DEF DispatchInv
  <2> DEFINE both == {dispatchSource, dispatched.source}
  <2>1. IsFiniteSet({dispatchSource}) /\ Cardinality({dispatchSource}) = 1
    BY FS_Singleton
  <2>2. both = {dispatchSource} \cup {dispatched.source}
    OBVIOUS
  <2>3. IsFiniteSet(both) /\ Cardinality(both) <= 2
    BY <2>1, <2>2, FS_AddElement
  <2>4. Cardinality(sources) <= Cardinality(both)
    BY <2>3, FS_Subset DEF SourcesKnown
  <2>5. Cardinality(sources) \in Nat /\ Cardinality(both) \in Nat
    BY <2>3, SourcesFinite, FS_CardinalityType
  <2> QED
    BY <2>3, <2>4, <2>5 DEF SourcesCounted, SourcesKnown, SourcesKeepStateAlive
<1> QED
  BY <1>1, DispatchAlways, PTL

-----------------------------------------------------------------------------
(* The requests *)

\* Whoever waits under an identifier was given that identifier.
MapHoldsOwners ==
  \A id \in RequestIds :
    pending[id] # None => pending[id] \in 1 .. lastSerial /\ idOf[pending[id]] = id

\* The request that is being sent is the latest one, and nobody else waits under
\* its identifier.
SendingIsLatest ==
  sendStage # "idle" => /\ sendSerial = lastSerial
                        /\ pending[idOf[sendSerial]] \in {None, sendSerial}

EveryoneNumbered == \A s \in 1 .. lastSerial : idOf[s] # None

WaitInv == TypeOK /\ MapHoldsOwners /\ SendingIsLatest /\ EveryoneNumbered /\ NoRequestLost

LEMMA WaitInit == Init => WaitInv
<1> SUFFICES ASSUME Init PROVE WaitInv
  OBVIOUS
<1>1. MapHoldsOwners
  BY DEF Init, MapHoldsOwners
<1>2. SendingIsLatest /\ EveryoneNumbered /\ NoRequestLost
  BY DEF Init, SendingIsLatest, EveryoneNumbered, NoRequestLost
<1> QED
  BY <1>1, <1>2, TypeInit DEF WaitInv

\* A step that takes nobody out of the map loses nobody.
LEMMA WaitStutter ==
  ASSUME WaitInv, TypeOK', UNCHANGED <<stopped, pending, lastSerial, idOf>>,
         sendStage' # "idle" => sendStage # "idle" /\ UNCHANGED sendSerial,
         claimed \subseteq claimed', failed \subseteq failed',
         \A s \in 1 .. lastSerial : outcome[s] # "none" => outcome'[s] # "none"
  PROVE  WaitInv'
  BY DEF WaitInv, MapHoldsOwners, SendingIsLatest, EveryoneNumbered,
         NoRequestLost, IsPending

\* Taking one request out of the map loses nobody if that one is completed, claimed
\* or refused.
LEMMA WaitTakes ==
  ASSUME WaitInv, TypeOK', NEW id \in RequestIds,
         pending' = [pending EXCEPT ![id] = None],
         UNCHANGED <<stopped, lastSerial, idOf>>,
         sendStage' # "idle" => sendStage # "idle" /\ UNCHANGED sendSerial,
         claimed \subseteq claimed', failed \subseteq failed',
         \A s \in 1 .. lastSerial : outcome[s] # "none" => outcome'[s] # "none",
         pending[id] # None =>
           outcome'[pending[id]] # "none" \/ pending[id] \in claimed' \cup failed'
  PROVE  WaitInv'
<1> USE DEF WaitInv
<1>1. MapHoldsOwners'
  BY DEF MapHoldsOwners, TypeOK
<1>2. SendingIsLatest'
  <2> SUFFICES ASSUME sendStage' # "idle" PROVE SendingIsLatest'
    BY DEF SendingIsLatest
  <2>1. sendSerial = lastSerial /\ pending[idOf[sendSerial]] \in {None, sendSerial}
    BY DEF SendingIsLatest
  <2>2. idOf[sendSerial] \in RequestIds
    BY DEF TypeOK
  <2> QED
    BY <2>1, <2>2 DEF SendingIsLatest, TypeOK
<1>3. EveryoneNumbered'
  BY DEF EveryoneNumbered
<1>4. NoRequestLost'
  <2> SUFFICES ASSUME NEW s \in 1 .. lastSerial, ~stopped, outcome'[s] = "none",
                      s \notin claimed' \cup failed'
               PROVE  idOf[s] # None /\ pending'[idOf[s]] = s
    BY DEF NoRequestLost, IsPending
  <2>1. outcome[s] = "none" /\ s \notin claimed \cup failed
    OBVIOUS
  <2>2. idOf[s] # None /\ pending[idOf[s]] = s
    BY <2>1 DEF NoRequestLost, IsPending
  <2>3. idOf[s] # id
    <3>1. CASE idOf[s] = id
      <4>1. pending[id] = s
        BY <2>2, <3>1
      <4>2. s # None
        BY DEF None
      <4> QED
        BY <4>1, <4>2
    <3> QED
      BY <3>1
  <2> QED
    BY <2>2, <2>3 DEF TypeOK
<1> QED
  BY <1>1, <1>2, <1>3, <1>4

\* A new request takes an identifier under which nobody waits.
LEMMA WaitReserve ==
  ASSUME WaitInv, TypeOK', NEW withCallback \in BOOLEAN, NEW kind \in {"plain", "timed"},
         Reserve(withCallback, kind)
  PROVE  WaitInv'
<1> USE DEF WaitInv
<1> DEFINE new == lastSerial + 1
<1>1. PICK id \in RequestIds :
        /\ pending[id] = None
        /\ pending' = [pending EXCEPT ![id] = new]
        /\ idOf' = [idOf EXCEPT ![new] = id]
  BY DEF Reserve, IsReserved
<1>2. /\ lastSerial' = new /\ sendSerial' = new /\ new \in Serials
      /\ lastSerial \in Nat
      /\ UNCHANGED <<stopped, outcome, claimed, failed>>
  BY BoundsAssumption DEF Reserve, TypeOK, callVars, Serials
<1>3. /\ id # None /\ new # None
      /\ idOf'[new] = id /\ pending'[id] = new
      /\ \A s \in 1 .. lastSerial : idOf'[s] = idOf[s]
  BY <1>1, <1>2, SMTT(30) DEF TypeOK, Serials, RequestIds, None
<1>4. MapHoldsOwners'
  <2> SUFFICES ASSUME NEW k \in RequestIds, pending'[k] # None
               PROVE  pending'[k] \in 1 .. lastSerial' /\ idOf'[pending'[k]] = k
    BY DEF MapHoldsOwners
  <2>1. CASE k = id
    BY <1>2, <1>3, <2>1
  <2>2. CASE k # id
    <3>1. pending'[k] = pending[k]
      BY <1>1, <2>2 DEF TypeOK
    <3>2. pending[k] \in 1 .. lastSerial /\ idOf[pending[k]] = k
      BY <3>1 DEF MapHoldsOwners
    <3> QED
      BY <1>2, <1>3, <3>1, <3>2
  <2> QED
    BY <2>1, <2>2
<1>5. SendingIsLatest'
  BY <1>2, <1>3 DEF SendingIsLatest
<1>6. \A s \in 1 .. lastSerial' : s = new \/ s \in 1 .. lastSerial
  BY <1>2
<1>7. EveryoneNumbered'
  BY <1>3, <1>6 DEF EveryoneNumbered
<1>8. NoRequestLost'
  <2> SUFFICES ASSUME NEW s \in 1 .. lastSerial', ~stopped, outcome[s] = "none",
                      s \notin claimed \cup failed
               PROVE  idOf'[s] # None /\ pending'[idOf'[s]] = s
    BY <1>2 DEF NoRequestLost, IsPending
  <2>1. CASE s = new
    BY <1>3, <2>1
  <2>2. CASE s \in 1 .. lastSerial
    <3>1. idOf[s] # None /\ pending[idOf[s]] = s
      BY <2>2 DEF NoRequestLost, IsPending
    <3>2. s # None
      BY <2>2 DEF None
    <3>3. idOf[s] # id
      BY <1>1, <3>1, <3>2
    <3>4. s \in Serials
      BY <2>2, BoundsAssumption DEF TypeOK, Serials
    <3>5. idOf[s] \in RequestIds
      BY <3>1, <3>4 DEF TypeOK
    <3>6. pending'[idOf[s]] = pending[idOf[s]]
      BY <1>1, <3>3, <3>5 DEF TypeOK
    <3>7. idOf'[s] = idOf[s]
      BY <1>3, <2>2
    <3> QED
      BY <3>1, <3>6, <3>7
  <2> QED
    BY <1>6, <2>1, <2>2
<1> QED
  BY <1>4, <1>5, <1>7, <1>8

\* Every step keeps every request that has not ended in the map.
LEMMA WaitStep == WaitInv /\ [Next]_vars => WaitInv'
<1> SUFFICES ASSUME WaitInv, [Next]_vars PROVE WaitInv'
  OBVIOUS
<1>t. TypeOK /\ TypeOK'
  BY TypeStep DEF WaitInv
<1>s. /\ \A s \in 1 .. lastSerial : s \in Serials
      /\ outcome \in [Serials -> Outcomes]
  <2>1. lastSerial \in 0 .. MaxSends /\ outcome \in [Serials -> Outcomes]
    BY <1>t DEF TypeOK
  <2> QED
    BY <2>1, BoundsAssumption DEF Serials
<1>1. ASSUME NEW withCallback \in BOOLEAN, NEW kind \in {"plain", "timed"},
             Reserve(withCallback, kind)
      PROVE  WaitInv'
  BY <1>1, <1>t, WaitReserve
<1>2. CASE SendReturns \/ AttachPreparedTimeout \/ SendThrows
  BY <1>2, <1>t, WaitStutter
     DEF SendReturns, AttachPreparedTimeout, SendThrows, SendDone, serialVars,
         callVars, requestVars
<1>3. CASE CancelRequest
  <2> DEFINE id == idOf[sendSerial]
  <2>1. /\ UNCHANGED <<stopped, lastSerial, idOf, outcome, claimed>>
        /\ sendStage = "cancelling" /\ sendStage' = "idle"
        /\ failed' = failed \cup {sendSerial}
    BY <1>3 DEF CancelRequest, SendDone, serialVars, callVars
  <2>2. id \in RequestIds /\ pending[id] \in {None, sendSerial}
    BY <1>t, <2>1 DEF WaitInv, SendingIsLatest, TypeOK
  <2>3. CASE pending' = [pending EXCEPT ![id] = None]
    BY <1>t, <2>1, <2>2, <2>3, WaitTakes
  <2>4. CASE UNCHANGED pending
    BY <1>t, <2>1, <2>4, WaitStutter
  <2> QED
    BY <1>3, <2>3, <2>4 DEF CancelRequest, requestVars
<1>4. ASSUME NEW s \in 1 .. lastSerial,
             NEW kind \in {"terminal", "explicit", "notification"},
             SetTimeout(s, kind)
      PROVE  WaitInv'
  BY <1>4, <1>t, WaitStutter DEF SetTimeout, sendVars, serialVars, callVars
<1>5. ASSUME NEW s \in 1 .. lastSerial, TimerFires(s)
      PROVE  WaitInv'
  <2>1. CASE NotificationTimerFires(s) \/ StaleTimerFires(s)
    BY <1>t, <2>1, WaitStutter
       DEF NotificationTimerFires, StaleTimerFires, sendVars, serialVars, callVars
  <2>2. CASE TerminalTimerFires(s)
    <3>1. /\ UNCHANGED <<stopped, lastSerial, idOf, sendStage, sendSerial, claimed,
                         failed>>
          /\ pending' = [pending EXCEPT ![idOf[s]] = None]
          /\ outcome' = [outcome EXCEPT ![s] = "timeout"]
      BY <2>2 DEF TerminalTimerFires, CallBack, sendVars, serialVars
    <3>2. s \in Serials
      BY <1>s
    <3>3. idOf[s] \in RequestIds /\ pending[idOf[s]] = s
      BY <1>t, <2>2, <3>2 DEF TerminalTimerFires, IsPending, TypeOK
    <3>4. outcome'[s] = "timeout"
      BY <1>s, <3>1, <3>2
    <3>5. \A r \in 1 .. lastSerial : outcome[r] # "none" => outcome'[r] # "none"
      BY <1>s, <3>1, <3>2
    <3> QED
      BY <1>t, <3>1, <3>3, <3>4, <3>5, WaitTakes
  <2> QED
    BY <1>5, <2>1, <2>2 DEF TimerFires
<1>6. CASE ReceiveUpdate
  BY <1>6, <1>t, WaitStutter DEF ReceiveUpdate, requestVars, sendVars, serialVars,
                                 callVars
<1>7. ASSUME NEW id \in RequestIds, ReceiveResponse(id)
      PROVE  WaitInv'
  <2>1. UNCHANGED <<stopped, lastSerial, idOf, outcome, sendStage, sendSerial, failed>>
    BY <1>7 DEF ReceiveResponse, sendVars, serialVars, callVars
  <2>2. CASE UNCHANGED <<pending, claimed>>
    BY <1>t, <2>1, <2>2, WaitStutter
  <2>3. CASE /\ claimed' = claimed \cup {pending[id]}
             /\ pending' = [pending EXCEPT ![id] = None]
    BY <1>t, <2>1, <2>3, WaitTakes
  <2> QED
    BY <1>7, <2>2, <2>3 DEF ReceiveResponse
<1>8. CASE DispatchBegin \/ DispatchSettle \/ DispatchLoopEnd \/ DispatchCheck \/ Retire
  BY <1>8, <1>t, WaitStutter
     DEF DispatchBegin, DispatchSettle, DispatchLoopEnd, DispatchCheck, Retire,
         requestVars, sendVars, serialVars, callVars
<1>9. CASE DispatchOne
  <2>1. UNCHANGED <<stopped, pending, lastSerial, idOf, sendStage, sendSerial, claimed,
                    failed>>
    BY <1>9 DEF DispatchOne, sendVars, serialVars
  <2>2. UNCHANGED outcome
        \/ outcome' = [outcome EXCEPT ![Head(queue).serial] = "object"]
    BY <1>9 DEF DispatchOne, CallBack, callVars
  <2>3. \A r \in 1 .. lastSerial : outcome[r] # "none" => outcome'[r] # "none"
    BY <1>s, <2>2
  <2> QED
    BY <1>t, <2>1, <2>3, WaitStutter
<1>10. CASE Shutdown
  <2>1. /\ stopped' /\ pending' = [id \in RequestIds |-> None]
        /\ sendStage' = "idle" /\ UNCHANGED <<lastSerial, idOf>>
    BY <1>10 DEF Shutdown, OwnerFree, sendVars, serialVars
  <2> QED
    BY <1>t, <2>1 DEF WaitInv, MapHoldsOwners, SendingIsLatest, EveryoneNumbered,
                      NoRequestLost
<1>11. CASE UNCHANGED vars
  BY <1>11, <1>t, WaitStutter DEF vars, requestVars, sendVars, serialVars, callVars
<1> QED
  BY <1>1, <1>2, <1>3, <1>4, <1>5, <1>6, <1>7, <1>8, <1>9, <1>10, <1>11
     DEF Next, SendStep, DispatchStep

\* No request is forgotten, also when the counter of identifiers has come round and
\* meets requests that still wait.
THEOREM NobodyIsLost == Spec => []NoRequestLost
<1>1. WaitInv /\ [Next]_vars => WaitInv'
  BY WaitStep
<1>2. WaitInv => NoRequestLost
  BY DEF WaitInv
<1> QED
  BY <1>1, <1>2, WaitInit, PTL DEF Spec

-----------------------------------------------------------------------------
(* The serials in a queue *)

Entries == [object : Objects, serial : Serials \cup {None}]

SerialsOf(q) == {q[i].serial : i \in DOMAIN q} \ {None}

\* An arrival adds its serial.
LEMMA SerialsAppend ==
  ASSUME NEW q \in Seq(Entries), NEW e \in Entries
  PROVE  SerialsOf(Append(q, e)) = (SerialsOf(q) \cup {e.serial}) \ {None}
<1> DEFINE r == Append(q, e)
<1>1. /\ Len(r) = Len(q) + 1 /\ Len(q) \in Nat /\ r[Len(q) + 1] = e
      /\ \A i \in 1 .. Len(q) : r[i] = q[i]
      /\ DOMAIN q = 1 .. Len(q) /\ DOMAIN r = 1 .. Len(r)
  BY AppendProperties, LenProperties
<1> HIDE DEF r
<1>2. ASSUME NEW x \in SerialsOf(r) PROVE x \in (SerialsOf(q) \cup {e.serial}) \ {None}
  <2>1. PICK i \in DOMAIN r : x = r[i].serial /\ x # None
    BY DEF SerialsOf
  <2>2. i \in 1 .. Len(q) \/ i = Len(q) + 1
    BY <1>1
  <2> QED
    BY <1>1, <2>1, <2>2 DEF SerialsOf
<1>3. ASSUME NEW x \in SerialsOf(q) PROVE x \in SerialsOf(r)
  <2>1. PICK i \in DOMAIN q : x = q[i].serial /\ x # None
    BY DEF SerialsOf
  <2>2. i \in DOMAIN r /\ r[i] = q[i]
    BY <1>1
  <2> QED
    BY <2>1, <2>2 DEF SerialsOf
<1>4. e.serial # None => e.serial \in SerialsOf(r)
  <2>1. Len(q) + 1 \in DOMAIN r /\ r[Len(q) + 1] = e
    BY <1>1
  <2> QED
    BY <2>1 DEF SerialsOf
<1>5. None \notin SerialsOf(r)
  BY DEF SerialsOf
<1>6. SerialsOf(r) = (SerialsOf(q) \cup {e.serial}) \ {None}
  BY <1>2, <1>3, <1>4, <1>5
<1> QED
  BY <1>6 DEF r

OnlyOnce(q) ==
  \A i, j \in 1 .. Len(q) : (i # j /\ q[i].serial # None) => q[i].serial # q[j].serial

\* Taking out a position removes its serial.
LEMMA SerialsRemove ==
  ASSUME NEW q \in Seq(Entries), OnlyOnce(q), NEW i \in 1 .. Len(q)
  PROVE  SerialsOf(RemoveAt(q, i)) = SerialsOf(q) \ {q[i].serial}
<1> DEFINE r == RemoveAt(q, i)
<1>1. /\ r \in Seq(Entries) /\ Len(r) = Len(q) - 1
      /\ \A j \in 1 .. (Len(q) - 1) : r[j] = IF j < i THEN q[j] ELSE q[j + 1]
  BY RemoveAtType
<1> HIDE DEF r
<1>2. DOMAIN r = 1 .. (Len(q) - 1) /\ DOMAIN q = 1 .. Len(q) /\ Len(q) \in Nat
  BY <1>1, LenProperties
<1>3. ASSUME NEW x \in SerialsOf(r) PROVE x \in SerialsOf(q) \ {q[i].serial}
  <2>1. PICK j \in DOMAIN r : x = r[j].serial /\ x # None
    BY DEF SerialsOf
  <2> DEFINE k == IF j < i THEN j ELSE j + 1
  <2>2. k \in 1 .. Len(q) /\ k # i /\ r[j] = q[k]
    BY <1>1, <1>2, <2>1
  <2> HIDE DEF k
  <2>3. q[k].serial # q[i].serial
    BY <2>1, <2>2 DEF OnlyOnce
  <2> QED
    BY <1>2, <2>1, <2>2, <2>3 DEF SerialsOf
<1>4. ASSUME NEW x \in SerialsOf(q), x # q[i].serial PROVE x \in SerialsOf(r)
  <2>1. PICK k \in DOMAIN q : x = q[k].serial /\ x # None
    BY DEF SerialsOf
  <2> DEFINE j == IF k < i THEN k ELSE k - 1
  <2>2. k # i
    BY <1>4, <2>1
  <2>3. j \in 1 .. (Len(q) - 1) /\ r[j] = q[k]
    BY <1>1, <1>2, <2>1, <2>2
  <2> QED
    BY <1>2, <2>1, <2>3 DEF SerialsOf
<1>5. SerialsOf(r) = SerialsOf(q) \ {q[i].serial}
  BY <1>3, <1>4
<1> QED
  BY <1>5 DEF r

\* Taking the head is taking out the first position.
LEMMA SerialsTail ==
  ASSUME NEW q \in Seq(Entries), OnlyOnce(q), q # <<>>
  PROVE  SerialsOf(Tail(q)) = SerialsOf(q) \ {Head(q).serial}
<1>1. Len(q) \in Nat /\ Len(q) # 0
  BY EmptySeq, LenProperties
<1>2. 1 \in 1 .. Len(q) /\ Head(q) = q[1]
  BY <1>1, HeadTailProperties
<1>3. /\ Tail(q) \in Seq(Entries) /\ Len(Tail(q)) = Len(q) - 1
      /\ \A j \in 1 .. Len(Tail(q)) : Tail(q)[j] = q[j + 1]
  BY <1>1, HeadTailProperties
<1>4. /\ RemoveAt(q, 1) \in Seq(Entries) /\ Len(RemoveAt(q, 1)) = Len(q) - 1
      /\ \A j \in 1 .. (Len(q) - 1) : RemoveAt(q, 1)[j] = q[j + 1]
  BY <1>2, RemoveAtType
<1>5. Tail(q) = RemoveAt(q, 1)
  BY <1>3, <1>4, SeqEqual
<1> QED
  BY <1>2, <1>5, SerialsRemove

-----------------------------------------------------------------------------
(***************************************************************************)
(* As long as identifiers do not come back, the identifier of a request is *)
(* its serial. The request that is being sent is the latest one; its timer *)
(* is not attached yet, and it waits or its response is queued.            *)
(***************************************************************************)
IdentifiersSuffice == MaxSends <= PublicMax

Numbered ==
  /\ lastRequestId = lastSerial
  /\ \A s \in Serials : idOf[s] = IF s <= lastSerial THEN s ELSE None
  /\ attached \cup failed \subseteq 1 .. lastSerial

SendingHeld ==
  /\ sendStage = "idle" => sendSerial = None
  /\ sendStage # "idle" =>
       /\ sendSerial = lastSerial
       /\ sendSerial \notin attached \cup failed
       /\ IsPending(sendSerial) \/ sendSerial \in QueuedSerials
  /\ dispatchStage \in {"loop", "check", "retire"} => sendStage = "idle"

HoldingInv == CompletionInv /\ Numbered /\ SendingHeld

\* What waits under an identifier is the request with that serial.
LEMMA IdentifierIsSerial ==
  ASSUME HoldingInv, IdentifiersSuffice
  PROVE  /\ Serials \subseteq RequestIds
         /\ lastSerial \in 0 .. MaxSends
         /\ \A s \in 1 .. lastSerial : s \in Serials /\ idOf[s] = s /\ s # None
         /\ \A id \in RequestIds : pending[id] # None => pending[id] = id /\ id \in 1 .. lastSerial
         /\ \A s \in Serials : IsPending(s) <=> pending[s] = s
<1>1. lastSerial \in 0 .. MaxSends /\ pending \in [RequestIds -> Serials \cup {None}]
  BY DEF HoldingInv, CompletionInv, TypeOK
<1>2. Serials \subseteq RequestIds
  BY PublicMaxAssumption, BoundsAssumption
     DEF Serials, RequestIds, IdentifiersSuffice
<1>3. \A s \in 1 .. lastSerial : s \in Serials /\ idOf[s] = s /\ s # None
  <2> TAKE s \in 1 .. lastSerial
  <2>1. s \in Serials /\ s # None
    BY <1>1, BoundsAssumption DEF Serials, None
  <2>2. s <= lastSerial
    BY <1>1
  <2> QED
    BY <2>1, <2>2 DEF HoldingInv, Numbered
<1>4. ASSUME NEW id \in RequestIds, pending[id] # None
      PROVE  pending[id] = id /\ id \in 1 .. lastSerial
  <2>1. pending[id] \in Serials
    BY <1>1, <1>4
  <2>2. idOf[pending[id]] = id /\ pending[id] <= lastSerial
    BY <1>4 DEF HoldingInv, CompletionInv, MapOwnsOpenRequests
  <2>3. idOf[pending[id]] = pending[id]
    BY <2>1, <2>2 DEF HoldingInv, Numbered
  <2> QED
    BY <1>1, <2>1, <2>2, <2>3, BoundsAssumption DEF Serials
<1>5. ASSUME NEW s \in Serials PROVE IsPending(s) <=> pending[s] = s
  <2>1. s # None
    BY NoneIsNothing
  <2>2. CASE pending[s] = s
    <3>1. s \in 1 .. lastSerial
      BY <1>2, <1>4, <2>1, <2>2
    <3> QED
      BY <1>3, <2>2, <3>1 DEF IsPending
  <2>3. CASE IsPending(s)
    <3>1. idOf[s] # None /\ pending[idOf[s]] = s
      BY <2>3 DEF IsPending
    <3>2. idOf[s] = s
      BY <3>1 DEF HoldingInv, Numbered
    <3> QED
      BY <2>3, <3>1, <3>2
  <2> QED
    BY <2>2, <2>3
<1> QED
  BY <1>1, <1>2, <1>3, <1>4, <1>5

LEMMA HoldingInit == Init => HoldingInv
<1> SUFFICES ASSUME Init PROVE HoldingInv
  OBVIOUS
<1>1. Numbered
  BY BoundsAssumption DEF Init, Numbered, Serials, None
<1>2. SendingHeld
  BY DEF Init, SendingHeld
<1> QED
  BY <1>1, <1>2, CompletionInit DEF HoldingInv

\* Whoever is queued was sent, is claimed and not completed, and waits nowhere.
LEMMA QueuedIsClaimed ==
  ASSUME HoldingInv, IdentifiersSuffice, NEW s \in QueuedSerials
  PROVE  s \in 1 .. lastSerial /\ outcome[s] = "none" /\ pending[s] # s
<1>1. queue \in Seq(Entries)
  BY DEF HoldingInv, CompletionInv, TypeOK, Entries
<1>2. /\ s # None
      /\ \E i \in DOMAIN queue : s = queue[i].serial
  BY DEF QueuedSerials
<1>9. PICK i \in DOMAIN queue : s = queue[i].serial
  BY <1>2
<1>3. i \in 1 .. Len(queue)
  BY <1>1, <1>9, LenProperties
<1>4. s \in Serials
  <2>1. queue[i] \in Entries
    BY <1>1, <1>3, ElementOfSeq
  <2>2. queue[i].serial \in Serials \cup {None}
    BY <2>1 DEF Entries
  <2> QED
    BY <1>2, <1>9, <2>2
<1>5. s \in claimed /\ NotCompleted(s)
  BY <1>2, <1>3, <1>9 DEF HoldingInv, CompletionInv, QueueOwnsClaimedRequests
<1>6. ~(s > lastSerial)
  BY <1>4, <1>5 DEF HoldingInv, CompletionInv, LaterRequestsUntouched
<1>7. s \in 1 .. lastSerial
  BY <1>4, <1>6, IdentifierIsSerial, BoundsAssumption DEF Serials
<1>8. pending[s] # s
  <2>1. s \in RequestIds
    BY <1>4, IdentifierIsSerial
  <2> QED
    BY <1>2, <1>5, <2>1 DEF HoldingInv, CompletionInv, MapOwnsOpenRequests
<1> QED
  BY <1>5, <1>7, <1>8 DEF NotCompleted

-----------------------------------------------------------------------------
(* The invariant, step by step *)

\* A step of anyone but send, which leaves the request being sent in its place.
LEMMA HoldingRest ==
  ASSUME HoldingInv, IdentifiersSuffice, CompletionInv',
         UNCHANGED <<lastRequestId, lastSerial, idOf, failed, sendStage, sendSerial>>,
         attached' \subseteq attached,
         sendStage # "idle" =>
           pending'[sendSerial] = sendSerial \/ sendSerial \in QueuedSerials',
         dispatchStage' \in {"loop", "check", "retire"} => sendStage = "idle"
  PROVE  HoldingInv'
<1>1. Numbered'
  BY DEF HoldingInv, Numbered
<1>2. ASSUME sendStage # "idle", pending'[sendSerial] = sendSerial
      PROVE  IsPending(sendSerial)'
  <2>1. sendSerial = lastSerial /\ sendSerial \in Serials
    BY <1>2 DEF HoldingInv, SendingHeld, CompletionInv, TypeOK
  <2>2. idOf[sendSerial] = sendSerial /\ sendSerial # None
    BY <2>1, IdentifierIsSerial DEF HoldingInv, Numbered, Serials, None
  <2> QED
    BY <1>2, <2>2 DEF IsPending
<1>3. SendingHeld'
  BY <1>2 DEF HoldingInv, SendingHeld
<1> QED
  BY <1>1, <1>3 DEF HoldingInv

\* A new request takes the next identifier, which is its serial.
LEMMA HoldingReserve ==
  ASSUME HoldingInv, IdentifiersSuffice, CompletionInv',
         NEW withCallback \in BOOLEAN, NEW kind \in {"plain", "timed"},
         Reserve(withCallback, kind)
  PROVE  /\ HoldingInv'
         /\ lastSerial + 1 \in Serials
         /\ pending' = [pending EXCEPT ![lastSerial + 1] = lastSerial + 1]
         /\ idOf' = [idOf EXCEPT ![lastSerial + 1] = lastSerial + 1]
         /\ sendSerial' = lastSerial + 1 /\ sendSerial = None
<1> DEFINE n == lastSerial + 1
<1>1. /\ lastSerial \in Nat /\ n \in Serials /\ n \in RequestIds /\ n <= PublicMax
      /\ lastSerial' = n /\ sendSerial' = n
      /\ UNCHANGED <<attached, failed>>
      /\ sendStage' = kind /\ sendStage = "idle"
      /\ dispatchStage \in {"idle", "callback"} /\ UNCHANGED dispatchStage
  <2>1. lastSerial \in 0 .. MaxSends /\ lastSerial < MaxSends
    BY IdentifierIsSerial DEF Reserve
  <2>2. lastSerial \in Nat /\ n \in 1 .. MaxSends /\ n \in 1 .. PublicMax /\ n <= PublicMax
    BY <2>1, BoundsAssumption, PublicMaxAssumption DEF IdentifiersSuffice
  <2> QED
    BY <2>2 DEF Reserve, OwnerFree, dispatchVars, Serials, RequestIds
<1>2. PICK id \in RequestIds :
        /\ IsReserved(id)
        /\ lastRequestId' = id
        /\ pending' = [pending EXCEPT ![id] = n]
        /\ idOf' = [idOf EXCEPT ![n] = id]
  BY DEF Reserve
<1>3. id = n
  <2>1. NextPublic(lastRequestId, 1) = n
    BY <1>1 DEF HoldingInv, Numbered, NextPublic
  <2>2. pending[n] = None
    BY <1>1, IdentifierIsSerial
  <2>3. PICK k \in 1 .. PublicMax :
          /\ id = NextPublic(lastRequestId, k)
          /\ \A j \in 1 .. (k - 1) : pending[NextPublic(lastRequestId, j)] # None
    BY <1>2 DEF IsReserved
  <2>4. k = 1
    BY <2>1, <2>2, <2>3, PublicMaxAssumption
  <2> QED
    BY <2>1, <2>3, <2>4
<1>4. Numbered'
  <2>1. \A s \in Serials : idOf'[s] = IF s <= n THEN s ELSE None
    <3>1. idOf \in [Serials -> RequestIds \cup {None}]
      BY DEF HoldingInv, CompletionInv, TypeOK
    <3> TAKE s \in Serials
    <3>2. idOf[s] = IF s <= lastSerial THEN s ELSE None
      BY DEF HoldingInv, Numbered
    <3>3. s = n \/ (s # n /\ (s <= n <=> s <= lastSerial))
      BY <1>1, BoundsAssumption DEF Serials
    <3> QED
      BY <1>1, <1>2, <1>3, <3>1, <3>2, <3>3
  <2>2. attached' \cup failed' \subseteq 1 .. n
    BY <1>1 DEF HoldingInv, Numbered
  <2> QED
    BY <1>1, <1>2, <1>3, <2>1, <2>2 DEF Numbered
<1>5. SendingHeld'
  <2>1. n \notin attached' \cup failed'
    BY <1>1 DEF HoldingInv, Numbered
  <2>2. IsPending(sendSerial)'
    <3>1. /\ idOf \in [Serials -> RequestIds \cup {None}]
          /\ pending \in [RequestIds -> Serials \cup {None}]
      BY DEF HoldingInv, CompletionInv, TypeOK
    <3>2. idOf'[n] = n /\ pending'[n] = n
      BY <1>1, <1>2, <1>3, <3>1
    <3>3. n # None
      BY <1>1, NoneIsNothing
    <3>4. /\ idOf'[sendSerial'] # None
          /\ pending'[idOf'[sendSerial']] = sendSerial'
      BY <1>1, <3>2, <3>3
    <3> QED
      BY <3>4 DEF IsPending
  <2> QED
    BY <1>1, <2>1, <2>2 DEF SendingHeld
<1>6. sendSerial = None
  BY <1>1 DEF HoldingInv, SendingHeld
<1> QED
  BY <1>1, <1>2, <1>3, <1>4, <1>5, <1>6 DEF HoldingInv

-----------------------------------------------------------------------------
(* How a request's state moves *)

\* A request whose place in map, queue and history is untouched keeps its state.
LEMMA StateKept ==
  ASSUME HoldingInv, IdentifiersSuffice, UNCHANGED <<lastSerial, idOf>>,
         NEW s \in Serials,
         s \in failed' <=> s \in failed,
         pending'[s] = s <=> pending[s] = s,
         s \in QueuedSerials' <=> s \in QueuedSerials,
         s = sendSerial' <=> s = sendSerial,
         outcome'[s] = outcome[s]
  PROVE  RequestState(s)' = RequestState(s)
<1>1. CASE s > lastSerial
  BY <1>1 DEF RequestState
<1>2. CASE ~(s > lastSerial)
  <2>1. s \in 1 .. lastSerial
    BY <1>2, IdentifierIsSerial, BoundsAssumption DEF Serials
  <2>2. IsPending(s)' <=> IsPending(s)
    BY <2>1, IdentifierIsSerial DEF IsPending
  <2> QED
    BY <1>2, <2>2 DEF RequestState
<1> QED
  BY <1>1, <1>2

\* Steps that keep every request's state leave the contract alone.
LEMMA AllKept ==
  ASSUME \A s \in Serials : RequestState(s)' = RequestState(s)
  PROVE  [s \in Serials |-> RequestState(s)]' = [s \in Serials |-> RequestState(s)]
  OBVIOUS

\* One request moves, the others stay.
LEMMA OneMoves ==
  ASSUME NEW r \in Serials, NEW from, NEW to,
         \A s \in Serials \ {r} : RequestState(s)' = RequestState(s),
         RequestState(r) \in from, RequestState(r)' = to
  PROVE  Contract!Move(r, from, to)
  BY DEF Contract!Move

ContractStep == [Contract!Next]_([s \in Serials |-> RequestState(s)])

LEMMA KeptIsStep ==
  ASSUME \A s \in Serials : RequestState(s)' = RequestState(s)
  PROVE  ContractStep
  BY AllKept DEF ContractStep

-----------------------------------------------------------------------------
(* Every step of the transport is a step of the contract *)

\* Steps that touch neither requests nor queued responses.
LEMMA QuietStep ==
  ASSUME HoldingInv, IdentifiersSuffice, CompletionInv',
         QueuedSerials' = QueuedSerials,
         UNCHANGED <<pending, lastRequestId, lastSerial, idOf, outcome, failed,
                     sendSerial>>,
         sendStage' = sendStage \/ (sendStage # "idle" /\ sendStage' # "idle"),
         attached' \subseteq attached \/ (sendStage = "idle" /\ attached' \subseteq 1 .. lastSerial),
         dispatchStage' \in {"loop", "check", "retire"} => sendStage' = "idle"
  PROVE  HoldingInv' /\ ContractStep
<1>2. \A s \in Serials : RequestState(s)' = RequestState(s)
  BY StateKept
<1>3. ContractStep
  BY <1>2, KeptIsStep
<1>4. Numbered'
  BY DEF HoldingInv, Numbered
<1>5. IsPending(sendSerial)' <=> IsPending(sendSerial)
  BY DEF IsPending
<1>6. SendingHeld'
  BY <1>5 DEF HoldingInv, SendingHeld
<1> QED
  BY <1>3, <1>4, <1>6 DEF HoldingInv

\* Reserve sends a new request.
LEMMA ReserveStep ==
  ASSUME HoldingInv, IdentifiersSuffice, CompletionInv',
         NEW withCallback \in BOOLEAN, NEW kind \in {"plain", "timed"},
         Reserve(withCallback, kind)
  PROVE  HoldingInv' /\ ContractStep
<1>0. lastSerial + 1 \in Serials
  BY HoldingReserve
<1>1. PICK n \in Serials : n = lastSerial + 1
  BY <1>0
<1>2. /\ HoldingInv' /\ lastSerial \in Nat
      /\ pending' = [pending EXCEPT ![n] = n] /\ idOf' = [idOf EXCEPT ![n] = n]
      /\ sendSerial' = n /\ sendSerial = None
      /\ lastSerial' = n /\ UNCHANGED <<queue, outcome, failed>>
  <2>1. /\ HoldingInv'
        /\ pending' = [pending EXCEPT ![n] = n] /\ idOf' = [idOf EXCEPT ![n] = n]
        /\ sendSerial' = n /\ sendSerial = None
    BY <1>1, HoldingReserve
  <2>2. lastSerial \in Nat
    BY IdentifierIsSerial, BoundsAssumption
  <2>3. lastSerial' = n /\ UNCHANGED <<queue, outcome, failed>>
    BY <1>1 DEF Reserve, callVars
  <2> QED
    BY <2>1, <2>2, <2>3
<1>3. /\ idOf \in [Serials -> RequestIds \cup {None}]
      /\ pending \in [RequestIds -> Serials \cup {None}]
      /\ n \in RequestIds /\ n # None
  BY <1>1, IdentifierIsSerial, NoneIsNothing, ZenonT(40) DEF HoldingInv, CompletionInv, TypeOK
<1>4. QueuedSerials' = QueuedSerials
  BY <1>2 DEF QueuedSerials
<1>5. ASSUME NEW s \in Serials \ {n} PROVE RequestState(s)' = RequestState(s)
  <2>1. idOf'[s] = idOf[s] /\ pending'[s] = pending[s] /\ s # sendSerial' /\ s # sendSerial
    BY <1>2, <1>3, NoneIsNothing
  <2>2. s > lastSerial' <=> s > lastSerial
    BY <1>1, <1>2, BoundsAssumption DEF Serials
  <2>3. IsPending(s)' <=> IsPending(s)
    <3>1. idOf[s] \in {s, None}
      BY DEF HoldingInv, Numbered
    <3> QED
      BY <2>1, <3>1 DEF IsPending
  <2> QED
    BY <1>2, <1>4, <2>1, <2>2, <2>3 DEF RequestState
<1>6. RequestState(n) = "unused"
  BY <1>1, <1>2 DEF RequestState
<1>7. RequestState(n)' = "sending"
  <2>1. ~(n > lastSerial')
    BY <1>1, <1>2
  <2>2. n \notin failed'
    BY <1>1, <1>2 DEF HoldingInv, Numbered
  <2>3. IsPending(n)'
    <3>1. idOf'[n] = n /\ pending'[n] = n
      BY <1>2, <1>3
    <3> QED
      BY <1>3, <3>1 DEF IsPending
  <2> QED
    BY <1>2, <2>1, <2>2, <2>3 DEF RequestState
<1>8. Contract!Send(n)
  BY <1>5, <1>6, <1>7, OneMoves DEF Contract!Send
<1> QED
  BY <1>2, <1>8 DEF ContractStep, Contract!Next

\* Where the request that is being sent stands.
LEMMA SenderState ==
  ASSUME HoldingInv, IdentifiersSuffice, sendStage # "idle"
  PROVE  /\ sendSerial \in Serials /\ sendSerial \in 1 .. lastSerial
         /\ sendSerial = lastSerial /\ idOf[sendSerial] = sendSerial
         /\ sendSerial \notin failed
         /\ \/ IsPending(sendSerial) /\ pending[sendSerial] = sendSerial
            \/ /\ ~IsPending(sendSerial) /\ pending[sendSerial] # sendSerial
               /\ sendSerial \in QueuedSerials
<1>1. sendSerial \in Serials /\ sendSerial = lastSerial
  BY DEF HoldingInv, SendingHeld, CompletionInv, TypeOK
<1>2. sendSerial \in 1 .. lastSerial
  BY <1>1, BoundsAssumption DEF Serials
<1>3. /\ sendSerial \notin failed
      /\ IsPending(sendSerial) \/ sendSerial \in QueuedSerials
  BY DEF HoldingInv, SendingHeld
<1>4. IsPending(sendSerial) <=> pending[sendSerial] = sendSerial
  BY <1>1, IdentifierIsSerial
<1> QED
  BY <1>1, <1>2, <1>3, <1>4, IdentifierIsSerial

\* send returns: the request is open, or its response is already accepted.
LEMMA SentStep ==
  ASSUME HoldingInv, IdentifiersSuffice, CompletionInv',
         SendReturns \/ AttachPreparedTimeout
  PROVE  HoldingInv' /\ ContractStep
<1>1. /\ sendStage # "idle" /\ sendStage' = "idle" /\ sendSerial' = None
      /\ UNCHANGED <<pending, queue, lastRequestId, lastSerial, idOf, outcome>>
      /\ attached' \subseteq attached \cup {sendSerial}
      /\ failed' = IF idOf[sendSerial] = 0 THEN failed \cup {sendSerial} ELSE failed
  BY DEF SendReturns, AttachPreparedTimeout, SendDone, requestVars, serialVars, callVars
<1>2. PICK r \in Serials :
        /\ r = sendSerial /\ r \in 1 .. lastSerial /\ idOf[r] = r /\ r # None
        /\ r \notin failed
        /\ IsPending(r) \/ (~IsPending(r) /\ r \in QueuedSerials)
  BY <1>1, SenderState, NoneIsNothing
<1>3. UNCHANGED failed
  BY <1>1, <1>2 DEF None
<1>4. QueuedSerials' = QueuedSerials
  BY <1>1 DEF QueuedSerials
<1>5. \A s \in Serials \ {r} : RequestState(s)' = RequestState(s)
  BY <1>1, <1>2, <1>3, <1>4, StateKept, NoneIsNothing
<1>6. ~(r > lastSerial)
  BY <1>2, IdentifierIsSerial
<1>7. IsPending(r)' <=> IsPending(r)
  BY <1>1 DEF IsPending
<1>8. ASSUME IsPending(r) PROVE Contract!Sent(r)
  <2>1. RequestState(r) = "sending"
    BY <1>2, <1>6, <1>8 DEF RequestState
  <2>2. RequestState(r)' = "open"
    BY <1>1, <1>2, <1>3, <1>6, <1>7, <1>8 DEF RequestState
  <2>3. Contract!Move(r, {"sending"}, "open")
    BY <1>5, <2>1, <2>2, OneMoves
  <2> QED
    BY <2>3 DEF Contract!Sent
<1>9. ASSUME ~IsPending(r), r \in QueuedSerials PROVE Contract!Sent(r)
  <2>1. RequestState(r) = "overtaken"
    BY <1>2, <1>6, <1>9 DEF RequestState
  <2>2. RequestState(r)' = "accepted"
    BY <1>1, <1>2, <1>3, <1>4, <1>6, <1>7, <1>9 DEF RequestState
  <2>3. Contract!Move(r, {"overtaken"}, "accepted")
    BY <1>5, <2>1, <2>2, OneMoves
  <2> QED
    BY <2>3 DEF Contract!Sent
<1>10. Contract!Sent(r)
  BY <1>2, <1>8, <1>9
<1>11. Numbered'
  BY <1>1, <1>2, <1>3 DEF HoldingInv, Numbered
<1>12. SendingHeld'
  BY <1>1 DEF SendingHeld
<1> QED
  BY <1>10, <1>11, <1>12 DEF HoldingInv, ContractStep, Contract!Next

\* cancelRequest forgets the request being sent, or the response that overtook it.
LEMMA RefusedStep ==
  ASSUME HoldingInv, IdentifiersSuffice, CompletionInv', CancelRequest
  PROVE  HoldingInv' /\ ContractStep
<1>1. /\ sendStage = "cancelling" /\ sendStage' = "idle" /\ sendSerial' = None
      /\ UNCHANGED <<lastRequestId, lastSerial, idOf, outcome>>
      /\ attached' \subseteq attached
      /\ failed' = failed \cup {sendSerial}
  BY DEF CancelRequest, SendDone, requestVars, serialVars, callVars
<1>2. PICK r \in Serials :
        /\ r = sendSerial /\ r \in 1 .. lastSerial /\ idOf[r] = r /\ r # None
        /\ r \notin failed
        /\ \/ IsPending(r) /\ pending[r] = r
           \/ ~IsPending(r) /\ pending[r] # r /\ r \in QueuedSerials
  BY <1>1, SenderState, NoneIsNothing
<1>3. /\ pending \in [RequestIds -> Serials \cup {None}] /\ queue \in Seq(Entries)
      /\ OnlyOnce(queue)
  BY DEF HoldingInv, CompletionInv, TypeOK, Entries, QueuedOnce, OnlyOnce
<1>4. /\ \A s \in Serials \ {r} : pending'[s] = pending[s]
      /\ QueuedSerials' \ {r} = QueuedSerials \ {r}
  <2>1. CASE pending[r] # None
    <3>1. pending' = [pending EXCEPT ![r] = None] /\ UNCHANGED queue
      BY <1>2, <2>1 DEF CancelRequest
    <3>2. QueuedSerials' = QueuedSerials
      BY <3>1 DEF QueuedSerials
    <3>3. \A s \in Serials \ {r} : pending'[s] = pending[s]
      BY <1>3, <3>1, IdentifierIsSerial
    <3> QED
      BY <3>2, <3>3
  <2>2. CASE pending[r] = None /\ UNCHANGED queue
    <3>1. UNCHANGED pending
      BY <1>2, <2>2 DEF CancelRequest, requestVars
    <3>2. QueuedSerials' = QueuedSerials
      BY <2>2 DEF QueuedSerials
    <3> QED
      BY <3>1, <3>2
  <2>3. CASE pending[r] = None /\ QueuedUnder(r) # {}
    <3>1. PICK i \in QueuedUnder(r) : queue' = RemoveAt(queue, i) /\ UNCHANGED pending
      BY <1>2, <2>3 DEF CancelRequest
    <3>2. i \in 1 .. Len(queue) /\ queue[i].serial # None /\ idOf[queue[i].serial] = r
      BY <3>1 DEF QueuedUnder
    <3>3. queue[i].serial = r
      <4>1. queue[i] \in Entries /\ i \in DOMAIN queue
        BY <1>3, <3>2, ElementOfSeq, LenProperties
      <4>2. queue[i].serial \in QueuedSerials
        BY <3>2, <4>1 DEF QueuedSerials
      <4>3. idOf[queue[i].serial] = queue[i].serial
        BY <4>2, QueuedIsClaimed, IdentifierIsSerial
      <4> QED
        BY <3>2, <4>3
    <3>4. SerialsOf(queue') = SerialsOf(queue) \ {r}
      BY <1>3, <3>1, <3>2, <3>3, SerialsRemove
    <3>5. QueuedSerials' = QueuedSerials \ {r}
      BY <3>4 DEF SerialsOf, QueuedSerials
    <3> QED
      BY <3>1, <3>5
  <2> QED
    BY <1>2, <2>1, <2>2, <2>3 DEF CancelRequest, requestVars
<1>5. \A s \in Serials \ {r} : RequestState(s)' = RequestState(s)
  BY <1>1, <1>2, <1>4, StateKept, NoneIsNothing
<1>6. ~(r > lastSerial)
  BY <1>2, IdentifierIsSerial
<1>7. RequestState(r) \in {"sending", "overtaken"}
  BY <1>2, <1>6 DEF RequestState
<1>8. RequestState(r)' = "refused"
  BY <1>1, <1>2, <1>6 DEF RequestState
<1>9. Contract!Refuse(r)
  BY <1>5, <1>7, <1>8, OneMoves DEF Contract!Refuse
<1>10. Numbered'
  BY <1>1, <1>2 DEF HoldingInv, Numbered
<1>11. SendingHeld'
  BY <1>1 DEF SendingHeld, HoldingInv
<1> QED
  BY <1>9, <1>10, <1>11 DEF HoldingInv, ContractStep, Contract!Next

\* A terminal timer ends an open request: the timer of the one being sent is not
\* attached, and a claimed one is not in the map.
LEMMA TimeOutStep ==
  ASSUME HoldingInv, IdentifiersSuffice, CompletionInv',
         NEW r \in Serials, r \in 1 .. lastSerial, TerminalTimerFires(r)
  PROVE  HoldingInv' /\ ContractStep
<1>1. /\ r \in attached /\ IsPending(r) /\ dispatchStage \in {"idle", "callback"}
      /\ UNCHANGED <<queue, lastRequestId, lastSerial, idOf, sendStage, sendSerial,
                     dispatchStage, failed>>
      /\ attached' \subseteq attached
      /\ pending' = [pending EXCEPT ![idOf[r]] = None]
      /\ outcome' = [outcome EXCEPT ![r] = "timeout"]
  BY DEF TerminalTimerFires, ContextRuns, CallBack, sendVars, dispatchVars, serialVars
<1>2. /\ idOf[r] = r /\ pending[r] = r /\ r # None /\ r \in RequestIds
      /\ pending \in [RequestIds -> Serials \cup {None}]
      /\ outcome \in [Serials -> Outcomes]
  BY <1>1, IdentifierIsSerial DEF HoldingInv, CompletionInv, TypeOK
<1>3. r # sendSerial
  BY <1>1, <1>2 DEF HoldingInv, SendingHeld
<1>4. QueuedSerials' = QueuedSerials
  BY <1>1 DEF QueuedSerials
<1>5. r \notin QueuedSerials
  BY <1>2, QueuedIsClaimed
<1>6. ~(r > lastSerial)
  BY IdentifierIsSerial
<1>7. /\ outcome'[r] = "timeout" /\ pending'[r] = None
      /\ \A s \in Serials \ {r} : outcome'[s] = outcome[s] /\ pending'[s] = pending[s]
  BY <1>1, <1>2, IdentifierIsSerial
<1>8. \A s \in Serials \ {r} : RequestState(s)' = RequestState(s)
  BY <1>1, <1>4, <1>7, StateKept
<1>9. ContractStep
  <2>1. CASE r \in failed
    <3>1. RequestState(r)' = RequestState(r)
      BY <1>1, <1>6, <2>1 DEF RequestState
    <3> QED
      BY <1>8, <3>1, KeptIsStep
  <2>2. CASE r \notin failed
    <3>1. RequestState(r) = "open"
      BY <1>1, <1>3, <1>6, <2>2 DEF RequestState
    <3>2. ~IsPending(r)'
      BY <1>1, <1>2, <1>7 DEF IsPending
    <3>3. RequestState(r)' = "timedOut"
      BY <1>1, <1>4, <1>5, <1>6, <1>7, <2>2, <3>2 DEF RequestState
    <3>4. Contract!TimeOut(r)
      BY <1>8, <3>1, <3>3, OneMoves DEF Contract!TimeOut
    <3> QED
      BY <3>4 DEF ContractStep, Contract!Next
  <2> QED
    BY <2>1, <2>2
<1>10. HoldingInv'
  <2>1. sendStage # "idle" => sendSerial \in Serials /\ sendSerial # r
    BY <1>3, SenderState
  <2>2. sendStage # "idle" =>
          pending[sendSerial] = sendSerial \/ sendSerial \in QueuedSerials
    BY SenderState
  <2>3. sendStage # "idle" =>
          pending'[sendSerial] = sendSerial \/ sendSerial \in QueuedSerials'
    BY <1>4, <1>7, <2>1, <2>2
  <2> QED
    BY <1>1, <2>3, HoldingRest
<1> QED
  BY <1>9, <1>10

\* receiveObject claims the request and queues its response, whether or not send
\* has returned.
LEMMA AcceptStep ==
  ASSUME HoldingInv, IdentifiersSuffice, CompletionInv', NEW r \in RequestIds,
         ReceiveResponse(r), pending[r] # None, ~stopped
  PROVE  HoldingInv' /\ ContractStep
<1>1. /\ r \in Serials /\ r \in 1 .. lastSerial /\ r # None /\ pending[r] = r
      /\ IsPending(r) /\ idOf[r] = r
      /\ pending \in [RequestIds -> Serials \cup {None}] /\ queue \in Seq(Entries)
  BY IdentifierIsSerial DEF HoldingInv, CompletionInv, TypeOK, Entries
<1>2. /\ UNCHANGED <<lastRequestId, lastSerial, idOf, sendStage, sendSerial,
                     dispatchStage, failed, outcome, attached>>
      /\ Enqueue(r) /\ pending' = [pending EXCEPT ![r] = None]
  BY <1>1 DEF ReceiveResponse, sendVars, dispatchVars, serialVars, callVars
<1>3. QueuedSerials' = QueuedSerials \cup {r}
  <2> DEFINE e == [object |-> lastObject + 1, serial |-> r]
  <2>1. e \in Entries
    BY <1>1, <1>2, BoundsAssumption DEF HoldingInv, CompletionInv, TypeOK, Enqueue, Entries, Objects
  <2>2. queue' = Append(queue, e) /\ e.serial = r
    BY <1>2 DEF Enqueue
  <2> HIDE DEF e
  <2>3. SerialsOf(queue') = (SerialsOf(queue) \cup {r}) \ {None}
    BY <1>1, <2>1, <2>2, SerialsAppend
  <2> QED
    BY <1>1, <2>3 DEF SerialsOf, QueuedSerials
<1>4. /\ pending'[r] = None
      /\ \A s \in Serials \ {r} : pending'[s] = pending[s]
  BY <1>1, <1>2, IdentifierIsSerial
<1>5. \A s \in Serials \ {r} : RequestState(s)' = RequestState(s)
  BY <1>2, <1>3, <1>4, StateKept
<1>6. ~(r > lastSerial)
  BY <1>1, IdentifierIsSerial
<1>7. ~IsPending(r)'
  BY <1>1, <1>2, <1>4 DEF IsPending
<1>8. ContractStep
  <2>1. CASE r \in failed
    <3>1. RequestState(r)' = RequestState(r)
      BY <1>2, <1>6, <2>1 DEF RequestState
    <3> QED
      BY <1>5, <3>1, KeptIsStep
  <2>2. CASE r \notin failed /\ r = sendSerial
    <3>1. RequestState(r) = "sending" /\ RequestState(r)' = "overtaken"
      BY <1>1, <1>2, <1>3, <1>6, <1>7, <2>2 DEF RequestState
    <3>2. Contract!Move(r, {"sending"}, "overtaken")
      BY <1>1, <1>5, <3>1, OneMoves
    <3> QED
      BY <1>1, <3>2 DEF ContractStep, Contract!Next, Contract!Accept
  <2>3. CASE r \notin failed /\ r # sendSerial
    <3>1. RequestState(r) = "open" /\ RequestState(r)' = "accepted"
      BY <1>1, <1>2, <1>3, <1>6, <1>7, <2>3 DEF RequestState
    <3>2. Contract!Move(r, {"open"}, "accepted")
      BY <1>1, <1>5, <3>1, OneMoves
    <3> QED
      BY <1>1, <3>2 DEF ContractStep, Contract!Next, Contract!Accept
  <2> QED
    BY <2>1, <2>2, <2>3
<1>9. HoldingInv'
  <2>1. sendStage # "idle" =>
          sendSerial \in Serials
          /\ (pending[sendSerial] = sendSerial \/ sendSerial \in QueuedSerials)
    BY SenderState
  <2>2. sendStage # "idle" =>
          pending'[sendSerial] = sendSerial \/ sendSerial \in QueuedSerials'
    BY <1>3, <1>4, <2>1
  <2>3. dispatchStage' \in {"loop", "check", "retire"} => sendStage = "idle"
    BY <1>2 DEF HoldingInv, SendingHeld
  <2> QED
    BY <1>2, <2>2, <2>3, HoldingRest
<1> QED
  BY <1>8, <1>9

\* dispatchOne answers an accepted request: no send is under way while it runs.
LEMMA AnswerStep ==
  ASSUME HoldingInv, IdentifiersSuffice, CompletionInv', DispatchOne
  PROVE  HoldingInv' /\ ContractStep
<1> DEFINE h == Head(queue).serial
<1>1. /\ sendStage = "idle" /\ sendSerial = None /\ dispatchStage' = "callback"
      /\ UNCHANGED <<pending, lastRequestId, lastSerial, idOf, failed, sendStage,
                     sendSerial>>
      /\ attached' \subseteq attached
  BY DEF DispatchOne, HoldingInv, SendingHeld, sendVars, serialVars
<1>2. /\ queue \in Seq(Entries) /\ queue # <<>> /\ OnlyOnce(queue)
      /\ queue' = Tail(queue) /\ outcome \in [Serials -> Outcomes]
  BY DEF HoldingInv, CompletionInv, TypeOK, Entries, QueuedOnce, OnlyOnce,
         DispatchOne, MoreToDispatch
<1>3. QueuedSerials' = QueuedSerials \ {h}
  <2>1. SerialsOf(queue') = SerialsOf(queue) \ {h}
    BY <1>2, SerialsTail
  <2> QED
    BY <2>1 DEF SerialsOf, QueuedSerials
<1>4. h # None => h \in QueuedSerials
  <2>1. 1 \in DOMAIN queue /\ Head(queue) = queue[1]
    BY <1>2, EmptySeq, LenProperties, HeadTailProperties
  <2> QED
    BY <2>1 DEF QueuedSerials
<1>5. HoldingInv'
  BY <1>1, HoldingRest
<1>6. CASE h = None
  <2>1. UNCHANGED outcome /\ QueuedSerials' = QueuedSerials
    BY <1>3, <1>6 DEF DispatchOne, callVars, QueuedSerials
  <2>2. \A s \in Serials : RequestState(s)' = RequestState(s)
    BY <1>1, <2>1, StateKept
  <2> QED
    BY <1>5, <2>2, KeptIsStep
<1>7. CASE h # None
  <2>1. PICK r \in Serials :
          /\ r = h /\ r \in 1 .. lastSerial /\ r \in QueuedSerials
          /\ pending[r] # r /\ idOf[r] = r /\ r # None
    BY <1>4, <1>7, QueuedIsClaimed, IdentifierIsSerial
  <2>2. outcome' = [outcome EXCEPT ![r] = "object"]
    BY <1>7, <2>1 DEF DispatchOne, CallBack
  <2>3. /\ outcome'[r] = "object"
        /\ \A s \in Serials \ {r} : outcome'[s] = outcome[s]
    BY <1>2, <2>2
  <2>4. r \notin QueuedSerials'
    BY <1>3, <2>1
  <2>5. \A s \in Serials \ {r} : s \in QueuedSerials' <=> s \in QueuedSerials
    BY <1>3, <2>1
  <2>6. \A s \in Serials \ {r} : RequestState(s)' = RequestState(s)
    BY <1>1, <2>3, <2>5, StateKept
  <2>7. ~(r > lastSerial) /\ r # sendSerial
    BY <1>1, <2>1, IdentifierIsSerial
  <2>8. ~IsPending(r) /\ ~IsPending(r)'
    BY <1>1, <2>1 DEF IsPending
  <2>9. CASE r \in failed
    <3>1. RequestState(r)' = RequestState(r)
      BY <1>1, <2>7, <2>9 DEF RequestState
    <3> QED
      BY <1>5, <2>6, <3>1, KeptIsStep
  <2>10. CASE r \notin failed
    <3>1. RequestState(r) = "accepted"
      BY <2>1, <2>7, <2>8, <2>10 DEF RequestState
    <3>2. RequestState(r)' = "answered"
      BY <1>1, <2>3, <2>4, <2>7, <2>8, <2>10 DEF RequestState
    <3>3. Contract!Answer(r)
      BY <2>6, <3>1, <3>2, OneMoves DEF Contract!Answer
    <3> QED
      BY <1>5, <3>3 DEF ContractStep, Contract!Next
  <2> QED
    BY <2>9, <2>10
<1> QED
  BY <1>6, <1>7

\* shutdown abandons what has not ended; it does not run while send is under way.
LEMMA AbandonStep ==
  ASSUME HoldingInv, IdentifiersSuffice, CompletionInv', Shutdown
  PROVE  HoldingInv' /\ ContractStep
<1>1. /\ sendStage = "idle" /\ sendSerial = None
      /\ UNCHANGED <<lastRequestId, lastSerial, idOf, failed, sendStage, sendSerial,
                     outcome, dispatchStage>>
      /\ attached' = {} /\ queue' = <<>> /\ pending' = [id \in RequestIds |-> None]
      /\ dispatchStage \in {"idle", "callback"}
  BY DEF Shutdown, OwnerFree, HoldingInv, SendingHeld, sendVars, serialVars, callVars,
         dispatchVars
<1>2. HoldingInv'
  BY <1>1, HoldingRest
<1>3. QueuedSerials' = {}
  BY <1>1 DEF QueuedSerials
<1>4. ASSUME NEW s \in Serials
      PROVE  RequestState(s)' = IF RequestState(s) \in {"open", "accepted"}
                                THEN "abandoned" ELSE RequestState(s)
  <2>1. s # None /\ s # sendSerial
    BY <1>1, NoneIsNothing
  <2>2. s \notin QueuedSerials'
    BY <1>3
  <2>3. CASE s > lastSerial
    BY <1>1, <2>3 DEF RequestState
  <2>4. CASE ~(s > lastSerial)
    <3>1. s \in 1 .. lastSerial
      BY <2>4, IdentifierIsSerial, BoundsAssumption DEF Serials
    <3>2. idOf[s] = s /\ s \in RequestIds /\ (IsPending(s) <=> pending[s] = s)
      BY <3>1, IdentifierIsSerial
    <3>3. ~IsPending(s)'
      BY <1>1, <2>1, <3>2 DEF IsPending
    <3>4. IsPending(s) => outcome[s] = "none"
      BY <2>1, <3>2 DEF HoldingInv, CompletionInv, MapOwnsOpenRequests, NotCompleted
    <3>5. s \in QueuedSerials => outcome[s] = "none"
      BY QueuedIsClaimed
    <3>6. CASE s \in failed
      BY <1>1, <2>4, <3>6 DEF RequestState
    <3>7. CASE s \notin failed /\ IsPending(s)
      <4>1. RequestState(s) = "open"
        BY <2>1, <2>4, <3>7 DEF RequestState
      <4>2. RequestState(s)' = "abandoned"
        BY <1>1, <2>2, <2>4, <3>3, <3>4, <3>7 DEF RequestState
      <4> QED
        BY <4>1, <4>2
    <3>8. CASE s \notin failed /\ ~IsPending(s) /\ s \in QueuedSerials
      <4>1. RequestState(s) = "accepted"
        BY <2>1, <2>4, <3>8 DEF RequestState
      <4>2. RequestState(s)' = "abandoned"
        BY <1>1, <2>2, <2>4, <3>3, <3>5, <3>8 DEF RequestState
      <4> QED
        BY <4>1, <4>2
    <3>9. CASE s \notin failed /\ ~IsPending(s) /\ s \notin QueuedSerials
      BY <1>1, <2>2, <2>4, <3>3, <3>9 DEF RequestState
    <3> QED
      BY <3>6, <3>7, <3>8, <3>9
  <2> QED
    BY <2>3, <2>4
<1>5. Contract!Abandon
  BY <1>4 DEF Contract!Abandon
<1> QED
  BY <1>2, <1>5 DEF ContractStep, Contract!Next

\* An update carries no serial, and a refused object none that is in the queue.
LEMMA UpdateStep ==
  ASSUME HoldingInv, IdentifiersSuffice, CompletionInv', ReceiveUpdate
  PROVE  HoldingInv' /\ ContractStep
<1>1. /\ UNCHANGED <<pending, lastRequestId, lastSerial, idOf, failed, sendStage,
                     sendSerial, outcome, dispatchStage, attached>>
  BY DEF ReceiveUpdate, requestVars, sendVars, dispatchVars, serialVars, callVars
<1>2. QueuedSerials' = QueuedSerials
  <2>1. CASE UNCHANGED queue
    BY <2>1 DEF QueuedSerials
  <2>2. CASE Enqueue(None)
    <3> DEFINE e == [object |-> lastObject + 1, serial |-> None]
    <3>1. e \in Entries
      BY <2>2, BoundsAssumption
         DEF HoldingInv, CompletionInv, TypeOK, Enqueue, Entries, Objects
    <3>2. queue \in Seq(Entries) /\ queue' = Append(queue, e) /\ e.serial = None
      BY <2>2 DEF Enqueue, HoldingInv, CompletionInv, TypeOK, Entries
    <3> HIDE DEF e
    <3>3. SerialsOf(queue') = (SerialsOf(queue) \cup {None}) \ {None}
      BY <3>1, <3>2, SerialsAppend
    <3> QED
      BY <3>3 DEF SerialsOf, QueuedSerials
  <2> QED
    BY <2>1, <2>2 DEF ReceiveUpdate, Refuse
<1>3. dispatchStage' \in {"loop", "check", "retire"} => sendStage' = "idle"
  BY <1>1 DEF HoldingInv, SendingHeld
<1> QED
  BY <1>1, <1>2, <1>3, QuietStep

LEMMA StepIsContractStep ==
  ASSUME HoldingInv, IdentifiersSuffice, [Next]_vars
  PROVE  HoldingInv' /\ ContractStep
<1>1. CompletionInv'
  BY CompletionStep DEF HoldingInv
<1>2. dispatchStage \in {"loop", "check", "retire"} => sendStage = "idle"
  BY DEF HoldingInv, SendingHeld
<1>3. UNCHANGED queue => QueuedSerials' = QueuedSerials
  BY DEF QueuedSerials
<1>4. ASSUME NEW withCallback \in BOOLEAN, NEW kind \in {"plain", "timed"},
             Reserve(withCallback, kind)
      PROVE  HoldingInv' /\ ContractStep
  BY <1>1, <1>4, ReserveStep
<1>5. CASE SendStep
  <2>1. CASE SendThrows
    BY <1>1, <1>2, <1>3, <2>1, QuietStep
       DEF SendThrows, requestVars, dispatchVars, serialVars, callVars
  <2> QED
    BY <1>1, <1>5, <2>1, SentStep, RefusedStep DEF SendStep
<1>6. ASSUME NEW s \in 1 .. lastSerial,
             NEW kind \in {"terminal", "explicit", "notification"},
             SetTimeout(s, kind)
      PROVE  HoldingInv' /\ ContractStep
  <2>1. /\ sendStage = "idle" /\ UNCHANGED <<sendStage, dispatchStage, queue>>
        /\ UNCHANGED <<pending, lastRequestId, lastSerial, idOf, outcome, failed,
                       sendSerial>>
        /\ attached' = attached \cup {s}
    BY <1>6 DEF SetTimeout, OwnerFree, sendVars, dispatchVars, serialVars, callVars
  <2>2. attached' \subseteq 1 .. lastSerial
    BY <2>1 DEF HoldingInv, Numbered
  <2> QED
    BY <1>1, <1>3, <2>1, <2>2, QuietStep
<1>7. ASSUME NEW s \in 1 .. lastSerial, TimerFires(s)
      PROVE  HoldingInv' /\ ContractStep
  <2>1. CASE TerminalTimerFires(s)
    BY <1>1, <2>1, TimeOutStep, IdentifierIsSerial
  <2>2. CASE NotificationTimerFires(s) \/ StaleTimerFires(s)
    BY <1>1, <1>2, <1>3, <2>2, QuietStep
       DEF NotificationTimerFires, StaleTimerFires, sendVars, dispatchVars,
           serialVars, callVars
  <2> QED
    BY <1>7, <2>1, <2>2 DEF TimerFires
<1>8. CASE ReceiveUpdate
  BY <1>1, <1>8, UpdateStep
<1>9. ASSUME NEW id \in RequestIds, ReceiveResponse(id)
      PROVE  HoldingInv' /\ ContractStep
  <2>1. CASE ~stopped /\ pending[id] # None
    BY <1>1, <1>9, <2>1, AcceptStep
  <2>2. CASE stopped \/ pending[id] = None
    <3>1. /\ UNCHANGED <<queue, pending, attached>>
          /\ UNCHANGED <<lastRequestId, lastSerial, idOf, outcome, failed, sendSerial,
                         sendStage, dispatchStage>>
      BY <1>9, <2>2
         DEF ReceiveResponse, Refuse, sendVars, dispatchVars, serialVars, callVars
    <3> QED
      BY <1>1, <1>2, <1>3, <3>1, QuietStep
  <2> QED
    BY <2>1, <2>2
<1>10. CASE DispatchStep
  <2>1. CASE DispatchOne
    BY <1>1, <2>1, AnswerStep
  <2>2. CASE \/ DispatchBegin \/ DispatchSettle \/ DispatchLoopEnd
             \/ DispatchCheck \/ Retire
    <3>1. /\ UNCHANGED <<queue, pending, attached>>
          /\ UNCHANGED <<lastRequestId, lastSerial, idOf, outcome, failed, sendSerial,
                         sendStage>>
          /\ dispatchStage \in {"loop", "check", "retire"} \/ sendStage = "idle"
      BY <2>2 DEF DispatchBegin, DispatchSettle, DispatchLoopEnd, DispatchCheck, Retire,
                  LoopIdle, requestVars, sendVars, serialVars, callVars
    <3> QED
      BY <1>1, <1>2, <1>3, <3>1, QuietStep
  <2> QED
    BY <1>10, <2>1, <2>2 DEF DispatchStep
<1>11. CASE Shutdown
  BY <1>1, <1>11, AbandonStep
<1>12. CASE UNCHANGED vars
  BY <1>1, <1>2, <1>3, <1>12, QuietStep
     DEF vars, requestVars, sendVars, dispatchVars, serialVars, callVars
<1> QED
  BY <1>4, <1>5, <1>6, <1>7, <1>8, <1>9, <1>10, <1>11, <1>12 DEF Next

\* Every step of the transport is a step of the contract with its callers or leaves
\* it alone, whatever the threads, timers and shutdown do, for every number of
\* requests the identifiers suffice for.
THEOREM ContractIsKept ==
  ASSUME IdentifiersSuffice
  PROVE  Spec => KeepsContract
<1>1. Init => Contract!Init
  <2> SUFFICES ASSUME Init
               PROVE  [s \in Serials |-> RequestState(s)] = [s \in Serials |-> "unused"]
    BY DEF Contract!Init
  <2>1. \A s \in Serials : s > lastSerial
    BY BoundsAssumption DEF Init, Serials
  <2> QED
    BY <2>1 DEF RequestState
<1>2. HoldingInv /\ [Next]_vars => HoldingInv' /\ ContractStep
  BY StepIsContractStep
<1>3. Init => HoldingInv
  BY HoldingInit
<1>4. Spec => [][Contract!Next]_([s \in Serials |-> RequestState(s)])
  BY <1>2, <1>3, PTL DEF Spec, ContractStep
<1>5. Spec => Contract!Init
  BY <1>1 DEF Spec
<1> QED
  BY <1>4, <1>5, PTL DEF KeepsContract, Contract!Spec
=============================================================================
