--------------------------- MODULE TdAuthController ---------------------------
(***************************************************************************)
(* The login state machine (td-auth-controller.cpp).  It runs on one       *)
(* thread; what makes it hard is that it calls out, to the observer and to *)
(* the sender, in the middle of its handlers, and that the code called may *)
(* call any public method, deliver a response, or throw.                   *)
(*                                                                         *)
(* The variable stack holds one frame for each call-out under way, newest  *)
(* first: what its handler does once the call returns.  An action is what  *)
(* the controller does from being entered, or from a call-out returning,   *)
(* to its next call-out or its return.  A call that has no effect (an      *)
(* early return, a rejected prompt) is a stuttering step.                  *)
(***************************************************************************)
EXTENDS Naturals, Sequences, SequencesExt

CONSTANTS
  Modes,            \* the TdAuthMode values a configuration may have
  ChallengeStates,  \* the states that ask for input, but for the phone number
  Details,          \* what TDLib may say about a challenge
  Links,            \* QR links; EmptyLink is never one of them
  MaxCalls,         \* bound: calls into the controller
  MaxDepth          \* bound: call-outs nested in one another

EmptyLink == 0

ASSUME ModesAssumption == Modes \subseteq {"phone", "qr", "qrFallback"}
ASSUME LinksAssumption == EmptyLink \notin Links
ASSUME ChallengeStatesAssumption ==
  ChallengeStates \cap {"None", "WaitPhoneNumber", "WaitOtherDeviceConfirmation",
                        "QrCode", "RequestQrCode", "SetTdlibParameters"} = {}
ASSUME BoundsAssumption == MaxCalls \in Nat /\ MaxDepth \in Nat

LifecycleStates == {"LoggingOut", "Closing", "Closed"}
Completions == {"none", "ready", "cancelled", "failed"}

NoChallenge == [type |-> "None", detail |-> 0]
PhoneChallenge == [type |-> "WaitPhoneNumber", detail |-> 0]
NoRequest == [serial |-> 0, operation |-> "None", epoch |-> 0]
RequestQrCode == [type |-> "RequestQrCode", detail |-> 0]
SetTdlibParameters == [type |-> "SetTdlibParameters", detail |-> 0]

VARIABLES
  auth,    \* the members of TdAuthControllerState, and the history of its calls
  stack,   \* frames of the call-outs under way
  calls    \* calls into the controller so far

vars == <<auth, stack, calls>>

Init ==
  /\ stack = <<>>
  /\ calls = 0
  /\ \E mode \in Modes, valid \in BOOLEAN :
       auth = [mode |-> mode, valid |-> valid,      \* m_configuration
               stopped |-> FALSE, completion |-> "none",
               state |-> "None", epoch |-> 0,
               challenge |-> NoChallenge,
               prompt |-> 0, promptType |-> "None", link |-> EmptyLink,
               lastPrompt |-> 0,
               qrRequested |-> FALSE, qrFlow |-> FALSE, fallback |-> FALSE,
               pending |-> NoRequest, lastSerial |-> 0,
               notified |-> {}, queued |-> <<>>,    \* lifecycle states
               outstanding |-> {},    \* requests the sender may still answer
               acknowledged |-> FALSE,\* history: TDLib accepted, has to move on
               closed |-> {},         \* history: prompts reported closed
               offered |-> {},        \* history: kinds of prompt shown
               rejections |-> 0,      \* history: calls of onRequestFailed
               outcomes |-> <<>>,     \* history: completion callbacks made
               arrived |-> <<>>,      \* history: lifecycle states after ready
               seen |-> <<>>,         \* history: lifecycle callbacks made
               observerFailed |-> FALSE]  \* history: an observer threw

-----------------------------------------------------------------------------
(* Frames.  An operator takes and returns a control point: the members and  *)
(* the stack.                                                               *)

Frame(kind) ==
  [kind |-> kind, epoch |-> 0, state |-> "None", then |-> NoChallenge, serial |-> 0,
   failed |-> FALSE]

At(a, frames) == [auth |-> a, stack |-> frames]
CallOut(a, frames, frame) == At(a, <<frame>> \o frames)

Running(a) == ~a.stopped /\ a.completion = "none"
IsCurrentState(a, epoch, state) ==
  Running(a) /\ a.epoch = epoch /\ a.state = state
IsCurrentRequest(a, serial) == a.pending.serial = serial

InCompletion(frames) ==          \* m_dispatchingCompletion
  \E i \in DOMAIN frames : frames[i].kind \in {"closing", "outcome"}
Draining(frames) ==              \* m_drainingLifecycle
  \E i \in DOMAIN frames : frames[i].kind = "drain"

\* A new epoch: the request under way no longer counts.
Invalidate(a) == [a EXCEPT !.epoch = @ + 1, !.pending = NoRequest]

\* A new epoch in another state, its challenge not known yet.
NextState(a, state) ==
  [Invalidate(a) EXCEPT !.state = state, !.challenge = NoChallenge,
                        !.acknowledged = FALSE]

\* Mutant: the closed prompt's kind stays behind.
DiscardPromptNumber(a) == [a EXCEPT !.prompt = 0, !.link = EmptyLink]

\* discardPrompt
DiscardPrompt(a) == [a EXCEPT !.prompt = 0, !.promptType = "None", !.link = EmptyLink]

\* notifyPromptClosed with a prompt open.
NotifyPromptClosed(a, frames, frame) ==
  CallOut([DiscardPrompt(a) EXCEPT !.closed = @ \cup {a.prompt}], frames, frame)

-----------------------------------------------------------------------------
(* Completion *)

NotifyOutcome(a, frames, frame) ==
  CallOut([a EXCEPT !.outcomes = Append(@, a.completion)], frames, frame)

\* Mutant: the outcome is told while the prompt is still open.
NotifyCompletionAtOnce(a, frames) == NotifyOutcome(a, frames, Frame("outcome"))

\* notifyCompletion: the open prompt is closed first, then the outcome told.
NotifyCompletion(a, frames) ==
  IF a.prompt = 0 THEN NotifyOutcome(a, frames, Frame("outcome"))
                  ELSE NotifyPromptClosed(a, frames, Frame("closing"))

\* failAuthorization
FailAuthorization(a, frames, state) ==
  IF Running(a)
  THEN NotifyCompletion([NextState(a, state) EXCEPT !.completion = "failed"], frames)
  ELSE At(a, frames)

Stop(a) ==
  [(IF a.stopped THEN a ELSE Invalidate(a)) EXCEPT
     !.stopped = TRUE, !.challenge = NoChallenge, !.queued = <<>>]

StopAfterObserverFailure(a) ==
  [DiscardPrompt(Stop(a)) EXCEPT !.observerFailed = TRUE]

\* completeObserverFailure
CompleteObserverFailure(a, frames) ==
  IF Running(a) THEN FailAuthorization([a EXCEPT !.observerFailed = TRUE],
                                       frames, a.state)
                ELSE At(StopAfterObserverFailure(a), frames)

-----------------------------------------------------------------------------
(* Prompts and requests *)

\* issuePrompt
IssuePrompt(a, frames) ==
  IF Running(a) /\ a.challenge # NoChallenge /\ a.prompt = 0
  THEN CallOut([a EXCEPT !.prompt = a.lastPrompt + 1, !.lastPrompt = @ + 1,
                         !.promptType = a.challenge.type,
                         !.offered = @ \cup {a.challenge.type},
                         !.acknowledged = FALSE],
               frames, Frame("shown"))
  ELSE At(a, frames)

BeginRequest(a, operation) ==
  [a EXCEPT !.lastSerial = @ + 1,
            !.pending = [serial |-> a.lastSerial + 1, operation |-> operation,
                         epoch |-> a.epoch]]

\* The request goes to the sender, which may answer it from now on.
SendRequest(a, frames) ==
  CallOut([a EXCEPT !.outstanding = @ \cup {a.pending}], frames,
          [Frame("sending") EXCEPT !.serial = a.pending.serial])

\* startRequest for a request no prompt asked for.
StartRequest(a, frames, operation) ==
  IF Running(a) /\ a.pending = NoRequest
  THEN SendRequest(BeginRequest(a, operation), frames)
  ELSE At(a, frames)

StartQrRequest(a, frames) ==
  StartRequest([a EXCEPT !.qrRequested = TRUE], frames, "RequestQrCode")

\* The QR prompt shows a link, its first or a fresh one.
ShowLink(a, frames, link) ==
  CallOut([a EXCEPT !.link = link, !.offered = @ \cup {"QrCode"}], frames,
          Frame("shown"))

\* What follows enterState once its prompt is closed: the state's own business,
\* unless the observer has moved the controller on.
Entered(a, frames, frame) ==
  IF ~IsCurrentState(a, frame.epoch, frame.state)
  THEN At(a, frames)
  ELSE CASE frame.then = SetTdlibParameters ->
              StartRequest(a, frames, "SetTdlibParameters")
         [] frame.then = RequestQrCode ->
              IF a.qrRequested THEN FailAuthorization(a, frames, "WaitPhoneNumber")
                               ELSE StartQrRequest(a, frames)
         [] frame.then.type = "QrCode" ->
              ShowLink([a EXCEPT !.prompt = a.lastPrompt + 1, !.lastPrompt = @ + 1,
                                 !.promptType = "QrCode"], frames, frame.then.detail)
         [] OTHER -> IssuePrompt([a EXCEPT !.challenge = frame.then], frames)

\* Mutant: the prompt of the state left behind is forgotten, not closed.
EnterStateSilently(a, frames, state, then) ==
  LET next == DiscardPrompt(NextState(a, state))
  IN Entered(next, frames, [Frame("entered") EXCEPT
       !.epoch = next.epoch, !.state = state, !.then = then])

\* enterState, and what the handler does next.
EnterState(a, frames, state, then) ==
  LET next == NextState(a, state)
      frame == [Frame("entered") EXCEPT !.epoch = next.epoch, !.state = state,
                                        !.then = then]
  IN IF next.prompt = 0 THEN Entered(next, frames, frame)
                        ELSE NotifyPromptClosed(next, frames, frame)

\* handleChallengeState
HandleChallengeState(a, frames, challenge) ==
  IF a.state = challenge.type /\ a.challenge = challenge
  THEN IF a.prompt # 0 \/ a.pending # NoRequest THEN At(a, frames)
                                                ELSE IssuePrompt(a, frames)
  ELSE EnterState(a, frames, challenge.type, challenge)

\* After onRequestFailed: ask again, unless the observer has moved on.
AskAgain(a, frames, epoch) ==
  IF a.epoch = epoch /\ a.pending = NoRequest THEN IssuePrompt(a, frames)
                                              ELSE At(a, frames)

\* onRequestFailed, in the epoch the prompt was closed in.
ReportRejection(a, frames) ==
  CallOut([a EXCEPT !.rejections = @ + 1], frames,
          [Frame("rejected") EXCEPT !.epoch = a.epoch])

-----------------------------------------------------------------------------
(* Calls into the controller: from the main loop, or nested in a call-out *)

Step(next) ==
  /\ auth' = next.auth
  /\ stack' = next.stack

CanCall ==
  /\ calls < MaxCalls
  /\ Len(stack) < MaxDepth
  /\ stack # <<>> => Head(stack).kind # "drain"

Call(next) == CanCall /\ Step(next) /\ calls' = calls + 1

UpdateTdlibParameters ==
  /\ Running(auth)
  /\ auth.state # "WaitTdlibParameters"
  /\ Call(IF auth.valid
          THEN EnterState(auth, stack, "WaitTdlibParameters", SetTdlibParameters)
          ELSE FailAuthorization(auth, stack, "WaitTdlibParameters"))

\* handlePhoneNumber: ask for the number, or for a QR code, which this
\* controller requests once.
UpdatePhoneNumber ==
  /\ Running(auth)
  /\ \/ /\ auth.mode = "phone" \/ auth.fallback
        /\ Call(HandleChallengeState(auth, stack, PhoneChallenge))
     \/ /\ auth.mode # "phone" /\ ~auth.fallback
        /\ auth.state # "WaitPhoneNumber"
        /\ Call(EnterState(auth, stack, "WaitPhoneNumber", RequestQrCode))
     \/ /\ auth.mode # "phone" /\ ~auth.fallback
        /\ auth.state = "WaitPhoneNumber"
        /\ ~auth.qrRequested
        /\ Call(StartQrRequest(auth, stack))

UpdateChallenge ==
  /\ Running(auth)
  /\ \E type \in ChallengeStates, detail \in Details :
       Call(HandleChallengeState(auth, stack, [type |-> type, detail |-> detail]))

\* handleQrLink
UpdateQrLink(link) ==
  /\ Running(auth)
  /\ LET committed == [auth EXCEPT !.qrFlow = TRUE]
         shown == auth.state = "WaitOtherDeviceConfirmation"
                    /\ auth.promptType = "QrCode"
     IN \/ /\ auth.fallback
           /\ Call(FailAuthorization(auth, stack, "WaitOtherDeviceConfirmation"))
        \/ /\ ~auth.fallback
           /\ link = EmptyLink
           /\ Call(FailAuthorization(committed, stack, "WaitOtherDeviceConfirmation"))
        \/ /\ ~auth.fallback /\ link # EmptyLink
           /\ ~shown
           /\ Call(EnterState(committed, stack, "WaitOtherDeviceConfirmation",
                              [type |-> "QrCode", detail |-> link]))
        \/ /\ ~auth.fallback /\ link # EmptyLink
           /\ shown /\ auth.link # link
           /\ Call(ShowLink(Invalidate(committed), stack, link))

\* A null state, or one this version does not know.
UpdateUnsupported ==
  /\ Running(auth)
  /\ \E state \in {"None", "Unknown"} : Call(FailAuthorization(auth, stack, state))

\* completeReady
UpdateReady ==
  /\ Running(auth)
  /\ Call(NotifyCompletion([NextState(auth, "Ready") EXCEPT !.completion = "ready"],
                           stack))

\* dispatchLifecycle: before the login is complete it ends it, after a
\* successful one the observer is told, once for each state.
DispatchLifecycle(a, frames, state) ==
  LET next == [NextState(a, state) EXCEPT !.notified = @ \cup {state}]
  IN CASE state \in a.notified -> At(a, frames)
       [] state \notin a.notified /\ a.completion = "none" ->
            NotifyCompletion([next EXCEPT !.completion = "failed"], frames)
       [] state \notin a.notified /\ a.completion = "ready" ->
            CallOut([next EXCEPT !.seen = Append(@, state)], frames,
                    Frame("lifecycle"))
       [] OTHER -> At(next, frames)

\* Mutant: a lifecycle state is dispatched in the middle of another callback.
HandleLifecycleAtOnce(state) ==
  /\ ~auth.stopped
  /\ LET a == IF auth.completion = "ready" /\ state \notin ToSet(auth.arrived)
              THEN [auth EXCEPT !.arrived = Append(@, state)] ELSE auth
     IN Call(DispatchLifecycle(a, stack, state))

\* handleLifecycle: queued while the outcome, or an earlier state, is told.
HandleLifecycle(state) ==
  /\ ~auth.stopped
  /\ LET a == IF auth.completion = "ready" /\ state \notin ToSet(auth.arrived)
              THEN [auth EXCEPT !.arrived = Append(@, state)] ELSE auth
     IN IF InCompletion(stack) \/ Draining(stack)
        THEN Call(At([a EXCEPT !.queued = Append(@, state)], stack))
        ELSE Call(DispatchLifecycle(a, stack, state))

\* submit: the prompt closes and its request starts.
Submit ==
  /\ Running(auth)
  /\ auth.prompt # 0 /\ auth.promptType \notin {"QrCode", "WaitPremiumPurchase"}
  /\ auth.pending = NoRequest
  /\ LET a == BeginRequest(auth, "Submit")
     IN Call(NotifyPromptClosed(a, stack,
          [Frame("submitting") EXCEPT !.serial = a.pending.serial]))

\* rejectInvalidInput: nothing is sent, and the prompt is shown again.
SubmitNothing ==
  /\ Running(auth)
  /\ auth.prompt # 0 /\ auth.promptType \notin {"QrCode", "WaitPremiumPurchase"}
  /\ Call(NotifyPromptClosed(auth, stack,
       [Frame("rejecting") EXCEPT !.epoch = auth.epoch, !.state = auth.state]))

\* Mutant: a login that is complete can still be cancelled.
CancelUnchecked ==
  /\ ~auth.stopped
  /\ Call(NotifyCompletion([Invalidate(auth) EXCEPT !.completion = "cancelled"], stack))

\* cancel and cancelPrompt
Cancel ==
  /\ Running(auth)
  /\ Call(NotifyCompletion([Invalidate(auth) EXCEPT !.completion = "cancelled"], stack))

FailPrompt ==
  /\ Running(auth)
  /\ auth.prompt # 0
  /\ Call(NotifyCompletion([Invalidate(auth) EXCEPT !.completion = "failed"], stack))

\* shutdown, or the controller is destroyed.
Shutdown ==
  /\ ~auth.stopped
  /\ LET a == Stop(auth)
     IN Call(IF a.prompt = 0 THEN At(a, stack)
                             ELSE NotifyPromptClosed(a, stack, Frame("shown")))

\* Mutant: a QR link that came meanwhile does not stop the fallback.
FallsBackAnyway(a, request) ==
  /\ request.operation = "RequestQrCode"
  /\ a.mode = "qrFallback"
  /\ a.state = "WaitPhoneNumber"
  /\ ~a.fallback

\* A rejected QR request makes the login ask for the phone number instead.
FallsBack(a, request) ==
  /\ request.operation = "RequestQrCode"
  /\ a.mode = "qrFallback"
  /\ a.state = "WaitPhoneNumber"
  /\ ~a.qrFlow /\ ~a.fallback

\* handleResponse; an answer to a request that no longer counts is dropped.
Respond(request, answer) ==
  /\ request \in auth.outstanding
  /\ LET answered == [auth EXCEPT !.outstanding = @ \ {request}]
         a == [answered EXCEPT !.pending = NoRequest]
         current == Running(auth) /\ request.epoch = auth.epoch
                      /\ IsCurrentRequest(auth, request.serial)
     IN \/ /\ ~current
           /\ Call(At(answered, stack))
        \/ /\ current /\ answer = "ok"
           /\ Call(At([a EXCEPT !.acknowledged = TRUE], stack))
        \/ /\ current /\ answer = "error" /\ FallsBack(a, request)
           /\ Call(HandleChallengeState([a EXCEPT !.fallback = TRUE], stack,
                                        PhoneChallenge))
        \/ /\ current /\ answer = "error" /\ request.operation = "Submit"
           /\ Call(ReportRejection(a, stack))
        \/ /\ current /\ answer # "ok"
           /\ answer = "error" => ~FallsBack(a, request)
                                    /\ request.operation # "Submit"
           /\ Call(FailAuthorization(a, stack, a.state))

-----------------------------------------------------------------------------
(* A call-out comes back *)

Back(kind) == stack # <<>> /\ Head(stack).kind = kind

Resume(next) == Step(next) /\ UNCHANGED calls

\* onPromptShown, a lifecycle callback, or the last callback of shutdown.
ReturnToCaller ==
  /\ Back("shown") \/ Back("lifecycle")
  /\ Resume(At(auth, Tail(stack)))

ReturnEntered ==
  /\ Back("entered")
  /\ Resume(Entered(auth, Tail(stack), Head(stack)))

ReturnSubmitting ==
  /\ Back("submitting")
  /\ Resume(IF IsCurrentRequest(auth, Head(stack).serial)
            THEN SendRequest(auth, Tail(stack))
            ELSE At(auth, Tail(stack)))

ReturnRejecting ==
  /\ Back("rejecting")
  /\ Resume(IF IsCurrentState(auth, Head(stack).epoch, Head(stack).state)
            THEN ReportRejection(auth, Tail(stack))
            ELSE At(auth, Tail(stack)))

\* Mutant: the prompt is not shown again.
ReturnRejectedSilently ==
  /\ Back("rejected")
  /\ Resume(At(auth, Tail(stack)))

\* Mutant: the prompt is shown again whatever the observer did meanwhile.
ReturnRejectedUnchecked ==
  /\ Back("rejected")
  /\ Resume(IssuePrompt(auth, Tail(stack)))

ReturnRejected ==
  /\ Back("rejected")
  /\ Resume(AskAgain(auth, Tail(stack), Head(stack).epoch))

\* The sender took the request.
SenderAccepts ==
  /\ Back("sending")
  /\ Resume(At(auth, Tail(stack)))

\* The sender returns 0 or throws: it will never answer.
SenderFails ==
  /\ Back("sending")
  /\ LET serial == Head(stack).serial
         a == [auth EXCEPT !.outstanding = {r \in @ : r.serial # serial}]
     IN Resume(IF IsCurrentRequest(a, serial)
               THEN FailAuthorization([a EXCEPT !.pending = NoRequest],
                                      Tail(stack), a.state)
               ELSE At(a, Tail(stack)))

ReturnClosing ==
  /\ Back("closing")
  /\ Resume(NotifyOutcome(auth, Tail(stack), Frame("outcome")))

\* The outcome is told: the lifecycle states that came meanwhile are next.
ReturnOutcome ==
  /\ Back("outcome")
  /\ Resume(CASE Head(stack).failed ->
                   At(StopAfterObserverFailure(auth), Tail(stack))
              [] ~Head(stack).failed /\ ~auth.stopped /\ auth.queued # <<>> ->
                   CallOut(auth, Tail(stack), Frame("drain"))
              [] OTHER -> At(auth, Tail(stack)))

\* drainPendingLifecycle's loop
DrainLifecycle ==
  /\ Back("drain")
  /\ Resume(IF ~auth.stopped /\ auth.queued # <<>>
            THEN DispatchLifecycle([auth EXCEPT !.queued = Tail(@)], stack,
                                   Head(auth.queued))
            ELSE At([auth EXCEPT !.queued = <<>>], Tail(stack)))

\* The observer throws.  Afterwards every guard of the interrupted handler
\* fails, for the login is complete or the controller stopped.
ObserverThrows ==
  /\ stack # <<>>
  /\ \/ /\ Head(stack).kind \in
             {"shown", "entered", "submitting", "rejecting", "rejected", "lifecycle"}
        /\ Resume(CompleteObserverFailure(auth, Tail(stack)))
     \/ /\ Back("closing")
        /\ Resume(NotifyOutcome([auth EXCEPT !.observerFailed = TRUE], Tail(stack),
                                [Frame("outcome") EXCEPT !.failed = TRUE]))
     \/ /\ Back("outcome")
        /\ Resume(At(StopAfterObserverFailure(auth), Tail(stack)))

-----------------------------------------------------------------------------
Next ==
  \/ UpdateTdlibParameters \/ UpdatePhoneNumber \/ UpdateChallenge
  \/ \E link \in Links \cup {EmptyLink} : UpdateQrLink(link)
  \/ UpdateUnsupported \/ UpdateReady
  \/ \E state \in LifecycleStates : HandleLifecycle(state)
  \/ Submit \/ SubmitNothing \/ Cancel \/ FailPrompt \/ Shutdown
  \/ \E request \in auth.outstanding, answer \in {"ok", "error", "other"} :
       Respond(request, answer)
  \/ ReturnToCaller \/ ReturnEntered \/ ReturnSubmitting \/ ReturnRejecting
  \/ ReturnRejected \/ SenderAccepts \/ SenderFails
  \/ ReturnClosing \/ ReturnOutcome \/ DrainLifecycle \/ ObserverThrows

Spec == Init /\ [][Next]_vars

-----------------------------------------------------------------------------
(* Properties *)

\* Every variable keeps its type.
TypeOK ==
  /\ auth.mode \in Modes
  /\ auth.completion \in Completions
  /\ auth.prompt \in 0 .. auth.lastPrompt
  /\ auth.prompt = 0 <=> auth.promptType = "None"
  /\ auth.pending = NoRequest \/ auth.pending.serial \in 1 .. auth.lastSerial
  /\ auth.notified \subseteq LifecycleStates
  /\ auth.closed \subseteq 1 .. auth.lastPrompt
  /\ calls \in 0 .. MaxCalls
  /\ Len(stack) <= MaxDepth + 2

\* "Exactly one of ready, cancelled, or failed is emitted": never a second one,
\* and the right one by the time the controller has returned to its callers,
\* whatever was called, answered or thrown in the callbacks on the way. After a
\* successful login the observer hears of every lifecycle state, in the order TDLib
\* reported them, and of none before it has heard of the success.
OneOutcomeInOrder ==
  /\ Len(auth.outcomes) <= 1
  /\ auth.outcomes # <<>> => auth.outcomes = <<auth.completion>>
  /\ (stack = <<>> /\ auth.completion # "none") => auth.outcomes # <<>>
  /\ IsPrefix(auth.seen, auth.arrived)
  /\ (stack = <<>> /\ ~auth.stopped) => auth.seen = auth.arrived
  /\ \A i, j \in DOMAIN stack :
       (i < j /\ stack[i].kind = "lifecycle") => stack[j].kind \notin {"closing", "outcome"}

\* To an observer that does not throw, prompts come in pairs of shown and
\* closed: at most one is open, and it is the one the controller would accept. It is
\* open only while no request is under way, or startRequest would drop a submission
\* that submit reports as Accepted. A login that prefers QR codes shows one or asks for
\* the phone number, never both, however the answer and the link are ordered.
PromptsArePaired ==
  /\ ~auth.observerFailed => (1 .. auth.lastPrompt) \ auth.closed = {auth.prompt} \ {0}
  /\ auth.prompt # 0 => auth.pending = NoRequest
  /\ auth.mode # "phone" => ~({"QrCode", "WaitPhoneNumber"} \subseteq auth.offered)

\* The state is well formed, and while the login goes on, somebody has the next move
\* once the controller has returned: the user a prompt, the sender a request whose
\* answer will count (it belongs to the state's epoch), or TDLib an acknowledged one.
NeverStuck ==
  /\ TypeOK
  /\ stack = <<>> /\ Running(auth) /\ auth.state # "None" =>
       \/ auth.prompt # 0
       \/ auth.pending \in auth.outstanding /\ auth.pending.epoch = auth.epoch
       \/ auth.acknowledged

\* The observer's view of the login is the one LoginContract promises.
Login == INSTANCE LoginContract WITH
  shown <- auth.lastPrompt, open <- auth.prompt, stopped <- auth.stopped,
  outcome <- IF auth.outcomes = <<>> THEN "none" ELSE Head(auth.outcomes)
KeepsLoginContract == Login!Spec
=============================================================================
