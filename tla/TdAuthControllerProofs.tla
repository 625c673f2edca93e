------------------------- MODULE TdAuthControllerProofs -------------------------
(***************************************************************************)
(* Prompts are paired, one outcome is told and then the lifecycle states in *)
(* order, and somebody always has the next move, however deep the           *)
(* observer's and the sender's calls into the controller are nested, and    *)
(* however many there are.                                                  *)
(*                                                                         *)
(* The invariants are stated of a control point, its members a and its      *)
(* stack of frames, and there is one lemma for each operator that makes     *)
(* one.  IInv is about the prompts.  TInv adds what the observer has yet to *)
(* hear, and what a login that goes on is waiting for.                      *)
(***************************************************************************)
EXTENDS TdAuthController, TLAPS

States ==
  {"None", "Unknown", "WaitTdlibParameters", "WaitPhoneNumber",
   "WaitOtherDeviceConfirmation", "Ready"} \cup LifecycleStates \cup ChallengeStates

Challenges == {NoChallenge, PhoneChallenge} \cup [type : ChallengeStates, detail : Details]
LinkChallenges == [type : {"QrCode"}, detail : Links]
Requests ==
  [serial : Nat, operation : {"None", "Submit", "RequestQrCode", "SetTdlibParameters"},
   epoch : Nat]
PromptTypes == {"None", "QrCode", "WaitPhoneNumber"} \cup ChallengeStates

Members ==
  [mode : Modes, valid : BOOLEAN, stopped : BOOLEAN, completion : Completions,
   state : States, epoch : Nat, challenge : Challenges,
   prompt : Nat, promptType : PromptTypes, link : Links \cup {EmptyLink},
   lastPrompt : Nat, qrRequested : BOOLEAN, qrFlow : BOOLEAN, fallback : BOOLEAN,
   pending : Requests, lastSerial : Nat,
   notified : SUBSET LifecycleStates, queued : Seq(LifecycleStates),
   outstanding : SUBSET Requests, acknowledged : BOOLEAN,
   closed : SUBSET Nat, offered : SUBSET PromptTypes, rejections : Nat,
   outcomes : Seq(Completions), arrived : Seq(LifecycleStates),
   seen : Seq(LifecycleStates), observerFailed : BOOLEAN]

Kinds ==
  {"shown", "entered", "submitting", "rejecting", "rejected", "sending", "closing",
   "outcome", "lifecycle", "drain"}

Frames ==
  [kind : Kinds, epoch : Nat, state : States,
   then : Challenges \cup LinkChallenges \cup {RequestQrCode, SetTdlibParameters},
   serial : Nat, failed : BOOLEAN]

\* The controller would rather show a QR code than ask for a number.
PrefersQr(a) == a.mode # "phone" /\ ~a.fallback

--------------------------------------------------------------------------------
(* The invariant *)

\* The prompt shown last is open or closed, and all others are closed.
PromptsKnown(a) ==
  /\ a.prompt <= a.lastPrompt
  /\ \A p \in a.closed : p \in 1 .. a.lastPrompt
  /\ ~a.observerFailed => \A p \in 1 .. a.lastPrompt : p \in a.closed <=> p # a.prompt

\* A link commits the login to QR codes, the fallback to the number, and there is
\* never both.  The challenge is the one of the state.
QrOrPhone(a) ==
  /\ ~(a.qrFlow /\ a.fallback)
  /\ "QrCode" \in a.offered => a.qrFlow
  /\ "WaitPhoneNumber" \in a.offered => ~PrefersQr(a)
  /\ a.challenge.type = "WaitPhoneNumber" => ~PrefersQr(a)
  /\ a.challenge = NoChallenge \/ a.challenge.type = a.state

OutcomeOK(a) ==
  \/ a.outcomes = <<>>
  \/ a.completion # "none" /\ a.outcomes = <<a.completion>>

\* What holds even of an open prompt that is about to be closed.
Sound(a) == a \in Members /\ PromptsKnown(a) /\ QrOrPhone(a) /\ OutcomeOK(a)

\* An open prompt waits for the user: no request is under way beside it.
Presented(a) ==
  a.prompt # 0 =>
    /\ Running(a)
    /\ a.pending = NoRequest
    /\ a.state = "WaitPhoneNumber" => ~PrefersQr(a)

MembersOK(a) == Sound(a) /\ Presented(a)

\* What follows a state that was entered is the state's own business.
EntersWith(a, state, then) ==
  \/ state = "WaitTdlibParameters" /\ then = SetTdlibParameters
  \/ state = "WaitPhoneNumber" /\ then = RequestQrCode
  \/ state = "WaitOtherDeviceConfirmation" /\ then \in LinkChallenges /\ a.qrFlow
  \/ /\ then \in Challenges \ {NoChallenge} /\ then.type = state
     /\ state = "WaitPhoneNumber" => ~PrefersQr(a)

\* A state entered waits for the old prompt to be closed: nothing is asked for yet.
Expects(a, f) ==
  /\ a.prompt = 0 /\ a.challenge = NoChallenge
  /\ a.pending = NoRequest \/ (f.then = RequestQrCode /\ a.qrRequested)

FrameOK(a, f) ==
  /\ f \in Frames
  /\ f.kind = "entered" =>
       /\ f.epoch <= a.epoch
       /\ EntersWith(a, f.state, f.then)
       /\ IsCurrentState(a, f.epoch, f.state) => Expects(a, f)
  /\ f.kind = "closing" => a.completion # "none" /\ a.outcomes = <<>>

\* Two frames never wait for the same thing.
Apart(f, g) ==
  /\ f.kind = "entered" /\ g.kind = "entered" => f.epoch # g.epoch
  /\ f.kind = "closing" => g.kind # "closing"

FramesOK(a, frames) ==
  /\ frames \in Seq(Frames)
  /\ \A i \in 1 .. Len(frames) : FrameOK(a, frames[i])
  /\ \A i, j \in 1 .. Len(frames) : i # j => Apart(frames[i], frames[j])

IInv == MembersOK(auth) /\ FramesOK(auth, stack)

--------------------------------------------------------------------------------
(* What the observer sees of a step *)

Unseen(a, b) ==
  /\ b.lastPrompt = a.lastPrompt /\ b.prompt = a.prompt
  /\ b.outcomes = a.outcomes /\ b.stopped = a.stopped

Shown(a, b) ==
  /\ a.prompt = 0 /\ a.outcomes = <<>> /\ ~a.stopped
  /\ b.lastPrompt = a.lastPrompt + 1 /\ b.prompt = b.lastPrompt
  /\ b.outcomes = a.outcomes /\ b.stopped = a.stopped

Closed(a, b) ==
  /\ a.prompt # 0 /\ b.prompt = 0
  /\ b.lastPrompt = a.lastPrompt
  /\ b.outcomes = a.outcomes /\ b.stopped = a.stopped

Finished(a, b) ==
  /\ a.prompt = 0 /\ b.prompt = 0 /\ a.outcomes = <<>>
  /\ \E r \in {"ready", "cancelled", "failed"} : b.outcomes = <<r>>
  /\ b.lastPrompt = a.lastPrompt /\ b.stopped = a.stopped

Stopped(a, b) ==
  /\ ~a.stopped /\ b.stopped /\ b.prompt = 0
  /\ b.lastPrompt = a.lastPrompt /\ b.outcomes = a.outcomes

ContractStep(a, b) ==
  Unseen(a, b) \/ Shown(a, b) \/ Closed(a, b) \/ Finished(a, b) \/ Stopped(a, b)

\* From members a the controller has come to the control point c.
Safe(a, c) == MembersOK(c.auth) /\ FramesOK(c.auth, c.stack) /\ ContractStep(a, c.auth)

--------------------------------------------------------------------------------
(* Frames *)

\* Members b leave the frames what they were waiting for in a.
Follows(a, b, frames) ==
  /\ b.mode = a.mode /\ (a.qrFlow => b.qrFlow) /\ (a.fallback => b.fallback)
  /\ a.epoch <= b.epoch
  /\ a.completion # "none" => b.completion # "none"
  /\ \/ b.outcomes = a.outcomes
     \/ \A i \in 1 .. Len(frames) : frames[i].kind # "closing"
  /\ \A i \in 1 .. Len(frames) :
       frames[i].kind = "entered" /\ IsCurrentState(b, frames[i].epoch, frames[i].state)
         => Expects(b, frames[i])

\* No state that was entered still waits for its turn.
NobodyWaits(a, frames) ==
  \A i \in 1 .. Len(frames) :
    frames[i].kind = "entered" => ~IsCurrentState(a, frames[i].epoch, frames[i].state)

LEMMA FramesFollow ==
  ASSUME NEW a, NEW b, NEW frames, a \in Members, b \in Members,
         FramesOK(a, frames), Follows(a, b, frames)
  PROVE  FramesOK(b, frames)
<1>1. ASSUME NEW i \in 1 .. Len(frames)
      PROVE  FrameOK(b, frames[i])
  <2>1. FrameOK(a, frames[i])
    BY DEF FramesOK
  <2>2. frames[i].kind = "entered" => frames[i].epoch <= b.epoch
    <3>1. frames[i].epoch \in Nat /\ a.epoch \in Nat /\ b.epoch \in Nat
      BY <2>1 DEF FrameOK, Frames, Members
    <3> QED
      BY <2>1, <3>1 DEF FrameOK, Follows
  <2>3. frames[i].kind = "entered" => EntersWith(b, frames[i].state, frames[i].then)
    BY <2>1 DEF FrameOK, Follows, EntersWith, PrefersQr
  <2>4. frames[i].kind = "closing" => b.completion # "none" /\ b.outcomes = <<>>
    BY <2>1 DEF FrameOK, Follows
  <2> QED
    BY <2>1, <2>2, <2>3, <2>4 DEF FrameOK, Follows
<1> QED
  BY <1>1 DEF FramesOK

LEMMA PushFrame ==
  ASSUME NEW a, NEW frames, NEW f, FramesOK(a, frames), FrameOK(a, f),
         \A i \in 1 .. Len(frames) : Apart(f, frames[i]) /\ Apart(frames[i], f)
  PROVE  FramesOK(a, <<f>> \o frames)
<1> DEFINE more == <<f>> \o frames
<1>1. /\ more \in Seq(Frames) /\ Len(more) = Len(frames) + 1 /\ more[1] = f
      /\ \A i \in 2 .. Len(more) : i - 1 \in 1 .. Len(frames) /\ more[i] = frames[i - 1]
  BY DEF FramesOK, FrameOK
<1>2. ASSUME NEW i \in 1 .. Len(more) PROVE FrameOK(a, more[i])
  <2>1. CASE i = 1
    BY <1>1, <2>1
  <2>2. CASE i # 1
    BY <1>1, <2>2 DEF FramesOK
  <2> QED
    BY <2>1, <2>2
<1>3. ASSUME NEW i \in 1 .. Len(more), NEW j \in 1 .. Len(more), i # j
      PROVE  Apart(more[i], more[j])
  <2>1. CASE i = 1
    BY <1>1, <1>3, <2>1
  <2>2. CASE j = 1
    BY <1>1, <1>3, <2>2
  <2>3. CASE i # 1 /\ j # 1
    <3>1. i - 1 \in 1 .. Len(frames) /\ j - 1 \in 1 .. Len(frames) /\ i - 1 # j - 1
      BY <1>1, <1>3, <2>3
    <3> QED
      BY <1>1, <2>3, <3>1 DEF FramesOK
  <2> QED
    BY <2>1, <2>2, <2>3
<1> QED
  BY <1>1, <1>2, <1>3 DEF FramesOK

LEMMA PopFrame ==
  ASSUME NEW a, NEW frames, FramesOK(a, frames), frames # <<>>
  PROVE  /\ FramesOK(a, Tail(frames)) /\ FrameOK(a, Head(frames))
         /\ \A i \in 1 .. Len(Tail(frames)) : Apart(Head(frames), Tail(frames)[i])
<1>1. /\ Tail(frames) \in Seq(Frames) /\ Len(Tail(frames)) = Len(frames) - 1
      /\ Head(frames) = frames[1] /\ 1 \in 1 .. Len(frames)
      /\ \A i \in 1 .. Len(Tail(frames)) : i + 1 \in 1 .. Len(frames)
                                           /\ Tail(frames)[i] = frames[i + 1]
  BY DEF FramesOK
<1>2. ASSUME NEW i \in 1 .. Len(Tail(frames)), NEW j \in 1 .. Len(Tail(frames)), i # j
      PROVE  Apart(Tail(frames)[i], Tail(frames)[j])
  <2>1. i + 1 # j + 1
    BY <1>1, <1>2
  <2> QED
    BY <1>1, <2>1 DEF FramesOK
<1>3. \A i \in 1 .. Len(Tail(frames)) : FrameOK(a, Tail(frames)[i])
  BY <1>1 DEF FramesOK
<1>4. \A i \in 1 .. Len(Tail(frames)) : Apart(Head(frames), Tail(frames)[i])
  <2> TAKE i \in 1 .. Len(Tail(frames))
  <2>1. 1 # i + 1
    BY <1>1
  <2> QED
    BY <1>1, <2>1 DEF FramesOK
<1>5. FramesOK(a, Tail(frames))
  BY <1>1, <1>2, <1>3 DEF FramesOK
<1> QED
  BY <1>1, <1>4, <1>5 DEF FramesOK

\* Members b are in a later epoch than a, are done, or differ in nothing that a
\* frame waits for.
Later(a, b) ==
  /\ b.mode = a.mode /\ (a.qrFlow => b.qrFlow) /\ (a.fallback => b.fallback)
  /\ a.completion # "none" => b.completion # "none"
  /\ b.outcomes = a.outcomes
  /\ \/ b.epoch = a.epoch + 1
     \/ b.epoch = a.epoch /\ ~Running(b)
     \/ /\ b.epoch = a.epoch /\ b.state = a.state /\ (Running(b) => Running(a))
        /\ b.prompt = a.prompt /\ b.challenge = a.challenge
        /\ b.pending = a.pending \/ b.pending = NoRequest
        /\ b.qrRequested = a.qrRequested

LEMMA LaterFrames ==
  ASSUME NEW a, NEW b, NEW frames, a \in Members, b \in Members,
         FramesOK(a, frames), Later(a, b)
  PROVE  FramesOK(b, frames)
<1>1. a.epoch \in Nat /\ b.epoch \in Nat
  BY DEF Members
<1>2. ASSUME NEW i \in 1 .. Len(frames), frames[i].kind = "entered",
             IsCurrentState(b, frames[i].epoch, frames[i].state)
      PROVE  Expects(b, frames[i])
  <2>1. FrameOK(a, frames[i]) /\ frames[i].epoch \in Nat
    BY DEF FramesOK, FrameOK, Frames
  <2>2. b.epoch # a.epoch + 1 /\ Running(b)
    BY <1>1, <1>2, <2>1 DEF FrameOK, IsCurrentState
  <2>3. IsCurrentState(a, frames[i].epoch, frames[i].state)
    BY <1>2, <2>2 DEF Later, IsCurrentState
  <2> QED
    BY <1>2, <2>1, <2>2, <2>3 DEF Later, FrameOK, Expects
<1>3. a.epoch <= b.epoch
  BY <1>1 DEF Later
<1>4. Follows(a, b, frames)
  BY <1>2, <1>3 DEF Later, Follows
<1> QED
  BY <1>4, FramesFollow

--------------------------------------------------------------------------------
(* Operators *)

LEMMA Defaults ==
  /\ NoRequest \in Requests /\ NoChallenge \in Challenges /\ "None" \in PromptTypes
  /\ NoRequest.serial = 0 /\ NoChallenge.type = "None"
  /\ EmptyLink \in Links \cup {EmptyLink}
  /\ \A kind \in Kinds : Frame(kind) \in Frames /\ Frame(kind).kind = kind
BY DEF NoRequest, Requests, NoChallenge, Challenges, PromptTypes, Frame, Frames, States

LEMMA NextStateTypes ==
  ASSUME NEW a \in Members, NEW state \in States
  PROVE  Invalidate(a) \in Members /\ NextState(a, state) \in Members
<1>1. Invalidate(a) \in Members
  <2>1. a.epoch + 1 \in Nat
    BY DEF Members
  <2>2. \A n \in Nat, r \in Requests : [a EXCEPT !.epoch = n, !.pending = r] \in Members
    BY ZenonT(40) DEF Members
  <2> QED
    BY <2>1, <2>2, Defaults DEF Invalidate
<1>2. \A b \in Members : [b EXCEPT !.state = state, !.challenge = NoChallenge,
                                   !.acknowledged = FALSE] \in Members
  BY Defaults, ZenonT(40) DEF Members
<1> QED
  BY <1>1, <1>2 DEF NextState

LEMMA StopTypes ==
  ASSUME NEW a \in Members
  PROVE  Stop(a) \in Members /\ DiscardPrompt(a) \in Members
<1>1. a.state \in States
  BY DEF Members
<1>2. \A b \in Members : [b EXCEPT !.stopped = TRUE, !.challenge = NoChallenge,
                                   !.queued = <<>>] \in Members
  <2>1. <<>> \in Seq(LifecycleStates)
    OBVIOUS
  <2>2. \A b \in Members, c \in Challenges, q \in Seq(LifecycleStates) :
          [b EXCEPT !.stopped = TRUE, !.challenge = c, !.queued = q] \in Members
    BY ZenonT(40) DEF Members
  <2> QED
    BY <2>1, <2>2, Defaults
<1>3. Stop(a) \in Members
  <2>1. CASE a.stopped
    BY <1>2, <2>1 DEF Stop
  <2>2. CASE ~a.stopped
    BY <1>1, <1>2, <2>2, NextStateTypes DEF Stop
  <2> QED
    BY <2>1, <2>2
<1>4. DiscardPrompt(a) \in Members
  BY Defaults, ZenonT(40) DEF Members, DiscardPrompt
<1> QED
  BY <1>3, <1>4

LEMMA UnseenFirst ==
  ASSUME NEW a, NEW b, NEW c, Unseen(a, b), ContractStep(b, c)
  PROVE  ContractStep(a, c)
BY DEF Unseen, ContractStep, Shown, Closed, Finished, Stopped

\* A frame that may wait for the prompt to be closed.
MayWait(a, f) ==
  /\ f.kind = "entered" =>
       /\ f.epoch <= a.epoch /\ EntersWith(a, f.state, f.then)
       /\ a.challenge = NoChallenge /\ a.pending = NoRequest
  /\ f.kind = "closing" => a.completion # "none" /\ a.outcomes = <<>>

LEMMA ClosePrompt ==
  ASSUME NEW a, NEW frames, NEW f, Sound(a), FramesOK(a, frames), a.prompt # 0,
         f \in Frames, MayWait(a, f),
         \A i \in 1 .. Len(frames) : Apart(f, frames[i]) /\ Apart(frames[i], f)
  PROVE  /\ Safe(a, NotifyPromptClosed(a, frames, f))
         /\ Closed(a, NotifyPromptClosed(a, frames, f).auth)
<1> DEFINE b == [DiscardPrompt(a) EXCEPT !.closed = @ \cup {a.prompt}]
<1>1. b \in Members
  BY ZenonT(40) DEF Sound, Members, DiscardPrompt, PromptTypes
<1>2. /\ b.prompt = 0 /\ b.lastPrompt = a.lastPrompt /\ b.observerFailed = a.observerFailed
      /\ b.closed = a.closed \cup {a.prompt} /\ b.mode = a.mode /\ b.fallback = a.fallback
      /\ b.qrFlow = a.qrFlow /\ b.offered = a.offered /\ b.challenge = a.challenge
      /\ b.state = a.state /\ b.outcomes = a.outcomes /\ b.completion = a.completion
      /\ b.epoch = a.epoch /\ b.stopped = a.stopped /\ b.pending = a.pending
      /\ b.qrRequested = a.qrRequested
  BY DEF Sound, Members, DiscardPrompt
<1>3. PromptsKnown(b)
  <2>1. a.prompt \in 1 .. a.lastPrompt /\ a.lastPrompt \in Nat
    BY DEF Sound, PromptsKnown, Members
  <2> QED
    BY <1>2, <2>1 DEF Sound, PromptsKnown
<1>4. MembersOK(b)
  BY <1>1, <1>2, <1>3 DEF Sound, MembersOK, QrOrPhone, PrefersQr, OutcomeOK, Presented
<1> HIDE DEF b
<1>5. FrameOK(b, f)
  <2>1. EntersWith(a, f.state, f.then) => EntersWith(b, f.state, f.then)
    BY <1>2 DEF EntersWith, PrefersQr
  <2> QED
    BY <1>2, <2>1 DEF MayWait, FrameOK, Expects
<1>6. Follows(a, b, frames)
  <2>1. ASSUME NEW i \in 1 .. Len(frames), frames[i].kind = "entered"
        PROVE  ~IsCurrentState(b, frames[i].epoch, frames[i].state)
    BY <1>2, <2>1 DEF FramesOK, FrameOK, Expects, IsCurrentState, Running
  <2>2. a.epoch \in Nat
    BY DEF Sound, Members
  <2> QED
    BY <1>2, <2>1, <2>2 DEF Follows
<1>7. FramesOK(b, frames)
  BY <1>1, <1>6, FramesFollow DEF Sound
<1>8. FramesOK(b, <<f>> \o frames)
  BY <1>5, <1>7, PushFrame
<1>9. Closed(a, b)
  BY <1>2 DEF Closed
<1> QED
  BY <1>4, <1>8, <1>9 DEF b, NotifyPromptClosed, CallOut, At, Safe, ContractStep

LEMMA TellOutcome ==
  ASSUME NEW a, NEW frames, NEW f, MembersOK(a), FramesOK(a, frames),
         a.prompt = 0, a.completion # "none", a.outcomes = <<>>,
         \A i \in 1 .. Len(frames) : frames[i].kind # "closing",
         f \in Frames, f.kind = "outcome"
  PROVE  Safe(a, NotifyOutcome(a, frames, f))
<1> DEFINE told == Append(a.outcomes, a.completion)
           b == [a EXCEPT !.outcomes = told]
<1>1. b \in Members
  <2>1. a.outcomes \in Seq(Completions) /\ a.completion \in Completions
    BY DEF MembersOK, Sound, Members
  <2>2. told \in Seq(Completions)
    BY <2>1
  <2> HIDE DEF told
  <2> QED
    BY <2>2 DEF MembersOK, Sound, Members
<1>2. /\ b.outcomes = <<a.completion>>
      /\ b.prompt = a.prompt /\ b.lastPrompt = a.lastPrompt
      /\ b.observerFailed = a.observerFailed /\ b.closed = a.closed /\ b.mode = a.mode
      /\ b.fallback = a.fallback /\ b.qrFlow = a.qrFlow /\ b.offered = a.offered
      /\ b.challenge = a.challenge /\ b.state = a.state /\ b.completion = a.completion
      /\ b.epoch = a.epoch /\ b.stopped = a.stopped /\ b.pending = a.pending
      /\ b.qrRequested = a.qrRequested
  BY DEF MembersOK, Sound, Members
<1>3. a.completion \in Completions /\ a.epoch \in Nat
  BY DEF MembersOK, Sound, Members
<1> HIDE DEF b
<1>4. MembersOK(b)
  BY <1>1, <1>2 DEF MembersOK, Sound, PromptsKnown, QrOrPhone, PrefersQr, OutcomeOK,
    Presented
<1>5. ~Running(b)
  BY <1>2 DEF Running
<1>6. FramesOK(b, frames)
  <2>1. Follows(a, b, frames)
    BY <1>2, <1>3, <1>5 DEF Follows, IsCurrentState
  <2> QED
    BY <1>1, <2>1, FramesFollow DEF MembersOK, Sound
<1>7. FramesOK(b, <<f>> \o frames)
  BY <1>6, PushFrame DEF FrameOK, Apart
<1>8. Finished(a, b)
  BY <1>2, <1>3 DEF Finished, Completions
<1> QED
  BY <1>4, <1>7, <1>8 DEF b, NotifyOutcome, CallOut, At, Safe, ContractStep

LEMMA TellCompletion ==
  ASSUME NEW a, NEW frames, Sound(a), FramesOK(a, frames),
         a.completion # "none", a.outcomes = <<>>,
         \A i \in 1 .. Len(frames) : frames[i].kind # "closing"
  PROVE  Safe(a, NotifyCompletion(a, frames))
<1>1. CASE a.prompt = 0
  <2>1. MembersOK(a)
    BY <1>1 DEF MembersOK, Presented
  <2>2. Frame("outcome") \in Frames /\ Frame("outcome").kind = "outcome"
    BY Defaults DEF Kinds
  <2> QED
    BY <1>1, <2>1, <2>2, TellOutcome DEF NotifyCompletion
<1>2. CASE a.prompt # 0
  <2>1. Frame("closing") \in Frames /\ Frame("closing").kind = "closing"
    BY Defaults DEF Kinds
  <2>2. MayWait(a, Frame("closing"))
    BY <2>1 DEF MayWait
  <2>3. \A i \in 1 .. Len(frames) :
          Apart(Frame("closing"), frames[i]) /\ Apart(frames[i], Frame("closing"))
    BY <2>1 DEF Apart
  <2> QED
    BY <1>2, <2>1, <2>2, <2>3, ClosePrompt DEF NotifyCompletion
<1> QED
  BY <1>1, <1>2

\* A login that goes on has told no outcome, and is about to tell none.
LEMMA NoneTold ==
  ASSUME NEW a, NEW frames, MembersOK(a), FramesOK(a, frames), a.completion = "none"
  PROVE  a.outcomes = <<>> /\ \A i \in 1 .. Len(frames) : frames[i].kind # "closing"
BY DEF MembersOK, Sound, OutcomeOK, FramesOK, FrameOK

\* Members b are those of a login that has just ended, in a new epoch.
Ends(a, b) ==
  /\ a.completion = "none" /\ b.completion # "none" /\ b.epoch = a.epoch + 1
  /\ b.prompt = a.prompt /\ b.lastPrompt = a.lastPrompt
  /\ b.observerFailed = a.observerFailed /\ b.closed = a.closed
  /\ b.mode = a.mode /\ b.fallback = a.fallback /\ b.qrFlow = a.qrFlow
  /\ b.offered = a.offered /\ b.outcomes = a.outcomes /\ b.stopped = a.stopped
  /\ \/ b.challenge = NoChallenge
     \/ b.challenge = a.challenge /\ b.state = a.state

LEMMA Complete ==
  ASSUME NEW a, NEW b \in Members, NEW frames, MembersOK(a), FramesOK(a, frames),
         Ends(a, b)
  PROVE  Safe(a, NotifyCompletion(b, frames))
<1>1. a.outcomes = <<>> /\ \A i \in 1 .. Len(frames) : frames[i].kind # "closing"
  BY NoneTold DEF Ends
<1>2. Sound(b)
  BY <1>1 DEF Ends, MembersOK, Sound, PromptsKnown, QrOrPhone, PrefersQr,
    OutcomeOK, NoChallenge
<1>3. FramesOK(b, frames)
  BY LaterFrames DEF Ends, Later, MembersOK, Sound
<1>4. Safe(b, NotifyCompletion(b, frames))
  BY <1>1, <1>2, <1>3, TellCompletion DEF Ends
<1>5. Unseen(a, b)
  BY DEF Ends, Unseen
<1> QED
  BY <1>4, <1>5, UnseenFirst DEF Safe

LEMMA Fail ==
  ASSUME NEW a, NEW frames, NEW state \in States, MembersOK(a), FramesOK(a, frames)
  PROVE  Safe(a, FailAuthorization(a, frames, state))
<1>1. CASE ~Running(a)
  BY <1>1 DEF FailAuthorization, At, Safe, ContractStep, Unseen
<1>2. CASE Running(a)
  <2> DEFINE b == [NextState(a, state) EXCEPT !.completion = "failed"]
  <2>1. b \in Members
    <3>1. \A c \in Members : [c EXCEPT !.completion = "failed"] \in Members
      BY ZenonT(40) DEF Members, Completions
    <3> QED
      BY <3>1, NextStateTypes DEF MembersOK, Sound
  <2>2. /\ b.outcomes = a.outcomes /\ b.completion = "failed" /\ b.challenge = NoChallenge
        /\ b.prompt = a.prompt /\ b.lastPrompt = a.lastPrompt
        /\ b.observerFailed = a.observerFailed /\ b.closed = a.closed
        /\ b.mode = a.mode /\ b.fallback = a.fallback /\ b.qrFlow = a.qrFlow
        /\ b.offered = a.offered /\ b.epoch = a.epoch + 1 /\ b.stopped = a.stopped
    BY DEF MembersOK, Sound, Members, NextState, Invalidate
  <2> HIDE DEF b
  <2>3. Ends(a, b)
    BY <1>2, <2>2 DEF Ends, Running
  <2>4. Safe(a, NotifyCompletion(b, frames))
    BY <2>1, <2>3, Complete
  <2> QED
    BY <1>2, <2>4 DEF b, FailAuthorization
<1> QED
  BY <1>1, <1>2

\* The controller is stopped, and its prompt forgotten.
LEMMA StopSilently ==
  ASSUME NEW a, NEW frames, MembersOK(a), FramesOK(a, frames)
  PROVE  Safe(a, At(StopAfterObserverFailure(a), frames))
<1> DEFINE b == StopAfterObserverFailure(a)
<1>1. b \in Members
  <2>1. \A c \in Members : [c EXCEPT !.observerFailed = TRUE] \in Members
    BY ZenonT(40) DEF Members
  <2> QED
    BY <2>1, StopTypes DEF MembersOK, Sound, StopAfterObserverFailure
<1>2. /\ b.outcomes = a.outcomes /\ b.completion = a.completion
      /\ b.challenge = NoChallenge /\ b.prompt = 0 /\ b.lastPrompt = a.lastPrompt
      /\ b.observerFailed /\ b.closed = a.closed
      /\ b.mode = a.mode /\ b.fallback = a.fallback /\ b.qrFlow = a.qrFlow
      /\ b.offered = a.offered /\ b.stopped /\ b.epoch \in {a.epoch, a.epoch + 1}
      /\ a.stopped \in BOOLEAN
  BY DEF MembersOK, Sound, Members, StopAfterObserverFailure, DiscardPrompt, Stop,
    Invalidate
<1>3. a.lastPrompt \in Nat
  BY DEF MembersOK, Sound, Members
<1> HIDE DEF b
<1>4. MembersOK(b)
  BY <1>1, <1>2, <1>3 DEF MembersOK, Sound, PromptsKnown, QrOrPhone, PrefersQr,
    OutcomeOK, Presented, NoChallenge
<1>5. FramesOK(b, frames)
  BY <1>1, <1>2, LaterFrames DEF Later, MembersOK, Sound, Running
<1>6. ContractStep(a, b)
  BY <1>2 DEF MembersOK, Presented, Running, ContractStep, Unseen, Stopped
<1> QED
  BY <1>4, <1>5, <1>6 DEF b, Safe, At

LEMMA ObserverFails ==
  ASSUME NEW a, NEW frames, MembersOK(a), FramesOK(a, frames)
  PROVE  Safe(a, CompleteObserverFailure(a, frames))
<1>1. CASE ~Running(a)
  BY <1>1, StopSilently DEF CompleteObserverFailure
<1>2. CASE Running(a)
  <2> DEFINE b == [a EXCEPT !.observerFailed = TRUE]
  <2>1. b \in Members /\ b.observerFailed
    BY DEF MembersOK, Sound, Members
  <2>2. /\ b.outcomes = a.outcomes /\ b.completion = a.completion
        /\ b.challenge = a.challenge /\ b.prompt = a.prompt
        /\ b.lastPrompt = a.lastPrompt /\ b.closed = a.closed
        /\ b.mode = a.mode /\ b.fallback = a.fallback /\ b.qrFlow = a.qrFlow
        /\ b.offered = a.offered /\ b.epoch = a.epoch /\ b.stopped = a.stopped
        /\ b.state = a.state /\ b.pending = a.pending /\ b.qrRequested = a.qrRequested
    BY DEF MembersOK, Sound, Members
  <2>3. a.state \in States
    BY DEF MembersOK, Sound, Members
  <2> HIDE DEF b
  <2>4. MembersOK(b)
    BY <2>1, <2>2 DEF MembersOK, Sound, PromptsKnown, QrOrPhone, PrefersQr, OutcomeOK,
      Presented, Running
  <2>5. FramesOK(b, frames)
    BY <2>1, <2>2, LaterFrames DEF Later, MembersOK, Sound, Running
  <2>6. Safe(b, FailAuthorization(b, frames, a.state))
    BY <2>3, <2>4, <2>5, Fail
  <2>7. Unseen(a, b)
    BY <2>2 DEF Unseen
  <2> QED
    BY <1>2, <2>6, <2>7, UnseenFirst DEF b, CompleteObserverFailure, Safe
<1> QED
  BY <1>1, <1>2

\* A frame that waits for nothing goes on top of any others.
LEMMA PushCall ==
  ASSUME NEW a, NEW frames, NEW f \in Frames, FramesOK(a, frames),
         f.kind \notin {"entered", "closing"}
  PROVE  FramesOK(a, <<f>> \o frames)
BY PushFrame DEF FrameOK, Apart

\* What waits in an epoch has nothing to ask for: no prompt is shown before it.
LEMMA Issue ==
  ASSUME NEW a, NEW frames, MembersOK(a), FramesOK(a, frames), a.pending = NoRequest
  PROVE  Safe(a, IssuePrompt(a, frames))
<1>1. CASE ~(Running(a) /\ a.challenge # NoChallenge /\ a.prompt = 0)
  BY <1>1 DEF IssuePrompt, At, Safe, ContractStep, Unseen
<1>2. CASE Running(a) /\ a.challenge # NoChallenge /\ a.prompt = 0
  <2> DEFINE b == [a EXCEPT !.prompt = a.lastPrompt + 1, !.lastPrompt = @ + 1,
                            !.promptType = a.challenge.type,
                            !.offered = @ \cup {a.challenge.type},
                            !.acknowledged = FALSE]
  <2>1. b \in Members
    <3>1. a.lastPrompt + 1 \in Nat
      BY DEF MembersOK, Sound, Members
    <3>2. a.challenge.type \in PromptTypes /\ a.offered \in SUBSET PromptTypes
      <4>1. a.challenge \in Challenges /\ a.offered \in SUBSET PromptTypes
        BY DEF MembersOK, Sound, Members
      <4> QED
        BY <4>1 DEF Challenges, PromptTypes, NoChallenge, PhoneChallenge
    <3>3. a.offered \cup {a.challenge.type} \in SUBSET PromptTypes
      BY <3>2
    <3> QED
      BY <3>1, <3>2, <3>3 DEF MembersOK, Sound, Members
  <2>2. /\ b.prompt = a.lastPrompt + 1 /\ b.lastPrompt = a.lastPrompt + 1
        /\ b.offered = a.offered \cup {a.challenge.type}
        /\ b.outcomes = a.outcomes /\ b.completion = a.completion
        /\ b.challenge = a.challenge /\ b.closed = a.closed
        /\ b.observerFailed = a.observerFailed
        /\ b.mode = a.mode /\ b.fallback = a.fallback /\ b.qrFlow = a.qrFlow
        /\ b.epoch = a.epoch /\ b.stopped = a.stopped /\ b.pending = a.pending
        /\ b.state = a.state /\ b.qrRequested = a.qrRequested
        /\ a.lastPrompt \in Nat /\ a.epoch \in Nat
    BY DEF MembersOK, Sound, Members
  <2>3. a.challenge.type = a.state /\ a.challenge.type # "QrCode"
    BY <1>2, ChallengeStatesAssumption
    DEF MembersOK, Sound, Members, QrOrPhone, Challenges, PhoneChallenge
  <2> HIDE DEF b
  <2>4. PromptsKnown(b)
    <3>1. \A p \in 1 .. b.lastPrompt : p = b.prompt \/ p \in 1 .. a.lastPrompt
      BY <2>2
    <3>2. b.prompt \notin 1 .. a.lastPrompt /\ 0 \notin 1 .. a.lastPrompt
      BY <2>2
    <3>3. b.prompt <= b.lastPrompt /\ \A p \in 1 .. a.lastPrompt : p \in 1 .. b.lastPrompt
      BY <2>2
    <3> QED
      BY <1>2, <2>2, <3>1, <3>2, <3>3 DEF MembersOK, Sound, PromptsKnown
  <2>5. QrOrPhone(b)
    BY <2>2, <2>3 DEF MembersOK, Sound, QrOrPhone, PrefersQr
  <2>6. MembersOK(b)
    BY <1>2, <2>1, <2>2, <2>3, <2>4, <2>5
    DEF MembersOK, Sound, QrOrPhone, OutcomeOK, Presented, Running, PrefersQr
  <2>7. FramesOK(b, frames)
    <3>1. \A i \in 1 .. Len(frames) :
            frames[i].kind = "entered" => ~IsCurrentState(b, frames[i].epoch, frames[i].state)
      BY <1>2, <2>2 DEF FramesOK, FrameOK, Expects, IsCurrentState, Running
    <3>2. Follows(a, b, frames)
      BY <2>2, <3>1 DEF Follows
    <3> QED
      BY <2>1, <3>2, FramesFollow DEF MembersOK, Sound
  <2>8. FramesOK(b, <<Frame("shown")>> \o frames)
    BY <2>7, Defaults, PushCall DEF Kinds
  <2>9. Shown(a, b)
    BY <1>2, <2>2 DEF MembersOK, Sound, OutcomeOK, Running, Shown
  <2> QED
    BY <1>2, <2>6, <2>8, <2>9 DEF b, IssuePrompt, CallOut, At, Safe, ContractStep
<1> QED
  BY <1>1, <1>2

\* Members b differ from a in nothing that the invariant or the observer sees.
Alike(a, b) ==
  /\ b.prompt = a.prompt /\ b.lastPrompt = a.lastPrompt /\ b.offered = a.offered
  /\ b.outcomes = a.outcomes /\ b.completion = a.completion
  /\ b.challenge = a.challenge /\ b.closed = a.closed
  /\ b.observerFailed = a.observerFailed
  /\ b.mode = a.mode /\ b.fallback = a.fallback /\ b.qrFlow = a.qrFlow
  /\ b.epoch = a.epoch /\ b.stopped = a.stopped /\ b.pending = a.pending
  /\ b.state = a.state /\ b.qrRequested = a.qrRequested

LEMMA AlikeKeeps ==
  ASSUME NEW a, NEW b \in Members, NEW frames, MembersOK(a), FramesOK(a, frames),
         Alike(a, b)
  PROVE  MembersOK(b) /\ FramesOK(b, frames) /\ Unseen(a, b)
<1>1. MembersOK(b)
  BY DEF Alike, MembersOK, Sound, PromptsKnown, QrOrPhone, PrefersQr, OutcomeOK,
    Presented, Running
<1>2. FramesOK(b, frames)
  BY LaterFrames DEF Alike, Later, MembersOK, Sound, Running
<1>3. Unseen(a, b)
  BY DEF Alike, Unseen
<1> QED
  BY <1>1, <1>2, <1>3

LEMMA Send ==
  ASSUME NEW a, NEW frames, MembersOK(a), FramesOK(a, frames)
  PROVE  Safe(a, SendRequest(a, frames))
<1> DEFINE b == [a EXCEPT !.outstanding = @ \cup {a.pending}]
           f == [Frame("sending") EXCEPT !.serial = a.pending.serial]
<1>1. b \in Members
  <2>1. \A o \in SUBSET Requests : [a EXCEPT !.outstanding = o] \in Members
    BY DEF MembersOK, Sound, Members
  <2>2. a.outstanding \cup {a.pending} \in SUBSET Requests
    BY DEF MembersOK, Sound, Members
  <2> QED
    BY <2>1, <2>2
<1>2. Alike(a, b)
  BY DEF MembersOK, Sound, Members, Alike
<1>3. f \in Frames /\ f.kind = "sending"
  <2>1. a.pending.serial \in Nat
    BY DEF MembersOK, Sound, Members, Requests
  <2>2. Frame("sending") \in Frames /\ Frame("sending").kind = "sending"
    BY Defaults DEF Kinds
  <2> QED
    BY <2>1, <2>2 DEF Frames
<1> HIDE DEF b, f
<1>4. MembersOK(b) /\ FramesOK(b, frames) /\ Unseen(a, b)
  BY <1>1, <1>2, AlikeKeeps
<1>5. FramesOK(b, <<f>> \o frames)
  BY <1>3, <1>4, PushCall
<1> QED
  BY <1>4, <1>5 DEF b, f, SendRequest, CallOut, At, Safe, ContractStep

Operations == {"Submit", "RequestQrCode", "SetTdlibParameters"}

LEMMA Begin ==
  ASSUME NEW a, NEW operation \in Operations, Sound(a)
  PROVE  /\ Sound(BeginRequest(a, operation)) /\ Unseen(a, BeginRequest(a, operation))
         /\ \A x \in {"prompt", "challenge", "outcomes", "completion", "mode", "fallback",
                      "qrFlow", "epoch", "stopped", "state", "qrRequested"} :
              BeginRequest(a, operation)[x] = a[x]
         /\ BeginRequest(a, operation).pending.serial \in Nat
<1> DEFINE b == BeginRequest(a, operation)
<1>1. a.lastSerial + 1 \in Nat /\ a.epoch \in Nat
  BY DEF Sound, Members
<1>2. [serial |-> a.lastSerial + 1, operation |-> operation, epoch |-> a.epoch] \in Requests
  BY <1>1 DEF Requests, Operations
<1>3. b \in Members /\ b.pending.serial = a.lastSerial + 1
  BY <1>1, <1>2 DEF Sound, Members, BeginRequest
<1>4. /\ b.prompt = a.prompt /\ b.lastPrompt = a.lastPrompt /\ b.offered = a.offered
      /\ b.outcomes = a.outcomes /\ b.completion = a.completion
      /\ b.challenge = a.challenge /\ b.closed = a.closed
      /\ b.observerFailed = a.observerFailed
      /\ b.mode = a.mode /\ b.fallback = a.fallback /\ b.qrFlow = a.qrFlow
      /\ b.epoch = a.epoch /\ b.stopped = a.stopped
      /\ b.state = a.state /\ b.qrRequested = a.qrRequested
  BY DEF Sound, Members, BeginRequest
<1> HIDE DEF b
<1>5. Sound(b)
  BY <1>3, <1>4 DEF Sound, PromptsKnown, QrOrPhone, PrefersQr, OutcomeOK
<1> QED
  BY <1>1, <1>3, <1>4, <1>5 DEF b, Unseen

\* A request starts with no prompt open.  No state that was entered waits for its
\* turn, unless this is its request.
LEMMA Start ==
  ASSUME NEW a, NEW frames, NEW operation \in Operations, MembersOK(a),
         FramesOK(a, frames), a.prompt = 0,
         \A i \in 1 .. Len(frames) :
           frames[i].kind = "entered" /\ IsCurrentState(a, frames[i].epoch, frames[i].state)
             => frames[i].then = RequestQrCode /\ a.qrRequested
  PROVE  Safe(a, StartRequest(a, frames, operation))
<1>1. CASE ~(Running(a) /\ a.pending = NoRequest)
  BY <1>1 DEF StartRequest, At, Safe, ContractStep, Unseen
<1>2. CASE Running(a) /\ a.pending = NoRequest
  <2> DEFINE b == BeginRequest(a, operation)
  <2>1. /\ Sound(b) /\ Unseen(a, b)
        /\ b.prompt = a.prompt /\ b.challenge = a.challenge /\ b.outcomes = a.outcomes
        /\ b.completion = a.completion /\ b.mode = a.mode /\ b.fallback = a.fallback
        /\ b.qrFlow = a.qrFlow /\ b.epoch = a.epoch /\ b.stopped = a.stopped
        /\ b.state = a.state /\ b.qrRequested = a.qrRequested
    BY Begin DEF MembersOK
  <2>2. a.epoch \in Nat
    BY DEF MembersOK, Sound, Members
  <2> HIDE DEF b
  <2>3. MembersOK(b)
    BY <2>1 DEF MembersOK, Presented
  <2>4. ASSUME NEW i \in 1 .. Len(frames), frames[i].kind = "entered",
               IsCurrentState(b, frames[i].epoch, frames[i].state)
        PROVE  Expects(b, frames[i])
    <3>1. IsCurrentState(a, frames[i].epoch, frames[i].state)
      BY <2>1, <2>4 DEF IsCurrentState, Running
    <3>2. Expects(a, frames[i])
      BY <2>4, <3>1 DEF FramesOK, FrameOK
    <3> QED
      BY <2>1, <2>4, <3>1, <3>2 DEF Expects
  <2>5. Follows(a, b, frames)
    BY <2>1, <2>2, <2>4 DEF Follows
  <2>6. FramesOK(b, frames)
    BY <2>1, <2>5, FramesFollow DEF MembersOK, Sound
  <2>7. Safe(b, SendRequest(b, frames))
    BY <2>3, <2>6, Send
  <2> QED
    BY <1>2, <2>1, <2>7, UnseenFirst DEF b, StartRequest, Safe
<1> QED
  BY <1>1, <1>2

LEMMA StartQr ==
  ASSUME NEW a, NEW frames, MembersOK(a), FramesOK(a, frames), a.prompt = 0,
         \A i \in 1 .. Len(frames) :
           frames[i].kind = "entered" /\ IsCurrentState(a, frames[i].epoch, frames[i].state)
             => frames[i].then = RequestQrCode
  PROVE  Safe(a, StartQrRequest(a, frames))
<1> DEFINE b == [a EXCEPT !.qrRequested = TRUE]
<1>1. b \in Members /\ b.qrRequested
  BY DEF MembersOK, Sound, Members
<1>2. /\ b.prompt = a.prompt /\ b.lastPrompt = a.lastPrompt /\ b.offered = a.offered
      /\ b.outcomes = a.outcomes /\ b.completion = a.completion
      /\ b.challenge = a.challenge /\ b.closed = a.closed
      /\ b.observerFailed = a.observerFailed
      /\ b.mode = a.mode /\ b.fallback = a.fallback /\ b.qrFlow = a.qrFlow
      /\ b.epoch = a.epoch /\ b.stopped = a.stopped /\ b.pending = a.pending
      /\ b.state = a.state /\ a.epoch \in Nat
  BY DEF MembersOK, Sound, Members
<1> HIDE DEF b
<1>3. MembersOK(b)
  BY <1>1, <1>2 DEF MembersOK, Sound, PromptsKnown, QrOrPhone, PrefersQr, OutcomeOK,
    Presented, Running
<1>4. ASSUME NEW i \in 1 .. Len(frames), frames[i].kind = "entered",
             IsCurrentState(b, frames[i].epoch, frames[i].state)
      PROVE  frames[i].then = RequestQrCode /\ Expects(b, frames[i])
  <2>1. IsCurrentState(a, frames[i].epoch, frames[i].state)
    BY <1>2, <1>4 DEF IsCurrentState, Running
  <2>2. Expects(a, frames[i])
    BY <1>4, <2>1 DEF FramesOK, FrameOK
  <2> QED
    BY <1>1, <1>2, <1>4, <2>1, <2>2 DEF Expects
<1>5. Follows(a, b, frames)
  BY <1>2, <1>4 DEF Follows
<1>6. FramesOK(b, frames)
  BY <1>1, <1>5, FramesFollow DEF MembersOK, Sound
<1>7. Safe(b, StartRequest(b, frames, "RequestQrCode"))
  BY <1>1, <1>2, <1>3, <1>4, <1>6, Start DEF Operations
<1>8. Unseen(a, b)
  BY <1>2 DEF Unseen
<1> QED
  BY <1>7, <1>8, UnseenFirst DEF b, StartQrRequest, Safe

LEMMA Link ==
  ASSUME NEW a, NEW frames, NEW link \in Links, MembersOK(a), FramesOK(a, frames),
         a.qrFlow
  PROVE  /\ Safe(a, ShowLink(a, frames, link))
         /\ Unseen(a, ShowLink(a, frames, link).auth)
<1> DEFINE b == [a EXCEPT !.link = link, !.offered = @ \cup {"QrCode"}]
<1>1. b \in Members
  <2>1. a.offered \cup {"QrCode"} \in SUBSET PromptTypes
    BY DEF MembersOK, Sound, Members, PromptTypes
  <2> QED
    BY <2>1 DEF MembersOK, Sound, Members
<1>2. /\ b.prompt = a.prompt /\ b.lastPrompt = a.lastPrompt
      /\ b.offered = a.offered \cup {"QrCode"}
      /\ b.outcomes = a.outcomes /\ b.completion = a.completion
      /\ b.challenge = a.challenge /\ b.closed = a.closed
      /\ b.observerFailed = a.observerFailed
      /\ b.mode = a.mode /\ b.fallback = a.fallback /\ b.qrFlow = a.qrFlow
      /\ b.epoch = a.epoch /\ b.stopped = a.stopped /\ b.pending = a.pending
      /\ b.state = a.state /\ b.qrRequested = a.qrRequested
  BY DEF MembersOK, Sound, Members
<1> HIDE DEF b
<1>3. MembersOK(b)
  BY <1>1, <1>2 DEF MembersOK, Sound, PromptsKnown, QrOrPhone, PrefersQr, OutcomeOK,
    Presented, Running
<1>4. FramesOK(b, <<Frame("shown")>> \o frames)
  <2>1. FramesOK(b, frames)
    BY <1>1, <1>2, LaterFrames DEF Later, MembersOK, Sound, Running
  <2> QED
    BY <2>1, Defaults, PushCall DEF Kinds
<1>5. Unseen(a, b)
  BY <1>2 DEF Unseen
<1> QED
  BY <1>3, <1>4, <1>5 DEF b, ShowLink, CallOut, At, Safe, ContractStep

\* With nothing waiting, a new prompt or challenge is in no frame's way.
LEMMA NobodyFollows ==
  ASSUME NEW a, NEW b, NEW frames, a \in Members, b \in Members, FramesOK(a, frames),
         b.mode = a.mode, b.qrFlow = a.qrFlow, b.fallback = a.fallback,
         b.epoch = a.epoch, b.completion = a.completion, b.outcomes = a.outcomes,
         NobodyWaits(b, frames)
  PROVE  FramesOK(b, frames)
<1>1. a.epoch <= b.epoch
  BY DEF Members
<1>2. Follows(a, b, frames)
  BY <1>1 DEF Follows, NobodyWaits
<1> QED
  BY <1>2, FramesFollow

\* The prompt of a QR login, with its first link.
LEMMA FirstLink ==
  ASSUME NEW a, NEW frames, NEW link \in Links, MembersOK(a), FramesOK(a, frames),
         Running(a), a.prompt = 0, a.pending = NoRequest, a.qrFlow,
         a.state # "WaitPhoneNumber", NobodyWaits(a, frames)
  PROVE  Safe(a, ShowLink([a EXCEPT !.prompt = a.lastPrompt + 1, !.lastPrompt = @ + 1,
                                    !.promptType = "QrCode"], frames, link))
<1> DEFINE b == [a EXCEPT !.prompt = a.lastPrompt + 1, !.lastPrompt = @ + 1,
                          !.promptType = "QrCode"]
<1>1. b \in Members
  <2>1. a.lastPrompt + 1 \in Nat /\ "QrCode" \in PromptTypes
    BY DEF MembersOK, Sound, Members, PromptTypes
  <2> QED
    BY <2>1, ZenonT(40) DEF MembersOK, Sound, Members
<1>2. /\ b.prompt = a.lastPrompt + 1 /\ b.lastPrompt = a.lastPrompt + 1
      /\ b.offered = a.offered /\ b.outcomes = a.outcomes
      /\ b.completion = a.completion /\ b.challenge = a.challenge /\ b.closed = a.closed
      /\ b.observerFailed = a.observerFailed
      /\ b.mode = a.mode /\ b.fallback = a.fallback /\ b.qrFlow = a.qrFlow
      /\ b.epoch = a.epoch /\ b.stopped = a.stopped /\ b.pending = a.pending
      /\ b.state = a.state /\ b.qrRequested = a.qrRequested /\ a.lastPrompt \in Nat
  BY DEF MembersOK, Sound, Members
<1> HIDE DEF b
<1>3. PromptsKnown(b)
  <2>1. \A p \in 1 .. b.lastPrompt : p = b.prompt \/ p \in 1 .. a.lastPrompt
    BY <1>2
  <2>2. b.prompt \notin 1 .. a.lastPrompt /\ 0 \notin 1 .. a.lastPrompt
    BY <1>2
  <2>3. b.prompt <= b.lastPrompt /\ \A p \in 1 .. a.lastPrompt : p \in 1 .. b.lastPrompt
    BY <1>2
  <2> QED
    BY <1>2, <2>1, <2>2, <2>3 DEF MembersOK, Sound, PromptsKnown
<1>4. MembersOK(b)
  BY <1>1, <1>2, <1>3 DEF MembersOK, Sound, QrOrPhone, PrefersQr, OutcomeOK, Presented,
    Running
<1>5. FramesOK(b, frames)
  <2>1. NobodyWaits(b, frames)
    BY <1>2 DEF NobodyWaits, IsCurrentState, Running
  <2>2. a \in Members
    BY DEF MembersOK, Sound
  <2> QED
    BY <1>1, <1>2, <2>1, <2>2, NobodyFollows
<1>6. Safe(b, ShowLink(b, frames, link)) /\ Unseen(b, ShowLink(b, frames, link).auth)
  BY <1>2, <1>4, <1>5, Link
<1>7. Shown(a, b)
  BY <1>2 DEF MembersOK, Sound, OutcomeOK, Running, Shown
<1>8. \A c : Unseen(b, c) => Shown(a, c)
  BY <1>7 DEF Unseen, Shown
<1> QED
  BY <1>6, <1>8 DEF b, Safe, ContractStep

\* What is known of a frame when its state's turn comes: nothing else waits.
LEMMA Turn ==
  ASSUME NEW a, NEW frames, NEW f, MembersOK(a), FramesOK(a, frames), FrameOK(a, f),
         f.kind = "entered", IsCurrentState(a, f.epoch, f.state),
         \A i \in 1 .. Len(frames) : Apart(f, frames[i])
  PROVE  /\ Running(a) /\ a.state = f.state /\ Expects(a, f)
         /\ EntersWith(a, f.state, f.then) /\ NobodyWaits(a, frames)
BY DEF FrameOK, IsCurrentState, NobodyWaits, Apart

LEMMA TakeTurn ==
  ASSUME NEW a, NEW frames, NEW f, MembersOK(a), FramesOK(a, frames), FrameOK(a, f),
         f.kind = "entered", \A i \in 1 .. Len(frames) : Apart(f, frames[i])
  PROVE  Safe(a, Entered(a, frames, f))
<1>1. CASE ~IsCurrentState(a, f.epoch, f.state)
  BY <1>1 DEF Entered, At, Safe, ContractStep, Unseen
<1>2. CASE IsCurrentState(a, f.epoch, f.state)
  <2>1. /\ Running(a) /\ a.state = f.state /\ Expects(a, f)
        /\ EntersWith(a, f.state, f.then) /\ NobodyWaits(a, frames)
    BY <1>2, Turn
  <2>2. a.prompt = 0 /\ a.challenge = NoChallenge
    BY <2>1 DEF Expects
  <2>3. \A x \in Challenges \cup LinkChallenges :
          x # SetTdlibParameters /\ x # RequestQrCode
    BY ChallengeStatesAssumption DEF Challenges, LinkChallenges, NoChallenge,
      PhoneChallenge, SetTdlibParameters, RequestQrCode
  <2>4. CASE f.then = SetTdlibParameters
    <3>1. Safe(a, StartRequest(a, frames, "SetTdlibParameters"))
      BY <2>1, <2>2, Start DEF NobodyWaits, Operations
    <3> QED
      BY <1>2, <2>4, <3>1 DEF Entered, SetTdlibParameters, RequestQrCode
  <2>5. CASE f.then = RequestQrCode
    <3>1. Safe(a, StartQrRequest(a, frames))
      BY <2>1, <2>2, StartQr DEF NobodyWaits
    <3>2. Safe(a, FailAuthorization(a, frames, "WaitPhoneNumber"))
      BY Fail DEF States
    <3> QED
      BY <1>2, <2>5, <3>1, <3>2 DEF Entered, SetTdlibParameters, RequestQrCode
  <2>6. CASE f.then \in LinkChallenges /\ f.state = "WaitOtherDeviceConfirmation" /\ a.qrFlow
    <3>1. f.then.type = "QrCode" /\ f.then.detail \in Links
      BY <2>6 DEF LinkChallenges
    <3>2. a.pending = NoRequest
      BY <2>1, <2>3, <2>6 DEF Expects
    <3>3. Safe(a, ShowLink([a EXCEPT !.prompt = a.lastPrompt + 1, !.lastPrompt = @ + 1,
                                     !.promptType = "QrCode"], frames, f.then.detail))
      BY <2>1, <2>2, <2>6, <3>1, <3>2, FirstLink
    <3> QED
      BY <1>2, <2>3, <2>6, <3>1, <3>3 DEF Entered
  <2>7. CASE /\ f.then \in Challenges \ {NoChallenge} /\ f.then.type = f.state
             /\ f.state = "WaitPhoneNumber" => ~PrefersQr(a)
    <3> DEFINE b == [a EXCEPT !.challenge = f.then]
    <3>1. f.then # SetTdlibParameters /\ f.then # RequestQrCode /\ f.then.type # "QrCode"
      BY <2>3, <2>7, ChallengeStatesAssumption DEF Challenges, NoChallenge, PhoneChallenge
    <3>2. a.pending = NoRequest
      BY <2>1, <3>1 DEF Expects
    <3>3. b \in Members
      BY <2>7 DEF MembersOK, Sound, Members
    <3>4. /\ b.challenge = f.then /\ b.prompt = a.prompt /\ b.lastPrompt = a.lastPrompt
          /\ b.offered = a.offered /\ b.outcomes = a.outcomes
          /\ b.completion = a.completion /\ b.closed = a.closed
          /\ b.observerFailed = a.observerFailed
          /\ b.mode = a.mode /\ b.fallback = a.fallback /\ b.qrFlow = a.qrFlow
          /\ b.epoch = a.epoch /\ b.stopped = a.stopped /\ b.pending = a.pending
          /\ b.state = a.state /\ b.qrRequested = a.qrRequested
      BY DEF MembersOK, Sound, Members
    <3> HIDE DEF b
    <3>5. MembersOK(b)
      BY <2>1, <2>7, <3>3, <3>4 DEF MembersOK, Sound, PromptsKnown, QrOrPhone,
        PrefersQr, OutcomeOK, Presented, Running
    <3>6. NobodyWaits(b, frames)
      BY <2>1, <3>4 DEF NobodyWaits, IsCurrentState, Running
    <3>7. FramesOK(b, frames)
      BY <3>3, <3>4, <3>6, NobodyFollows DEF MembersOK, Sound
    <3>8. Safe(b, IssuePrompt(b, frames))
      BY <3>2, <3>4, <3>5, <3>7, Issue
    <3>9. Unseen(a, b)
      BY <3>4 DEF Unseen
    <3>10. Safe(a, IssuePrompt(b, frames))
      BY <3>8, <3>9, UnseenFirst DEF Safe
    <3> QED
      BY <1>2, <3>1, <3>10 DEF b, Entered
  <2> QED
    BY <2>1, <2>4, <2>5, <2>6, <2>7 DEF EntersWith
<1> QED
  BY <1>1, <1>2

LEMMA Enter ==
  ASSUME NEW a, NEW frames, NEW state \in States,
         NEW then \in Challenges \cup LinkChallenges \cup {RequestQrCode, SetTdlibParameters},
         Sound(a), Running(a), FramesOK(a, frames), EntersWith(a, state, then)
  PROVE  Safe(a, EnterState(a, frames, state, then))
<1> DEFINE b == NextState(a, state)
           f == [Frame("entered") EXCEPT !.epoch = b.epoch, !.state = state, !.then = then]
<1>1. b \in Members
  BY NextStateTypes DEF Sound
<1>2. /\ b.challenge = NoChallenge /\ b.pending = NoRequest /\ b.state = state
      /\ b.epoch = a.epoch + 1 /\ b.prompt = a.prompt /\ b.lastPrompt = a.lastPrompt
      /\ b.offered = a.offered /\ b.outcomes = a.outcomes
      /\ b.completion = a.completion /\ b.closed = a.closed
      /\ b.observerFailed = a.observerFailed
      /\ b.mode = a.mode /\ b.fallback = a.fallback /\ b.qrFlow = a.qrFlow
      /\ b.stopped = a.stopped /\ a.epoch \in Nat /\ b.epoch \in Nat
  BY DEF Sound, Members, NextState, Invalidate
<1>3. f \in Frames /\ f.kind = "entered" /\ f.epoch = b.epoch /\ f.state = state
      /\ f.then = then
  <2>1. Frame("entered") \in Frames /\ Frame("entered").kind = "entered"
    BY Defaults DEF Kinds
  <2> QED
    BY <1>2, <2>1 DEF Frames
<1>4. EnterState(a, frames, state, then) =
        IF b.prompt = 0 THEN Entered(b, frames, f) ELSE NotifyPromptClosed(b, frames, f)
  BY DEF EnterState
<1> HIDE DEF b, f
<1>5. Sound(b) /\ Unseen(a, b)
  BY <1>1, <1>2 DEF Sound, PromptsKnown, QrOrPhone, PrefersQr, OutcomeOK, NoChallenge,
    Unseen
<1>6. FramesOK(b, frames)
  BY <1>1, <1>2, LaterFrames DEF Later, Sound
<1>7. EntersWith(b, f.state, f.then)
  BY <1>2, <1>3 DEF EntersWith, PrefersQr
<1>8. \A i \in 1 .. Len(frames) : Apart(f, frames[i]) /\ Apart(frames[i], f)
  <2> TAKE i \in 1 .. Len(frames)
  <2>1. FrameOK(a, frames[i]) /\ frames[i].epoch \in Nat
    BY DEF FramesOK, FrameOK, Frames
  <2>2. frames[i].kind = "entered" => frames[i].epoch # f.epoch
    BY <1>2, <1>3, <2>1 DEF FrameOK
  <2> QED
    BY <1>3, <2>2 DEF Apart
<1>9. CASE b.prompt = 0
  <2>1. MembersOK(b)
    BY <1>5, <1>9 DEF MembersOK, Presented
  <2>2. FrameOK(b, f)
    BY <1>2, <1>3, <1>7, <1>9 DEF FrameOK, Expects
  <2>3. Safe(b, Entered(b, frames, f))
    BY <1>3, <1>6, <1>8, <2>1, <2>2, TakeTurn
  <2> QED
    BY <1>4, <1>5, <1>9, <2>3, UnseenFirst DEF Safe
<1>10. CASE b.prompt # 0
  <2>1. MayWait(b, f)
    BY <1>2, <1>3, <1>7 DEF MayWait
  <2>2. Safe(b, NotifyPromptClosed(b, frames, f))
    BY <1>3, <1>5, <1>6, <1>8, <1>10, <2>1, ClosePrompt
  <2> QED
    BY <1>4, <1>5, <1>10, <2>2, UnseenFirst DEF Safe
<1> QED
  BY <1>9, <1>10

LEMMA HandleChallenge ==
  ASSUME NEW a, NEW frames, NEW challenge \in Challenges \ {NoChallenge},
         MembersOK(a), Running(a), FramesOK(a, frames),
         challenge.type = "WaitPhoneNumber" => ~PrefersQr(a)
  PROVE  Safe(a, HandleChallengeState(a, frames, challenge))
<1>1. Safe(a, At(a, frames))
  BY DEF At, Safe, ContractStep, Unseen
<1>2. CASE a.state = challenge.type /\ a.challenge = challenge
  <2>1. a.pending = NoRequest => Safe(a, IssuePrompt(a, frames))
    BY Issue
  <2> QED
    BY <1>1, <1>2, <2>1 DEF HandleChallengeState
<1>3. CASE ~(a.state = challenge.type /\ a.challenge = challenge)
  <2>1. challenge.type \in States
    BY DEF Challenges, PhoneChallenge, States
  <2>2. EntersWith(a, challenge.type, challenge)
    BY DEF EntersWith
  <2>3. Safe(a, EnterState(a, frames, challenge.type, challenge))
    BY <2>1, <2>2, Enter DEF MembersOK
  <2> QED
    BY <1>3, <2>3 DEF HandleChallengeState
<1> QED
  BY <1>2, <1>3

\* The observer hears of the rejection of its input.
LEMMA Reject ==
  ASSUME NEW a, NEW frames, MembersOK(a), FramesOK(a, frames)
  PROVE  Safe(a, ReportRejection(a, frames))
<1> DEFINE b == [a EXCEPT !.rejections = @ + 1]
           f == [Frame("rejected") EXCEPT !.epoch = a.epoch]
<1>1. b \in Members
  <2>1. a.rejections + 1 \in Nat
    BY DEF MembersOK, Sound, Members
  <2> QED
    BY <2>1 DEF MembersOK, Sound, Members
<1>2. Alike(a, b) /\ a.epoch \in Nat
  BY DEF MembersOK, Sound, Members, Alike
<1>3. f \in Frames /\ f.kind = "rejected"
  <2>1. Frame("rejected") \in Frames /\ Frame("rejected").kind = "rejected"
    BY Defaults DEF Kinds
  <2> QED
    BY <1>2, <2>1 DEF Frames
<1> HIDE DEF b, f
<1>4. MembersOK(b) /\ FramesOK(b, frames) /\ Unseen(a, b)
  BY <1>1, <1>2, AlikeKeeps
<1>5. FramesOK(b, <<f>> \o frames)
  BY <1>3, <1>4, PushCall
<1> QED
  BY <1>4, <1>5 DEF b, f, ReportRejection, CallOut, At, Safe, ContractStep

LEMMA Dispatch ==
  ASSUME NEW a, NEW frames, NEW state \in LifecycleStates, MembersOK(a),
         FramesOK(a, frames)
  PROVE  Safe(a, DispatchLifecycle(a, frames, state))
<1> DEFINE b == [NextState(a, state) EXCEPT !.notified = @ \cup {state}]
<1>1. b \in Members
  <2>1. NextState(a, state) \in Members
    BY NextStateTypes DEF MembersOK, Sound, States
  <2>2. \A c \in Members : [c EXCEPT !.notified = @ \cup {state}] \in Members
    BY ZenonT(40) DEF Members
  <2> QED
    BY <2>1, <2>2
<1>2. /\ b.challenge = NoChallenge /\ b.pending = NoRequest
      /\ b.epoch = a.epoch + 1 /\ b.prompt = a.prompt /\ b.lastPrompt = a.lastPrompt
      /\ b.offered = a.offered /\ b.outcomes = a.outcomes
      /\ b.completion = a.completion /\ b.closed = a.closed
      /\ b.observerFailed = a.observerFailed
      /\ b.mode = a.mode /\ b.fallback = a.fallback /\ b.qrFlow = a.qrFlow
      /\ b.stopped = a.stopped /\ a.epoch \in Nat
  BY DEF MembersOK, Sound, Members, NextState, Invalidate
<1>3. CASE state \in a.notified
  BY <1>3 DEF DispatchLifecycle, At, Safe, ContractStep, Unseen
<1>4. CASE state \notin a.notified /\ a.completion = "none"
  <2> DEFINE c == [b EXCEPT !.completion = "failed"]
  <2>1. c \in Members
    BY <1>1 DEF Members, Completions
  <2>2. /\ c.completion = "failed" /\ c.challenge = NoChallenge
        /\ c.epoch = a.epoch + 1 /\ c.prompt = a.prompt /\ c.lastPrompt = a.lastPrompt
        /\ c.offered = a.offered /\ c.outcomes = a.outcomes /\ c.closed = a.closed
        /\ c.observerFailed = a.observerFailed
        /\ c.mode = a.mode /\ c.fallback = a.fallback /\ c.qrFlow = a.qrFlow
        /\ c.stopped = a.stopped
    BY <1>1, <1>2 DEF Members
  <2>3. DispatchLifecycle(a, frames, state) = NotifyCompletion(c, frames)
    BY <1>4 DEF DispatchLifecycle
  <2> HIDE DEF b, c
  <2>4. Ends(a, c)
    BY <1>4, <2>2 DEF Ends
  <2> QED
    BY <2>1, <2>3, <2>4, Complete
<1>5. ASSUME NEW c, c \in Members, Unseen(b, c),
             \A x \in {"challenge", "pending", "epoch", "offered", "completion", "closed",
                       "observerFailed", "mode", "fallback", "qrFlow"} : c[x] = b[x],
             a.completion # "none"
      PROVE  MembersOK(c) /\ FramesOK(c, frames) /\ Unseen(a, c)
  <2> HIDE DEF b
  <2>1. /\ c.challenge = NoChallenge /\ c.epoch = a.epoch + 1
        /\ c.offered = a.offered /\ c.completion = a.completion /\ c.closed = a.closed
        /\ c.observerFailed = a.observerFailed
        /\ c.mode = a.mode /\ c.fallback = a.fallback /\ c.qrFlow = a.qrFlow
    BY <1>2, <1>5
  <2>2. c.prompt = a.prompt /\ c.lastPrompt = a.lastPrompt /\ c.outcomes = a.outcomes
        /\ c.stopped = a.stopped
    BY <1>2, <1>5 DEF Unseen
  <2>3. a.prompt = 0
    BY <1>5 DEF MembersOK, Presented, Running
  <2>4. MembersOK(c)
    BY <1>5, <2>1, <2>2, <2>3 DEF MembersOK, Sound, PromptsKnown, QrOrPhone, PrefersQr,
      OutcomeOK, Presented, NoChallenge
  <2>5. FramesOK(c, frames)
    BY <1>5, <2>1, <2>2, LaterFrames DEF Later, MembersOK, Sound
  <2> QED
    BY <2>2, <2>4, <2>5 DEF Unseen
<1>6. CASE state \notin a.notified /\ a.completion = "ready"
  <2> DEFINE c == [b EXCEPT !.seen = Append(@, state)]
  <2>1. c \in Members
    <3>1. Append(b.seen, state) \in Seq(LifecycleStates)
      <4>1. b.seen \in Seq(LifecycleStates)
        BY <1>1 DEF Members
      <4> QED
        BY <4>1
    <3> HIDE DEF b
    <3> QED
      BY <1>1, <3>1 DEF Members
  <2>2. /\ c.completion = b.completion /\ c.challenge = b.challenge /\ c.pending = b.pending
        /\ c.epoch = b.epoch /\ c.prompt = b.prompt /\ c.lastPrompt = b.lastPrompt
        /\ c.offered = b.offered /\ c.outcomes = b.outcomes /\ c.closed = b.closed
        /\ c.observerFailed = b.observerFailed
        /\ c.mode = b.mode /\ c.fallback = b.fallback /\ c.qrFlow = b.qrFlow
        /\ c.stopped = b.stopped
    BY <1>1 DEF Members
  <2>3. DispatchLifecycle(a, frames, state) = CallOut(c, frames, Frame("lifecycle"))
    BY <1>6 DEF DispatchLifecycle
  <2> HIDE DEF b, c
  <2>4. MembersOK(c) /\ FramesOK(c, frames) /\ Unseen(a, c)
    BY <1>5, <1>6, <2>1, <2>2 DEF Unseen
  <2>5. FramesOK(c, <<Frame("lifecycle")>> \o frames)
    BY <2>4, Defaults, PushCall DEF Kinds
  <2> QED
    BY <2>3, <2>4, <2>5 DEF CallOut, At, Safe, ContractStep
<1>7. CASE state \notin a.notified /\ a.completion \notin {"none", "ready"}
  <2>1. DispatchLifecycle(a, frames, state) = At(b, frames)
    BY <1>7 DEF DispatchLifecycle
  <2> HIDE DEF b
  <2>2. MembersOK(b) /\ FramesOK(b, frames) /\ Unseen(a, b)
    BY <1>1, <1>5, <1>7 DEF Unseen
  <2> QED
    BY <2>1, <2>2 DEF At, Safe, ContractStep
<1> QED
  BY <1>3, <1>4, <1>6, <1>7

--------------------------------------------------------------------------------
(* Calls into the controller *)

\* A step to a control point that is safe.
Keeps == IInv' /\ ContractStep(auth, auth')

LEMMA SafeStep ==
  ASSUME NEW c, Step(c), Safe(auth, c)
  PROVE  Keeps
BY DEF Step, Safe, Keeps, IInv

LEMMA UpdateTdlibParametersKeeps ==
  ASSUME IInv, UpdateTdlibParameters
  PROVE  Keeps
<1>1. MembersOK(auth) /\ FramesOK(auth, stack) /\ Running(auth)
  BY DEF IInv, UpdateTdlibParameters
<1>2. "WaitTdlibParameters" \in States
  BY DEF States
<1>3. EntersWith(auth, "WaitTdlibParameters", SetTdlibParameters)
  BY DEF EntersWith
<1>4. Safe(auth, EnterState(auth, stack, "WaitTdlibParameters", SetTdlibParameters))
  BY <1>1, <1>2, <1>3, Enter DEF MembersOK
<1>5. Safe(auth, FailAuthorization(auth, stack, "WaitTdlibParameters"))
  BY <1>1, <1>2, Fail
<1> QED
  BY <1>4, <1>5, SafeStep DEF UpdateTdlibParameters, Call

LEMMA UpdatePhoneNumberKeeps ==
  ASSUME IInv, UpdatePhoneNumber
  PROVE  Keeps
<1>1. MembersOK(auth) /\ FramesOK(auth, stack) /\ Running(auth)
  BY DEF IInv, UpdatePhoneNumber
<1>2. "WaitPhoneNumber" \in States
  BY DEF States
<1>3. ~PrefersQr(auth) => Safe(auth, HandleChallengeState(auth, stack, PhoneChallenge))
  <2>1. PhoneChallenge \in Challenges \ {NoChallenge}
    BY DEF Challenges, PhoneChallenge, NoChallenge
  <2> QED
    BY <1>1, <2>1, HandleChallenge
<1>4. Safe(auth, EnterState(auth, stack, "WaitPhoneNumber", RequestQrCode))
  <2>1. EntersWith(auth, "WaitPhoneNumber", RequestQrCode)
    BY DEF EntersWith
  <2> QED
    BY <1>1, <1>2, <2>1, Enter DEF MembersOK
<1>5. ASSUME PrefersQr(auth), auth.state = "WaitPhoneNumber"
      PROVE  Safe(auth, StartQrRequest(auth, stack))
  <2>1. auth.prompt = 0
    BY <1>1, <1>5 DEF MembersOK, Presented
  <2>2. ASSUME NEW i \in 1 .. Len(stack), stack[i].kind = "entered",
               IsCurrentState(auth, stack[i].epoch, stack[i].state)
        PROVE  stack[i].then = RequestQrCode
    <3>1. EntersWith(auth, "WaitPhoneNumber", stack[i].then)
      BY <1>1, <1>5, <2>2 DEF FramesOK, FrameOK, IsCurrentState
    <3> QED
      BY <1>5, <3>1 DEF EntersWith
  <2> QED
    BY <1>1, <2>1, <2>2, StartQr
<1> QED
  BY <1>3, <1>4, <1>5, SafeStep DEF UpdatePhoneNumber, Call, PrefersQr

LEMMA UpdateChallengeKeeps ==
  ASSUME IInv, UpdateChallenge
  PROVE  Keeps
<1>1. PICK type \in ChallengeStates, detail \in Details :
        Call(HandleChallengeState(auth, stack, [type |-> type, detail |-> detail]))
  BY DEF UpdateChallenge
<1> DEFINE challenge == [type |-> type, detail |-> detail]
<1>2. challenge \in Challenges \ {NoChallenge} /\ challenge.type # "WaitPhoneNumber"
  BY ChallengeStatesAssumption DEF Challenges, NoChallenge
<1> HIDE DEF challenge
<1>3. Safe(auth, HandleChallengeState(auth, stack, challenge))
  BY <1>2, HandleChallenge DEF IInv, UpdateChallenge
<1> QED
  BY <1>1, <1>3, SafeStep DEF Call, challenge

\* A link commits the login to QR codes.
LEMMA Commit ==
  ASSUME NEW a, NEW frames, MembersOK(a), FramesOK(a, frames), ~a.fallback
  PROVE  LET b == [a EXCEPT !.qrFlow = TRUE]
         IN  /\ MembersOK(b) /\ FramesOK(b, frames) /\ Unseen(a, b)
             /\ b.qrFlow /\ b.state = a.state /\ (Running(b) <=> Running(a))
<1> DEFINE b == [a EXCEPT !.qrFlow = TRUE]
<1>1. b \in Members /\ b.qrFlow
  BY DEF MembersOK, Sound, Members
<1>2. /\ b.prompt = a.prompt /\ b.lastPrompt = a.lastPrompt /\ b.offered = a.offered
      /\ b.outcomes = a.outcomes /\ b.completion = a.completion
      /\ b.challenge = a.challenge /\ b.closed = a.closed
      /\ b.observerFailed = a.observerFailed
      /\ b.mode = a.mode /\ b.fallback = a.fallback
      /\ b.epoch = a.epoch /\ b.stopped = a.stopped /\ b.pending = a.pending
      /\ b.state = a.state /\ b.qrRequested = a.qrRequested
  BY DEF MembersOK, Sound, Members
<1> HIDE DEF b
<1>3. MembersOK(b)
  BY <1>1, <1>2 DEF MembersOK, Sound, PromptsKnown, QrOrPhone, PrefersQr, OutcomeOK,
    Presented, Running
<1>4. FramesOK(b, frames)
  BY <1>1, <1>2, LaterFrames DEF Later, MembersOK, Sound, Running
<1>5. Unseen(a, b) /\ (Running(b) <=> Running(a))
  BY <1>2 DEF Unseen, Running
<1> QED
  BY <1>1, <1>2, <1>3, <1>4, <1>5 DEF b

\* A new epoch in the same state.
LEMMA Renew ==
  ASSUME NEW a, NEW frames, MembersOK(a), FramesOK(a, frames)
  PROVE  LET b == Invalidate(a)
         IN  /\ MembersOK(b) /\ FramesOK(b, frames) /\ Unseen(a, b)
             /\ b.qrFlow = a.qrFlow
<1> DEFINE b == Invalidate(a)
<1>1. b \in Members
  <2>1. a.state \in States
    BY DEF MembersOK, Sound, Members
  <2> QED
    BY <2>1, NextStateTypes DEF MembersOK, Sound
<1>2. /\ b.prompt = a.prompt /\ b.lastPrompt = a.lastPrompt /\ b.offered = a.offered
      /\ b.outcomes = a.outcomes /\ b.completion = a.completion
      /\ b.challenge = a.challenge /\ b.closed = a.closed
      /\ b.observerFailed = a.observerFailed
      /\ b.mode = a.mode /\ b.fallback = a.fallback /\ b.qrFlow = a.qrFlow
      /\ b.epoch = a.epoch + 1 /\ b.stopped = a.stopped /\ b.pending = NoRequest
      /\ b.state = a.state
  BY DEF MembersOK, Sound, Members, Invalidate
<1> HIDE DEF b
<1>3. MembersOK(b)
  BY <1>1, <1>2 DEF MembersOK, Sound, PromptsKnown, QrOrPhone, PrefersQr, OutcomeOK,
    Presented, Running
<1>4. FramesOK(b, frames)
  BY <1>1, <1>2, LaterFrames DEF Later, MembersOK, Sound
<1> QED
  BY <1>2, <1>3, <1>4 DEF b, Unseen

LEMMA UpdateQrLinkKeeps ==
  ASSUME IInv, NEW link \in Links \cup {EmptyLink}, UpdateQrLink(link)
  PROVE  Keeps
<1>1. MembersOK(auth) /\ FramesOK(auth, stack) /\ Running(auth)
  BY DEF IInv, UpdateQrLink
<1> DEFINE committed == [auth EXCEPT !.qrFlow = TRUE]
<1>2. "WaitOtherDeviceConfirmation" \in States
  BY DEF States
<1>3. CASE auth.fallback
  <2>1. Safe(auth, FailAuthorization(auth, stack, "WaitOtherDeviceConfirmation"))
    BY <1>1, <1>2, Fail
  <2> QED
    BY <1>3, <2>1, SafeStep DEF UpdateQrLink, Call
<1>4. CASE ~auth.fallback
  <2>1. /\ MembersOK(committed) /\ FramesOK(committed, stack) /\ Unseen(auth, committed)
        /\ committed.qrFlow /\ Running(committed)
    BY <1>1, <1>4, Commit
  <2> HIDE DEF committed
  <2>2. \A c : Safe(committed, c) => Safe(auth, c)
    BY <2>1, UnseenFirst DEF Safe
  <2>3. Safe(committed, FailAuthorization(committed, stack, "WaitOtherDeviceConfirmation"))
    BY <1>2, <2>1, Fail
  <2>4. ASSUME link # EmptyLink
        PROVE  Safe(committed, EnterState(committed, stack, "WaitOtherDeviceConfirmation",
                                          [type |-> "QrCode", detail |-> link]))
    <3>1. [type |-> "QrCode", detail |-> link] \in LinkChallenges
      BY <2>4 DEF LinkChallenges
    <3>2. EntersWith(committed, "WaitOtherDeviceConfirmation",
                     [type |-> "QrCode", detail |-> link])
      BY <2>1, <3>1 DEF EntersWith
    <3> QED
      BY <1>2, <2>1, <3>1, <3>2, Enter DEF MembersOK
  <2>5. ASSUME link # EmptyLink
        PROVE  Safe(committed, ShowLink(Invalidate(committed), stack, link))
    <3> DEFINE renewed == Invalidate(committed)
    <3>1. /\ MembersOK(renewed) /\ FramesOK(renewed, stack)
          /\ Unseen(committed, renewed) /\ renewed.qrFlow
      BY <2>1, Renew
    <3> HIDE DEF renewed
    <3>2. Safe(renewed, ShowLink(renewed, stack, link))
      BY <2>5, <3>1, Link
    <3> QED
      BY <3>1, <3>2, UnseenFirst DEF Safe, renewed
  <2> QED
    BY <1>4, <2>2, <2>3, <2>4, <2>5, SafeStep DEF UpdateQrLink, Call, committed
<1> QED
  BY <1>3, <1>4

LEMMA UpdateUnsupportedKeeps ==
  ASSUME IInv, UpdateUnsupported
  PROVE  Keeps
<1>1. PICK state \in {"None", "Unknown"} : Call(FailAuthorization(auth, stack, state))
  BY DEF UpdateUnsupported
<1>2. Safe(auth, FailAuthorization(auth, stack, state))
  BY Fail DEF IInv, States
<1> QED
  BY <1>1, <1>2, SafeStep DEF Call

LEMMA UpdateReadyKeeps ==
  ASSUME IInv, UpdateReady
  PROVE  Keeps
<1> DEFINE b == [NextState(auth, "Ready") EXCEPT !.completion = "ready"]
<1>1. MembersOK(auth) /\ FramesOK(auth, stack) /\ Running(auth)
  BY DEF IInv, UpdateReady
<1>2. b \in Members
  <2>1. \A c \in Members : [c EXCEPT !.completion = "ready"] \in Members
    BY ZenonT(40) DEF Members, Completions
  <2>2. "Ready" \in States
    BY DEF States
  <2> QED
    BY <1>1, <2>1, <2>2, NextStateTypes DEF MembersOK, Sound
<1>3. /\ b.outcomes = auth.outcomes /\ b.completion = "ready" /\ b.challenge = NoChallenge
      /\ b.prompt = auth.prompt /\ b.lastPrompt = auth.lastPrompt
      /\ b.observerFailed = auth.observerFailed /\ b.closed = auth.closed
      /\ b.mode = auth.mode /\ b.fallback = auth.fallback /\ b.qrFlow = auth.qrFlow
      /\ b.offered = auth.offered /\ b.epoch = auth.epoch + 1 /\ b.stopped = auth.stopped
  BY <1>1 DEF MembersOK, Sound, Members, NextState, Invalidate
<1> HIDE DEF b
<1>4. Ends(auth, b)
  BY <1>1, <1>3 DEF Ends, Running
<1>5. Safe(auth, NotifyCompletion(b, stack))
  BY <1>1, <1>2, <1>4, Complete
<1> QED
  BY <1>5, SafeStep DEF b, UpdateReady, Call

\* The login ends by the user's hand.
LEMMA EndByHand ==
  ASSUME NEW a, NEW frames, NEW how \in {"cancelled", "failed"}, MembersOK(a),
         FramesOK(a, frames), Running(a)
  PROVE  Safe(a, NotifyCompletion([Invalidate(a) EXCEPT !.completion = how], frames))
<1> DEFINE b == [Invalidate(a) EXCEPT !.completion = how]
<1>1. b \in Members
  <2>1. \A c \in Members : [c EXCEPT !.completion = how] \in Members
    BY ZenonT(40) DEF Members, Completions
  <2>2. a.state \in States
    BY DEF MembersOK, Sound, Members
  <2> QED
    BY <2>1, <2>2, NextStateTypes DEF MembersOK, Sound
<1>2. /\ b.outcomes = a.outcomes /\ b.completion = how /\ b.challenge = a.challenge
      /\ b.prompt = a.prompt /\ b.lastPrompt = a.lastPrompt /\ b.state = a.state
      /\ b.observerFailed = a.observerFailed /\ b.closed = a.closed
      /\ b.mode = a.mode /\ b.fallback = a.fallback /\ b.qrFlow = a.qrFlow
      /\ b.offered = a.offered /\ b.epoch = a.epoch + 1 /\ b.stopped = a.stopped
  BY DEF MembersOK, Sound, Members, Invalidate
<1> HIDE DEF b
<1>3. Ends(a, b)
  BY <1>2 DEF Ends, Running
<1>4. Safe(a, NotifyCompletion(b, frames))
  BY <1>1, <1>3, Complete
<1> QED
  BY <1>4 DEF b

LEMMA CancelKeeps ==
  ASSUME IInv, Cancel \/ FailPrompt
  PROVE  Keeps
<1>1. \A how \in {"cancelled", "failed"} :
        Safe(auth, NotifyCompletion([Invalidate(auth) EXCEPT !.completion = how], stack))
  BY EndByHand DEF IInv, Cancel, FailPrompt
<1> QED
  BY <1>1, SafeStep DEF Cancel, FailPrompt, Call

LEMMA HandleLifecycleKeeps ==
  ASSUME IInv, NEW state \in LifecycleStates, HandleLifecycle(state)
  PROVE  Keeps
<1> DEFINE a == IF auth.completion = "ready" /\ state \notin ToSet(auth.arrived)
                THEN [auth EXCEPT !.arrived = Append(@, state)] ELSE auth
           b == [a EXCEPT !.queued = Append(@, state)]
<1>1. MembersOK(auth) /\ FramesOK(auth, stack) /\ auth \in Members
  BY DEF IInv, MembersOK, Sound
<1>2. a \in Members
  <2>1. Append(auth.arrived, state) \in Seq(LifecycleStates)
    <3>1. auth.arrived \in Seq(LifecycleStates)
      BY <1>1 DEF Members
    <3> QED
      BY <3>1
  <2>2. [auth EXCEPT !.arrived = Append(auth.arrived, state)] \in Members
    BY <1>1, <2>1 DEF Members
  <2> QED
    BY <1>1, <2>2
<1>3. Alike(auth, a)
  BY <1>1 DEF Members, Alike
<1>4. Step(At(b, stack)) \/ Step(DispatchLifecycle(a, stack, state))
  BY DEF HandleLifecycle, Call
<1> HIDE DEF a
<1>5. b \in Members
  <2>1. Append(a.queued, state) \in Seq(LifecycleStates)
    <3>1. a.queued \in Seq(LifecycleStates)
      BY <1>2 DEF Members
    <3> QED
      BY <3>1
  <2> QED
    BY <1>2, <2>1 DEF Members
<1>6. Alike(a, b)
  BY <1>2 DEF Members, Alike
<1> HIDE DEF b
<1>7. MembersOK(a) /\ FramesOK(a, stack) /\ Unseen(auth, a)
  BY <1>1, <1>2, <1>3, AlikeKeeps
<1>8. MembersOK(b) /\ FramesOK(b, stack) /\ Unseen(a, b)
  BY <1>5, <1>6, <1>7, AlikeKeeps
<1>9. Safe(a, At(b, stack))
  BY <1>8 DEF Safe, At, ContractStep
<1>10. Safe(a, DispatchLifecycle(a, stack, state))
  BY <1>7, Dispatch
<1>11. \A c : Safe(a, c) => Safe(auth, c)
  BY <1>7, UnseenFirst DEF Safe
<1> QED
  BY <1>4, <1>9, <1>10, <1>11, SafeStep

LEMMA SubmitKeeps ==
  ASSUME IInv, Submit
  PROVE  Keeps
<1> DEFINE b == BeginRequest(auth, "Submit")
           f == [Frame("submitting") EXCEPT !.serial = b.pending.serial]
<1>1. MembersOK(auth) /\ FramesOK(auth, stack) /\ auth.prompt # 0
  BY DEF IInv, Submit
<1>2. /\ Sound(b) /\ Unseen(auth, b) /\ b.pending.serial \in Nat
      /\ b.prompt = auth.prompt /\ b.challenge = auth.challenge
      /\ b.outcomes = auth.outcomes /\ b.completion = auth.completion
      /\ b.mode = auth.mode /\ b.fallback = auth.fallback
      /\ b.qrFlow = auth.qrFlow /\ b.epoch = auth.epoch /\ b.stopped = auth.stopped
      /\ b.state = auth.state /\ b.qrRequested = auth.qrRequested
  BY <1>1, Begin DEF MembersOK, Operations
<1> HIDE DEF b
<1>3. f \in Frames /\ f.kind = "submitting"
  <2>1. Frame("submitting") \in Frames /\ Frame("submitting").kind = "submitting"
    BY Defaults DEF Kinds
  <2> QED
    BY <1>2, <2>1 DEF Frames
<1>4. Step(NotifyPromptClosed(b, stack, f))
  BY DEF Submit, Call, b
<1> HIDE DEF f
<1>5. FramesOK(b, stack)
  <2>1. NobodyWaits(b, stack)
    BY <1>1, <1>2 DEF NobodyWaits, FramesOK, FrameOK, Expects, IsCurrentState, Running
  <2> QED
    BY <1>1, <1>2, <2>1, NobodyFollows DEF MembersOK, Sound
<1>6. Safe(b, NotifyPromptClosed(b, stack, f))
  BY <1>1, <1>2, <1>3, <1>5, ClosePrompt DEF MayWait, Apart
<1>7. Safe(auth, NotifyPromptClosed(b, stack, f))
  BY <1>2, <1>6, UnseenFirst DEF Safe
<1> QED
  BY <1>4, <1>7, SafeStep

LEMMA SubmitNothingKeeps ==
  ASSUME IInv, SubmitNothing
  PROVE  Keeps
<1> DEFINE f == [Frame("rejecting") EXCEPT !.epoch = auth.epoch, !.state = auth.state]
<1>1. MembersOK(auth) /\ FramesOK(auth, stack) /\ auth.prompt # 0
  BY DEF IInv, SubmitNothing
<1>2. f \in Frames /\ f.kind = "rejecting"
  <2>1. Frame("rejecting") \in Frames /\ Frame("rejecting").kind = "rejecting"
    BY Defaults DEF Kinds
  <2>2. auth.epoch \in Nat /\ auth.state \in States
    BY <1>1 DEF MembersOK, Sound, Members
  <2> QED
    BY <2>1, <2>2 DEF Frames
<1>3. Step(NotifyPromptClosed(auth, stack, f))
  BY DEF SubmitNothing, Call
<1> HIDE DEF f
<1>4. Safe(auth, NotifyPromptClosed(auth, stack, f))
  BY <1>1, <1>2, ClosePrompt DEF MayWait, Apart, MembersOK
<1> QED
  BY <1>3, <1>4, SafeStep

LEMMA ShutdownKeeps ==
  ASSUME IInv, Shutdown
  PROVE  Keeps
<1> DEFINE b == Stop(auth)
           f == Frame("shown")
<1>1. MembersOK(auth) /\ FramesOK(auth, stack) /\ ~auth.stopped
  BY DEF IInv, Shutdown
<1>2. b \in Members
  BY <1>1, StopTypes DEF MembersOK, Sound
<1>3. /\ b.prompt = auth.prompt /\ b.lastPrompt = auth.lastPrompt
      /\ b.offered = auth.offered /\ b.outcomes = auth.outcomes
      /\ b.completion = auth.completion /\ b.challenge = NoChallenge
      /\ b.closed = auth.closed /\ b.observerFailed = auth.observerFailed
      /\ b.mode = auth.mode /\ b.fallback = auth.fallback /\ b.qrFlow = auth.qrFlow
      /\ b.epoch = auth.epoch + 1 /\ b.stopped
  BY <1>1 DEF MembersOK, Sound, Members, Stop, Invalidate
<1>4. f \in Frames /\ f.kind = "shown"
  BY Defaults DEF Kinds
<1>5. Step(IF b.prompt = 0 THEN At(b, stack) ELSE NotifyPromptClosed(b, stack, f))
  BY DEF Shutdown, Call
<1> HIDE DEF b, f
<1>6. Sound(b)
  BY <1>1, <1>2, <1>3 DEF MembersOK, Sound, PromptsKnown, QrOrPhone, PrefersQr,
    OutcomeOK, NoChallenge
<1>7. FramesOK(b, stack)
  BY <1>1, <1>2, <1>3, LaterFrames DEF Later, MembersOK, Sound
<1>8. CASE b.prompt = 0
  <2>1. Safe(auth, At(b, stack))
    BY <1>1, <1>3, <1>6, <1>7, <1>8 DEF MembersOK, Presented, Safe, At, ContractStep,
      Stopped
  <2> QED
    BY <1>5, <1>8, <2>1, SafeStep
<1>9. CASE b.prompt # 0
  <2> DEFINE c == NotifyPromptClosed(b, stack, f)
  <2>1. Safe(b, c) /\ Closed(b, c.auth)
    BY <1>4, <1>6, <1>7, <1>9, ClosePrompt DEF MayWait, Apart
  <2> HIDE DEF c
  <2>2. Stopped(auth, c.auth)
    BY <1>1, <1>3, <2>1 DEF Closed, Stopped
  <2> QED
    BY <1>5, <1>9, <2>1, <2>2, SafeStep DEF c, Safe, ContractStep
<1> QED
  BY <1>8, <1>9

\* The sender's books change, and the request under way may be dropped.
LEMMA Account ==
  ASSUME NEW a, NEW frames, NEW o \in SUBSET Requests, NEW p \in {a.pending, NoRequest},
         MembersOK(a), FramesOK(a, frames)
  PROVE  LET b == [a EXCEPT !.outstanding = o, !.pending = p]
         IN  /\ MembersOK(b) /\ FramesOK(b, frames) /\ Unseen(a, b)
<1> DEFINE b == [a EXCEPT !.outstanding = o, !.pending = p]
<1>1. b \in Members
  <2>1. p \in Requests
    BY Defaults DEF MembersOK, Sound, Members
  <2> QED
    BY <2>1 DEF MembersOK, Sound, Members
<1>2. /\ b.prompt = a.prompt /\ b.lastPrompt = a.lastPrompt /\ b.offered = a.offered
      /\ b.outcomes = a.outcomes /\ b.completion = a.completion
      /\ b.challenge = a.challenge /\ b.closed = a.closed
      /\ b.observerFailed = a.observerFailed /\ b.qrFlow = a.qrFlow
      /\ b.mode = a.mode /\ b.fallback = a.fallback
      /\ b.epoch = a.epoch /\ b.stopped = a.stopped /\ b.pending = p
      /\ b.state = a.state /\ b.qrRequested = a.qrRequested
  BY DEF MembersOK, Sound, Members
<1> HIDE DEF b
<1>3. MembersOK(b)
  BY <1>1, <1>2 DEF MembersOK, Sound, PromptsKnown, QrOrPhone, PrefersQr, OutcomeOK,
    Presented, Running
<1>4. FramesOK(b, frames)
  BY <1>1, <1>2, LaterFrames DEF Later, MembersOK, Sound, Running
<1>5. Unseen(a, b)
  BY <1>2 DEF Unseen
<1> QED
  BY <1>1, <1>2, <1>3, <1>4, <1>5 DEF b

LEMMA Acknowledge ==
  ASSUME NEW a, NEW frames, MembersOK(a), FramesOK(a, frames)
  PROVE  Safe(a, At([a EXCEPT !.acknowledged = TRUE], frames))
<1> DEFINE b == [a EXCEPT !.acknowledged = TRUE]
<1>1. b \in Members /\ Alike(a, b)
  BY DEF MembersOK, Sound, Members, Alike
<1>2. MembersOK(b) /\ FramesOK(b, frames) /\ Unseen(a, b)
  BY <1>1, AlikeKeeps
<1> QED
  BY <1>2 DEF Safe, At, ContractStep

\* A login with no link yet may fall back to the phone number.
LEMMA FallBack ==
  ASSUME NEW a, NEW frames, MembersOK(a), FramesOK(a, frames), Running(a), ~a.qrFlow,
         ~a.fallback, a.mode = "qrFallback", a.state = "WaitPhoneNumber"
  PROVE  Safe(a, HandleChallengeState([a EXCEPT !.fallback = TRUE], frames,
                                      PhoneChallenge))
<1> DEFINE b == [a EXCEPT !.fallback = TRUE]
<1>1. b \in Members /\ b.fallback
  BY DEF MembersOK, Sound, Members
<1>2. /\ b.prompt = a.prompt /\ b.lastPrompt = a.lastPrompt /\ b.offered = a.offered
      /\ b.outcomes = a.outcomes /\ b.completion = a.completion
      /\ b.challenge = a.challenge /\ b.closed = a.closed
      /\ b.observerFailed = a.observerFailed /\ b.qrFlow = a.qrFlow
      /\ b.mode = a.mode
      /\ b.epoch = a.epoch /\ b.stopped = a.stopped /\ b.pending = a.pending
      /\ b.state = a.state /\ b.qrRequested = a.qrRequested
  BY DEF MembersOK, Sound, Members
<1> HIDE DEF b
<1>3. MembersOK(b)
  BY <1>1, <1>2 DEF MembersOK, Sound, PromptsKnown, QrOrPhone, PrefersQr, OutcomeOK,
    Presented, Running
<1>4. FramesOK(b, frames)
  BY <1>1, <1>2, LaterFrames DEF Later, MembersOK, Sound, Running
<1>5. PhoneChallenge \in Challenges \ {NoChallenge}
  BY DEF Challenges, PhoneChallenge, NoChallenge
<1>6. Safe(b, HandleChallengeState(b, frames, PhoneChallenge))
  BY <1>1, <1>2, <1>3, <1>4, <1>5, HandleChallenge DEF PrefersQr, Running
<1>7. Unseen(a, b)
  BY <1>2 DEF Unseen
<1> QED
  BY <1>6, <1>7, UnseenFirst DEF b, Safe

LEMMA RespondKeeps ==
  ASSUME IInv, NEW request \in auth.outstanding, NEW answer \in {"ok", "error", "other"},
         Respond(request, answer)
  PROVE  Keeps
<1> DEFINE o == auth.outstanding \ {request}
           answered == [auth EXCEPT !.outstanding = o, !.pending = auth.pending]
           a == [auth EXCEPT !.outstanding = o, !.pending = NoRequest]
<1>1. MembersOK(auth) /\ FramesOK(auth, stack) /\ auth \in Members
  BY DEF IInv, MembersOK, Sound
<1>2. o \in SUBSET Requests
  BY <1>1 DEF Members
<1>3. /\ [auth EXCEPT !.outstanding = @ \ {request}] = answered
      /\ [[auth EXCEPT !.outstanding = @ \ {request}] EXCEPT !.pending = NoRequest] = a
  BY <1>1 DEF Members
<1> HIDE DEF o
<1>4. MembersOK(answered) /\ FramesOK(answered, stack) /\ Unseen(auth, answered)
  BY <1>1, <1>2, Account
<1>5. /\ MembersOK(a) /\ FramesOK(a, stack) /\ Unseen(auth, a)
      /\ Running(a) <=> Running(auth)
  <2>1. MembersOK(a) /\ FramesOK(a, stack) /\ Unseen(auth, a)
    BY <1>1, <1>2, Account
  <2>2. a.stopped = auth.stopped /\ a.completion = auth.completion
    BY <1>1 DEF Members
  <2> QED
    BY <2>1, <2>2, SMTT(30) DEF Running
<1>6. \/ Step(At(answered, stack))
      \/ Step(At([a EXCEPT !.acknowledged = TRUE], stack))
      \/ /\ FallsBack(a, request) /\ Running(auth)
         /\ Step(HandleChallengeState([a EXCEPT !.fallback = TRUE], stack, PhoneChallenge))
      \/ Step(ReportRejection(a, stack))
      \/ Step(FailAuthorization(a, stack, a.state))
  BY <1>3 DEF Respond, Call, o
<1> HIDE DEF answered, a
<1>7. \A c : Safe(a, c) => Safe(auth, c)
  BY <1>5, UnseenFirst DEF Safe
<1>8. CASE Step(At(answered, stack))
  <2>1. Safe(auth, At(answered, stack))
    BY <1>4 DEF Safe, At, ContractStep
  <2> QED
    BY <1>8, <2>1, SafeStep
<1>9. CASE Step(At([a EXCEPT !.acknowledged = TRUE], stack))
  BY <1>5, <1>7, <1>9, Acknowledge, SafeStep
<1>10. CASE /\ FallsBack(a, request) /\ Running(auth)
            /\ Step(HandleChallengeState([a EXCEPT !.fallback = TRUE], stack,
                                         PhoneChallenge))
  BY <1>5, <1>7, <1>10, FallBack, SafeStep DEF FallsBack
<1>11. CASE Step(ReportRejection(a, stack))
  BY <1>5, <1>7, <1>11, Reject, SafeStep
<1>12. CASE Step(FailAuthorization(a, stack, a.state))
  <2>1. a.state \in States
    BY <1>5 DEF MembersOK, Sound, Members
  <2> QED
    BY <1>5, <1>7, <1>12, <2>1, Fail, SafeStep
<1> QED
  BY <1>6, <1>8, <1>9, <1>10, <1>11, <1>12

--------------------------------------------------------------------------------
(* Call-outs that come back *)

LEMMA ReturnKeeps ==
  ASSUME IInv, ReturnToCaller \/ SenderAccepts
  PROVE  Keeps
<1>1. stack # <<>> /\ Step(At(auth, Tail(stack)))
  BY DEF ReturnToCaller, SenderAccepts, Back, Resume
<1>2. FramesOK(auth, Tail(stack))
  BY <1>1, PopFrame DEF IInv
<1>3. Safe(auth, At(auth, Tail(stack)))
  BY <1>2 DEF IInv, Safe, At, ContractStep, Unseen
<1> QED
  BY <1>1, <1>3, SafeStep

LEMMA ReturnEnteredKeeps ==
  ASSUME IInv, ReturnEntered
  PROVE  Keeps
<1>1. /\ stack # <<>> /\ Head(stack).kind = "entered"
      /\ Step(Entered(auth, Tail(stack), Head(stack)))
  BY DEF ReturnEntered, Back, Resume
<1>2. /\ FramesOK(auth, Tail(stack)) /\ FrameOK(auth, Head(stack))
      /\ \A i \in 1 .. Len(Tail(stack)) : Apart(Head(stack), Tail(stack)[i])
  BY <1>1, PopFrame DEF IInv
<1>3. Safe(auth, Entered(auth, Tail(stack), Head(stack)))
  BY <1>1, <1>2, TakeTurn DEF IInv
<1> QED
  BY <1>1, <1>3, SafeStep

LEMMA ReturnPromptKeeps ==
  ASSUME IInv, ReturnSubmitting \/ ReturnRejecting \/ ReturnRejected
  PROVE  Keeps
<1>1. stack # <<>>
  BY DEF ReturnSubmitting, ReturnRejecting, ReturnRejected, Back
<1>2. MembersOK(auth) /\ FramesOK(auth, Tail(stack))
  BY <1>1, PopFrame DEF IInv
<1>3. Safe(auth, At(auth, Tail(stack)))
  BY <1>2 DEF Safe, At, ContractStep, Unseen
<1>4. Safe(auth, SendRequest(auth, Tail(stack)))
  BY <1>2, Send
<1>5. Safe(auth, ReportRejection(auth, Tail(stack)))
  BY <1>2, Reject
<1>6. auth.pending = NoRequest => Safe(auth, IssuePrompt(auth, Tail(stack)))
  BY <1>2, Issue
<1> QED
  BY <1>3, <1>4, <1>5, <1>6, SafeStep
  DEF ReturnSubmitting, ReturnRejecting, ReturnRejected, Resume, AskAgain

LEMMA SenderFailsKeeps ==
  ASSUME IInv, SenderFails
  PROVE  Keeps
<1> DEFINE serial == Head(stack).serial
           o == {r \in auth.outstanding : r.serial # serial}
           a == [auth EXCEPT !.outstanding = o, !.pending = auth.pending]
           b == [auth EXCEPT !.outstanding = o, !.pending = NoRequest]
<1>1. stack # <<>>
  BY DEF SenderFails, Back
<1>2. MembersOK(auth) /\ FramesOK(auth, Tail(stack)) /\ auth \in Members
  BY <1>1, PopFrame DEF IInv, MembersOK, Sound
<1>3. o \in SUBSET Requests
  BY <1>2 DEF Members
<1>4. /\ [auth EXCEPT !.outstanding = {r \in @ : r.serial # serial}] = a
      /\ [[auth EXCEPT !.outstanding = {r \in @ : r.serial # serial}]
             EXCEPT !.pending = NoRequest] = b
  BY <1>2 DEF Members
<1>5. a.state = auth.state
  BY <1>2 DEF Members
<1>6. \/ Step(FailAuthorization(b, Tail(stack), auth.state))
      \/ Step(At(a, Tail(stack)))
  BY <1>4, <1>5 DEF SenderFails, Resume
<1> HIDE DEF o
<1>7. MembersOK(a) /\ FramesOK(a, Tail(stack)) /\ Unseen(auth, a)
  BY <1>2, <1>3, Account
<1>8. MembersOK(b) /\ FramesOK(b, Tail(stack)) /\ Unseen(auth, b)
  BY <1>2, <1>3, Account
<1> HIDE DEF a, b
<1>9. CASE Step(At(a, Tail(stack)))
  <2>1. Safe(auth, At(a, Tail(stack)))
    BY <1>7 DEF Safe, At, ContractStep
  <2> QED
    BY <1>9, <2>1, SafeStep
<1>10. CASE Step(FailAuthorization(b, Tail(stack), auth.state))
  <2>1. auth.state \in States
    BY <1>2 DEF Members
  <2>2. Safe(b, FailAuthorization(b, Tail(stack), auth.state))
    BY <1>8, <2>1, Fail
  <2>3. Safe(auth, FailAuthorization(b, Tail(stack), auth.state))
    BY <1>8, <2>2, UnseenFirst DEF Safe
  <2> QED
    BY <1>10, <2>3, SafeStep
<1> QED
  BY <1>6, <1>9, <1>10

LEMMA ReturnClosingKeeps ==
  ASSUME IInv, ReturnClosing
  PROVE  Keeps
<1>1. /\ stack # <<>> /\ Head(stack).kind = "closing"
      /\ Step(NotifyOutcome(auth, Tail(stack), Frame("outcome")))
  BY DEF ReturnClosing, Back, Resume
<1>2. /\ MembersOK(auth) /\ FramesOK(auth, Tail(stack)) /\ FrameOK(auth, Head(stack))
      /\ \A i \in 1 .. Len(Tail(stack)) : Apart(Head(stack), Tail(stack)[i])
  BY <1>1, PopFrame DEF IInv
<1>3. /\ auth.completion # "none" /\ auth.outcomes = <<>> /\ auth.prompt = 0
      /\ \A i \in 1 .. Len(Tail(stack)) : Tail(stack)[i].kind # "closing"
  BY <1>1, <1>2 DEF FrameOK, Apart, MembersOK, Presented, Running
<1>4. Frame("outcome") \in Frames /\ Frame("outcome").kind = "outcome"
  BY Defaults DEF Kinds
<1>5. Safe(auth, NotifyOutcome(auth, Tail(stack), Frame("outcome")))
  BY <1>2, <1>3, <1>4, TellOutcome
<1> QED
  BY <1>1, <1>5, SafeStep

LEMMA ReturnOutcomeKeeps ==
  ASSUME IInv, ReturnOutcome
  PROVE  Keeps
<1>1. stack # <<>>
  BY DEF ReturnOutcome, Back
<1>2. MembersOK(auth) /\ FramesOK(auth, Tail(stack))
  BY <1>1, PopFrame DEF IInv
<1>3. Safe(auth, At(auth, Tail(stack)))
  BY <1>2 DEF Safe, At, ContractStep, Unseen
<1>4. Safe(auth, At(StopAfterObserverFailure(auth), Tail(stack)))
  BY <1>2, StopSilently
<1>5. Safe(auth, CallOut(auth, Tail(stack), Frame("drain")))
  <2>1. FramesOK(auth, <<Frame("drain")>> \o Tail(stack))
    BY <1>2, Defaults, PushCall DEF Kinds
  <2> QED
    BY <1>2, <2>1 DEF Safe, CallOut, At, ContractStep, Unseen
<1>6. \/ Step(At(StopAfterObserverFailure(auth), Tail(stack)))
      \/ Step(CallOut(auth, Tail(stack), Frame("drain")))
      \/ Step(At(auth, Tail(stack)))
  BY DEF ReturnOutcome, Resume
<1> QED
  BY <1>3, <1>4, <1>5, <1>6, SafeStep

LEMMA DrainLifecycleKeeps ==
  ASSUME IInv, DrainLifecycle
  PROVE  Keeps
<1>1. MembersOK(auth) /\ FramesOK(auth, stack) /\ auth \in Members /\ stack # <<>>
  BY DEF IInv, MembersOK, Sound, DrainLifecycle, Back
<1>2. ASSUME NEW q \in Seq(LifecycleStates), NEW frames, FramesOK(auth, frames)
      PROVE  LET b == [auth EXCEPT !.queued = q]
             IN  MembersOK(b) /\ FramesOK(b, frames) /\ Unseen(auth, b)
  <2> DEFINE b == [auth EXCEPT !.queued = q]
  <2>1. b \in Members /\ Alike(auth, b)
    BY <1>1 DEF Members, Alike
  <2> QED
    BY <1>1, <1>2, <2>1, AlikeKeeps
<1>3. CASE auth.queued # <<>> /\ ~auth.stopped
  <2> DEFINE b == [auth EXCEPT !.queued = Tail(auth.queued)]
  <2>1. Tail(auth.queued) \in Seq(LifecycleStates) /\ Head(auth.queued) \in LifecycleStates
    <3>1. auth.queued \in Seq(LifecycleStates)
      BY <1>1 DEF Members
    <3> QED
      BY <1>3, <3>1
  <2>2. MembersOK(b) /\ FramesOK(b, stack) /\ Unseen(auth, b)
    BY <1>1, <1>2, <2>1
  <2>3. Step(DispatchLifecycle(b, stack, Head(auth.queued)))
    BY <1>3 DEF DrainLifecycle, Resume
  <2> HIDE DEF b
  <2>4. Safe(b, DispatchLifecycle(b, stack, Head(auth.queued)))
    BY <2>1, <2>2, Dispatch
  <2> QED
    BY <2>2, <2>3, <2>4, UnseenFirst, SafeStep DEF Safe
<1>4. CASE ~(auth.queued # <<>> /\ ~auth.stopped)
  <2> DEFINE b == [auth EXCEPT !.queued = <<>>]
  <2>1. FramesOK(auth, Tail(stack))
    BY <1>1, PopFrame
  <2>2. <<>> \in Seq(LifecycleStates)
    OBVIOUS
  <2>3. MembersOK(b) /\ FramesOK(b, Tail(stack)) /\ Unseen(auth, b)
    BY <1>2, <2>1, <2>2
  <2>4. Step(At(b, Tail(stack)))
    BY <1>4 DEF DrainLifecycle, Resume
  <2> HIDE DEF b
  <2>5. Safe(auth, At(b, Tail(stack)))
    BY <2>3 DEF Safe, At, ContractStep
  <2> QED
    BY <2>4, <2>5, SafeStep
<1> QED
  BY <1>3, <1>4

LEMMA ObserverThrowsKeeps ==
  ASSUME IInv, ObserverThrows
  PROVE  Keeps
<1>1. MembersOK(auth) /\ FramesOK(auth, stack) /\ auth \in Members /\ stack # <<>>
  BY DEF IInv, MembersOK, Sound, ObserverThrows
<1>2. /\ FramesOK(auth, Tail(stack)) /\ FrameOK(auth, Head(stack))
      /\ \A i \in 1 .. Len(Tail(stack)) : Apart(Head(stack), Tail(stack)[i])
  BY <1>1, PopFrame
<1>3. Safe(auth, CompleteObserverFailure(auth, Tail(stack)))
  BY <1>1, <1>2, ObserverFails
<1>4. Safe(auth, At(StopAfterObserverFailure(auth), Tail(stack)))
  BY <1>1, <1>2, StopSilently
<1> DEFINE b == [auth EXCEPT !.observerFailed = TRUE]
           f == [Frame("outcome") EXCEPT !.failed = TRUE]
<1>5. Head(stack).kind = "closing" => Safe(auth, NotifyOutcome(b, Tail(stack), f))
  <2> SUFFICES ASSUME Head(stack).kind = "closing"
               PROVE  Safe(auth, NotifyOutcome(b, Tail(stack), f))
    OBVIOUS
  <2>1. /\ auth.completion # "none" /\ auth.outcomes = <<>> /\ auth.prompt = 0
        /\ \A i \in 1 .. Len(Tail(stack)) : Tail(stack)[i].kind # "closing"
    BY <1>1, <1>2 DEF FrameOK, Apart, MembersOK, Presented, Running
  <2>2. f \in Frames /\ f.kind = "outcome"
    <3>1. Frame("outcome") \in Frames /\ Frame("outcome").kind = "outcome"
      BY Defaults DEF Kinds
    <3> QED
      BY <3>1 DEF Frames
  <2>3. b \in Members /\ b.observerFailed
    BY <1>1 DEF Members
  <2>4. /\ b.prompt = auth.prompt /\ b.lastPrompt = auth.lastPrompt
        /\ b.offered = auth.offered /\ b.outcomes = auth.outcomes
        /\ b.completion = auth.completion /\ b.challenge = auth.challenge
        /\ b.closed = auth.closed /\ b.mode = auth.mode /\ b.fallback = auth.fallback
        /\ b.qrFlow = auth.qrFlow /\ b.epoch = auth.epoch /\ b.stopped = auth.stopped
        /\ b.pending = auth.pending /\ b.state = auth.state
        /\ b.qrRequested = auth.qrRequested
    BY <1>1 DEF Members
  <2> HIDE DEF b, f
  <2>5. MembersOK(b)
    BY <1>1, <2>3, <2>4 DEF MembersOK, Sound, PromptsKnown, QrOrPhone, PrefersQr,
      OutcomeOK, Presented, Running
  <2>6. FramesOK(b, Tail(stack))
    BY <1>1, <1>2, <2>3, <2>4, LaterFrames DEF Later, Running
  <2>7. Safe(b, NotifyOutcome(b, Tail(stack), f))
    BY <2>1, <2>2, <2>4, <2>5, <2>6, TellOutcome
  <2>8. Unseen(auth, b)
    BY <2>4 DEF Unseen
  <2> QED
    BY <2>7, <2>8, UnseenFirst DEF Safe
<1>6. \/ Step(CompleteObserverFailure(auth, Tail(stack)))
      \/ Head(stack).kind = "closing" /\ Step(NotifyOutcome(b, Tail(stack), f))
      \/ Step(At(StopAfterObserverFailure(auth), Tail(stack)))
  BY DEF ObserverThrows, Back, Resume
<1> HIDE DEF b, f
<1> QED
  BY <1>3, <1>4, <1>5, <1>6, SafeStep

--------------------------------------------------------------------------------
(* The theorems *)

LEMMA Initially == Init => IInv
<1> SUFFICES ASSUME Init PROVE IInv
  OBVIOUS
<1>1. PICK mode \in Modes, valid \in BOOLEAN :
        auth = [mode |-> mode, valid |-> valid,
               stopped |-> FALSE, completion |-> "none",
               state |-> "None", epoch |-> 0,
               challenge |-> NoChallenge,
               prompt |-> 0, promptType |-> "None", link |-> EmptyLink,
               lastPrompt |-> 0,
               qrRequested |-> FALSE, qrFlow |-> FALSE, fallback |-> FALSE,
               pending |-> NoRequest, lastSerial |-> 0,
               notified |-> {}, queued |-> <<>>,
               outstanding |-> {}, acknowledged |-> FALSE,
               closed |-> {}, offered |-> {}, rejections |-> 0,
               outcomes |-> <<>>, arrived |-> <<>>, seen |-> <<>>,
               observerFailed |-> FALSE]
  BY DEF Init
<1>2. auth \in Members
  <2>1. <<>> \in Seq(LifecycleStates) /\ <<>> \in Seq(Completions)
    OBVIOUS
  <2>2. "None" \in States /\ "none" \in Completions
    BY DEF States, Completions
  <2> QED
    BY <1>1, <2>1, <2>2, Defaults DEF Members
<1>3. MembersOK(auth)
  BY <1>1, <1>2, Defaults DEF MembersOK, Sound, PromptsKnown, QrOrPhone, OutcomeOK,
    Presented
<1>4. FramesOK(auth, stack)
  BY DEF Init, FramesOK
<1> QED
  BY <1>3, <1>4 DEF IInv

LEMMA StepKeeps ==
  ASSUME IInv, [Next]_vars
  PROVE  Keeps
<1>1. CASE UNCHANGED vars
  BY <1>1 DEF vars, Keeps, IInv, ContractStep, Unseen
<1>2. CASE Next
  BY <1>2, UpdateTdlibParametersKeeps, UpdatePhoneNumberKeeps, UpdateChallengeKeeps,
    UpdateQrLinkKeeps, UpdateUnsupportedKeeps, UpdateReadyKeeps, HandleLifecycleKeeps,
    SubmitKeeps, SubmitNothingKeeps, CancelKeeps, ShutdownKeeps, RespondKeeps,
    ReturnKeeps, ReturnEnteredKeeps, ReturnPromptKeeps, SenderFailsKeeps,
    ReturnClosingKeeps, ReturnOutcomeKeeps, DrainLifecycleKeeps, ObserverThrowsKeeps
  DEF Next
<1> QED
  BY <1>1, <1>2

THEOREM InvariantHolds == Spec => []IInv
<1>1. Init => IInv
  BY Initially
<1>2. IInv /\ [Next]_vars => IInv'
  BY StepKeeps DEF Keeps
<1> QED
  BY <1>1, <1>2, PTL DEF Spec

\* Prompts are paired, the open one has no request beside it, and a login that
\* prefers QR codes never mixes the two ways, however the calls are nested.
THEOREM PairedPrompts == Spec => []PromptsArePaired
<1>1. IInv => PromptsArePaired
  <2> SUFFICES ASSUME IInv PROVE PromptsArePaired
    OBVIOUS
  <2>1. /\ auth \in Members /\ PromptsKnown(auth) /\ QrOrPhone(auth) /\ Presented(auth)
    BY DEF IInv, MembersOK, Sound
  <2>2. ~auth.observerFailed =>
          (1 .. auth.lastPrompt) \ auth.closed = {auth.prompt} \ {0}
    <3>1. auth.prompt \in Nat /\ auth.lastPrompt \in Nat
      BY <2>1 DEF Members
    <3> QED
      BY <2>1, <3>1 DEF PromptsKnown
  <2>3. auth.prompt # 0 => auth.pending = NoRequest
    BY <2>1 DEF Presented
  <2>4. auth.mode # "phone" => ~({"QrCode", "WaitPhoneNumber"} \subseteq auth.offered)
    BY <2>1 DEF QrOrPhone, PrefersQr
  <2> QED
    BY <2>2, <2>3, <2>4 DEF PromptsArePaired
<1> QED
  BY <1>1, InvariantHolds, PTL

\* The observer's view of the login is the one the contract promises: every step of
\* the controller is one of the contract or hidden from the observer.
THEOREM LoginContractKept == Spec => KeepsLoginContract
<1>1. Init => Login!Init
  BY DEF Init, Login!Init
<1>2. IInv /\ [Next]_vars => [Login!Next]_(Login!vars)
  <2> SUFFICES ASSUME IInv, [Next]_vars PROVE [Login!Next]_(Login!vars)
    OBVIOUS
  <2>1. ContractStep(auth, auth')
    BY StepKeeps DEF Keeps
  <2>2. CASE Unseen(auth, auth')
    BY <2>2 DEF Unseen, Login!vars
  <2>3. CASE Shown(auth, auth')
    BY <2>3 DEF Shown, Login!Next, Login!Show
  <2>4. CASE Closed(auth, auth')
    BY <2>4 DEF Closed, Login!Next, Login!Close
  <2>5. CASE Finished(auth, auth')
    BY <2>5 DEF Finished, Login!Next, Login!Finish
  <2>6. CASE Stopped(auth, auth')
    BY <2>6 DEF Stopped, Login!Next, Login!Stop
  <2> QED
    BY <2>1, <2>2, <2>3, <2>4, <2>5, <2>6 DEF ContractStep
<1> QED
  BY <1>1, <1>2, InvariantHolds, PTL DEF Spec, KeepsLoginContract, Login!Spec

--------------------------------------------------------------------------------
(* What the observer hears, and who has the next move *)

\* A queue of lifecycle states holds every state that has arrived and was not told
\* yet, and none before those that arrived earlier.
Ordered(seen, arrived, queued) ==
  /\ \A k \in 1 .. Len(queued) : \E n \in 1 .. Len(arrived) :
       /\ arrived[n] = queued[k]
       /\ \A m \in Len(seen) + 1 .. n - 1 : \E l \in 1 .. k - 1 : queued[l] = arrived[m]
  /\ \A m \in Len(seen) + 1 .. Len(arrived) :
       \E l \in 1 .. Len(queued) : queued[l] = arrived[m]

Begins(seen, arrived) ==
  /\ Len(seen) <= Len(arrived)
  /\ \A n \in 1 .. Len(seen) : seen[n] = arrived[n]

Distinct(arrived) ==
  \A m, n \in 1 .. Len(arrived) : arrived[m] = arrived[n] => m = n

\* The lifecycle states told so far are the first to have arrived, the others are
\* queued in order.
Heard(a) ==
  /\ Begins(a.seen, a.arrived) /\ Distinct(a.arrived)
  /\ a.completion # "ready" => a.seen = <<>> /\ a.arrived = <<>>
  /\ a.completion = "ready" => a.notified = ToSet(a.seen)
  /\ a.completion = "none" => a.notified = {} /\ a.queued = <<>>
  /\ a.stopped => a.queued = <<>>
  /\ a.completion = "ready" /\ ~a.stopped => Ordered(a.seen, a.arrived, a.queued)

Telling == {"closing", "outcome"}
Afterwards == {"closing", "outcome", "drain", "lifecycle"}

\* Nothing that follows the end of the login is above its outcome.
Sorted(frames) ==
  \A i, j \in 1 .. Len(frames) :
    i < j /\ frames[i].kind \in Afterwards => frames[j].kind \notin Telling

\* An outcome not told yet is about to be, and so are the states queued.
Tells(a, frames) ==
  /\ a.completion = "none" => \A f \in ToSet(frames) : f.kind \notin Afterwards
  /\ a.completion # "none" /\ a.outcomes = <<>> =>
       \E f \in ToSet(frames) : f.kind = "closing"
  /\ a.queued # <<>> => \E f \in ToSet(frames) : f.kind \in {"closing", "outcome", "drain"}
  /\ Sorted(frames)

\* Serials and epochs are not ahead of the controller's.
Known(a, W) ==
  /\ a.prompt = 0 <=> a.promptType = "None"
  /\ a.pending = NoRequest \/ a.pending.serial \in 1 .. a.lastSerial
  /\ \A r \in a.outstanding :
       /\ r.serial \in 1 .. a.lastSerial
       /\ r.serial = a.pending.serial => r = a.pending
  /\ \A f \in W :
       /\ f.kind = "submitting" => f.serial # 0
       /\ f.kind \in {"rejecting", "rejected"} => f.epoch <= a.epoch

\* A request of this epoch is with the sender or about to be.
UnderWay(a, W) ==
  /\ a.pending.epoch = a.epoch
  /\ \/ a.pending \in a.outstanding
     \/ \E f \in W : f.kind = "submitting" /\ f.serial = a.pending.serial

\* The user was asked for something, and will be again if the answer is rejected.
Asking(a, W) ==
  \/ a.prompt # 0 /\ a.promptType # "QrCode"
  \/ a.pending.operation = "Submit"
  \/ \E f \in W : f.kind \in {"rejecting", "rejected"} /\ f.epoch = a.epoch

Asked(a, W) ==
  Running(a) =>
    /\ a.pending # NoRequest => UnderWay(a, W)
    /\ Asking(a, W) => a.challenge # NoChallenge

\* What the handler of the frame will do once the call-out returns.
CarriesOn(a, f) ==
  \/ f.kind \in {"entered", "rejecting"} /\ IsCurrentState(a, f.epoch, f.state)
  \/ f.kind = "rejected" /\ f.epoch = a.epoch

\* Somebody has the next move.
Attended(a, W) ==
  Running(a) /\ a.state # "None" =>
    \/ a.prompt # 0 \/ a.pending # NoRequest \/ a.acknowledged
    \/ \E f \in W : CarriesOn(a, f)

Minded(a, W) == Known(a, W) /\ Asked(a, W) /\ Attended(a, W)

\* Only the drain loop calls out below its own frame.
DepthOK(frames) ==
  \/ Len(frames) <= MaxDepth
  \/ Len(frames) <= MaxDepth + 1 /\ Head(frames).kind = "lifecycle"

TInv ==
  /\ Heard(auth) /\ Tells(auth, stack) /\ Minded(auth, ToSet(stack))
  /\ DepthOK(stack) /\ calls \in 0 .. MaxCalls

--------------------------------------------------------------------------------
(* Frames pushed and popped *)

LEMMA Pushed ==
  ASSUME NEW frames \in Seq(Frames), NEW f \in Frames
  PROVE  /\ <<f>> \o frames \in Seq(Frames) /\ Len(<<f>> \o frames) = Len(frames) + 1
         /\ Head(<<f>> \o frames) = f /\ <<f>> \o frames # <<>>
         /\ ToSet(<<f>> \o frames) = {f} \cup ToSet(frames)
<1> DEFINE more == <<f>> \o frames
<1>1. /\ more \in Seq(Frames) /\ Len(more) = Len(frames) + 1 /\ more[1] = f
      /\ \A i \in 2 .. Len(more) : i - 1 \in 1 .. Len(frames) /\ more[i] = frames[i - 1]
      /\ \A i \in 1 .. Len(frames) : i + 1 \in 1 .. Len(more) /\ more[i + 1] = frames[i]
  OBVIOUS
<1>2. DOMAIN more = 1 .. Len(more) /\ DOMAIN frames = 1 .. Len(frames)
  BY <1>1
<1> HIDE DEF more
<1>3. ToSet(more) \subseteq {f} \cup ToSet(frames)
  <2>1. ASSUME NEW i \in 1 .. Len(more) PROVE more[i] = f \/ more[i] \in ToSet(frames)
    <3>1. i = 1 \/ i \in 2 .. Len(more)
      OBVIOUS
    <3> QED
      BY <1>1, <1>2, <3>1 DEF ToSet
  <2> QED
    BY <1>2, <2>1 DEF ToSet
<1>4. {f} \cup ToSet(frames) \subseteq ToSet(more)
  <2>1. 1 \in 1 .. Len(more)
    BY <1>1
  <2>2. ASSUME NEW i \in 1 .. Len(frames) PROVE frames[i] \in ToSet(more)
    BY <1>1, <1>2 DEF ToSet
  <2> QED
    BY <1>1, <1>2, <2>1, <2>2 DEF ToSet
<1>5. Head(more) = f /\ more # <<>>
  BY <1>1
<1> QED
  BY <1>1, <1>3, <1>4, <1>5 DEF more

LEMMA PushedSorted ==
  ASSUME NEW frames \in Seq(Frames), NEW f \in Frames, Sorted(frames),
         f.kind \in Afterwards => \A g \in ToSet(frames) : g.kind \notin Telling
  PROVE  Sorted(<<f>> \o frames)
<1> DEFINE more == <<f>> \o frames
<1>1. /\ Len(more) = Len(frames) + 1 /\ more[1] = f /\ Len(frames) \in Nat
      /\ \A i \in 2 .. Len(more) : i - 1 \in 1 .. Len(frames) /\ more[i] = frames[i - 1]
      /\ DOMAIN frames = 1 .. Len(frames)
  OBVIOUS
<1> HIDE DEF more
<1>2. ASSUME NEW i \in 1 .. Len(more), NEW j \in 1 .. Len(more), i < j,
             more[i].kind \in Afterwards
      PROVE  more[j].kind \notin Telling
  <2>1. j - 1 \in 1 .. Len(frames) /\ more[j] = frames[j - 1]
    BY <1>1, <1>2
  <2>2. CASE i = 1
    <3>1. frames[j - 1] \in ToSet(frames)
      BY <1>1, <2>1 DEF ToSet
    <3> QED
      BY <1>1, <1>2, <2>1, <2>2, <3>1
  <2>3. CASE i # 1
    <3>1. i - 1 \in 1 .. Len(frames) /\ more[i] = frames[i - 1] /\ i - 1 < j - 1
      BY <1>1, <1>2, <2>3
    <3> QED
      BY <1>2, <2>1, <3>1 DEF Sorted
  <2> QED
    BY <2>2, <2>3
<1> QED
  BY <1>2 DEF Sorted, more

LEMMA Popped ==
  ASSUME NEW frames \in Seq(Frames), frames # <<>>
  PROVE  /\ Head(frames) \in Frames /\ Tail(frames) \in Seq(Frames)
         /\ Len(frames) = Len(Tail(frames)) + 1
         /\ ToSet(frames) = {Head(frames)} \cup ToSet(Tail(frames))
         /\ Sorted(frames) => /\ Sorted(Tail(frames))
                              /\ Head(frames).kind \in Afterwards =>
                                   \A g \in ToSet(Tail(frames)) : g.kind \notin Telling
<1> DEFINE f == Head(frames)
           rest == Tail(frames)
<1>1. /\ f \in Frames /\ rest \in Seq(Frames) /\ Len(frames) = Len(rest) + 1
      /\ frames[1] = f /\ Len(rest) \in Nat
      /\ \A i \in 1 .. Len(rest) : i + 1 \in 1 .. Len(frames) /\ rest[i] = frames[i + 1]
      /\ DOMAIN rest = 1 .. Len(rest) /\ frames = <<f>> \o rest
  OBVIOUS
<1> HIDE DEF f, rest
<1>2. ToSet(frames) = {f} \cup ToSet(rest)
  BY <1>1, Pushed
<1>3. ASSUME Sorted(frames) PROVE Sorted(rest)
  <2>1. ASSUME NEW i \in 1 .. Len(rest), NEW j \in 1 .. Len(rest), i < j,
               rest[i].kind \in Afterwards
        PROVE  rest[j].kind \notin Telling
    <3>1. i + 1 \in 1 .. Len(frames) /\ j + 1 \in 1 .. Len(frames) /\ i + 1 < j + 1
      BY <1>1, <2>1
    <3> QED
      BY <1>1, <1>3, <2>1, <3>1 DEF Sorted
  <2> QED
    BY <2>1 DEF Sorted
<1>4. ASSUME Sorted(frames), f.kind \in Afterwards, NEW g \in ToSet(rest)
      PROVE  g.kind \notin Telling
  <2>1. PICK i \in 1 .. Len(rest) : g = rest[i]
    BY <1>1 DEF ToSet
  <2>2. i + 1 \in 1 .. Len(frames) /\ 1 \in 1 .. Len(frames) /\ 1 < i + 1
    BY <1>1
  <2> QED
    BY <1>1, <1>4, <2>1, <2>2 DEF Sorted
<1> QED
  BY <1>1, <1>2, <1>3, <1>4 DEF f, rest

--------------------------------------------------------------------------------
(* The queue of lifecycle states *)

LEMMA Emptied ==
  ASSUME NEW seen \in Seq(LifecycleStates), NEW arrived \in Seq(LifecycleStates),
         Begins(seen, arrived), Ordered(seen, arrived, <<>>)
  PROVE  seen = arrived
<1>1. Len(seen) \in Nat /\ Len(arrived) \in Nat
  OBVIOUS
<1>2. Len(seen) = Len(arrived)
  <2>1. CASE Len(seen) < Len(arrived)
    <3>1. Len(arrived) \in Len(seen) + 1 .. Len(arrived)
      BY <1>1, <2>1
    <3> QED
      BY <3>1 DEF Ordered
  <2> QED
    BY <1>1, <2>1 DEF Begins
<1> QED
  BY <1>2 DEF Begins

\* A state that has arrived before is queued once more.
LEMMA QueuedAgain ==
  ASSUME NEW seen \in Seq(LifecycleStates), NEW arrived \in Seq(LifecycleStates),
         NEW queued \in Seq(LifecycleStates), NEW state \in ToSet(arrived),
         state \in LifecycleStates, Ordered(seen, arrived, queued)
  PROVE  Ordered(seen, arrived, Append(queued, state))
<1> DEFINE more == Append(queued, state)
<1>1. /\ Len(more) = Len(queued) + 1 /\ more[Len(more)] = state /\ Len(queued) \in Nat
      /\ Len(seen) \in Nat /\ Len(arrived) \in Nat
      /\ \A l \in 1 .. Len(queued) : l \in 1 .. Len(more) /\ more[l] = queued[l]
  OBVIOUS
<1>2. PICK n \in 1 .. Len(arrived) : arrived[n] = state
  BY DEF ToSet
<1> HIDE DEF more
<1>3. ASSUME NEW m \in Len(seen) + 1 .. Len(arrived)
      PROVE  \E l \in 1 .. Len(queued) : more[l] = arrived[m]
  BY <1>1 DEF Ordered
<1>4. ASSUME NEW k \in 1 .. Len(more)
      PROVE  \E i \in 1 .. Len(arrived) :
               /\ arrived[i] = more[k]
               /\ \A m \in Len(seen) + 1 .. i - 1 : \E l \in 1 .. k - 1 : more[l] = arrived[m]
  <2>1. CASE k = Len(more)
    <3>1. \A m \in Len(seen) + 1 .. n - 1 : m \in Len(seen) + 1 .. Len(arrived)
      BY <1>1
    <3>2. k - 1 = Len(queued) /\ arrived[n] = more[k]
      BY <1>1, <1>2, <2>1
    <3> QED
      BY <1>3, <3>1, <3>2
  <2>2. CASE k # Len(more)
    <3>1. k \in 1 .. Len(queued)
      BY <1>1, <2>2
    <3>2. PICK i \in 1 .. Len(arrived) :
            /\ arrived[i] = queued[k]
            /\ \A m \in Len(seen) + 1 .. i - 1 :
                 \E l \in 1 .. k - 1 : queued[l] = arrived[m]
      BY <3>1 DEF Ordered
    <3>3. \A l \in 1 .. k - 1 : l \in 1 .. Len(queued)
      BY <1>1, <3>1
    <3>4. \A m \in Len(seen) + 1 .. i - 1 : \E l \in 1 .. k - 1 : more[l] = arrived[m]
      BY <1>1, <3>2, <3>3
    <3> QED
      BY <1>1, <3>1, <3>2, <3>4
  <2> QED
    BY <2>1, <2>2
<1>5. \A m \in Len(seen) + 1 .. Len(arrived) : \E l \in 1 .. Len(more) : more[l] = arrived[m]
  BY <1>1, <1>3
<1> QED
  BY <1>4, <1>5 DEF Ordered, more

\* A state that arrives for the first time is queued behind those before it.
LEMMA QueuedFirst ==
  ASSUME NEW seen \in Seq(LifecycleStates), NEW arrived \in Seq(LifecycleStates),
         NEW queued \in Seq(LifecycleStates), NEW state \in LifecycleStates,
         Begins(seen, arrived), Ordered(seen, arrived, queued)
  PROVE  Ordered(seen, Append(arrived, state), Append(queued, state))
<1> DEFINE more == Append(queued, state)
           all == Append(arrived, state)
<1>1. /\ Len(more) = Len(queued) + 1 /\ more[Len(more)] = state /\ Len(queued) \in Nat
      /\ \A l \in 1 .. Len(queued) : l \in 1 .. Len(more) /\ more[l] = queued[l]
  OBVIOUS
<1>2. /\ Len(all) = Len(arrived) + 1 /\ all[Len(all)] = state /\ Len(arrived) \in Nat
      /\ \A m \in 1 .. Len(arrived) : m \in 1 .. Len(all) /\ all[m] = arrived[m]
      /\ Len(seen) \in Nat
  OBVIOUS
<1> HIDE DEF more, all
<1>3. ASSUME NEW m \in Len(seen) + 1 .. Len(arrived)
      PROVE  all[m] = arrived[m] /\ \E l \in 1 .. Len(queued) : more[l] = all[m]
  <2>1. m \in 1 .. Len(arrived)
    BY <1>2
  <2> QED
    BY <1>1, <1>2, <2>1 DEF Ordered
<1>4. ASSUME NEW k \in 1 .. Len(more)
      PROVE  \E i \in 1 .. Len(all) :
               /\ all[i] = more[k]
               /\ \A m \in Len(seen) + 1 .. i - 1 : \E l \in 1 .. k - 1 : more[l] = all[m]
  <2>1. CASE k = Len(more)
    <3>1. /\ \A m \in Len(seen) + 1 .. Len(all) - 1 : m \in Len(seen) + 1 .. Len(arrived)
          /\ k - 1 = Len(queued) /\ all[Len(all)] = more[k] /\ Len(all) \in 1 .. Len(all)
      BY <1>1, <1>2, <2>1
    <3> QED
      BY <1>3, <3>1
  <2>2. CASE k # Len(more)
    <3>1. k \in 1 .. Len(queued)
      BY <1>1, <2>2
    <3>2. PICK i \in 1 .. Len(arrived) :
            /\ arrived[i] = queued[k]
            /\ \A m \in Len(seen) + 1 .. i - 1 :
                 \E l \in 1 .. k - 1 : queued[l] = arrived[m]
      BY <3>1 DEF Ordered
    <3>3. /\ \A l \in 1 .. k - 1 : l \in 1 .. Len(queued)
          /\ \A m \in Len(seen) + 1 .. i - 1 : m \in 1 .. Len(arrived)
      BY <1>1, <1>2, <3>1
    <3>4. \A m \in Len(seen) + 1 .. i - 1 : \E l \in 1 .. k - 1 : more[l] = all[m]
      BY <1>1, <1>2, <3>2, <3>3
    <3> QED
      BY <1>1, <1>2, <3>1, <3>2, <3>4
  <2> QED
    BY <2>1, <2>2
<1>5. ASSUME NEW m \in Len(seen) + 1 .. Len(all)
      PROVE  \E l \in 1 .. Len(more) : more[l] = all[m]
  <2>1. CASE m = Len(all)
    BY <1>1, <1>2, <2>1
  <2>2. CASE m # Len(all)
    <3>1. m \in Len(seen) + 1 .. Len(arrived)
      BY <1>2, <2>2
    <3> QED
      BY <1>1, <1>3, <3>1
  <2> QED
    BY <2>1, <2>2
<1> QED
  BY <1>4, <1>5 DEF Ordered, more, all

\* The oldest state of the queue was told already, or is the next to be told.
LEMMA Dequeued ==
  ASSUME NEW seen \in Seq(LifecycleStates), NEW arrived \in Seq(LifecycleStates),
         NEW queued \in Seq(LifecycleStates), queued # <<>>,
         Begins(seen, arrived), Distinct(arrived), Ordered(seen, arrived, queued)
  PROVE  LET next == IF Head(queued) \in ToSet(seen) THEN seen
                                                     ELSE Append(seen, Head(queued))
         IN  Begins(next, arrived) /\ Ordered(next, arrived, Tail(queued))
<1> DEFINE state == Head(queued)
           rest == Tail(queued)
           next == IF state \in ToSet(seen) THEN seen ELSE Append(seen, state)
<1>1. /\ state = queued[1] /\ 1 \in 1 .. Len(queued) /\ Len(queued) = Len(rest) + 1
      /\ \A k \in 1 .. Len(rest) : k + 1 \in 1 .. Len(queued) /\ rest[k] = queued[k + 1]
      /\ Len(seen) \in Nat /\ Len(arrived) \in Nat /\ Len(rest) \in Nat
  OBVIOUS
<1>2. state \in LifecycleStates
  BY <1>1
<1> HIDE DEF state, rest
<1>3. PICK p \in 1 .. Len(arrived) :
        /\ arrived[p] = state
        /\ \A m \in Len(seen) + 1 .. p - 1 : \E l \in 1 .. 1 - 1 : queued[l] = arrived[m]
  <2>1. PICK p \in 1 .. Len(arrived) :
          /\ arrived[p] = queued[1]
          /\ \A m \in Len(seen) + 1 .. p - 1 : \E l \in 1 .. 1 - 1 : queued[l] = arrived[m]
    BY <1>1 DEF Ordered
  <2> QED
    BY <1>1, <2>1
<1>4. \A m \in Len(seen) + 1 .. p - 1 : FALSE
  BY <1>3
<1>5. p <= Len(seen) + 1
  <2>1. CASE p > Len(seen) + 1
    <3>1. Len(seen) + 1 \in Len(seen) + 1 .. p - 1
      BY <1>1, <2>1
    <3> QED
      BY <1>4, <3>1
  <2> QED
    BY <1>1, <2>1
<1>6. /\ Begins(next, arrived) /\ Len(next) \in Nat /\ p <= Len(next)
      /\ Len(seen) <= Len(next)
  <2>1. CASE state \in ToSet(seen)
    <3>1. PICK n \in 1 .. Len(seen) : seen[n] = state
      BY <2>1 DEF ToSet
    <3>2. arrived[n] = state /\ n \in 1 .. Len(arrived)
      BY <1>1, <3>1 DEF Begins
    <3>3. n = p
      BY <1>3, <3>2 DEF Distinct
    <3> QED
      BY <1>1, <2>1, <3>1, <3>3
  <2>2. CASE state \notin ToSet(seen)
    <3>1. p = Len(seen) + 1
      <4>1. CASE p \in 1 .. Len(seen)
        <5>1. seen[p] = state
          BY <1>3, <4>1 DEF Begins
        <5> QED
          BY <2>2, <4>1, <5>1 DEF ToSet
      <4>2. p \in Nat /\ 1 <= p /\ Len(seen) \in Nat
        BY <1>1
      <4> QED
        BY <1>5, <4>1, <4>2
    <3>2. /\ next = Append(seen, state) /\ Len(next) = Len(seen) + 1
          /\ next[Len(next)] = state /\ \A n \in 1 .. Len(seen) : next[n] = seen[n]
      BY <1>2, <2>2
    <3> QED
      BY <1>1, <1>3, <3>1, <3>2 DEF Begins
  <2> QED
    BY <2>1, <2>2
<1> HIDE DEF next
<1>7. ASSUME NEW m \in Len(next) + 1 .. Len(arrived), NEW l \in 1 .. Len(queued),
             queued[l] = arrived[m]
      PROVE  l - 1 \in 1 .. Len(rest) /\ rest[l - 1] = arrived[m]
  <2>1. m \in 1 .. Len(arrived) /\ m # p
    BY <1>1, <1>6
  <2>2. l # 1
    BY <1>1, <1>3, <1>7, <2>1 DEF Distinct
  <2>3. l - 1 \in 1 .. Len(rest)
    BY <1>1, <2>2
  <2> QED
    BY <1>1, <1>7, <2>3
<1>8. ASSUME NEW k \in 1 .. Len(rest)
      PROVE  \E n \in 1 .. Len(arrived) :
               /\ arrived[n] = rest[k]
               /\ \A m \in Len(next) + 1 .. n - 1 : \E l \in 1 .. k - 1 : rest[l] = arrived[m]
  <2>1. k + 1 \in 1 .. Len(queued) /\ rest[k] = queued[k + 1] /\ (k + 1) - 1 = k
    BY <1>1
  <2>2. PICK n \in 1 .. Len(arrived) :
          /\ arrived[n] = queued[k + 1]
          /\ \A m \in Len(seen) + 1 .. n - 1 : \E l \in 1 .. k : queued[l] = arrived[m]
    BY <2>1 DEF Ordered
  <2>3. ASSUME NEW m \in Len(next) + 1 .. n - 1
        PROVE  \E l \in 1 .. k - 1 : rest[l] = arrived[m]
    <3>1. m \in Len(seen) + 1 .. n - 1 /\ m \in Len(next) + 1 .. Len(arrived)
      BY <1>1, <1>6
    <3>2. PICK l \in 1 .. k : queued[l] = arrived[m]
      BY <2>2, <3>1
    <3>3. l \in 1 .. Len(queued)
      BY <1>1
    <3>4. l - 1 \in 1 .. Len(rest) /\ rest[l - 1] = arrived[m]
      BY <1>7, <3>1, <3>2, <3>3
    <3>5. l - 1 \in 1 .. k - 1
      BY <3>4
    <3> QED
      BY <3>4, <3>5
  <2> QED
    BY <2>1, <2>2, <2>3
<1>9. ASSUME NEW m \in Len(next) + 1 .. Len(arrived)
      PROVE  \E l \in 1 .. Len(rest) : rest[l] = arrived[m]
  <2>1. m \in Len(seen) + 1 .. Len(arrived)
    BY <1>1, <1>6
  <2>2. PICK l \in 1 .. Len(queued) : queued[l] = arrived[m]
    BY <2>1 DEF Ordered
  <2> QED
    BY <1>7, <2>2
<1>10. Ordered(next, arrived, rest)
  BY <1>8, <1>9 DEF Ordered
<1> QED
  BY <1>6, <1>10 DEF next, state, rest

\* Sequences that grow by one state.
LEMMA Grown ==
  ASSUME NEW s \in Seq(LifecycleStates), NEW state \in LifecycleStates
  PROVE  /\ Append(s, state) \in Seq(LifecycleStates)
         /\ ToSet(Append(s, state)) = ToSet(s) \cup {state}
         /\ Distinct(s) /\ state \notin ToSet(s) => Distinct(Append(s, state))
         /\ Begins(s, s) /\ Ordered(s, s, <<>>)
<1> DEFINE more == Append(s, state)
<1>1. /\ Len(more) = Len(s) + 1 /\ more[Len(more)] = state /\ Len(s) \in Nat
      /\ \A n \in 1 .. Len(s) : n \in 1 .. Len(more) /\ more[n] = s[n]
      /\ DOMAIN s = 1 .. Len(s) /\ DOMAIN more = 1 .. Len(more)
      /\ more \in Seq(LifecycleStates)
  OBVIOUS
<1> HIDE DEF more
<1>2. ASSUME NEW n \in 1 .. Len(more)
      PROVE  n = Len(more) \/ (n \in 1 .. Len(s) /\ more[n] = s[n] /\ s[n] \in ToSet(s))
  BY <1>1 DEF ToSet
<1>3. ToSet(more) \subseteq ToSet(s) \cup {state}
  BY <1>1, <1>2 DEF ToSet
<1>4. ToSet(s) \cup {state} \subseteq ToSet(more)
  <2>1. Len(more) \in 1 .. Len(more)
    BY <1>1
  <2>2. \A n \in 1 .. Len(s) : s[n] \in ToSet(more)
    BY <1>1 DEF ToSet
  <2> QED
    BY <1>1, <2>1, <2>2 DEF ToSet
<1>5. Distinct(s) /\ state \notin ToSet(s) => Distinct(more)
  BY <1>1, <1>2 DEF Distinct
<1>6. Begins(s, s) /\ Ordered(s, s, <<>>)
  BY <1>1 DEF Begins, Ordered
<1> QED
  BY <1>1, <1>3, <1>4, <1>5, <1>6 DEF more

--------------------------------------------------------------------------------
(* Steps of the controller, as far as the observer's news go *)

SameNews(a, b) ==
  /\ b.completion = a.completion /\ b.stopped = a.stopped
  /\ b.notified = a.notified /\ b.queued = a.queued
  /\ b.arrived = a.arrived /\ b.seen = a.seen /\ b.outcomes = a.outcomes

\* A frame that tells nothing is on top, or none.
Neutral == {"shown", "entered", "submitting", "rejecting", "rejected", "sending"}
Added(frames, more) ==
  more = frames \/ \E f \in Frames : f.kind \in Neutral /\ more = <<f>> \o frames

Silent(a, frames, c) == SameNews(a, c.auth) /\ Added(frames, c.stack)

\* The login has ended: its outcome is told, or the prompt closed before it is.
Over(a, b) ==
  /\ a.completion = "none" /\ b.completion # "none"
  /\ b.completion = "ready" => b.notified = a.notified
  /\ b.stopped = a.stopped /\ b.queued = a.queued
  /\ b.arrived = a.arrived /\ b.seen = a.seen
Concludes(a, frames, c) ==
  /\ Over(a, c.auth)
  /\ \E f \in Frames :
       /\ c.stack = <<f>> \o frames
       /\ \/ f.kind = "closing"
          \/ f.kind = "outcome" /\ c.auth.outcomes # <<>>

\* The controller has stopped, and tells nothing any more.
Halts(a, frames, c) ==
  /\ c.auth.stopped /\ c.auth.queued = <<>>
  /\ c.auth.completion = a.completion /\ c.auth.notified = a.notified
  /\ c.auth.arrived = a.arrived /\ c.auth.seen = a.seen
  /\ c.auth.outcomes = a.outcomes
  /\ Added(frames, c.stack)

Proper(a, frames, c) ==
  Silent(a, frames, c) \/ Concludes(a, frames, c) \/ Halts(a, frames, c)

LEMMA Nothing == ToSet(<<>>) = {} /\ Begins(<<>>, <<>>) /\ Ordered(<<>>, <<>>, <<>>)
<1>1. ToSet(<<>>) = {}
  BY DEF ToSet
<1>2. Len(<<>>) = 0
  OBVIOUS
<1> QED
  BY <1>1, <1>2 DEF Begins, Ordered

LEMMA AddedFrames ==
  ASSUME NEW frames \in Seq(Frames), NEW more, Added(frames, more)
  PROVE  /\ more \in Seq(Frames) /\ Len(more) <= Len(frames) + 1
         /\ \A f \in ToSet(more) : f \in ToSet(frames) \/ f.kind \in Neutral
         /\ ToSet(frames) \subseteq ToSet(more)
         /\ Sorted(frames) => Sorted(more)
<1>1. CASE more = frames
  <2>1. Len(frames) \in Nat
    OBVIOUS
  <2> QED
    BY <1>1, <2>1
<1>2. CASE more # frames
  <2>1. PICK f \in Frames : f.kind \in Neutral /\ more = <<f>> \o frames
    BY <1>2 DEF Added
  <2>2. /\ more \in Seq(Frames) /\ Len(more) = Len(frames) + 1
        /\ ToSet(more) = {f} \cup ToSet(frames)
    BY <2>1, Pushed
  <2>3. Sorted(frames) => Sorted(more)
    BY <2>1, PushedSorted DEF Neutral, Afterwards
  <2>4. Len(frames) + 1 <= Len(frames) + 1
    OBVIOUS
  <2> QED
    BY <2>1, <2>2, <2>3, <2>4
<1> QED
  BY <1>1, <1>2

LEMMA ProperKeeps ==
  ASSUME NEW a, NEW frames \in Seq(Frames), NEW c, Heard(a), Tells(a, frames),
         Proper(a, frames, c)
  PROVE  /\ Heard(c.auth) /\ Tells(c.auth, c.stack)
         /\ c.stack \in Seq(Frames) /\ Len(c.stack) <= Len(frames) + 1
<1> DEFINE b == c.auth
           more == c.stack
<1>1. CASE Silent(a, frames, c)
  <2>1. SameNews(a, b) /\ Added(frames, more)
    BY <1>1 DEF Silent
  <2> HIDE DEF b, more
  <2>2. /\ more \in Seq(Frames) /\ Len(more) <= Len(frames) + 1
        /\ \A f \in ToSet(more) : f \in ToSet(frames) \/ f.kind \in Neutral
        /\ ToSet(frames) \subseteq ToSet(more)
        /\ Sorted(frames) => Sorted(more)
    BY <2>1, AddedFrames
  <2>3. Heard(b)
    BY <2>1 DEF Heard, SameNews
  <2>4. Tells(b, more)
    BY <2>1, <2>2 DEF Tells, SameNews, Neutral, Afterwards
  <2> QED
    BY <2>2, <2>3, <2>4 DEF b, more
<1>2. CASE Concludes(a, frames, c)
  <2>1. Over(a, b)
    BY <1>2 DEF Concludes
  <2>2. PICK f \in Frames : /\ more = <<f>> \o frames
                            /\ \/ f.kind = "closing"
                               \/ f.kind = "outcome" /\ b.outcomes # <<>>
    BY <1>2 DEF Concludes
  <2> HIDE DEF b, more
  <2>3. /\ more \in Seq(Frames) /\ Len(more) = Len(frames) + 1
        /\ ToSet(more) = {f} \cup ToSet(frames)
    BY <2>2, Pushed
  <2>4. Sorted(more)
    <3>1. \A g \in ToSet(frames) : g.kind \notin Telling
      BY <2>1 DEF Over, Tells, Afterwards, Telling
    <3>2. Sorted(frames)
      BY DEF Tells
    <3> QED
      BY <2>2, <3>1, <3>2, PushedSorted
  <2>5. Heard(b)
    <3>1. a.seen = <<>> /\ a.arrived = <<>> /\ a.notified = {} /\ a.queued = <<>>
      BY <2>1 DEF Heard, Over
    <3>2. Distinct(<<>>)
      BY DEF Distinct
    <3> QED
      BY <2>1, <3>1, <3>2, Nothing DEF Heard, Over
  <2>6. Tells(b, more)
    BY <2>1, <2>2, <2>3, <2>4, <2>5 DEF Tells, Heard, Over
  <2>7. Len(more) <= Len(frames) + 1
    BY <2>3
  <2> QED
    BY <2>3, <2>5, <2>6, <2>7 DEF b, more
<1>3. CASE Halts(a, frames, c)
  <2>1. /\ b.stopped /\ b.queued = <<>>
        /\ b.completion = a.completion /\ b.notified = a.notified
        /\ b.arrived = a.arrived /\ b.seen = a.seen /\ b.outcomes = a.outcomes
        /\ Added(frames, more)
    BY <1>3 DEF Halts
  <2> HIDE DEF b, more
  <2>2. /\ more \in Seq(Frames) /\ Len(more) <= Len(frames) + 1
        /\ \A f \in ToSet(more) : f \in ToSet(frames) \/ f.kind \in Neutral
        /\ ToSet(frames) \subseteq ToSet(more)
        /\ Sorted(frames) => Sorted(more)
    BY <2>1, AddedFrames
  <2>3. Heard(b)
    BY <2>1 DEF Heard
  <2>4. Tells(b, more)
    BY <2>1, <2>2 DEF Tells, Neutral, Afterwards
  <2> QED
    BY <2>2, <2>3, <2>4 DEF b, more
<1> QED
  BY <1>1, <1>2, <1>3 DEF Proper

LEMMA ProperFirst ==
  ASSUME NEW a, NEW b, NEW frames, NEW c, SameNews(a, b), Proper(b, frames, c)
  PROVE  Proper(a, frames, c)
BY DEF SameNews, Proper, Silent, Concludes, Over, Halts

--------------------------------------------------------------------------------
(* Serials and epochs *)

\* Members b ask for nothing that a did not.
Fewer(a, b) ==
  /\ b.prompt = 0 <=> b.promptType = "None"
  /\ b.pending \in {a.pending, NoRequest} /\ b.outstanding \subseteq a.outstanding
  /\ b.lastSerial = a.lastSerial /\ a.epoch <= b.epoch
  /\ a.epoch \in Nat /\ b.epoch \in Nat

LEMMA KnownStays ==
  ASSUME NEW a, NEW b, NEW W \in SUBSET Frames, NEW V \in SUBSET Frames,
         Known(a, W), Fewer(a, b),
         \A f \in V : f \in W \/ f.kind \notin {"submitting", "rejecting", "rejected"}
  PROVE  Known(b, V)
<1>1. b.pending = NoRequest \/ b.pending.serial \in 1 .. b.lastSerial
  BY DEF Known, Fewer
<1>2. ASSUME NEW r \in b.outstanding
      PROVE  /\ r.serial \in 1 .. b.lastSerial
             /\ r.serial = b.pending.serial => r = b.pending
  <2>1. r.serial \in 1 .. a.lastSerial /\ (r.serial = a.pending.serial => r = a.pending)
    BY DEF Known, Fewer
  <2>2. 0 \notin 1 .. a.lastSerial
    OBVIOUS
  <2> QED
    BY <2>1, <2>2, Defaults DEF Fewer
<1>3. ASSUME NEW f \in V
      PROVE  /\ f.kind = "submitting" => f.serial # 0
             /\ f.kind \in {"rejecting", "rejected"} => f.epoch <= b.epoch
  <2>1. f.epoch \in Nat
    BY DEF Frames
  <2> QED
    BY <2>1 DEF Known, Fewer
<1> QED
  BY <1>1, <1>2, <1>3 DEF Known, Fewer

LEMMA Subset ==
  ASSUME NEW frames \in Seq(Frames)
  PROVE  ToSet(frames) \in SUBSET Frames
BY DEF ToSet

\* Once the login is over nobody has to have the next move.
LEMMA NoneMinded ==
  ASSUME NEW a, NEW W, Known(a, W), ~Running(a)
  PROVE  Minded(a, W)
BY DEF Minded, Asked, Attended

\* A step to a control point where somebody has the next move.
Reached(a, frames, c) == Proper(a, frames, c) /\ Minded(c.auth, ToSet(c.stack))

LEMMA Here ==
  ASSUME NEW a, NEW frames, Minded(a, ToSet(frames))
  PROVE  Reached(a, frames, At(a, frames))
BY DEF Reached, Proper, Silent, SameNews, Added, At

LEMMA ReachedFirst ==
  ASSUME NEW a, NEW b, NEW frames, NEW c, SameNews(a, b), Reached(b, frames, c)
  PROVE  Reached(a, frames, c)
BY ProperFirst DEF Reached

--------------------------------------------------------------------------------
(* What the operators do to the news and the next move *)

LEMMA TypesKnown ==
  ASSUME NEW a \in Members
  PROVE  /\ a.epoch \in Nat /\ a.lastSerial \in Nat /\ a.pending \in Requests
         /\ a.outstanding \subseteq Requests /\ a.challenge \in Challenges
         /\ a.state \in States /\ a.prompt \in Nat /\ a.lastPrompt \in Nat
         /\ a.seen \in Seq(LifecycleStates) /\ a.arrived \in Seq(LifecycleStates)
         /\ a.queued \in Seq(LifecycleStates) /\ a.completion \in Completions
         /\ a.stopped \in BOOLEAN
BY DEF Members

LEMMA EndTypes ==
  ASSUME NEW a \in Members, NEW state \in States, NEW r \in Completions
  PROVE  /\ [NextState(a, state) EXCEPT !.completion = r] \in Members
         /\ [Invalidate(a) EXCEPT !.completion = r] \in Members
<1>1. \A c \in Members : [c EXCEPT !.completion = r] \in Members
  BY ZenonT(40) DEF Members
<1> QED
  BY <1>1, NextStateTypes

\* The outcome goes out, or the prompt is closed before it does.
LEMMA CompleteReached ==
  ASSUME NEW a, NEW b \in Members, NEW frames \in Seq(Frames),
         Known(a, ToSet(frames)), Over(a, b), Fewer(a, b), b.outcomes = <<>>
  PROVE  Reached(a, frames, NotifyCompletion(b, frames))
<1> DEFINE W == ToSet(frames)
<1>1. W \in SUBSET Frames
  BY Subset
<1>2. ASSUME NEW x, NEW f \in Frames, Over(a, x), Fewer(a, x),
             f.kind = "closing" \/ (f.kind = "outcome" /\ x.outcomes # <<>>)
      PROVE  Reached(a, frames, CallOut(x, frames, f))
  <2>1. ToSet(<<f>> \o frames) = {f} \cup W
    BY Pushed
  <2> HIDE DEF W
  <2>2. Known(x, {f} \cup W)
    BY <1>1, <1>2, KnownStays DEF W
  <2>3. Minded(x, {f} \cup W)
    BY <1>2, <2>2, NoneMinded DEF Over, Running
  <2>4. Concludes(a, frames, CallOut(x, frames, f))
    BY <1>2 DEF Concludes, CallOut, At
  <2> QED
    BY <2>1, <2>3, <2>4 DEF Reached, Proper, CallOut, At
<1>3. CASE b.prompt = 0
  <2> DEFINE told == Append(b.outcomes, b.completion)
             x == [b EXCEPT !.outcomes = told]
  <2>1. told # <<>>
    BY DEF Members
  <2>2. /\ x.outcomes = told /\ x.completion = b.completion /\ x.notified = b.notified
        /\ x.stopped = b.stopped /\ x.queued = b.queued /\ x.arrived = b.arrived
        /\ x.seen = b.seen /\ x.prompt = b.prompt /\ x.promptType = b.promptType
        /\ x.pending = b.pending /\ x.outstanding = b.outstanding
        /\ x.lastSerial = b.lastSerial /\ x.epoch = b.epoch
    BY DEF Members
  <2>3. NotifyCompletion(b, frames) = CallOut(x, frames, Frame("outcome"))
    BY <1>3 DEF NotifyCompletion, NotifyOutcome
  <2> HIDE DEF told, x
  <2>4. Over(a, x) /\ Fewer(a, x)
    BY <2>2 DEF Over, Fewer
  <2>5. Frame("outcome") \in Frames /\ Frame("outcome").kind = "outcome"
    BY Defaults DEF Kinds
  <2> QED
    BY <1>2, <2>1, <2>2, <2>3, <2>4, <2>5
<1>4. CASE b.prompt # 0
  <2> DEFINE x == [DiscardPrompt(b) EXCEPT !.closed = @ \cup {b.prompt}]
  <2>1. /\ x.outcomes = b.outcomes /\ x.completion = b.completion
        /\ x.notified = b.notified
        /\ x.stopped = b.stopped /\ x.queued = b.queued /\ x.arrived = b.arrived
        /\ x.seen = b.seen /\ x.prompt = 0 /\ x.promptType = "None"
        /\ x.pending = b.pending /\ x.outstanding = b.outstanding
        /\ x.lastSerial = b.lastSerial /\ x.epoch = b.epoch
    BY DEF Members, DiscardPrompt
  <2>2. NotifyCompletion(b, frames) = CallOut(x, frames, Frame("closing"))
    BY <1>4 DEF NotifyCompletion, NotifyPromptClosed
  <2> HIDE DEF x
  <2>3. Over(a, x) /\ Fewer(a, x)
    BY <2>1 DEF Over, Fewer
  <2>4. Frame("closing") \in Frames /\ Frame("closing").kind = "closing"
    BY Defaults DEF Kinds
  <2> QED
    BY <1>2, <2>2, <2>3, <2>4
<1> QED
  BY <1>3, <1>4

\* A login that goes on has told no outcome.
LEMMA NoOutcome ==
  ASSUME NEW a, OutcomeOK(a), a.completion = "none"
  PROVE  a.outcomes = <<>>
BY DEF OutcomeOK

LEMMA FailReached ==
  ASSUME NEW a, NEW frames \in Seq(Frames), NEW state \in States, a \in Members,
         OutcomeOK(a), Known(a, ToSet(frames))
  PROVE  Reached(a, frames, FailAuthorization(a, frames, state))
<1>1. CASE ~Running(a)
  BY <1>1, NoneMinded, Here DEF FailAuthorization
<1>2. CASE Running(a)
  <2> DEFINE b == [NextState(a, state) EXCEPT !.completion = "failed"]
  <2>1. a \in Members /\ b \in Members
    BY EndTypes DEF Completions
  <2>2. /\ b.completion = "failed" /\ b.outcomes = a.outcomes /\ b.stopped = a.stopped
        /\ b.queued = a.queued /\ b.arrived = a.arrived /\ b.seen = a.seen
        /\ b.prompt = a.prompt /\ b.promptType = a.promptType /\ b.pending = NoRequest
        /\ b.outstanding = a.outstanding /\ b.lastSerial = a.lastSerial
        /\ b.epoch = a.epoch + 1
    BY <2>1 DEF Members, NextState, Invalidate
  <2>3. a.epoch \in Nat /\ a.outcomes = <<>>
    BY <1>2, <2>1, TypesKnown, NoOutcome DEF Running
  <2>4. FailAuthorization(a, frames, state) = NotifyCompletion(b, frames)
    BY <1>2 DEF FailAuthorization
  <2> HIDE DEF b
  <2>5. Over(a, b)
    BY <1>2, <2>2 DEF Over, Running
  <2>6. Fewer(a, b)
    BY <2>2, <2>3 DEF Fewer, Known
  <2> QED
    BY <2>1, <2>2, <2>3, <2>4, <2>5, <2>6, CompleteReached
<1> QED
  BY <1>1, <1>2

\* The login ends by the user's hand.
LEMMA EndReached ==
  ASSUME NEW a, NEW frames \in Seq(Frames), NEW r \in {"cancelled", "failed"},
         a \in Members, OutcomeOK(a), Running(a), Known(a, ToSet(frames))
  PROVE  Reached(a, frames,
                 NotifyCompletion([Invalidate(a) EXCEPT !.completion = r], frames))
<1> DEFINE b == [Invalidate(a) EXCEPT !.completion = r]
<1>1. a \in Members /\ b \in Members
  <2>1. r \in Completions
    BY DEF Completions
  <2>2. a.state \in States
    BY TypesKnown
  <2> QED
    BY <2>1, <2>2, EndTypes
<1>2. /\ b.completion = r /\ b.outcomes = a.outcomes /\ b.stopped = a.stopped
      /\ b.queued = a.queued /\ b.arrived = a.arrived /\ b.seen = a.seen
      /\ b.prompt = a.prompt /\ b.promptType = a.promptType /\ b.pending = NoRequest
      /\ b.outstanding = a.outstanding /\ b.lastSerial = a.lastSerial
      /\ b.epoch = a.epoch + 1
  BY <1>1 DEF Members, Invalidate
<1>3. a.epoch \in Nat /\ a.outcomes = <<>>
  BY <1>1, TypesKnown, NoOutcome DEF Running
<1> HIDE DEF b
<1>4. Over(a, b)
  BY <1>2 DEF Over, Running
<1>5. Fewer(a, b)
  BY <1>2, <1>3 DEF Fewer, Known
<1> QED
  BY <1>1, <1>2, <1>3, <1>4, <1>5, CompleteReached DEF b

LEMMA StopReached ==
  ASSUME NEW a, NEW frames \in Seq(Frames), a \in Members, Known(a, ToSet(frames))
  PROVE  /\ Halts(a, frames, At(StopAfterObserverFailure(a), frames))
         /\ Reached(a, frames, At(StopAfterObserverFailure(a), frames))
<1> DEFINE b == StopAfterObserverFailure(a)
<1>1. /\ b.stopped /\ b.queued = <<>>
      /\ b.completion = a.completion /\ b.notified = a.notified
      /\ b.arrived = a.arrived /\ b.seen = a.seen /\ b.outcomes = a.outcomes
      /\ b.prompt = 0 /\ b.promptType = "None" /\ b.pending \in {a.pending, NoRequest}
      /\ b.outstanding = a.outstanding /\ b.lastSerial = a.lastSerial
      /\ b.epoch \in {a.epoch, a.epoch + 1}
  BY DEF Members, StopAfterObserverFailure, DiscardPrompt, Stop, Invalidate
<1>2. a.epoch \in Nat
  BY TypesKnown
<1> HIDE DEF b
<1>3. Halts(a, frames, At(b, frames))
  BY <1>1 DEF Halts, Added, At
<1>4. Fewer(a, b)
  BY <1>1, <1>2 DEF Fewer
<1>5. Known(b, ToSet(frames))
  BY <1>4, Subset, KnownStays
<1>6. Minded(b, ToSet(frames))
  BY <1>1, <1>5, NoneMinded DEF Running
<1> QED
  BY <1>3, <1>6 DEF b, Reached, Proper, At

\* Members b differ from a in nothing that the next move depends on.
SameMind(a, b) ==
  /\ b.stopped = a.stopped /\ b.completion = a.completion /\ b.state = a.state
  /\ b.epoch = a.epoch /\ b.prompt = a.prompt /\ b.promptType = a.promptType
  /\ b.pending = a.pending /\ b.lastSerial = a.lastSerial
  /\ b.outstanding = a.outstanding /\ b.acknowledged = a.acknowledged
  /\ b.challenge = a.challenge

LEMMA MindStays ==
  ASSUME NEW a, NEW b, NEW W, SameMind(a, b)
  PROVE  /\ Known(a, W) => Known(b, W)
         /\ Asked(a, W) => Asked(b, W)
         /\ Attended(a, W) => Attended(b, W)
         /\ Running(b) <=> Running(a)
BY DEF SameMind, Known, Asked, UnderWay, Asking, Attended, CarriesOn, IsCurrentState,
  Running

LEMMA ThrowReached ==
  ASSUME NEW a, NEW frames \in Seq(Frames), a \in Members, OutcomeOK(a),
         Known(a, ToSet(frames))
  PROVE  Reached(a, frames, CompleteObserverFailure(a, frames))
<1>1. CASE ~Running(a)
  BY <1>1, StopReached DEF CompleteObserverFailure
<1>2. CASE Running(a)
  <2> DEFINE b == [a EXCEPT !.observerFailed = TRUE]
  <2>1. b \in Members /\ SameNews(a, b) /\ SameMind(a, b)
    BY DEF Members, SameNews, SameMind
  <2>2. CompleteObserverFailure(a, frames) = FailAuthorization(b, frames, a.state)
    BY <1>2 DEF CompleteObserverFailure
  <2> HIDE DEF b
  <2>3. OutcomeOK(b)
    BY <2>1 DEF OutcomeOK, SameNews
  <2>4. Known(b, ToSet(frames))
    BY <2>1, MindStays
  <2>5. a.state \in States
    BY TypesKnown
  <2> QED
    BY <2>1, <2>2, <2>3, <2>4, <2>5, FailReached, ReachedFirst
<1> QED
  BY <1>1, <1>2

--------------------------------------------------------------------------------
(* Prompts and requests, as far as the next move goes *)

LEMMA MoreFrames ==
  ASSUME NEW a, NEW W, NEW V, W \subseteq V,
         \A f \in V : f \in W \/ f.kind \notin {"rejecting", "rejected"}
  PROVE  /\ UnderWay(a, W) => UnderWay(a, V)
         /\ Asking(a, V) => Asking(a, W)
         /\ Asked(a, W) => Asked(a, V)
         /\ Attended(a, W) => Attended(a, V)
<1>1. UnderWay(a, W) => UnderWay(a, V)
  BY DEF UnderWay
<1>2. Asking(a, V) => Asking(a, W)
  BY DEF Asking
<1>3. Attended(a, W) => Attended(a, V)
  BY DEF Attended
<1> QED
  BY <1>1, <1>2, <1>3 DEF Asked

LEMMA PushReached ==
  ASSUME NEW a, NEW b, NEW frames \in Seq(Frames), NEW f \in Frames,
         SameNews(a, b), f.kind \in Neutral, Minded(b, {f} \cup ToSet(frames))
  PROVE  Reached(a, frames, CallOut(b, frames, f))
<1>1. ToSet(<<f>> \o frames) = {f} \cup ToSet(frames)
  BY Pushed
<1> QED
  BY <1>1 DEF Reached, Proper, Silent, Added, CallOut, At

LEMMA IssueReached ==
  ASSUME NEW a \in Members, NEW frames \in Seq(Frames),
         Known(a, ToSet(frames)), Asked(a, ToSet(frames)),
         Attended(a, ToSet(frames)) \/ a.challenge # NoChallenge
  PROVE  Reached(a, frames, IssuePrompt(a, frames))
<1> DEFINE W == ToSet(frames)
<1>1. W \in SUBSET Frames
  BY Subset
<1>2. CASE ~(Running(a) /\ a.challenge # NoChallenge /\ a.prompt = 0)
  <2>1. Minded(a, W)
    BY <1>2 DEF Minded, Attended
  <2> QED
    BY <1>2, <2>1, Here DEF IssuePrompt
<1>3. CASE Running(a) /\ a.challenge # NoChallenge /\ a.prompt = 0
  <2> DEFINE b == [a EXCEPT !.prompt = a.lastPrompt + 1, !.lastPrompt = @ + 1,
                            !.promptType = a.challenge.type,
                            !.offered = @ \cup {a.challenge.type},
                            !.acknowledged = FALSE]
             f == Frame("shown")
  <2>1. /\ SameNews(a, b) /\ b.prompt = a.lastPrompt + 1
        /\ b.promptType = a.challenge.type /\ b.state = a.state /\ b.epoch = a.epoch
        /\ b.pending = a.pending /\ b.lastSerial = a.lastSerial
        /\ b.outstanding = a.outstanding /\ b.challenge = a.challenge
    BY DEF Members, SameNews
  <2>2. IssuePrompt(a, frames) = CallOut(b, frames, f)
    BY <1>3 DEF IssuePrompt
  <2>3. f \in Frames /\ f.kind = "shown"
    BY Defaults DEF Kinds
  <2> HIDE DEF b, f, W
  <2>4. b.prompt # 0 /\ a.epoch \in Nat /\ a.challenge \in Challenges
    BY <2>1, TypesKnown
  <2>5. b.promptType # "None"
    BY <1>3, <2>1, <2>4, ChallengeStatesAssumption DEF Challenges, PhoneChallenge
  <2>6. Fewer(a, b)
    BY <2>1, <2>4, <2>5 DEF Fewer
  <2>7. Known(b, {f} \cup W)
    BY <1>1, <2>3, <2>6, KnownStays DEF W
  <2>8. Asked(b, {f} \cup W)
    BY <1>3, <2>1 DEF Asked, UnderWay, Running, SameNews, W
  <2>9. Minded(b, {f} \cup W)
    BY <2>4, <2>7, <2>8 DEF Minded, Attended
  <2> QED
    BY <2>1, <2>2, <2>3, <2>9, PushReached DEF W, Neutral
<1> QED
  BY <1>2, <1>3

\* The QR prompt shows another link.
LEMMA LinkReached ==
  ASSUME NEW a \in Members, NEW frames \in Seq(Frames), NEW link, a.prompt # 0,
         Known(a, ToSet(frames)), Asked(a, ToSet(frames))
  PROVE  Reached(a, frames, ShowLink(a, frames, link))
<1> DEFINE b == [a EXCEPT !.link = link, !.offered = @ \cup {"QrCode"}]
           f == Frame("shown")
           W == ToSet(frames)
<1>1. SameNews(a, b) /\ SameMind(a, b)
  BY DEF Members, SameNews, SameMind
<1>2. f \in Frames /\ f.kind = "shown" /\ W \in SUBSET Frames
  BY Defaults, Subset DEF Kinds
<1>3. ShowLink(a, frames, link) = CallOut(b, frames, f)
  BY DEF ShowLink
<1> HIDE DEF b, f, W
<1>4. Fewer(a, b)
  BY <1>1, TypesKnown DEF Fewer, SameMind, Known
<1>5. Known(b, {f} \cup W)
  BY <1>2, <1>4, KnownStays DEF W
<1>6. Asked(b, W)
  BY <1>1, MindStays DEF W
<1>7. Asked(b, {f} \cup W)
  BY <1>2, <1>6, MoreFrames
<1>8. Minded(b, {f} \cup W)
  BY <1>1, <1>5, <1>7 DEF Minded, Attended, SameMind
<1> QED
  BY <1>1, <1>2, <1>3, <1>8, PushReached DEF W, Neutral

LEMMA FirstLinkReached ==
  ASSUME NEW a \in Members, NEW frames \in Seq(Frames), NEW link \in Links,
         Known(a, ToSet(frames)), Asked(a, ToSet(frames))
  PROVE  Reached(a, frames,
                 ShowLink([a EXCEPT !.prompt = a.lastPrompt + 1, !.lastPrompt = @ + 1,
                                    !.promptType = "QrCode"], frames, link))
<1> DEFINE b == [a EXCEPT !.prompt = a.lastPrompt + 1, !.lastPrompt = @ + 1,
                          !.promptType = "QrCode"]
<1>1. b \in Members
  <2>1. a.lastPrompt + 1 \in Nat /\ "QrCode" \in PromptTypes
    BY TypesKnown DEF PromptTypes
  <2> QED
    BY <2>1, ZenonT(40) DEF Members
<1>2. /\ SameNews(a, b) /\ b.prompt = a.lastPrompt + 1
      /\ b.promptType = "QrCode" /\ b.state = a.state /\ b.epoch = a.epoch
      /\ b.pending = a.pending /\ b.lastSerial = a.lastSerial
      /\ b.outstanding = a.outstanding /\ b.challenge = a.challenge
  BY DEF Members, SameNews
<1> HIDE DEF b
<1>3. b.prompt # 0 /\ a.epoch \in Nat
  BY <1>2, TypesKnown
<1>4. Fewer(a, b)
  BY <1>2, <1>3 DEF Fewer
<1>5. Known(b, ToSet(frames))
  BY <1>4, Subset, KnownStays
<1>6. Asked(b, ToSet(frames))
  BY <1>2 DEF Asked, UnderWay, Asking, Running, SameNews
<1>7. Reached(b, frames, ShowLink(b, frames, link))
  BY <1>1, <1>3, <1>5, <1>6, LinkReached
<1> QED
  BY <1>2, <1>7, ReachedFirst DEF b

\* A request of this epoch goes to the sender.
LEMMA SendReached ==
  ASSUME NEW a \in Members, NEW frames \in Seq(Frames), a.pending # NoRequest,
         Known(a, ToSet(frames)),
         Running(a) => /\ a.pending.epoch = a.epoch
                       /\ Asking(a, ToSet(frames)) => a.challenge # NoChallenge
  PROVE  Reached(a, frames, SendRequest(a, frames))
<1> DEFINE b == [a EXCEPT !.outstanding = @ \cup {a.pending}]
           f == [Frame("sending") EXCEPT !.serial = a.pending.serial]
           W == ToSet(frames)
<1>1. /\ SameNews(a, b) /\ b.prompt = a.prompt
      /\ b.promptType = a.promptType /\ b.state = a.state /\ b.epoch = a.epoch
      /\ b.pending = a.pending /\ b.lastSerial = a.lastSerial
      /\ b.outstanding = a.outstanding \cup {a.pending} /\ b.challenge = a.challenge
  BY DEF Members, SameNews
<1>2. f \in Frames /\ f.kind = "sending"
  <2>1. a.pending.serial \in Nat
    BY TypesKnown DEF Requests
  <2>2. Frame("sending") \in Frames /\ Frame("sending").kind = "sending"
    BY Defaults DEF Kinds
  <2> QED
    BY <2>1, <2>2 DEF Frames
<1>3. SendRequest(a, frames) = CallOut(b, frames, f)
  BY DEF SendRequest
<1> HIDE DEF b, f, W
<1>4. Known(b, {f} \cup W)
  BY <1>1, <1>2 DEF Known, W
<1>5. Asked(b, {f} \cup W)
  BY <1>1, <1>2 DEF Asked, UnderWay, Asking, Running, SameNews, W
<1>6. Minded(b, {f} \cup W)
  BY <1>1, <1>4, <1>5 DEF Minded, Attended
<1> QED
  BY <1>1, <1>2, <1>3, <1>6, PushReached DEF W, Neutral

LEMMA BeginKnown ==
  ASSUME NEW a \in Members, NEW operation \in Operations, NEW W, Known(a, W)
  PROVE  LET b == BeginRequest(a, operation)
         IN  /\ b \in Members /\ SameNews(a, b) /\ Known(b, W) /\ b.pending # NoRequest
             /\ b.pending.operation = operation /\ b.pending.epoch = b.epoch
             /\ b.state = a.state /\ b.epoch = a.epoch /\ b.prompt = a.prompt
             /\ b.promptType = a.promptType /\ b.challenge = a.challenge
             /\ b.acknowledged = a.acknowledged /\ b.outstanding = a.outstanding
             /\ b.pending.serial # 0 /\ b.pending.serial \in Nat
<1> DEFINE b == BeginRequest(a, operation)
           r == [serial |-> a.lastSerial + 1, operation |-> operation, epoch |-> a.epoch]
<1>1. a.lastSerial + 1 \in Nat /\ a.epoch \in Nat /\ a.lastSerial \in Nat
  BY TypesKnown
<1>2. r \in Requests /\ r.serial = a.lastSerial + 1
      /\ r.operation = operation /\ r.epoch = a.epoch
  BY <1>1 DEF Requests, Operations
<1>3. b = [a EXCEPT !.lastSerial = a.lastSerial + 1, !.pending = r]
  BY DEF BeginRequest, Members
<1> HIDE DEF r
<1>4. b \in Members
  <2>1. \A n \in Nat, q \in Requests :
          [a EXCEPT !.lastSerial = n, !.pending = q] \in Members
    BY ZenonT(40) DEF Members
  <2> QED
    BY <1>1, <1>2, <1>3, <2>1
<1>5. /\ SameNews(a, b) /\ b.lastSerial = a.lastSerial + 1 /\ b.pending = r
      /\ b.state = a.state /\ b.epoch = a.epoch /\ b.prompt = a.prompt
      /\ b.promptType = a.promptType /\ b.challenge = a.challenge
      /\ b.acknowledged = a.acknowledged /\ b.outstanding = a.outstanding
  BY <1>3 DEF Members, SameNews
<1> HIDE DEF b
<1>6. r # NoRequest /\ r.serial # 0
  BY <1>1, <1>2, Defaults
<1>7. \A q \in b.outstanding : q.serial \in 1 .. b.lastSerial /\ q.serial # r.serial
  BY <1>1, <1>2, <1>5 DEF Known
<1>8. Known(b, W)
  <2>1. r.serial \in 1 .. b.lastSerial
    BY <1>1, <1>2, <1>5
  <2> QED
    BY <1>5, <1>7, <2>1 DEF Known
<1> QED
  BY <1>1, <1>2, <1>4, <1>5, <1>6, <1>8 DEF b

LEMMA StartReached ==
  ASSUME NEW a \in Members, NEW frames \in Seq(Frames),
         NEW operation \in {"RequestQrCode", "SetTdlibParameters"},
         Known(a, ToSet(frames)), Asked(a, ToSet(frames))
  PROVE  Reached(a, frames, StartRequest(a, frames, operation))
<1>1. CASE ~(Running(a) /\ a.pending = NoRequest)
  <2>1. Minded(a, ToSet(frames))
    BY <1>1 DEF Minded, Attended
  <2> QED
    BY <1>1, <2>1, Here DEF StartRequest
<1>2. CASE Running(a) /\ a.pending = NoRequest
  <2> DEFINE b == BeginRequest(a, operation)
  <2>1. /\ b \in Members /\ SameNews(a, b) /\ Known(b, ToSet(frames))
        /\ b.pending # NoRequest /\ b.pending.operation # "Submit"
        /\ b.pending.epoch = b.epoch /\ b.epoch = a.epoch /\ b.prompt = a.prompt
        /\ b.promptType = a.promptType /\ b.challenge = a.challenge
    BY BeginKnown DEF Operations
  <2>2. StartRequest(a, frames, operation) = SendRequest(b, frames)
    BY <1>2 DEF StartRequest
  <2> HIDE DEF b
  <2>3. Asking(b, ToSet(frames)) => b.challenge # NoChallenge
    BY <1>2, <2>1 DEF Asked, Asking
  <2> QED
    BY <2>1, <2>2, <2>3, SendReached, ReachedFirst
<1> QED
  BY <1>1, <1>2

LEMMA StartQrReached ==
  ASSUME NEW a \in Members, NEW frames \in Seq(Frames),
         Known(a, ToSet(frames)), Asked(a, ToSet(frames))
  PROVE  Reached(a, frames, StartQrRequest(a, frames))
<1> DEFINE b == [a EXCEPT !.qrRequested = TRUE]
<1>1. b \in Members /\ SameNews(a, b) /\ SameMind(a, b)
  BY DEF Members, SameNews, SameMind
<1>2. StartQrRequest(a, frames) = StartRequest(b, frames, "RequestQrCode")
  BY DEF StartQrRequest
<1> HIDE DEF b
<1>3. Known(b, ToSet(frames)) /\ Asked(b, ToSet(frames))
  BY <1>1, MindStays
<1> QED
  BY <1>1, <1>2, <1>3, StartReached, ReachedFirst

--------------------------------------------------------------------------------
(* States entered, and the next move *)

\* What a frame of a state that was entered knows when its turn comes.
Turns(a, f) ==
  /\ f \in Frames /\ f.kind = "entered" /\ EntersWith(a, f.state, f.then)
  /\ IsCurrentState(a, f.epoch, f.state) => Expects(a, f)

LEMMA EnteredReached ==
  ASSUME NEW a \in Members, NEW frames \in Seq(Frames), NEW f, Turns(a, f), OutcomeOK(a),
         Known(a, ToSet(frames)), Asked(a, ToSet(frames)),
         ~IsCurrentState(a, f.epoch, f.state) => Attended(a, ToSet(frames))
  PROVE  Reached(a, frames, Entered(a, frames, f))
<1>1. CASE ~IsCurrentState(a, f.epoch, f.state)
  BY <1>1, Here DEF Entered, Minded
<1>2. CASE IsCurrentState(a, f.epoch, f.state)
  <2>1. Running(a) /\ a.prompt = 0 /\ EntersWith(a, f.state, f.then)
    BY <1>2 DEF Turns, IsCurrentState, Expects
  <2>2. \A x \in Challenges \cup LinkChallenges :
          x # SetTdlibParameters /\ x # RequestQrCode
    BY ChallengeStatesAssumption DEF Challenges, LinkChallenges, NoChallenge,
      PhoneChallenge, SetTdlibParameters, RequestQrCode
  <2>3. CASE f.then = SetTdlibParameters
    <3>1. Reached(a, frames, StartRequest(a, frames, "SetTdlibParameters"))
      BY StartReached
    <3> QED
      BY <1>2, <2>3, <3>1 DEF Entered, SetTdlibParameters, RequestQrCode
  <2>4. CASE f.then = RequestQrCode
    <3>1. Reached(a, frames, StartQrRequest(a, frames))
      BY StartQrReached
    <3>2. Reached(a, frames, FailAuthorization(a, frames, "WaitPhoneNumber"))
      BY FailReached DEF States
    <3> QED
      BY <1>2, <2>4, <3>1, <3>2 DEF Entered, SetTdlibParameters, RequestQrCode
  <2>5. CASE f.then \in LinkChallenges
    <3>1. f.then.type = "QrCode" /\ f.then.detail \in Links
      BY <2>5 DEF LinkChallenges
    <3>2. Reached(a, frames,
                  ShowLink([a EXCEPT !.prompt = a.lastPrompt + 1, !.lastPrompt = @ + 1,
                                     !.promptType = "QrCode"], frames, f.then.detail))
      BY <3>1, FirstLinkReached
    <3> QED
      BY <1>2, <2>2, <2>5, <3>1, <3>2 DEF Entered
  <2>6. CASE f.then \in Challenges \ {NoChallenge}
    <3> DEFINE b == [a EXCEPT !.challenge = f.then]
    <3>1. f.then # SetTdlibParameters /\ f.then # RequestQrCode /\ f.then.type # "QrCode"
      BY <2>2, <2>6, ChallengeStatesAssumption DEF Challenges, NoChallenge, PhoneChallenge
    <3>2. b \in Members
      BY <2>6 DEF Members
    <3>3. /\ SameNews(a, b) /\ b.challenge = f.then
          /\ b.state = a.state /\ b.epoch = a.epoch
          /\ b.prompt = a.prompt /\ b.promptType = a.promptType
          /\ b.pending = a.pending /\ b.lastSerial = a.lastSerial
          /\ b.outstanding = a.outstanding
      BY DEF Members, SameNews
    <3>4. Entered(a, frames, f) = IssuePrompt(b, frames)
      BY <1>2, <3>1 DEF Entered
    <3> HIDE DEF b
    <3>5. Known(b, ToSet(frames))
      BY <3>3 DEF Known
    <3>6. Asked(b, ToSet(frames))
      BY <2>6, <3>3 DEF Asked, UnderWay, Running, SameNews
    <3>7. Reached(b, frames, IssuePrompt(b, frames))
      BY <2>6, <3>2, <3>3, <3>5, <3>6, IssueReached
    <3> QED
      BY <3>3, <3>4, <3>7, ReachedFirst
  <2> QED
    BY <2>1, <2>3, <2>4, <2>5, <2>6 DEF EntersWith
<1> QED
  BY <1>1, <1>2

\* The prompt closes, and its frame has the next move.
LEMMA ClosedReached ==
  ASSUME NEW a \in Members, NEW frames \in Seq(Frames), NEW f \in Frames,
         Known(a, ToSet(frames)), f.kind \in Neutral,
         f.kind = "submitting" => f.serial # 0,
         f.kind \in {"rejecting", "rejected"} => f.epoch <= a.epoch,
         Running(a) =>
           /\ a.pending # NoRequest => UnderWay(a, {f} \cup ToSet(frames))
           /\ \/ a.pending.operation = "Submit"
              \/ \E g \in {f} \cup ToSet(frames) :
                   g.kind \in {"rejecting", "rejected"} /\ g.epoch = a.epoch
              => a.challenge # NoChallenge
           /\ a.pending # NoRequest \/ CarriesOn(a, f)
  PROVE  Reached(a, frames, NotifyPromptClosed(a, frames, f))
<1> DEFINE b == [DiscardPrompt(a) EXCEPT !.closed = @ \cup {a.prompt}]
           W == ToSet(frames)
<1>1. /\ SameNews(a, b) /\ b.prompt = 0 /\ b.promptType = "None" /\ b.state = a.state
      /\ b.epoch = a.epoch /\ b.pending = a.pending /\ b.lastSerial = a.lastSerial
      /\ b.outstanding = a.outstanding /\ b.challenge = a.challenge
  BY DEF Members, SameNews, DiscardPrompt
<1>2. NotifyPromptClosed(a, frames, f) = CallOut(b, frames, f)
  BY DEF NotifyPromptClosed
<1> HIDE DEF b, W
<1>3. Known(b, {f} \cup W)
  BY <1>1 DEF Known, W
<1>4. Running(b) => Running(a)
  BY <1>1 DEF Running, SameNews
<1>5. Asked(b, {f} \cup W)
  <2>1. UnderWay(a, {f} \cup W) => UnderWay(b, {f} \cup W)
    BY <1>1 DEF UnderWay
  <2>2. Asking(b, {f} \cup W) =>
          \/ a.pending.operation = "Submit"
          \/ \E g \in {f} \cup W : g.kind \in {"rejecting", "rejected"} /\ g.epoch = a.epoch
    BY <1>1 DEF Asking
  <2> QED
    BY <1>1, <1>4, <2>1, <2>2 DEF Asked, W
<1>6. Attended(b, {f} \cup W)
  <2>1. CarriesOn(a, f) /\ Running(b) => CarriesOn(b, f)
    BY <1>1 DEF CarriesOn, IsCurrentState
  <2> QED
    BY <1>1, <1>4, <2>1 DEF Attended
<1> QED
  BY <1>1, <1>2, <1>3, <1>5, <1>6, PushReached DEF Minded, W

LEMMA EnterReached ==
  ASSUME NEW a \in Members, NEW frames \in Seq(Frames), NEW state \in States,
         NEW then \in Challenges \cup LinkChallenges \cup {RequestQrCode, SetTdlibParameters},
         OutcomeOK(a), Running(a), EntersWith(a, state, then), Known(a, ToSet(frames))
  PROVE  Reached(a, frames, EnterState(a, frames, state, then))
<1> DEFINE b == NextState(a, state)
           f == [Frame("entered") EXCEPT !.epoch = b.epoch, !.state = state, !.then = then]
           W == ToSet(frames)
<1>1. b \in Members
  BY NextStateTypes
<1>2. /\ SameNews(a, b) /\ b.challenge = NoChallenge /\ b.pending = NoRequest
      /\ b.state = state /\ b.epoch = a.epoch + 1 /\ b.prompt = a.prompt
      /\ b.promptType = a.promptType /\ b.lastSerial = a.lastSerial
      /\ b.outstanding = a.outstanding /\ b.mode = a.mode /\ b.fallback = a.fallback
      /\ b.qrFlow = a.qrFlow
  BY DEF Members, NextState, Invalidate, SameNews
<1>3. a.epoch \in Nat /\ b.epoch \in Nat
  BY <1>1, TypesKnown
<1>4. f \in Frames /\ f.kind = "entered" /\ f.epoch = b.epoch /\ f.state = state
      /\ f.then = then
  <2>1. Frame("entered") \in Frames /\ Frame("entered").kind = "entered"
    BY Defaults DEF Kinds
  <2> QED
    BY <1>3, <2>1 DEF Frames
<1>5. EnterState(a, frames, state, then) =
        IF b.prompt = 0 THEN Entered(b, frames, f) ELSE NotifyPromptClosed(b, frames, f)
  BY DEF EnterState
<1>6. W \in SUBSET Frames
  BY Subset
<1> HIDE DEF b, f, W
<1>7. Known(b, W)
  <2>1. Fewer(a, b)
    BY <1>2, <1>3 DEF Fewer, Known
  <2> QED
    BY <1>6, <2>1, KnownStays DEF W
<1>8. \A g \in W : ~(g.kind \in {"rejecting", "rejected"} /\ g.epoch = b.epoch)
  <2>1. \A g \in W : g.epoch \in Nat
    BY <1>6 DEF Frames
  <2> QED
    BY <1>2, <1>3, <2>1 DEF Known, W
<1>9. IsCurrentState(b, f.epoch, f.state)
  BY <1>2, <1>4 DEF IsCurrentState, Running, SameNews
<1>10. b.pending.operation # "Submit"
  BY <1>2 DEF NoRequest
<1>11. CASE b.prompt = 0
  <2>1. Asked(b, W)
    BY <1>2, <1>8, <1>10, <1>11 DEF Asked, Asking
  <2>2. Turns(b, f)
    <3>1. EntersWith(b, f.state, f.then)
      BY <1>2, <1>4 DEF EntersWith, PrefersQr
    <3> QED
      BY <1>2, <1>4, <1>11, <3>1 DEF Turns, Expects
  <2>3. OutcomeOK(b)
    BY <1>2 DEF OutcomeOK, SameNews
  <2>4. Reached(b, frames, Entered(b, frames, f))
    BY <1>1, <1>7, <1>9, <2>1, <2>2, <2>3, EnteredReached DEF W
  <2> QED
    BY <1>2, <1>5, <1>11, <2>4, ReachedFirst
<1>12. CASE b.prompt # 0
  <2>1. CarriesOn(b, f)
    BY <1>4, <1>9 DEF CarriesOn
  <2>2. \A g \in {f} \cup W : ~(g.kind \in {"rejecting", "rejected"} /\ g.epoch = b.epoch)
    BY <1>4, <1>8
  <2>3. Reached(b, frames, NotifyPromptClosed(b, frames, f))
    BY <1>1, <1>2, <1>4, <1>7, <1>10, <2>1, <2>2, ClosedReached DEF W, Neutral
  <2> QED
    BY <1>2, <1>5, <1>12, <2>3, ReachedFirst
<1> QED
  BY <1>11, <1>12

LEMMA HandleChallengeReached ==
  ASSUME NEW a \in Members, NEW frames \in Seq(Frames),
         NEW challenge \in Challenges \ {NoChallenge},
         OutcomeOK(a), Running(a), challenge.type = "WaitPhoneNumber" => ~PrefersQr(a),
         Known(a, ToSet(frames)), Asked(a, ToSet(frames))
  PROVE  Reached(a, frames, HandleChallengeState(a, frames, challenge))
<1>1. CASE a.state = challenge.type /\ a.challenge = challenge
  <2>1. CASE a.prompt # 0 \/ a.pending # NoRequest
    <3>1. Minded(a, ToSet(frames))
      BY <2>1 DEF Minded, Attended
    <3> QED
      BY <1>1, <2>1, <3>1, Here DEF HandleChallengeState
  <2>2. CASE ~(a.prompt # 0 \/ a.pending # NoRequest)
    <3>1. Reached(a, frames, IssuePrompt(a, frames))
      BY <1>1, IssueReached
    <3> QED
      BY <1>1, <2>2, <3>1 DEF HandleChallengeState
  <2> QED
    BY <2>1, <2>2
<1>2. CASE ~(a.state = challenge.type /\ a.challenge = challenge)
  <2>1. challenge.type \in States
    BY DEF Challenges, PhoneChallenge, States
  <2>2. EntersWith(a, challenge.type, challenge)
    BY DEF EntersWith
  <2>3. Reached(a, frames, EnterState(a, frames, challenge.type, challenge))
    BY <2>1, <2>2, EnterReached
  <2> QED
    BY <1>2, <2>3 DEF HandleChallengeState
<1> QED
  BY <1>1, <1>2

LEMMA RejectReached ==
  ASSUME NEW a \in Members, NEW frames \in Seq(Frames), a.challenge # NoChallenge,
         Known(a, ToSet(frames)), Asked(a, ToSet(frames))
  PROVE  Reached(a, frames, ReportRejection(a, frames))
<1> DEFINE b == [a EXCEPT !.rejections = @ + 1]
           f == [Frame("rejected") EXCEPT !.epoch = a.epoch]
           W == ToSet(frames)
<1>1. SameNews(a, b) /\ SameMind(a, b)
  BY DEF Members, SameNews, SameMind
<1>2. f \in Frames /\ f.kind = "rejected" /\ f.epoch = a.epoch /\ a.epoch \in Nat
  <2>1. Frame("rejected") \in Frames /\ Frame("rejected").kind = "rejected"
    BY Defaults DEF Kinds
  <2>2. a.epoch \in Nat
    BY TypesKnown
  <2> QED
    BY <2>1, <2>2 DEF Frames
<1>3. ReportRejection(a, frames) = CallOut(b, frames, f)
  BY DEF ReportRejection
<1> HIDE DEF b, f, W
<1>4. Known(b, {f} \cup W)
  <2>1. Known(b, W)
    BY <1>1, MindStays DEF W
  <2> QED
    BY <1>1, <1>2, <2>1 DEF Known, SameMind
<1>5. Asked(b, {f} \cup W)
  <2>1. a.pending # NoRequest /\ Running(a) => UnderWay(b, {f} \cup W)
    BY <1>1 DEF Asked, UnderWay, SameMind, W
  <2> QED
    BY <1>1, <2>1 DEF Asked, SameMind, Running
<1>6. Attended(b, {f} \cup W)
  BY <1>1, <1>2 DEF Attended, CarriesOn, SameMind
<1> QED
  BY <1>1, <1>2, <1>3, <1>4, <1>5, <1>6, PushReached DEF Minded, W, Neutral

--------------------------------------------------------------------------------
(* Calls into the controller, the news and the next move *)

LEMMA Facts ==
  ASSUME IInv, TInv
  PROVE  /\ auth \in Members /\ stack \in Seq(Frames) /\ OutcomeOK(auth)
         /\ Heard(auth) /\ Tells(auth, stack) /\ Minded(auth, ToSet(stack))
         /\ Known(auth, ToSet(stack)) /\ Asked(auth, ToSet(stack))
         /\ Attended(auth, ToSet(stack))
BY DEF IInv, MembersOK, Sound, FramesOK, TInv, Minded

LEMMA AfterCall ==
  ASSUME IInv, TInv, NEW c, Call(c), Reached(auth, stack, c)
  PROVE  TInv'
<1>1. /\ auth' = c.auth /\ stack' = c.stack /\ calls' = calls + 1
      /\ calls < MaxCalls /\ Len(stack) < MaxDepth
  BY DEF Call, Step, CanCall
<1>2. /\ Heard(c.auth) /\ Tells(c.auth, c.stack)
      /\ c.stack \in Seq(Frames) /\ Len(c.stack) <= Len(stack) + 1
  BY Facts, ProperKeeps DEF Reached
<1>3. Len(c.stack) <= MaxDepth
  <2>1. Len(c.stack) \in Nat /\ Len(stack) \in Nat
    BY <1>2, Facts
  <2> QED
    BY <1>1, <1>2, <2>1, BoundsAssumption
<1>4. calls + 1 \in 0 .. MaxCalls
  BY <1>1, BoundsAssumption DEF TInv
<1> QED
  BY <1>1, <1>2, <1>3, <1>4 DEF TInv, Reached, DepthOK

LEMMA UpdateTdlibParametersMinds ==
  ASSUME IInv, TInv, UpdateTdlibParameters
  PROVE  TInv'
<1>1. "WaitTdlibParameters" \in States
  BY DEF States
<1>2. EntersWith(auth, "WaitTdlibParameters", SetTdlibParameters)
  BY DEF EntersWith
<1>3. Reached(auth, stack,
              EnterState(auth, stack, "WaitTdlibParameters", SetTdlibParameters))
  BY <1>1, <1>2, Facts, EnterReached DEF UpdateTdlibParameters
<1>4. Reached(auth, stack, FailAuthorization(auth, stack, "WaitTdlibParameters"))
  BY <1>1, Facts, FailReached
<1> QED
  BY <1>3, <1>4, AfterCall DEF UpdateTdlibParameters

LEMMA UpdatePhoneNumberMinds ==
  ASSUME IInv, TInv, UpdatePhoneNumber
  PROVE  TInv'
<1>1. ~PrefersQr(auth) =>
        Reached(auth, stack, HandleChallengeState(auth, stack, PhoneChallenge))
  <2>1. PhoneChallenge \in Challenges \ {NoChallenge}
    BY DEF Challenges, PhoneChallenge, NoChallenge
  <2> QED
    BY <2>1, Facts, HandleChallengeReached DEF UpdatePhoneNumber
<1>2. Reached(auth, stack, EnterState(auth, stack, "WaitPhoneNumber", RequestQrCode))
  <2>1. "WaitPhoneNumber" \in States /\ EntersWith(auth, "WaitPhoneNumber", RequestQrCode)
    BY DEF States, EntersWith
  <2> QED
    BY <2>1, Facts, EnterReached DEF UpdatePhoneNumber
<1>3. Reached(auth, stack, StartQrRequest(auth, stack))
  BY Facts, StartQrReached
<1> QED
  BY <1>1, <1>2, <1>3, AfterCall DEF UpdatePhoneNumber, PrefersQr

LEMMA UpdateChallengeMinds ==
  ASSUME IInv, TInv, UpdateChallenge
  PROVE  TInv'
<1>1. PICK type \in ChallengeStates, detail \in Details :
        Call(HandleChallengeState(auth, stack, [type |-> type, detail |-> detail]))
  BY DEF UpdateChallenge
<1> DEFINE challenge == [type |-> type, detail |-> detail]
<1>2. challenge \in Challenges \ {NoChallenge} /\ challenge.type # "WaitPhoneNumber"
  BY ChallengeStatesAssumption DEF Challenges, NoChallenge
<1> HIDE DEF challenge
<1>3. Reached(auth, stack, HandleChallengeState(auth, stack, challenge))
  BY <1>2, Facts, HandleChallengeReached DEF UpdateChallenge
<1> QED
  BY <1>1, <1>3, AfterCall DEF challenge

LEMMA UpdateQrLinkMinds ==
  ASSUME IInv, TInv, NEW link \in Links \cup {EmptyLink}, UpdateQrLink(link)
  PROVE  TInv'
<1> DEFINE a == [auth EXCEPT !.qrFlow = TRUE]
           b == Invalidate(a)
<1>1. "WaitOtherDeviceConfirmation" \in States
  BY DEF States
<1>2. a \in Members /\ SameNews(auth, a) /\ SameMind(auth, a) /\ a.qrFlow
  BY Facts DEF Members, SameNews, SameMind
<1>3. b \in Members
  BY <1>1, <1>2, NextStateTypes
<1> HIDE DEF a
<1>4. /\ SameNews(a, b) /\ b.pending = NoRequest /\ b.epoch = a.epoch + 1
      /\ b.prompt = a.prompt /\ b.promptType = a.promptType /\ b.state = a.state
      /\ b.lastSerial = a.lastSerial /\ b.outstanding = a.outstanding
  BY <1>2 DEF Members, Invalidate, SameNews
<1> HIDE DEF b
<1>5. /\ OutcomeOK(a) /\ Running(a)
      /\ Known(a, ToSet(stack)) /\ Asked(a, ToSet(stack))
  <2>1. OutcomeOK(a)
    BY <1>2, Facts DEF OutcomeOK, SameNews
  <2> QED
    BY <1>2, <2>1, Facts, MindStays DEF UpdateQrLink
<1>6. \A c : Reached(a, stack, c) => Reached(auth, stack, c)
  BY <1>2, ReachedFirst
<1>7. Reached(auth, stack, FailAuthorization(auth, stack, "WaitOtherDeviceConfirmation"))
  BY <1>1, Facts, FailReached
<1>8. Reached(a, stack, FailAuthorization(a, stack, "WaitOtherDeviceConfirmation"))
  BY <1>1, <1>2, <1>5, Facts, FailReached
<1>9. ASSUME link # EmptyLink
      PROVE  Reached(a, stack, EnterState(a, stack, "WaitOtherDeviceConfirmation",
                                          [type |-> "QrCode", detail |-> link]))
  <2> DEFINE then == [type |-> "QrCode", detail |-> link]
  <2>1. then \in LinkChallenges
    BY <1>9 DEF LinkChallenges
  <2> HIDE DEF then
  <2>2. EntersWith(a, "WaitOtherDeviceConfirmation", then)
    BY <1>2, <2>1 DEF EntersWith
  <2>3. Reached(a, stack, EnterState(a, stack, "WaitOtherDeviceConfirmation", then))
    BY <1>1, <1>2, <1>5, <2>1, <2>2, Facts, EnterReached
  <2> QED
    BY <2>3 DEF then
<1>10. ASSUME auth.promptType = "QrCode"
       PROVE  Reached(a, stack, ShowLink(b, stack, link))
  <2>1. a.epoch \in Nat /\ b.epoch \in Nat
    BY <1>2, <1>3, TypesKnown
  <2>2. b.prompt # 0 /\ b.promptType = "QrCode"
    BY <1>2, <1>4, <1>5, <1>10 DEF Known, SameMind
  <2>3. Fewer(a, b)
    BY <1>4, <2>1, <2>2 DEF Fewer
  <2>4. Known(b, ToSet(stack))
    BY <1>5, <2>3, Facts, Subset, KnownStays
  <2>5. \A g \in ToSet(stack) :
          ~(g.kind \in {"rejecting", "rejected"} /\ g.epoch = b.epoch)
    <3>1. \A g \in ToSet(stack) : g.epoch \in Nat
      BY Facts, Subset DEF Frames
    <3> QED
      BY <1>4, <1>5, <2>1, <3>1 DEF Known
  <2>6. Asked(b, ToSet(stack))
    BY <1>4, <2>2, <2>5 DEF Asked, Asking, NoRequest
  <2>7. Reached(b, stack, ShowLink(b, stack, link))
    BY <1>3, <2>2, <2>4, <2>6, Facts, LinkReached
  <2> QED
    BY <1>4, <2>7, ReachedFirst
<1>11. \/ Call(FailAuthorization(auth, stack, "WaitOtherDeviceConfirmation"))
       \/ Call(FailAuthorization(a, stack, "WaitOtherDeviceConfirmation"))
       \/ /\ link # EmptyLink
          /\ Call(EnterState(a, stack, "WaitOtherDeviceConfirmation",
                             [type |-> "QrCode", detail |-> link]))
       \/ auth.promptType = "QrCode" /\ Call(ShowLink(b, stack, link))
  BY DEF UpdateQrLink, a, b
<1> QED
  BY <1>6, <1>7, <1>8, <1>9, <1>10, <1>11, AfterCall

LEMMA UpdateUnsupportedMinds ==
  ASSUME IInv, TInv, UpdateUnsupported
  PROVE  TInv'
<1>1. PICK state \in {"None", "Unknown"} : Call(FailAuthorization(auth, stack, state))
  BY DEF UpdateUnsupported
<1>2. Reached(auth, stack, FailAuthorization(auth, stack, state))
  BY Facts, FailReached DEF States
<1> QED
  BY <1>1, <1>2, AfterCall

LEMMA UpdateReadyMinds ==
  ASSUME IInv, TInv, UpdateReady
  PROVE  TInv'
<1> DEFINE b == [NextState(auth, "Ready") EXCEPT !.completion = "ready"]
<1>1. auth \in Members /\ b \in Members
  BY Facts, EndTypes DEF Completions, States
<1>2. /\ b.completion = "ready" /\ b.outcomes = auth.outcomes
      /\ b.notified = auth.notified /\ b.stopped = auth.stopped
      /\ b.queued = auth.queued /\ b.arrived = auth.arrived /\ b.seen = auth.seen
      /\ b.prompt = auth.prompt /\ b.promptType = auth.promptType
      /\ b.pending = NoRequest /\ b.outstanding = auth.outstanding
      /\ b.lastSerial = auth.lastSerial /\ b.epoch = auth.epoch + 1
  BY <1>1 DEF Members, NextState, Invalidate
<1>3. auth.epoch \in Nat /\ auth.outcomes = <<>> /\ auth.completion = "none"
  BY <1>1, Facts, TypesKnown, NoOutcome DEF UpdateReady, Running
<1>4. Call(NotifyCompletion(b, stack))
  BY DEF UpdateReady
<1> HIDE DEF b
<1>5. Over(auth, b) /\ Fewer(auth, b)
  BY <1>2, <1>3, Facts DEF Over, Fewer, Known
<1>6. Reached(auth, stack, NotifyCompletion(b, stack))
  BY <1>1, <1>2, <1>3, <1>5, Facts, CompleteReached
<1> QED
  BY <1>4, <1>6, AfterCall

LEMMA SubmitMinds ==
  ASSUME IInv, TInv, Submit
  PROVE  TInv'
<1> DEFINE b == BeginRequest(auth, "Submit")
           f == [Frame("submitting") EXCEPT !.serial = b.pending.serial]
           W == ToSet(stack)
<1>1. /\ b \in Members /\ SameNews(auth, b) /\ Known(b, W) /\ b.pending # NoRequest
      /\ b.pending.epoch = b.epoch /\ b.challenge = auth.challenge
      /\ b.pending.serial # 0 /\ b.pending.serial \in Nat
  BY Facts, BeginKnown DEF Operations
<1>2. Call(NotifyPromptClosed(b, stack, f))
  BY DEF Submit
<1> HIDE DEF b
<1>3. f \in Frames /\ f.kind = "submitting" /\ f.serial = b.pending.serial
  <2>1. Frame("submitting") \in Frames /\ Frame("submitting").kind = "submitting"
    BY Defaults DEF Kinds
  <2> QED
    BY <1>1, <2>1 DEF Frames
<1> HIDE DEF f, W
<1>4. b.challenge # NoChallenge
  BY <1>1, Facts DEF Submit, Asked, Asking
<1>5. UnderWay(b, {f} \cup W)
  BY <1>1, <1>3 DEF UnderWay
<1>6. Reached(b, stack, NotifyPromptClosed(b, stack, f))
  BY <1>1, <1>3, <1>4, <1>5, Facts, ClosedReached DEF W, Neutral
<1> QED
  BY <1>1, <1>2, <1>6, ReachedFirst, AfterCall

LEMMA SubmitNothingMinds ==
  ASSUME IInv, TInv, SubmitNothing
  PROVE  TInv'
<1> DEFINE f == [Frame("rejecting") EXCEPT !.epoch = auth.epoch, !.state = auth.state]
           W == ToSet(stack)
<1>1. auth.epoch \in Nat /\ auth.state \in States
  BY Facts, TypesKnown
<1>2. /\ f \in Frames /\ f.kind = "rejecting" /\ f.epoch = auth.epoch
      /\ f.state = auth.state
  <2>1. Frame("rejecting") \in Frames /\ Frame("rejecting").kind = "rejecting"
    BY Defaults DEF Kinds
  <2> QED
    BY <1>1, <2>1 DEF Frames
<1>3. Call(NotifyPromptClosed(auth, stack, f))
  BY DEF SubmitNothing
<1> HIDE DEF f, W
<1>4. auth.challenge # NoChallenge
  BY Facts DEF SubmitNothing, Asked, Asking
<1>5. CarriesOn(auth, f)
  BY <1>2 DEF CarriesOn, IsCurrentState, SubmitNothing
<1>6. auth.pending # NoRequest => UnderWay(auth, {f} \cup W)
  BY Facts DEF SubmitNothing, Asked, UnderWay, W
<1>7. f.epoch <= auth.epoch
  BY <1>1, <1>2
<1>8. Reached(auth, stack, NotifyPromptClosed(auth, stack, f))
  BY <1>2, <1>4, <1>5, <1>6, <1>7, Facts, ClosedReached DEF W, Neutral
<1> QED
  BY <1>3, <1>8, AfterCall

LEMMA CancelMinds ==
  ASSUME IInv, TInv, Cancel \/ FailPrompt
  PROVE  TInv'
<1>1. Running(auth)
  BY DEF Cancel, FailPrompt
<1>2. \A r \in {"cancelled", "failed"} :
        Reached(auth, stack,
                NotifyCompletion([Invalidate(auth) EXCEPT !.completion = r], stack))
  BY <1>1, Facts, EndReached
<1> QED
  BY <1>2, AfterCall DEF Cancel, FailPrompt

LEMMA ShutdownMinds ==
  ASSUME IInv, TInv, Shutdown
  PROVE  TInv'
<1> DEFINE b == Stop(auth)
           x == [DiscardPrompt(b) EXCEPT !.closed = @ \cup {b.prompt}]
           f == Frame("shown")
           W == ToSet(stack)
<1>1. b \in Members /\ auth \in Members
  BY Facts, StopTypes
<1>2. /\ b.stopped /\ b.queued = <<>>
      /\ b.completion = auth.completion /\ b.notified = auth.notified
      /\ b.arrived = auth.arrived /\ b.seen = auth.seen /\ b.outcomes = auth.outcomes
      /\ b.prompt = auth.prompt /\ b.promptType = auth.promptType
      /\ b.pending = NoRequest /\ b.outstanding = auth.outstanding
      /\ b.lastSerial = auth.lastSerial /\ b.epoch = auth.epoch + 1
  BY <1>1 DEF Members, Stop, Invalidate, Shutdown
<1>3. f \in Frames /\ f.kind = "shown" /\ W \in SUBSET Frames
  BY Facts, Defaults, Subset DEF Kinds
<1>4. Call(IF b.prompt = 0 THEN At(b, stack) ELSE CallOut(x, stack, f))
  BY DEF Shutdown, NotifyPromptClosed
<1> HIDE DEF b
<1>5. /\ x.stopped /\ x.queued = <<>>
      /\ x.completion = auth.completion /\ x.notified = auth.notified
      /\ x.arrived = auth.arrived /\ x.seen = auth.seen /\ x.outcomes = auth.outcomes
      /\ x.prompt = 0 /\ x.promptType = "None"
      /\ x.pending = NoRequest /\ x.outstanding = auth.outstanding
      /\ x.lastSerial = auth.lastSerial /\ x.epoch = auth.epoch + 1
  BY <1>1, <1>2 DEF Members, DiscardPrompt
<1>6. auth.epoch \in Nat
  BY <1>1, TypesKnown
<1> HIDE DEF x, f, W
<1>7. Reached(auth, stack, At(b, stack))
  <2>1. Fewer(auth, b)
    BY <1>2, <1>6, Facts DEF Fewer, Known
  <2>2. Known(b, W)
    BY <1>3, <2>1, Facts, KnownStays DEF W
  <2>3. Minded(b, W)
    BY <1>2, <2>2, NoneMinded DEF Running
  <2>4. Halts(auth, stack, At(b, stack))
    BY <1>2 DEF Halts, Added, At
  <2> QED
    BY <2>3, <2>4 DEF Reached, Proper, At, W
<1>8. Reached(auth, stack, CallOut(x, stack, f))
  <2>1. Fewer(auth, x)
    BY <1>5, <1>6 DEF Fewer
  <2>2. Known(x, {f} \cup W)
    BY <1>3, <2>1, Facts, KnownStays DEF W
  <2>3. Minded(x, {f} \cup W)
    BY <1>5, <2>2, NoneMinded DEF Running
  <2>4. Halts(auth, stack, CallOut(x, stack, f))
    BY <1>3, <1>5 DEF Halts, Added, CallOut, At, Neutral
  <2>5. ToSet(<<f>> \o stack) = {f} \cup W
    BY <1>3, Facts, Pushed DEF W
  <2> QED
    BY <2>3, <2>4, <2>5 DEF Reached, Proper, CallOut, At
<1> QED
  BY <1>4, <1>7, <1>8, AfterCall

--------------------------------------------------------------------------------
(* Lifecycle states and answers, the news and the next move *)

\* What becomes of a lifecycle state once the login has ended.
LEMMA DispatchTells ==
  ASSUME NEW a \in Members, NEW frames \in Seq(Frames), NEW state \in LifecycleStates,
         a.completion # "none", Known(a, ToSet(frames)), Distinct(a.arrived),
         a.completion = "ready" =>
           /\ a.notified = ToSet(a.seen)
           /\ LET next == IF state \in ToSet(a.seen) THEN a.seen ELSE Append(a.seen, state)
              IN  Begins(next, a.arrived) /\ (~a.stopped => Ordered(next, a.arrived, a.queued)),
         a.completion # "ready" => a.seen = <<>> /\ a.arrived = <<>>,
         a.stopped => a.queued = <<>>,
         a.queued # <<>> =>
           \E f \in ToSet(frames) : f.kind \in {"closing", "outcome", "drain"},
         \A f \in ToSet(frames) : f.kind \notin Telling,
         a.outcomes # <<>>, Sorted(frames)
  PROVE  LET c == DispatchLifecycle(a, frames, state)
         IN  /\ Heard(c.auth) /\ Tells(c.auth, c.stack) /\ Minded(c.auth, ToSet(c.stack))
             /\ \/ c.stack = frames
                \/ /\ Len(c.stack) = Len(frames) + 1
                   /\ Head(c.stack).kind = "lifecycle"
<1> DEFINE b == [NextState(a, state) EXCEPT !.notified = @ \cup {state}]
           x == [b EXCEPT !.seen = Append(@, state)]
           W == ToSet(frames)
           next == IF state \in ToSet(a.seen) THEN a.seen ELSE Append(a.seen, state)
           c == DispatchLifecycle(a, frames, state)
<1>1. /\ b.completion = a.completion /\ b.outcomes = a.outcomes
      /\ b.notified = a.notified \cup {state} /\ b.stopped = a.stopped
      /\ b.queued = a.queued /\ b.arrived = a.arrived /\ b.seen = a.seen
      /\ b.prompt = a.prompt /\ b.promptType = a.promptType
      /\ b.pending = NoRequest /\ b.outstanding = a.outstanding
      /\ b.lastSerial = a.lastSerial /\ b.epoch = a.epoch + 1
  BY DEF Members, NextState, Invalidate
<1>2. /\ x.completion = a.completion /\ x.outcomes = a.outcomes
      /\ x.notified = a.notified \cup {state} /\ x.stopped = a.stopped
      /\ x.queued = a.queued /\ x.arrived = a.arrived /\ x.seen = Append(a.seen, state)
      /\ x.prompt = a.prompt /\ x.promptType = a.promptType
      /\ x.pending = NoRequest /\ x.outstanding = a.outstanding
      /\ x.lastSerial = a.lastSerial /\ x.epoch = a.epoch + 1
  BY DEF Members, NextState, Invalidate
<1>3. W \in SUBSET Frames /\ a.epoch \in Nat /\ a.seen \in Seq(LifecycleStates)
  BY Subset, TypesKnown
<1>4. ASSUME NEW y, NEW V \in SUBSET Frames, ~Running(y), y.prompt = a.prompt,
             y.promptType = a.promptType, y.pending \in {a.pending, NoRequest},
             y.outstanding = a.outstanding, y.lastSerial = a.lastSerial,
             y.epoch \in {a.epoch, a.epoch + 1},
             \A f \in V : f \in W \/ f.kind = "lifecycle"
      PROVE  Minded(y, V)
  <2>1. Fewer(a, y)
    BY <1>3, <1>4 DEF Fewer, Known
  <2>2. Known(y, V)
    BY <1>3, <1>4, <2>1, KnownStays
  <2> QED
    BY <1>4, <2>2, NoneMinded
<1>5. CASE state \in a.notified
  <2>1. c = At(a, frames)
    BY <1>5 DEF DispatchLifecycle
  <2>2. Heard(a)
    BY <1>5 DEF Heard, Begins
  <2>3. Tells(a, frames)
    BY DEF Tells
  <2>4. Minded(a, W)
    BY <1>3, <1>4 DEF Running
  <2> HIDE DEF c, W
  <2> QED
    BY <2>1, <2>2, <2>3, <2>4 DEF At, c, W
<1>6. CASE state \notin a.notified /\ a.completion = "ready"
  <2> DEFINE f == Frame("lifecycle")
  <2>1. c = At(x, <<f>> \o frames)
    BY <1>6 DEF DispatchLifecycle, CallOut
  <2>2. f \in Frames /\ f.kind = "lifecycle"
    BY Defaults DEF Kinds
  <2>3. next = Append(a.seen, state) /\ ToSet(next) = ToSet(a.seen) \cup {state}
    BY <1>3, <1>6, Grown
  <2>4. Begins(next, a.arrived) /\ (~a.stopped => Ordered(next, a.arrived, a.queued))
    BY <1>6
  <2> HIDE DEF c, W, b, x, f, next
  <2>5. Heard(x)
    BY <1>2, <1>6, <2>3, <2>4 DEF Heard
  <2>6. /\ Len(<<f>> \o frames) = Len(frames) + 1 /\ Head(<<f>> \o frames) = f
        /\ ToSet(<<f>> \o frames) = {f} \cup W
    BY <2>2, Pushed DEF W
  <2>7. Sorted(<<f>> \o frames)
    BY <2>2, PushedSorted
  <2>8. Tells(x, <<f>> \o frames)
    BY <1>2, <2>6, <2>7 DEF Tells, W
  <2>9. Minded(x, {f} \cup W)
    BY <1>2, <1>3, <1>4, <2>2 DEF Running
  <2>10. c.auth = x /\ c.stack = <<f>> \o frames
    BY <2>1 DEF At
  <2> QED
    BY <2>2, <2>5, <2>6, <2>8, <2>9, <2>10 DEF c
<1>7. CASE state \notin a.notified /\ a.completion # "ready"
  <2>1. c = At(b, frames)
    BY <1>7 DEF DispatchLifecycle
  <2> HIDE DEF b
  <2>2. Heard(b)
    BY <1>1, <1>7, Nothing DEF Heard
  <2>3. Tells(b, frames)
    BY <1>1 DEF Tells
  <2>4. Minded(b, W)
    BY <1>1, <1>3, <1>4 DEF Running
  <2> HIDE DEF c, W
  <2> QED
    BY <2>1, <2>2, <2>3, <2>4 DEF At, c, W
<1> QED
  BY <1>5, <1>6, <1>7

\* A lifecycle state ends a login that goes on.
LEMMA DispatchEnds ==
  ASSUME NEW frames \in Seq(Frames), NEW state \in LifecycleStates, auth \in Members,
         OutcomeOK(auth), Heard(auth), Known(auth, ToSet(frames)),
         auth.completion = "none"
  PROVE  Reached(auth, frames, DispatchLifecycle(auth, frames, state))
<1> DEFINE next == [NextState(auth, state) EXCEPT !.notified = @ \cup {state}]
           b == [next EXCEPT !.completion = "failed"]
<1>1. b \in Members
  <2>1. NextState(auth, state) \in Members
    BY NextStateTypes DEF States
  <2>2. \A c \in Members : [c EXCEPT !.notified = @ \cup {state}] \in Members
    BY ZenonT(40) DEF Members
  <2>3. \A c \in Members : [c EXCEPT !.completion = "failed"] \in Members
    BY ZenonT(40) DEF Members, Completions
  <2> QED
    BY <2>1, <2>2, <2>3
<1>2. /\ b.completion = "failed" /\ b.outcomes = auth.outcomes
      /\ b.stopped = auth.stopped
      /\ b.queued = auth.queued /\ b.arrived = auth.arrived /\ b.seen = auth.seen
      /\ b.prompt = auth.prompt /\ b.promptType = auth.promptType
      /\ b.pending = NoRequest /\ b.outstanding = auth.outstanding
      /\ b.lastSerial = auth.lastSerial /\ b.epoch = auth.epoch + 1
  BY DEF Members, NextState, Invalidate
<1>3. auth.epoch \in Nat /\ auth.outcomes = <<>> /\ state \notin auth.notified
  BY TypesKnown, NoOutcome DEF Heard
<1>4. DispatchLifecycle(auth, frames, state) = NotifyCompletion(b, frames)
  BY <1>3 DEF DispatchLifecycle
<1> HIDE DEF b
<1>5. Over(auth, b) /\ Fewer(auth, b)
  BY <1>2, <1>3 DEF Over, Fewer, Known
<1> QED
  BY <1>1, <1>2, <1>3, <1>4, <1>5, CompleteReached

LEMMA Longer ==
  ASSUME NEW seen \in Seq(LifecycleStates), NEW arrived \in Seq(LifecycleStates),
         NEW state \in LifecycleStates, Begins(seen, arrived)
  PROVE  Begins(seen, Append(arrived, state))
<1>1. /\ Len(Append(arrived, state)) = Len(arrived) + 1
      /\ Len(seen) \in Nat /\ Len(arrived) \in Nat
      /\ \A n \in 1 .. Len(arrived) : Append(arrived, state)[n] = arrived[n]
  OBVIOUS
<1>2. \A n \in 1 .. Len(seen) : n \in 1 .. Len(arrived)
  BY <1>1 DEF Begins
<1> QED
  BY <1>1, <1>2 DEF Begins

LEMMA HandleLifecycleMinds ==
  ASSUME IInv, TInv, NEW state \in LifecycleStates, HandleLifecycle(state)
  PROVE  TInv'
<1> DEFINE new == auth.completion = "ready" /\ state \notin ToSet(auth.arrived)
           arrived == IF new THEN Append(auth.arrived, state) ELSE auth.arrived
           a == IF new THEN [auth EXCEPT !.arrived = Append(@, state)] ELSE auth
           more == Append(a.queued, state)
           b == [a EXCEPT !.queued = more]
           W == ToSet(stack)
<1>1. ~auth.stopped /\ auth \in Members /\ stack \in Seq(Frames)
  BY Facts DEF HandleLifecycle
<1>2. /\ auth.seen \in Seq(LifecycleStates) /\ auth.arrived \in Seq(LifecycleStates)
      /\ auth.queued \in Seq(LifecycleStates)
  BY <1>1, TypesKnown
<1>3. arrived \in Seq(LifecycleStates)
  BY <1>2
<1>4. a = [auth EXCEPT !.arrived = arrived]
  BY <1>1 DEF Members
<1>5. a \in Members
  BY <1>1, <1>3, <1>4, ZenonT(40) DEF Members
<1>6. /\ SameMind(auth, a) /\ a.completion = auth.completion /\ a.stopped = auth.stopped
      /\ a.notified = auth.notified /\ a.queued = auth.queued /\ a.seen = auth.seen
      /\ a.outcomes = auth.outcomes /\ a.arrived = arrived
  BY <1>1, <1>4 DEF Members, SameMind
<1>7. /\ (InCompletion(stack) \/ Draining(stack)) /\ Call(At(b, stack))
      \/ /\ ~InCompletion(stack) /\ ~Draining(stack)
         /\ Call(DispatchLifecycle(a, stack, state))
  BY DEF HandleLifecycle
<1>8. a.completion # "ready" => a = auth
  BY <1>6
<1> HIDE DEF a
<1>9. /\ SameMind(a, b) /\ b.completion = a.completion /\ b.stopped = a.stopped
      /\ b.notified = a.notified /\ b.queued = more /\ b.seen = a.seen
      /\ b.outcomes = a.outcomes /\ b.arrived = a.arrived
  BY <1>5 DEF Members, SameMind
<1> HIDE DEF b, W, arrived, new
<1>10. DOMAIN stack = 1 .. Len(stack)
  BY <1>1
<1>11. Distinct(arrived) /\ Begins(auth.seen, arrived)
  <2>1. CASE new
    BY <1>2, <2>1, Facts, Grown, Longer DEF new, arrived, Heard
  <2>2. CASE ~new
    BY <2>2, Facts DEF arrived, Heard
  <2> QED
    BY <2>1, <2>2
<1>12. calls' = calls + 1 /\ calls < MaxCalls /\ Len(stack) < MaxDepth
  BY <1>7 DEF Call, CanCall
<1>13. calls' \in 0 .. MaxCalls
  BY <1>12, BoundsAssumption DEF TInv
<1>14. CASE (InCompletion(stack) \/ Draining(stack)) /\ Call(At(b, stack))
  <2>1. \E f \in W : f.kind \in {"closing", "outcome", "drain"}
    BY <1>10, <1>14 DEF InCompletion, Draining, ToSet, W
  <2>2. auth.completion # "none"
    BY <2>1, Facts DEF Tells, Afterwards, W
  <2>3. auth.completion = "ready" => Ordered(auth.seen, arrived, more)
    <3>1. CASE new
      BY <1>1, <1>2, <1>6, <3>1, Facts, QueuedFirst DEF arrived, new, Heard
    <3>2. CASE ~new
      BY <1>1, <1>2, <1>6, <3>2, Facts, QueuedAgain DEF arrived, new, Heard
    <3> QED
      BY <3>1, <3>2
  <2>4. Heard(b)
    <3>1. b.completion # "ready" => b.seen = <<>> /\ b.arrived = <<>>
      BY <1>6, <1>8, <1>9, Facts DEF Heard
    <3> QED
      BY <1>1, <1>6, <1>9, <1>11, <2>2, <2>3, <3>1, Facts DEF Heard
  <2>5. Tells(b, stack)
    BY <1>6, <1>9, <2>1, <2>2, Facts DEF Tells, W
  <2>6. Minded(b, W)
    BY <1>6, <1>9, Facts, MindStays DEF Minded, W
  <2>7. auth' = b /\ stack' = stack
    BY <1>14 DEF Call, Step, At
  <2> QED
    BY <1>13, <2>4, <2>5, <2>6, <2>7 DEF TInv, W, DepthOK
<1>15. CASE /\ ~InCompletion(stack) /\ ~Draining(stack)
            /\ Call(DispatchLifecycle(a, stack, state))
  <2>1. \A f \in W : f.kind \notin {"closing", "outcome", "drain"}
    BY <1>10, <1>15 DEF InCompletion, Draining, ToSet, W
  <2>2. auth.queued = <<>>
    BY <2>1, Facts DEF Tells, W
  <2>3. CASE auth.completion = "none"
    BY <1>8, <1>6, <1>15, <2>3, Facts, DispatchEnds, AfterCall
  <2>4. CASE auth.completion # "none"
    <3>1. auth.outcomes # <<>>
      BY <2>1, <2>4, Facts DEF Tells, W
    <3>2. Known(a, W)
      BY <1>6, Facts, MindStays DEF W
    <3> DEFINE next == IF state \in ToSet(auth.seen) THEN auth.seen
                                                     ELSE Append(auth.seen, state)
    <3>3. ASSUME auth.completion = "ready"
          PROVE  Begins(next, arrived) /\ Ordered(next, arrived, <<>>)
      <4>1. auth.seen = auth.arrived
        BY <1>1, <1>2, <2>2, <3>3, Facts, Emptied DEF Heard
      <4>2. next = arrived
        BY <3>3, <4>1 DEF arrived, new
      <4> QED
        BY <1>3, <4>2, Grown
    <3>4. /\ a.completion = "ready" => a.notified = ToSet(a.seen)
          /\ a.completion # "ready" => a.seen = <<>> /\ a.arrived = <<>>
      BY <1>6, <1>8, Facts DEF Heard
    <3> DEFINE c == DispatchLifecycle(a, stack, state)
    <3>5. \A f \in W : f.kind \notin Telling
      BY <2>1 DEF Telling
    <3>6. Sorted(stack)
      BY Facts DEF Tells
    <3>7. /\ Heard(c.auth) /\ Tells(c.auth, c.stack) /\ Minded(c.auth, ToSet(c.stack))
          /\ c.stack = stack \/ Len(c.stack) = Len(stack) + 1
      <4>1. Distinct(a.arrived) /\ a.completion # "none" /\ a.outcomes # <<>>
            /\ a.queued = <<>>
        BY <1>6, <1>11, <2>2, <2>4, <3>1
      <4>2. a.completion = "ready" =>
              LET n == IF state \in ToSet(a.seen) THEN a.seen ELSE Append(a.seen, state)
              IN  Begins(n, a.arrived) /\ (~a.stopped => Ordered(n, a.arrived, a.queued))
        BY <1>6, <2>2, <3>3
      <4> HIDE DEF c
      <4> QED
        BY <1>1, <1>5, <3>2, <3>4, <3>5, <3>6, <4>1, <4>2, DispatchTells DEF c, W
    <3> HIDE DEF c
    <3>8. auth' = c.auth /\ stack' = c.stack
      BY <1>15 DEF Call, Step, c
    <3>9. Len(c.stack) <= MaxDepth
      <4>1. Len(stack) \in Nat
        BY <1>1
      <4> QED
        BY <1>12, <3>7, <4>1, BoundsAssumption
    <3> QED
      BY <1>13, <3>7, <3>8, <3>9 DEF TInv, DepthOK
  <2> QED
    BY <2>3, <2>4
<1> QED
  BY <1>7, <1>14, <1>15

LEMMA RespondMinds ==
  ASSUME IInv, TInv, NEW request \in auth.outstanding,
         NEW answer \in {"ok", "error", "other"}, Respond(request, answer)
  PROVE  TInv'
<1> DEFINE o == auth.outstanding \ {request}
           answered == [auth EXCEPT !.outstanding = o]
           a == [auth EXCEPT !.outstanding = o, !.pending = NoRequest]
           accepted == [a EXCEPT !.acknowledged = TRUE]
           back == [a EXCEPT !.fallback = TRUE]
           current == /\ Running(auth) /\ request.epoch = auth.epoch
                      /\ IsCurrentRequest(auth, request.serial)
           W == ToSet(stack)
<1>1. auth \in Members /\ auth.epoch \in Nat
  BY Facts, TypesKnown
<1>2. /\ [auth EXCEPT !.outstanding = @ \ {request}] = answered
      /\ [[auth EXCEPT !.outstanding = @ \ {request}] EXCEPT !.pending = NoRequest] = a
  BY <1>1 DEF Members
<1>3. /\ SameNews(auth, answered) /\ answered.outstanding = o
      /\ answered.pending = auth.pending /\ answered.state = auth.state
      /\ answered.epoch = auth.epoch /\ answered.prompt = auth.prompt
      /\ answered.promptType = auth.promptType /\ answered.challenge = auth.challenge
      /\ answered.lastSerial = auth.lastSerial
      /\ answered.acknowledged = auth.acknowledged
  BY <1>1 DEF Members, SameNews
<1>4. /\ SameNews(auth, a) /\ a.outstanding = o
      /\ a.pending = NoRequest /\ a.state = auth.state
      /\ a.epoch = auth.epoch /\ a.prompt = auth.prompt
      /\ a.promptType = auth.promptType /\ a.challenge = auth.challenge
      /\ a.lastSerial = auth.lastSerial
  BY <1>1 DEF Members, SameNews
<1>5. a \in Members
  <2>1. o \in SUBSET Requests
    BY <1>1 DEF Members
  <2> HIDE DEF o
  <2> QED
    BY <1>1, <2>1, Defaults DEF Members
<1>6. \/ ~current /\ Call(At(answered, stack))
      \/ Call(At(accepted, stack))
      \/ current /\ Call(HandleChallengeState(back, stack, PhoneChallenge))
      \/ current /\ request.operation = "Submit" /\ Call(ReportRejection(a, stack))
      \/ Call(FailAuthorization(a, stack, a.state))
  BY <1>2 DEF Respond
<1> HIDE DEF answered, a, W
<1>7. Known(answered, W) /\ Known(a, W)
  <2>1. Fewer(auth, answered) /\ Fewer(auth, a)
    BY <1>1, <1>3, <1>4, Facts DEF Fewer, Known
  <2> QED
    BY <2>1, Facts, Subset, KnownStays DEF W
<1>8. Asked(a, W)
  BY <1>4, Facts DEF Asked, Asking, Running, SameNews, NoRequest, W
<1>9. OutcomeOK(a)
  BY <1>4, Facts DEF OutcomeOK, SameNews
<1>10. CASE ~current /\ Call(At(answered, stack))
  <2>1. Running(auth) /\ auth.pending # NoRequest => UnderWay(answered, W)
    <3>1. SUFFICES ASSUME Running(auth), auth.pending # NoRequest
                   PROVE  UnderWay(answered, W)
      OBVIOUS
    <3>2. UnderWay(auth, W)
      BY <3>1, Facts DEF Asked, W
    <3>3. auth.pending # request
      BY <1>10, <3>1, <3>2 DEF UnderWay, IsCurrentRequest
    <3> QED
      BY <1>3, <3>2, <3>3 DEF UnderWay
  <2>2. Asked(answered, W)
    BY <1>3, <2>1, Facts DEF Asked, Asking, Running, SameNews, W
  <2>3. Attended(answered, W)
    BY <1>3, Facts DEF Attended, CarriesOn, IsCurrentState, Running, SameNews, W
  <2>4. Reached(answered, stack, At(answered, stack))
    BY <1>7, <2>2, <2>3, Here DEF Minded, W
  <2> QED
    BY <1>3, <1>10, <2>4, ReachedFirst, AfterCall
<1>11. CASE Call(At(accepted, stack))
  <2>1. /\ SameNews(a, accepted) /\ accepted.acknowledged
        /\ accepted.outstanding = a.outstanding
        /\ accepted.pending = a.pending /\ accepted.state = a.state
        /\ accepted.epoch = a.epoch /\ accepted.prompt = a.prompt
        /\ accepted.promptType = a.promptType /\ accepted.challenge = a.challenge
        /\ accepted.lastSerial = a.lastSerial
    BY <1>5 DEF Members, SameNews
  <2> HIDE DEF accepted
  <2>2. Known(accepted, W)
    BY <1>7, <2>1 DEF Known
  <2>3. Asked(accepted, W)
    BY <1>8, <2>1 DEF Asked, UnderWay, Asking, Running, SameNews
  <2>4. Minded(accepted, W)
    BY <2>1, <2>2, <2>3 DEF Minded, Attended
  <2>5. Reached(accepted, stack, At(accepted, stack))
    BY <2>4, Here DEF W
  <2> QED
    BY <1>4, <1>11, <2>1, <2>5, ReachedFirst, AfterCall
<1>12. CASE current /\ Call(HandleChallengeState(back, stack, PhoneChallenge))
  <2>1. back \in Members /\ SameNews(a, back) /\ SameMind(a, back) /\ back.fallback
    BY <1>5 DEF Members, SameNews, SameMind
  <2>2. PhoneChallenge \in Challenges \ {NoChallenge}
    BY DEF Challenges, PhoneChallenge, NoChallenge
  <2> HIDE DEF back
  <2>3. OutcomeOK(back)
    BY <1>9, <2>1 DEF OutcomeOK, SameNews
  <2>4. Known(back, W) /\ Asked(back, W) /\ Running(back)
    <3>1. Running(a)
      BY <1>4, <1>12 DEF Running, SameNews
    <3> QED
      BY <1>7, <1>8, <2>1, <3>1, MindStays
  <2>5. Reached(back, stack, HandleChallengeState(back, stack, PhoneChallenge))
    BY <2>1, <2>2, <2>3, <2>4, Facts, HandleChallengeReached DEF PrefersQr, W
  <2> QED
    BY <1>4, <1>12, <2>1, <2>5, ReachedFirst, AfterCall
<1>13. CASE /\ current /\ request.operation = "Submit"
            /\ Call(ReportRejection(a, stack))
  <2>1. request = auth.pending
    BY <1>13, Facts DEF Known, IsCurrentRequest
  <2>2. a.challenge # NoChallenge
    BY <1>4, <1>13, <2>1, Facts DEF Asked, Asking
  <2>3. Reached(a, stack, ReportRejection(a, stack))
    BY <1>5, <1>7, <1>8, <2>2, Facts, RejectReached DEF W
  <2> QED
    BY <1>4, <1>13, <2>3, ReachedFirst, AfterCall
<1>14. CASE Call(FailAuthorization(a, stack, a.state))
  <2>1. a.state \in States
    BY <1>5, TypesKnown
  <2>2. Reached(a, stack, FailAuthorization(a, stack, a.state))
    BY <1>5, <1>7, <1>9, <2>1, Facts, FailReached DEF W
  <2> QED
    BY <1>4, <1>14, <2>2, ReachedFirst, AfterCall
<1> QED
  BY <1>6, <1>10, <1>11, <1>12, <1>13, <1>14

--------------------------------------------------------------------------------
(* A call-out comes back, the news and the next move *)

LEMMA AfterResume ==
  ASSUME NEW c, TInv, Resume(c), Heard(c.auth), Tells(c.auth, c.stack),
         Minded(c.auth, ToSet(c.stack)), DepthOK(c.stack)
  PROVE  TInv'
BY DEF Resume, Step, TInv

\* What still holds without the frame on top.
LEMMA Below ==
  ASSUME IInv, TInv, stack # <<>>
  PROVE  LET h == Head(stack)
             rest == Tail(stack)
         IN  /\ h \in Frames /\ rest \in Seq(Frames) /\ FrameOK(auth, h)
             /\ ToSet(stack) = {h} \cup ToSet(rest) /\ Sorted(rest)
             /\ h.kind \in Afterwards => \A g \in ToSet(rest) : g.kind \notin Telling
             /\ Known(auth, ToSet(rest))
             /\ (h.kind # "submitting" \/ h.serial # auth.pending.serial)
                  => Asked(auth, ToSet(rest))
             /\ ~CarriesOn(auth, h) => Attended(auth, ToSet(rest))
             /\ h.kind \notin {"closing", "outcome", "drain"} => Tells(auth, rest)
             /\ Len(stack) = Len(rest) + 1 /\ Len(rest) <= MaxDepth
             /\ h.kind # "lifecycle" => Len(rest) + 1 <= MaxDepth
<1> DEFINE h == Head(stack)
           rest == Tail(stack)
           V == ToSet(rest)
<1>1. /\ h \in Frames /\ rest \in Seq(Frames) /\ Len(stack) = Len(rest) + 1
      /\ ToSet(stack) = {h} \cup V /\ Sorted(rest)
      /\ h.kind \in Afterwards => \A g \in V : g.kind \notin Telling
  BY Facts, Popped DEF Tells
<1>2. FrameOK(auth, h)
  BY PopFrame DEF IInv
<1>3. Len(rest) \in Nat
  BY <1>1
<1>4. Len(rest) <= MaxDepth /\ (h.kind # "lifecycle" => Len(rest) + 1 <= MaxDepth)
  BY <1>1, <1>3, BoundsAssumption DEF TInv, DepthOK
<1> HIDE DEF h, rest, V
<1>5. Known(auth, V)
  BY <1>1, Facts DEF Known
<1>6. h.kind # "submitting" \/ h.serial # auth.pending.serial => Asked(auth, V)
  BY <1>1, Facts DEF Asked, UnderWay, Asking
<1>7. ~CarriesOn(auth, h) => Attended(auth, V)
  BY <1>1, Facts DEF Attended
<1>8. h.kind \notin {"closing", "outcome", "drain"} => Tells(auth, rest)
  BY <1>1, Facts DEF Tells, V
<1> QED
  BY <1>1, <1>2, <1>4, <1>5, <1>6, <1>7, <1>8 DEF h, rest, V

LEMMA AfterReturn ==
  ASSUME IInv, TInv, stack # <<>>, Head(stack).kind \in Neutral, NEW c, Resume(c),
         Reached(auth, Tail(stack), c)
  PROVE  TInv'
<1>1. /\ Tail(stack) \in Seq(Frames) /\ Tells(auth, Tail(stack))
      /\ Len(Tail(stack)) + 1 <= MaxDepth
  BY Below DEF Neutral
<1>2. /\ Heard(c.auth) /\ Tells(c.auth, c.stack)
      /\ c.stack \in Seq(Frames) /\ Len(c.stack) <= Len(Tail(stack)) + 1
  BY <1>1, Facts, ProperKeeps DEF Reached
<1>3. DepthOK(c.stack)
  <2>1. Len(c.stack) \in Nat /\ Len(Tail(stack)) \in Nat
    BY <1>1, <1>2
  <2> QED
    BY <1>1, <1>2, <2>1, BoundsAssumption DEF DepthOK
<1> QED
  BY <1>2, <1>3, AfterResume DEF Reached

LEMMA ReturnMinds ==
  ASSUME IInv, TInv, ReturnToCaller \/ SenderAccepts
  PROVE  TInv'
<1>1. /\ stack # <<>> /\ Resume(At(auth, Tail(stack)))
      /\ Head(stack).kind \in {"shown", "lifecycle", "sending"}
  BY DEF ReturnToCaller, SenderAccepts, Back
<1>2. ~CarriesOn(auth, Head(stack))
  BY <1>1 DEF CarriesOn
<1>3. Minded(auth, ToSet(Tail(stack))) /\ Tells(auth, Tail(stack))
      /\ Len(Tail(stack)) <= MaxDepth
  BY <1>1, <1>2, Below DEF Minded
<1> QED
  BY <1>1, <1>3, Facts, AfterResume DEF At, DepthOK

LEMMA ReturnEnteredMinds ==
  ASSUME IInv, TInv, ReturnEntered
  PROVE  TInv'
<1> DEFINE f == Head(stack)
           rest == Tail(stack)
<1>1. stack # <<>> /\ f.kind = "entered" /\ Resume(Entered(auth, rest, f))
  BY DEF ReturnEntered, Back
<1>2. Turns(auth, f) /\ rest \in Seq(Frames)
  BY <1>1, Below DEF Turns, FrameOK
<1>3. /\ Known(auth, ToSet(rest)) /\ Asked(auth, ToSet(rest))
      /\ ~IsCurrentState(auth, f.epoch, f.state) => Attended(auth, ToSet(rest))
  BY <1>1, Below DEF CarriesOn
<1> HIDE DEF f, rest
<1>4. Reached(auth, rest, Entered(auth, rest, f))
  BY <1>2, <1>3, Facts, EnteredReached
<1> QED
  BY <1>1, <1>4, AfterReturn DEF f, rest, Neutral

LEMMA ReturnSubmittingMinds ==
  ASSUME IInv, TInv, ReturnSubmitting
  PROVE  TInv'
<1> DEFINE f == Head(stack)
           rest == Tail(stack)
           V == ToSet(rest)
<1>1. /\ stack # <<>> /\ f.kind = "submitting"
      /\ \/ IsCurrentRequest(auth, f.serial) /\ Resume(SendRequest(auth, rest))
         \/ ~IsCurrentRequest(auth, f.serial) /\ Resume(At(auth, rest))
  BY DEF ReturnSubmitting, Back
<1>2. /\ rest \in Seq(Frames) /\ Known(auth, V) /\ ToSet(stack) = {f} \cup V
      /\ ~IsCurrentRequest(auth, f.serial) => Asked(auth, V)
      /\ Attended(auth, V)
  BY <1>1, Below DEF CarriesOn, IsCurrentRequest
<1> HIDE DEF f, rest, V
<1>3. ASSUME IsCurrentRequest(auth, f.serial)
      PROVE  Reached(auth, rest, SendRequest(auth, rest))
  <2>1. f.serial # 0
    BY <1>1, <1>2, Facts DEF Known
  <2>2. auth.pending # NoRequest
    BY <1>3, <2>1, Defaults DEF IsCurrentRequest
  <2>3. Running(auth) => /\ auth.pending.epoch = auth.epoch
                         /\ Asking(auth, V) => auth.challenge # NoChallenge
    BY <1>2, <2>2, Facts DEF Asked, UnderWay, Asking
  <2> QED
    BY <1>2, <2>2, <2>3, Facts, SendReached DEF V
<1>4. ASSUME ~IsCurrentRequest(auth, f.serial)
      PROVE  Reached(auth, rest, At(auth, rest))
  BY <1>2, <1>4, Here DEF Minded, V
<1>5. Head(stack).kind \in Neutral
  BY <1>1 DEF f, Neutral
<1> QED
  BY <1>1, <1>3, <1>4, <1>5, AfterReturn DEF rest

LEMMA ReturnRejectingMinds ==
  ASSUME IInv, TInv, ReturnRejecting
  PROVE  TInv'
<1> DEFINE f == Head(stack)
           rest == Tail(stack)
           V == ToSet(rest)
<1>1. /\ stack # <<>> /\ f.kind = "rejecting"
      /\ \/ /\ IsCurrentState(auth, f.epoch, f.state)
            /\ Resume(ReportRejection(auth, rest))
         \/ ~IsCurrentState(auth, f.epoch, f.state) /\ Resume(At(auth, rest))
  BY DEF ReturnRejecting, Back
<1>2. /\ rest \in Seq(Frames) /\ Known(auth, V) /\ ToSet(stack) = {f} \cup V
      /\ Asked(auth, V)
      /\ ~IsCurrentState(auth, f.epoch, f.state) => Attended(auth, V)
  BY <1>1, Below DEF CarriesOn
<1> HIDE DEF f, rest, V
<1>3. ASSUME IsCurrentState(auth, f.epoch, f.state)
      PROVE  Reached(auth, rest, ReportRejection(auth, rest))
  <2>1. auth.challenge # NoChallenge
    BY <1>1, <1>2, <1>3, Facts DEF Asked, Asking, IsCurrentState
  <2> QED
    BY <1>2, <2>1, Facts, RejectReached DEF V
<1>4. ASSUME ~IsCurrentState(auth, f.epoch, f.state)
      PROVE  Reached(auth, rest, At(auth, rest))
  BY <1>2, <1>4, Here DEF Minded, V
<1>5. Head(stack).kind \in Neutral
  BY <1>1 DEF f, Neutral
<1> QED
  BY <1>1, <1>3, <1>4, <1>5, AfterReturn DEF rest

LEMMA ReturnRejectedMinds ==
  ASSUME IInv, TInv, ReturnRejected
  PROVE  TInv'
<1> DEFINE f == Head(stack)
           rest == Tail(stack)
           V == ToSet(rest)
<1>1. /\ stack # <<>> /\ f.kind = "rejected"
      /\ Resume(AskAgain(auth, rest, f.epoch))
  BY DEF ReturnRejected, Back
<1>2. /\ rest \in Seq(Frames) /\ Known(auth, V) /\ ToSet(stack) = {f} \cup V
      /\ Asked(auth, V)
      /\ auth.epoch # f.epoch => Attended(auth, V)
  BY <1>1, Below DEF CarriesOn
<1> HIDE DEF f, rest, V
<1>3. CASE auth.epoch = f.epoch /\ auth.pending = NoRequest
  <2>1. Running(auth) => auth.challenge # NoChallenge
    BY <1>1, <1>2, <1>3, Facts DEF Asked, Asking
  <2>2. Attended(auth, V) \/ auth.challenge # NoChallenge
    BY <2>1 DEF Attended
  <2>3. Reached(auth, rest, IssuePrompt(auth, rest))
    BY <1>2, <2>2, Facts, IssueReached DEF V
  <2> QED
    BY <1>1, <1>3, <2>3, AfterReturn DEF AskAgain, f, rest, Neutral
<1>4. CASE ~(auth.epoch = f.epoch /\ auth.pending = NoRequest)
  <2>1. Attended(auth, V)
    BY <1>2, <1>4 DEF Attended
  <2>2. Reached(auth, rest, At(auth, rest))
    BY <1>2, <2>1, Here DEF Minded, V
  <2> QED
    BY <1>1, <1>4, <2>2, AfterReturn DEF AskAgain, f, rest, Neutral
<1> QED
  BY <1>3, <1>4

LEMMA SenderFailsMinds ==
  ASSUME IInv, TInv, SenderFails
  PROVE  TInv'
<1> DEFINE rest == Tail(stack)
           V == ToSet(rest)
           serial == Head(stack).serial
           o == {r \in auth.outstanding : r.serial # serial}
           a == [auth EXCEPT !.outstanding = o]
           b == [auth EXCEPT !.outstanding = o, !.pending = NoRequest]
<1>1. stack # <<>> /\ Head(stack).kind = "sending"
  BY DEF SenderFails, Back
<1>2. /\ auth \in Members /\ auth.epoch \in Nat /\ OutcomeOK(auth)
      /\ o \in SUBSET auth.outstanding /\ o \in SUBSET Requests
  BY Facts, TypesKnown
<1>3. /\ [auth EXCEPT !.outstanding = {r \in @ : r.serial # serial}] = a
      /\ [[auth EXCEPT !.outstanding = {r \in @ : r.serial # serial}]
             EXCEPT !.pending = NoRequest] = b
  BY <1>2 DEF Members
<1>4. /\ rest \in Seq(Frames) /\ Known(auth, V) /\ Asked(auth, V) /\ Attended(auth, V)
  BY <1>1, Below DEF CarriesOn
<1>5. /\ SameNews(auth, a) /\ a.outstanding = o
      /\ a.pending = auth.pending /\ a.state = auth.state
      /\ a.epoch = auth.epoch /\ a.prompt = auth.prompt
      /\ a.promptType = auth.promptType /\ a.challenge = auth.challenge
      /\ a.lastSerial = auth.lastSerial /\ a.acknowledged = auth.acknowledged
  BY <1>2 DEF Members, SameNews
<1>6. /\ SameNews(auth, b) /\ b.outstanding = o
      /\ b.pending = NoRequest /\ b.state = auth.state
      /\ b.epoch = auth.epoch /\ b.prompt = auth.prompt
      /\ b.promptType = auth.promptType /\ b.lastSerial = auth.lastSerial
  BY <1>2 DEF Members, SameNews
<1>7. b \in Members
  <2> HIDE DEF o
  <2> QED
    BY <1>2, Defaults DEF Members
<1>8. \/ Resume(FailAuthorization(b, rest, auth.state))
      \/ ~IsCurrentRequest(auth, serial) /\ Resume(At(a, rest))
  BY <1>3, <1>5 DEF SenderFails, IsCurrentRequest
<1>9. auth.pending.serial # serial /\ auth.pending \in auth.outstanding
        => auth.pending \in o
  OBVIOUS
<1> HIDE DEF a, b, o, V, rest, serial
<1>10. Fewer(auth, a) /\ Fewer(auth, b)
  BY <1>2, <1>4, <1>5, <1>6 DEF Fewer, Known
<1>11. Known(a, V) /\ Known(b, V)
  BY <1>4, <1>10, Subset, KnownStays DEF V
<1>12. ASSUME ~IsCurrentRequest(auth, serial)
       PROVE  Reached(auth, rest, At(a, rest))
  <2>1. Asked(a, V)
    BY <1>4, <1>5, <1>9, <1>12 DEF Asked, UnderWay, Asking, Running, SameNews,
      IsCurrentRequest
  <2>2. Attended(a, V)
    BY <1>4, <1>5 DEF Attended, CarriesOn, IsCurrentState, Running, SameNews
  <2>3. Reached(a, rest, At(a, rest))
    BY <1>11, <2>1, <2>2, Here DEF Minded, V
  <2> QED
    BY <1>5, <2>3, ReachedFirst
<1>13. Reached(auth, rest, FailAuthorization(b, rest, auth.state))
  <2>1. auth.state \in States
    BY <1>2, TypesKnown
  <2>2. OutcomeOK(b)
    BY <1>2, <1>6 DEF OutcomeOK, SameNews
  <2>3. Reached(b, rest, FailAuthorization(b, rest, auth.state))
    BY <1>4, <1>7, <1>11, <2>1, <2>2, FailReached DEF V
  <2> QED
    BY <1>6, <2>3, ReachedFirst
<1>14. Head(stack).kind \in Neutral
  BY <1>1 DEF Neutral
<1> QED
  BY <1>1, <1>8, <1>12, <1>13, <1>14, AfterReturn DEF rest

--------------------------------------------------------------------------------
(* The outcome is told, and what comes after it *)

\* The outcome takes the place of the prompt that was closed before it.
LEMMA OutcomeMinds ==
  ASSUME IInv, TInv, stack # <<>>, Head(stack).kind = "closing",
         NEW a \in Members, NEW f \in Frames, f.kind = "outcome",
         SameMind(auth, a), SameNews(auth, a),
         Resume(NotifyOutcome(a, Tail(stack), f))
  PROVE  TInv'
<1> DEFINE rest == Tail(stack)
           V == ToSet(rest)
           b == [a EXCEPT !.outcomes = Append(@, a.completion)]
           more == <<f>> \o rest
<1>1. /\ b.completion = a.completion /\ b.stopped = a.stopped
      /\ b.notified = a.notified /\ b.queued = a.queued
      /\ b.arrived = a.arrived /\ b.seen = a.seen /\ SameMind(a, b)
  BY DEF Members, SameMind
<1>2. b.outcomes # <<>>
  <2>1. a.outcomes \in Seq(Completions) /\ a.completion \in Completions
    BY DEF Members
  <2>2. Append(a.outcomes, a.completion) # <<>>
    BY <2>1
  <2>3. b.outcomes = Append(a.outcomes, a.completion)
    BY DEF Members
  <2> QED
    BY <2>2, <2>3
<1>3. Resume(At(b, more))
  BY DEF NotifyOutcome, CallOut
<1> HIDE DEF b
<1>4. /\ rest \in Seq(Frames) /\ Sorted(rest) /\ Known(auth, V)
      /\ \A g \in V : g.kind \notin Telling
      /\ ToSet(stack) = {Head(stack)} \cup V
      /\ Len(rest) + 1 <= MaxDepth /\ FrameOK(auth, Head(stack))
  BY Below DEF Afterwards
<1>5. auth.completion # "none"
  BY <1>4 DEF FrameOK
<1>6. /\ ToSet(more) = {f} \cup V /\ Len(more) = Len(rest) + 1 /\ Sorted(more)
  BY <1>4, Pushed, PushedSorted
<1> HIDE DEF rest, V, more
<1>7. Heard(b)
  BY <1>1, Facts DEF Heard, SameNews
<1>8. Tells(b, more)
  BY <1>1, <1>2, <1>5, <1>6 DEF Tells, SameNews
<1>9. Minded(b, ToSet(more))
  <2>1. Known(b, V)
    BY <1>1, <1>4, MindStays
  <2>2. Known(b, ToSet(more))
    BY <1>6, <2>1 DEF Known
  <2> QED
    BY <1>1, <1>5, <2>2, NoneMinded DEF Running, SameNews
<1>10. DepthOK(more)
  BY <1>4, <1>6 DEF DepthOK, rest
<1> QED
  BY <1>3, <1>7, <1>8, <1>9, <1>10, AfterResume DEF At

LEMMA ReturnClosingMinds ==
  ASSUME IInv, TInv, ReturnClosing
  PROVE  TInv'
<1>1. /\ stack # <<>> /\ Head(stack).kind = "closing"
      /\ Resume(NotifyOutcome(auth, Tail(stack), Frame("outcome")))
  BY DEF ReturnClosing, Back
<1>2. Frame("outcome") \in Frames /\ Frame("outcome").kind = "outcome"
  BY Defaults DEF Kinds
<1>3. SameMind(auth, auth) /\ SameNews(auth, auth)
  BY DEF SameMind, SameNews
<1> QED
  BY <1>1, <1>2, <1>3, Facts, OutcomeMinds

LEMMA StopMinds ==
  ASSUME IInv, TInv, stack # <<>>, Head(stack).kind \in {"outcome", "lifecycle"},
         Resume(At(StopAfterObserverFailure(auth), Tail(stack)))
  PROVE  TInv'
<1> DEFINE rest == Tail(stack)
           b == StopAfterObserverFailure(auth)
<1>1. /\ rest \in Seq(Frames) /\ Sorted(rest) /\ Known(auth, ToSet(rest))
      /\ ToSet(stack) = {Head(stack)} \cup ToSet(rest) /\ Len(rest) <= MaxDepth
  BY Below
<1>2. auth.completion # "none"
  BY <1>1, Facts DEF Tells, Afterwards
<1>3. Halts(auth, rest, At(b, rest)) /\ Reached(auth, rest, At(b, rest))
  BY <1>1, Facts, StopReached
<1> HIDE DEF rest, b
<1>4. /\ b.stopped /\ b.queued = <<>>
      /\ b.completion = auth.completion /\ b.notified = auth.notified
      /\ b.arrived = auth.arrived /\ b.seen = auth.seen
      /\ b.outcomes = auth.outcomes /\ Minded(b, ToSet(rest))
  BY <1>3 DEF Halts, Reached, At
<1>5. Heard(b)
  BY <1>4, Facts DEF Heard
<1>6. Tells(b, rest)
  BY <1>1, <1>2, <1>4, Facts DEF Tells
<1> QED
  BY <1>1, <1>4, <1>5, <1>6, AfterResume DEF At, DepthOK, rest, b

LEMMA ReturnOutcomeMinds ==
  ASSUME IInv, TInv, ReturnOutcome
  PROVE  TInv'
<1> DEFINE rest == Tail(stack)
           V == ToSet(rest)
           f == Frame("drain")
<1>1. stack # <<>> /\ Head(stack).kind = "outcome"
  BY DEF ReturnOutcome, Back
<1>2. /\ rest \in Seq(Frames) /\ Sorted(rest) /\ Known(auth, V)
      /\ \A g \in V : g.kind \notin Telling
      /\ ToSet(stack) = {Head(stack)} \cup V /\ Len(rest) + 1 <= MaxDepth
      /\ Len(rest) <= MaxDepth
  BY <1>1, Below DEF Afterwards
<1>3. auth.completion # "none"
  BY <1>1, <1>2, Facts DEF Tells, Afterwards
<1>4. auth.outcomes # <<>>
  BY <1>1, <1>2, <1>3, Facts DEF Tells, Telling
<1>5. \/ Resume(At(StopAfterObserverFailure(auth), rest))
      \/ Resume(At(auth, <<f>> \o rest))
      \/ /\ auth.stopped \/ auth.queued = <<>>
         /\ Resume(At(auth, rest))
  BY DEF ReturnOutcome, CallOut
<1>6. f \in Frames /\ f.kind = "drain"
  BY Defaults DEF Kinds
<1> HIDE DEF f
<1>7. CASE Resume(At(auth, <<f>> \o rest))
  <2> DEFINE more == <<f>> \o rest
  <2>1. /\ ToSet(more) = {f} \cup V /\ Len(more) = Len(rest) + 1 /\ Sorted(more)
    BY <1>2, <1>6, Pushed, PushedSorted
  <2> HIDE DEF more, rest, V
  <2>2. Tells(auth, more)
    BY <1>3, <1>4, <1>6, <2>1 DEF Tells
  <2>3. Known(auth, ToSet(more))
    BY <1>2, <1>6, <2>1 DEF Known
  <2>4. Minded(auth, ToSet(more))
    BY <1>3, <2>3, NoneMinded DEF Running
  <2>5. DepthOK(more)
    BY <1>2, <2>1 DEF DepthOK
  <2>6. Resume(At(auth, more))
    BY <1>7 DEF more
  <2> QED
    BY <2>2, <2>4, <2>5, <2>6, Facts, AfterResume DEF At
<1>8. CASE /\ auth.stopped \/ auth.queued = <<>>
           /\ Resume(At(auth, rest))
  <2>1. auth.queued = <<>>
    BY <1>8, Facts DEF Heard
  <2> HIDE DEF rest, V
  <2>2. Tells(auth, rest)
    BY <1>2, <1>3, <1>4, <2>1 DEF Tells
  <2>3. Minded(auth, V)
    BY <1>2, <1>3, NoneMinded DEF Running
  <2> QED
    BY <1>2, <1>8, <2>2, <2>3, Facts, AfterResume DEF At, DepthOK, V
<1> QED
  BY <1>1, <1>5, <1>7, <1>8, StopMinds

LEMMA DrainLifecycleMinds ==
  ASSUME IInv, TInv, DrainLifecycle
  PROVE  TInv'
<1> DEFINE rest == Tail(stack)
           state == Head(auth.queued)
<1>1. stack # <<>> /\ Head(stack).kind = "drain"
  BY DEF DrainLifecycle, Back
<1>2. /\ rest \in Seq(Frames) /\ Sorted(rest) /\ Known(auth, ToSet(rest))
      /\ \A g \in ToSet(rest) : g.kind \notin Telling
      /\ ToSet(stack) = {Head(stack)} \cup ToSet(rest) /\ Len(rest) + 1 <= MaxDepth
      /\ Len(rest) <= MaxDepth /\ Len(stack) = Len(rest) + 1
  BY <1>1, Below DEF Afterwards
<1>3. auth.completion # "none"
  BY <1>1, <1>2, Facts DEF Tells, Afterwards
<1>4. (\A f \in ToSet(stack) : f.kind \notin Telling) /\ auth.outcomes # <<>>
  BY <1>1, <1>2, <1>3, Facts DEF Tells, Telling
<1>5. /\ auth \in Members /\ auth.seen \in Seq(LifecycleStates)
      /\ auth.arrived \in Seq(LifecycleStates) /\ auth.queued \in Seq(LifecycleStates)
  BY Facts, TypesKnown
<1>6. ASSUME NEW q \in Seq(LifecycleStates)
      PROVE  LET b == [auth EXCEPT !.queued = q]
             IN  /\ b \in Members /\ SameMind(auth, b) /\ b.queued = q
                 /\ b.completion = auth.completion /\ b.stopped = auth.stopped
                 /\ b.notified = auth.notified /\ b.seen = auth.seen
                 /\ b.arrived = auth.arrived /\ b.outcomes = auth.outcomes
  BY <1>5 DEF Members, SameMind
<1>7. CASE ~auth.stopped /\ auth.queued # <<>>
  <2> DEFINE b == [auth EXCEPT !.queued = Tail(auth.queued)]
             c == DispatchLifecycle(b, stack, state)
  <2>1. Tail(auth.queued) \in Seq(LifecycleStates) /\ state \in LifecycleStates
    BY <1>5, <1>7
  <2>2. /\ b \in Members /\ SameMind(auth, b) /\ b.queued = Tail(auth.queued)
        /\ b.completion = auth.completion /\ b.stopped = auth.stopped
        /\ b.notified = auth.notified /\ b.seen = auth.seen
        /\ b.arrived = auth.arrived /\ b.outcomes = auth.outcomes
    BY <1>6, <2>1
  <2>3. Resume(c)
    BY <1>7 DEF DrainLifecycle
  <2> HIDE DEF b, c
  <2>4. Known(b, ToSet(stack))
    BY <2>2, Facts, MindStays
  <2>5. /\ b.completion # "none" /\ Distinct(b.arrived) /\ ~b.stopped
        /\ b.outcomes # <<>>
        /\ b.completion # "ready" => b.seen = <<>> /\ b.arrived = <<>>
        /\ b.completion = "ready" => b.notified = ToSet(b.seen)
    BY <1>3, <1>4, <1>7, <2>2, Facts DEF Heard
  <2>6. b.completion = "ready" =>
          LET n == IF state \in ToSet(b.seen) THEN b.seen ELSE Append(b.seen, state)
          IN  Begins(n, b.arrived) /\ (~b.stopped => Ordered(n, b.arrived, b.queued))
    <3> SUFFICES ASSUME b.completion = "ready"
                 PROVE  LET n == IF state \in ToSet(b.seen) THEN b.seen
                                                            ELSE Append(b.seen, state)
                        IN  Begins(n, b.arrived) /\ Ordered(n, b.arrived, b.queued)
      OBVIOUS
    <3>1. /\ Begins(auth.seen, auth.arrived) /\ Distinct(auth.arrived)
          /\ Ordered(auth.seen, auth.arrived, auth.queued)
      BY <1>7, <2>2, Facts DEF Heard
    <3> QED
      BY <1>5, <1>7, <2>2, <3>1, Dequeued
  <2>7. Sorted(stack) /\ stack \in Seq(Frames)
    BY Facts DEF Tells
  <2>8. \E f \in ToSet(stack) : f.kind \in {"closing", "outcome", "drain"}
    BY <1>1, <1>2
  <2> HIDE DEF state
  <2>9. /\ Heard(c.auth) /\ Tells(c.auth, c.stack) /\ Minded(c.auth, ToSet(c.stack))
        /\ \/ c.stack = stack
           \/ Len(c.stack) = Len(stack) + 1 /\ Head(c.stack).kind = "lifecycle"
    BY <1>4, <2>1, <2>2, <2>4, <2>5, <2>6, <2>7, <2>8, DispatchTells DEF c
  <2>10. DepthOK(c.stack)
    <3>1. Len(stack) \in Nat /\ Len(stack) <= MaxDepth
      BY <1>2, Facts
    <3> QED
      BY <2>9, <3>1, BoundsAssumption DEF DepthOK
  <2> QED
    BY <2>3, <2>9, <2>10, AfterResume
<1>8. CASE ~(~auth.stopped /\ auth.queued # <<>>)
  <2> DEFINE b == [auth EXCEPT !.queued = <<>>]
  <2>1. auth.queued = <<>>
    BY <1>8, Facts DEF Heard
  <2>2. /\ SameMind(auth, b) /\ b.queued = auth.queued
        /\ b.completion = auth.completion /\ b.stopped = auth.stopped
        /\ b.notified = auth.notified /\ b.seen = auth.seen
        /\ b.arrived = auth.arrived /\ b.outcomes = auth.outcomes
    BY <1>5, <1>6, <2>1
  <2>3. Resume(At(b, rest))
    BY <1>8 DEF DrainLifecycle
  <2> HIDE DEF b, rest
  <2>4. Heard(b)
    BY <2>2, Facts DEF Heard
  <2>5. Tells(b, rest)
    BY <1>2, <1>3, <1>4, <2>1, <2>2 DEF Tells
  <2>6. Minded(b, ToSet(rest))
    BY <1>2, <1>3, <2>2, MindStays, NoneMinded DEF Running
  <2> QED
    BY <1>2, <2>3, <2>4, <2>5, <2>6, AfterResume DEF At, DepthOK
<1> QED
  BY <1>7, <1>8

LEMMA ObserverThrowsMinds ==
  ASSUME IInv, TInv, ObserverThrows
  PROVE  TInv'
<1> DEFINE a == [auth EXCEPT !.observerFailed = TRUE]
           f == [Frame("outcome") EXCEPT !.failed = TRUE]
<1>1. /\ stack # <<>>
      /\ \/ /\ Head(stack).kind \in Neutral \cup {"lifecycle"}
            /\ Resume(CompleteObserverFailure(auth, Tail(stack)))
         \/ /\ Head(stack).kind = "closing"
            /\ Resume(NotifyOutcome(a, Tail(stack), f))
         \/ /\ Head(stack).kind = "outcome"
            /\ Resume(At(StopAfterObserverFailure(auth), Tail(stack)))
  BY DEF ObserverThrows, Back, Neutral
<1>2. auth \in Members
  BY Facts
<1>3. a \in Members /\ SameMind(auth, a) /\ SameNews(auth, a)
  BY <1>2 DEF Members, SameMind, SameNews
<1>4. f \in Frames /\ f.kind = "outcome"
  <2>1. Frame("outcome") \in Frames /\ Frame("outcome").kind = "outcome"
    BY Defaults DEF Kinds
  <2> QED
    BY <2>1 DEF Frames
<1> HIDE DEF a, f
<1>5. CASE /\ Head(stack).kind \in Neutral
           /\ Resume(CompleteObserverFailure(auth, Tail(stack)))
  <2>1. Reached(auth, Tail(stack), CompleteObserverFailure(auth, Tail(stack)))
    BY <1>1, Below, Facts, ThrowReached
  <2> QED
    BY <1>1, <1>5, <2>1, AfterReturn
<1>6. CASE /\ Head(stack).kind = "lifecycle"
           /\ Resume(CompleteObserverFailure(auth, Tail(stack)))
  <2>1. auth.completion # "none"
    BY <1>1, <1>6, Below, Facts DEF Tells, Afterwards
  <2>2. Resume(At(StopAfterObserverFailure(auth), Tail(stack)))
    BY <1>6, <2>1 DEF CompleteObserverFailure, Running
  <2> QED
    BY <1>1, <1>6, <2>2, StopMinds
<1>7. CASE /\ Head(stack).kind = "closing"
           /\ Resume(NotifyOutcome(a, Tail(stack), f))
  BY <1>1, <1>3, <1>4, <1>7, OutcomeMinds
<1>8. CASE /\ Head(stack).kind = "outcome"
           /\ Resume(At(StopAfterObserverFailure(auth), Tail(stack)))
  BY <1>1, <1>8, StopMinds
<1> QED
  BY <1>1, <1>5, <1>6, <1>7, <1>8

--------------------------------------------------------------------------------
(* The theorems on the news and the next move *)

LEMMA InitiallyMinded == Init => TInv
<1> SUFFICES ASSUME Init PROVE TInv
  OBVIOUS
<1>1. /\ auth.completion = "none" /\ auth.notified = {} /\ auth.queued = <<>>
      /\ auth.seen = <<>> /\ auth.arrived = <<>> /\ ~auth.stopped
      /\ auth.prompt = 0 /\ auth.promptType = "None" /\ auth.pending = NoRequest
      /\ auth.outstanding = {} /\ auth.state = "None"
      /\ stack = <<>> /\ calls = 0
  BY DEF Init
<1>2. Heard(auth)
  <2>1. Distinct(<<>>)
    BY DEF Distinct
  <2> QED
    BY <1>1, <2>1, Nothing DEF Heard
<1>3. Sorted(<<>>) /\ Len(<<>>) = 0
  BY DEF Sorted
<1>4. Tells(auth, stack)
  BY <1>1, <1>3, Nothing DEF Tells
<1>5. Minded(auth, ToSet(stack))
  BY <1>1, Nothing DEF Minded, Known, Asked, Asking, Attended, NoRequest
<1>6. DepthOK(stack) /\ calls \in 0 .. MaxCalls
  BY <1>1, <1>3, BoundsAssumption DEF DepthOK
<1> QED
  BY <1>2, <1>4, <1>5, <1>6 DEF TInv

LEMMA StepMinds ==
  ASSUME IInv, TInv, [Next]_vars
  PROVE  TInv'
<1>1. CASE UNCHANGED vars
  BY <1>1 DEF vars, TInv
<1>2. CASE Next
  BY <1>2, UpdateTdlibParametersMinds, UpdatePhoneNumberMinds, UpdateChallengeMinds,
    UpdateQrLinkMinds, UpdateUnsupportedMinds, UpdateReadyMinds, HandleLifecycleMinds,
    SubmitMinds, SubmitNothingMinds, CancelMinds, ShutdownMinds, RespondMinds,
    ReturnMinds, ReturnEnteredMinds, ReturnSubmittingMinds, ReturnRejectingMinds,
    ReturnRejectedMinds, SenderFailsMinds, ReturnClosingMinds, ReturnOutcomeMinds,
    DrainLifecycleMinds, ObserverThrowsMinds
  DEF Next
<1> QED
  BY <1>1, <1>2

THEOREM NewsInvariantHolds == Spec => []TInv
<1>1. Init => TInv
  BY InitiallyMinded
<1>2. IInv /\ TInv /\ [Next]_vars => TInv'
  BY StepMinds
<1> QED
  BY <1>1, <1>2, InvariantHolds, PTL DEF Spec

LEMMA PrefixIfBegins ==
  ASSUME NEW seen \in Seq(LifecycleStates), NEW arrived \in Seq(LifecycleStates),
         Begins(seen, arrived)
  PROVE  IsPrefix(seen, arrived)
<1>1. /\ Len(seen) \in Nat /\ Len(arrived) \in Nat /\ Len(seen) <= Len(arrived)
      /\ \A n \in 1 .. Len(seen) : seen[n] = arrived[n] /\ n \in 1 .. Len(arrived)
  BY DEF Begins
<1>2. seen = SubSeq(arrived, 1, Len(seen))
  BY <1>1
<1> QED
  BY <1>1, <1>2 DEF IsPrefix

\* Exactly one outcome is told, the right one, by the time the controller has returned
\* to its callers; a successful one is told before any lifecycle state, and those are
\* told in the order they arrived, once each, none lost between the queue and the loop
\* that drains it: however deep the calls are nested and wherever an observer throws.
THEOREM OutcomeInOrder == Spec => []OneOutcomeInOrder
<1>1. IInv /\ TInv => OneOutcomeInOrder
  <2> SUFFICES ASSUME IInv, TInv PROVE OneOutcomeInOrder
    OBVIOUS
  <2>1. /\ auth.seen \in Seq(LifecycleStates) /\ auth.arrived \in Seq(LifecycleStates)
        /\ stack \in Seq(Frames) /\ auth.completion \in Completions
    BY Facts, TypesKnown
  <2>2. /\ Len(auth.outcomes) <= 1
        /\ auth.outcomes # <<>> => auth.outcomes = <<auth.completion>>
    <3>1. auth.outcomes = <<>> \/ auth.outcomes = <<auth.completion>>
      BY Facts DEF OutcomeOK
    <3>2. Len(<<>>) <= 1 /\ \A x : Len(<<x>>) <= 1
      OBVIOUS
    <3> QED
      BY <3>1, <3>2
  <2>3. stack = <<>> /\ auth.completion # "none" => auth.outcomes # <<>>
    BY Facts, Nothing DEF Tells
  <2>4. IsPrefix(auth.seen, auth.arrived)
    BY <2>1, Facts, PrefixIfBegins DEF Heard
  <2>5. stack = <<>> /\ ~auth.stopped => auth.seen = auth.arrived
    <3> SUFFICES ASSUME stack = <<>>, ~auth.stopped
                 PROVE  auth.seen = auth.arrived
      OBVIOUS
    <3>1. auth.queued = <<>>
      BY Facts, Nothing DEF Tells
    <3>2. CASE auth.completion = "ready"
      BY <2>1, <3>1, <3>2, Facts, Emptied DEF Heard
    <3>3. CASE auth.completion # "ready"
      BY <3>3, Facts DEF Heard
    <3> QED
      BY <3>2, <3>3
  <2>6. \A i, j \in DOMAIN stack :
          i < j /\ stack[i].kind = "lifecycle" => stack[j].kind \notin {"closing", "outcome"}
    <3>1. DOMAIN stack = 1 .. Len(stack) /\ Sorted(stack)
      BY <2>1, Facts DEF Tells
    <3> QED
      BY <3>1 DEF Sorted, Afterwards, Telling
  <2> QED
    BY <2>2, <2>3, <2>4, <2>5, <2>6 DEF OneOutcomeInOrder
<1> QED
  BY <1>1, InvariantHolds, NewsInvariantHolds, PTL

\* A login that goes on is never left waiting for nobody: whenever the controller has
\* returned, a prompt is open, a request is out whose answer will count, or TDLib has
\* accepted the last one, whatever was answered, rejected or thrown on the way there.
THEOREM SomebodyHasTheNextMove == Spec => []NeverStuck
<1>1. IInv /\ TInv => NeverStuck
  <2> SUFFICES ASSUME IInv, TInv PROVE NeverStuck
    OBVIOUS
  <2>1. TypeOK
    <3>1. /\ auth.mode \in Modes /\ auth.completion \in Completions
          /\ auth.prompt \in Nat /\ auth.lastPrompt \in Nat
          /\ auth.notified \in SUBSET LifecycleStates
      BY Facts DEF Members
    <3>2. /\ auth.prompt <= auth.lastPrompt
          /\ \A p \in auth.closed : p \in 1 .. auth.lastPrompt
      BY DEF IInv, MembersOK, Sound, PromptsKnown
    <3>3. /\ auth.prompt = 0 <=> auth.promptType = "None"
          /\ auth.pending = NoRequest \/ auth.pending.serial \in 1 .. auth.lastSerial
      BY Facts DEF Known
    <3>4. Len(stack) <= MaxDepth + 2 /\ calls \in 0 .. MaxCalls
      <4>1. Len(stack) \in Nat
        BY Facts
      <4> QED
        BY <4>1, BoundsAssumption DEF TInv, DepthOK
    <3> QED
      BY <3>1, <3>2, <3>3, <3>4 DEF TypeOK
  <2>2. ASSUME stack = <<>>, Running(auth), auth.state # "None"
        PROVE  \/ auth.prompt # 0
               \/ auth.pending \in auth.outstanding /\ auth.pending.epoch = auth.epoch
               \/ auth.acknowledged
    <3>1. auth.prompt # 0 \/ auth.pending # NoRequest \/ auth.acknowledged
      BY <2>2, Facts, Nothing DEF Attended
    <3>2. auth.pending # NoRequest => UnderWay(auth, {})
      BY <2>2, Facts, Nothing DEF Asked
    <3> QED
      BY <3>1, <3>2 DEF UnderWay
  <2> QED
    BY <2>1, <2>2 DEF NeverStuck
<1> QED
  BY <1>1, InvariantHolds, NewsInvariantHolds, PTL

================================================================================
