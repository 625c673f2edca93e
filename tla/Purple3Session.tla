----------------------------- MODULE Purple3Session -----------------------------
(***************************************************************************)
(* The Purple 3 adapter: the connections of one account                    *)
(* (telegram-purple3-connection.c), each with its TDLib session            *)
(* (telegram-purple3-session.cpp). The session tells its connection about  *)
(* the login, a failure, a sign-out and the end; the connection answers    *)
(* the account's connect and disconnect tasks, and after a sign-out        *)
(* disconnects the account and connects it again, once.                    *)
(*                                                                         *)
(* Everything but the cancellation runs on the main thread, and a callback *)
(* runs inside its caller: a step is a source of the main loop or a call   *)
(* of Purple, carried out on the world w by the operators it calls. A task *)
(* completes within the step (w.sync) or from a source of its own, in the  *)
(* order of pending. The account, TDLib, the polling backend and the       *)
(* controller are what their contracts say of them.                        *)
(***************************************************************************)
EXTENDS Naturals, Sequences, SequencesExt

CONSTANT MaxConnections  \* connections the account makes in its lifetime

ASSUME ConnectionsAssumption == MaxConnections \in Nat \ {0}

VARIABLES
  account,      \* the PurpleAccount
  connections,  \* every connection with its session
  pending,      \* completions of tasks, sources of the main loop
  readying      \* onAuthorizationReady in progress

vars == <<account, connections, pending, readying>>

Ids == 1 .. MaxConnections
Results == {"Closed", "Unclean"}  \* unclean: timed out or failed
Lifecycle == {"LoggingOut", "Closing", "Closed"}
Open == {"Connecting", "Ready"}  \* phases before beginClose
NoError == <<"none", 0>>         \* an error, and the connection it is about
Idle == [conn |-> 0, at |-> "rest"]

\* A connection before connect_async, its session not created.
NewConnection ==
  [connect |-> "none", tasks |-> <<>>, result |-> "none", cancelled |-> FALSE,
   recovery |-> FALSE, wait |-> FALSE, source |-> FALSE,
   phase |-> "none", login |-> "none", notified |-> {}, watching |-> FALSE,
   deferred |-> FALSE, chosen |-> FALSE, failed |-> FALSE, signOut |-> FALSE,
   timer |-> FALSE, explicit |-> FALSE, closed |-> "none"]

Init ==
  /\ account = [enabled |-> TRUE, state |-> "disconnected", conn |-> 0,
                last |-> 0, probe |-> FALSE, error |-> NoError,
                recoveries |-> 0, byHand |-> FALSE]  \* history
  /\ connections = [i \in Ids |-> NewConnection]
  /\ pending = <<>>
  /\ readying = Idle

World(sync) == [account |-> account, connection |-> connections,
                pending |-> pending, sync |-> sync]

-----------------------------------------------------------------------------
(* Tasks of the account *)

\* The account's callback of a failed connect, with connect_finish: the account
\* is marked disconnected, whatever it does meanwhile, and the connection let go.
ConnectFailedSeen(w, i) ==
  [w EXCEPT !.account.state = "disconnected",
            !.account.probe = @ /\ w.connection[i].recovery,
            !.account.conn = IF @ = i THEN 0 ELSE @,
            !.connection[i].connect = "failed"]

\* g_task_return of the connect task, which is answered once.
CompleteConnect(w, i, success) ==
  CASE w.connection[i].connect # "pending" -> w
    [] w.connection[i].connect = "pending" /\ success ->
         [w EXCEPT !.connection[i].connect = "connected"]
    [] w.connection[i].connect = "pending" /\ ~success /\ w.sync ->
         ConnectFailedSeen(w, i)
    [] OTHER ->
         [w EXCEPT !.connection[i].connect = "returned",
                   !.pending = Append(@, [of |-> "connect", conn |-> i,
                                          ours |-> TRUE, ok |-> FALSE])]

\* The account's callback of its disconnect task, with disconnect_finish: a
\* cleanup error replaces the account's error. Other callers only look at theirs.
DisconnectsSeen(w, i, done) ==
  LET ours == {task \in done : task.ours}
  IN IF ours = {} THEN w
     ELSE [w EXCEPT !.account.state = "disconnected",
                    !.account.conn = 0,
                    !.account.error = IF \A task \in ours : task.ok THEN @
                                      ELSE <<"cleanup", i>>]

\* complete_disconnect_tasks: all that wait are answered alike, but for the one
\* of a runtime failure, whose error must not be replaced.
TaskSucceedsIfClosed(task, result) == result = "Closed"  \* Mutant: all alike.

TaskSucceeds(task, result) == result = "Closed" \/ task.preserve

CompleteDisconnects(w, i, result) ==
  LET tasks == w.connection[i].tasks
      done == [k \in DOMAIN tasks |->
                 [of |-> "disconnect", conn |-> i, ours |-> tasks[k].ours,
                  ok |-> TaskSucceeds(tasks[k], result)]]
      v == [w EXCEPT !.connection[i].tasks = <<>>, !.connection[i].result = result]
  IN IF w.sync THEN DisconnectsSeen(v, i, ToSet(done)) ELSE [v EXCEPT !.pending = @ \o done]

-----------------------------------------------------------------------------
(* The session, up to the end of its backend *)

\* notifyReady and connection_session_ready
NotifyReady(w, i) ==
  LET v == [w EXCEPT !.connection[i].chosen = TRUE]
  IN CASE w.connection[i].chosen \/ w.connection[i].connect # "pending" -> v
       [] ~w.connection[i].chosen /\ w.connection[i].connect = "pending"
            /\ w.account.conn # i -> CompleteConnect(v, i, FALSE)
       [] OTHER -> CompleteConnect([v EXCEPT !.account.probe = FALSE,
                                             !.account.state = "connected",
                                             !.account.recoveries = 0], i, TRUE)

\* notifyConnectFailure and connection_session_connect_failed
NotifyConnectFailure(w, i) ==
  IF w.connection[i].chosen THEN w
  ELSE CompleteConnect([w EXCEPT !.connection[i].chosen = TRUE], i, FALSE)

\* m_reauthorizationRequested and its timeout
ForgetSignOut(w, i) ==
  [w EXCEPT !.connection[i].signOut = FALSE, !.connection[i].timer = FALSE]

\* beginClose shuts the controller, the presenter and the transport down, and
\* asks the backend to close. What only an open session reads is forgotten.
BeginClose(w, i) ==
  IF w.connection[i].phase \notin Open THEN w
  ELSE [w EXCEPT !.connection[i].phase = "Closing", !.connection[i].timer = FALSE,
                 !.connection[i].login = "over", !.connection[i].notified = {},
                 !.connection[i].cancelled = FALSE, !.connection[i].watching = FALSE]

\* What ends a login that has not ended: TdAuthController::cancel with
\* onAuthorizationCancelled, or else the caller, tells the failure.
CancelLogin(w, i) ==
  LET v == [ForgetSignOut(w, i) EXCEPT
              !.connection[i].login = IF @ = "none" THEN "cancelled" ELSE @]
  IN BeginClose(IF w.connection[i].phase = "Connecting"
                THEN NotifyConnectFailure(v, i) ELSE v, i)

Cancel(w, i) == IF w.connection[i].phase \in Open THEN CancelLogin(w, i) ELSE w

\* Mutant: a session that already closes is not asked to tell the end.
CloseOnce(w, i) ==
  IF w.connection[i].phase \in Open
  THEN CancelLogin([w EXCEPT !.connection[i].explicit = TRUE], i) ELSE w

\* SessionState::close, by which the connection is told the end. A sign-out under
\* way is forgotten, and with it the answer to the connect it has left open.
Close(w, i) ==
  LET v == ForgetSignOut([w EXCEPT !.connection[i].explicit = TRUE], i)
  IN IF w.connection[i].phase \in Open THEN CancelLogin(v, i) ELSE v

-----------------------------------------------------------------------------
(* Disconnecting *)

\* connection_disconnect_async: with no session, or one that has ended, the task
\* is answered, from a source of its own; else when the session has closed.
DisconnectAsync(w, i, ours, preserve) ==
  LET c == w.connection[i]
      v == [w EXCEPT !.account.probe = @ /\ c.recovery,
                     !.connection[i].tasks =
                        Append(@, [ours |-> ours, preserve |-> preserve]),
                     !.sync = FALSE]
  IN CASE c.phase = "none" -> CompleteDisconnects(v, i, "Closed")
       [] c.phase # "none" /\ c.result # "none" -> CompleteDisconnects(v, i, c.result)
       [] c.phase # "none" /\ c.result = "none" /\ c.closed # "none" ->
            CompleteDisconnects(v, i, c.closed)
       [] OTHER -> [Close([v EXCEPT !.sync = w.sync], i) EXCEPT !.sync = FALSE]

Active(a) == a.state \in {"connecting", "connected"}

\* purple_account_disconnect
PurpleDisconnect(w, preserve) ==
  IF ~Active(w.account) THEN w
  ELSE DisconnectAsync([w EXCEPT !.account.state = "disconnecting"],
                       w.account.conn, TRUE, preserve)

\* notifyRuntimeFailure and connection_session_runtime_failed: the account is
\* disconnected, and then given the error.
RuntimeFailed(w, i) ==
  IF w.account.conn # i \/ ~Active(w.account) THEN w
  ELSE [PurpleDisconnect(w, TRUE) EXCEPT !.account.error = <<"runtime", i>>]

NotifyRuntimeFailure(w, i) ==
  IF w.connection[i].failed THEN w
  ELSE RuntimeFailed([w EXCEPT !.connection[i].failed = TRUE], i)

\* connection_abort_reauthorization
AbortReauthorization(w, i, report) ==
  LET v == [w EXCEPT !.account.probe = FALSE, !.connection[i].source = FALSE]
      told == IF w.connection[i].connect = "pending" THEN CompleteConnect(v, i, FALSE)
              ELSE IF report THEN [v EXCEPT !.account.error = <<"restart", i>>] ELSE v
  IN IF told.account.conn = i THEN PurpleDisconnect(told, FALSE) ELSE told

\* The account is disconnected, and a timer waits to connect it again.
Recovering(w, i) ==
  PurpleDisconnect([w EXCEPT !.account.probe = TRUE, !.account.recoveries = @ + 1,
    !.connection[i].recovery = TRUE, !.connection[i].wait = FALSE,
    !.connection[i].source = TRUE], FALSE)

MayRecover(w, i) == w.account.conn = i /\ w.account.enabled /\ Active(w.account)

\* Mutant: a sign-out right after the restart restarts again.
ReauthorizeAgain(w, i) ==
  IF MayRecover(w, i) THEN Recovering(w, i) ELSE AbortReauthorization(w, i, FALSE)

\* connection_session_reauthorization_required: a second sign-out with no login
\* between them is final.
ReauthorizationRequired(w, i) ==
  LET v == [w EXCEPT !.account.probe = FALSE]
  IN CASE ~MayRecover(w, i) -> AbortReauthorization(w, i, FALSE)
       [] MayRecover(w, i) /\ ~w.account.probe -> Recovering(w, i)
       [] MayRecover(w, i) /\ w.account.probe /\ w.connection[i].connect = "pending" ->
            CompleteConnect(v, i, FALSE)
       [] OTHER -> RuntimeFailed(v, i)

-----------------------------------------------------------------------------
(* The session, on what its parts report *)

\* authorizationFailed
AuthorizationFailed(w, i) ==
  LET v == ForgetSignOut(w, i)
  IN CASE w.connection[i].phase = "Connecting" -> BeginClose(NotifyConnectFailure(v, i), i)
       [] w.connection[i].phase = "Ready" -> BeginClose(NotifyRuntimeFailure(v, i), i)
       [] OTHER -> v

\* requestReauthorization; timed: the timeout could be started.
RequestReauthorization(w, i, timed) ==
  LET c == w.connection[i]
  IN CASE c.signOut \/ c.explicit \/ c.phase \notin Open -> w
       [] ~(c.signOut \/ c.explicit \/ c.phase \notin Open) /\ timed ->
            [w EXCEPT !.connection[i].signOut = TRUE, !.connection[i].timer = TRUE]
       [] OTHER -> AuthorizationFailed(w, i)

\* The controller's lifecycle states: before the login has ended they fail it,
\* after a successful one the session is told, each once.
Told(w, i, state, timed) ==
  LET c == w.connection[i]
      v == [w EXCEPT !.connection[i].notified = @ \cup {state},
                     !.connection[i].login = IF @ = "none" THEN "failed" ELSE @]
  IN CASE state \in c.notified \/ c.login \in {"failed", "cancelled"} -> v
       [] state \notin c.notified /\ c.login \in {"none", "ready"} /\ state = "LoggingOut" ->
            RequestReauthorization(v, i, timed)
       [] state \notin c.notified /\ c.login = "ready" /\ state # "LoggingOut"
            /\ c.signOut -> v
       [] OTHER -> AuthorizationFailed(v, i)

\* processUpdate: when TDLib has closed after a sign-out, so does the session.
ProcessUpdate(w, i, state, timed) ==
  LET v == Told(w, i, state, timed)
  IN IF v.connection[i].signOut /\ state = "Closed" THEN BeginClose(v, i) ELSE v

\* Mutant: a failure before the login has ended is not told.
BackendFailedSilently(w, i) ==
  BeginClose(IF w.connection[i].phase = "Ready"
             THEN NotifyRuntimeFailure(ForgetSignOut(w, i), i) ELSE ForgetSignOut(w, i), i)

\* backendFailed
BackendFailed(w, i) == IF w.connection[i].phase \in Open THEN AuthorizationFailed(w, i) ELSE w

\* What is read of a session that has ended.
Ended(c) ==
  [NewConnection EXCEPT !.phase = "Settled", !.closed = c.closed, !.result = c.result,
     !.connect = c.connect, !.tasks = c.tasks, !.deferred = c.deferred,
     !.recovery = c.recovery, !.wait = c.wait, !.source = c.source, !.login = "over"]

\* backendClosed: what a sign-out ends in, and the connection's tasks.
BackendClosed(w, i, result) ==
  LET settled == [w EXCEPT !.connection[i].phase = "Settled",
                           !.connection[i].closed = result]
      c == w.connection[i]
      told == CASE ~c.signOut -> settled
                [] c.signOut /\ result = "Closed" -> ReauthorizationRequired(settled, i)
                [] c.signOut /\ result # "Closed" /\ c.chosen ->
                     NotifyRuntimeFailure(settled, i)
                [] OTHER -> NotifyConnectFailure(settled, i)
      end == IF c.explicit THEN CompleteDisconnects(told, i, result) ELSE told
  IN [end EXCEPT !.connection[i] = Ended(@)]

-----------------------------------------------------------------------------
(* Steps. The choice of sync is whether tasks complete within the step. *)

Become(w) ==
  /\ account' = w.account
  /\ connections' = w.connection
  /\ pending' = w.pending

AtRest == readying = Idle
Step(w) == AtRest /\ Become(w) /\ UNCHANGED readying

\* purple_account_connect: Purple asks the protocol before it goes on. byHand: while
\* a restart waits, the user does what it waits to do.
Connecting(w) ==
  [w EXCEPT !.account.state = "connecting", !.account.error = NoError]

AccountConnects ==
  /\ account.enabled /\ account.state = "disconnected"
  /\ account.last < MaxConnections
  /\ Step(Connecting([World(FALSE) EXCEPT
              !.account.recoveries = 0,
              !.account.byHand = @ \/ \E i \in Ids : connections[i].source]))

\* The lock of the account's storage: held by a session until its backend ends.
StorageFree(i) == \A j \in Ids \ {i} : connections[j].phase \notin Open \cup {"Closing"}

\* connection_connect_async on the connection Purple has created; the session
\* may be refused, for its storage, its credentials or its interface.
ConnectAsync ==
  /\ account.state = "connecting" /\ account.conn = 0
  /\ account.last < MaxConnections
  /\ LET i == account.last + 1
         w == [World(FALSE) EXCEPT !.account.conn = i, !.account.last = i,
                                   !.connection[i].connect = "pending"]
     IN \/ Step(CompleteConnect(w, i, FALSE))
        \/ /\ account.enabled /\ StorageFree(i)
           /\ Step([w EXCEPT !.connection[i].phase = "Connecting",
                             !.connection[i].watching = TRUE])

\* The oldest completion that waits.
TaskCompletes ==
  /\ pending # <<>>
  /\ LET task == Head(pending)
         w == [World(FALSE) EXCEPT !.pending = Tail(@)]
     IN Step(IF task.of = "connect" THEN ConnectFailedSeen(w, task.conn)
             ELSE DisconnectsSeen(w, task.conn, {task}))

UserDisconnects ==
  /\ Active(account) /\ account.conn # 0
  /\ \E sync \in BOOLEAN : Step(PurpleDisconnect(World(sync), FALSE))

\* purple_account_set_enabled disconnects an account that it disables.
UserDisables ==
  /\ account.enabled
  /\ \E sync \in BOOLEAN :
       LET w == [World(sync) EXCEPT !.account.enabled = FALSE]
       IN Step(IF account.conn = 0 THEN w ELSE PurpleDisconnect(w, FALSE))

UserEnables == ~account.enabled /\ Step([World(FALSE) EXCEPT !.account.enabled = TRUE])

\* Somebody else joins the disconnect of the account, one at a time.
OthersDisconnect(i) ==
  /\ account.conn = i /\ account.state = "disconnecting"
  /\ \A k \in DOMAIN connections[i].tasks : connections[i].tasks[k].ours
  /\ \A k \in DOMAIN pending : pending[k].conn = i => pending[k].ours
  /\ \E sync \in BOOLEAN : Step(DisconnectAsync(World(sync), i, FALSE, FALSE))

\* The cancellable is cancelled on another thread, at any moment: its handler
\* leaves the cancellation to the main loop.
ForeignCancel(i) ==
  /\ connections[i].phase \in Open /\ ~connections[i].cancelled
  /\ connections' = [connections EXCEPT ![i].cancelled = TRUE,
                                        ![i].deferred = connections[i].watching]
  /\ UNCHANGED <<account, pending, readying>>

\* ... or on the main thread, where it takes effect within the call.
OwnerCancel(i) ==
  /\ connections[i].phase \in Open /\ ~connections[i].cancelled
  /\ \E sync \in BOOLEAN :
       LET w == [World(sync) EXCEPT !.connection[i].cancelled = TRUE]
       IN Step(IF connections[i].watching THEN Cancel(w, i) ELSE w)

DeferredCancel(i) ==
  /\ connections[i].deferred
  /\ \E sync \in BOOLEAN :
       Step(Cancel([World(sync) EXCEPT !.connection[i].deferred = FALSE], i))

\* telegram_tdlib_session_prepare_unload: a login under way is cancelled. There is
\* one at most, for the lock of the storage.
PrepareUnload(i) ==
  /\ connections[i].phase = "Connecting"
  /\ \E sync \in BOOLEAN : Step(Cancel(World(sync), i))

\* The user gives the login up, or it fails.
LoginEnds(i) ==
  /\ connections[i].phase = "Connecting" /\ connections[i].login = "none"
  /\ \E sync \in BOOLEAN :
       \/ Step(CancelLogin(World(sync), i))
       \/ Step(AuthorizationFailed(
                 [World(sync) EXCEPT !.connection[i].login = "failed"], i))

\* onAuthorizationReady. Disconnecting the handler waits for it, so that a
\* cancellation is seen by the second look if not by the first.
GiveUp(w, i) == BeginClose(NotifyConnectFailure(w, i), i)

LoginReady(i) ==
  /\ AtRest
  /\ connections[i].phase = "Connecting" /\ connections[i].login = "none"
  /\ \E sync \in BOOLEAN :
       LET w == [World(sync) EXCEPT !.connection[i].login = "ready"]
       IN IF connections[i].cancelled
          THEN Step(GiveUp(w, i))
          ELSE Become(w) /\ readying' = [conn |-> i, at |-> "unwatch"]

Unwatch ==
  /\ readying.at = "unwatch"
  /\ connections' = [connections EXCEPT ![readying.conn].watching = FALSE]
  /\ readying' = [readying EXCEPT !.at = "outcome"]
  /\ UNCHANGED <<account, pending>>

SelectReady(w, i) == NotifyReady([w EXCEPT !.connection[i].phase = "Ready"], i)

\* Mutant: the cancellation is looked for only once.
SelectUnchecked ==
  /\ readying.at = "outcome"
  /\ Become(SelectReady(World(FALSE), readying.conn))
  /\ readying' = Idle

SelectOutcome ==
  /\ readying.at = "outcome"
  /\ \E sync \in BOOLEAN :
       LET i == readying.conn
           w == World(sync)
       IN Become(IF connections[i].cancelled THEN GiveUp(w, i) ELSE SelectReady(w, i))
  /\ readying' = Idle

\* TDLib reports the state of the authorization, while the transport is open: a
\* sign-out comes first, and ends in Closed.
Update(i, state) ==
  /\ connections[i].phase \in Open
  /\ state = "LoggingOut" => connections[i].notified = {}
  /\ "Closed" \notin connections[i].notified
  /\ \E sync, timed \in BOOLEAN : Step(ProcessUpdate(World(sync), i, state, timed))

\* reauthorizationCleanupTimedOut
SignOutTimesOut(i) ==
  /\ connections[i].timer
  /\ \E sync \in BOOLEAN : Step(AuthorizationFailed(World(sync), i))

\* The backend tells a failure while it is wanted, and the end that was asked for,
\* from a source that is younger than the completions of that connection.
BackendFails(i) ==
  /\ connections[i].phase \in Open
  /\ \E sync \in BOOLEAN : Step(BackendFailed(World(sync), i))

BackendCloses(i) ==
  /\ connections[i].phase = "Closing"
  /\ \A k \in DOMAIN pending : pending[k].conn # i
  /\ \E sync \in BOOLEAN, result \in Results :
       Step(BackendClosed(World(sync), i, result))

\* Mutant: the account is connected again with its last connect unanswered.
ConnectUnanswered(w, i) == Connecting([w EXCEPT !.connection[i].source = FALSE])

AnswerAndWait(w, i) == [CompleteConnect(w, i, FALSE) EXCEPT !.connection[i].wait = TRUE]

\* connection_finish_reauthorization, a timer of lower priority than completions;
\* late: its deadline has passed. It waits for the account to be disconnected,
\* answers the connect, and lets the answer be seen before it connects again.
Recover(w, i, late) ==
  LET c == w.connection[i]
      ready == w.account.state = "disconnected" /\ w.account.conn = 0
  IN CASE ~w.account.probe \/ ~w.account.enabled -> AbortReauthorization(w, i, FALSE)
       [] w.account.probe /\ w.account.enabled /\ late -> AbortReauthorization(w, i, TRUE)
       [] w.account.probe /\ w.account.enabled /\ ~late /\ ~ready -> w
       [] w.account.probe /\ w.account.enabled /\ ~late /\ ready
            /\ c.connect = "pending" -> AnswerAndWait(w, i)
       [] w.account.probe /\ w.account.enabled /\ ~late /\ ready
            /\ c.connect # "pending" /\ c.wait ->
            [w EXCEPT !.connection[i].wait = FALSE]
       [] OTHER -> Connecting([w EXCEPT !.connection[i].source = FALSE])

RecoveryTimer(i, late) ==
  /\ connections[i].source /\ pending = <<>>
  /\ late \/ account.last < MaxConnections
  /\ \E sync \in BOOLEAN : Step(Recover(World(sync), i, late))

\* connection_dispose, when neither the account, nor a task, nor the timer refers
\* to the connection: its session is cancelled and freed.
Dispose(i) ==
  /\ i <= account.last /\ account.conn # i
  /\ connections[i].connect \notin {"pending", "returned"}
  /\ connections[i].phase # "freed" /\ ~connections[i].source
  /\ connections[i].tasks = <<>>
  /\ \A k \in DOMAIN pending : pending[k].conn # i
  /\ Step([World(FALSE) EXCEPT !.connection[i] = [NewConnection EXCEPT !.phase = "freed"]])

Next ==
  \/ AccountConnects \/ ConnectAsync \/ TaskCompletes
  \/ UserDisconnects \/ UserDisables \/ UserEnables
  \/ Unwatch \/ SelectOutcome
  \/ \E i \in Ids :
       \/ PrepareUnload(i) \/ OthersDisconnect(i) \/ ForeignCancel(i) \/ OwnerCancel(i)
       \/ DeferredCancel(i)
       \/ LoginEnds(i) \/ LoginReady(i)
       \/ \E state \in Lifecycle : Update(i, state)
       \/ SignOutTimesOut(i) \/ BackendFails(i) \/ BackendCloses(i)
       \/ \E late \in BOOLEAN : RecoveryTimer(i, late)
       \/ Dispose(i)

Spec == Init /\ [][Next]_vars

\* The main loop dispatches what is attached to it, the deadlines come, and a
\* backend that was asked to close reports the end.
Fairness ==
  /\ WF_vars(TaskCompletes) /\ WF_vars(Unwatch) /\ WF_vars(SelectOutcome)
  /\ \A i \in Ids :
       /\ WF_vars(DeferredCancel(i)) /\ WF_vars(SignOutTimesOut(i))
       /\ WF_vars(BackendCloses(i)) /\ WF_vars(RecoveryTimer(i, TRUE))

FairSpec == Spec /\ Fairness

-----------------------------------------------------------------------------
(* Properties *)

TypeOK ==
  /\ account \in [enabled : BOOLEAN, conn : 0 .. MaxConnections,
                  state : {"disconnected", "connecting", "connected", "disconnecting"},
                  last : 0 .. MaxConnections, probe : BOOLEAN,
                  error : {"none", "runtime", "restart", "cleanup"} \X (0 .. MaxConnections),
                  recoveries : 0 .. MaxConnections, byHand : BOOLEAN]
  /\ \A i \in Ids :
       LET c == connections[i]
       IN /\ c.connect \in {"none", "pending", "returned", "connected", "failed"}
          /\ c.phase \in {"none", "Connecting", "Ready", "Closing", "Settled", "freed"}
          /\ (c.closed # "none") = (c.phase = "Settled")
          /\ c.timer => c.signOut /\ c.phase \in Open
  /\ readying \in [conn : {0} \cup Ids, at : {"rest", "unwatch", "outcome"}]

\* A connected account has a session that works, or one whose sign-out is being
\* handled: whatever ends a session while a cancellation, a failure or an unload
\* meets the login, none ends behind the back of its account.
ConnectedIsServed ==
  /\ TypeOK
  /\ account.state = "connected" =>
       /\ account.conn # 0
       /\ connections[account.conn].connect = "connected"
       /\ connections[account.conn].phase = "Ready" \/ connections[account.conn].signOut

\* After a sign-out there is one new login, not one after another, and a login
\* that succeeds is not held against the next sign-out. The exception: when the user
\* connects the account while a restart waits, its timer finds the next one's probe.
RecoveryTriedOnce ==
  /\ account.byHand \/ account.recoveries <= 1
  /\ account.state = "connected" => ~account.probe

\* The connect is answered when the session has ended, or, in a recovery, when the
\* account is disconnected. A disconnect that comes while a sign-out closes the
\* session is the exception: nobody answers then.
ConnectIsAnswered ==
  \A i \in Ids : /\ connections[i].phase = "Settled" /\ ~connections[i].source
                 /\ connections[i].connect = "pending"
                 => connections[i].result # "none"

\* The error of a failure that ended a connection is not replaced by one of its
\* cleanup. And when a recovery connects the account again, the failure of the
\* connect before has been seen: Purple would mark the new connection
\* disconnected for it.
AccountNotMisled ==
  [][\A i \in Ids :
       /\ account.error = <<"runtime", i>> => account'.error # <<"cleanup", i>>
       /\ connections[i].source /\ ~connections'[i].source
          /\ account.state # "connecting" /\ account'.state = "connecting"
          => connections[i].connect \in {"connected", "failed"}]_vars

\* Every disconnect is answered, a sign-out closes the session and a recovery
\* ends, whatever TDLib and the backend do.
NothingHangs ==
  \A i \in Ids :
    /\ connections[i].tasks # <<>> ~> connections[i].tasks = <<>>
    /\ connections[i].signOut ~> ~connections[i].signOut \/ connections[i].phase \notin Open
    /\ connections[i].source ~> ~connections[i].source
=============================================================================
