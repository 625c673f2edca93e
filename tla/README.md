# A TLA+ model of tdlib-purple

tdlib-purple connects libpurple (Pidgin 2 and, experimentally, Pidgin 3) to
Telegram through TDLib. TDLib runs threads of its own; libpurple is single
threaded and is driven by one GLib main context. Most of what can go wrong in
this code happens on that border: a response that arrives while its timer fires,
a close that races a failing worker, a plugin that is unloaded while a source
still points into it. The modules in this directory model that border.

## The system

| Part | Source | State | Operations | Talks to |
|---|---|---|---|---|
| Request transport | `td-transport.cpp`, `td-request-id.h` | pending requests by identifier, queue of accepted objects, one dispatch source, one timer per request, `stopped` | `send`, `sendWithTimeout`, `setResponseTimeout`, `setNotificationTimeout`, receivers, dispatch source, timers, `shutdown` | backend (send callback, receiver, delivery receipts), application callbacks |
| Polling backend | `td-polling-backend.cpp` | phase, 18 flags, close callbacks, failure callback, worker record, deadline / failure / logical / finalizer sources, process-wide registry of session keys | `start`, `sender`, `close`, worker, reaper, receipt of the closed update, five kinds of source | TDLib client, transport, main context |
| Transceiver | `transceiver.cpp` | owns transport and backend, `shutdown` flag, failure callback | `start`, `sendQuery*`, `shutdown` | both of the above |
| Authorization controller | `td-auth-controller.cpp` | state epoch, request serial, open prompt, pending request, completion, QR flow, lifecycle queue | authorization updates, `submit*`, `cancelPrompt`, `cancel`, `shutdown`, responses | observer (Purple 2 and Purple 3 adapters), sender |
| Message order queue | `account-data.cpp` (`PendingMessageQueue`), `receiving.cpp` | a queue per chat of ready and unready messages, content revisions, released messages | add, set ready, replace content, remove, flush, chat (not) ready | downloads, replies, display |
| Purple 2 scheduler | `purple2-scheduler.cpp` | pump state, libpurple handles | install, uninstall, fire | GLib context, libpurple event loop |
| Module activity, unload | `module-activity.cpp`, `tdlib-purple.cpp` | activity count, tracked sources | acquire, attach, may-unload | every part with callbacks |
| Client | `td-client.cpp`, `td-client-auth.cpp` | account data, chats, login dialogs | update and response handlers, libpurple entry points | all |
| File transfer | `file-transfer.cpp`, `tdlib-purple.cpp`, the registry in `account-data.cpp` | references and data of libpurple's transfers, pending requests, registered transfers, deferred cancellations, temporary files | start, progress, cancel, finish, copy, disconnect | client, libpurple's transfers and their handlers, TDLib's slots |
| Forum topics | `forum-topics.cpp`, the joins in `td-client.cpp`, the metadata in `account-data.cpp` | metadata with generations, pending lookups, joins, room lists, conversations and bookmarks | updates, lookups, joins, room lists, projection | client, libpurple's conversations and buddy list |
| Purple 3 session | `purple3/telegram-purple3-session.cpp`, `telegram-purple3-connection.c` | phase, connect outcome, sign-out and its timeout, explicit close; the connection's tasks, close result and restart timer; the account's probe | connect, cancel, disconnect, failures, sign-out and restart, unload, dispose | account and tasks of Purple, controller, transport, backend |

The remaining parts (secret chats, calls, stickers, formatting, Purple 3 GObject
glue, vendored `fmt` and `rlottie`) keep no protocol state of their own.

What is hard, part by part, is listed under `hazards` in `PROJECT.json`, at the
line where it bites, with the properties that watch it.

## Modules

### TdTransport, RequestContract

`TdTransport` models `td-transport.cpp`. The owner thread sends, runs timers and
dispatches; any other thread hands objects in. An action is one critical section
of `TdTransportState::mutex` with the owner-thread work up to the next one, so the
model has every interleaving the mutex permits:

| Code | Model |
|---|---|
| `reserveRequest`, then the backend's send callback | `Reserve`, then `SendReturns`, `AttachPreparedTimeout` or `SendThrows`, `CancelRequest` |
| `installTimeout` | `SetTimeout` (atomic: only the owner sets timers, and the second look under the lock either still finds the request or fails like the first) |
| `timeoutExpired` | `TerminalTimerFires`, `NotificationTimerFires`, `StaleTimerFires` |
| `receiveObject`, `enqueueUpdate`, `scheduleDispatchLocked` | `ReceiveUpdate`, `ReceiveResponse`, `ScheduleDispatch` |
| `dispatchPending`, `dispatchOne`, `releaseSourceLifetime` | `DispatchBegin`, `DispatchOne`, `DispatchSettle`, `DispatchLoopEnd`, `DispatchCheck`, `Retire` |
| `DeliveryReceipt` | `receipt` |
| `shutdown` | `Shutdown`, also from inside a delivery callback |

A request has a serial of its own besides its identifier, because identifiers
come back after the counter wraps (`PublicMax` stands for 2^63 - 1). Timers may
fire in a main loop nested in application code; a dispatch nested in a callback is
not modelled. A timer that cannot be created or attached is `SendThrows`.

`RequestContract` is what a caller may rely on for one request: it is sent, and its
response may overtake the return of `send`; `send` refuses it, or it is open, and then
either accepted and answered, or timed out, or abandoned by shutdown. It ends once.
`KeepsContract` says `TdTransport` implements it, with `RequestState` as the
refinement mapping.

### TdPollingBackend

`TdPollingBackend` models one session of `td-polling-backend.cpp` with its five
threads: owner, polling worker, reaper, a thread inside `sender()` and a helper
that settles the receipt of the closed update. `todo[t]` is what thread `t` has
still to do, one entry per critical section; a function that calls another one
puts that one's entries in front. The Boolean members of `TdPollingBackendState`
are the members of the set `flags`.

Every call that can fail may fail: reserving the key (`SessionBusy`), making the
client, either thread, activation, sends, receives, the failure source, the
finalizer's attachment and the close deadline (`DeadlineOutcomes`). The client's
destructor may never return. Throwing allocations on the delivery of a logical
failure are left out.

### TdAuthController, LoginContract

`TdAuthController` models `td-auth-controller.cpp`, which runs on one thread and
calls out in the middle of its handlers: to the observer (a prompt is shown, a
prompt is closed, a request was rejected, the outcome, a lifecycle state) and to
the sender. The code it calls may call any public method, answer a request, or
throw. `stack` holds one frame for each call-out under way, with what its handler
does when the call returns; an action runs from the controller being entered, or
from a call-out coming back, to the next call-out or the return.

| Code | Model |
|---|---|
| `handleAuthorizationState` and its handlers | `UpdateTdlibParameters`, `UpdatePhoneNumber`, `UpdateChallenge`, `UpdateQrLink`, `UpdateUnsupported`, `UpdateReady`, `HandleLifecycle` |
| `enterState`, `issuePrompt`, `startRequest`, `notifyPromptClosed` | `EnterState` and `Entered`, `IssuePrompt`, `StartRequest`, `NotifyPromptClosed` |
| `submit*`, `rejectInvalidInput`, `cancel`, `cancelPrompt`, `failPrompt`, `shutdown` | `Submit`, `SubmitNothing`, `Cancel`, `FailPrompt`, `Shutdown` |
| `handleResponse` | `Respond` |
| what follows a call-out | `Return*`, `SenderAccepts`, `SenderFails`, `DrainLifecycle`, `ObserverThrows` |
| `m_dispatchingCompletion`, `m_drainingLifecycle` | `InCompletion`, `Draining`: a frame of that kind is on the stack |

A call without effect is a stuttering step. The states that ask for a code, a
password, an e-mail address and so on run through one handler and are one state
here. The sender may answer before it returns, refuse the request, or throw.
Running out of memory (`abortUnexpectedException`) is left out.

`LoginContract` is what an observer may rely on: it is asked one thing at a time,
the login ends once, with no prompt open, and nothing is asked afterwards.
`KeepsLoginContract` says `TdAuthController` implements it.

### MessageQueue

`MessageQueue` models the incoming messages of one chat: `PendingMessageQueue` in
`account-data.cpp`, and the handlers in `receiving.cpp`, `file-transfer.cpp` and
`td-client.cpp` that fill it, complete its messages and display what leaves it. All
of it runs on one thread, but writing to a conversation runs the user's plugins and
may run the main loop; the repository's tests
(`ReentrantEditSkipsStaleReleasedBatchFollower` and its neighbours) edit and delete
messages from inside a display. So a display is a call-out: `stack` holds the
displays under way and what their handlers have still to do.

| Code | Model |
|---|---|
| `getChatQueue`, `addMessage`, `extractReadyMessages`, `setMessageReady`, `replaceMessageContent`, `removeMessages`, `flush` | `AddMessage`, `Extract`, `SetMessageReady`, `ReplaceContent`, `Cancel`, `Flush` |
| `handleIncomingMessage`, `fetchHistory*`, `fetchHistoryResponse` | `HandleIncoming` in `NewMessage`; `FetchHistory`, `HistoryPage`, `HistoryFails`, `Page` |
| `findMessageResponse`, `inlineDownloadResponse`, `handleLongInlineDownload`, `onAnimatedStickerConverted` | `ReplyArrives`, `DownloadDone`, `DownloadTimer` with `MoveReply`, `ConversionDone` with `Error` |
| `showMessages`, `showMessage`, `showFileInline`, `showDownloadedSticker` | `Batch`, `ShowMessage`, `File` with `ShowFile`, `Convert` |
| `PendingMessageHandle`, `PendingContentHandle` | `MessageHandle`, `ContentHandle`: a message of the queue, its incarnation `inc`, the revision `rev` of its content |
| edits, closing the client | `Edit`, `Close`, `Quit` |
| `updateDeleteMessages`, `showDeletedMessageUpdate` | `Delete`, `Deleted` with `Notices`, `Notice` |
| `rememberDisplayedMessage` | `located` in `DisplayReturns` |

Messages are numbered in Telegram's order. A message is a text, a file shown inline,
a file too large for it (`bigFile`: the user is asked), or an animated sticker; a
`local` one is on the disk already. A display is `late` when its message was
displayed before without the file.

The chat may be a forum: the messages of `InTopic` are in topics, which have conversations
of their own. What is written of a topic's message after its arrival goes to the conversation
it was displayed in, which is known when its first display returns (`located`) and may be
closed later. So an edit (`updateMessageContent`) has three outcomes: a message in the queue
gets new content; the update of one that has left it is displayed; or that update is written
nowhere, because the message is a topic's and has no conversation
(`shouldUseLegacyMessageUpdateFallback` sends only what is of no topic to the forum's room).
Messages edited before their first display are remembered as `overtaken` then. A deletion
gives one notice in a chat that is no forum, and otherwise one in each open conversation
of the deleted messages.

Left out: progress of transfers that libpurple shows, stickers
when their conversion is switched off, read receipts, one identifier used for two
messages, what a handler does after the client was deleted inside its display, requests
that cannot be sent, the limit on remembered conversations
(`MaxMessageRoutesPerChat`, past which the update of an old message of a forum is written
nowhere), and a topic that
loses its room between arrival and display, which is `ForumTopics`' matter.

### FileUpload, FileDownload, PurpleXfer, CallStack

A `PurpleXfer` is counted by references and tells its handlers of everything that
happens to it, before the function that was called returns. Handlers cancel and end
transfers, edit messages and disconnect the account, so the code after every call must
ask again what is left. `CallStack` is code that calls out and goes on: `calls` is the
list of statements still to execute, the innermost first. `PurpleXfer` models
libpurple's functions and what handlers do on it; the statement `handlers` is a place
where handlers run. `ActingHandlers` are those that act there and do not only listen:
the handlers of errors, of cancellations, and the others.

| Code | Model |
|---|---|
| `newUploadTransfer`, `startUpload`, `sendFileToChat`, `startDocumentUpload` | `NewTransfer` in `SendToChat`, `SendToUser`, `SendToNobody` |
| `sendMessageCreatePrivateChatResponse` | `PrivateChatCreated`, `PrivateChatNotNeeded`, `PrivateChatRefused` |
| `uploadResponse`, `uploadResponseError`, `startDocumentUploadProgress` | `UploadAccepted`, `UploadNotNeeded`, `UploadFailed` |
| `deferOrCancelUpload`, `flushDeferredUploadCancels`, `m_deferredUploadCancels` | `DeferOrCancelUpload`, `FlushDeferredUploadCancels`, `deferred` |
| `updateFileTransferProgress` (uploads), `finishDocumentUploads`, `resolveDocumentUploadTarget` | `UpdateFileTransferProgress` with `CancelUploads`, `ReportUploads`, `FinishUploads`; `ResolveTarget` |
| `reportDocumentUploadProgress`, `finishPurpleUpload` | `Report`, `ShowProgress`; `Complete`, `EndUpload` |
| `cancelUpload`, `endUpload`, `~PurpleTdClient` | `CancelFunction`, `EndFunction`; `Disconnect`, `CloseTransfers`, `CloseRequests` |
| `requestStandardDownload`, `startStandardDownload`, `standardDownloadResponse` | `RequestStandard`, `AcceptStandard`, `StandardArrives`, `StandardFails` |
| `wrapupDownload`, `destroyDownloadWrapup` | `WrapupEnds`, `WrapupCannotRead`, `WrapupCannotWrite`, `CancelIfOpen`, `DestroyWrapup` |
| `downloadFileInline`, `handleLongInlineDownload`, `startInlineDownloadProgress`, `cleanupCanceledInlineDownloadStart` | `DownloadInline`, `TimerFires`, `ProgressAccepted`, `ProgressStarted`, `Open` |
| `inlineDownloadResponse`, `finishInlineDownloadProgress` | `InlineAnswered`, `MessageReady` |
| `updateFileTransferProgress` (downloads), `updateDownloadProgress` | `FileUpdate`, `UpdateDownloadProgress`, `ShowProgress` |
| `cancelDownload`, `endDownload` | `CancelFunction`, `EndFunction` |

TDLib has one upload and one download of a file, which transfers of the same file
share: `slot` is what TDLib does with it. `temp` says who has to remove the temporary
file of an inline download, and is `lost` when nobody does.

### TopicMetadata, ForumTopics

`TopicMetadata` is the abstract specification of what is known of forum topics.
Telegram announces changes but not deletions, and answers of requests may be late, so
each piece of evidence has a generation: an update takes a new one, a lookup or a listing
reserves one before it asks and uses it for everything that the answer brings
(`upsertForumTopic`, `invalidateForumTopicMetadata`, `tombstoneForumTopic`,
`reconcileForumTopics`, `reserveForumTopicGeneration` of `account-data.cpp`). `latest`
and `existing` are the truth at Telegram; `since` and `missable` bound how late an answer
is and which topics a complete listing may leave out.

`ForumTopics` is the client on top: lookups, the joins that wait for them, room lists
that go page by page through all forums, and the projection of what is found onto
conversations. It implements `TopicMetadata`, with `MetadataSpec` as a theorem about it.
Statements and handlers are those of `CallStack`; a statement of a room list is skipped
when the list is over (`ListGone`), and everything ends with the client (`ClientGone`).

A live message says that its topic exists (`Message` of `TopicMetadata`) and, once its
conversation is open and before it is written there, satisfies a join that waits for the
topic: the join and the expected chat are forgotten, and whoever runs when the message is
written may join again. A message of the history activates its topic and does neither; it
is always queued, because a chat has a queue while its history is fetched. A
change of the parent chat first changes the room in the buddy list, where handlers run, and
only then looks after the joins and topics of the forum; an update that changes nothing of
the forum has no such place, because what handlers do there can be done before the update.

| Code | Model |
|---|---|
| `resolveForumTopic`, `handleTopicLookup`, `completeTopicLookup`, `cancelForumTopicLookup` | `ResolveAtOnce`, `ResolveTogether`, `ResolveAnew`; `LookupIgnored`, `LookupFails`, `LookupSucceeds`; `CompleteTopicLookup`, `CancelForumTopicLookup` |
| `joinForumTopic`, `completeForumTopicJoin`, `failForumTopicJoin` | `JoinEarly`, `JoinRefused`, `JoinForumTopic`; `JoinForgotten`, `JoinEndsQuietly`, `JoinFails`, `JoinSucceeds`, `JoinPresents` |
| `projectForumTopic`, `suspendForumTopics`, `getChatConversation` | `ProjectAsks`, `ProjectLeaves`, `ProjectNames`, `SuspendTopic`, `GetChatConversation` |
| updates of topics, of chats and groups | `TopicInfo`; `ParentChanges`, then handlers, then `ParentChanged` with `RetryExpectedForumTopicJoins` or `FailForumTopicJoins` |
| incoming messages, live and of the history | `IncomingMessage` with `HandleIncomingMessage`, `HandleHistoryMessage`; `QueuedMessage`, `ShowMessageTextChat`, `MessageWritten` |
| `satisfyForumTopicJoinIfOpen` | `SatisfyForumTopicJoinIfOpen` in `PreparedOpens` and `MessageWritten`; `IsOpen` in `JoinEndsQuietly` |
| `startRoomList`, `requestPage`, `handlePage`, `reconcileTopicLookups`, `cancelRoomList` | `StartRoomList`, `Begin`, `RequestPage`, `PageShows`, `PageEntry`, `LastPage`, `PageFails`, `AdvanceForum`, `AllListed`, `CancelRoomList` |

### Purple2Scheduler

`Purple2Scheduler` models how the plugin's work gets run: the pump that drives a GLib
context from libpurple's event loop (`purple2-scheduler.cpp`), the sources and guards
of `module-activity.cpp`, the background threads of `AccountThread` and the loading
and unloading of the plugin. The main thread goes through `fire()` step by step
(`stage`); threads attach sources and signal the context between its steps.

| Code | Model |
|---|---|
| `purple2SchedulerInstall`, `purple2SchedulerUninstall`, `finishUninstall` | `Install`, `Uninstall`, `FinishUninstall` |
| `inputReady`, `timeoutReady`, `fire`, `pollDescriptors`, `plan` | `InputReady`, `TimeoutReady`, `NestedTimeoutReady`, `Fire`, `Check`, `Dispatch`, `FireEnds`, `Arm` |
| `attachTrackedSource`, `dispatchTrackedSource`, `destroyTrackedSource`, `moduleActivityRemove` | `AttachTrackedSource`, `Dispatch`, `SourceReturns`, `Destroy`, `Remove` |
| `AccountThread` | `StartThread`, `ThreadBegins`, `ThreadAttaches`, `ThreadWakes`, `ThreadReturns`; `SourceReturns` joins |
| `tgprpl_load`, `tgprpl_unload`, `hasActiveWorkers` | `Load`, `Unload`, `LogIn`, `WorkerReaped` |

GLib is external: a wakeup stays readable until `g_main_context_check` is handed it,
an idle is always ready, timeouts go before idles. A context of idles and timeouts has
one descriptor, so the pump has one watch. `inputReady` in a nested loop does nothing
and is no step; a stale callback after the pump has gone cannot come, because
libpurple forgets what is removed. An unload that succeeds inside a callback, and with
it the deferred uninstall, never happens: the callback's own source holds a guard.
`PumpFollowsPlugin` of the proofs says so. For the same reason the second question of
`tgprpl_unload` never gets another answer than the first, and `Unload` is one step.
Left out: `plan` running out of memory, a loop that refuses a watch, failed attaches
and thread starts, and the thread that a fatal TDLib error parks for ever.

A comment in `module-activity.cpp` (line 19) says that the context is only read on the
thread that dispatches the sources. `AccountThread::threadFunc` and
`tdlibFatalErrorCallback` read it on other threads, through `moduleActivityAddIdle`.
The guards they hold keep it from changing meanwhile, as `UnloadIsClean` shows.

### Purple3Session

`Purple3Session` models the connections of one account of Pidgin 3, each with its TDLib
session. Everything but the cancellation runs on the main thread, and a callback runs
inside its caller: a step is a source of the main loop or a call of Purple, and its
operators take the world `w` (the account, the connections, the completions that wait)
and return what becomes of it. A task completes within the step or from a source of its
own, as `g_task_return` decides from where it is called: `w.sync` is either.
`prepare_unload` cancels every login under way; `PrepareUnload` cancels one, because there
is never more than one (`OneSession`, proved). What the account sees of several disconnects
that complete together (`DisconnectsSeen`) is said of all at once, because their order
does not show. Only
`onAuthorizationReady` is three steps (`readying`), because a cancellation on another
thread may come between its two looks at the cancellable.

| Code | Model |
|---|---|
| `connect_async`, `connect_finish`, `complete_connect_error` | `ConnectAsync`, `ConnectFailedSeen`, `CompleteConnect` |
| `session_ready`, `session_connect_failed`, `session_runtime_failed` | `NotifyReady`, `NotifyConnectFailure`, `RuntimeFailed` |
| `reauthorization_required`, `finish_reauthorization`, `abort_reauthorization` | `ReauthorizationRequired`, `Recover` in `RecoveryTimer`, `AbortReauthorization` |
| `disconnect_async`, `complete_disconnect_tasks`, `disconnect_finish`, `dispose` | `DisconnectAsync`, `CompleteDisconnects`, `DisconnectsSeen`, `Dispose` |
| `cancel`, `close`, `beginClose`, `backendFailed`, `backendClosed` | `Cancel`, `Close`, `BeginClose`, `BackendFailed`, `BackendClosed` |
| `connectionCancelled`, `dispatchCancel`, `deferredCancel`, `prepareForUnload` | `OwnerCancel`, `ForeignCancel`, `DeferredCancel`, `PrepareUnload` |
| `onAuthorization*`, `onLoggingOut`, `onClosing`, `onClosed`, `processUpdate`, the timeout of a sign-out | `LoginReady`, `Unwatch`, `SelectOutcome`, `LoginEnds`; `Told`, `ProcessUpdate`; `SignOutTimesOut` |

The account is external: it is connected and disconnected, and told of the results, as
`libpurple` 3 does. So are the controller (`login` and `notified` are what it promises),
the backend and TDLib. A close that timed out and one that failed are both `Unclean`.

## Runs

| Run | Question | Bounds |
|---|---|---|
| `transport` | Does each request end once and as promised, do objects come in order, is no wake-up lost, does every receipt settle and every timed request end? | 2 requests, 2 objects, batches of 1: a response can be duplicated, overtake the return of `send`, race a timer, and every object needs a look of its own, so sources retire and are replaced |
| `backend` | Do all close callbacks hear one result, after the failure, is every close answered though the destructor may hang, does nobody use the client when it is gone, and is the key released when the destructor returns? | 2 close callbacks plus closes without one, a deadline source that is made or not |
| `auth_safety` | Is the login told to end once, are prompts paired, does somebody always have the next move, does it keep its contract? | 5 calls, 2 call-outs deep, all modes, a challenge with two details, two QR links |
| `queue` | Is each message displayed once and in Telegram's order, does whatever waits have somebody to wait for, and does every message leave the queue? | 1 missed and 1 live message, replies, files of all sizes, 1 update, downloads that may never end, close at any time |
| `queue_nested` | Is a stale or deleted message, or replaced content, ever displayed, and is a message that has left the queue ever lost? | 2 messages of all kinds, one of them in a topic, 2 updates, a display nested in a display |
| `queue_converted` | Is a sticker displayed only when converted? | violated: see below |
| `scheduler` | Does attached work always bring the pump back, do the handles match, does the loop become quiet, and does an unload leave nothing? | 1 idle, 1 timeout, 2 threads, the plugin loaded twice, 1 session |
| `upload` | Is every reference to a transfer accounted for, does TDLib upload what is wanted and nothing else, is a file sent once and only if wanted? | 3 transfers of 2 files, in every combination, to a topic; all handlers act |
| `download` | Is a freed transfer or account ever used, does TDLib download what is wanted and nothing else, are temporary files removed? | 1 standard and 2 inline downloads of one file; ordinary handlers act |
| `download_error` | Is a transfer still there after its error has been told? | violated: see below |
| `forum` | Is what is known of a topic current, is an existing topic ever taken for deleted, is every join told its result, does every room list go on? | 1 topic (bookmarked, without a conversation at first), 1 room list of pages at 2 cursors, 3 generations, 1 join |
| `session` | Has a connected account a session that works, is a sign-out recovered from once, are connects and disconnects answered, is an error never hidden by a later one, does nothing hang? | 2 connections: one that ends in any way and the one after it, cancellations from both threads, tasks that complete at once or later, one other caller of disconnect at a time |

All of them run with `CHECK_DEADLOCK FALSE`: a session that is closed has nothing
left to do, and the bounds on requests, objects and calls stop the rest. Five
calls are enough for a login that is set up, asks, is answered and is interrupted
twice on the way.
A missed and a live message are one that blocks the queue and one behind it; two nested
displays are one that holds released messages and one whose handler changes them. Order is
checked without calls from inside a display (`queue`), because with them the code does not
promise it: a message that comes while a batch is displayed finds no queue and is displayed
before the rest of the batch. `NothingLost` names two exceptions. A display whose handler
closes the client loses the rest of its batch, because `flush` cancels what has been
released. And a topic's message that is edited while it waits in a batch for its first
display is lost (`overtaken`, see below). In `queue_nested` message 2 is a topic's and message
1 is not, so both rules for updates are used, and a message of either kind may wait behind
the other in a batch. The theorem holds with any number of messages and topics and any depth. Three
transfers are two that share a file and one that does not, which tells the requests that
may use a file from those that may not; two inline downloads and a standard one are the
kinds that share a download. Three generations let an update and a message come between
a request and its answer in any order. With one topic and one join, two branches of
`ForumTopics` stay out of reach: a lookup that another one has replaced when its
completion runs, and a forum that is none any more when its turn comes in a room list.
The theorems about `ForumTopics` hold for any number of topics and joins.
In `forum` TLC tells states apart by `View` (in `MCForumTopics`), all variables but dead
values: what a source had noted before its lookup or list was over, and requests whose
answer will be ignored. No property reads them, and actions only remove or overwrite them.
With the conversation there but left from the beginning (`LeftOpen`) the run passes as well
and takes a third longer; without it the topic's conversation is left when its forum is.
Two connections are the one that TDLib signs out and the one that the restart makes, which
may be signed out again; with three (a million states) the safety properties hold as well,
but liveness takes too long. `RecoveryTriedOnce` has an exception that needs three: when the
user connects the account by hand in the few milliseconds before the restart timer does, the
timer stays, and if that connection is signed out too it finds the probe of the second
restart and may clear it.
In five runs the type invariant is the first conjunct of another property.
The names of the configurations are those of the module and the run. In `transport`
the number of requests does not exceed the number of identifiers; with one identifier
for two requests the contract fails in a way the code accepts: `cancelRequest` of a
send that fails drops a queued response by its identifier, which may be another
request's when the counter has come round. That needs 2^63 requests, and it is why
`ContractIsKept` assumes `IdentifiersSuffice`. So no run shows what happens when identifiers
wrap: only the theorem `NobodyIsLost` covers that, by proving `NoRequestLost` for any number
of requests and any `PublicMax`.
Every property has a mutant in its module, a definition marked `Mutant:` that
changes one mapped definition the way a slip in the code would, and the run finds
the property violated with it.

**Findings.** `receiving.cpp:2055` says that animated stickers are not ready until converted.
`queue_converted` shows one that its timer made ready and that is not made unready when
its download ends and its conversion starts (`file-transfer.cpp:516`), so it may leave
unconverted, be converted a second time and be displayed twice.

`file-transfer.cpp:97` says that handlers of an error can synchronously disconnect the
account, and `uploadResponseError` goes on only with a transfer that it holds a reference
to. `standardDownloadResponse` (`file-transfer.cpp:1219`) tells the error of a downloaded
file that cannot be opened and then cancels a transfer it has no reference to:
`download_error` shows it gone. That is why in the run `download` only ordinary handlers
act.

Differences between the text and the code that are known from modelling and have no run
of their own:

- `td-auth-controller.h:319` says that `shutdown` invalidates callbacks without completing
  authorization. When the observer calls it from `onPromptClosed` while a login is ending,
  `notifyCompletion` (`td-auth-controller.cpp:1431`) goes on to tell the outcome.
- A connect of Purple 3 may stay unanswered. When TDLib signs out before the login is
  complete, the session waits for the backend's end with the connect open; a disconnect
  that comes while it closes sets `m_reauthorizationRequested` back
  (`telegram-purple3-session.cpp:542`), `beginClose` finds the session closing already, and
  at the end neither `connect_failed` nor `reauthorization_required` is told. When the
  disconnect comes earlier or later the connect is answered, as
  `testConnectionPreReadyRecoveryDisableCompletesConnect` of the repository expects of a
  neighbouring case. `ConnectIsAnswered` names the exception.
- `td-polling-backend.h:108` promises that runtime failure notification completes before
  any Failed close callback. A close that cannot make its deadline source reports Failed
  at once although the session goes on, and a send or receive that fails later is notified
  after it. `FailureIsTold` therefore speaks of closes that made their deadline source.
- `account-data.h:292` says that the reply moves to the `DownloadRequest` when a message
  leaves the queue before its download ends; `handleLongInlineDownload`
  (`file-transfer.cpp:802`) looks only at the messages that its own timer released, so a
  message the timer made ready behind another one leaves later and its file is shown
  without the reply.
- `receiving.cpp:2171` says that a message does not wait for the conversion of a sticker,
  but `isFileMessageReady` (`receiving.cpp:2056`) does wait, and a thread that cannot be
  started (`client-utils.cpp:2311`) never reports, so the sticker and all messages behind
  it stay until the client is closed.
- `ReentrantEditSkipsStaleReleasedBatchFollower` of `test/message-order-test.cpp` expects of
  a message edited while it waits in a batch that the batch skips it and that the update is
  displayed. Of a message in a forum topic neither is displayed: the batch skips it as stale
  (`receiving.cpp:1869`), `showUpdatedMessage` knows no conversation for a message not yet
  displayed (`account-data.cpp:2331`), and the fallback is refused for every topic but
  General (`account-data.cpp:2293`), so `updateMessageContent` (`td-client.cpp:732`) writes
  nothing and the message is lost. `NothingLost` names this as an exception.
- The start function of an inline download closes what libpurple has opened for a
  transfer that a handler cancelled while it started
  (`cleanupCanceledInlineDownloadStart`); a standard download has no such function, and
  its destination stays open.
- The loop of `~PurpleTdClient` over registered transfers (`td-client.cpp:543`) holds no
  reference to a download, so a handler of one cancellation that cancels another
  registered download leaves the loop with a freed pointer.

## Fairness

The main loop runs every source that stays ready: all sources have
`G_PRIORITY_DEFAULT` (the failure source is `G_PRIORITY_HIGH`, which only brings
it forward), and GLib dispatches every ready source of a priority in one
iteration. Threads run, and TDLib's `send` and `receive` return, as
`TdPollingClient` requires. Nothing makes the application send, close or shut
down, nor TDLib answer. The backend's liveness assumes that receipts settle,
which is what `EveryReceiptSettles` shows of the transport. `KeyIsReleased` says of itself
that the client's destructor returns; `EveryCloseReported` holds although it may not.
`EveryMessageLeaves` assumes that the timers of downloads fire and that requests for history and replies are
answered, and not that a download ever ends. `TdAuthController` needs no fairness:
that a login does not hang is the safety invariant `NeverStuck`, which names who
has the next move, and `NoJoinIsLost` and `NoListHangs` say so of `ForumTopics`.
`NothingHangs` assumes that completions and the deferred cancellation are dispatched, that
the deadlines of a sign-out and of a restart come, and that a backend that was asked to
close reports its end, which is `EveryCloseReported` of the backend.
`QuietInTheEnd` assumes that libpurple's loop serves a readable
watch or a timer, that callbacks return and that threads run; nobody need add work,
load or unload.

## Proofs

Everything below is proved for every value of the constants, from the named
assumptions of the modules it is about and nothing else, unless it says so.

| Module | Theorem | Says |
|---|---|---|
| `TdTransportProofs` | `TypeCorrect` | `Spec => []TypeOK` |
| | `CalledBackAtMostOnce` | `Spec => []AtMostOnce` |
| | `ClaimedResponseWins` | `Spec => []ResponseWins` |
| | `WakeupIsNeverLost` | `Spec => []NoLostWakeup` |
| | `StateOutlivesSources` | `Spec => []SourcesKeepStateAlive` |
| | `NobodyIsLost` | `Spec => []NoRequestLost`, with identifiers reused |
| | `ContractIsKept` | `Spec => KeepsContract`, if `MaxSends <= PublicMax` |
| `TdPollingBackendProofs` | `TypeCorrect` | `Spec => []TypeOK` |
| | `ClientOutlives` | `Spec => []ClientOutlivesItsUse` |
| | `FinalResult` | `Spec => []OneFinalResult` |
| `TdAuthControllerProofs` | `PairedPrompts` | `Spec => []PromptsArePaired` |
| | `LoginContractKept` | `Spec => KeepsLoginContract`, the refinement |
| | `OutcomeInOrder` | `Spec => []OneOutcomeInOrder` |
| | `SomebodyHasTheNextMove` | `Spec => []NeverStuck`, its `TypeOK` included |
| `MessageQueueProofs` | `QueueLosesNothing` | `Spec => []NothingLost`, at any depth of nested displays |
| `Purple2SchedulerProofs` | `TypesAndGuards` | `Spec => []TypeOK` |
| | `PumpIsThere` | `Spec => []PumpServesItsWork` |
| | `UnloadIsClean` | `Spec => []UnloadLeavesNothing` |
| `ForumTopicsProofs` | `MetadataTypes` | `MetadataSpec => []MetadataTypeOK` |
| | `KnownStaysCurrent` | `MetadataSpec => []KnownIsCurrent` |
| | `ExistingStaysKept` | `MetadataSpec => []ExistingIsKept` |
| | `ClientImplementsMetadata` | `Spec => MetadataSpec`, the refinement |
| | `ClientKnowsWhatIsCurrent` | `Spec => []KnownIsCurrent` |
| | `ClientKeepsWhatExists` | `Spec => []ExistingIsKept` |
| | `JoinsAreTold` | `Spec => []NoJoinIsLost` |
| | `ListsGoOn` | `Spec => []NoListHangs` |
| `FileUploadProofs` | `SlotsFollow` | `Spec => []SlotsFollowTransfers` |
| | `SentOnce` | `Spec => SentOnceIfWanted` |
| | `ReferencesAccounted` | `Spec => []RefsAccounted` |
| `Purple3SessionProofs` | `AccountIsServed` | `Spec => []ConnectedIsServed` |
| | `RestartIsNotRepeated` | `Spec => []RecoveryTriedOnce` |
| | `EndAnswersConnect` | `Spec => []ConnectIsAnswered` |
| | `NothingMisleads` | `Spec => AccountNotMisled` |

Of the invariants only `TypeOK` of the transport and `MetadataTypeOK` are inductive by
themselves. `AtMostOnce` and `ResponseWins` are not checked by a run of their own, because
`KeepsContract` implies them.

- `CompletionInv` says who owns a request: the map owns requests that are not
  completed and not claimed, the queue owns claimed requests that are not completed,
  no request is in the queue twice, and serials not yet used are untouched. An action
  moves a request from one owner to the next (`CompletionReserve`,
  `CompletionEnqueue`) or takes it away from its owner for good (`CompletionShrinks`,
  `CompletionCallBack`).
- `DispatchInv` says where a dispatch source is in its life: a source that has given
  itself up is no longer the one arrivals rely on, and besides that one at most the
  source under dispatch is attached. So the count of sources is at most two, and it is
  zero exactly when the reference to the state is dropped.
- `WaitInv` says that whoever waits under an identifier was given it, that everyone
  sent was given one, and that during a send nobody but its request waits under its
  identifier. The last part is what keeps `CancelRequest` from forgetting somebody else.
- `HoldingInv` adds to `CompletionInv` that identifiers are serials as long as they
  suffice, and that the request being sent waits or is queued and has no attached
  timer. Each action then moves one request along the contract (`ReserveStep`,
  `SentStep`, `RefusedStep`, `TimeOutStep`, `AcceptStep`, `AnswerStep`), all of them
  (`AbandonStep`), or none (`QuietStep`).
- `SessionInv` of `TdPollingBackendProofs` is the longest, because five threads share its
  state. It is a conjunction of one statement for each thing the code keeps true:
  `EarlyOK`, that before `start` nothing has moved; `ThreadsOK`, which thread may have
  which entries, in which order, and that a thread has exited when nothing is left to do;
  `LockOK`, who holds the send mutex and what it still has to do with it; `ReceiptOK`,
  that the receipt is settled by one thread, once, between a closed update and the
  worker's exit; `FinalizerOK`, that one thread claims the finalizer, after
  the reaper is ready and the receipt has settled; `RegistryOK`, that the key is given back last;
  `HandoffOK`, where a failure is on its way to the application and that nobody else can
  take it over; `OrderOK`, that the failure callback runs before the callbacks it must
  precede; `CloseOK` and `PlacesOK`, that a close callback is stored, about to run, or has
  run, and never two of them; `ResultsOK`, that what has been told is the logical result,
  and a result `Closed` means that the worker has exited and the client is gone or that
  there never was one; `SourcesOK`, that besides the source the code has noted as scheduled
  there is at most one for the logical failure, and only while no deadline is attached. The proof
  first finds, for each variable, flag and entry, the actions that can change it
  (`OnlyVariablesWritten`, `OnlyFlagsWritten`, `OnlyEntriesWritten`), so that each
  conjunct is taken through the few actions that touch it.
- `IInv` of `TdAuthControllerProofs` is stated of a control point, the members and the
  frames of the calls under way, so that one lemma for each operator (`Issue`, `Start`,
  `Enter`, `Complete`, ...) serves every place that uses it. Its core is what a frame of
  `enterState` may find when the observer returns (`FrameOK`, `Expects`): if the
  controller is still in the epoch and state that the frame was made in, then no prompt is
  open, no challenge is set, and no request is under way but the frame's own. It holds
  because two such frames never have the same epoch (`Apart`). The rest is that no
  outcome is told while a frame is still to tell one, and who has committed the login to
  QR codes or to the number (`QrOrPhone`).
- `TInv` of `TdAuthControllerProofs`, proved with `IInv`, is what the other two theorems
  need. `Heard` says that the lifecycle states told are the first that arrived, and that
  the queue holds all the others, in order, though it may hold one twice and one already
  told (`Ordered`; `Dequeued` is the lemma on the loop that drains it). `Tells` says that an
  outcome not told yet has its frame on the stack, that a queue that is not empty has the
  frame that will drain it, and that no lifecycle callback is made from within either
  (`Sorted`). `Minded` says who has the next move in the middle of a call: `Asked`, that
  a request under way is of the present epoch and is with the sender, or is the one a frame
  of `submit` is about to send, and that whoever may ask again has a challenge to ask;
  `Attended`, that the prompt, the request or the acknowledgement that is missing is what a
  frame on the stack will see to when its call-out returns (`CarriesOn`); `Known`, that no
  frame and no request is ahead of the controller's epochs and serials, so that two requests
  are never taken for one another. The steps of the controller then fall into three kinds
  (`Proper`): it tells nothing, the login ends, or it stops. With `BoundsAssumption`, that
  the two bounds are numbers, the depth of the stack is bounded as `TypeOK` says.
- `QueueInv` of `MessageQueueProofs` is a predicate of an account and a stack (`Sound`),
  because a handler passes several of each before its step ends; one lemma for each operator
  (`ShowMessageStep`, `ExtractStep`, `HandleIncomingStep`, ...) says that the operator keeps
  it, for a set of messages excused because they are just being displayed. Its core is
  `OwedOK`: a message that left the queue, is not a sticker and was not edited before its first
  display was displayed, or the handle of its present content is in a batch on the stack
  that no quit of the client comes before (`Awaits`). `WorkOK` and `FramesOK` say that no request or frame holds a handle of an
  incarnation or revision to come (`Knows`), so that a handle that is current now was
  current whenever it was used, and that only stickers are converted, without which a
  message could be shown by a picture it does not have. `HistoryOK` says that the missed
  messages are fetched once: the gap becomes a request, a request one page, and neither a
  page nor the messages it lists have come before. `Kept`, what a removal leaves of the
  queue, is a recursive function; that it keeps exactly the other messages is proved by a
  smallest counterexample (`LeastNat`, `KeptProperties`).
- `Inv` of `Purple2SchedulerProofs` says that the count of guards is the number of
  sources, thread objects and threads alive, which is what makes a count of zero mean
  something, that the pump is installed exactly while a plugin that wants it is loaded,
  and that between asking the context and arming, what is attached has either been seen
  or has signalled.
- `IInv` of `ForumTopicsProofs`, an invariant of `TopicMetadata` alone, says when evidence
  would still be used: `EvidenceIsFresh`, that a source whose generation is newer than a
  topic's has seen the topic as it is now, because every announcement since would have
  raised the topic's generation; `OmissionMeansGone`, that a listing that may leave out an existing topic is
  older than the topic's metadata or its last message. Both hold because a generation is
  reserved before anything is read with it.
- `ForumTopicsProofs` then goes through the handlers of `ForumTopics` and finds in each the
  one step of `TopicMetadata` it takes, or none. For this no invariant of the client is
  needed: whatever its lookups, joins and lists do, what they pass to the metadata is allowed.
- `FInv` of `ForumTopicsProofs` is about the client. `NoJoinIsLost` and `NoListHangs` speak of
  states at rest, and handlers may do anything while calls are still to return, so `FInv`
  says in every state who owes what: a pending join is told by its lookup or by a statement
  still to be executed (`JoinTold`), a pending lookup is answered by TDLib or about to be
  completed (`LookupOK`), a join that was put off waits for its forum, is taken up or fails
  (`ExpectedOK`), and something makes an active list go on (`DrivenOK`). Between a change of a
  forum and the step that looks after its joins handlers may run, so the joins of a forum
  the account is no longer in, and those put off for one it has just become known to be in,
  are excused while that step is still to come (`Settling`). Cancelling a lookup drops the
  joins that wait for it, which is sound only because a lookup is cancelled for a topic that
  nobody waits for, in a forum the account is not in (`Unwanted` in `CancelsOK`, together
  with `JoinOK`). What is owed does
  not depend on the order of the statements, so the lemmas are about the set of them
  (`todo`): `Does` says what a step takes from it and adds, the lemmas on sequences that this
  is what `SetToSeq`, `FlattenSeq` and `Settled` do, `TopicKept` and `ListKept` that a step
  leaves what is owed to other topics and lists. At rest nothing is left to be executed, and
  what remains of `FInv` is the two properties. The proof assumes that topics, forums and
  lists are finite sets (`FiniteAssumption`), which is what the account's maps hold.
- `IInv` of `FileUploadProofs` joins each transfer's stage (`StageOK`) to the statements that
  may still be executed for it (`StatementsOK`): nothing reports the progress of a transfer
  whose request is open, and nothing waits for one that is being finished. `DataOK` says that
  a transfer the client is still to hear of has its data, or is cancelled with its cancel
  function under way, so that a cancellation reaches the registry before anything else sees
  the transfer. From these, `SlotsOK`: a slot that runs has a transfer that needs it, or its
  cancellation is deferred while requests are open, and no slot that is needed was cancelled
  (`AnsweredSlots` is the lemma on the deferred cancellations). `UpdateOK`, that an update is
  handled from rest and the slot is still as it said, is what keeps a file from being sent
  for a cancelled transfer. As in `ForumTopicsProofs` the proof is about the set of
  statements (`todo`), but for those that run as soon as they are there (`Plain`).
- `RInv` of `FileUploadProofs` is what `RefsAccounted` needs, which also holds in the middle
  of a call: there a reference may be one that a statement further down the stack is going
  to drop. `RefsOK` counts them: libpurple's until a terminal function is called, the
  registry's, the request's, and the `unref`s that are left. The guard that `EndUpload` takes
  around `purple_xfer_end` is dropped only when the transfer was not cancelled meanwhile, so
  `CancelOK` and `EndOK` say which of the cancel function and that statement is still to
  come, and `HoldsOK` that the registry and the requests hold a transfer once. `StackOK` is
  the part about order, which the set of statements cannot tell: a function that takes a
  transfer's data comes before what has to see it taken (`LateFirst`), `purple_xfer_end`
  goes on at once (`EndFirst`), and whatever is executed for a transfer is followed by an
  `unref` of it (`Covered`), so that what is next finds it alive. The lemmas on `Occurrences`
  count a concatenation, what `Only` leaves and one list for each element (`CountConcat`,
  `CountOnly`, `CountEach`); `StepForIt` and `StepForOthers` are a step of one transfer as it and the
  others see it, and `ManySteps` a step that adds statements for many, as progress and
  disconnection do. `IInv` is used beside `RInv` and does not need it.
- `IInv` of `Purple3SessionProofs` is a predicate of the world (`Inv`), because a step of a
  session passes several: it ends the login, tells the account, which disconnects, and that
  reaches the session again. It says of each connection (`At`) which answers its phase
  allows (`ConnectOK`), that no cancellation meets a ready session (`CancellationOK`), what
  a sign-out excludes (`SignOutOK`), that an error is kept by all that still ends
  (`ErrorKept`), and whose completions wait (`CompletionsOK`); and of all of them together
  (`Global`) that one session at most has the storage (`OneSession`), that between a
  restart and the login it leads to no other session lives and the probe stays until that
  one has ended (`OneRestart`), and that no connection is restarted twice
  (`RestartsCounted`). `RecoveryTriedOnce` is far from inductive by itself: a second
  restart is excluded only because no other session can start one, which is the lock of the
  storage. A step is about one connection: `Outer` says what it leaves of the others and
  takes from the account at most, `OthersKept` that this is enough for them, and `StepKeeps`
  what is left to show of its own. So there is one lemma for each operator, and one for
  each action. For `AccountNotMisled`, `Still` says that the error and the state of the
  account are kept and composes over the operators of a step; what is left are the end of a
  session (`EndTells`) and the restart (`RestartTells`).

Only model-checked: liveness, `ArrivalOrder`, `TypeOK` of `ForumTopics` (that the forums of
a list are a sequence needs that no statement of it is there twice), `FailureIsTold` of
`TdPollingBackend`, `NothingStale` and `DisplayedOnceInOrder` of `MessageQueue`, and
everything about `FileDownload`.
Facts about what `SelectSeq` and the folds of the library return need an induction that the
provers cannot be given, so an operator that is to be proved about is a recursive function,
as `Kept`, `Settled`, `Only` and `Occurrences` are.

## Plan

1. `TdTransport` with `RequestContract` and the proofs of its invariants and of the
   contract: done.
2. `TdPollingBackend`, and the proofs of its types, of its final result and of the
   client's lifetime: done.
3. `TdAuthController`: prompts, epochs, one completion, re-entrant observers, and the
   proofs of its safety and that the contract is kept: done.
4. `MessageQueue`: order, revisions and cancellation of pending messages, and the proof
   that none is lost: done.
5. `Purple2Scheduler`, with module activity and unload, and the proofs of its
   invariants: done.
6. `FileUpload` and `FileDownload` on `PurpleXfer`: modelled and checked, and the proofs that
   slots follow the uploads, that a file is sent once and that every reference of an upload
   is accounted for: done.
7. `TopicMetadata`, `ForumTopics`, the proofs of the refinement and that nobody who waits is
   forgotten: done.
8. `Purple3Session` and the proofs of its safety: done.
9. `Transceiver`: the composition of 1 and 2 by their contracts, order of shutdown.
10. Proofs: `ArrivalOrder`; `FailureIsTold` of `TdPollingBackend`; `NothingStale` of
    `MessageQueue`; `FileDownload`. Each module's operators are free of `RECURSIVE`
    declarations.

## Not modelled

- Vendored code (`rlottie`, `fmt`) is 60,000 of the repository's 94,500 lines.
- Formatting, localisation, stickers and images, secret chats, calls, and the GObject
  glue of Purple 3 keep no state that a protocol depends on.
- `transceiver.cpp` is in the plan. In `td-client.cpp`
  the chat lists, contacts, group administration and the adapter of the login are left out.
- File transfer: `saveImage` and the helpers for sizes and descriptions; a new file sent
  from inside a handler; answers of TDLib delivered in a main loop that a handler runs;
  a handler that disconnects and connects again; that `wrapupDownload` copies in several
  chunks (the last one is modelled, the others leave the source).
- Purple 3 session: the presenter and its page, preparing the account's storage,
  allocations and sources that fail (but for the timeout of a sign-out), a cancellation
  between the start of the backend and the connection of its handler in `start`, an
  unload that is prepared from another thread, what `~SessionState` does, and actions of
  the user interface inside callbacks of the account.
- Forum topics: `deleteChat`; the difference between a group and its full information
  being unknown (a forum is `unknown` until both are there); the numbers libpurple knows
  topics by, the saved flag, names of rooms, and the General topic; serial numbers of page
  requests; updates delivered in a nested loop; changes at Telegram that are not announced
  while the account is no member. Handlers in direct succession are one place where
  handlers run (`Settled`), and `Disconnect` happens inside handlers, because at rest it
  would leave nothing to go on. When a handler cancels a room list while the notices of
  deleted topics are given, the topics not yet reached keep their conversation as it is.
- Getting a chat's history has no timeout (`receiving.cpp:2496`): a chat whose history is
  never answered withholds its messages, by the code's choice.
