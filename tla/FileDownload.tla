----------------------------- MODULE FileDownload -----------------------------
(***************************************************************************)
(* Files received from Telegram (file-transfer.cpp, the destructor of      *)
(* td-client.cpp, the transfer registry and the requests of                *)
(* account-data.cpp).                                                      *)
(*                                                                         *)
(* A standard download is a transfer the user accepts; when TDLib has the  *)
(* file an idle source copies it. An inline download is a request made for *)
(* a message; if it takes longer than a second it gets a transfer of its   *)
(* own, with a temporary file, that only shows its progress. Downloads of  *)
(* the same file share TDLib's download of it.                             *)
(***************************************************************************)
EXTENDS PurpleXfer

CONSTANTS
  Standard,  \* those of Xfers that are standard downloads; the others are inline
  Files      \* file identifiers of TDLib

ASSUME KindsAssumption == Standard \subseteq Xfers

Inline == Xfers \ Standard

VARIABLES
  fileOf,    \* the file of each download
  client,    \* PurpleTdClient: up, closing (in its destructor) or down
  request,   \* the downloads with a DownloadRequest in m_requests
  registry,  \* m_fileTransfers: downloads, in order
  linked,    \* registered transfers with a request identifier
  timer,     \* inline downloads whose one-second timer has not fired
  received,  \* requests with downloadedSize # 0
  stale,     \* inline downloads whose message content is not current any more
  wrapup,    \* standard downloads with an idle source that copies the file
  temp,      \* who has to remove the temporary file of an inline download
  dest,      \* transfers with dest_fp # NULL
  slot       \* TDLib's download of each file

files == <<temp, dest>>
account == <<request, registry, linked, timer, received>>
world == <<fileOf, stale>>
vars == <<xferVars, calls, client, account, wrapup, files, world, slot>>

TypeOK ==
  /\ XferTypeOK
  /\ fileOf \in [Xfers -> Files]
  /\ client \in {"up", "closing", "down"}
  /\ request \subseteq Xfers /\ registry \in Seq(Xfers) /\ linked \subseteq Xfers
  /\ timer \subseteq Inline /\ received \subseteq Xfers /\ stale \subseteq Inline
  /\ wrapup \subseteq Standard /\ dest \subseteq Xfers
  /\ temp \in [Xfers -> {"nobody", "caller", "request", "lost"}]
  /\ slot \in [Files -> {"idle", "running", "complete", "cancelled"}]

Init ==
  /\ XferInit
  /\ fileOf \in [Xfers -> Files]
  /\ client = "up"
  /\ request = {} /\ registry = <<>> /\ linked = {} /\ timer = {} /\ received = {}
  /\ stale = {} /\ wrapup = {} /\ dest = {}
  /\ temp = [x \in Xfers |-> "nobody"]
  /\ slot = [f \in Files |-> "idle"]

Registered(x) == x \in ToSet(registry)
Without(s, e) == SelectSeq(s, LAMBDA other : other # e)

\* findDownloadRequestIds
RequestsOf(f) == {x \in request : fileOf[x] = f}

\* findPendingRequest, isCurrentInlineDownloadRequest
CurrentRequest(x) == x \in request /\ x \notin stale

\* ~DownloadRequest removes the temporary file it owns.
DropRequests(xs) ==
  /\ request' = request \ xs
  /\ temp' = [x \in Xfers |-> IF x \in xs /\ temp[x] = "request" THEN "nobody" ELSE temp[x]]

\* downloadFile reaches TDLib.
StartSlot(f) == slot' = [slot EXCEPT ![f] = IF @ = "complete" THEN @ ELSE "running"]

-------------------------------------------------------------------------------
\* Standard downloads.

\* requestStandardDownload
RequestStandard(x) ==
  /\ calls = <<>> /\ client = "up" /\ status[x] = "none"
  /\ refs' = [refs EXCEPT ![x] = 1]
  /\ status' = [status EXCEPT ![x] = "offered"]
  /\ data' = [data EXCEPT ![x] = TRUE]
  /\ registry' = Append(registry, x)
  /\ UNCHANGED <<ended, calls, client, request, linked, timer, received, wrapup, files,
                 world, slot>>

\* purple_xfer_start; of a cancelled transfer it opens the destination all the same.
StartXfer(x) == <<Do("start", x), Do("handlers", x), Do("open", x)>>

\* The user accepts; startStandardDownload is the init function. libpurple refers to
\* the transfer until that function returns.
AcceptStandard(x) ==
  /\ calls = <<>> /\ status[x] = "offered" /\ data[x] /\ Registered(x)
  /\ status' = [status EXCEPT ![x] = "accepted"]
  /\ refs' = [refs EXCEPT ![x] = @ + 1]
  /\ request' = request \cup {x}
  /\ linked' = linked \cup {x}
  /\ StartSlot(fileOf[x])
  /\ calls' = StartXfer(x) \o <<Do("unref", x)>>
  /\ UNCHANGED <<ended, data, client, registry, timer, received, wrapup, files, world>>

Start ==
  /\ At("start")
  /\ status' = [status EXCEPT ![Head(calls).x] = "started"]
  /\ Returning
  /\ UNCHANGED <<refs, ended, data, client, account, wrapup, files, world, slot>>

\* Mutant: no start function cleans up after a cancelled transfer.
OpenAnyway ==
  /\ At("open")
  /\ LET x == Head(calls).x IN
       /\ dest' = dest \cup {x}
       /\ temp' = [temp EXCEPT ![x] = IF x \in Inline /\ @ = "nobody" THEN "lost" ELSE @]
  /\ Returning
  /\ UNCHANGED <<xferVars, client, account, wrapup, world, slot>>

\* begin_transfer opens the destination and calls the start function, which for an
\* inline download is cleanupCanceledInlineDownloadStart.
Open ==
  /\ At("open")
  /\ LET x == Head(calls).x IN
       IF x \in Inline /\ Cancelled(x)
         THEN temp' = [temp EXCEPT ![x] = "nobody"] /\ UNCHANGED dest
         ELSE /\ dest' = dest \cup {x}
              /\ temp' = [temp EXCEPT ![x] = IF x \in Inline /\ @ = "nobody" THEN "lost" ELSE @]
  /\ Returning
  /\ UNCHANGED <<xferVars, client, account, wrapup, world, slot>>

\* ... or cannot
OpenFails ==
  /\ At("open") /\ ~ Cancelled(Head(calls).x)
  /\ Calling(CancelXfer(Head(calls).x))
  /\ UNCHANGED <<xferVars, client, account, wrapup, files, world, slot>>

\* TDLib answers a downloadFile: the file's download is complete, or has failed.
Answer(x, complete) ==
  /\ calls = <<>> /\ client = "up" /\ x \in request
  /\ DropRequests({x})
  /\ received' = received \ {x}
  /\ slot' = [slot EXCEPT ![fileOf[x]] =
                IF complete THEN "complete"
                ELSE IF RequestsOf(fileOf[x]) = {x} THEN "idle" ELSE @]

\* standardDownloadResponse: the file can be opened
StandardArrives(x) ==
  /\ x \in Standard /\ Answer(x, TRUE)
  /\ IF Registered(x) /\ x \in linked
       THEN /\ registry' = Without(registry, x) /\ linked' = linked \ {x}
            /\ data' = [data EXCEPT ![x] = FALSE]
            /\ refs' = [refs EXCEPT ![x] = @ + 1]
            /\ wrapup' = wrapup \cup {x}
       ELSE UNCHANGED <<registry, linked, data, refs, wrapup>>
  /\ UNCHANGED <<status, ended, calls, client, timer, dest, world>>

\* ... it cannot (complete), or the download has failed
StandardFails(x, complete) ==
  /\ x \in Standard /\ Answer(x, complete)
  /\ IF Registered(x) /\ x \in linked
       THEN /\ registry' = Without(registry, x) /\ linked' = linked \ {x}
            /\ data' = [data EXCEPT ![x] = FALSE]
            /\ calls' = (IF complete THEN <<Do("errorHandlers", x)>> ELSE <<>>)
                        \o <<Do("cancelRemote", x)>>
       ELSE UNCHANGED <<registry, linked, data, calls>>
  /\ UNCHANGED <<refs, status, ended, client, timer, wrapup, dest, world>>

CancelRemote ==
  /\ At("cancelRemote")
  /\ Calling(CancelXfer(Head(calls).x))
  /\ UNCHANGED <<xferVars, client, account, wrapup, files, world, slot>>

-------------------------------------------------------------------------------
\* wrapupDownload, the idle source that copies the file.

CanContinue(x) == ~ Cancelled(x) /\ ~ ended[x]

Wrapup(x, statements) ==
  /\ calls = <<>> /\ x \in wrapup
  /\ calls' = IF CanContinue(x) THEN statements \o <<Do("destroyWrapup", x)>>
                                ELSE <<Do("destroyWrapup", x)>>
  /\ UNCHANGED <<xferVars, client, account, wrapup, files, world, slot>>

\* The last chunk, and that it cannot be read or written. (Earlier chunks differ from
\* the last only in that the source stays, and the handlers may act in between.)
WrapupEnds(x) == Wrapup(x, <<Do("handlers", x), Do("complete", x)>>)
WrapupCannotRead(x) == Wrapup(x, <<Do("errorHandlers", x), Do("cancelIfOpen", x)>>)
WrapupCannotWrite(x) == Wrapup(x, <<Do("handlers", x), Do("cancelIfOpen", x)>>)

CancelIfOpen ==
  /\ At("cancelIfOpen")
  /\ LET x == Head(calls).x IN Calling(IF CanContinue(x) THEN CancelXfer(x) ELSE <<>>)
  /\ UNCHANGED <<xferVars, client, account, wrapup, files, world, slot>>

\* purple_xfer_set_completed, then the guarded purple_xfer_end; also of the transfer of
\* an inline download
Complete ==
  /\ At("complete")
  /\ LET x == Head(calls).x IN
       IF CanContinue(x)
         THEN /\ status' = [status EXCEPT ![x] = "done"]
              /\ Calling(<<Do("handlers", x), Do("endDownload", x)>>)
         ELSE Returning /\ UNCHANGED status
  /\ UNCHANGED <<refs, ended, data, client, account, wrapup, files, world, slot>>

\* Mutant: purple_xfer_end without the guard reference it drops afterwards.
EndUnguarded ==
  /\ At("endDownload")
  /\ LET x == Head(calls).x IN
       Calling(IF CanContinue(x) THEN EndXfer(x) \o <<Do("unrefUnlessCancelled", x)>> ELSE <<>>)
  /\ UNCHANGED <<xferVars, client, account, wrapup, files, world, slot>>

EndDownload ==
  /\ At("endDownload")
  /\ LET x == Head(calls).x IN
       IF CanContinue(x)
         THEN /\ refs' = [refs EXCEPT ![x] = @ + 1]
              /\ Calling(EndXfer(x) \o <<Do("unrefUnlessCancelled", x)>>)
         ELSE Returning /\ UNCHANGED refs
  /\ UNCHANGED <<status, ended, data, client, account, wrapup, files, world, slot>>

\* destroyDownloadWrapup
DestroyWrapup ==
  /\ At("destroyWrapup")
  /\ LET x == Head(calls).x IN
       /\ refs' = [refs EXCEPT ![x] = @ - 1]
       /\ wrapup' = wrapup \ {x}
  /\ Returning
  /\ UNCHANGED <<status, ended, data, client, account, files, world, slot>>

-------------------------------------------------------------------------------
\* Inline downloads.

\* downloadFileInline
DownloadInline(x) ==
  /\ calls = <<>> /\ client = "up" /\ x \in Inline \ request /\ status[x] = "none"
  /\ x \notin stale
  /\ request' = request \cup {x}
  /\ timer' = timer \cup {x}
  /\ StartSlot(fileOf[x])
  /\ UNCHANGED <<xferVars, calls, client, registry, linked, received, wrapup, files, world>>

\* handleLongInlineDownload up to purple_xfer_request_accepted: the transfer is pinned
\* before its first handler runs.
TimerFires(x) ==
  /\ calls = <<>> /\ client = "up" /\ x \in timer \cap request
  /\ timer' = timer \ {x}
  /\ IF CurrentRequest(x)
       THEN /\ refs' = [refs EXCEPT ![x] = 2]
            /\ status' = [status EXCEPT ![x] = "accepted"]
            /\ temp' = [temp EXCEPT ![x] = "caller"]
            /\ calls' = <<Do("handlers", x), Do("progressAccepted", x)>>
       ELSE UNCHANGED <<refs, status, temp, calls>>
  /\ UNCHANGED <<ended, data, client, request, registry, linked, received, wrapup, dest,
                 world, slot>>

\* discardUnregisteredInlineDownloadProgress
DiscardProgress(x) ==
  /\ temp' = [temp EXCEPT ![x] = "nobody"]
  /\ Calling((IF Cancelled(x) THEN <<>> ELSE CancelXfer(x)) \o <<Do("unref", x)>>)
  /\ UNCHANGED <<refs, data, registry, linked>>

CommitProgress(x) ==
  /\ temp' = [temp EXCEPT ![x] = "request"]
  /\ data' = [data EXCEPT ![x] = TRUE]
  /\ registry' = Append(registry, x)
  /\ linked' = linked \cup {x}
  /\ refs' = [refs EXCEPT ![x] = @ - 1]
  /\ Returning

\* What startInlineDownloadProgress tests after every handler.
MayGoOn(x) == ~ Cancelled(x) /\ client = "up" /\ CurrentRequest(x)

ProgressAccepted ==
  /\ At("progressAccepted")
  /\ LET x == Head(calls).x IN
       CASE ~ MayGoOn(x) -> DiscardProgress(x)
         [] MayGoOn(x) /\ x \in received ->
              /\ Calling(StartXfer(x) \o <<Do("progressStarted", x)>>)
              /\ UNCHANGED <<refs, data, registry, linked, temp>>
         [] OTHER -> CommitProgress(x)
  /\ UNCHANGED <<status, ended, client, request, timer, received, wrapup, dest, world, slot>>

ProgressStarted ==
  /\ At("progressStarted")
  /\ LET x == Head(calls).x IN
       IF MayGoOn(x) THEN CommitProgress(x) ELSE DiscardProgress(x)
  /\ UNCHANGED <<status, ended, client, request, timer, received, wrapup, dest, world, slot>>

\* inlineDownloadResponse with finishInlineDownloadProgress
InlineAnswered(x, complete) ==
  /\ x \in Inline /\ Answer(x, complete)
  /\ timer' = timer \ {x}
  /\ IF Registered(x)
       THEN /\ registry' = Without(registry, x) /\ linked' = linked \ {x}
            /\ data' = [data EXCEPT ![x] = FALSE]
            /\ dest' = dest \ {x}
            /\ refs' = [refs EXCEPT ![x] = @ + 1]
            /\ calls' = (IF complete THEN <<Do("complete", x)>> ELSE <<Do("cancelIfOpen", x)>>)
                        \o <<Do("unref", x), Do("messageReady", x)>>
       ELSE /\ UNCHANGED <<registry, linked, data, dest, refs>>
            /\ calls' = <<Do("messageReady", x)>>
  /\ UNCHANGED <<status, ended, client, wrapup, world>>

\* The rest of the handler uses the account, and returns if it is gone.
MessageReady ==
  /\ At("messageReady")
  /\ Returning
  /\ UNCHANGED <<xferVars, client, account, wrapup, files, world, slot>>

\* The message is edited or deleted, by an update or by a handler.
Replaced(x) ==
  /\ Outside /\ client = "up" /\ x \in Inline \cap request
  /\ stale' = stale \cup {x}
  /\ UNCHANGED <<xferVars, calls, client, account, wrapup, files, fileOf, slot>>

-------------------------------------------------------------------------------
\* updateFileTransferProgress for downloads: every transfer is pinned before the first
\* handler runs.

Waiter(x, pinned) == [do |-> "updateProgress", waiter |-> x, pinned |-> pinned]

\* Mutant: the transfers are not pinned while their handlers run.
FileUpdateUnpinned(f) ==
  /\ calls = <<>> /\ client = "up" /\ slot[f] \in {"running", "complete"}
  /\ \E waiters \in SetToSeqs({x \in RequestsOf(f) : x \notin stale}) :
       calls' = ForEach(waiters, LAMBDA x : <<Waiter(x, Registered(x) /\ x \in linked)>>)
  /\ UNCHANGED <<xferVars, client, account, wrapup, files, world, slot>>

FileUpdate(f) ==
  /\ calls = <<>> /\ client = "up" /\ slot[f] \in {"running", "complete"}
  /\ \E waiters \in SetToSeqs({x \in RequestsOf(f) : x \notin stale}) :
       LET pinned == SelectSeq(waiters, LAMBDA x : Registered(x) /\ x \in linked) IN
         /\ waiters # <<>>
         /\ refs' = [x \in Xfers |-> IF x \in ToSet(pinned) THEN refs[x] + 1 ELSE refs[x]]
         /\ calls' = ForEach(waiters, LAMBDA x : <<Waiter(x, x \in ToSet(pinned))>>)
                     \o ForEach(pinned, LAMBDA x : <<Do("unref", x)>>)
  /\ UNCHANGED <<status, ended, data, client, account, wrapup, files, world, slot>>

\* findCurrentDownloadWaiter
CurrentWaiter(x, pinned) == CurrentRequest(x) /\ (pinned => Registered(x) /\ x \in linked)

\* updateDownloadProgress, which the loop does not call for another client
UpdateDownloadProgress ==
  /\ At("updateProgress")
  /\ LET x == Head(calls).waiter
         pinned == Head(calls).pinned
     IN  IF client = "up" /\ CurrentWaiter(x, pinned) /\ (pinned => ~ Cancelled(x))
           THEN /\ received' = received \cup {x}
                /\ IF pinned
                     THEN Calling((IF x \notin received /\ status[x] # "started"
                                     THEN StartXfer(x) ELSE <<>>)
                                  \o <<Do("showProgress", x)>>)
                     ELSE Returning
           ELSE Returning /\ UNCHANGED received
  /\ UNCHANGED <<xferVars, client, request, registry, linked, timer, wrapup, files, world, slot>>

ShowProgress ==
  /\ At("showProgress")
  /\ LET x == Head(calls).x IN
       Calling(IF client = "up" /\ CurrentWaiter(x, TRUE) /\ ~ Cancelled(x)
                 THEN <<Do("handlers", x)>> ELSE <<>>)
  /\ UNCHANGED <<xferVars, client, account, wrapup, files, world, slot>>

-------------------------------------------------------------------------------
\* Callbacks of libpurple, and the end of the client.

\* Mutant: TDLib's download is cancelled though another request needs the file.
CancelForAll(x) ==
  IF x \in linked /\ x \in request
    THEN /\ DropRequests({x})
         /\ linked' = linked \ {x}
         /\ slot' = [slot EXCEPT ![fileOf[x]] = IF @ = "running" THEN "cancelled" ELSE @]
    ELSE UNCHANGED <<request, temp, linked, slot>>

\* cancelDownload: TDLib's download goes on as long as another request needs the file.
CancelRequest(x) ==
  IF x \in linked /\ x \in request
    THEN /\ DropRequests({x})
         /\ linked' = linked \ {x}
         /\ slot' = [slot EXCEPT ![fileOf[x]] =
                       IF RequestsOf(fileOf[x]) = {x} /\ @ = "running" THEN "cancelled" ELSE @]
    ELSE UNCHANGED <<request, temp, linked, slot>>

CancelFunction ==
  /\ At("cancelFunction")
  /\ LET x == Head(calls).x IN
       /\ data' = [data EXCEPT ![x] = FALSE]
       /\ dest' = dest \ {x}
       /\ registry' = Without(registry, x)
       /\ IF data[x] /\ Registered(x) THEN CancelRequest(x)
                                      ELSE UNCHANGED <<request, temp, linked, slot>>
  /\ Returning
  /\ UNCHANGED <<refs, status, ended, client, timer, received, wrapup, world>>

EndFunction ==
  /\ At("endFunction")
  /\ dest' = dest \ {Head(calls).x}
  /\ Returning
  /\ UNCHANGED <<xferVars, client, account, wrapup, temp, world, slot>>

\* tgprpl_close, by the user or by a handler
Disconnect ==
  /\ Outside /\ client = "up"
  /\ client' = "closing"
  /\ calls' = <<[do |-> "closeTransfers"], [do |-> "destroyClient"]>> \o calls
  /\ UNCHANGED <<xferVars, account, wrapup, files, world, slot>>

\* Mutant: the transfers are forgotten, not cancelled.
ForgetTransfers ==
  /\ At("closeTransfers")
  /\ registry' = <<>> /\ linked' = {}
  /\ Returning
  /\ UNCHANGED <<xferVars, client, request, timer, received, wrapup, files, world, slot>>

\* ~PurpleTdClient; the registry holds no reference of a download
CloseTransfers ==
  /\ At("closeTransfers")
  /\ registry' = <<>> /\ linked' = {}
  /\ Calling(ForEach(registry, LAMBDA x : <<Do("cancelUnlessOver", x)>>))
  /\ UNCHANGED <<xferVars, client, request, timer, received, wrapup, files, world, slot>>

DestroyClient ==
  /\ At("destroyClient")
  /\ client' = "down"
  /\ DropRequests(request)
  /\ timer' = {} /\ received' = {}
  /\ Returning
  /\ UNCHANGED <<xferVars, registry, linked, wrapup, dest, world, slot>>

-------------------------------------------------------------------------------
Libpurple == LibpurpleSteps /\ UNCHANGED <<client, account, wrapup, files, world, slot>>

Next ==
  \/ Libpurple
  \/ \E x \in Standard :
       \/ RequestStandard(x) \/ AcceptStandard(x)
       \/ StandardArrives(x) \/ \E complete \in BOOLEAN : StandardFails(x, complete)
       \/ WrapupEnds(x) \/ WrapupCannotRead(x) \/ WrapupCannotWrite(x)
  \/ \E x \in Inline :
       \/ DownloadInline(x) \/ TimerFires(x) \/ Replaced(x)
       \/ \E complete \in BOOLEAN : InlineAnswered(x, complete)
  \/ \E f \in Files : FileUpdate(f)
  \/ Start \/ Open \/ OpenFails \/ CancelRemote \/ CancelIfOpen \/ Complete \/ EndDownload \/ DestroyWrapup
  \/ ProgressAccepted \/ ProgressStarted \/ MessageReady
  \/ UpdateDownloadProgress \/ ShowProgress
  \/ CancelFunction \/ EndFunction \/ Disconnect \/ CloseTransfers \/ DestroyClient

Spec == Init /\ [][Next]_vars

-------------------------------------------------------------------------------
\* Properties.

\* The statement that runs next never uses a freed transfer, the registry and the idle
\* sources never refer to one, and a transfer keeps a pointer to the account only while
\* there is one: "Transfer events can synchronously cancel the transfer or disconnect
\* the account."
NothingDangles ==
  /\ calls # <<>> /\ Uses(Head(calls)) /\ Head(calls).do # "messageReady" =>
       refs[Head(calls).x] > 0
  /\ \A x \in Xfers : Registered(x) \/ x \in wrapup => refs[x] > 0
  /\ client = "down" => \A x \in Xfers : ~ data[x]

\* The state is well formed: TDLib's download of a file is not cancelled under a request
\* that waits for it, and at rest TDLib downloads no file that no request waits for.
SlotsFollowRequests ==
  /\ TypeOK
  /\ client = "up" => \A x \in request : slot[fileOf[x]] # "cancelled"
  /\ client = "up" /\ calls = <<>> =>
       \A f \in Files : slot[f] = "running" => RequestsOf(f) # {}

\* At rest every temporary file has a request that will remove it, and the destination of
\* an inline download is closed once its transfer is over.
InlineFilesCleaned ==
  calls = <<>> => \A x \in Inline :
    /\ temp[x] \in {"nobody", "request"}
    /\ temp[x] = "request" => x \in request
    /\ x \in dest => ~ ended[x]
================================================================================
