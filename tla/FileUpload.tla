------------------------------ MODULE FileUpload ------------------------------
(***************************************************************************)
(* Files sent from libpurple to Telegram (file-transfer.cpp, the upload    *)
(* part of td-client.cpp and tdlib-purple.cpp, the transfer registry and   *)
(* the requests of account-data.cpp). A transfer asks for a private chat   *)
(* if there is none, asks TDLib to upload the file, waits for its updates  *)
(* in the registry and, when the file is there, is sent as a message.      *)
(*                                                                         *)
(* TDLib has one upload slot for each file, which transfers of the same    *)
(* file share; slot is the state of that slot in TDLib.                    *)
(***************************************************************************)
EXTENDS PurpleXfer

CONSTANTS
  Files,    \* file identifiers of TDLib
  Targets   \* chat targets of interest: see AllTargets

AllTargets == {"plain", "general", "topic"}
ASSUME TargetsAssumption == Targets \subseteq AllTargets

VARIABLES
  fileOf,    \* the file of each transfer, as TDLib identifies it
  target,    \* the chat target the transfer was made for
  client,    \* PurpleTdClient: up, closing (in its destructor) or down
  requests,  \* m_requests: those of uploads, in order
  registry,  \* m_fileTransfers: uploads, in order
  deferred,  \* m_deferredUploadCancels
  slot,      \* TDLib's upload slots
  sentTo     \* where sendMessage sent the file of each transfer

upload == <<fileOf, target>>
account == <<client, requests, registry, deferred>>
vars == <<xferVars, calls, upload, account, slot, sentTo>>

Requests == [kind : {"createPrivateChat", "upload"}, x : Xfers]
NotSent == "nowhere"

TypeOK ==
  /\ XferTypeOK
  /\ fileOf \in [Xfers -> Files] /\ target \in [Xfers -> AllTargets]
  /\ client \in {"up", "closing", "down"}
  /\ requests \in Seq(Requests) /\ registry \in Seq(Xfers)
  /\ deferred \subseteq Files
  /\ slot \in [Files -> {"idle", "running", "complete", "cancelled"}]
  /\ sentTo \in [Xfers -> AllTargets \cup {NotSent}]

Init ==
  /\ XferInit
  /\ fileOf \in [Xfers -> Files] /\ target \in [Xfers -> Targets]
  /\ client = "up"
  /\ requests = <<>> /\ registry = <<>> /\ deferred = {}
  /\ slot = [f \in Files |-> "idle"]
  /\ sentTo = [x \in Xfers |-> NotSent]

Request(kind, x) == [kind |-> kind, x |-> x]
Pending(x) == \E i \in DOMAIN requests : requests[i].x = x

\* The elements of a sequence that are in a set, in their order
Only(s, S) ==
  LET kept[n \in 0 .. Len(s)] ==  \* of the first n
        IF n = 0 THEN <<>>
        ELSE IF s[n] \in S THEN Append(kept[n - 1], s[n]) ELSE kept[n - 1]
  IN  kept[Len(s)]

Without(s, e) == Only(s, ToSet(s) \ {e})

-------------------------------------------------------------------------------
\* Cancelling TDLib's uploads. Each takes and gives [deferred, cancel], where
\* cancel are the files cancelPreliminaryUploadFile is sent for.

HasFileTransfer(reg, f) == \E i \in DOMAIN reg : fileOf[reg[i]] = f
HasPendingUploadRequests(reqs) == \E i \in DOMAIN reqs : reqs[i].kind = "upload"

\* Mutant: requests still to be answered are not looked at.
DeferNothing(f, waiting, reqs, reg) ==
  [deferred |-> waiting \ {f},
   cancel |-> IF HasFileTransfer(reg, f) THEN {} ELSE {f}]

DeferOrCancelUpload(f, waiting, reqs, reg) ==
  IF HasFileTransfer(reg, f) THEN [deferred |-> waiting \ {f}, cancel |-> {}]
  ELSE IF HasPendingUploadRequests(reqs)
    THEN [deferred |-> waiting \cup {f}, cancel |-> {}]
    ELSE [deferred |-> waiting \ {f}, cancel |-> {f}]

FlushDeferredUploadCancels(waiting, reqs, reg) ==
  IF HasPendingUploadRequests(reqs)
    THEN [deferred |-> waiting, cancel |-> {}]
    ELSE [deferred |-> {}, cancel |-> {f \in waiting : ~ HasFileTransfer(reg, f)}]

\* cancelPreliminaryUploadFile reaches TDLib.
CancelSlots(slots, files) ==
  [f \in Files |-> IF f \in files /\ slots[f] = "running" THEN "cancelled" ELSE slots[f]]

\* preliminaryUploadFile reaches TDLib.
StartSlot(slots, f) ==
  [slots EXCEPT ![f] = IF @ \in {"idle", "cancelled"} THEN "running" ELSE @]

-------------------------------------------------------------------------------
\* The user sends a file: newUploadTransfer, then startUpload and sendFileToChat
\* as the transfer's init function. One reference is libpurple's.

NewTransfer(x, references) ==
  /\ calls = <<>> /\ client = "up" /\ status[x] = "none"
  /\ status' = [status EXCEPT ![x] = "accepted"]
  /\ refs' = [refs EXCEPT ![x] = references]
  /\ data' = [data EXCEPT ![x] = TRUE]
  /\ UNCHANGED <<ended, upload, client, registry, deferred, sentTo>>

SendToChat(x) ==
  /\ NewTransfer(x, 2)
  /\ requests' = Append(requests, Request("upload", x))
  /\ slot' = StartSlot(slot, fileOf[x])
  /\ UNCHANGED calls

SendToUser(x) ==
  /\ NewTransfer(x, 2)
  /\ requests' = Append(requests, Request("createPrivateChat", x))
  /\ UNCHANGED <<slot, calls>>

SendToNobody(x) ==
  /\ NewTransfer(x, 1)
  /\ calls' = CancelXfer(x)
  /\ UNCHANGED <<requests, slot>>

-------------------------------------------------------------------------------
\* TDLib's answers.

Answered(kind, x) ==
  /\ calls = <<>> /\ client = "up"
  /\ Request(kind, x) \in ToSet(requests)

\* sendMessageCreatePrivateChatResponse with a chat: startDocumentUpload
PrivateChatCreated(x) ==
  /\ Answered("createPrivateChat", x) /\ ~ Cancelled(x)
  /\ requests' = Append(Without(requests, Request("createPrivateChat", x)),
                        Request("upload", x))
  /\ refs' = [refs EXCEPT ![x] = @ + 1]
  /\ slot' = StartSlot(slot, fileOf[x])
  /\ calls' = <<Do("unref", x)>>
  /\ UNCHANGED <<status, ended, data, upload, client, registry, deferred, sentTo>>

\* ... after the user cancelled the transfer
PrivateChatNotNeeded(x) ==
  /\ Answered("createPrivateChat", x) /\ Cancelled(x)
  /\ requests' = Without(requests, Request("createPrivateChat", x))
  /\ calls' = <<Do("unref", x)>>
  /\ UNCHANGED <<xferVars, upload, client, registry, deferred, slot, sentTo>>

\* purple_xfer_error, then cancel what is not cancelled
FailXfer(x) == <<Do("errorHandlers", x), Do("cancelUnlessOver", x), Do("unref", x)>>

\* ... without a chat
PrivateChatRefused(x) ==
  /\ Answered("createPrivateChat", x) /\ ~ Cancelled(x)
  /\ requests' = Without(requests, Request("createPrivateChat", x))
  /\ calls' = FailXfer(x)
  /\ UNCHANGED <<xferVars, upload, client, registry, deferred, slot, sentTo>>

\* What an answer or an update says of a file, given its slot.
FileSays(f) ==
  CASE slot[f] = "running"  -> {"active", "complete", "neither", "noRemote"}
    [] slot[f] = "complete" -> {"complete", "noRemote"}
    [] OTHER                -> {"neither", "noRemote"}

SlotAfter(f, says) ==
  [slot EXCEPT ![f] = CASE says = "complete" -> "complete"
                        [] says = "noRemote" -> "idle"
                        [] OTHER -> @]

UpdateProgress(f, says) == [do |-> "updateProgress", f |-> f, says |-> says]

\* uploadResponse with a file for a transfer that is alive: its registration,
\* then startDocumentUploadProgress
UploadAccepted(x, says) ==
  LET f == fileOf[x]
      reqs == Without(requests, Request("upload", x))
      flushed == FlushDeferredUploadCancels(deferred \ {f}, reqs, registry)
  IN  /\ Answered("upload", x) /\ ~ Cancelled(x) /\ says \in FileSays(f)
      /\ requests' = reqs
      /\ deferred' = flushed.deferred
      /\ slot' = CancelSlots(SlotAfter(f, says), flushed.cancel)
      /\ registry' = Append(registry, x)
      /\ IF says = "active"
           THEN /\ refs' = [refs EXCEPT ![x] = @ + 1]
                /\ calls' = <<Do("report", x), Do("unref", x)>>
           ELSE /\ UNCHANGED refs
                /\ calls' = <<UpdateProgress(f, says)>>
      /\ UNCHANGED <<status, ended, data, upload, client, sentTo>>

\* ... for a transfer that was cancelled meanwhile
UploadNotNeeded(x, says) ==
  LET f == fileOf[x]
      reqs == Without(requests, Request("upload", x))
      given == DeferOrCancelUpload(f, deferred, reqs, registry)
      flushed == FlushDeferredUploadCancels(given.deferred, reqs, registry)
  IN  /\ Answered("upload", x) /\ Cancelled(x) /\ says \in FileSays(f)
      /\ requests' = reqs
      /\ deferred' = flushed.deferred
      /\ slot' = CancelSlots(SlotAfter(f, says), given.cancel \cup flushed.cancel)
      /\ calls' = <<Do("unref", x)>>
      /\ UNCHANGED <<xferVars, upload, client, registry, sentTo>>

\* Does another transfer's request or registration keep TDLib at the file?
SharedWithAnother(x) ==
  \E y \in Xfers \ {x} : /\ fileOf[y] = fileOf[x]
                         /\ Request("upload", y) \in ToSet(requests)
                            \/ y \in ToSet(registry)

\* uploadResponse with an error, uploadResponseError
UploadFailed(x) ==
  LET reqs == Without(requests, Request("upload", x))
      flushed == FlushDeferredUploadCancels(deferred, reqs, registry)
      failed == IF SharedWithAnother(x) THEN slot ELSE SlotAfter(fileOf[x], "noRemote")
  IN  /\ Answered("upload", x)
      /\ requests' = reqs
      /\ deferred' = flushed.deferred
      /\ slot' = CancelSlots(failed, flushed.cancel)
      /\ calls' = FailXfer(x)
      /\ UNCHANGED <<xferVars, upload, client, registry, sentTo>>

\* updateFile
FileUpdate(f, says) ==
  /\ calls = <<>> /\ client = "up" /\ says \in FileSays(f)
  /\ slot' = SlotAfter(f, says)
  /\ calls' = <<UpdateProgress(f, says)>>
  /\ UNCHANGED <<xferVars, upload, account, sentTo>>

-------------------------------------------------------------------------------
\* Progress and the end.

\* reportDocumentUploadProgress, also the loop's test of the data
Report ==
  /\ At("report")
  /\ LET x == Head(calls).x
         started == status[x] = "started"
     IN  IF ~ data[x] THEN Returning /\ UNCHANGED status
         ELSE /\ status' = [status EXCEPT ![x] = "started"]
              /\ Calling((IF started THEN <<>> ELSE <<Do("handlers", x)>>)
                         \o <<Do("showProgress", x)>>)
  /\ UNCHANGED <<refs, ended, data, upload, account, slot, sentTo>>

ShowProgress ==
  /\ At("showProgress")
  /\ LET x == Head(calls).x IN
       Calling(IF data[x] /\ ~ Cancelled(x) THEN <<Do("handlers", x)>> ELSE <<>>)
  /\ UNCHANGED <<xferVars, upload, account, slot, sentTo>>

\* A chat as resolveDocumentUploadTarget sees it.
Chats == {"unknown", "private", "group", "left", "forum", "forumWithoutTopic"}

ResolveTarget(t, chat) ==
  CASE t = "topic"   -> IF chat = "forum" THEN "topic" ELSE NotSent
    [] t = "general" -> CASE chat \in {"forum", "forumWithoutTopic"} -> "general"
                          [] chat = "group" -> "plain"
                          [] OTHER -> NotSent
    [] OTHER         -> CASE chat \in {"forum", "forumWithoutTopic"} -> "general"
                          [] chat \in {"private", "group"} -> "plain"
                          [] OTHER -> NotSent

\* finishPurpleUpload
FinishUpload(x, sent) ==
  IF sent THEN <<Do("complete", x), Do("endUpload", x), Do("unref", x)>>
          ELSE <<Do("cancelUnlessOver", x), Do("unref", x)>>

Uploads(f) == Only(registry, {x \in Xfers : fileOf[x] = f})
OtherUploads(f) == Only(registry, {x \in Xfers : fileOf[x] # f})

\* updateFileTransferProgress: no remote file
CancelUploads(f) ==
  /\ registry' = OtherUploads(f)
  /\ Calling(ForEach(Uploads(f), LAMBDA x : FinishUpload(x, FALSE)))
  /\ UNCHANGED <<refs, sentTo>>

\* Mutant: the transfers are not pinned while their handlers run.
ReportUploadsUnpinned(f) ==
  /\ Calling(ForEach(Uploads(f), LAMBDA x : <<Do("report", x)>>))
  /\ UNCHANGED <<refs, registry, sentTo>>

\* ... uploading: every transfer is pinned before the first handler runs
ReportUploads(f) ==
  /\ refs' = [x \in Xfers |-> IF x \in ToSet(Uploads(f)) THEN refs[x] + 1 ELSE refs[x]]
  /\ Calling(ForEach(Uploads(f), LAMBDA x : <<Do("report", x)>>)
             \o ForEach(Uploads(f), LAMBDA x : <<Do("unref", x)>>))
  /\ UNCHANGED <<registry, sentTo>>

\* ... uploaded: finishDocumentUploads sends all of them before the first handler runs
FinishUploads(f) ==
  \E chat \in Chats :
    LET to == [x \in ToSet(Uploads(f)) |-> ResolveTarget(target[x], chat)] IN
      /\ registry' = OtherUploads(f)
      /\ sentTo' = [x \in Xfers |-> IF x \in DOMAIN to THEN to[x] ELSE sentTo[x]]
      /\ Calling(ForEach(Uploads(f), LAMBDA x : FinishUpload(x, to[x] # NotSent)))
      /\ UNCHANGED refs

UpdateFileTransferProgress ==
  /\ At("updateProgress")
  /\ LET f == Head(calls).f
         says == Head(calls).says
     IN  CASE Uploads(f) = <<>> -> Returning /\ UNCHANGED <<refs, registry, sentTo>>
           [] Uploads(f) # <<>> /\ says = "noRemote" -> CancelUploads(f)
           [] Uploads(f) # <<>> /\ says = "active" -> ReportUploads(f)
           [] Uploads(f) # <<>> /\ says = "complete" -> FinishUploads(f)
           [] OTHER -> Returning /\ UNCHANGED <<refs, registry, sentTo>>
  /\ UNCHANGED <<status, ended, data, upload, client, requests, deferred, slot>>

\* finishPurpleUpload up to purple_xfer_set_completed
Complete ==
  /\ At("complete")
  /\ LET x == Head(calls).x IN
       IF ~ Cancelled(x) /\ data[x]
         THEN /\ status' = [status EXCEPT ![x] = "done"]
              /\ Calling(<<Do("handlers", x)>>)
         ELSE Returning /\ UNCHANGED status
  /\ UNCHANGED <<refs, ended, data, upload, account, slot, sentTo>>

\* ... and the guarded purple_xfer_end
EndUpload ==
  /\ At("endUpload")
  /\ LET x == Head(calls).x IN
       IF ~ Cancelled(x) /\ data[x]
         THEN /\ refs' = [refs EXCEPT ![x] = @ + 1]
              /\ Calling(EndXfer(x) \o <<Do("unrefUnlessCancelled", x)>>)
         ELSE Returning /\ UNCHANGED refs
  /\ UNCHANGED <<status, ended, data, upload, account, slot, sentTo>>

-------------------------------------------------------------------------------
\* Callbacks of libpurple, and the end of the client.

\* Mutant: a cancelled transfer stays in the registry.
CancelKeepsTransfer ==
  /\ At("cancelFunction")
  /\ data' = [data EXCEPT ![Head(calls).x] = FALSE]
  /\ Returning
  /\ UNCHANGED <<refs, status, ended, upload, account, slot, sentTo>>

\* Mutant: the reference is dropped whether the transfer is registered or not.
CancelAlwaysUnrefs ==
  /\ At("cancelFunction")
  /\ data' = [data EXCEPT ![Head(calls).x] = FALSE]
  /\ registry' = Without(registry, Head(calls).x)
  /\ Calling(<<Do("unref", Head(calls).x)>>)
  /\ UNCHANGED <<refs, status, ended, upload, client, requests, deferred, slot, sentTo>>

\* cancelUpload of tdlib-purple.cpp; getTdClient finds no client once it closes.
CancelFunction ==
  /\ At("cancelFunction")
  /\ LET x == Head(calls).x
         f == fileOf[x]
         reg == Without(registry, x)
         given == DeferOrCancelUpload(f, deferred, requests, reg)
     IN  /\ data' = [data EXCEPT ![x] = FALSE]
         /\ IF data[x] /\ client = "up" /\ x \in ToSet(registry)
              THEN /\ registry' = reg
                   /\ deferred' = given.deferred
                   /\ slot' = CancelSlots(slot, given.cancel)
                   /\ Calling(<<Do("unref", x)>>)
              ELSE Returning /\ UNCHANGED <<registry, deferred, slot>>
  /\ UNCHANGED <<refs, status, ended, upload, client, requests, sentTo>>

\* endUpload of tdlib-purple.cpp
EndFunction ==
  /\ At("endFunction")
  /\ data' = [data EXCEPT ![Head(calls).x] = FALSE]
  /\ Returning
  /\ UNCHANGED <<refs, status, ended, upload, account, slot, sentTo>>

\* tgprpl_close, by the user or by a handler
Disconnect ==
  /\ Outside /\ client = "up"
  /\ client' = "closing"
  /\ calls' = <<[do |-> "closeTransfers"], [do |-> "closeRequests"]>> \o calls
  /\ UNCHANGED <<xferVars, upload, requests, registry, deferred, slot, sentTo>>

\* ~PurpleTdClient: cancel what is registered, then what waits for an answer
DropUpload(x) == <<Do("cancelUnlessOver", x), Do("unref", x)>>

CloseTransfers ==
  /\ At("closeTransfers")
  /\ registry' = <<>>
  /\ Calling(ForEach(registry, DropUpload))
  /\ UNCHANGED <<xferVars, upload, client, requests, deferred, slot, sentTo>>

CloseRequests ==
  /\ At("closeRequests")
  /\ requests' = <<>>
  /\ client' = "down"
  /\ Calling(ForEach([i \in DOMAIN requests |-> requests[i].x], DropUpload))
  /\ UNCHANGED <<xferVars, upload, registry, deferred, slot, sentTo>>

-------------------------------------------------------------------------------
Libpurple == LibpurpleSteps /\ UNCHANGED <<upload, account, slot, sentTo>>

Next ==
  \/ Libpurple
  \/ \E x \in Xfers :
       \/ SendToChat(x) \/ SendToUser(x) \/ SendToNobody(x)
       \/ PrivateChatCreated(x) \/ PrivateChatNotNeeded(x) \/ PrivateChatRefused(x)
       \/ \E says \in FileSays(fileOf[x]) : UploadAccepted(x, says) \/ UploadNotNeeded(x, says)
       \/ UploadFailed(x)
  \/ \E f \in Files : \E says \in FileSays(f) : FileUpdate(f, says)
  \/ Report \/ ShowProgress \/ UpdateFileTransferProgress \/ Complete \/ EndUpload
  \/ CancelFunction \/ EndFunction
  \/ Disconnect \/ CloseTransfers \/ CloseRequests

Spec == Init /\ [][Next]_vars

-------------------------------------------------------------------------------
\* Properties.

\* The state is well formed, and every reference of a transfer accounted for: libpurple's,
\* one for the entry in the registry, one for each request and one for each pin on the
\* stack. One too many is never given back; one too few and a handler frees what the
\* statement after it uses.
RefsAccounted ==
  /\ TypeOK
  /\ \A x \in Xfers :
       refs[x] = LibpurpleHolds(x)
                 + Occurrences(registry, {x})
                 + Occurrences(requests, {r \in Requests : r.x = x})
  /\ calls # <<>> /\ Uses(Head(calls)) => refs[Head(calls).x] > 0

\* Transfers of one file share TDLib's slot. It is not cancelled under a transfer that is
\* registered, or whose request TDLib has yet to answer; and when none is left, and no
\* answer is open that may need it, TDLib does not go on uploading.
SlotsFollowTransfers ==
  client = "up" =>
    /\ \A x \in Xfers :
         /\ x \in ToSet(registry) \/ Request("upload", x) \in ToSet(requests)
         /\ ~ Cancelled(x)
         => slot[fileOf[x]] # "cancelled"
    /\ calls = <<>> /\ ~ HasPendingUploadRequests(requests) =>
         \A f \in Files : slot[f] = "running" => HasFileTransfer(registry, f)

\* A file is sent at most once and not after the user cancelled it.
SentOnceIfWanted ==
  [][\A x \in Xfers : sentTo'[x] # sentTo[x] => sentTo[x] = NotSent /\ ~ Cancelled(x)]_vars
===============================================================================
