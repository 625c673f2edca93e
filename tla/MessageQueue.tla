----------------------------- MODULE MessageQueue -----------------------------
(***************************************************************************)
(* Incoming messages of one chat: the queue that keeps them in order       *)
(* (PendingMessageQueue in account-data.cpp) and the handlers that feed it *)
(* (receiving.cpp, file-transfer.cpp, td-client.cpp).                      *)
(*                                                                         *)
(* A message waits in the queue for the message it replies to, for its     *)
(* file, for its sticker to be converted, for the messages before it, and  *)
(* for the history missed while the account was offline.  Meanwhile it may *)
(* be edited or deleted, and the client may be closed.  All this is one    *)
(* thread, but writing to a conversation runs the user's plugins and may   *)
(* run the main loop, so every display is a call-out: the variable stack   *)
(* holds the displays under way and what their handlers still have to do,  *)
(* newest first.  Messages are numbered in the order Telegram has them.    *)
(*                                                                         *)
(* A chat that is a forum has topics, each with a conversation of its own. *)
(* A topic's message has no conversation before its first display returns, *)
(* and what is written of it before that, or once the conversation is      *)
(* closed, goes nowhere; the General topic is the forum's own room, to     *)
(* which everything else goes.  That a topic may lose its room altogether  *)
(* is ForumTopics' matter, not this module's.                              *)
(***************************************************************************)
EXTENDS Naturals, Sequences, SequencesExt, FiniteSetsExt

CONSTANTS
  MaxMessage,   \* bound: messages of the chat
  FirstLive,    \* those before it were missed, and are fetched as history
  Kinds,        \* what a message may contain
  Replies,      \* whether a message may be a reply
  InTopic,      \* the messages in topics of a forum; none if the chat is no forum
  MaxUpdates,   \* bound: edits and deletions
  MaxDepth      \* bound: displays nested in one another

ASSUME BoundsAssumption ==
  MaxMessage \in Nat /\ FirstLive \in 1 .. MaxMessage + 1 /\ MaxDepth \in Nat \ {0}

Messages == 1 .. MaxMessage

ASSUME KindsAssumption ==
  /\ Kinds \subseteq {"text", "file", "localFile", "bigFile", "sticker", "localSticker"}
  /\ Replies \subseteq BOOLEAN

ASSUME TopicsAssumption == InTopic \subseteq Messages

VARIABLES
  account,   \* the queue, the messages, the requests, and what was displayed
  stack      \* frames: displays under way, and what follows them

vars == <<account, stack>>

NoEvent == [m |-> 0, part |-> "none", version |-> 0, late |-> FALSE, reply |-> FALSE]

\* A handle of a message's content (PendingContentHandle).
NoHandle == [m |-> 0, inc |-> 0, rev |-> 0]

Frame(kind) ==
  [kind |-> kind, h |-> NoHandle, id |-> 0, reply |-> FALSE, version |-> 0,
   rest |-> <<>>, more |-> FALSE, ms |-> {}]

Absent ==
  [disp |-> "absent", inc |-> 1, rev |-> 1, kind |-> "text",
   version |-> 0,    \* edits its content has seen
   file |-> 0,       \* those that the file at hand, or its picture, has seen
   wantsReply |-> FALSE, replyDone |-> FALSE, reply |-> FALSE,
   complete |-> FALSE, timeout |-> FALSE, converted |-> FALSE, success |-> FALSE,
   forced |-> FALSE, ready |-> FALSE]

Init ==
  /\ stack = <<>>
  /\ account =
       [msg |-> [m \in Messages |-> Absent],
        exists |-> FALSE, ready |-> TRUE, entries |-> <<>>,   \* the ChatQueue
        gap |-> FirstLive > 1,       \* messages were missed
        history |-> FALSE,           \* getChatHistory is under way
        older |-> FirstLive - 1,     \* newest message history has yet to bring
        newer |-> FirstLive,         \* next message to be sent by somebody
        replies |-> {},              \* getMessage requests: message handles
        downloads |-> {},            \* DownloadRequests
        conversions |-> {},          \* StickerConversionThreads
        dialogs |-> {},              \* "Download file?" dialogs
        client |-> "open",
        located |-> {},              \* topics' messages that have a conversation
        updates |-> 0,               \* edits and deletions so far
        edits |-> [m \in Messages |-> 0],   \* history: edits so far
        deleted |-> {},              \* history: deleted messages
        overtaken |-> {},            \* history: edited before their first display
        shown |-> {},                \* history: what was displayed
        last |-> NoEvent]            \* history: what is being displayed

-----------------------------------------------------------------------------
(* Handles and requests *)

At(a, frames) == [account |-> a, stack |-> frames]

IsSticker(kind) == kind \in {"sticker", "localSticker"}

\* The file is on this computer already.
IsLocal(kind) == kind \in {"localFile", "localSticker"}

MessageHandle(a, m) == [m |-> m, inc |-> a.msg[m].inc]
ContentHandle(a, m) == [m |-> m, inc |-> a.msg[m].inc, rev |-> a.msg[m].rev]

\* findPendingMessage for a message handle: its incarnation is in the queue.
IsPending(a, h) == a.msg[h.m].inc = h.inc /\ a.msg[h.m].disp = "queued"

\* Mutant: any revision of the content counts as current.
CurrentWhateverRevision(a, h) ==
  a.msg[h.m].inc = h.inc /\ a.msg[h.m].disp # "cancelled"

\* currentAndNotCancelled; an earlier incarnation is always cancelled.
Current(a, h) ==
  a.msg[h.m].inc = h.inc /\ a.msg[h.m].rev = h.rev /\ a.msg[h.m].disp # "cancelled"

\* An identifier for a new request or thread.
FreshId(set) ==
  CHOOSE id \in 1 .. Cardinality(set) + 1 : \A x \in set : x.id # id

\* downloadFileInline, with its timer of one second.
StartDownload(a, h, reply) ==
  [a EXCEPT !.downloads = @ \cup {[id |-> FreshId(@), h |-> h, timer |-> TRUE,
                                   reply |-> reply, version |-> a.msg[h.m].version]}]

StartConversion(a, h, reply, version) ==
  [a EXCEPT !.conversions = @ \cup {[id |-> FreshId(@), h |-> h, reply |-> reply,
                                     version |-> version]}]

\* fetchReplyExtra
FetchReply(a, m) ==
  IF a.msg[m].wantsReply THEN [a EXCEPT !.replies = @ \cup {MessageHandle(a, m)}] ELSE a

\* fetchContentExtra
FetchContent(a, m) ==
  CASE a.msg[m].kind = "localSticker" ->
         StartConversion(a, ContentHandle(a, m), FALSE, a.msg[m].version)
    [] a.msg[m].kind \in {"file", "sticker"} ->
         StartDownload(a, ContentHandle(a, m), FALSE)
    [] OTHER -> a

\* Mutant: a message waits for its file however long it takes.
ReadyWhenComplete(x) ==
  /\ x.wantsReply => x.replyDone
  /\ x.kind = "file" => x.complete
  /\ IsSticker(x.kind) => x.complete /\ x.converted

\* isMessageReady
IsReady(x) ==
  /\ x.wantsReply => x.replyDone
  /\ x.kind = "file" => x.complete \/ x.timeout
  /\ IsSticker(x.kind) => IF x.complete THEN x.converted ELSE x.timeout

-----------------------------------------------------------------------------
(* Displays *)

Event(m, part, version, late, reply) ==
  [m |-> m, part |-> part, version |-> version, late |-> late, reply |-> reply]

\* Something is written to the conversation: a call-out.
Display(a, frames, event) ==
  At([a EXCEPT !.shown = @ \cup {[m |-> event.m, part |-> event.part,
                                  version |-> event.version, late |-> event.late]},
               !.last = event],
     <<[Frame("display") EXCEPT !.ms = {event.m}]>> \o frames)

\* A notice that says nothing of one message's content.
Notify(a, frames) == At(a, <<Frame("display")>> \o frames)

\* showDownloadedSticker for an animated sticker.
ShowSticker(a, frames, h, version, late, reply) ==
  Display(a, <<[Frame("convert") EXCEPT !.h = h, !.reply = reply, !.version = version]>>
               \o frames,
          Event(h.m, "notice", version, late, reply))

\* Mutant: a download that takes its time is started again.
AskOrDownloadAgain(a, h) ==
  IF a.msg[h.m].kind = "bigFile"
  THEN [a EXCEPT !.dialogs = @ \cup {[h |-> h, reply |-> a.msg[h.m].reply]}]
  ELSE StartDownload(a, h, a.msg[h.m].reply)

\* The end of showFileInline for a file that is not here: ask, wait, or download.
AskOrDownload(a, h) ==
  LET x == a.msg[h.m]
  IN CASE x.kind = "bigFile" ->
            [a EXCEPT !.dialogs = @ \cup {[h |-> h, reply |-> x.reply]}]
       [] x.kind # "bigFile" /\ x.timeout -> a
       [] OTHER -> StartDownload(a, h, x.reply)

\* showFileInline, once its notice is displayed.  A teardown displays what is
\* at hand and starts nothing.
ShowFile(a, frames, h) ==
  LET x == a.msg[h.m]
      show(part) == Display(a, frames, Event(h.m, part, x.file, FALSE, x.reply))
  IN CASE x.converted -> IF x.success THEN show("image") ELSE At(a, frames)
       [] ~x.converted /\ x.complete /\ ~IsSticker(x.kind) -> show("file")
       [] ~x.converted /\ x.complete /\ IsSticker(x.kind) /\ ~x.forced ->
            ShowSticker(a, frames, h, x.file, FALSE, x.reply)
       [] ~x.converted /\ ~x.complete /\ ~x.forced -> At(AskOrDownload(a, h), frames)
       [] OTHER -> At(a, frames)

\* showMessage: a text, or a file with a notice unless it is at hand.
ShowMessage(a, frames, h) ==
  LET x == a.msg[h.m]
  IN CASE x.kind = "text" ->
            Display(a, frames, Event(h.m, "text", x.version, FALSE, x.reply))
       [] x.kind # "text" /\ (IsSticker(x.kind) \/ x.complete) -> ShowFile(a, frames, h)
       [] OTHER -> Display(a, <<[Frame("file") EXCEPT !.h = h]>> \o frames,
                           Event(h.m, "notice", x.version, FALSE, x.reply))

\* showMessages
ShowMessages(a, frames, batch) ==
  At(a, IF batch = <<>> THEN frames
                        ELSE <<[Frame("batch") EXCEPT !.rest = batch]>> \o frames)

-----------------------------------------------------------------------------
(* The queue *)

\* Mutant: only the first message leaves the queue.
ReadyHead(a) ==
  IF a.entries # <<>> /\ a.msg[Head(a.entries)].ready THEN <<Head(a.entries)>> ELSE <<>>

\* The ready messages at the head of the queue.
ReadyPrefix(a) ==
  LET blocked == {i \in DOMAIN a.entries : ~a.msg[a.entries[i]].ready}
  IN IF blocked = {} THEN a.entries ELSE SubSeq(a.entries, 1, Min(blocked) - 1)

\* What is left of the queue without these messages.
Kept(entries, gone) ==
  LET kept[i \in 0 .. Len(entries)] ==
        IF i = 0 THEN <<>>
        ELSE IF entries[i] \in gone THEN kept[i - 1] ELSE Append(kept[i - 1], entries[i])
  IN kept[Len(entries)]

\* extractReadyMessages, and what its callers do next: display them.
Extract(a, frames) ==
  LET batch == ReadyPrefix(a)
      left == Kept(a.entries, ToSet(batch))
      released == [m \in Messages |->
        IF m \in ToSet(batch) THEN [a.msg[m] EXCEPT !.disp = "released"] ELSE a.msg[m]]
  IN ShowMessages([a EXCEPT !.msg = released, !.entries = left,
                            !.exists = left # <<>> \/ ~a.ready],
                  frames, [i \in DOMAIN batch |-> ContentHandle(a, batch[i])])

\* setMessageReady, and the display of what it released.
SetMessageReady(a, frames, m) ==
  LET b == [a EXCEPT !.msg[m].ready = TRUE]
  IN IF a.ready /\ Head(a.entries) = m THEN Extract(b, frames) ELSE At(b, frames)

\* checkMessageReady
CheckMessageReady(a, frames, m) ==
  IF a.msg[m].disp = "queued" /\ IsReady(a.msg[m])
  THEN SetMessageReady(a, frames, m)
  ELSE At(a, frames)

\* Mutant: history goes behind the messages that are there already.
Behind(a, m, action) == Append(a.entries, m)

\* addMessage
AddMessage(a, m, action) ==
  IF action = "append" THEN Append(a.entries, m) ELSE <<m>> \o a.entries

\* handleIncomingMessage, with addReadyMessage and addPendingMessage.
HandleIncoming(a, frames, m, kind, wantsReply, action) ==
  LET x == [Absent EXCEPT !.kind = kind, !.wantsReply = wantsReply,
                          !.complete = IsLocal(kind)]
      arrived(disp, ready) ==
        [a EXCEPT !.msg[m] = [x EXCEPT !.disp = disp, !.ready = ready],
                  !.entries = IF disp = "queued" THEN AddMessage(a, m, action) ELSE @,
                  !.exists = @ \/ disp = "queued"]
  IN CASE IsReady(x) /\ ~a.exists ->
            LET b == arrived("released", TRUE)
            IN ShowMessage(b, frames, ContentHandle(b, m))
       [] IsReady(x) /\ a.exists -> At(arrived("queued", TRUE), frames)
       [] OTHER -> At(FetchContent(FetchReply(arrived("queued", FALSE), m), m), frames)

\* Mutant: a chat without a queue gets none.
FetchHistoryNoQueue(a) ==
  IF a.ready THEN [a EXCEPT !.ready = FALSE, !.history = TRUE] ELSE a

\* fetchHistory, unless a fetch is under way.
FetchHistory(a) ==
  IF a.ready THEN [a EXCEPT !.exists = TRUE, !.ready = FALSE, !.history = TRUE] ELSE a

-----------------------------------------------------------------------------
(* Calls: from the main loop, or from one nested in a display *)

Displays == Cardinality({i \in DOMAIN stack : stack[i].kind = "display"})

CanCall ==
  /\ account.client # "gone"
  /\ stack # <<>> => Head(stack).kind = "display" /\ Displays < MaxDepth

Step(next) ==
  /\ account' = next.account
  /\ stack' = next.stack

Call(next) == CanCall /\ Step(next)

\* updateNewMessage: the first message after a gap fetches what was missed.
NewMessage ==
  /\ account.newer <= MaxMessage
  /\ \E kind \in Kinds, wantsReply \in Replies :
       LET a == IF account.gap THEN FetchHistory([account EXCEPT !.gap = FALSE])
                               ELSE account
       IN Call(HandleIncoming([a EXCEPT !.newer = @ + 1], stack, a.newer, kind,
                              wantsReply, "append"))

\* fetchHistoryResponse: the next page of history, newest message first, and
\* more of it to be fetched; an error is displayed and ends the history.
HistoryPage ==
  /\ account.history
  /\ \E size \in 0 .. account.older, more \in BOOLEAN :
       LET page == [i \in 1 .. size |-> account.older + 1 - i]
       IN /\ size = 0 => ~more
          /\ Call(At([account EXCEPT !.history = FALSE, !.older = @ - size],
                     <<[Frame("page") EXCEPT !.rest = page, !.more = more]>> \o stack))

HistoryFails ==
  /\ account.history
  /\ Call(Notify([account EXCEPT !.history = FALSE], <<Frame("page")>> \o stack))

\* findMessageResponse: the message replied to, an error, or the timeout.
ReplyArrives(h) ==
  /\ h \in account.replies
  /\ \E found \in BOOLEAN :
       LET a == [account EXCEPT !.replies = @ \ {h}]
           b == [a EXCEPT !.msg[h.m].replyDone = TRUE, !.msg[h.m].reply = found]
       IN Call(IF IsPending(a, h) THEN CheckMessageReady(b, stack, h.m)
                                  ELSE At(a, stack))

\* handleLongInlineDownload: after a second the message no longer waits.
DownloadTimer(d) ==
  /\ d \in account.downloads /\ d.timer
  /\ LET a == [account EXCEPT !.downloads = (@ \ {d}) \cup {[d EXCEPT !.timer = FALSE]}]
         m == d.h.m
     IN Call(IF Current(a, d.h) /\ IsPending(a, d.h)
             THEN CheckMessageReady([a EXCEPT !.msg[m].timeout = TRUE],
                    <<[Frame("moveReply") EXCEPT !.h = d.h, !.id = d.id]>> \o stack, m)
             ELSE At(a, stack))

\* inlineDownloadResponse
DownloadDone(d) ==
  /\ d \in account.downloads
  /\ LET a == [account EXCEPT !.downloads = @ \ {d}]
         m == d.h.m
         current == Current(a, d.h)
         failed == [a EXCEPT !.msg[m].timeout = TRUE]
         complete == [a EXCEPT !.msg[m].complete = TRUE, !.msg[m].file = d.version]
     IN \/ /\ ~current
           /\ Call(At(a, stack))
        \/ /\ current                                   \* an error
           /\ Call(IF IsPending(a, d.h) THEN CheckMessageReady(failed, stack, m)
                                        ELSE At(a, stack))
        \/ /\ current /\ IsPending(a, d.h)
           /\ Call(IF IsSticker(a.msg[m].kind)
                   THEN At(StartConversion(complete, d.h, FALSE, d.version), stack)
                   ELSE CheckMessageReady(complete, stack, m))
        \/ /\ current /\ ~IsPending(a, d.h)
           /\ Call(IF IsSticker(a.msg[m].kind)
                   THEN ShowSticker(a, stack, d.h, d.version, TRUE, d.reply)
                   ELSE Display(a, stack, Event(m, "file", d.version, TRUE, d.reply)))

\* onAnimatedStickerConverted
ConversionDone(c) ==
  /\ c \in account.conversions
  /\ \E success \in BOOLEAN :
       LET a == [account EXCEPT !.conversions = @ \ {c}]
           m == c.h.m
           converted == [a EXCEPT !.msg[m].converted = TRUE, !.msg[m].success = success,
                                  !.msg[m].file = c.version]
           error == <<[Frame("error") EXCEPT !.h = c.h, !.reply = c.reply,
                                             !.version = c.version]>> \o stack
       IN Call(CASE ~Current(a, c.h) \/ a.client # "open" -> At(a, stack)
                 [] Current(a, c.h) /\ a.client = "open" /\ IsPending(a, c.h) ->
                      CheckMessageReady(converted, IF success THEN stack ELSE error, m)
                 [] OTHER ->
                      Display(a, stack,
                        Event(m, IF success THEN "image" ELSE "error", c.version, TRUE,
                              c.reply)))

\* A thread that cannot be started, or whose conversion throws, reports nothing.
ConversionLost(c) ==
  /\ c \in account.conversions
  /\ Call(At([account EXCEPT !.conversions = @ \ {c}], stack))

\* startInlineDownload and ignoreInlineDownload: the dialog is answered.
Answer(g) ==
  /\ g \in account.dialogs
  /\ \E yes \in BOOLEAN :
       LET a == [account EXCEPT !.dialogs = @ \ {g}]
       IN Call(At(IF yes /\ a.client = "open" /\ Current(a, g.h)
                  THEN StartDownload(a, g.h, g.reply) ELSE a, stack))

\* Mutant: the new content keeps the revision of the old one.
ReplaceSameRevision(x, kind, version) ==
  [x EXCEPT !.kind = kind, !.version = version, !.file = version,
            !.complete = IsLocal(kind), !.timeout = FALSE, !.converted = FALSE, !.success = FALSE, !.ready = FALSE]

\* replaceMessageContent for a message in the queue.
ReplaceContent(x, kind, version) ==
  [x EXCEPT !.rev = @ + 1, !.kind = kind, !.version = version, !.file = version,
            !.complete = IsLocal(kind), !.timeout = FALSE,
            !.converted = FALSE, !.success = FALSE, !.ready = FALSE]

\* updateMessageContent: in the queue the content is replaced.  A message that has
\* left it becomes stale and the new content is displayed as an update, which of a
\* topic's message is written in its conversation or nowhere.
Edit(m) ==
  /\ account.updates < MaxUpdates
  /\ LET a == [account EXCEPT !.edits[m] = @ + 1, !.updates = @ + 1]
         stale == [a EXCEPT !.msg[m].rev = @ + 1]
         unwritten == [stale EXCEPT !.overtaken = @ \cup ({m} \ {e.m : e \in a.shown})]
         queued(kind) == [a EXCEPT !.msg[m] = ReplaceContent(@, kind, a.edits[m])]
     IN \/ /\ a.msg[m].disp = "released"
           /\ m \in InTopic => m \in a.located
           /\ Call(Display(stale, stack, Event(m, "update", a.edits[m], TRUE, FALSE)))
        \/ /\ a.msg[m].disp = "released"
           /\ m \in InTopic
           /\ Call(At(unwritten, stack))
        \/ /\ a.msg[m].disp = "queued"
           /\ \E kind \in Kinds :
                Call(IF IsReady(queued(kind).msg[m])
                     THEN SetMessageReady(queued(kind), stack, m)
                     ELSE At(FetchContent(queued(kind), m), stack))

\* Mutant: a message that has left the queue is not cancelled.
CancelQueuedOnly(a, ms) ==
  [m \in Messages |-> IF m \in ms /\ a.msg[m].disp = "queued"
                      THEN [a.msg[m] EXCEPT !.disp = "cancelled"] ELSE a.msg[m]]

Cancel(a, ms) ==
  [m \in Messages |-> IF m \in ms THEN [a.msg[m] EXCEPT !.disp = "cancelled"] ELSE a.msg[m]]

\* updateDeleteMessages: removeMessages, the display of what was waiting behind,
\* and what showDeletedMessageUpdate says.
Delete(ms) ==
  /\ \A m \in ms : account.msg[m].disp \in {"queued", "released"}
  /\ account.updates < MaxUpdates
  /\ LET removed == {m \in ms : account.msg[m].disp = "queued"}
         a == [account EXCEPT !.msg = Cancel(account, ms), !.deleted = @ \cup ms,
                 !.updates = @ + 1,
                 !.entries = Kept(@, removed)]
         notice == <<[Frame("deleted") EXCEPT !.ms = ms]>> \o stack
     IN Call(IF removed # {} /\ a.ready THEN Extract(a, notice) ELSE At(a, notice))

\* Mutant: a flushed message is displayed like any other.
FlushUnforced(x) ==
  [x EXCEPT !.inc = @ + 1, !.rev = 1, !.disp = "released", !.timeout = TRUE]

\* A fresh incarnation, displayed with what is at hand.
Flush(x) ==
  [x EXCEPT !.inc = @ + 1, !.rev = 1, !.disp = "released", !.forced = TRUE,
            !.timeout = TRUE]

\* Mutant: what is in the queue when the client is closed is not displayed.
CloseSilently ==
  /\ account.client = "open"
  /\ LET released == {m \in Messages : account.msg[m].disp = "released"}
         flushed == [m \in Messages |->
           IF account.msg[m].disp = "queued" THEN Flush(account.msg[m])
                                             ELSE Cancel(account, released)[m]]
     IN Call(At([account EXCEPT !.client = "closing", !.exists = FALSE, !.ready = TRUE,
                  !.entries = <<>>, !.msg = flushed],
                <<Frame("quit")>> \o stack))

\* ~PurpleTdClient: flush, and the display of what was in the queue.
Close ==
  /\ account.client = "open"
  /\ LET released == {m \in Messages : account.msg[m].disp = "released"}
         flushed == [m \in Messages |->
           IF account.msg[m].disp = "queued" THEN Flush(account.msg[m])
                                             ELSE Cancel(account, released)[m]]
         a == [account EXCEPT !.client = "closing", !.exists = FALSE, !.ready = TRUE,
                 !.entries = <<>>, !.msg = flushed]
     IN Call(ShowMessages(a, <<Frame("quit")>> \o stack,
               [i \in DOMAIN account.entries |-> ContentHandle(a, account.entries[i])]))

-----------------------------------------------------------------------------
(* What the handlers do when a display returns *)

Top(kind) == stack # <<>> /\ Head(stack).kind = kind

\* With rememberDisplayedMessage: what is written of the message goes there from now on.
DisplayReturns ==
  /\ Top("display")
  /\ Step(At([account EXCEPT !.last = NoEvent,
                              !.located = @ \cup (Head(stack).ms \cap InTopic)],
             Tail(stack)))

\* Mutant: the messages of a batch are displayed without a second look.
BatchUnchecked ==
  /\ Top("batch")
  /\ LET batch == Head(stack).rest
     IN Step(ShowMessage(account, (IF Len(batch) = 1 THEN <<>>
                           ELSE <<[Head(stack) EXCEPT !.rest = Tail(batch)]>>) \o Tail(stack),
                         Head(batch)))

\* The loop of showMessages: each message is looked at again.
Batch ==
  /\ Top("batch")
  /\ LET batch == Head(stack).rest
         left == (IF Len(batch) = 1 THEN <<>>
                  ELSE <<[Head(stack) EXCEPT !.rest = Tail(batch)]>>) \o Tail(stack)
     IN Step(IF Current(account, Head(batch)) THEN ShowMessage(account, left, Head(batch))
                                              ELSE At(account, left))

\* showFileInline after its notice.
File ==
  /\ Top("file")
  /\ Step(IF Current(account, Head(stack).h)
          THEN ShowFile(account, Tail(stack), Head(stack).h)
          ELSE At(account, Tail(stack)))

\* showDownloadedSticker after its notice.
Convert ==
  /\ Top("convert")
  /\ Step(At(IF Current(account, Head(stack).h)
             THEN StartConversion(account, Head(stack).h, Head(stack).reply,
                                  Head(stack).version)
             ELSE account, Tail(stack)))

\* The end of handleLongInlineDownload: the displayed message's reply goes to
\* the download.
MoveReply ==
  /\ Top("moveReply")
  /\ LET h == Head(stack).h
         moved == {IF d.id = Head(stack).id /\ d.h = h
                   THEN [d EXCEPT !.reply = account.msg[h.m].reply] ELSE d :
                     d \in account.downloads}
     IN Step(At(IF Current(account, h) /\ account.msg[h.m].disp = "released"
                THEN [account EXCEPT !.downloads = moved] ELSE account, Tail(stack)))

\* The end of onAnimatedStickerConverted: why there is no picture.
Error ==
  /\ Top("error")
  /\ LET h == Head(stack).h
     IN Step(IF Current(account, h)
             THEN Display(account, Tail(stack),
                          Event(h.m, "error", Head(stack).version, TRUE, Head(stack).reply))
             ELSE At(account, Tail(stack)))

\* As many notices to come
Notices(n, frames) ==
  IF n = 0 THEN frames ELSE <<[Frame("notices") EXCEPT !.id = n]>> \o frames

\* showDeletedMessageUpdate: one notice in a chat that is no forum.  In a forum, one in
\* each conversation that the messages have: its own room takes those of no topic, and a
\* topic's messages may have none.  A conversation that is closed gets no notice.
Deleted ==
  /\ Top("deleted")
  /\ LET ms == Head(stack).ms
         several == 0 .. Cardinality((ms \ InTopic) \cup (ms \cap account.located))
     IN \E n \in IF InTopic = {} THEN {1} ELSE several :
          Step(At(account, Notices(n, Tail(stack))))

\* The loop over the conversations.
Notice ==
  /\ Top("notices")
  /\ Step(Notify(account, Notices(Head(stack).id - 1, Tail(stack))))

\* The loop of fetchHistoryResponse, then the next request or setChatReady.
Page ==
  /\ Top("page")
  /\ LET page == Head(stack).rest
         left == <<[Head(stack) EXCEPT !.rest = Tail(page)]>> \o Tail(stack)
     IN \/ /\ page # <<>>
           /\ \E kind \in Kinds, wantsReply \in Replies :
                Step(HandleIncoming(account, left, Head(page), kind, wantsReply, "prepend"))
        \/ /\ page = <<>> /\ Head(stack).more
           /\ Step(At([account EXCEPT !.history = TRUE], Tail(stack)))
        \/ /\ page = <<>> /\ ~Head(stack).more
           /\ Step(IF account.exists THEN Extract([account EXCEPT !.ready = TRUE], Tail(stack))
                                     ELSE At(account, Tail(stack)))

\* The client is gone; the handlers it was closed in return.
Quit ==
  /\ Top("quit")
  /\ Step(At([account EXCEPT !.client = "gone", !.history = FALSE, !.replies = {},
                !.downloads = {}, !.conversions = {}, !.dialogs = {}], <<>>))

Continue ==
  \/ DisplayReturns \/ Batch \/ File \/ Convert \/ MoveReply \/ Error
  \/ Deleted \/ Notice \/ Page \/ Quit

Next ==
  \/ NewMessage \/ HistoryPage \/ HistoryFails
  \/ \E h \in account.replies : ReplyArrives(h)
  \/ \E d \in account.downloads : DownloadTimer(d) \/ DownloadDone(d)
  \/ \E c \in account.conversions : ConversionDone(c) \/ ConversionLost(c)
  \/ \E g \in account.dialogs : Answer(g)
  \/ \E m \in Messages : Edit(m)
  \/ \E ms \in SUBSET Messages \ {{}} : Delete(ms)
  \/ Close
  \/ Continue

Spec == Init /\ [][Next]_vars

\* Requests are answered: getMessage has a timeout, a download a timer; TDLib
\* answers getChatHistory.
FairSpec ==
  /\ Spec
  /\ WF_vars(Continue)
  /\ WF_vars(HistoryPage)
  /\ WF_vars(\E h \in account.replies : ReplyArrives(h))
  /\ WF_vars(\E d \in account.downloads : DownloadTimer(d))

-----------------------------------------------------------------------------
(* Properties *)

\* Every variable keeps its type.
TypeOK ==
  /\ ToSet(account.entries) = {m \in Messages : account.msg[m].disp = "queued"}
  /\ account.exists \/ (account.entries = <<>> /\ account.ready)
  /\ account.client \in {"open", "closing", "gone"}
  /\ \A m \in Messages : account.msg[m].inc \in 1 .. 2 /\ account.msg[m].disp \in
       {"absent", "queued", "released", "cancelled"}
  /\ \A d \in account.downloads : d.h.m \in Messages
  /\ Displays <= MaxDepth

\* A step that displays something of a message.
Displayed == account'.last \notin {account.last, NoEvent}

\* Messages are displayed in Telegram's order, the missed ones before those that
\* came while they were fetched, however replies, files and edits arrive.  Only
\* what was downloaded or converted after its turn is displayed later.  No content is
\* displayed twice, although a file can be displayed in its message's turn, when a
\* download ends, and at teardown.
DisplayedOnceInOrder ==
  [][Displayed =>
       LET last == account'.last IN
         /\ ~last.late => \A e \in account.shown : ~e.late => e.m <= last.m
         /\ last.part \in {"text", "file", "image", "update"} =>
              ~\E e \in account.shown :
                 /\ e.m = last.m /\ e.part = last.part /\ e.version = last.version]_vars

\* The contents that downloads, conversions and questions are for
Work(a) == {w.h : w \in a.downloads \cup a.conversions \cup a.dialogs}

\* Only a flush makes another incarnation of a message.
Flushed(h) == h.inc > 1

\* What is displayed of a message is its newest content, and nothing is once it
\* is deleted: not by a display under way, a late download or a teardown. The display of
\* what a closing client has flushed "must not start new work", whose results would come
\* too late.
NothingStale ==
  [][/\ Displayed =>
          LET e == account'.last
          IN e.version = account'.edits[e.m] /\ e.m \notin account'.deleted
     /\ \A h \in Work(account') \ Work(account) : ~Flushed(h)]_vars

\* The state is well formed, the queue holding what is to be held, and a message that
\* left it was displayed, once every display has returned: one that a flush released as
\* well, and whatever the displays of the same batch did.  Only two things lose one: a
\* display that closes the client, for flush cancels all that has been released, and an
\* edit of a topic's message that waits in a batch for its first display, for the message
\* is stale then and its update has no conversation to be written in.
NothingLost ==
  /\ TypeOK
  /\ stack = <<>> =>
       \A m \in Messages \ (account.deleted \cup account.overtaken) :
         account.msg[m].disp = "released" /\ ~IsSticker(account.msg[m].kind)
         => \E e \in account.shown : e.m = m

\* Every message leaves the queue, as long as TDLib answers for the history.
EveryMessageLeaves ==
  \A m \in Messages : account.msg[m].disp = "queued" ~> account.msg[m].disp # "queued"

\* "Animated stickers are not ready until converted": one whose file is there does
\* not leave the queue unconverted.
StickersWaitForConversion ==
  [][\A m \in Messages :
       (/\ account.msg[m].disp = "queued" /\ account'.msg[m].disp = "released"
        /\ account'.client = "open"
        /\ IsSticker(account'.msg[m].kind) /\ account'.msg[m].complete) =>
         account'.msg[m].converted]_vars

=============================================================================
