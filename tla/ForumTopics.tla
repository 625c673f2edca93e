------------------------------ MODULE ForumTopics ------------------------------
(***************************************************************************)
(* Forum topics (forum-topics.cpp and the part of td-client.cpp that joins *)
(* and projects them): lookups of one topic, which several joins may wait  *)
(* for, and room lists, which list the topics of every forum page by page. *)
(* What either finds goes into the metadata of account-data.cpp and on to  *)
(* the conversations.                                                      *)
(*                                                                         *)
(* Whatever libpurple is told may run handlers (the user interface, other  *)
(* plugins), which join or close topics, start or cancel room lists or     *)
(* disconnect, before the code goes on.                                    *)
(***************************************************************************)
EXTENDS TopicMetadata, CallStack, FiniteSetsExt

CONSTANTS
  Forums,    \* parent chats
  ForumOf,   \* the forum of each topic
  Cursors,   \* offsets of pages other than the first
  Bookmarked, LeftOpen,  \* topics with a bookmark, or a conversation, from before
  MaxJoins   \* bound: joins

ASSUME ForumsAssumption == ForumOf \in [Topics -> Forums]
ASSUME BeforeAssumption == Bookmarked \subseteq Topics /\ LeftOpen \subseteq Topics
ASSUME JoinsAssumption == MaxJoins \in Nat
ASSUME FiniteAssumption == IsFiniteSet(Topics) /\ IsFiniteSet(Forums) /\ IsFiniteSet(Lists)

FirstPage == "first"

VARIABLES
  up,            \* the client exists and is not shutting down
  parent,        \* what is known of each forum
  lookups,       \* m_topicLookups
  asked,         \* lookups TDLib has not answered, nor their timers ended
  lastTopicLookupSerial,
  joins,         \* m_pendingForumTopicJoins
  lastForumTopicJoinSerial,
  expected,      \* m_expectedChats
  active,        \* topics with active set
  conversation,  \* libpurple's conversation of each topic
  bookmarks,     \* topics in the buddy list
  ready,         \* m_roomListsReady
  sessions,      \* room lists
  inProgress     \* purple_roomlist_get_in_progress

lookupVars == <<lookups, asked, lastTopicLookupSerial>>
joinVars == <<joins, lastForumTopicJoinSerial, expected>>
roomVars == <<active, conversation, bookmarks>>
listVars == <<ready, sessions, inProgress>>
clientVars == <<up, parent>>
vars == <<metadata, calls, clientVars, lookupVars, joinVars, roomVars, listVars>>

NoLookup == [serial |-> 0, callbacks |-> <<>>]
NoJoin == [serial |-> 0, persistent |-> FALSE, live |-> 0]

TopicsOf(f) == {t \in Topics : ForumOf[t] = f}
Eligible(t) == parent[ForumOf[t]] = "eligible"

Session == [phase : {"new", "active", "over"}, started : BOOLEAN, forums : Seq(Forums),
            waiting : BOOLEAN, cursor : Cursors \cup {FirstPage},
            requested : SUBSET (Cursors \cup {FirstPage}),
            seen : SUBSET Topics, safe : BOOLEAN]

NewSession == [phase |-> "new", started |-> FALSE, forums |-> <<>>, waiting |-> FALSE,
               cursor |-> FirstPage, requested |-> {}, seen |-> {}, safe |-> TRUE]
Over == [NewSession EXCEPT !.phase = "over"]

TypeOK ==
  /\ MetadataTypeOK
  /\ up \in BOOLEAN
  /\ parent \in [Forums -> {"unknown", "eligible", "ineligible"}]
  /\ lookups \in [Topics -> [serial : Nat, callbacks : Seq(1 .. MaxJoins)]]
  /\ asked \subseteq Topics \X Nat
  /\ lastTopicLookupSerial \in Nat /\ lastForumTopicJoinSerial \in 0 .. MaxJoins
  /\ joins \in [Topics -> [serial : Nat, persistent : BOOLEAN, live : 0 .. MaxGeneration]]
  /\ expected \subseteq Topics /\ active \subseteq cached \ deleted /\ bookmarks \subseteq Topics
  /\ conversation \in [Topics -> {"none", "joined", "left"}]
  /\ ready \in BOOLEAN
  /\ sessions \in [Lists -> Session]
  /\ inProgress \subseteq Lists

\* When the account comes online again its conversations are there, but left.
Init ==
  /\ MetadataInit
  /\ calls = <<>> /\ up = TRUE
  /\ parent = [f \in Forums |-> "unknown"]
  /\ lookups = [t \in Topics |-> NoLookup] /\ asked = {} /\ lastTopicLookupSerial = 0
  /\ joins = [t \in Topics |-> NoJoin] /\ lastForumTopicJoinSerial = 0 /\ expected = {}
  /\ active = {} /\ bookmarks = Bookmarked
  /\ conversation = [t \in Topics |-> IF t \in LeftOpen THEN "left" ELSE "none"]
  /\ ready = FALSE /\ inProgress = {}
  /\ sessions = [l \in Lists |-> NewSession]

\* Statements. One with a field l is executed for the room list l, and only if the list
\* is still active: a call before it may have ended the list.
Handlers == <<[do |-> "handlers"]>>
Topic(what, t) == <<[do |-> what, t |-> t]>>
Forum(what, f) == <<[do |-> what, f |-> f]>>
List(what, l) == <<[do |-> what, l |-> l]>>
ListTopic(what, l, t) == <<[do |-> what, l |-> l, t |-> t]>>
EachTopic(what, ts) == LET One(t) == Topic(what, t) IN ForEach(SetToSeq(ts), One)

Active(l) == sessions[l].phase = "active"
ListOver == "l" \in DOMAIN Head(calls) /\ ~ Active(Head(calls).l)

\* The statement at the head starts, in a client that exists.
Doing(what) == At(what) /\ up /\ ~ ListOver /\ UNCHANGED clientVars
DoingTopic(what, t) == Doing(what) /\ Head(calls).t = t
DoingForum(what, f) == Doing(what) /\ Head(calls).f = f
DoingList(what, l) == Doing(what) /\ Head(calls).l = l

\* What handlers do before other handlers run these can do as well, and what they do
\* when nothing is left to execute can be done at rest.
Settled(statements) ==
  LET n == Len(statements)
      last[k \in 0 .. n] ==  \* of the last k statements
        IF k = 0 THEN <<>>
        ELSE LET s == statements[n - k + 1]
                 rest == last[k - 1]
             IN  IF s.do = "handlers" /\ (rest = <<>> \/ Head(rest).do = "handlers")
                   THEN rest ELSE <<s>> \o rest
  IN  last[n]

Call(statements) == calls' = Settled(statements \o Tail(calls))

\* The test for the end of the client that follows every call
ClientGone ==
  /\ calls # <<>> /\ ~ up /\ calls' = <<>>
  /\ UNCHANGED <<metadata, clientVars, lookupVars, joinVars, roomVars, listVars>>

\* The test for the end of the list
ListGone ==
  /\ calls # <<>> /\ up /\ ListOver /\ Returning
  /\ UNCHANGED <<metadata, clientVars, lookupVars, joinVars, roomVars, listVars>>

HandlersReturn ==
  /\ Doing("handlers") /\ Call(<<>>)
  /\ UNCHANGED <<metadata, lookupVars, joinVars, roomVars, listVars>>

-------------------------------------------------------------------------------
\* Lookups.

\* resolveForumTopic: callbacks are the serials of joins.
Resolve(t, callbacks) == <<[do |-> "resolve", t |-> t, callbacks |-> callbacks]>>
Tell(t, callbacks, available) ==
  [i \in DOMAIN callbacks |->
     [do |-> "joinResult", t |-> t, serial |-> callbacks[i], available |-> available]]
Complete(t, serial, available) ==
  <<[do |-> "complete", t |-> t, serial |-> serial, available |-> available]>>

Pending(t) == lookups[t] # NoLookup

\* Nothing newer than the pending request is known: its answer can still be used.
StillUseful(t) == Pending(t) /\ sourceGeneration[t] > metadataGeneration[t]

ResolveAtOnce(t) ==
  /\ DoingTopic("resolve", t)
  /\ ~ Eligible(t) \/ Available(t)
  /\ Call(Tell(t, Head(calls).callbacks, Eligible(t)))
  /\ UNCHANGED <<metadata, lookupVars, joinVars, roomVars, listVars>>

ResolveTogether(t) ==
  /\ DoingTopic("resolve", t)
  /\ Eligible(t) /\ ~ Available(t) /\ StillUseful(t)
  /\ lookups' = [lookups EXCEPT ![t].callbacks = @ \o Head(calls).callbacks]
  /\ Call(<<>>)
  /\ UNCHANGED <<metadata, asked, lastTopicLookupSerial, joinVars, roomVars, listVars>>

ResolveAnew(t) ==
  /\ DoingTopic("resolve", t)
  /\ Eligible(t) /\ ~ Available(t) /\ ~ StillUseful(t)
  /\ Start(t) /\ Place(t)
  /\ LET serial == lastTopicLookupSerial + 1 IN
       /\ lastTopicLookupSerial' = serial
       /\ asked' = asked \cup {<<t, serial>>}
       /\ lookups' = [lookups EXCEPT ![t] =
            [serial |-> serial, callbacks |-> lookups[t].callbacks \o Head(calls).callbacks]]
  /\ Call(<<>>)
  /\ UNCHANGED <<joinVars, roomVars, listVars>>

\* completeTopicLookup, unless the lookup has been completed or replaced meanwhile
CompleteTopicLookup(t) ==
  /\ DoingTopic("complete", t)
  /\ IF lookups[t].serial = Head(calls).serial
       THEN /\ IF Head(calls).available THEN UNCHANGED metadata
                                        ELSE Invalidate(t, sourceGeneration[t])
            /\ lookups' = [lookups EXCEPT ![t] = NoLookup]
            /\ Call(Tell(t, lookups[t].callbacks, Head(calls).available))
       ELSE UNCHANGED <<metadata, lookups>> /\ Call(<<>>)
  /\ UNCHANGED <<asked, lastTopicLookupSerial, joinVars, roomVars, listVars>>

Answered(t, serial) ==
  /\ AtRest /\ up /\ <<t, serial>> \in asked
  /\ asked' = asked \ {<<t, serial>>}
  /\ UNCHANGED <<clientVars, lookups, lastTopicLookupSerial, joinVars, roomVars, listVars>>

\* handleTopicLookup: the answer to a request that is not pending any more
LookupIgnored(t, serial) ==
  /\ Answered(t, serial) /\ lookups[t].serial # serial
  /\ UNCHANGED <<metadata, calls>>

\* ... a timeout, an error or an invalid answer
LookupFails(t, serial) ==
  /\ Answered(t, serial) /\ lookups[t].serial = serial
  /\ calls' = Complete(t, serial, FALSE)
  /\ UNCHANGED metadata

\* ... the topic
LookupSucceeds(t, serial) ==
  /\ Answered(t, serial) /\ lookups[t].serial = serial
  /\ Report(t, t)
  /\ LET applied == sourceGeneration[t] > metadataGeneration[t]
         available == Available(t)' /\ Eligible(t)
     IN  calls' = Complete(t, serial, available)
                  \o (IF available /\ applied THEN Topic("project", t) ELSE <<>>)

\* cancelForumTopicLookup
CancelForumTopicLookup(t) ==
  /\ DoingTopic("cancelLookup", t)
  /\ IF Pending(t) THEN Invalidate(t, sourceGeneration[t]) ELSE UNCHANGED metadata
  /\ lookups' = [lookups EXCEPT ![t] = NoLookup]
  /\ Call(<<>>)
  /\ UNCHANGED <<asked, lastTopicLookupSerial, joinVars, roomVars, listVars>>

\* completeTopicLookupIfAvailable
CompleteIfAvailable(t) ==
  /\ DoingTopic("completeIfAvailable", t)
  /\ Call(IF /\ Pending(t) /\ Available(t) /\ Eligible(t)
                /\ metadataGeneration[t] > sourceGeneration[t]
               THEN Complete(t, lookups[t].serial, TRUE) ELSE <<>>)
  /\ UNCHANGED <<metadata, lookupVars, joinVars, roomVars, listVars>>

-------------------------------------------------------------------------------
\* Joins.

\* Looking the topic up in the buddy list: setForumTopicSaved
Saved(t) ==
  IF t \in bookmarks THEN Place(t) /\ UNCHANGED <<generation, telegram, sources>>
                     ELSE UNCHANGED metadata

\* hasPersistentForumTopicJoin
HasPersistentForumTopicJoin(t) == t \in bookmarks \/ conversation[t] # "none"

\* isRejoin, or a bookmark
PersistentIntent(t) == t \in bookmarks \/ conversation[t] = "left"

\* joinForumTopic before anything is known of the forum
JoinEarly(t) ==
  /\ DoingTopic("join", t) /\ parent[ForumOf[t]] = "unknown"
  /\ expected' = IF PersistentIntent(t) THEN expected \cup {t} ELSE expected
  /\ Saved(t) /\ Call(<<>>)
  /\ UNCHANGED <<joins, lastForumTopicJoinSerial, lookupVars, roomVars, listVars>>

\* ... of what is no forum, or not one the account is in
JoinRefused(t) ==
  /\ DoingTopic("join", t) /\ parent[ForumOf[t]] = "ineligible"
  /\ Saved(t) /\ Call(<<>>)
  /\ UNCHANGED <<lookupVars, joinVars, roomVars, listVars>>

JoinForumTopic(t) ==
  /\ DoingTopic("join", t) /\ Eligible(t)
  /\ lastForumTopicJoinSerial < MaxJoins
  /\ LET serial == lastForumTopicJoinSerial + 1 IN
       /\ lastForumTopicJoinSerial' = serial
       /\ IF joins[t] = NoJoin
            THEN /\ joins' = [joins EXCEPT ![t] =
                      [serial |-> serial, persistent |-> PersistentIntent(t),
                       live |-> lastLiveMessageGeneration[t]]]
                 /\ Call(Resolve(t, <<serial>>))
            ELSE /\ joins' = [joins EXCEPT ![t].persistent = @ /\ PersistentIntent(t)]
                 /\ Call(<<>>)
  /\ Saved(t)
  /\ UNCHANGED <<expected, lookupVars, roomVars, listVars>>

IsOpen(t) == t \in active /\ conversation[t] = "joined"

\* satisfyForumTopicJoinIfOpen: nobody has to wait for a topic that is open.
SatisfyForumTopicJoinIfOpen(t) ==
  /\ IF IsOpen(t) THEN joins' = [joins EXCEPT ![t] = NoJoin] /\ expected' = expected \ {t}
                  ELSE UNCHANGED <<joins, expected>>
  /\ UNCHANGED lastForumTopicJoinSerial

\* completeForumTopicJoin: the pending join is over, one way or the other.
JoinOver(t) ==
  /\ DoingTopic("joinResult", t) /\ joins[t].serial = Head(calls).serial
  /\ joins' = [joins EXCEPT ![t] = NoJoin] /\ expected' = expected \ {t}
  /\ Saved(t)
  /\ UNCHANGED <<lastForumTopicJoinSerial, lookupVars, listVars>>

JoinAbandoned(t) == joins[t].persistent /\ ~ HasPersistentForumTopicJoin(t)
JoinAvailable(t) == Head(calls).available /\ Available(t) /\ Eligible(t)

JoinForgotten(t) ==
  /\ DoingTopic("joinResult", t) /\ joins[t].serial # Head(calls).serial
  /\ Call(<<>>)
  /\ UNCHANGED <<metadata, lookupVars, joinVars, roomVars, listVars>>

\* Nobody wants the topic any more, or a message has opened it meanwhile.
JoinEndsQuietly(t) ==
  /\ JoinOver(t)
  /\ \/ JoinAbandoned(t)
     \/ /\ ~ JoinAvailable(t)
        /\ lastLiveMessageGeneration[t] > joins[t].live /\ IsOpen(t)
  /\ Call(<<>>)
  /\ UNCHANGED roomVars

JoinFails(t) ==
  /\ JoinOver(t)
  /\ ~ JoinAbandoned(t) /\ ~ JoinAvailable(t)
  /\ ~ (lastLiveMessageGeneration[t] > joins[t].live /\ IsOpen(t))
  /\ Call(Handlers)  \* failForumTopicJoin
  /\ UNCHANGED roomVars

Open(t, why) == <<[do |-> "open", t |-> t, why |-> why]>>
Opened(t, why) == <<[do |-> "opened", t |-> t, why |-> why]>>

JoinSucceeds(t) ==
  /\ JoinOver(t)
  /\ ~ JoinAbandoned(t) /\ JoinAvailable(t)
  /\ active' = active \cup {t}
  /\ Call((IF t \in bookmarks THEN Handlers ELSE <<>>) \o Open(t, "join"))
  /\ UNCHANGED <<conversation, bookmarks>>

\* getChatConversation
GetChatConversation(t) ==
  /\ DoingTopic("open", t)
  /\ conversation' = [conversation EXCEPT ![t] = "joined"]
  /\ Call((IF conversation[t] = "joined" THEN <<>> ELSE Handlers)
             \o Opened(t, Head(calls).why))
  /\ UNCHANGED <<metadata, active, bookmarks, lookupVars, joinVars, listVars>>

\* The end of completeForumTopicJoin: the conversation is presented.
JoinPresents(t) ==
  /\ DoingTopic("opened", t) /\ Head(calls).why = "join"
  /\ active' = IF conversation[t] = "none" THEN active \ {t} ELSE active
  /\ Call(Handlers)
  /\ UNCHANGED <<metadata, conversation, bookmarks, lookupVars, joinVars, listVars>>

\* The end of openPreparedForumTopicForPendingJoin
PreparedOpens(t) ==
  /\ DoingTopic("opened", t) /\ Head(calls).why \in {"active", "inactive"}
  /\ SatisfyForumTopicJoinIfOpen(t)
  /\ active' = IF IsOpen(t) \/ Head(calls).why = "active" THEN active ELSE active \ {t}
  /\ Call(<<>>)
  /\ UNCHANGED <<metadata, conversation, bookmarks, lookupVars, listVars>>

\* The message is written to its conversation, unless handlers have closed that. Before
\* it is, a live one satisfies the join.
MessageWritten(t) ==
  /\ DoingTopic("opened", t) /\ Head(calls).why \in {"message", "history"}
  /\ IF Head(calls).why = "message" THEN SatisfyForumTopicJoinIfOpen(t) ELSE UNCHANGED joinVars
  /\ Call(IF conversation[t] = "none" THEN <<>> ELSE Handlers)
  /\ UNCHANGED <<metadata, lookupVars, roomVars, listVars>>

OpenPreparedForumTopicForPendingJoin(t) ==
  /\ DoingTopic("openPrepared", t)
  /\ LET opens == /\ joins[t] # NoJoin \/ t \in expected
                  /\ Eligible(t) /\ t \in cached \ deleted
     IN  /\ active' = IF opens THEN active \cup {t} ELSE active
         /\ Call(IF opens THEN Open(t, IF t \in active THEN "active" ELSE "inactive") ELSE <<>>)
  /\ UNCHANGED <<metadata, conversation, bookmarks, lookupVars, joinVars, listVars>>

\* pruneAbandonedForumTopicJoins
Abandoned(f) == {t \in TopicsOf(f) : ~ HasPersistentForumTopicJoin(t)}
JoinsKept(f) == {t \in Topics : joins[t] # NoJoin /\ ~ (t \in Abandoned(f) /\ joins[t].persistent)}

\* Mutant: the lookups are cancelled, but the joins stay.
FailForumTopicLookups(f, after) ==
  LET failed == JoinsKept(f) \cap TopicsOf(f) IN
    /\ expected' = expected \ Abandoned(f)
    /\ calls' = Settled(EachTopic("cancelLookup", failed)
                        \o EachTopic("fail", failed \cup (expected' \cap TopicsOf(f))) \o after)
    /\ UNCHANGED <<joins, lastForumTopicJoinSerial>>

\* failForumTopicJoins, and what is executed after it
FailForumTopicJoins(f, after) ==
  LET failed == JoinsKept(f) \cap TopicsOf(f) IN
    /\ expected' = expected \ Abandoned(f)
    /\ joins' = [t \in Topics |-> IF t \in TopicsOf(f) THEN NoJoin ELSE joins[t]]
    /\ calls' = Settled(EachTopic("cancelLookup", failed)
                        \o EachTopic("fail", failed \cup (expected' \cap TopicsOf(f))) \o after)
    /\ UNCHANGED lastForumTopicJoinSerial

FailForumTopicJoin(t) ==
  /\ DoingTopic("fail", t)
  /\ expected' = expected \ {t}
  /\ Call(Handlers)
  /\ UNCHANGED <<metadata, joins, lastForumTopicJoinSerial, lookupVars, roomVars, listVars>>

\* retryExpectedForumTopicJoins, in a forum the account is in
RetryExpectedForumTopicJoins(f, after) ==
  /\ expected' = expected \ Abandoned(f)
  /\ joins' = [t \in Topics |-> IF t \in JoinsKept(f) THEN joins[t] ELSE NoJoin]
  /\ calls' = Settled(EachTopic("join", expected' \cap TopicsOf(f)) \o after)
  /\ UNCHANGED lastForumTopicJoinSerial

-------------------------------------------------------------------------------
\* Projection to conversations.

\* projectForumTopic, of a topic in the cache
ProjectAsks(t) ==
  /\ DoingTopic("project", t)
  /\ t \in active \ (known \cup deleted) /\ Eligible(t)
  /\ Call(Resolve(t, <<>>))
  /\ UNCHANGED <<metadata, lookupVars, joinVars, roomVars, listVars>>

ProjectLeaves(t) ==
  /\ DoingTopic("project", t)
  /\ ~ (Available(t) /\ Eligible(t)) /\ ~ (t \in active \ (known \cup deleted) /\ Eligible(t))
  /\ IF t \in known /\ ~ Eligible(t) THEN InvalidateNow(t) ELSE UNCHANGED metadata
  /\ active' = active \ {t}
  /\ IF conversation[t] = "joined"
       THEN conversation' = [conversation EXCEPT ![t] = "left"] /\ Call(Handlers)
       ELSE UNCHANGED conversation /\ Call(<<>>)
  /\ UNCHANGED <<bookmarks, lookupVars, joinVars, listVars>>

ProjectNames(t) ==
  /\ DoingTopic("project", t)
  /\ Available(t) /\ Eligible(t)
  /\ Call(IF HasPersistentForumTopicJoin(t) THEN Handlers ELSE <<>>)
  /\ UNCHANGED <<metadata, lookupVars, joinVars, roomVars, listVars>>

\* projectForumTopics
ProjectForumTopics(f) ==
  /\ DoingForum("projectAll", f) /\ parent[f] = "eligible"
  /\ Call(EachTopic("project", cached \cap TopicsOf(f)))
  /\ UNCHANGED <<metadata, lookupVars, joinVars, roomVars, listVars>>

\* suspendForumTopics: the joins
SuspendForumTopics(f) ==
  /\ DoingForum("projectAll", f) /\ parent[f] # "eligible"
  /\ FailForumTopicJoins(f, Forum("suspend", f) \o Tail(calls))
  /\ UNCHANGED <<metadata, lookupVars, roomVars, listVars>>

\* ... and the topics
SuspendEachTopic(f) ==
  /\ DoingForum("suspend", f)
  /\ Reserved
  /\ LET Suspend(t) == <<[do |-> "suspendTopic", t |-> t, gen |-> generation']>>
                       \o Topic("project", t)
     IN  Call(ForEach(SetToSeq(cached \cap TopicsOf(f)), Suspend))
  /\ UNCHANGED <<lookupVars, joinVars, roomVars, listVars>>

\* cancelForumTopicLookup, then invalidateForumTopicMetadata from the newer generation
SuspendTopic(t) ==
  /\ DoingTopic("suspendTopic", t)
  /\ Invalidate(t, Head(calls).gen)
  /\ lookups' = [lookups EXCEPT ![t] = NoLookup]
  /\ Call(<<>>)
  /\ UNCHANGED <<asked, lastTopicLookupSerial, joinVars, roomVars, listVars>>

-------------------------------------------------------------------------------
\* Updates from TDLib.

Update(statements) ==
  /\ AtRest /\ up
  /\ calls' = Settled(statements)
  /\ UNCHANGED <<up, lookupVars, joinVars, roomVars>>

\* updateNewChat, updateSupergroup: addChat, updateSupergroup. The room is changed in the
\* buddy list before the topics are looked after. (If nothing is new of the forum, what the
\* handlers do then can be done at rest.)
ParentChanges(f, p) ==
  /\ Update((IF p = parent[f] THEN <<>> ELSE Handlers) \o Forum("parentChanged", f))
  /\ parent' = [parent EXCEPT ![f] = p]
  /\ UNCHANGED <<metadata, listVars>>

ParentChanged(f) ==
  /\ DoingForum("parentChanged", f)
  /\ LET after == Forum("projectAll", f) \o Tail(calls) IN
       IF parent[f] = "eligible" THEN RetryExpectedForumTopicJoins(f, after)
                                 ELSE FailForumTopicJoins(f, after)
  /\ UNCHANGED <<metadata, lookupVars, roomVars, listVars>>

\* updateForumTopicInfo: processUpdate. Every room list may add a room.
TopicInfo(t) ==
  /\ Update((IF \E l \in Lists : Active(l) /\ sessions[l].started THEN Handlers ELSE <<>>)
            \o Topic("completeIfAvailable", t) \o Topic("project", t))
  /\ Announce(t)
  /\ UNCHANGED <<parent, listVars>>

\* updateNewMessage: onIncomingMessage
IncomingMessage(t) ==
  /\ t \in existing /\ parent[ForumOf[t]] # "unknown"
  /\ Update(Resolve(t, <<>>) \o Topic("message", t))
  /\ UNCHANGED <<metadata, parent, listVars>>

Show(t, live) == <<[do |-> "show", t |-> t, live |-> live]>>

\* handleIncomingMessage: the message is shown at once or queued.
HandleIncomingMessage(t) ==
  /\ DoingTopic("message", t)
  /\ IF Eligible(t)
       THEN /\ Message(t)
            /\ \E now \in BOOLEAN :
                 Call((IF now THEN Show(t, TRUE) ELSE <<>>) \o Topic("openPrepared", t))
       ELSE UNCHANGED metadata /\ Call(<<>>)
  /\ UNCHANGED <<lookupVars, joinVars, roomVars, listVars>>

\* ... one of the history, which activates its topic; it is always queued, for a chat has a
\* queue as long as its history is fetched.
HandleHistoryMessage(t) ==
  /\ AtRest /\ up
  /\ latest[t] > 0 /\ Eligible(t) /\ t \notin deleted
  /\ Place(t) /\ UNCHANGED <<generation, telegram, sources>>
  /\ active' = active \cup {t}
  /\ calls' = <<>>
  /\ UNCHANGED <<clientVars, conversation, bookmarks, lookupVars, joinVars, listVars>>

\* A message that was queued is shown.
QueuedMessage(t) ==
  /\ \E live \in BOOLEAN :
       /\ IF live THEN lastLiveMessageGeneration[t] > 0 ELSE t \in cached
       /\ Update(Show(t, live))
  /\ UNCHANGED <<metadata, parent, listVars>>

OpenToWrite(t) == Open(t, IF Head(calls).live THEN "message" ELSE "history")

\* Mutant: it is not noticed that the topic has been deleted since the message came.
ShowMessageOfDeleted(t) ==
  /\ DoingTopic("show", t)
  /\ active' = IF Eligible(t) THEN active \cup {t} ELSE active
  /\ Call(IF Eligible(t)
            THEN (IF t \in known THEN <<>> ELSE Resolve(t, <<>>)) \o OpenToWrite(t) ELSE <<>>)
  /\ UNCHANGED <<metadata, conversation, bookmarks, lookupVars, joinVars, listVars>>

\* showMessageTextChat
ShowMessageTextChat(t) ==
  /\ DoingTopic("show", t)
  /\ LET shown == t \in cached \ deleted /\ Eligible(t) IN
       /\ active' = IF shown THEN active \cup {t} ELSE active
       /\ Call(IF shown
                    THEN (IF t \in known THEN <<>> ELSE Resolve(t, <<>>)) \o OpenToWrite(t)
                    ELSE <<>>)
  /\ UNCHANGED <<metadata, conversation, bookmarks, lookupVars, joinVars, listVars>>

-------------------------------------------------------------------------------
\* Room lists.

\* purple_roomlist_set_in_progress
SetInProgress(l) ==
  /\ DoingList("setInProgress", l)
  /\ inProgress' = inProgress \cup {l}
  /\ Call(Handlers)
  /\ UNCHANGED <<metadata, ready, sessions, lookupVars, joinVars, roomVars>>

\* begin: rooms for the chats, then a request for the first forum
Begin(l) ==
  /\ DoingList("begin", l)
  /\ LET forums == {f \in Forums : parent[f] = "eligible"}
         session == sessions[l]
     IN  /\ sessions' = [sessions EXCEPT ![l].started = TRUE,
                           ![l].forums = IF session.started THEN @ ELSE SetToSeq(forums)]
         /\ Call(IF session.started THEN <<>> ELSE Handlers \o List("request", l))
  /\ UNCHANGED <<metadata, ready, inProgress, lookupVars, joinVars, roomVars>>

\* markRoomListsReady and Pending: has the list of chats been received and all of it
\* resolved?
MarkRoomListsReady ==
  /\ ~ ready /\ ready' = TRUE
  /\ LET lists == SetToSeq({l \in Lists : Active(l)})
     IN  Update(ForEach(lists, LAMBDA l : List("begin", l)))
  /\ UNCHANGED <<metadata, parent, sessions, inProgress>>

MarkRoomListsPending ==
  /\ ready /\ ready' = FALSE
  /\ Update(<<>>)
  /\ UNCHANGED <<metadata, parent, sessions, inProgress>>

\* finish
Finish(l) ==
  /\ sessions' = [sessions EXCEPT ![l] = Over]
  /\ inProgress' = inProgress \ {l}
  /\ UNCHANGED ready

AllListed(l) ==
  /\ DoingList("request", l) /\ sessions[l].forums = <<>>
  /\ Finish(l) /\ Call(Handlers)
  /\ UNCHANGED <<metadata, lookupVars, joinVars, roomVars>>

ListedForum(l) == Head(sessions[l].forums)

\* requestPage, unless the forum whose turn it is is none any more
RequestPage(l) ==
  /\ DoingList("request", l) /\ sessions[l].forums # <<>>
  /\ IF parent[ListedForum(l)] = "eligible"
       THEN /\ IF sourceGeneration[l] = 0 THEN Start(l) /\ UNCHANGED topicState
                                          ELSE UNCHANGED metadata
            /\ sessions' = [sessions EXCEPT ![l].waiting = TRUE,
                                            ![l].requested = @ \cup {sessions[l].cursor}]
            /\ Call(<<>>)
       ELSE UNCHANGED <<metadata, sessions>> /\ Call(List("advance", l))
  /\ UNCHANGED <<ready, inProgress, lookupVars, joinVars, roomVars>>

AdvanceForum(l) ==
  /\ DoingList("advance", l)
  /\ sessions' = [sessions EXCEPT ![l].forums = Tail(@), ![l].cursor = FirstPage,
                    ![l].requested = {}, ![l].seen = {}, ![l].safe = TRUE]
  /\ Call(List("request", l))
  /\ UNCHANGED <<metadata, ready, inProgress, lookupVars, joinVars, roomVars>>

\* handlePage: the answer to the request the list waits for
Page(l) ==
  /\ Active(l) /\ sessions[l].waiting
  /\ UNCHANGED <<parent, ready, inProgress>>

\* ... is an error, or comes when the chat is no forum any more.
PageFails(l) ==
  /\ Update(List("advance", l)) /\ Page(l)
  /\ sessions' = [sessions EXCEPT ![l].waiting = FALSE]
  /\ UNCHANGED metadata

\* ... shows topics. Garbled entries may have been any topic.
PageShows(l, ts, garbled, next) ==
  LET cycle == next \in sessions[l].requested
      listed == SetToSeq(ts)
      Entries(t) == ListTopic("entry", l, t)
  IN  /\ Update(ForEach(listed, Entries) \o List(IF cycle THEN "advance" ELSE "request", l))
      /\ Page(l)
      /\ parent[ListedForum(l)] = "eligible" /\ ts \subseteq TopicsOf(ListedForum(l))
      /\ sessions' = [sessions EXCEPT ![l].waiting = FALSE,
                        ![l].seen = @ \cup ts, ![l].safe = @ /\ ~ garbled,
                        ![l].cursor = IF cycle THEN @ ELSE next]
      /\ UNCHANGED metadata

\* The loop of handlePage, for one topic
PageEntry(l, t) ==
  /\ DoingList("entry", l) /\ Head(calls).t = t
  /\ Report(l, t)
  /\ LET applied == sourceGeneration[l] > metadataGeneration[t] IN
       Call((IF Available(t)' THEN Handlers ELSE <<>>)
               \o ListTopic("completeIfAvailable", l, t)
               \o (IF applied THEN ListTopic("project", l, t) ELSE <<>>))
  /\ UNCHANGED <<lookupVars, joinVars, roomVars, listVars>>

\* ... is empty: the listing of the forum is complete, if all of it could be read.
\* Telegram has shown every topic that was there all the time.
Unseen(l) == TopicsOf(ListedForum(l)) \ sessions[l].seen

\* reconcileTopicLookups
Superseded(l) ==
  {t \in Unseen(l) : /\ Pending(t) /\ sourceGeneration[l] > sourceGeneration[t]
                     /\ sourceGeneration[l] > lastLiveMessageGeneration[t]}

LastPage(l) ==
  LET gone == Tombstones(Unseen(l), sourceGeneration[l])
      superseded == SetToSeq(Superseded(l))
      tombstoned == SetToSeq({t \in gone : t \notin deleted \/ t \in active})
      Supersede(t) == Complete(t, lookups[t].serial, FALSE)
      Project(t) == ListTopic("project", l, t)
  IN  /\ AtRest /\ up /\ Page(l)
      /\ parent[ListedForum(l)] = "eligible"
      /\ sessions' = [sessions EXCEPT ![l].waiting = FALSE]
      /\ IF sessions[l].safe
           THEN /\ Missing(l, Unseen(l))
                /\ active' = active \ gone
                /\ calls' = ForEach(superseded, Supersede) \o ForEach(tombstoned, Project)
                            \o List("advance", l)
           ELSE /\ UNCHANGED <<metadata, active>>
                /\ calls' = List("advance", l)
      /\ UNCHANGED <<up, conversation, bookmarks, lookupVars, joinVars>>

-------------------------------------------------------------------------------
\* What libpurple's callers do, at any time or in handlers.
Outside(statements) ==
  /\ AtRest \/ At("handlers")
  /\ up
  /\ calls' = Settled(statements \o calls)
  /\ UNCHANGED <<metadata, parent>>

JoinChat(t) ==
  /\ lastForumTopicJoinSerial < MaxJoins
  /\ Outside(Topic("join", t))
  /\ UNCHANGED <<up, lookupVars, joinVars, roomVars, listVars>>

\* closeConversation: deleting-conversation
CloseConversation(t) ==
  /\ conversation[t] # "none"
  /\ Outside(<<>>)
  /\ conversation' = [conversation EXCEPT ![t] = "none"]
  /\ joins' = [joins EXCEPT ![t] = NoJoin] /\ expected' = expected \ {t}
  /\ active' = active \ {t}
  /\ UNCHANGED <<up, bookmarks, lastForumTopicJoinSerial, lookupVars, listVars>>

RemoveBookmark(t) ==
  /\ t \in bookmarks
  /\ Outside(<<>>)
  /\ bookmarks' = bookmarks \ {t}
  /\ UNCHANGED <<up, active, conversation, lookupVars, joinVars, listVars>>

\* Mutant: only markRoomListsReady begins.
StartRoomListWaiting(l) ==
  /\ sessions[l].phase = "new"
  /\ sessions' = [sessions EXCEPT ![l].phase = "active"]
  /\ Outside(Handlers \o List("setInProgress", l))
  /\ UNCHANGED <<up, ready, inProgress, lookupVars, joinVars, roomVars>>

\* startRoomList
StartRoomList(l) ==
  /\ sessions[l].phase = "new"
  /\ sessions' = [sessions EXCEPT ![l].phase = "active"]
  /\ Outside(Handlers \o List("setInProgress", l) \o (IF ready THEN List("begin", l) ELSE <<>>))
  /\ UNCHANGED <<up, ready, inProgress, lookupVars, joinVars, roomVars>>

\* cancelRoomList
CancelRoomList(l) ==
  /\ Active(l)
  /\ Finish(l) /\ Outside(Handlers)
  /\ UNCHANGED <<up, lookupVars, joinVars, roomVars>>

\* shutdown, and the rest of ~PurpleTdClient. Handlers find no client any more.
\* (At rest nothing is left to execute.)
Disconnect ==
  /\ At("handlers") /\ Outside(<<>>)
  /\ up' = FALSE
  /\ lookups' = [t \in Topics |-> NoLookup] /\ joins' = [t \in Topics |-> NoJoin]
  /\ expected' = {} /\ active' = {} /\ inProgress' = {}
  /\ sessions' = [l \in Lists |-> IF Active(l) THEN Over ELSE sessions[l]]
  /\ UNCHANGED <<asked, lastTopicLookupSerial, lastForumTopicJoinSerial, conversation,
                 bookmarks, ready>>

-------------------------------------------------------------------------------
TelegramDeletes(t) ==
  /\ Update(<<>>) /\ Delete(t) /\ UNCHANGED <<parent, listVars>>

TopicNext(t) ==
  \/ ResolveAtOnce(t) \/ ResolveTogether(t) \/ ResolveAnew(t)
  \/ CompleteTopicLookup(t)
  \/ CancelForumTopicLookup(t) \/ CompleteIfAvailable(t)
  \/ \E serial \in 1 .. lastTopicLookupSerial :
       LookupIgnored(t, serial) \/ LookupFails(t, serial) \/ LookupSucceeds(t, serial)
  \/ JoinEarly(t) \/ JoinRefused(t) \/ JoinForumTopic(t)
  \/ JoinForgotten(t) \/ JoinEndsQuietly(t) \/ JoinFails(t) \/ JoinSucceeds(t)
  \/ GetChatConversation(t) \/ JoinPresents(t) \/ PreparedOpens(t) \/ MessageWritten(t)
  \/ OpenPreparedForumTopicForPendingJoin(t) \/ FailForumTopicJoin(t)
  \/ ProjectAsks(t) \/ ProjectLeaves(t) \/ ProjectNames(t) \/ SuspendTopic(t)
  \/ TopicInfo(t) \/ TelegramDeletes(t)
  \/ IncomingMessage(t) \/ HandleIncomingMessage(t) \/ HandleHistoryMessage(t)
  \/ QueuedMessage(t) \/ ShowMessageTextChat(t)
  \/ JoinChat(t) \/ CloseConversation(t) \/ RemoveBookmark(t)

ForumNext(f) ==
  \/ \E p \in {"eligible", "ineligible"} : ParentChanges(f, p)
  \/ ParentChanged(f)
  \/ ProjectForumTopics(f) \/ SuspendForumTopics(f) \/ SuspendEachTopic(f)

ListNext(l) ==
  \/ StartRoomList(l) \/ CancelRoomList(l)
  \/ SetInProgress(l) \/ Begin(l)
  \/ AllListed(l) \/ RequestPage(l) \/ AdvanceForum(l)
  \/ PageFails(l) \/ LastPage(l)
  \/ \E ts \in SUBSET Topics, garbled \in BOOLEAN, next \in Cursors \cup {FirstPage} :
       PageShows(l, ts, garbled, next)
  \/ \E t \in Topics : PageEntry(l, t)

Next ==
  \/ \E t \in Topics : TopicNext(t)
  \/ \E f \in Forums : ForumNext(f)
  \/ \E l \in Lists : ListNext(l)
  \/ HandlersReturn \/ ClientGone \/ ListGone \/ Disconnect
  \/ MarkRoomListsReady \/ MarkRoomListsPending

Spec == Init /\ [][Next]_vars

-------------------------------------------------------------------------------
\* Properties. KnownIsCurrent and ExistingIsKept of TopicMetadata, and:

\* Whoever waits for a topic is told in the end: the join is among those that the
\* pending lookup will tell, and TDLib still has to answer that lookup. A join that was
\* put off is taken up when the forum is known.
NoJoinIsLost ==
  AtRest /\ up =>
    \A t \in Topics :
      /\ joins[t] # NoJoin =>
           /\ joins[t].serial \in ToSet(lookups[t].callbacks)
           /\ <<t, lookups[t].serial>> \in asked
      /\ t \in expected => joins[t] # NoJoin \/ parent[ForumOf[t]] = "unknown"

\* A room list goes on until it is over: it waits for a page TDLib owes it or for the
\* list of chats, and the user interface sees it in progress just as long.
NoListHangs ==
  AtRest /\ up =>
    /\ \A l \in Lists : Active(l) => IF sessions[l].started THEN sessions[l].waiting ELSE ~ ready
    /\ inProgress = {l \in Lists : Active(l)}

===============================================================================
