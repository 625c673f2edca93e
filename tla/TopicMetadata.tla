----------------------------- MODULE TopicMetadata -----------------------------
(***************************************************************************)
(* What account-data.cpp remembers of forum topics, and how old evidence   *)
(* is kept from overwriting new: everything that reads or tells of topics  *)
(* reserves a generation when it starts, and what it brings is used only   *)
(* for topics nothing newer is known of.                                   *)
(*                                                                         *)
(* Telegram announces the changes of a topic as they happen. The answers   *)
(* of requests may be late: they show each topic as it was at some time    *)
(* since the request.                                                      *)
(***************************************************************************)
EXTENDS Naturals

CONSTANTS
  Topics,         \* topics other than General, of all forums
  Lists,          \* listings of the topics of forums, for room lists
  MaxGeneration   \* bound: generations reserved

ASSUME BoundAssumption == MaxGeneration \in Nat
ASSUME SourcesAssumption == Topics \cap Lists = {}

\* What asks for metadata: the lookup of one topic, which goes by the name of the
\* topic, and listings.
Sources == Topics \cup Lists

VARIABLES
  generation,  \* m_forumTopicGeneration
  cached,      \* keys of m_forumTopics
  known,       \* those with metadataKnown
  deleted,     \* those with deleted set
  name,        \* the name, closed and hidden of each, as the version last seen
  metadataGeneration,
  lastLiveMessageGeneration,
  sourceGeneration,  \* the generation each source has reserved
  latest,      \* Telegram: version of each topic, 0 for one never created
  existing,    \* Telegram: topics that exist
  since,       \* Telegram: the versions when each source reserved its generation
  missable     \* Telegram: topics a complete listing by the source may leave out

topicState ==
  <<cached, known, deleted, name, metadataGeneration, lastLiveMessageGeneration>>
telegram == <<latest, existing>>
sources == <<sourceGeneration, since, missable>>
metadata == <<generation, topicState, telegram, sources>>

MetadataTypeOK ==
  /\ generation \in 0 .. MaxGeneration
  /\ cached \subseteq Topics /\ known \subseteq cached /\ deleted \subseteq cached
  /\ name \in [Topics -> Nat]
  /\ metadataGeneration \in [Topics -> 0 .. MaxGeneration]
  /\ lastLiveMessageGeneration \in [Topics -> 0 .. MaxGeneration]
  /\ sourceGeneration \in [Sources -> 0 .. MaxGeneration]
  /\ latest \in [Topics -> Nat] /\ existing \subseteq Topics
  /\ since \in [Sources -> [Topics -> Nat]]
  /\ missable \in [Sources -> SUBSET Topics]

MetadataInit ==
  /\ generation = 0
  /\ cached = {} /\ known = {} /\ deleted = {}
  /\ name = [t \in Topics |-> 0]
  /\ metadataGeneration = [t \in Topics |-> 0]
  /\ lastLiveMessageGeneration = [t \in Topics |-> 0]
  /\ sourceGeneration = [s \in Sources |-> 0]
  /\ existing \in SUBSET Topics
  /\ latest = [t \in Topics |-> IF t \in existing THEN 1 ELSE 0]
  /\ since = [s \in Sources |-> latest]
  /\ missable = [s \in Sources |-> {}]

-------------------------------------------------------------------------------
\* The operations of account-data.cpp on topicState.

\* Is the topic one that a lookup finds in the cache?
Available(t) == t \in known /\ t \notin deleted

\* Mutant: evidence is used whatever its age.
UpsertAlways(t, version, gen) ==
  /\ cached' = cached \cup {t}
  /\ known' = known \cup {t}
  /\ deleted' = deleted \ {t}
  /\ name' = [name EXCEPT ![t] = version]
  /\ metadataGeneration' = [metadataGeneration EXCEPT ![t] = gen]
  /\ UNCHANGED lastLiveMessageGeneration

\* upsertForumTopic
UpsertForumTopic(t, version, gen) ==
  IF gen > metadataGeneration[t]
    THEN /\ cached' = cached \cup {t}
         /\ known' = known \cup {t}
         /\ deleted' = deleted \ {t}
         /\ name' = [name EXCEPT ![t] = version]
         /\ metadataGeneration' = [metadataGeneration EXCEPT ![t] = gen]
         /\ UNCHANGED lastLiveMessageGeneration
    ELSE UNCHANGED topicState

\* invalidateForumTopicMetadata
InvalidateForumTopicMetadata(t, gen) ==
  IF t \in cached /\ gen >= metadataGeneration[t]
    THEN /\ known' = known \ {t}
         /\ metadataGeneration' = [metadataGeneration EXCEPT ![t] = gen]
         /\ UNCHANGED <<cached, deleted, name, lastLiveMessageGeneration>>
    ELSE UNCHANGED topicState

\* Mutant: messages that arrived since the listing started are not looked at.
TombstonesDespiteMessages(ts, gen) ==
  {t \in ts \cap cached : gen > metadataGeneration[t]}

\* tombstoneForumTopic: the topics it applies to
Tombstones(ts, gen) ==
  {t \in ts \cap cached : gen > metadataGeneration[t] /\ gen > lastLiveMessageGeneration[t]}

\* reconcileForumTopics
ReconcileForumTopics(unseen, gen) ==
  LET gone == Tombstones(unseen, gen) IN
    /\ deleted' = deleted \cup gone
    /\ metadataGeneration' =
         [t \in Topics |-> IF t \in gone THEN gen ELSE metadataGeneration[t]]
    /\ UNCHANGED <<cached, known, name, lastLiveMessageGeneration>>

\* reserveForumTopicGeneration, which stays below 2^64 - 1
Reserve ==
  /\ generation < MaxGeneration
  /\ generation' = generation + 1

-------------------------------------------------------------------------------
\* Telegram, the sources, and what the code does with them.

\* A new topic, or a change of one, and its updateForumTopicInfo
Announce(t) ==
  /\ t \in existing \/ latest[t] = 0
  /\ Reserve
  /\ latest' = [latest EXCEPT ![t] = @ + 1]
  /\ existing' = existing \cup {t}
  /\ missable' = [s \in Sources |-> IF t \in existing THEN missable[s] ELSE missable[s] \cup {t}]
  /\ UpsertForumTopic(t, latest[t] + 1, generation + 1)
  /\ UNCHANGED <<sourceGeneration, since>>

\* Telegram says nothing when a topic is deleted.
Delete(t) ==
  /\ t \in existing
  /\ existing' = existing \ {t}
  /\ missable' = [s \in Sources |-> missable[s] \cup {t}]
  /\ UNCHANGED <<generation, topicState, latest, sourceGeneration, since>>

\* A message moves its topic to the top of the list, where a listing under way has
\* already been; prepareForumTopicForIncomingMessage
Message(t) ==
  /\ t \in existing
  /\ Reserve
  /\ missable' = [s \in Sources |-> missable[s] \cup {t}]
  /\ cached' = cached \cup {t}
  /\ deleted' = deleted \ {t}
  /\ known' = IF t \in deleted THEN known \ {t} ELSE known
  /\ lastLiveMessageGeneration' = [lastLiveMessageGeneration EXCEPT ![t] = generation + 1]
  /\ UNCHANGED <<name, metadataGeneration, telegram, sourceGeneration, since>>

\* ensureForumTopicPlaceholder
Place(t) ==
  /\ cached' = cached \cup {t}
  /\ UNCHANGED <<known, deleted, name, metadataGeneration, lastLiveMessageGeneration>>

\* A source starts.
Start(s) ==
  /\ Reserve
  /\ sourceGeneration' = [sourceGeneration EXCEPT ![s] = generation + 1]
  /\ since' = [since EXCEPT ![s] = latest]
  /\ missable' = [missable EXCEPT ![s] = Topics \ existing]
  /\ UNCHANGED telegram

\* The source s has shown topic t.
Report(s, t) ==
  /\ \E version \in since[s][t] .. latest[t] :
       version > 0 /\ UpsertForumTopic(t, version, sourceGeneration[s])
  /\ UNCHANGED <<generation, telegram, sources>>

\* The source s has shown all topics of some forums but these.
Missing(s, unseen) ==
  /\ unseen \subseteq missable[s]
  /\ ReconcileForumTopics(unseen, sourceGeneration[s])
  /\ UNCHANGED <<generation, telegram, sources>>

\* What is known of t is not to be used any more: from a source on, or from now on.
Invalidate(t, gen) ==
  /\ gen \in 0 .. generation
  /\ InvalidateForumTopicMetadata(t, gen)
  /\ UNCHANGED <<generation, telegram, sources>>

InvalidateNow(t) ==
  /\ Reserve
  /\ InvalidateForumTopicMetadata(t, generation + 1)
  /\ UNCHANGED <<telegram, sources>>

\* The steps that only reserve a generation
Reserved == Reserve /\ UNCHANGED <<topicState, telegram, sources>>

MetadataNext ==
  \/ \E t \in Topics :
       \/ Announce(t) \/ Delete(t) \/ Message(t) \/ InvalidateNow(t)
       \/ \E gen \in 0 .. generation : Invalidate(t, gen)
       \/ Start(t) /\ Place(t)
       \/ Place(t) /\ UNCHANGED <<generation, telegram, sources>>
  \/ \E s \in Lists : Start(s) /\ UNCHANGED topicState
  \/ \E s \in Sources :
       \/ \E t \in Topics : Report(s, t)
       \/ \E unseen \in SUBSET Topics : Missing(s, unseen)
  \/ Reserved

MetadataSpec == MetadataInit /\ [][MetadataNext]_metadata

-------------------------------------------------------------------------------
\* Properties.

\* Whatever the order in which updates, lookups and listings tell of a topic, what is
\* known of it is what Telegram has announced last.
KnownIsCurrent == \A t \in known : name[t] = latest[t]

\* A topic that exists is never taken for deleted, though a listing need not show a
\* topic that was created or got a message while it was under way.
ExistingIsKept == existing \cap deleted = {}
===============================================================================
