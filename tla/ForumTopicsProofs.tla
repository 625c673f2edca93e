--------------------------- MODULE ForumTopicsProofs ---------------------------
(***************************************************************************)
(* First, of the metadata of topics on its own (TopicMetadata): old        *)
(* evidence never overwrites new, and no topic that exists is taken for    *)
(* deleted, for every set of topics and of listings and every number of    *)
(* generations.                                                            *)
(* Then, that the client's forum topics implement it: each handler is one  *)
(* step of it, or none. So what is proved of topics, lookups and listings  *)
(* in any order holds for the client, for every set of topics, forums and  *)
(* room lists.                                                             *)
(* Last, of the joins and the room lists of the client itself: nobody who  *)
(* waits for a topic is forgotten, and no room list stops half way,        *)
(* whatever handlers do while calls are still to return. The invariant     *)
(* (FInv) says who still owes what: a lookup TDLib has to answer, a page,  *)
(* or a statement that is still to be executed. So the proof has lemmas on *)
(* what the code's lists of statements hold (SetToSeq, FlattenSeq,         *)
(* Settled), on what a step leaves to execute (Does), and on what it       *)
(* leaves alone, before one lemma per step.                                *)
(***************************************************************************)
EXTENDS ForumTopics, TLAPS, FiniteSetTheorems, SequenceTheorems, WellFoundedInduction

-----------------------------------------------------------------------------
(* The metadata of topics *)

\* Generations are reserved in order, and what carries one reserved it before.
GenerationsOK ==
  /\ \A s \in Sources : sourceGeneration[s] <= generation
  /\ \A t \in Topics : metadataGeneration[t] <= generation /\ lastLiveMessageGeneration[t] <= generation

\* A source whose evidence would still be used for a topic can only have seen the
\* topic as it is: a change since it started would have raised the topic's generation.
EvidenceIsFresh ==
  \A s \in Sources, t \in Topics :
    sourceGeneration[s] > metadataGeneration[t] => since[s][t] = latest[t]

\* A listing that would delete a topic that exists was bound to show it.
OmissionMeansGone ==
  \A s \in Sources, t \in Topics :
    t \in existing \cap missable[s] =>
      \/ sourceGeneration[s] <= metadataGeneration[t]
      \/ sourceGeneration[s] <= lastLiveMessageGeneration[t]

SinceOK == \A s \in Sources, t \in Topics : since[s][t] <= latest[t]

IInv ==
  /\ MetadataTypeOK /\ GenerationsOK /\ SinceOK
  /\ KnownIsCurrent /\ EvidenceIsFresh
  /\ ExistingIsKept /\ OmissionMeansGone

--------------------------------------------------------------------------------
LEMMA InitIsIn == MetadataInit => IInv
<1> SUFFICES ASSUME MetadataInit PROVE IInv
  OBVIOUS
<1>1. MetadataTypeOK
  BY BoundAssumption DEF MetadataInit, MetadataTypeOK
<1>2. GenerationsOK /\ SinceOK
  BY <1>1 DEF MetadataInit, GenerationsOK, SinceOK
<1>3. KnownIsCurrent /\ EvidenceIsFresh
  BY DEF MetadataInit, KnownIsCurrent, EvidenceIsFresh
<1>4. ExistingIsKept /\ OmissionMeansGone
  BY DEF MetadataInit, ExistingIsKept, OmissionMeansGone
<1> QED
  BY <1>1, <1>2, <1>3, <1>4 DEF IInv

\* A topic is announced: its generation becomes the newest there is.
LEMMA AnnounceStep ==
  ASSUME IInv, NEW t \in Topics, Announce(t)
  PROVE  IInv'
<1>0. /\ cached' = cached \cup {t} /\ known' = known \cup {t} /\ deleted' = deleted \ {t}
      /\ name' = [name EXCEPT ![t] = latest[t] + 1]
      /\ metadataGeneration' = [metadataGeneration EXCEPT ![t] = generation + 1]
      /\ UNCHANGED lastLiveMessageGeneration
  BY BoundAssumption DEF IInv, MetadataTypeOK, GenerationsOK, Announce,
         UpsertForumTopic
<1>1. MetadataTypeOK'
  <2>1. /\ generation' \in 0 .. MaxGeneration
        /\ cached' \subseteq Topics /\ known' \subseteq cached' /\ deleted' \subseteq cached'
        /\ latest' \in [Topics -> Nat] /\ existing' \subseteq Topics
    BY <1>0, BoundAssumption DEF IInv, MetadataTypeOK, Announce, Reserve
  <2>2. /\ name' \in [Topics -> Nat]
        /\ metadataGeneration' \in [Topics -> 0 .. MaxGeneration]
        /\ lastLiveMessageGeneration' \in [Topics -> 0 .. MaxGeneration]
    BY <1>0, BoundAssumption DEF IInv, MetadataTypeOK, Announce, Reserve
  <2>3. /\ sourceGeneration' \in [Sources -> 0 .. MaxGeneration]
        /\ since' \in [Sources -> [Topics -> Nat]]
        /\ missable' \in [Sources -> SUBSET Topics]
    BY DEF IInv, MetadataTypeOK, Announce
  <2> QED
    BY <2>1, <2>2, <2>3 DEF MetadataTypeOK
<1>2. GenerationsOK'
  BY DEF IInv, MetadataTypeOK, GenerationsOK, Announce, UpsertForumTopic,
         Reserve
<1>3. SinceOK'
  BY DEF IInv, MetadataTypeOK, SinceOK, Announce
<1>4. KnownIsCurrent'
  BY DEF IInv, MetadataTypeOK, KnownIsCurrent, GenerationsOK, Announce,
         UpsertForumTopic
<1>5. EvidenceIsFresh'
  BY DEF IInv, MetadataTypeOK, EvidenceIsFresh, GenerationsOK, Announce,
         UpsertForumTopic
<1>6. ExistingIsKept'
  BY <1>0 DEF IInv, ExistingIsKept, Announce
<1>7. OmissionMeansGone'
  BY DEF IInv, MetadataTypeOK, OmissionMeansGone, GenerationsOK, Announce,
         UpsertForumTopic
<1> QED
  BY <1>1, <1>2, <1>3, <1>4, <1>5, <1>6, <1>7 DEF IInv

\* Telegram deletes a topic.
LEMMA DeleteStep ==
  ASSUME IInv, NEW t \in Topics, Delete(t)
  PROVE  IInv'
<1>1. MetadataTypeOK'
  BY DEF IInv, MetadataTypeOK, Delete, topicState
<1>2. GenerationsOK'
  BY DEF IInv, GenerationsOK, Delete, topicState
<1>3. SinceOK'
  BY DEF IInv, SinceOK, Delete
<1>4. KnownIsCurrent'
  BY DEF IInv, KnownIsCurrent, Delete, topicState
<1>5. EvidenceIsFresh'
  BY DEF IInv, EvidenceIsFresh, Delete, topicState
<1>6. ExistingIsKept'
  BY DEF IInv, ExistingIsKept, Delete, topicState
<1>7. OmissionMeansGone'
  BY DEF IInv, OmissionMeansGone, Delete, topicState
<1> QED
  BY <1>1, <1>2, <1>3, <1>4, <1>5, <1>6, <1>7 DEF IInv

\* A message restores its topic.
LEMMA MessageStep ==
  ASSUME IInv, NEW t \in Topics, Message(t)
  PROVE  IInv'
<1>1. MetadataTypeOK'
  BY BoundAssumption DEF IInv, MetadataTypeOK, Message, Reserve, telegram
<1>2. GenerationsOK'
  BY DEF IInv, MetadataTypeOK, GenerationsOK, Message, Reserve
<1>3. SinceOK'
  BY DEF IInv, SinceOK, Message, telegram
<1>4. KnownIsCurrent'
  BY DEF IInv, KnownIsCurrent, Message, telegram
<1>5. EvidenceIsFresh'
  BY DEF IInv, EvidenceIsFresh, Message, telegram
<1>6. ExistingIsKept'
  BY DEF IInv, ExistingIsKept, Message, telegram
<1>7. OmissionMeansGone'
  BY DEF IInv, MetadataTypeOK, OmissionMeansGone, GenerationsOK, Message,
         telegram
<1> QED
  BY <1>1, <1>2, <1>3, <1>4, <1>5, <1>6, <1>7 DEF IInv

\* Metadata is put in doubt; generations only grow.
LEMMA InvalidateNowStep ==
  ASSUME IInv, NEW t \in Topics, InvalidateNow(t)
  PROVE  IInv'
<1>1. MetadataTypeOK'
  BY BoundAssumption DEF IInv, MetadataTypeOK, InvalidateNow,
         InvalidateForumTopicMetadata, Reserve, topicState, telegram, sources
<1>2. GenerationsOK'
  BY BoundAssumption DEF IInv, MetadataTypeOK, GenerationsOK, InvalidateNow,
         InvalidateForumTopicMetadata, Reserve, topicState, sources
<1>3. SinceOK'
  BY DEF IInv, SinceOK, InvalidateNow, telegram, sources
<1>4. KnownIsCurrent'
  BY DEF IInv, KnownIsCurrent, InvalidateNow, InvalidateForumTopicMetadata,
         topicState, telegram
<1>5. EvidenceIsFresh'
  BY DEF IInv, MetadataTypeOK, EvidenceIsFresh, GenerationsOK, InvalidateNow,
         InvalidateForumTopicMetadata, topicState, telegram, sources
<1>6. ExistingIsKept'
  BY DEF IInv, ExistingIsKept, InvalidateNow, InvalidateForumTopicMetadata,
         topicState, telegram
<1>7. OmissionMeansGone'
  BY DEF IInv, MetadataTypeOK, OmissionMeansGone, InvalidateNow,
         InvalidateForumTopicMetadata, topicState, telegram, sources
<1> QED
  BY <1>1, <1>2, <1>3, <1>4, <1>5, <1>6, <1>7 DEF IInv

LEMMA InvalidateStep ==
  ASSUME IInv, NEW t \in Topics, NEW gen \in 0 .. generation, Invalidate(t, gen)
  PROVE  IInv'
<1>1. MetadataTypeOK'
  BY BoundAssumption, SMTT(30) DEF IInv, MetadataTypeOK, Invalidate,
         InvalidateForumTopicMetadata, topicState, telegram, sources
<1>2. GenerationsOK'
  BY DEF IInv, MetadataTypeOK, GenerationsOK, Invalidate,
         InvalidateForumTopicMetadata, topicState, sources
<1>3. SinceOK'
  BY DEF IInv, SinceOK, Invalidate, telegram, sources
<1>4. KnownIsCurrent'
  BY DEF IInv, KnownIsCurrent, Invalidate, InvalidateForumTopicMetadata,
         topicState, telegram
<1>5. EvidenceIsFresh'
  BY DEF IInv, MetadataTypeOK, EvidenceIsFresh, GenerationsOK, Invalidate,
         InvalidateForumTopicMetadata, topicState, telegram, sources
<1>6. ExistingIsKept'
  BY DEF IInv, ExistingIsKept, Invalidate, InvalidateForumTopicMetadata,
         topicState, telegram
<1>7. OmissionMeansGone'
  BY DEF IInv, MetadataTypeOK, OmissionMeansGone, Invalidate,
         InvalidateForumTopicMetadata, topicState, telegram, sources
<1> QED
  BY <1>1, <1>2, <1>3, <1>4, <1>5, <1>6, <1>7 DEF IInv

\* A source starts, and sees the versions there are.
LEMMA LookupStep ==
  ASSUME IInv, NEW t \in Topics, Start(t), Place(t)
  PROVE  IInv'
<1>1. MetadataTypeOK'
  BY BoundAssumption DEF IInv, MetadataTypeOK, Start, Reserve, Place,
         telegram, Sources
<1>2. GenerationsOK'
  BY DEF IInv, MetadataTypeOK, GenerationsOK, Start, Reserve, Place
<1>3. SinceOK'
  BY DEF IInv, MetadataTypeOK, SinceOK, Start, telegram
<1>4. KnownIsCurrent'
  BY DEF IInv, KnownIsCurrent, Start, Place, telegram
<1>5. EvidenceIsFresh'
  BY DEF IInv, MetadataTypeOK, EvidenceIsFresh, Start, Place, telegram
<1>6. ExistingIsKept'
  BY DEF IInv, ExistingIsKept, Start, Place, telegram
<1>7. OmissionMeansGone'
  BY DEF IInv, MetadataTypeOK, OmissionMeansGone, Start, Place, telegram
<1> QED
  BY <1>1, <1>2, <1>3, <1>4, <1>5, <1>6, <1>7 DEF IInv

LEMMA ListingStep ==
  ASSUME IInv, NEW s \in Lists, Start(s), UNCHANGED topicState
  PROVE  IInv'
<1>1. MetadataTypeOK'
  BY BoundAssumption DEF IInv, MetadataTypeOK, Start, Reserve, topicState,
         telegram, Sources
<1>2. GenerationsOK'
  BY DEF IInv, MetadataTypeOK, GenerationsOK, Start, Reserve, topicState
<1>3. SinceOK'
  BY DEF IInv, MetadataTypeOK, SinceOK, Start, telegram
<1>4. KnownIsCurrent'
  BY DEF IInv, KnownIsCurrent, Start, topicState, telegram
<1>5. EvidenceIsFresh'
  BY DEF IInv, MetadataTypeOK, EvidenceIsFresh, Start, topicState, telegram
<1>6. ExistingIsKept'
  BY DEF IInv, ExistingIsKept, Start, topicState, telegram
<1>7. OmissionMeansGone'
  BY DEF IInv, MetadataTypeOK, OmissionMeansGone, Start, topicState, telegram
<1> QED
  BY <1>1, <1>2, <1>3, <1>4, <1>5, <1>6, <1>7 DEF IInv

LEMMA PlaceStep ==
  ASSUME IInv, NEW t \in Topics, Place(t), UNCHANGED <<generation, telegram, sources>>
  PROVE  IInv'
<1>1. MetadataTypeOK'
  BY DEF IInv, MetadataTypeOK, Place, telegram, sources
<1>2. GenerationsOK'
  BY DEF IInv, GenerationsOK, Place, sources
<1>3. SinceOK'
  BY DEF IInv, SinceOK, telegram, sources
<1>4. KnownIsCurrent'
  BY DEF IInv, KnownIsCurrent, Place, telegram
<1>5. EvidenceIsFresh'
  BY DEF IInv, EvidenceIsFresh, Place, telegram, sources
<1>6. ExistingIsKept'
  BY DEF IInv, ExistingIsKept, Place, telegram
<1>7. OmissionMeansGone'
  BY DEF IInv, OmissionMeansGone, Place, telegram, sources
<1> QED
  BY <1>1, <1>2, <1>3, <1>4, <1>5, <1>6, <1>7 DEF IInv

\* A source shows a topic: it is used only if the version it shows is the last.
LEMMA ReportStep ==
  ASSUME IInv, NEW s \in Sources, NEW t \in Topics, Report(s, t)
  PROVE  IInv'
<1>1. MetadataTypeOK'
  BY DEF IInv, MetadataTypeOK, Report, UpsertForumTopic, topicState, telegram,
         sources
<1>2. GenerationsOK'
  BY DEF IInv, MetadataTypeOK, GenerationsOK, Report, UpsertForumTopic,
         topicState, sources
<1>3. SinceOK'
  BY DEF IInv, SinceOK, Report, telegram, sources
<1>4. KnownIsCurrent'
  <2>1. PICK version \in since[s][t] .. latest[t] :
          UpsertForumTopic(t, version, sourceGeneration[s])
    BY DEF Report
  <2>2. latest' = latest
    BY DEF Report, telegram
  <2>3. CASE sourceGeneration[s] > metadataGeneration[t]
    <3>1. latest[t] \in Nat /\ since[s][t] = latest[t]
      BY <2>3 DEF IInv, MetadataTypeOK, EvidenceIsFresh
    <3>2. version = latest[t]
      BY <3>1
    <3> QED
      BY <2>1, <2>2, <2>3, <3>2 DEF IInv, MetadataTypeOK, KnownIsCurrent,
             UpsertForumTopic
  <2>4. CASE ~ (sourceGeneration[s] > metadataGeneration[t])
    BY <2>1, <2>2, <2>4 DEF IInv, KnownIsCurrent, UpsertForumTopic, topicState
  <2> QED
    BY <2>3, <2>4
<1>5. EvidenceIsFresh'
  BY DEF IInv, MetadataTypeOK, EvidenceIsFresh, Report, UpsertForumTopic,
         topicState, telegram, sources
<1>6. ExistingIsKept'
  BY DEF IInv, ExistingIsKept, Report, UpsertForumTopic, topicState, telegram
<1>7. OmissionMeansGone'
  BY DEF IInv, MetadataTypeOK, OmissionMeansGone, Report, UpsertForumTopic,
         topicState, telegram, sources
<1> QED
  BY <1>1, <1>2, <1>3, <1>4, <1>5, <1>6, <1>7 DEF IInv

\* A listing is complete: what it deletes does not exist.
LEMMA MissingStep ==
  ASSUME IInv, NEW s \in Sources, NEW unseen \in SUBSET Topics, Missing(s, unseen)
  PROVE  IInv'
<1>1. MetadataTypeOK'
  BY DEF IInv, MetadataTypeOK, Missing, ReconcileForumTopics, Tombstones,
         telegram, sources
<1>2. GenerationsOK'
  BY DEF IInv, GenerationsOK, Missing, ReconcileForumTopics, sources
<1>3. SinceOK'
  BY DEF IInv, SinceOK, Missing, telegram, sources
<1>4. KnownIsCurrent'
  BY DEF IInv, KnownIsCurrent, Missing, ReconcileForumTopics, telegram
<1>5. EvidenceIsFresh'
  BY DEF IInv, MetadataTypeOK, EvidenceIsFresh, Missing, ReconcileForumTopics,
         Tombstones, telegram, sources
<1>6. ExistingIsKept'
  BY DEF IInv, MetadataTypeOK, ExistingIsKept, OmissionMeansGone, Missing,
         ReconcileForumTopics, Tombstones, telegram
<1>7. OmissionMeansGone'
  BY DEF IInv, MetadataTypeOK, OmissionMeansGone, Missing,
         ReconcileForumTopics, Tombstones, telegram, sources
<1> QED
  BY <1>1, <1>2, <1>3, <1>4, <1>5, <1>6, <1>7 DEF IInv

LEMMA ReservedStep ==
  ASSUME IInv, UNCHANGED <<topicState, telegram, sources>>, Reserve
  PROVE  IInv'
<1>1. MetadataTypeOK'
  BY BoundAssumption DEF IInv, MetadataTypeOK, Reserve, topicState, telegram,
         sources
<1>2. GenerationsOK'
  BY DEF IInv, MetadataTypeOK, GenerationsOK, Reserve, topicState, sources
<1>3. SinceOK'
  BY DEF IInv, SinceOK, telegram, sources
<1>4. KnownIsCurrent'
  BY DEF IInv, KnownIsCurrent, topicState, telegram
<1>5. EvidenceIsFresh'
  BY DEF IInv, EvidenceIsFresh, topicState, telegram, sources
<1>6. ExistingIsKept'
  BY DEF IInv, ExistingIsKept, topicState, telegram
<1>7. OmissionMeansGone'
  BY DEF IInv, OmissionMeansGone, topicState, telegram, sources
<1> QED
  BY <1>1, <1>2, <1>3, <1>4, <1>5, <1>6, <1>7 DEF IInv

LEMMA StutterStep ==
  ASSUME IInv, UNCHANGED metadata
  PROVE  IInv'
<1>1. MetadataTypeOK'
  BY DEF IInv, MetadataTypeOK, metadata, topicState, telegram, sources
<1>2. GenerationsOK'
  BY DEF IInv, GenerationsOK, metadata, topicState, sources
<1>3. SinceOK'
  BY DEF IInv, SinceOK, metadata, telegram, sources
<1>4. KnownIsCurrent'
  BY DEF IInv, KnownIsCurrent, metadata, topicState, telegram
<1>5. EvidenceIsFresh'
  BY DEF IInv, EvidenceIsFresh, metadata, topicState, telegram, sources
<1>6. ExistingIsKept'
  BY DEF IInv, ExistingIsKept, metadata, topicState, telegram
<1>7. OmissionMeansGone'
  BY DEF IInv, OmissionMeansGone, metadata, topicState, telegram, sources
<1> QED
  BY <1>1, <1>2, <1>3, <1>4, <1>5, <1>6, <1>7 DEF IInv

--------------------------------------------------------------------------------
LEMMA NextKeepsIt == IInv /\ [MetadataNext]_metadata => IInv'
<1> SUFFICES ASSUME IInv, [MetadataNext]_metadata
             PROVE  IInv'
  OBVIOUS
<1>1. ASSUME NEW t \in Topics, Announce(t) \/ Delete(t) \/ Message(t) \/ InvalidateNow(t)
      PROVE  IInv'
  BY <1>1, AnnounceStep, DeleteStep, MessageStep, InvalidateNowStep
<1>2. ASSUME NEW t \in Topics, NEW gen \in 0 .. generation, Invalidate(t, gen)
      PROVE  IInv'
  BY <1>2, InvalidateStep
<1>3. ASSUME NEW t \in Topics, Place(t), Start(t) \/ UNCHANGED <<generation, telegram, sources>>
      PROVE  IInv'
  BY <1>3, LookupStep, PlaceStep
<1>4. ASSUME NEW s \in Lists, Start(s), UNCHANGED topicState
      PROVE  IInv'
  BY <1>4, ListingStep
<1>5. ASSUME NEW s \in Sources, NEW t \in Topics, Report(s, t)
      PROVE  IInv'
  BY <1>5, ReportStep
<1>6. ASSUME NEW s \in Sources, NEW unseen \in SUBSET Topics, Missing(s, unseen)
      PROVE  IInv'
  BY <1>6, MissingStep
<1>7. CASE Reserved
  BY <1>7, ReservedStep DEF Reserved
<1>8. CASE UNCHANGED metadata
  BY <1>8, StutterStep
<1> QED
  BY <1>1, <1>2, <1>3, <1>4, <1>5, <1>6, <1>7, <1>8 DEF MetadataNext

THEOREM Invariance == MetadataSpec => []IInv
BY InitIsIn, NextKeepsIt, PTL DEF MetadataSpec

\* Every variable keeps its type: account-data.cpp never remembers something of a topic
\* it has no entry for, and no generation is ever above the last one reserved.
THEOREM MetadataTypes == MetadataSpec => []MetadataTypeOK
<1>1. IInv => MetadataTypeOK
  BY DEF IInv
<1> QED
  BY <1>1, Invariance, PTL

\* For any number of topics, lookups and listings, in any order of their answers, what
\* upsertForumTopic and reconcileForumTopics leave is what Telegram announced last.
THEOREM KnownStaysCurrent == MetadataSpec => []KnownIsCurrent
<1>1. IInv => KnownIsCurrent
  BY DEF IInv
<1> QED
  BY <1>1, Invariance, PTL

\* tombstoneForumTopic is never applied to a topic that exists.
THEOREM ExistingStaysKept == MetadataSpec => []ExistingIsKept
<1>1. IInv => ExistingIsKept
  BY DEF IInv
<1> QED
  BY <1>1, Invariance, PTL

-----------------------------------------------------------------------------
(* The client implements it *)

MetadataStep == MetadataNext \/ UNCHANGED metadata

LEMMA SavedStep ==
  ASSUME NEW t \in Topics, Saved(t)
  PROVE  MetadataStep
BY DEF Saved, MetadataStep, MetadataNext

LEMMA InvalidateIsAStep ==
  ASSUME NEW t \in Topics, NEW gen, Invalidate(t, gen)
  PROVE  MetadataStep
BY DEF Invalidate, MetadataStep, MetadataNext

\* Lookups
LEMMA LookupSteps ==
  ASSUME NEW t \in Topics,
         \/ ResolveAtOnce(t) \/ ResolveTogether(t) \/ ResolveAnew(t)
         \/ CompleteTopicLookup(t) \/ CancelForumTopicLookup(t) \/ CompleteIfAvailable(t)
         \/ \E serial \in 1 .. lastTopicLookupSerial :
              LookupIgnored(t, serial) \/ LookupFails(t, serial) \/ LookupSucceeds(t, serial)
  PROVE  MetadataStep
<1>1. ASSUME ResolveAtOnce(t) \/ ResolveTogether(t) \/ CompleteIfAvailable(t)
      PROVE  MetadataStep
  BY <1>1 DEF ResolveAtOnce, ResolveTogether, CompleteIfAvailable, MetadataStep
<1>2. CASE ResolveAnew(t)
  BY <1>2 DEF ResolveAnew, MetadataStep, MetadataNext
<1>3. CASE CompleteTopicLookup(t)
  BY <1>3, InvalidateIsAStep DEF CompleteTopicLookup, MetadataStep
<1>4. CASE CancelForumTopicLookup(t)
  BY <1>4, InvalidateIsAStep DEF CancelForumTopicLookup, MetadataStep
<1>5. ASSUME NEW serial \in 1 .. lastTopicLookupSerial,
             LookupIgnored(t, serial) \/ LookupFails(t, serial)
      PROVE  MetadataStep
  BY <1>5 DEF LookupIgnored, LookupFails, MetadataStep
<1>6. ASSUME NEW serial \in 1 .. lastTopicLookupSerial, LookupSucceeds(t, serial)
      PROVE  MetadataStep
  <2>1. t \in Sources /\ Report(t, t)
    BY <1>6 DEF LookupSucceeds, Sources
  <2> QED
    BY <2>1 DEF MetadataStep, MetadataNext
<1> QED
  BY <1>1, <1>2, <1>3, <1>4, <1>5, <1>6

\* Joins, conversations and projection
LEMMA JoinSteps ==
  ASSUME NEW t \in Topics,
         \/ JoinEarly(t) \/ JoinRefused(t) \/ JoinForumTopic(t)
         \/ JoinForgotten(t) \/ JoinEndsQuietly(t) \/ JoinFails(t) \/ JoinSucceeds(t)
         \/ OpenPreparedForumTopicForPendingJoin(t) \/ FailForumTopicJoin(t) \/ JoinChat(t)
  PROVE  MetadataStep
<1>1. ASSUME \/ JoinEarly(t) \/ JoinRefused(t) \/ JoinForumTopic(t)
             \/ JoinEndsQuietly(t) \/ JoinFails(t) \/ JoinSucceeds(t)
      PROVE  MetadataStep
  BY <1>1, SavedStep
     DEF JoinEarly, JoinRefused, JoinForumTopic, JoinEndsQuietly, JoinFails, JoinSucceeds, JoinOver
<1>2. ASSUME \/ JoinForgotten(t) \/ OpenPreparedForumTopicForPendingJoin(t)
             \/ FailForumTopicJoin(t) \/ JoinChat(t)
      PROVE  MetadataStep
  BY <1>2 DEF JoinForgotten, OpenPreparedForumTopicForPendingJoin, FailForumTopicJoin, JoinChat,
              Outside, MetadataStep
<1> QED
  BY <1>1, <1>2

LEMMA ConversationSteps ==
  ASSUME NEW t \in Topics,
         \/ GetChatConversation(t) \/ JoinPresents(t) \/ PreparedOpens(t) \/ MessageWritten(t)
         \/ ProjectAsks(t) \/ ProjectLeaves(t) \/ ProjectNames(t) \/ SuspendTopic(t)
         \/ CloseConversation(t) \/ RemoveBookmark(t)
  PROVE  MetadataStep
<1>1. ASSUME \/ GetChatConversation(t) \/ JoinPresents(t) \/ PreparedOpens(t) \/ MessageWritten(t)
             \/ ProjectAsks(t) \/ ProjectNames(t)
      PROVE  MetadataStep
  BY <1>1 DEF GetChatConversation, JoinPresents, PreparedOpens, MessageWritten, ProjectAsks,
              ProjectNames, MetadataStep
<1>2. CASE ProjectLeaves(t)
  BY <1>2 DEF ProjectLeaves, MetadataStep, MetadataNext
<1>3. CASE SuspendTopic(t)
  BY <1>3, InvalidateIsAStep DEF SuspendTopic
<1>4. CASE CloseConversation(t) \/ RemoveBookmark(t)
  BY <1>4 DEF CloseConversation, RemoveBookmark, Outside, MetadataStep
<1> QED
  BY <1>1, <1>2, <1>3, <1>4

\* Updates
LEMMA UpdateSteps ==
  ASSUME NEW t \in Topics,
         \/ TopicInfo(t) \/ TelegramDeletes(t) \/ IncomingMessage(t)
         \/ HandleIncomingMessage(t) \/ HandleHistoryMessage(t)
         \/ QueuedMessage(t) \/ ShowMessageTextChat(t)
  PROVE  MetadataStep
<1>1. CASE TopicInfo(t)
  BY <1>1 DEF TopicInfo, MetadataStep, MetadataNext
<1>2. CASE TelegramDeletes(t)
  BY <1>2 DEF TelegramDeletes, MetadataStep, MetadataNext
<1>3. CASE HandleIncomingMessage(t) \/ HandleHistoryMessage(t)
  BY <1>3 DEF HandleIncomingMessage, HandleHistoryMessage, MetadataStep, MetadataNext
<1>4. ASSUME IncomingMessage(t) \/ QueuedMessage(t) \/ ShowMessageTextChat(t)
      PROVE  MetadataStep
  BY <1>4 DEF IncomingMessage, QueuedMessage, ShowMessageTextChat, MetadataStep
<1> QED
  BY <1>1, <1>2, <1>3, <1>4

LEMMA ForumSteps ==
  ASSUME NEW f \in Forums, ForumNext(f)
  PROVE  MetadataStep
<1>1. CASE SuspendEachTopic(f)
  BY <1>1 DEF SuspendEachTopic, MetadataStep, MetadataNext
<1>2. ASSUME ProjectForumTopics(f) \/ SuspendForumTopics(f)
      PROVE  MetadataStep
  BY <1>2 DEF ProjectForumTopics, SuspendForumTopics, MetadataStep
<1>3. ASSUME ParentChanged(f) \/ \E p : ParentChanges(f, p)
      PROVE  MetadataStep
  BY <1>3 DEF ParentChanged, ParentChanges, MetadataStep
<1> QED
  BY <1>1, <1>2, <1>3 DEF ForumNext

\* Room lists
LEMMA ListSteps ==
  ASSUME NEW l \in Lists, ListNext(l)
  PROVE  MetadataStep
<1>1. ASSUME \/ StartRoomList(l) \/ CancelRoomList(l)
             \/ SetInProgress(l) \/ Begin(l) \/ AllListed(l) \/ AdvanceForum(l) \/ PageFails(l)
      PROVE  MetadataStep
  BY <1>1 DEF StartRoomList, CancelRoomList, Outside, SetInProgress, Begin, AllListed,
              AdvanceForum, PageFails, MetadataStep
<1>2. CASE RequestPage(l)
  BY <1>2 DEF RequestPage, MetadataStep, MetadataNext
<1>3. ASSUME NEW ts, NEW garbled, NEW next, PageShows(l, ts, garbled, next)
      PROVE  MetadataStep
  BY <1>3 DEF PageShows, MetadataStep
<1>4. ASSUME NEW t \in Topics, PageEntry(l, t)
      PROVE  MetadataStep
  <2>1. l \in Sources /\ Report(l, t)
    BY <1>4 DEF PageEntry, Sources
  <2> QED
    BY <2>1 DEF MetadataStep, MetadataNext
<1>5. CASE LastPage(l)
  <2>1. CASE sessions[l].safe
    <3>1. l \in Sources /\ Unseen(l) \in SUBSET Topics /\ Missing(l, Unseen(l))
      BY <1>5, <2>1 DEF LastPage, Sources, Unseen, TopicsOf
    <3> QED
      BY <3>1 DEF MetadataStep, MetadataNext
  <2>2. CASE ~ sessions[l].safe
    BY <1>5, <2>2 DEF LastPage, MetadataStep
  <2> QED
    BY <2>1, <2>2
<1> QED
  BY <1>1, <1>2, <1>3, <1>4, <1>5 DEF ListNext

LEMMA StepIsMetadataStep == [Next]_vars => [MetadataNext]_metadata
<1> SUFFICES ASSUME [Next]_vars
             PROVE  MetadataStep
  BY DEF MetadataStep
<1>1. ASSUME NEW t \in Topics, TopicNext(t)
      PROVE  MetadataStep
  BY <1>1, LookupSteps, JoinSteps, ConversationSteps, UpdateSteps DEF TopicNext
<1>2. ASSUME HandlersReturn \/ ClientGone \/ ListGone \/ Disconnect
             \/ MarkRoomListsReady \/ MarkRoomListsPending
      PROVE  MetadataStep
  BY <1>2 DEF HandlersReturn, ClientGone, ListGone, Disconnect, Outside, MarkRoomListsReady,
              MarkRoomListsPending, MetadataStep
<1>3. CASE UNCHANGED vars
  BY <1>3 DEF vars, MetadataStep
<1> QED
  BY <1>1, <1>2, <1>3, ForumSteps, ListSteps DEF Next

\* Every run of the client is a run of TopicMetadata: whatever handlers do in between,
\* the client touches what it remembers of topics only by the operations of
\* account-data.cpp, with generations their sources have reserved.
THEOREM ClientImplementsMetadata == Spec => MetadataSpec
<1>1. Init => MetadataInit
  BY DEF Init
<1> QED
  BY <1>1, StepIsMetadataStep, PTL DEF Spec, MetadataSpec

\* What the client knows of a topic is what Telegram announced last.
THEOREM ClientKnowsWhatIsCurrent == Spec => []KnownIsCurrent
BY ClientImplementsMetadata, KnownStaysCurrent, PTL

\* The client never takes a topic that exists for deleted.
THEOREM ClientKeepsWhatExists == Spec => []ExistingIsKept
BY ClientImplementsMetadata, ExistingStaysKept, PTL

-----------------------------------------------------------------------------
(* The joins and room lists of the client: the invariant *)

\* A sequence, of whatever it holds
IsSequence(s) == s \in Seq(ToSet(s))

\* What is still to execute: the order does not matter to what is owed.
todo == ToSet(calls)

\* The statement of a room list
Statement(what, l) == [do |-> what, l |-> l]

\* The types of what the invariant speaks of
TypesOK ==
  /\ parent \in [Forums -> {"unknown", "eligible", "ineligible"}]
  /\ lookups \in [Topics -> [serial : Nat, callbacks : Seq(1 .. MaxJoins)]]
  /\ joins \in [Topics -> [serial : Nat, persistent : BOOLEAN, live : 0 .. MaxGeneration]]
  /\ lastTopicLookupSerial \in Nat /\ lastForumTopicJoinSerial \in 0 .. MaxJoins
  /\ expected \subseteq Topics /\ inProgress \subseteq Lists

\* The statements whose execution the invariant notices
OfLists == {"setInProgress", "request", "advance", "begin"}
OfTopics == {"resolve", "joinResult", "complete", "join", "fail", "parentChanged"}

\* Those that resolve a topic tell joins, and only those of room lists end with the list.
StatementOK(s) ==
  /\ s.do = "resolve" => s.callbacks \in Seq(1 .. MaxJoins)
  /\ s.do \in OfLists => "l" \in DOMAIN s
  /\ s.do \in OfTopics => "l" \notin DOMAIN s

\* The statements to execute are a sequence of such statements.
CallsOK == IsSequence(calls) /\ \A s \in todo : StatementOK(s)

\* A room list's record has the fields of a session.
SessionShape(s) ==
  /\ DOMAIN s = {"phase", "started", "forums", "waiting", "cursor", "requested", "seen", "safe"}
  /\ s = [field \in DOMAIN s |-> s[field]]

ShapesOK == DOMAIN sessions = Lists /\ sessions = [l \in Lists |-> sessions[l]]
            /\ \A l \in Lists : SessionShape(sessions[l])

\* The user interface sees a list in progress as long as it is active, or soon will.
ShownOK(l) ==
  /\ l \in inProgress => Active(l)
  /\ Active(l) => l \in inProgress \/ Statement("setInProgress", l) \in todo

\* Something makes an active list go on.
DrivenOK(l) ==
  Active(l) =>
    IF sessions[l].started
      THEN \/ sessions[l].waiting
           \/ Statement("request", l) \in todo \/ Statement("advance", l) \in todo
      ELSE ready => Statement("begin", l) \in todo

\* A list that is not active yet has not begun.
NewOK(l) == sessions[l].phase = "new" => ~ sessions[l].started

ListsOK == \A l \in Lists : ShownOK(l) /\ DrivenOK(l) /\ NewOK(l)

\* Somebody will tell the join: its lookup, or a statement that is still to be executed.
JoinTold(t) ==
  \/ joins[t].serial \in ToSet(lookups[t].callbacks)
  \/ \E s \in todo : s.do = "resolve" /\ s.t = t /\ joins[t].serial \in ToSet(s.callbacks)
  \/ \E s \in todo : s.do = "joinResult" /\ s.t = t /\ s.serial = joins[t].serial

\* The forum has changed, and its topics are still to be looked after.
Settling(t) == [do |-> "parentChanged", f |-> ForumOf[t]] \in todo

\* A join is one of a forum the account is in, or was until now, and it will be told.
JoinOK(t) ==
  joins[t] # NoJoin => (Eligible(t) \/ Settling(t)) /\ joins[t].serial # 0 /\ JoinTold(t)

\* TDLib still has to answer a pending lookup, or it is about to be completed.
LookupOK(t) ==
  Pending(t) =>
    \/ <<t, lookups[t].serial>> \in asked
    \/ \E s \in todo : s.do = "complete" /\ s.t = t /\ s.serial = lookups[t].serial

\* A join that was put off is taken up, waits for the forum, or is about to fail.
ExpectedOK(t) ==
  t \in expected =>
    \/ joins[t] # NoJoin
    \/ parent[ForumOf[t]] = "unknown"
    \/ Settling(t)
    \/ Eligible(t) /\ [do |-> "join", t |-> t] \in todo
    \/ [do |-> "fail", t |-> t] \in todo

\* A topic nobody waits for, nor can: the account is not in its forum.
Unwanted(t) == t \in Topics /\ ~ Eligible(t) /\ joins[t] = NoJoin

\* Only lookups of such topics are cancelled.
CancelsOK ==
  \A s \in todo :
    /\ s.do \in {"cancelLookup", "suspendTopic"} => Unwanted(s.t)
    /\ s.do = "suspend" => \A t \in Topics : ForumOf[t] = s.f => Unwanted(t)

JoinsOK == \A t \in Topics : JoinOK(t) /\ LookupOK(t) /\ ExpectedOK(t)

\* After shutdown nothing is owed.
FInv == TypesOK /\ CallsOK /\ ShapesOK /\ CancelsOK /\ (up => ListsOK /\ JoinsOK)

-----------------------------------------------------------------------------
(* Sequences *)

LEMMA LeastNat == \A T \in SUBSET Nat : T # {} => \E m \in T : \A k \in T : m <= k
<1> SUFFICES ASSUME NEW T \in SUBSET Nat, T # {} PROVE \E m \in T : \A k \in T : m <= k
  OBVIOUS
<1> DEFINE Less == {p \in Nat \X Nat : p[1] < p[2]}
<1>1. \A i, k \in Nat : k < i => <<k, i>> \in Less
  OBVIOUS
<1>2. IsWellFoundedOn(Less, Nat)
  <2>1. OpToRel(<, Nat) = Less
    BY DEF OpToRel
  <2> QED
    BY <2>1, NatLessThanWellFounded
<1> HIDE DEF Less
<1>3. PICK m \in T : \A k \in T : <<k, m>> \notin Less
  BY <1>2, WFMin
<1>4. \A k \in T : k \in Nat /\ m \in Nat /\ ~(k < m)
  BY <1>1, <1>3
<1> QED
  BY <1>4

\* Induction up to a bound, for the members of a set
LEMMA Climbing ==
  ASSUME NEW n \in Nat, NEW T, 0 \in T, \A k \in 1 .. n : k - 1 \in T => k \in T
  PROVE  \A k \in 0 .. n : k \in T
<1> DEFINE Bad == {k \in 0 .. n : k \notin T}
<1> SUFFICES ASSUME Bad # {} PROVE FALSE
  OBVIOUS
<1>0. Bad \in SUBSET Nat
  OBVIOUS
<1>1. PICK m \in Bad : \A k \in Bad : m <= k
  BY <1>0, LeastNat
<1>2. m \in 1 .. n /\ m - 1 \in 0 .. n /\ ~(m <= m - 1)
  BY <1>1
<1>3. m - 1 \in T
  BY <1>1, <1>2
<1> QED
  BY <1>1, <1>2, <1>3

LEMMA SequenceFacts ==
  ASSUME NEW s, IsSequence(s)
  PROVE  /\ Len(s) \in Nat /\ DOMAIN s = 1 .. Len(s) /\ ToSet(s) = {s[i] : i \in 1 .. Len(s)}
         /\ s # <<>> => Head(s) = s[1] /\ 1 \in 1 .. Len(s)
<1>1. Len(s) \in Nat /\ DOMAIN s = 1 .. Len(s)
  BY LenProperties DEF IsSequence
<1>2. ToSet(s) = {s[i] : i \in 1 .. Len(s)}
  BY <1>1 DEF ToSet
<1>3. s # <<>> => Head(s) = s[1] /\ 1 \in 1 .. Len(s)
  BY EmptySeq, <1>1 DEF IsSequence
<1> QED
  BY <1>1, <1>2, <1>3

LEMMA SeqIsSequence ==
  ASSUME NEW S, NEW s \in Seq(S)
  PROVE  IsSequence(s) /\ ToSet(s) \subseteq S
<1>1. Len(s) \in Nat /\ s \in [1 .. Len(s) -> S]
  BY LenProperties
<1>2. ToSet(s) = {s[i] : i \in 1 .. Len(s)}
  BY <1>1 DEF ToSet
<1>3. s \in [1 .. Len(s) -> ToSet(s)]
  BY <1>1, <1>2
<1>4. s \in Seq(ToSet(s))
  BY <1>1, <1>3, SeqDef
<1> QED
  BY <1>1, <1>2, <1>4 DEF IsSequence

LEMMA SequenceInto ==
  ASSUME NEW s, IsSequence(s), NEW S, ToSet(s) \subseteq S
  PROVE  s \in Seq(S)
BY SeqMonotonic DEF IsSequence

LEMMA ConcatSet ==
  ASSUME NEW a, NEW b, IsSequence(a), IsSequence(b)
  PROVE  IsSequence(a \o b) /\ ToSet(a \o b) = ToSet(a) \cup ToSet(b)
<1> DEFINE S == ToSet(a) \cup ToSet(b)
<1>1. a \in Seq(S) /\ b \in Seq(S)
  BY SequenceInto
<1> HIDE DEF S
<1>2. /\ a \o b \in Seq(S) /\ Len(a \o b) = Len(a) + Len(b)
      /\ \A i \in 1 .. Len(a) + Len(b) : (a \o b)[i] = IF i <= Len(a) THEN a[i] ELSE b[i - Len(a)]
  BY <1>1, ConcatProperties
<1> DEFINE c == a \o b
<1> HIDE DEF c
<1>3. IsSequence(c)
  BY <1>2, SeqIsSequence DEF c
<1>4. /\ Len(a) \in Nat /\ Len(b) \in Nat /\ Len(c) = Len(a) + Len(b)
      /\ ToSet(a) = {a[i] : i \in 1 .. Len(a)} /\ ToSet(b) = {b[i] : i \in 1 .. Len(b)}
      /\ ToSet(c) = {c[i] : i \in 1 .. Len(a) + Len(b)}
  BY <1>2, <1>3, SequenceFacts DEF c
<1>5. ASSUME NEW x \in ToSet(c) PROVE x \in ToSet(a) \cup ToSet(b)
  <2>1. PICK i \in 1 .. Len(a) + Len(b) : x = c[i]
    BY <1>4
  <2>2. CASE i <= Len(a)
    BY <1>2, <1>4, <2>1, <2>2 DEF c
  <2>3. CASE ~(i <= Len(a))
    <3>1. x = b[i - Len(a)] /\ i - Len(a) \in 1 .. Len(b)
      BY <1>2, <1>4, <2>1, <2>3 DEF c
    <3> QED
      BY <1>4, <3>1
  <2> QED
    BY <2>2, <2>3
<1>6. ASSUME NEW x \in ToSet(a) PROVE x \in ToSet(c)
  <2>1. PICK i \in 1 .. Len(a) : x = a[i]
    BY <1>4
  <2>2. i \in 1 .. Len(a) + Len(b) /\ x = c[i]
    BY <1>2, <1>4, <2>1 DEF c
  <2> QED
    BY <1>4, <2>2
<1>7. ASSUME NEW x \in ToSet(b) PROVE x \in ToSet(c)
  <2>1. PICK i \in 1 .. Len(b) : x = b[i]
    BY <1>4
  <2>2. i + Len(a) \in 1 .. Len(a) + Len(b) /\ ~(i + Len(a) <= Len(a)) /\ i + Len(a) - Len(a) = i
    BY <1>4, <2>1
  <2>3. x = c[i + Len(a)]
    BY <1>2, <2>1, <2>2 DEF c
  <2> QED
    BY <1>4, <2>2, <2>3
<1> QED
  BY <1>3, <1>5, <1>6, <1>7 DEF c

LEMMA EmptySet == IsSequence(<<>>) /\ ToSet(<<>>) = {}
<1>1. <<>> \in Seq({0}) /\ Len(<<>>) = 0
  BY EmptySeq
<1>2. IsSequence(<<>>)
  BY <1>1, SeqIsSequence
<1>3. ToSet(<<>>) = {<<>>[i] : i \in 1 .. 0}
  BY <1>1, <1>2, SequenceFacts
<1> QED
  BY <1>2, <1>3

LEMMA SingleSet ==
  ASSUME NEW x
  PROVE  IsSequence(<<x>>) /\ ToSet(<<x>>) = {x}
<1>1. <<x>> \in Seq({x})
  OBVIOUS
<1>2. IsSequence(<<x>>) /\ ToSet(<<x>>) = {<<x>>[i] : i \in 1 .. 1}
  BY <1>1, SeqIsSequence, SequenceFacts
<1> QED
  BY <1>2

LEMMA TailSet ==
  ASSUME NEW s, IsSequence(s), s # <<>>
  PROVE  /\ IsSequence(Tail(s)) /\ Head(s) \in ToSet(s)
         /\ ToSet(s) = {Head(s)} \cup ToSet(Tail(s))
<1>1. /\ Head(s) \in ToSet(s) /\ Tail(s) \in Seq(ToSet(s))
      /\ Len(Tail(s)) = Len(s) - 1 /\ \A i \in 1 .. Len(Tail(s)) : Tail(s)[i] = s[i + 1]
  BY HeadTailProperties DEF IsSequence
<1>2. IsSequence(Tail(s)) /\ ToSet(Tail(s)) \subseteq ToSet(s)
  BY <1>1, SeqIsSequence
<1>3. /\ Len(s) \in Nat /\ ToSet(s) = {s[i] : i \in 1 .. Len(s)} /\ Head(s) = s[1]
      /\ ToSet(Tail(s)) = {Tail(s)[i] : i \in 1 .. Len(s) - 1}
  BY <1>1, <1>2, SequenceFacts
<1>4. ASSUME NEW x \in ToSet(s), x # Head(s) PROVE x \in ToSet(Tail(s))
  <2>1. PICK i \in 1 .. Len(s) : x = s[i] /\ i # 1
    BY <1>3, <1>4
  <2>2. i - 1 \in 1 .. Len(s) - 1 /\ i - 1 + 1 = i
    BY <1>3, <2>1
  <2> QED
    BY <1>1, <1>3, <2>1, <2>2
<1> QED
  BY <1>1, <1>2, <1>4

\* A sequence of the members of a set
LEMMA SetToSeqSet ==
  ASSUME NEW S, IsFiniteSet(S)
  PROVE  IsSequence(SetToSeq(S)) /\ ToSet(SetToSeq(S)) = S
<1> DEFINE n == Cardinality(S)
           s == SetToSeq(S)
<1>1. n \in Nat /\ ExistsBijection(1 .. n, S)
  BY FS_CardinalityType
<1>2. PICK f : f \in Bijection(1 .. n, S)
  BY <1>1 DEF ExistsBijection
<1>3. f \in [1 .. n -> S] /\ IsInjective(f)
  BY <1>2 DEF Bijection, Injection
<1>4. s \in [1 .. n -> S] /\ IsInjective(s)
  BY <1>3 DEF SetToSeq
<1> HIDE DEF s
<1>5. s \in Injection(1 .. n, S)
  BY <1>4 DEF Injection
<1>6. Cardinality(1 .. n) = n
  BY <1>1, FS_Interval
<1>7. s \in Surjection(1 .. n, S)
  BY <1>5, <1>6, FS_Injection
<1>8. \A x \in S : \E i \in 1 .. n : s[i] = x
  BY <1>7 DEF Surjection
<1>9. s \in Seq(S)
  BY <1>1, <1>4, SeqDef
<1>10. IsSequence(s) /\ ToSet(s) \subseteq S /\ DOMAIN s = 1 .. n
  BY <1>4, <1>9, SeqIsSequence
<1>11. S \subseteq ToSet(s)
  BY <1>8, <1>10 DEF ToSet
<1> QED
  BY <1>10, <1>11 DEF s

\* What FlattenSeq computes
IsFlat(f, ss, n) == f = [i \in 1 .. n |-> IF i = 1 THEN ss[i] ELSE f[i - 1] \o ss[i]]

LEMMA FlatExists ==
  ASSUME NEW ss, NEW n \in Nat
  PROVE  \E f : IsFlat(f, ss, n)
<1> DEFINE T == {k \in Nat : \E f : IsFlat(f, ss, k)}
<1>1. 0 \in T
  <2>1. IsFlat([i \in 1 .. 0 |-> <<>>], ss, 0)
    BY DEF IsFlat
  <2> QED
    BY <2>1
<1>2. ASSUME NEW m \in 1 .. n, m - 1 \in T PROVE m \in T
  <2>1. PICK f : IsFlat(f, ss, m - 1)
    BY <1>2
  <2> DEFINE g == [i \in 1 .. m |->
                     IF i < m THEN f[i] ELSE IF i = 1 THEN ss[i] ELSE f[i - 1] \o ss[i]]
  <2>2. \A i \in 1 .. m : g[i] = IF i = 1 THEN ss[i] ELSE g[i - 1] \o ss[i]
    <3> TAKE i \in 1 .. m
    <3>1. CASE i < m
      <4>1. i \in 1 .. m - 1 /\ (i # 1 => i - 1 \in 1 .. m - 1 /\ i - 1 \in 1 .. m /\ i - 1 < m)
        BY <3>1
      <4>2. f[i] = IF i = 1 THEN ss[i] ELSE f[i - 1] \o ss[i]
        BY <2>1, <4>1 DEF IsFlat
      <4> QED
        BY <3>1, <4>1, <4>2
    <3>2. CASE i = m
      <4>1. i # 1 => i - 1 \in 1 .. m /\ i - 1 < m
        BY <3>2
      <4>2. i # 1 => g[i - 1] = f[i - 1]
        BY <4>1
      <4> QED
        BY <3>2, <4>2
    <3> QED
      BY <3>1, <3>2
  <2> HIDE DEF g
  <2>3. DOMAIN g = 1 .. m /\ g = [i \in DOMAIN g |-> g[i]]
    BY DEF g
  <2>4. IsFlat(g, ss, m)
    BY <2>2, <2>3 DEF IsFlat
  <2> QED
    BY <2>4
<1> HIDE DEF T
<1>3. n \in T
  BY <1>1, <1>2, Climbing
<1> QED
  BY <1>3 DEF T

LEMMA FlattenIs ==
  ASSUME NEW ss, Len(ss) \in Nat, Len(ss) # 0
  PROVE  \E f : IsFlat(f, ss, Len(ss)) /\ FlattenSeq(ss) = f[Len(ss)]
<1> DEFINE f == CHOOSE f : IsFlat(f, ss, Len(ss))
<1>1. IsFlat(f, ss, Len(ss))
  BY FlatExists
<1>2. FlattenSeq(ss) = f[Len(ss)]
  BY DEF FlattenSeq, IsFlat
<1> QED
  BY <1>1, <1>2

\* Sequences one after the other
LEMMA FlattenedSet ==
  ASSUME NEW ss, IsSequence(ss), \A i \in DOMAIN ss : IsSequence(ss[i])
  PROVE  IsSequence(FlattenSeq(ss)) /\ ToSet(FlattenSeq(ss)) = UNION {ToSet(ss[i]) : i \in DOMAIN ss}
<1>0. PICK n : n = Len(ss)
  OBVIOUS
<1>1. n \in Nat /\ DOMAIN ss = 1 .. n
  BY <1>0, SequenceFacts
<1>2. CASE n = 0
  <2>1. FlattenSeq(ss) = ss /\ DOMAIN ss = {} /\ ToSet(ss) = {}
    BY <1>0, <1>1, <1>2 DEF FlattenSeq, ToSet
  <2> QED
    BY <2>1
<1>3. CASE n # 0
  <2>1. PICK f : IsFlat(f, ss, n) /\ FlattenSeq(ss) = f[n]
    BY <1>0, <1>1, <1>3, FlattenIs
  <2>2. \A i \in 1 .. n : f[i] = IF i = 1 THEN ss[i] ELSE f[i - 1] \o ss[i]
    BY <2>1 DEF IsFlat
  <2> DEFINE First(k) == UNION {ToSet(ss[i]) : i \in 1 .. k}
             Good(k) == IsSequence(f[k]) /\ ToSet(f[k]) = First(k)
             T == {k \in 0 .. n : k = 0 \/ Good(k)}
  <2>3. ASSUME NEW k \in 1 .. n, k - 1 \in T PROVE k \in T
    <3>1. IsSequence(ss[k])
      BY <1>1
    <3>2. CASE k = 1
      <4>1. f[k] = ss[k] /\ 1 .. k = {k}
        BY <2>2, <3>2
      <4> QED
        BY <3>1, <4>1
    <3>3. CASE k # 1
      <4>1. f[k] = f[k - 1] \o ss[k] /\ Good(k - 1)
        <5>1. f[k] = f[k - 1] \o ss[k]
          BY <2>2, <3>3
        <5>2. k - 1 # 0
          BY <1>1, <3>3
        <5>3. k - 1 = 0 \/ Good(k - 1)
          <6> HIDE DEF Good
          <6> QED
            BY <2>3
        <5> QED
          BY <5>1, <5>2, <5>3
      <4>2. First(k) = First(k - 1) \cup ToSet(ss[k])
        <5>1. 1 .. k = (1 .. k - 1) \cup {k}
          BY <1>1
        <5> QED
          BY <5>1
      <4>3. Good(k)
        BY <3>1, <4>1, <4>2, ConcatSet
      <4> QED
        BY <4>3, <1>1
    <3> QED
      BY <3>2, <3>3
  <2>4. 0 \in T
    BY <1>1
  <2> HIDE DEF T
  <2>5. n \in T
    BY <1>1, <2>3, <2>4, Climbing
  <2>6. Good(n)
    BY <1>3, <2>5 DEF T
  <2> QED
    BY <1>1, <2>1, <2>6
<1> QED
  BY <1>2, <1>3

\* What Settled computes
IsSettled(f, s, n) ==
  f = [k \in 0 .. n |->
         IF k = 0 THEN <<>>
         ELSE IF s[n - k + 1].do = "handlers" /\ (f[k - 1] = <<>> \/ Head(f[k - 1]).do = "handlers")
                THEN f[k - 1] ELSE <<s[n - k + 1]>> \o f[k - 1]]

LEMMA SettledExists ==
  ASSUME NEW s, NEW n \in Nat
  PROVE  \E f : IsSettled(f, s, n)
<1> DEFINE G(r, x) == IF x.do = "handlers" /\ (r = <<>> \/ Head(r).do = "handlers")
                        THEN r ELSE <<x>> \o r
           Upto(f, m) == f = [k \in 0 .. m |-> IF k = 0 THEN <<>> ELSE G(f[k - 1], s[n - k + 1])]
           T == {m \in Nat : \E f : Upto(f, m)}
<1> HIDE DEF G
<1>1. 0 \in T
  <2>1. Upto([k \in 0 .. 0 |-> <<>>], 0)
    OBVIOUS
  <2> QED
    BY <2>1
<1>2. ASSUME NEW m \in 1 .. n, m - 1 \in T PROVE m \in T
  <2>1. PICK f : Upto(f, m - 1)
    BY <1>2
  <2> DEFINE g == [k \in 0 .. m |-> IF k < m THEN f[k] ELSE G(f[k - 1], s[n - k + 1])]
  <2>2. \A k \in 0 .. m : g[k] = IF k = 0 THEN <<>> ELSE G(g[k - 1], s[n - k + 1])
    <3> TAKE k \in 0 .. m
    <3>1. CASE k < m
      <4>1. k \in 0 .. m - 1 /\ (k # 0 => k - 1 \in 0 .. m - 1 /\ k - 1 \in 0 .. m /\ k - 1 < m)
        BY <3>1
      <4>2. f[k] = IF k = 0 THEN <<>> ELSE G(f[k - 1], s[n - k + 1])
        BY <2>1, <4>1
      <4>3. k # 0 => g[k - 1] = f[k - 1]
        BY <4>1
      <4> QED
        BY <3>1, <4>1, <4>2, <4>3
    <3>2. CASE k = m
      <4>1. k - 1 \in 0 .. m /\ k - 1 < m /\ k # 0 /\ ~(k < m)
        BY <3>2
      <4>2. g[k - 1] = f[k - 1]
        BY <4>1
      <4> QED
        BY <3>2, <4>1, <4>2
    <3> QED
      BY <3>1, <3>2
  <2> HIDE DEF g
  <2>3. DOMAIN g = 0 .. m /\ g = [k \in DOMAIN g |-> g[k]]
    BY DEF g
  <2>4. Upto(g, m)
    BY <2>2, <2>3
  <2> HIDE DEF Upto
  <2> QED
    BY <2>4
<1>3. n \in T
  <2> HIDE DEF T
  <2> QED
    BY <1>1, <1>2, Climbing
<1>4. PICK f : Upto(f, n)
  BY <1>3
<1> QED
  BY <1>4 DEF IsSettled, G

LEMMA SettledIs ==
  ASSUME NEW s
  PROVE  LET n == Len(s) IN
         n \in Nat => \E f : IsSettled(f, s, n) /\ Settled(s) = f[n]
<1> SUFFICES ASSUME Len(s) \in Nat PROVE \E f : IsSettled(f, s, Len(s)) /\ Settled(s) = f[Len(s)]
  OBVIOUS
<1> DEFINE f == CHOOSE f : IsSettled(f, s, Len(s))
<1>1. IsSettled(f, s, Len(s))
  BY SettledExists
<1>2. Settled(s) = f[Len(s)]
  BY DEF Settled, IsSettled
<1> QED
  BY <1>1, <1>2

\* Only handlers are left out.
LEMMA SettledSet ==
  ASSUME NEW s, IsSequence(s)
  PROVE  /\ IsSequence(Settled(s)) /\ ToSet(Settled(s)) \subseteq ToSet(s)
         /\ \A x \in ToSet(s) : x.do # "handlers" => x \in ToSet(Settled(s))
<1>0. PICK n : n = Len(s)
  OBVIOUS
<1>1. n \in Nat /\ ToSet(s) = {s[i] : i \in 1 .. n}
  BY <1>0, SequenceFacts
<1>2. PICK f : IsSettled(f, s, n) /\ Settled(s) = f[n]
  BY <1>0, <1>1, SettledIs
<1> DEFINE X(k) == s[n - k + 1]
           Out(k) == X(k).do = "handlers" /\ (f[k - 1] = <<>> \/ Head(f[k - 1]).do = "handlers")
<1>3. f[0] = <<>> /\ \A k \in 1 .. n : f[k] = IF Out(k) THEN f[k - 1] ELSE <<X(k)>> \o f[k - 1]
  <2>1. f[0] = <<>>
    BY <1>1, <1>2 DEF IsSettled
  <2>2. ASSUME NEW k \in 1 .. n PROVE f[k] = IF Out(k) THEN f[k - 1] ELSE <<X(k)>> \o f[k - 1]
    <3>1. k \in 0 .. n /\ k # 0
      BY <1>1
    <3> QED
      BY <1>2, <3>1 DEF IsSettled
  <2> QED
    BY <2>1, <2>2
<1> DEFINE Good(k) == /\ IsSequence(f[k]) /\ ToSet(f[k]) \subseteq ToSet(s)
                      /\ \A i \in 1 .. k : X(i).do # "handlers" => X(i) \in ToSet(f[k])
           T == {k \in 0 .. n : Good(k)}
<1>4. 0 \in T
  BY <1>1, <1>3, EmptySet
<1>5. ASSUME NEW k \in 1 .. n, k - 1 \in T PROVE k \in T
  <2>1. Good(k - 1) /\ X(k) \in ToSet(s) /\ \A i \in 1 .. k : i \in 1 .. k - 1 \/ i = k
    BY <1>1, <1>5
  <2>2. f[k] = IF Out(k) THEN f[k - 1] ELSE <<X(k)>> \o f[k - 1]
    BY <1>3
  <2>3. CASE Out(k)
    <3>1. f[k] = f[k - 1] /\ X(k).do = "handlers"
      BY <2>2, <2>3
    <3>2. Good(k)
      <4> HIDE DEF X
      <4> QED
        BY <2>1, <3>1
    <3> QED
      BY <3>2, <1>1
  <2>4. CASE ~ Out(k)
    <3> HIDE DEF Out, X
    <3>1. f[k] = <<X(k)>> \o f[k - 1]
      BY <2>2, <2>4
    <3>2. IsSequence(f[k]) /\ ToSet(f[k]) = {X(k)} \cup ToSet(f[k - 1])
      BY <2>1, <3>1, SingleSet, ConcatSet
    <3>3. Good(k)
      BY <2>1, <3>2
    <3> QED
      BY <3>3, <1>1
  <2> QED
    BY <2>3, <2>4
<1>6. Good(n)
  <2>1. n \in T
    <3> HIDE DEF T
    <3> QED
      BY <1>1, <1>4, <1>5, Climbing
  <2> QED
    BY <2>1
<1>7. ASSUME NEW x \in ToSet(s), x.do # "handlers" PROVE x \in ToSet(Settled(s))
  <2>1. PICK i \in 1 .. n : x = s[i]
    BY <1>1
  <2>2. n - i + 1 \in 1 .. n /\ n - (n - i + 1) + 1 = i
    BY <1>1
  <2>3. X(n - i + 1) = x
    BY <2>1, <2>2
  <2> HIDE DEF X
  <2> QED
    BY <1>2, <1>6, <1>7, <2>2, <2>3
<1> QED
  BY <1>2, <1>6, <1>7

-----------------------------------------------------------------------------
(* What a step leaves to execute *)

\* The head has been executed, and the statements of P are to be executed now.
Does(P) ==
  /\ IsSequence(calls') /\ todo' \subseteq todo \cup P
  /\ \A s \in P : s.do # "handlers" => s \in todo'
  /\ \A s \in todo : s.do # "handlers" /\ (calls # <<>> => s # Head(calls)) => s \in todo'

\* Statements that any step may add
Cancels == {"cancelLookup", "suspendTopic", "suspend"}

Fine(P) == \A s \in P : StatementOK(s) /\ s.do \notin Cancels

FineSeq(q) == IsSequence(q) /\ Fine(ToSet(q))

\* The lists of statements that the steps replace calls by
LEMMA SettlesTo ==
  ASSUME IsSequence(calls), NEW q, IsSequence(q), calls' = Settled(q), NEW P,
         ToSet(q) \subseteq todo \cup P, P \subseteq ToSet(q),
         calls # <<>> => ToSet(Tail(calls)) \subseteq ToSet(q)
  PROVE  Does(P)
<1>1. IsSequence(calls') /\ todo' \subseteq todo \cup P
  BY SettledSet DEF todo
<1>2. \A s \in P : s.do # "handlers" => s \in todo'
  BY SettledSet DEF todo
<1>3. ASSUME NEW s \in todo, s.do # "handlers", calls # <<>> => s # Head(calls)
      PROVE  s \in todo'
  <2>1. calls # <<>>
    BY EmptySet DEF todo
  <2>2. s \in ToSet(Tail(calls))
    BY <1>3, <2>1, TailSet DEF todo
  <2> QED
    BY <1>3, <2>1, <2>2, SettledSet DEF todo
<1> QED
  BY <1>1, <1>2, <1>3 DEF Does

LEMMA CallDoes ==
  ASSUME IsSequence(calls), calls # <<>>, NEW q, IsSequence(q), Call(q)
  PROVE  Does(ToSet(q))
<1>1. IsSequence(Tail(calls)) /\ ToSet(Tail(calls)) \subseteq todo
  BY TailSet DEF todo
<1>2. IsSequence(q \o Tail(calls)) /\ ToSet(q \o Tail(calls)) = ToSet(q) \cup ToSet(Tail(calls))
  BY <1>1, ConcatSet
<1> QED
  BY <1>1, <1>2, SettlesTo DEF Call

LEMMA UpdateDoes ==
  ASSUME calls = <<>>, NEW q, IsSequence(q), calls' = q \/ calls' = Settled(q)
  PROVE  Does(ToSet(q))
<1>1. IsSequence(calls) /\ todo = {}
  BY EmptySet DEF todo
<1>2. CASE calls' = Settled(q)
  BY <1>1, <1>2, SettlesTo
<1>3. CASE calls' = q
  BY <1>1, <1>3 DEF Does, todo
<1> QED
  BY <1>2, <1>3

LEMMA OutsideDoes ==
  ASSUME IsSequence(calls), NEW q, IsSequence(q), calls' = Settled(q \o calls)
  PROVE  Does(ToSet(q))
<1>1. IsSequence(q \o calls) /\ ToSet(q \o calls) = ToSet(q) \cup todo
  BY ConcatSet DEF todo
<1>2. calls # <<>> => ToSet(Tail(calls)) \subseteq todo
  BY TailSet DEF todo
<1> QED
  BY <1>1, <1>2, SettlesTo

\* Statements that any step may add: built from those that are
LEMMA FineEmpty == FineSeq(<<>>)
BY EmptySet DEF FineSeq, Fine

LEMMA FineSingle ==
  ASSUME NEW x, StatementOK(x), x.do \notin Cancels
  PROVE  FineSeq(<<x>>)
BY SingleSet DEF FineSeq, Fine

LEMMA FineConcat ==
  ASSUME NEW a, NEW b, FineSeq(a), FineSeq(b)
  PROVE  FineSeq(a \o b)
BY ConcatSet DEF FineSeq, Fine

LEMMA FineStatements ==
  /\ FineSeq(Handlers)
  /\ \A what, x : what \notin Cancels \cup {"resolve"} =>
       /\ what \notin OfLists => FineSeq(Topic(what, x)) /\ FineSeq(Forum(what, x))
       /\ what \notin OfTopics => FineSeq(List(what, x))
  /\ \A what, x, y : what \notin Cancels \cup OfTopics => FineSeq(ListTopic(what, x, y))
  /\ \A x, y, z : FineSeq(Complete(x, y, z))
  /\ \A x, y : FineSeq(Open(x, y)) /\ FineSeq(Opened(x, y)) /\ FineSeq(Show(x, y))
<1>1. FineSeq(Handlers)
  BY FineSingle DEF Handlers, StatementOK, OfLists, OfTopics, Cancels
<1>2. ASSUME NEW what, NEW x, what \notin Cancels \cup {"resolve"}, what \notin OfLists
      PROVE  FineSeq(Topic(what, x)) /\ FineSeq(Forum(what, x))
  <2>1. FineSeq(Topic(what, x))
    BY <1>2, FineSingle DEF Topic, StatementOK
  <2>2. FineSeq(Forum(what, x))
    BY <1>2, FineSingle DEF Forum, StatementOK
  <2> QED
    BY <2>1, <2>2
<1>3. ASSUME NEW what, NEW x, what \notin Cancels \cup {"resolve"}, what \notin OfTopics
      PROVE  FineSeq(List(what, x))
  BY <1>3, FineSingle DEF List, StatementOK
<1>4. ASSUME NEW what, NEW x, NEW y, what \notin Cancels \cup OfTopics
      PROVE  FineSeq(ListTopic(what, x, y))
  BY <1>4, FineSingle DEF ListTopic, StatementOK, OfTopics
<1>5. ASSUME NEW x, NEW y, NEW z PROVE FineSeq(Complete(x, y, z))
  BY FineSingle DEF Complete, StatementOK, OfLists, OfTopics, Cancels
<1>6. ASSUME NEW x, NEW y
      PROVE  FineSeq(Open(x, y)) /\ FineSeq(Opened(x, y)) /\ FineSeq(Show(x, y))
  <2>1. FineSeq(Open(x, y))
    BY FineSingle DEF Open, StatementOK, OfLists, OfTopics, Cancels
  <2>2. FineSeq(Opened(x, y))
    BY FineSingle DEF Opened, StatementOK, OfLists, OfTopics, Cancels
  <2>3. FineSeq(Show(x, y))
    BY FineSingle DEF Show, StatementOK, OfLists, OfTopics, Cancels
  <2> QED
    BY <2>1, <2>2, <2>3
<1> QED
  BY <1>1, <1>2, <1>3, <1>4, <1>5, <1>6

LEMMA FineResolve ==
  ASSUME NEW t, NEW callbacks \in Seq(1 .. MaxJoins)
  PROVE  FineSeq(Resolve(t, callbacks))
BY FineSingle DEF Resolve, StatementOK, OfLists, OfTopics, Cancels

\* A statement for each member of a set
LEMMA EachSet ==
  ASSUME NEW S, IsFiniteSet(S), NEW ss, ss = [i \in DOMAIN SetToSeq(S) |-> ss[i]],
         \A i \in DOMAIN SetToSeq(S) : IsSequence(ss[i])
  PROVE  /\ IsSequence(FlattenSeq(ss))
         /\ ToSet(FlattenSeq(ss)) = UNION {ToSet(ss[i]) : i \in DOMAIN SetToSeq(S)}
         /\ S = {SetToSeq(S)[i] : i \in DOMAIN SetToSeq(S)}
<1>1. IsSequence(SetToSeq(S)) /\ ToSet(SetToSeq(S)) = S
  BY SetToSeqSet
<1>2. S = {SetToSeq(S)[i] : i \in DOMAIN SetToSeq(S)}
  BY <1>1 DEF ToSet
<1>3. PICK n \in Nat : DOMAIN SetToSeq(S) = 1 .. n
  BY <1>1, SequenceFacts
<1>4. PICK U : U = {ss[i] : i \in 1 .. n}
  OBVIOUS
<1>5. ss \in [1 .. n -> U]
  BY <1>3, <1>4
<1>6. ss \in Seq(U) /\ DOMAIN ss = 1 .. n
  BY <1>5, SeqDef
<1>7. IsSequence(ss)
  BY <1>6, SeqIsSequence
<1>8. \A i \in DOMAIN ss : IsSequence(ss[i])
  BY <1>3, <1>6
<1> QED
  BY <1>2, <1>3, <1>6, <1>7, <1>8, FlattenedSet

LEMMA EachTopicSet ==
  ASSUME NEW what, NEW ts \in SUBSET Topics
  PROVE  /\ IsSequence(EachTopic(what, ts))
         /\ ToSet(EachTopic(what, ts)) = {[do |-> what, t |-> t] : t \in ts}
<1> DEFINE s == SetToSeq(ts)
           ss == [i \in DOMAIN s |-> Topic(what, s[i])]
<1>1. IsFiniteSet(ts)
  BY FiniteAssumption, FS_Subset
<1>2. \A i \in DOMAIN s : ss[i] = <<[do |-> what, t |-> s[i]]>>
  BY DEF Topic
<1>3. ss = [i \in DOMAIN s |-> ss[i]]
  OBVIOUS
<1>4. EachTopic(what, ts) = FlattenSeq(ss)
  BY DEF EachTopic, ForEach
<1> HIDE DEF ss
<1>5. \A i \in DOMAIN s : IsSequence(ss[i]) /\ ToSet(ss[i]) = {[do |-> what, t |-> s[i]]}
  BY <1>2, SingleSet
<1>6. /\ IsSequence(FlattenSeq(ss))
      /\ ToSet(FlattenSeq(ss)) = UNION {ToSet(ss[i]) : i \in DOMAIN s}
      /\ ts = {s[i] : i \in DOMAIN s}
  BY <1>1, <1>3, <1>5, EachSet
<1> HIDE DEF s
<1>7. UNION {ToSet(ss[i]) : i \in DOMAIN s} = {[do |-> what, t |-> t] : t \in ts}
  BY <1>5, <1>6
<1> QED
  BY <1>4, <1>6, <1>7

LEMMA EachFine ==
  ASSUME NEW S, IsFiniteSet(S), NEW ss, ss = [i \in DOMAIN SetToSeq(S) |-> ss[i]],
         \A i \in DOMAIN SetToSeq(S) : FineSeq(ss[i])
  PROVE  FineSeq(FlattenSeq(ss))
<1>1. /\ IsSequence(FlattenSeq(ss))
      /\ ToSet(FlattenSeq(ss)) = UNION {ToSet(ss[i]) : i \in DOMAIN SetToSeq(S)}
  BY EachSet DEF FineSeq
<1>2. Fine(UNION {ToSet(ss[i]) : i \in DOMAIN SetToSeq(S)})
  BY DEF FineSeq, Fine
<1> QED
  BY <1>1, <1>2 DEF FineSeq

-----------------------------------------------------------------------------
(* What a step leaves as it is *)

\* The statement at the head is of no topic t, nor of its forum, nor list l, as far as the
\* invariant knows.
SparesTopic(t) ==
  calls # <<>> => Head(calls).do \notin OfTopics \ {"parentChanged"} \/ Head(calls).t # t
SparesForum(t) == calls # <<>> => Head(calls).do # "parentChanged" \/ Head(calls).f # ForumOf[t]
SparesList(l) == calls # <<>> => Head(calls).do \notin OfLists \/ Head(calls).l # l

\* Cancellations are only added for topics nobody waits for.
Fits(P) ==
  \A s \in P : /\ StatementOK(s)
               /\ s.do \in {"cancelLookup", "suspendTopic"} => Unwanted(s.t)'
               /\ s.do = "suspend" => \A t \in Topics : ForumOf[t] = s.f => Unwanted(t)'

\* Nobody begins to wait for a topic of a forum the account is not in.
NoneStarts == \A t \in Topics : ~ Eligible(t) /\ joins[t] = NoJoin => joins'[t] = NoJoin

TopicOK(t) == JoinOK(t) /\ LookupOK(t) /\ ExpectedOK(t)
ListOK(l) == ShownOK(l) /\ DrivenOK(l) /\ NewOK(l)

LEMMA FineFits == \A P : Fine(P) => Fits(P)
BY DEF Fine, Fits, Cancels

LEMMA CallsKept ==
  ASSUME CallsOK, NEW P, Does(P), Fits(P)
  PROVE  CallsOK'
BY DEF CallsOK, Does, Fits

LEMMA CancelsKept ==
  ASSUME CancelsOK, NEW P, Does(P), Fits(P), (UNCHANGED parent /\ NoneStarts) \/ todo = {}
  PROVE  CancelsOK'
<1> SUFFICES ASSUME NEW s \in todo'
             PROVE  /\ s.do \in {"cancelLookup", "suspendTopic"} => Unwanted(s.t)'
                    /\ s.do = "suspend" => \A t \in Topics : ForumOf[t] = s.f => Unwanted(t)'
  BY DEF CancelsOK
<1>1. UNCHANGED parent /\ NoneStarts => \A t : Unwanted(t) => Unwanted(t)'
  BY DEF Eligible, Unwanted, NoneStarts, NoJoin
<1>2. CASE s \in P
  BY <1>2 DEF Fits
<1>3. CASE s \in todo
  BY <1>1, <1>3 DEF CancelsOK
<1> QED
  BY <1>2, <1>3 DEF Does

LEMMA ListKept ==
  ASSUME NEW l, ListOK(l), NEW P, Does(P), SparesList(l), ready' = ready,
         sessions'[l] = sessions[l], l \in inProgress' <=> l \in inProgress
  PROVE  ListOK(l)'
<1>1. ASSUME NEW what \in OfLists, Statement(what, l) \in todo
      PROVE  Statement(what, l) \in todo'
  BY <1>1 DEF Does, SparesList, OfLists, Statement
<1>2. Active(l)' = Active(l)
  BY DEF Active
<1>3. /\ \A what \in {"setInProgress", "request", "advance", "begin"} :
           Statement(what, l) \in todo => Statement(what, l) \in todo'
      /\ \A what : Statement(what, l)' = Statement(what, l)
  BY <1>1 DEF OfLists, Statement
<1>4. ShownOK(l)'
  BY <1>2, <1>3 DEF ListOK, ShownOK
<1>5. DrivenOK(l)'
  BY <1>2, <1>3 DEF ListOK, DrivenOK
<1> QED
  BY <1>4, <1>5 DEF ListOK, NewOK

LEMMA SettlingKept ==
  ASSUME NEW t, Settling(t), NEW P, Does(P), SparesForum(t)
  PROVE  Settling(t)'
BY DEF Settling, Does, SparesForum

LEMMA ToldKept ==
  ASSUME NEW t, JoinTold(t), NEW P, Does(P), SparesTopic(t),
         joins'[t] = joins[t], lookups'[t] = lookups[t]
  PROVE  JoinTold(t)'
<1>1. CASE joins[t].serial \in ToSet(lookups[t].callbacks)
  <2>1. joins'[t].serial \in ToSet(lookups'[t].callbacks)
    BY <1>1
  <2> QED
    BY <2>1 DEF JoinTold, ToSet
<1>2. ASSUME NEW s \in todo, s.do = "resolve", s.t = t, joins[t].serial \in ToSet(s.callbacks)
      PROVE  JoinTold(t)'
  <2>1. s \in todo'
    BY <1>2 DEF Does, SparesTopic, OfTopics
  <2> QED
    BY <1>2, <2>1 DEF JoinTold, ToSet
<1>3. ASSUME NEW s \in todo, s.do = "joinResult", s.t = t, s.serial = joins[t].serial
      PROVE  JoinTold(t)'
  <2>1. s \in todo'
    BY <1>3 DEF Does, SparesTopic, OfTopics
  <2> QED
    BY <1>3, <2>1 DEF JoinTold
<1> QED
  BY <1>1, <1>2, <1>3 DEF JoinTold

LEMMA JoinKept ==
  ASSUME NEW t, JoinOK(t), NEW P, Does(P), SparesTopic(t), SparesForum(t),
         Eligible(t) => Eligible(t)' \/ Settling(t)',
         joins'[t] = joins[t], lookups'[t] = lookups[t]
  PROVE  JoinOK(t)'
BY SettlingKept, ToldKept DEF JoinOK, NoJoin

LEMMA LookupKept ==
  ASSUME NEW t, LookupOK(t), NEW P, Does(P), SparesTopic(t), lookups'[t] = lookups[t],
         <<t, lookups[t].serial>> \in asked => <<t, lookups[t].serial>> \in asked'
  PROVE  LookupOK(t)'
<1>1. SUFFICES ASSUME Pending(t) PROVE LookupOK(t)'
  BY DEF LookupOK, Pending, NoLookup
<1>2. CASE <<t, lookups[t].serial>> \in asked
  BY <1>2 DEF LookupOK
<1>3. ASSUME NEW s \in todo, s.do = "complete", s.t = t, s.serial = lookups[t].serial
      PROVE  LookupOK(t)'
  <2>1. s \in todo'
    BY <1>3 DEF Does, SparesTopic, OfTopics
  <2> QED
    BY <1>3, <2>1 DEF LookupOK
<1> QED
  BY <1>1, <1>2, <1>3 DEF LookupOK

LEMMA ExpectedKept ==
  ASSUME NEW t, ExpectedOK(t), NEW P, Does(P), SparesTopic(t), SparesForum(t), UNCHANGED parent,
         joins'[t] = joins[t], t \in expected' => t \in expected
  PROVE  ExpectedOK(t)'
<1>1. SUFFICES ASSUME t \in expected PROVE ExpectedOK(t)'
  BY DEF ExpectedOK
<1>2. joins[t] # NoJoin \/ parent[ForumOf[t]] = "unknown" => ExpectedOK(t)'
  BY DEF ExpectedOK, NoJoin
<1>3. CASE Eligible(t) /\ [do |-> "join", t |-> t] \in todo
  <2>1. [do |-> "join", t |-> t] \in todo'
    BY <1>3 DEF Does, SparesTopic, OfTopics
  <2> QED
    BY <1>3, <2>1 DEF ExpectedOK, Eligible
<1>4. CASE [do |-> "fail", t |-> t] \in todo
  <2>1. [do |-> "fail", t |-> t] \in todo'
    BY <1>4 DEF Does, SparesTopic, OfTopics
  <2> QED
    BY <2>1 DEF ExpectedOK
<1>5. CASE Settling(t)
  BY <1>5, SettlingKept DEF ExpectedOK
<1> QED
  BY <1>1, <1>2, <1>3, <1>4, <1>5 DEF ExpectedOK

LEMMA TopicKept ==
  ASSUME NEW t, TopicOK(t), NEW P, Does(P), SparesTopic(t), SparesForum(t), UNCHANGED parent,
         joins'[t] = joins[t], lookups'[t] = lookups[t],
         <<t, lookups[t].serial>> \in asked => <<t, lookups[t].serial>> \in asked',
         t \in expected' => t \in expected
  PROVE  TopicOK(t)'
BY JoinKept, LookupKept, ExpectedKept DEF TopicOK, Eligible

\* Steps that do nothing the invariant speaks of, but for what they leave to execute
LEMMA QuietStep ==
  ASSUME FInv, NEW P, Does(P), Fits(P),
         calls # <<>> => Head(calls).do \notin OfLists \cup OfTopics,
         UNCHANGED <<up, parent, lookups, asked, joins, lastTopicLookupSerial,
                     lastForumTopicJoinSerial, expected, listVars>>
  PROVE  FInv'
<1>1. TypesOK' /\ ShapesOK'
  BY DEF FInv, TypesOK, ShapesOK, SessionShape, listVars
<1>2. CallsOK' /\ CancelsOK'
  BY CallsKept, CancelsKept DEF FInv, NoneStarts
<1>3. ASSUME up, NEW l \in Lists PROVE ListOK(l)'
  BY <1>3, ListKept DEF FInv, ListsOK, ListOK, SparesList, listVars
<1>4. ASSUME up, NEW t \in Topics PROVE TopicOK(t)'
  BY <1>4, TopicKept DEF FInv, JoinsOK, TopicOK, SparesTopic, SparesForum, OfTopics
<1> QED
  BY <1>1, <1>2, <1>3, <1>4 DEF FInv, ListsOK, ListOK, JoinsOK, TopicOK

\* Steps of room lists do nothing to lookups and joins, and the other way round.
LEMMA ListStep ==
  ASSUME FInv, NEW P, Does(P), Fits(P), ShapesOK', inProgress' \subseteq Lists,
         calls # <<>> => Head(calls).do \notin OfTopics,
         UNCHANGED <<up, parent, lookups, asked, joins, lastTopicLookupSerial,
                     lastForumTopicJoinSerial, expected>>,
         up => \A l \in Lists : ListOK(l)'
  PROVE  FInv'
<1>1. TypesOK'
  BY DEF FInv, TypesOK
<1>2. CallsOK' /\ CancelsOK'
  BY CallsKept, CancelsKept DEF FInv, NoneStarts
<1>3. ASSUME up, NEW t \in Topics PROVE TopicOK(t)'
  BY <1>3, TopicKept DEF FInv, JoinsOK, TopicOK, SparesTopic, SparesForum, OfTopics
<1> QED
  BY <1>1, <1>2, <1>3 DEF FInv, ListsOK, ListOK, JoinsOK, TopicOK

LEMMA TopicStep ==
  ASSUME FInv, NEW P, Does(P), Fits(P), TypesOK',
         calls # <<>> => Head(calls).do \notin OfLists,
         UNCHANGED <<up, listVars>>, (UNCHANGED parent /\ NoneStarts) \/ todo = {},
         up => \A t \in Topics : TopicOK(t)'
  PROVE  FInv'
<1>1. ShapesOK'
  BY DEF FInv, ShapesOK, SessionShape, listVars
<1>2. CallsOK' /\ CancelsOK'
  BY CallsKept, CancelsKept DEF FInv
<1>3. ASSUME up, NEW l \in Lists PROVE ListOK(l)'
  BY <1>3, ListKept DEF FInv, ListsOK, ListOK, SparesList, listVars
<1> QED
  BY <1>1, <1>2, <1>3 DEF FInv, ListsOK, ListOK, JoinsOK, TopicOK

\* ... as they come: a statement executed, an update, a call from outside
LEMMA QuietCall ==
  ASSUME FInv, NEW what, what \notin OfLists \cup OfTopics, Doing(what),
         NEW q, FineSeq(q), Call(q),
         UNCHANGED <<lookups, asked, joins, lastTopicLookupSerial, lastForumTopicJoinSerial,
                     expected, listVars>>
  PROVE  FInv'
<1>1. calls # <<>> /\ Head(calls).do = what /\ UNCHANGED <<up, parent>>
  BY DEF Doing, At, clientVars
<1>2. Does(ToSet(q)) /\ Fits(ToSet(q))
  BY <1>1, CallDoes, FineFits DEF FineSeq, FInv, CallsOK
<1> QED
  BY <1>1, <1>2, QuietStep

LEMMA QuietUpdate ==
  ASSUME FInv, NEW q, FineSeq(q), Update(q),
         UNCHANGED <<parent, listVars>>
  PROVE  FInv'
<1>1. calls = <<>>
  BY DEF Update, AtRest
<1>2. Does(ToSet(q)) /\ Fits(ToSet(q))
  BY <1>1, UpdateDoes, FineFits DEF FineSeq, Update
<1> QED
  BY <1>1, <1>2, QuietStep DEF Update, lookupVars, joinVars

LEMMA OutsideCalls ==
  ASSUME FInv, NEW q, FineSeq(q), Outside(q)
  PROVE  /\ Does(ToSet(q)) /\ Fits(ToSet(q)) /\ UNCHANGED parent
         /\ calls # <<>> => Head(calls).do \notin OfLists \cup OfTopics
<1>1. Does(ToSet(q)) /\ Fits(ToSet(q))
  BY OutsideDoes, FineFits DEF FineSeq, FInv, CallsOK, Outside
<1> QED
  BY <1>1 DEF Outside, AtRest, At, OfLists, OfTopics

-----------------------------------------------------------------------------
(* Quiet steps *)

LEMMA QuietTopicSteps ==
  ASSUME FInv, NEW t \in Topics,
         \/ CompleteIfAvailable(t) \/ GetChatConversation(t) \/ JoinPresents(t)
         \/ OpenPreparedForumTopicForPendingJoin(t)
         \/ ProjectAsks(t) \/ ProjectLeaves(t) \/ ProjectNames(t)
         \/ HandleIncomingMessage(t) \/ ShowMessageTextChat(t)
  PROVE  FInv'
<1> USE FineEmpty, FineConcat, FineStatements DEF Cancels, OfLists, OfTopics
<1>0. \A w \in {"completeIfAvailable", "open", "opened", "openPrepared", "project", "message", "show"} :
        w \notin OfLists \cup OfTopics
  BY DEF OfLists, OfTopics
<1>e. FineSeq(Resolve(t, <<>>))
  BY FineResolve, EmptySeq
<1>1. CASE CompleteIfAvailable(t)
  <2>1. PICK q : FineSeq(q) /\ Call(q)
    BY <1>1 DEF CompleteIfAvailable
  <2> QED
    BY <1>0, <1>1, <2>1, QuietCall DEF CompleteIfAvailable, DoingTopic, lookupVars, joinVars
<1>2. CASE GetChatConversation(t)
  <2>1. PICK q : FineSeq(q) /\ Call(q)
    BY <1>2 DEF GetChatConversation
  <2> QED
    BY <1>0, <1>2, <2>1, QuietCall DEF GetChatConversation, DoingTopic, lookupVars, joinVars
<1>3. CASE JoinPresents(t)
  BY <1>0, <1>3, QuietCall DEF JoinPresents, DoingTopic, lookupVars, joinVars
<1>4. CASE OpenPreparedForumTopicForPendingJoin(t)
  <2>1. PICK q : FineSeq(q) /\ Call(q)
    BY <1>4 DEF OpenPreparedForumTopicForPendingJoin
  <2> QED
    BY <1>0, <1>4, <2>1, QuietCall
    DEF OpenPreparedForumTopicForPendingJoin, DoingTopic, lookupVars, joinVars
<1>5. CASE ProjectAsks(t)
  BY <1>0, <1>e, <1>5, QuietCall DEF ProjectAsks, DoingTopic, lookupVars, joinVars
<1>6. CASE ProjectLeaves(t)
  <2>1. PICK q : FineSeq(q) /\ Call(q)
    BY <1>6 DEF ProjectLeaves
  <2> QED
    BY <1>0, <1>6, <2>1, QuietCall DEF ProjectLeaves, DoingTopic, lookupVars, joinVars
<1>7. CASE ProjectNames(t)
  <2>1. PICK q : FineSeq(q) /\ Call(q)
    BY <1>7 DEF ProjectNames
  <2> QED
    BY <1>0, <1>7, <2>1, QuietCall DEF ProjectNames, DoingTopic, lookupVars, joinVars
<1>8. CASE HandleIncomingMessage(t)
  <2>1. PICK q : FineSeq(q) /\ Call(q)
    <3>1. CASE Eligible(t)
      <4>1. PICK now \in BOOLEAN :
              Call((IF now THEN Show(t, TRUE) ELSE <<>>) \o Topic("openPrepared", t))
        BY <1>8, <3>1 DEF HandleIncomingMessage
      <4>2. FineSeq(IF now THEN Show(t, TRUE) ELSE <<>>) /\ FineSeq(Topic("openPrepared", t))
        OBVIOUS
      <4> QED
        BY <4>1, <4>2
    <3>2. CASE ~ Eligible(t)
      BY <1>8, <3>2 DEF HandleIncomingMessage
    <3> QED
      BY <3>1, <3>2
  <2> QED
    BY <1>0, <1>8, <2>1, QuietCall DEF HandleIncomingMessage, DoingTopic, lookupVars, joinVars
<1>9. CASE ShowMessageTextChat(t)
  <2>1. PICK q : FineSeq(q) /\ Call(q)
    BY <1>9, <1>e DEF ShowMessageTextChat, OpenToWrite
  <2> QED
    BY <1>0, <1>9, <2>1, QuietCall DEF ShowMessageTextChat, DoingTopic, lookupVars, joinVars
<1> QED
  BY <1>1, <1>2, <1>3, <1>4, <1>5, <1>6, <1>7, <1>8, <1>9

LEMMA QuietUpdates ==
  ASSUME FInv, NEW t \in Topics,
         \/ TopicInfo(t) \/ TelegramDeletes(t) \/ IncomingMessage(t) \/ QueuedMessage(t)
         \/ HandleHistoryMessage(t)
  PROVE  FInv'
<1> USE FineEmpty, FineConcat, FineStatements DEF Cancels, OfLists, OfTopics
<1>e. FineSeq(Resolve(t, <<>>))
  BY FineResolve, EmptySeq
<1>1. CASE TopicInfo(t)
  <2>1. PICK q : FineSeq(q) /\ Update(q)
    <3> DEFINE first == IF \E l \in Lists : Active(l) /\ sessions[l].started THEN Handlers ELSE <<>>
    <3>1. FineSeq(first) /\ Update(first \o Topic("completeIfAvailable", t) \o Topic("project", t))
      BY <1>1 DEF TopicInfo
    <3> HIDE DEF first
    <3> QED
      BY <3>1
  <2> QED
    BY <1>1, <2>1, QuietUpdate DEF TopicInfo
<1>2. CASE TelegramDeletes(t)
  BY <1>2, QuietUpdate DEF TelegramDeletes
<1>3. CASE IncomingMessage(t)
  <2>1. FineSeq(Resolve(t, <<>>) \o Topic("message", t))
    BY <1>e
  <2> QED
    BY <1>3, <2>1, QuietUpdate DEF IncomingMessage
<1>4. CASE QueuedMessage(t)
  <2>1. PICK live : Update(Show(t, live))
    BY <1>4 DEF QueuedMessage
  <2> QED
    BY <1>4, <2>1, QuietUpdate DEF QueuedMessage
<1>5. CASE HandleHistoryMessage(t)
  <2>1. PICK q : FineSeq(q) /\ calls' = q /\ calls = <<>>
    BY <1>5 DEF HandleHistoryMessage, AtRest
  <2>2. Does(ToSet(q)) /\ Fits(ToSet(q))
    BY <2>1, UpdateDoes, FineFits DEF FineSeq
  <2> QED
    BY <1>5, <2>1, <2>2, QuietStep DEF HandleHistoryMessage, clientVars, lookupVars, joinVars
<1> QED
  BY <1>1, <1>2, <1>3, <1>4, <1>5

LEMMA QuietOutside ==
  ASSUME FInv, NEW t \in Topics, JoinChat(t) \/ RemoveBookmark(t)
  PROVE  FInv'
<1> USE FineEmpty, FineStatements DEF Cancels, OfLists, OfTopics
<1>1. CASE JoinChat(t)
  <2>1. FineSeq(Topic("join", t)) /\ Outside(Topic("join", t))
    BY <1>1 DEF JoinChat
  <2> QED
    BY <1>1, <2>1, OutsideCalls, QuietStep DEF JoinChat, lookupVars, joinVars
<1>2. CASE RemoveBookmark(t)
  BY <1>2, OutsideCalls, QuietStep DEF RemoveBookmark, lookupVars, joinVars
<1> QED
  BY <1>1, <1>2

LEMMA QuietForumSteps ==
  ASSUME FInv, NEW f \in Forums, ProjectForumTopics(f) \/ SuspendEachTopic(f)
  PROVE  FInv'
<1>1. CASE ProjectForumTopics(f)
  <2> DEFINE q == EachTopic("project", cached \cap TopicsOf(f))
  <2>1. cached \cap TopicsOf(f) \in SUBSET Topics
    BY DEF TopicsOf
  <2>2. FineSeq(q)
    BY <2>1, EachTopicSet DEF FineSeq, Fine, StatementOK, Cancels, OfLists, OfTopics
  <2>3. "projectAll" \notin OfLists \cup OfTopics
    BY DEF OfLists, OfTopics
  <2> HIDE DEF q
  <2>4. Doing("projectAll") /\ Call(q)
    BY <1>1 DEF ProjectForumTopics, DoingForum, q
  <2> QED
    BY <1>1, <2>2, <2>3, <2>4, QuietCall DEF ProjectForumTopics, lookupVars, joinVars
<1>2. CASE SuspendEachTopic(f)
  <2> DEFINE ts == cached \cap TopicsOf(f)
             s == SetToSeq(ts)
             One(t) == [do |-> "suspendTopic", t |-> t, gen |-> generation']
             ss == [i \in DOMAIN s |-> <<One(s[i])>> \o Topic("project", s[i])]
             q == FlattenSeq(ss)
  <2>1. /\ calls # <<>> /\ Head(calls).do = "suspend" /\ Head(calls).f = f
        /\ Call(q) /\ UNCHANGED <<up, parent>>
    BY <1>2 DEF SuspendEachTopic, DoingForum, Doing, At, clientVars, ForEach
  <2>2. \A t \in Topics : ForumOf[t] = f => Unwanted(t)
    BY <2>1, TailSet DEF FInv, CancelsOK, CallsOK, todo
  <2>3. ts \in SUBSET Topics /\ IsFiniteSet(ts) /\ \A t \in ts : ForumOf[t] = f
    BY FiniteAssumption, FS_Subset DEF TopicsOf
  <2>4. \A i \in DOMAIN s : ss[i] = <<One(s[i])>> \o Topic("project", s[i])
    OBVIOUS
  <2>5. ss = [i \in DOMAIN s |-> ss[i]]
    OBVIOUS
  <2> HIDE DEF ss
  <2>6. \A i \in DOMAIN s : /\ IsSequence(ss[i])
                            /\ ToSet(ss[i]) = {One(s[i]), [do |-> "project", t |-> s[i]]}
    <3> TAKE i \in DOMAIN s
    <3>1. IsSequence(<<One(s[i])>>) /\ ToSet(<<One(s[i])>>) = {One(s[i])}
      BY SingleSet
    <3>2. /\ IsSequence(Topic("project", s[i]))
          /\ ToSet(Topic("project", s[i])) = {[do |-> "project", t |-> s[i]]}
      BY SingleSet DEF Topic
    <3> HIDE DEF One
    <3>3. ss[i] = <<One(s[i])>> \o Topic("project", s[i])
      BY <2>4
    <3>4. /\ IsSequence(ss[i])
          /\ ToSet(ss[i]) = {One(s[i])} \cup {[do |-> "project", t |-> s[i]]}
      BY <3>1, <3>2, <3>3, ConcatSet
    <3> QED
      BY <3>4
  <2>7. /\ IsSequence(q) /\ ToSet(q) = UNION {ToSet(ss[i]) : i \in DOMAIN s}
        /\ ts = {s[i] : i \in DOMAIN s}
    BY <2>3, <2>5, <2>6, EachSet
  <2> HIDE DEF q, s, ts
  <2>8. ASSUME NEW x \in ToSet(q)
        PROVE  \/ x.do = "project"
               \/ x.do = "suspendTopic" /\ x.t \in ts
    BY <2>6, <2>7
  <2>9. Fits(ToSet(q))
    <3>1. \A t \in ts : Unwanted(t)'
      BY <1>2, <2>1, <2>2, <2>3 DEF SuspendEachTopic, joinVars, Unwanted, Eligible, NoJoin
    <3> QED
      BY <2>8, <3>1 DEF Fits, StatementOK, OfLists, OfTopics
  <2>10. Does(ToSet(q))
    BY <2>1, <2>7, CallDoes DEF FInv, CallsOK
  <2>11. Head(calls).do \notin OfLists \cup OfTopics
    BY <2>1 DEF OfLists, OfTopics
  <2> QED
    BY <1>2, <2>1, <2>9, <2>10, <2>11, QuietStep DEF SuspendEachTopic, lookupVars, joinVars
<1> QED
  BY <1>1, <1>2

-----------------------------------------------------------------------------
(* Room lists *)

LEMMA StatementKept ==
  ASSUME NEW P, Does(P), NEW l, NEW what, what # "handlers", Statement(what, l) \in todo,
         calls # <<>> => Head(calls).do # what
  PROVE  Statement(what, l) \in todo'
BY DEF Does, Statement

\* A statement of a room list is executed while the list is active.
LEMMA ListHead ==
  ASSUME FInv, NEW what \in OfLists, NEW l, DoingList(what, l)
  PROVE  /\ up /\ Active(l) /\ calls # <<>> /\ Head(calls).do = what /\ Head(calls).l = l
         /\ UNCHANGED <<up, parent>> /\ what \notin OfTopics
         /\ \A m : m # l => SparesList(m)
<1>1. /\ up /\ ~ ListOver /\ calls # <<>> /\ Head(calls).do = what /\ Head(calls).l = l
      /\ UNCHANGED <<up, parent>>
  BY DEF DoingList, Doing, At, clientVars
<1>2. Head(calls) \in todo
  BY <1>1, TailSet DEF FInv, CallsOK, todo
<1>3. "l" \in DOMAIN Head(calls)
  BY <1>1, <1>2 DEF FInv, CallsOK, StatementOK
<1>4. Active(l)
  BY <1>1, <1>3 DEF ListOver
<1>5. what \notin OfTopics
  BY DEF OfLists, OfTopics
<1> QED
  BY <1>1, <1>4, <1>5 DEF SparesList

LEMMA ListFacts ==
  ASSUME FInv, up, NEW l \in Lists
  PROVE  ListOK(l) /\ SessionShape(sessions[l]) /\ l \in DOMAIN sessions
BY DEF FInv, ListsOK, ListOK, ShapesOK

LEMMA ListCall ==
  ASSUME FInv, NEW what \in OfLists, NEW l \in Lists, DoingList(what, l),
         NEW q, FineSeq(q), Call(q), Does(ToSet(q)) => ListOK(l)',
         ShapesOK', inProgress' \subseteq Lists, ready' = ready,
         \A m \in Lists : m # l => /\ sessions'[m] = sessions[m]
                                   /\ m \in inProgress' <=> m \in inProgress,
         UNCHANGED <<lookups, asked, joins, lastTopicLookupSerial, lastForumTopicJoinSerial,
                     expected>>
  PROVE  FInv'
<1>1. /\ up /\ calls # <<>> /\ Head(calls).do = what /\ what \notin OfTopics
      /\ UNCHANGED <<up, parent>> /\ \A m : m # l => SparesList(m)
  BY ListHead
<1>2. Does(ToSet(q)) /\ Fits(ToSet(q))
  BY <1>1, CallDoes, FineFits DEF FineSeq, FInv, CallsOK
<1>3. ASSUME NEW m \in Lists PROVE ListOK(m)'
  <2>1. CASE m # l
    <3>1. ListOK(m) /\ SparesList(m)
      BY <1>1, <2>1, ListFacts
    <3> QED
      BY <1>2, <2>1, <3>1, ListKept
  <2> QED
    BY <1>2, <2>1
<1> QED
  BY <1>1, <1>2, <1>3, ListStep

LEMMA SetInProgressStep ==
  ASSUME FInv, NEW l \in Lists, SetInProgress(l)
  PROVE  FInv'
<1>1. "setInProgress" \in OfLists /\ DoingList("setInProgress", l)
  BY DEF SetInProgress, OfLists
<1>2. /\ up /\ Active(l) /\ calls # <<>> /\ Head(calls).do = "setInProgress"
  BY <1>1, ListHead
<1>3. FineSeq(Handlers) /\ Call(Handlers)
  BY FineStatements DEF SetInProgress
<1>4. ASSUME Does(ToSet(Handlers)) PROVE ListOK(l)'
  <2>1. /\ Statement("request", l) \in todo => Statement("request", l) \in todo'
        /\ Statement("advance", l) \in todo => Statement("advance", l) \in todo'
        /\ Statement("begin", l) \in todo => Statement("begin", l) \in todo'
    BY <1>2, <1>4, StatementKept
  <2>2. ListOK(l)
    BY <1>2, ListFacts
  <2>3. UNCHANGED <<sessions, ready>> /\ l \in inProgress'
    BY DEF SetInProgress
  <2>4. Active(l)'
    BY <1>2, <2>3 DEF Active
  <2>5. ShownOK(l)'
    BY <2>3, <2>4 DEF ShownOK
  <2>6. DrivenOK(l)'
    BY <1>2, <2>1, <2>2, <2>3 DEF ListOK, DrivenOK, Statement
  <2> QED
    BY <2>2, <2>3, <2>5, <2>6 DEF ListOK, NewOK
<1>5. ShapesOK' /\ inProgress' \subseteq Lists
  BY DEF SetInProgress, FInv, TypesOK, ShapesOK, SessionShape
<1> QED
  BY <1>1, <1>3, <1>4, <1>5, ListCall DEF SetInProgress, lookupVars, joinVars

\* One room list's record has changed.
LEMMA OneShape ==
  ASSUME ShapesOK, NEW l \in Lists, NEW r, SessionShape(r), sessions' = [sessions EXCEPT ![l] = r]
  PROVE  ShapesOK' /\ sessions'[l] = r /\ \A m \in Lists : m # l => sessions'[m] = sessions[m]
BY DEF ShapesOK, SessionShape

LEMMA BeginStep ==
  ASSUME FInv, NEW l \in Lists, Begin(l)
  PROVE  FInv'
<1>1. "begin" \in OfLists /\ DoingList("begin", l)
  BY DEF Begin, OfLists
<1>2. /\ up /\ Active(l) /\ calls # <<>> /\ Head(calls).do = "begin"
  BY <1>1, ListHead
<1>3. ListOK(l) /\ SessionShape(sessions[l])
  BY <1>2, ListFacts
<1> DEFINE fs == IF sessions[l].started THEN sessions[l].forums
                 ELSE SetToSeq({f \in Forums : parent[f] = "eligible"})
           q == IF sessions[l].started THEN <<>> ELSE Handlers \o List("request", l)
           r == [sessions[l] EXCEPT !.started = TRUE, !.forums = fs]
<1>4. FineSeq(q) /\ Call(q)
  BY FineEmpty, FineStatements, FineConcat DEF Begin, Cancels, OfTopics
<1>5. sessions' = [sessions EXCEPT ![l] = r]
  BY DEF Begin
<1> HIDE DEF fs
<1>6. /\ SessionShape(r) /\ r.phase = sessions[l].phase /\ r.started = TRUE
      /\ r.waiting = sessions[l].waiting
  BY <1>3 DEF SessionShape
<1>7. /\ ShapesOK' /\ sessions'[l] = r /\ \A m \in Lists : m # l => sessions'[m] = sessions[m]
  BY <1>5, <1>6, OneShape DEF FInv
<1>8. ASSUME Does(ToSet(q)) PROVE ListOK(l)'
  <2>1. /\ Statement("request", l) \in todo => Statement("request", l) \in todo'
        /\ Statement("advance", l) \in todo => Statement("advance", l) \in todo'
        /\ Statement("setInProgress", l) \in todo => Statement("setInProgress", l) \in todo'
    BY <1>2, <1>8, StatementKept
  <2>2. ~ sessions[l].started => Statement("request", l) \in todo'
    <3> SUFFICES ASSUME ~ sessions[l].started PROVE Statement("request", l) \in todo'
      OBVIOUS
    <3>1. ToSet(q) = ToSet(Handlers) \cup {Statement("request", l)}
      BY SingleSet, ConcatSet, FineStatements DEF List, Statement, FineSeq
    <3> QED
      BY <1>8, <3>1 DEF Does, Statement
  <2>3. Active(l)' /\ inProgress' = inProgress
    BY <1>2, <1>6, <1>7 DEF Active, Begin
  <2>4. ShownOK(l)'
    BY <1>3, <1>2, <2>1, <2>3 DEF ListOK, ShownOK, Statement
  <2>5. DrivenOK(l)'
    BY <1>2, <1>3, <1>6, <1>7, <2>1, <2>2 DEF ListOK, DrivenOK, Statement
  <2>6. NewOK(l)'
    BY <2>3 DEF Active, NewOK
  <2> QED
    BY <2>4, <2>5, <2>6 DEF ListOK
<1> HIDE DEF q
<1> QED
  BY <1>1, <1>4, <1>7, <1>8, ListCall DEF Begin, lookupVars, joinVars, FInv, TypesOK

\* The record of a list that is over
LEMMA FinishedList ==
  ASSUME FInv, NEW l \in Lists, Finish(l)
  PROVE  /\ ShapesOK' /\ inProgress' \subseteq Lists /\ ready' = ready /\ ListOK(l)'
         /\ \A m \in Lists : m # l => /\ sessions'[m] = sessions[m]
                                      /\ m \in inProgress' <=> m \in inProgress
<1>1. SessionShape(Over) /\ Over.phase = "over"
  BY DEF Over, NewSession, SessionShape
<1>2. sessions' = [sessions EXCEPT ![l] = Over]
  BY DEF Finish
<1>3. ShapesOK' /\ sessions'[l] = Over /\ \A m \in Lists : m # l => sessions'[m] = sessions[m]
  BY <1>1, <1>2, OneShape DEF FInv
<1>4. inProgress' = inProgress \ {l} /\ ready' = ready
  BY DEF Finish
<1>5. ListOK(l)'
  BY <1>1, <1>3, <1>4 DEF ListOK, ShownOK, DrivenOK, NewOK, Active
<1> QED
  BY <1>3, <1>4, <1>5 DEF FInv, TypesOK

LEMMA AllListedStep ==
  ASSUME FInv, NEW l \in Lists, AllListed(l)
  PROVE  FInv'
<1>1. "request" \in OfLists /\ DoingList("request", l)
  BY DEF AllListed, OfLists
<1>2. FineSeq(Handlers) /\ Call(Handlers) /\ Finish(l)
  BY FineStatements DEF AllListed
<1> QED
  BY <1>1, <1>2, FinishedList, ListCall DEF AllListed, lookupVars, joinVars

LEMMA CancelRoomListStep ==
  ASSUME FInv, NEW l \in Lists, CancelRoomList(l)
  PROVE  FInv'
<1>1. FineSeq(Handlers) /\ Outside(Handlers) /\ Finish(l) /\ UNCHANGED up
  BY FineStatements DEF CancelRoomList
<1>2. /\ Does(ToSet(Handlers)) /\ Fits(ToSet(Handlers)) /\ UNCHANGED parent
      /\ calls # <<>> => Head(calls).do \notin OfLists \cup OfTopics
  BY <1>1, OutsideCalls
<1>3. /\ ShapesOK' /\ inProgress' \subseteq Lists /\ ready' = ready /\ ListOK(l)'
      /\ \A m \in Lists : m # l => /\ sessions'[m] = sessions[m]
                                   /\ m \in inProgress' <=> m \in inProgress
  BY <1>1, FinishedList
<1>4. ASSUME up, NEW m \in Lists PROVE ListOK(m)'
  <2>1. ListOK(m) /\ SparesList(m)
    BY <1>2, <1>4, ListFacts DEF SparesList
  <2> QED
    BY <1>2, <1>3, <2>1, ListKept
<1> QED
  BY <1>1, <1>2, <1>3, <1>4, ListStep DEF CancelRoomList, lookupVars, joinVars

\* Nothing but how far the listing has come changes.
LEMMA ListGoesOn ==
  ASSUME FInv, up, NEW l \in Lists, Active(l),
         NEW r, SessionShape(r), r.phase = sessions[l].phase, r.started = sessions[l].started,
         sessions' = [sessions EXCEPT ![l] = r], UNCHANGED <<ready, inProgress>>,
         NEW P, Does(P), calls # <<>> => Head(calls).do \in {"request", "advance"},
         \/ r.waiting
         \/ Statement("request", l) \in P \/ Statement("advance", l) \in P
  PROVE  ShapesOK' /\ ListOK(l)' /\ \A m \in Lists : m # l => sessions'[m] = sessions[m]
<1>1. /\ ShapesOK' /\ sessions'[l] = r
      /\ \A m \in Lists : m # l => sessions'[m] = sessions[m]
  BY OneShape DEF FInv
<1>2. ListOK(l) /\ Active(l)'
  BY <1>1, ListFacts DEF Active
<1>3. /\ Statement("begin", l) \in todo => Statement("begin", l) \in todo'
      /\ Statement("setInProgress", l) \in todo => Statement("setInProgress", l) \in todo'
  BY StatementKept
<1>4. Statement("request", l) \in P => Statement("request", l) \in todo'
  BY DEF Does, Statement
<1>5. Statement("advance", l) \in P => Statement("advance", l) \in todo'
  BY DEF Does, Statement
<1>6. ShownOK(l)'
  BY <1>2, <1>3 DEF ListOK, ShownOK, Statement
<1>7. DrivenOK(l)'
  BY <1>1, <1>2, <1>3, <1>4, <1>5 DEF ListOK, DrivenOK, Statement
<1>8. NewOK(l)'
  BY <1>1, <1>2 DEF ListOK, NewOK
<1> QED
  BY <1>1, <1>6, <1>7, <1>8 DEF ListOK

LEMMA ListSingle ==
  ASSUME NEW what, NEW l
  PROVE  IsSequence(List(what, l)) /\ ToSet(List(what, l)) = {Statement(what, l)}
BY SingleSet DEF List, Statement

LEMMA RequestPageStep ==
  ASSUME FInv, NEW l \in Lists, RequestPage(l)
  PROVE  FInv'
<1>1. "request" \in OfLists /\ DoingList("request", l)
  BY DEF RequestPage, OfLists
<1>2. up /\ Active(l) /\ calls # <<>> /\ Head(calls).do = "request"
  BY <1>1, ListHead
<1>3. SessionShape(sessions[l])
  BY <1>2, ListFacts
<1>4. CASE parent[ListedForum(l)] = "eligible"
  <2> DEFINE r == [sessions[l] EXCEPT !.waiting = TRUE, !.requested = @ \cup {sessions[l].cursor}]
  <2>1. FineSeq(<<>>) /\ Call(<<>>) /\ sessions' = [sessions EXCEPT ![l] = r]
    BY <1>4, FineEmpty DEF RequestPage
  <2>2. /\ SessionShape(r) /\ r.waiting = TRUE
        /\ r.phase = sessions[l].phase /\ r.started = sessions[l].started
    BY <1>3 DEF SessionShape
  <2> HIDE DEF r
  <2>3. Does(ToSet(<<>>))
    BY <1>2, <2>1, CallDoes DEF FineSeq, FInv, CallsOK
  <2>4. ShapesOK' /\ ListOK(l)' /\ \A m \in Lists : m # l => sessions'[m] = sessions[m]
    BY <1>2, <2>1, <2>2, <2>3, ListGoesOn DEF RequestPage
  <2> QED
    BY <1>1, <2>1, <2>4, ListCall DEF RequestPage, lookupVars, joinVars, FInv, TypesOK
<1>5. CASE parent[ListedForum(l)] # "eligible"
  <2>1. FineSeq(List("advance", l)) /\ Call(List("advance", l)) /\ sessions' = sessions
    BY <1>5, FineStatements DEF RequestPage, OfTopics, Cancels
  <2>2. Does(ToSet(List("advance", l))) /\ Statement("advance", l) \in ToSet(List("advance", l))
    BY <1>2, <2>1, CallDoes, ListSingle DEF FineSeq, FInv, CallsOK
  <2>3. sessions' = [sessions EXCEPT ![l] = sessions[l]]
    BY <2>1 DEF FInv, ShapesOK
  <2>4. ShapesOK' /\ ListOK(l)' /\ \A m \in Lists : m # l => sessions'[m] = sessions[m]
    BY <1>2, <1>3, <2>1, <2>2, <2>3, ListGoesOn DEF RequestPage
  <2> QED
    BY <1>1, <2>1, <2>4, ListCall DEF RequestPage, lookupVars, joinVars, FInv, TypesOK
<1> QED
  BY <1>4, <1>5

LEMMA AdvanceForumStep ==
  ASSUME FInv, NEW l \in Lists, AdvanceForum(l)
  PROVE  FInv'
<1>1. "advance" \in OfLists /\ DoingList("advance", l)
  BY DEF AdvanceForum, OfLists
<1>2. up /\ Active(l) /\ calls # <<>> /\ Head(calls).do = "advance"
  BY <1>1, ListHead
<1>3. SessionShape(sessions[l])
  BY <1>2, ListFacts
<1> DEFINE r == [sessions[l] EXCEPT !.forums = Tail(@), !.cursor = FirstPage,
                   !.requested = {}, !.seen = {}, !.safe = TRUE]
<1>4. /\ FineSeq(List("request", l)) /\ Call(List("request", l))
      /\ sessions' = [sessions EXCEPT ![l] = r]
  BY FineStatements DEF AdvanceForum, OfTopics, Cancels
<1>5. SessionShape(r) /\ r.phase = sessions[l].phase /\ r.started = sessions[l].started
  BY <1>3 DEF SessionShape
<1> HIDE DEF r
<1>6. Does(ToSet(List("request", l))) /\ Statement("request", l) \in ToSet(List("request", l))
  BY <1>2, <1>4, CallDoes, ListSingle DEF FineSeq, FInv, CallsOK
<1>7. ShapesOK' /\ ListOK(l)' /\ \A m \in Lists : m # l => sessions'[m] = sessions[m]
  BY <1>2, <1>4, <1>5, <1>6, ListGoesOn DEF AdvanceForum
<1> QED
  BY <1>1, <1>4, <1>7, ListCall DEF AdvanceForum, lookupVars, joinVars, FInv, TypesOK

\* An answer has come, and the list goes on.
LEMMA PageStep ==
  ASSUME FInv, up, calls = <<>>, NEW l \in Lists, Page(l),
         NEW q, FineSeq(q), calls' = q \/ calls' = Settled(q),
         Statement("request", l) \in ToSet(q) \/ Statement("advance", l) \in ToSet(q),
         NEW r, sessions' = [sessions EXCEPT ![l] = r],
         SessionShape(sessions[l]) =>
           SessionShape(r) /\ r.phase = sessions[l].phase /\ r.started = sessions[l].started,
         UNCHANGED <<up, lookups, asked, joins, lastTopicLookupSerial, lastForumTopicJoinSerial,
                     expected>>
  PROVE  FInv'
<1>1. Does(ToSet(q)) /\ Fits(ToSet(q))
  BY UpdateDoes, FineFits DEF FineSeq
<1>2. Active(l) /\ UNCHANGED <<parent, ready, inProgress>>
  BY DEF Page
<1>3. SessionShape(r) /\ r.phase = sessions[l].phase /\ r.started = sessions[l].started
  BY ListFacts
<1>4. ShapesOK' /\ ListOK(l)' /\ \A m \in Lists : m # l => sessions'[m] = sessions[m]
  BY <1>1, <1>2, <1>3, ListGoesOn
<1>5. ASSUME NEW m \in Lists PROVE ListOK(m)'
  BY <1>1, <1>2, <1>4, ListKept, ListFacts DEF SparesList
<1> QED
  BY <1>1, <1>2, <1>4, <1>5, ListStep DEF FInv, TypesOK

LEMMA PageFailsStep ==
  ASSUME FInv, NEW l \in Lists, PageFails(l)
  PROVE  FInv'
<1> DEFINE r == [sessions[l] EXCEPT !.waiting = FALSE]
<1>1. /\ FineSeq(List("advance", l)) /\ Statement("advance", l) \in ToSet(List("advance", l))
      /\ calls' = Settled(List("advance", l)) /\ up /\ calls = <<>>
  BY FineStatements, ListSingle DEF PageFails, Update, AtRest, OfTopics, Cancels
<1>2. sessions' = [sessions EXCEPT ![l] = r] /\ Page(l)
  BY DEF PageFails
<1>3. SessionShape(sessions[l]) =>
        SessionShape(r) /\ r.phase = sessions[l].phase /\ r.started = sessions[l].started
  BY DEF SessionShape
<1> HIDE DEF r
<1> QED
  BY <1>1, <1>2, <1>3, PageStep DEF PageFails, Update, lookupVars, joinVars

LEMMA PageShowsStep ==
  ASSUME FInv, NEW l \in Lists, NEW ts \in SUBSET Topics, NEW garbled, NEW next,
         PageShows(l, ts, garbled, next)
  PROVE  FInv'
<1> DEFINE cycle == next \in sessions[l].requested
           what == IF cycle THEN "advance" ELSE "request"
           s == SetToSeq(ts)
           ss == [i \in DOMAIN s |-> ListTopic("entry", l, s[i])]
           q == FlattenSeq(ss) \o List(what, l)
           r == [sessions[l] EXCEPT !.waiting = FALSE, !.seen = @ \cup ts,
                   !.safe = @ /\ ~ garbled, !.cursor = IF cycle THEN @ ELSE next]
<1>1. /\ calls' = Settled(q) /\ up /\ calls = <<>> /\ Page(l)
      /\ sessions' = [sessions EXCEPT ![l] = r]
      /\ UNCHANGED <<up, lookups, asked, joins, lastTopicLookupSerial, lastForumTopicJoinSerial,
                     expected>>
  BY DEF PageShows, Update, AtRest, ForEach, lookupVars, joinVars
<1>2. SessionShape(sessions[l]) =>
        SessionShape(r) /\ r.phase = sessions[l].phase /\ r.started = sessions[l].started
  BY DEF SessionShape
<1>3. FineSeq(FlattenSeq(ss))
  <2>1. IsFiniteSet(ts)
    BY FiniteAssumption, FS_Subset
  <2>2. ss = [i \in DOMAIN s |-> ss[i]]
    OBVIOUS
  <2>3. \A i \in DOMAIN s : FineSeq(ss[i])
    BY FineStatements DEF Cancels, OfTopics
  <2> HIDE DEF ss
  <2> QED
    BY <2>1, <2>2, <2>3, EachFine
<1> HIDE DEF r, ss
<1>4. FineSeq(List(what, l)) /\ ToSet(List(what, l)) = {Statement(what, l)}
  BY FineStatements, ListSingle DEF OfTopics, Cancels
<1>5. FineSeq(q) /\ Statement(what, l) \in ToSet(q)
  <2>1. FineSeq(q)
    BY <1>3, <1>4, FineConcat
  <2>2. ToSet(q) = ToSet(FlattenSeq(ss)) \cup ToSet(List(what, l))
    BY <1>3, <1>4, ConcatSet DEF FineSeq
  <2> QED
    BY <1>4, <2>1, <2>2
<1>6. Statement("request", l) \in ToSet(q) \/ Statement("advance", l) \in ToSet(q)
  BY <1>5
<1> HIDE DEF q
<1> QED
  BY <1>1, <1>2, <1>5, <1>6, PageStep

LEMMA LastPageStep ==
  ASSUME FInv, NEW l \in Lists, LastPage(l)
  PROVE  FInv'
<1> DEFINE r == [sessions[l] EXCEPT !.waiting = FALSE]
<1>1. /\ up /\ calls = <<>> /\ Page(l)
      /\ sessions' = [sessions EXCEPT ![l] = r]
      /\ UNCHANGED <<up, lookups, asked, joins, lastTopicLookupSerial, lastForumTopicJoinSerial,
                     expected>>
  BY DEF LastPage, AtRest, lookupVars, joinVars
<1>2. SessionShape(sessions[l]) =>
        SessionShape(r) /\ r.phase = sessions[l].phase /\ r.started = sessions[l].started
  BY DEF SessionShape
<1>3. /\ FineSeq(List("advance", l)) /\ ToSet(List("advance", l)) = {Statement("advance", l)}
  BY FineStatements, ListSingle DEF OfTopics, Cancels
<1>4. PICK q : /\ FineSeq(q) /\ Statement("advance", l) \in ToSet(q)
               /\ calls' = q
  <2>1. CASE sessions[l].safe
    <3> DEFINE gone == Tombstones(Unseen(l), sourceGeneration[l])
               A == Superseded(l)
               B == {t \in gone : t \notin deleted \/ t \in active}
               a == SetToSeq(A)
               b == SetToSeq(B)
               aa == [i \in DOMAIN a |-> Complete(a[i], lookups[a[i]].serial, FALSE)]
               bb == [i \in DOMAIN b |-> ListTopic("project", l, b[i])]
    <3>1. calls' = FlattenSeq(aa) \o FlattenSeq(bb) \o List("advance", l)
      BY <2>1 DEF LastPage, ForEach
    <3>2. A \in SUBSET Topics /\ B \in SUBSET Topics
      BY DEF Superseded, Unseen, TopicsOf, Tombstones
    <3>3. IsFiniteSet(A) /\ IsFiniteSet(B)
      BY <3>2, FiniteAssumption, FS_Subset
    <3>4. FineSeq(FlattenSeq(aa))
      <4>1. aa = [i \in DOMAIN a |-> aa[i]] /\ \A i \in DOMAIN a : FineSeq(aa[i])
        BY FineStatements
      <4> HIDE DEF aa, A
      <4> QED
        BY <3>3, <4>1, EachFine
    <3>5. FineSeq(FlattenSeq(bb))
      <4>1. bb = [i \in DOMAIN b |-> bb[i]] /\ \A i \in DOMAIN b : FineSeq(bb[i])
        BY FineStatements DEF Cancels, OfTopics
      <4> HIDE DEF bb, B
      <4> QED
        BY <3>3, <4>1, EachFine
    <3> HIDE DEF aa, bb
    <3>6. FineSeq(FlattenSeq(aa) \o FlattenSeq(bb))
      BY <3>4, <3>5, FineConcat
    <3> DEFINE c == FlattenSeq(aa) \o FlattenSeq(bb)
    <3> HIDE DEF c
    <3>7. FineSeq(c \o List("advance", l)) /\ Statement("advance", l) \in ToSet(c \o List("advance", l))
      BY <1>3, <3>6, FineConcat, ConcatSet DEF FineSeq, c
    <3> QED
      BY <3>1, <3>7 DEF c
  <2>2. CASE ~ sessions[l].safe
    BY <1>3, <2>2 DEF LastPage
  <2> QED
    BY <2>1, <2>2
<1> HIDE DEF r
<1> QED
  BY <1>1, <1>2, <1>4, PageStep

LEMMA PageEntryStep ==
  ASSUME FInv, NEW l \in Lists, NEW t \in Topics, PageEntry(l, t)
  PROVE  FInv'
<1> USE FineEmpty, FineConcat, FineStatements DEF Cancels, OfLists, OfTopics
<1>1. PICK q : FineSeq(q) /\ Call(q)
  <2> DEFINE a == IF Available(t)' THEN Handlers ELSE <<>>
             c == IF sourceGeneration[l] > metadataGeneration[t] THEN ListTopic("project", l, t) ELSE <<>>
  <2>1. FineSeq(a) /\ FineSeq(c) /\ FineSeq(ListTopic("completeIfAvailable", l, t))
    OBVIOUS
  <2>2. Call(a \o ListTopic("completeIfAvailable", l, t) \o c)
    BY DEF PageEntry
  <2> HIDE DEF a, c
  <2> QED
    BY <2>1, <2>2
<1>2. Doing("entry") /\ "entry" \notin OfLists \cup OfTopics
  BY DEF PageEntry, DoingList
<1> QED
  BY <1>1, <1>2, QuietCall DEF PageEntry, lookupVars, joinVars

LEMMA StartRoomListStep ==
  ASSUME FInv, NEW l \in Lists, StartRoomList(l)
  PROVE  FInv'
<1> DEFINE r == [sessions[l] EXCEPT !.phase = "active"]
           c == IF ready THEN List("begin", l) ELSE <<>>
           b == Handlers \o List("setInProgress", l)
           q == b \o c
<1>1. /\ Outside(q) /\ up /\ sessions[l].phase = "new" /\ sessions' = [sessions EXCEPT ![l] = r]
      /\ UNCHANGED <<up, ready, inProgress, lookups, asked, joins, lastTopicLookupSerial,
                     lastForumTopicJoinSerial, expected>>
  BY DEF StartRoomList, Outside, lookupVars, joinVars
<1>2. ListOK(l) /\ SessionShape(sessions[l])
  BY <1>1, ListFacts
<1>3. SessionShape(r) /\ r.phase = "active" /\ r.started = sessions[l].started
  BY <1>2 DEF SessionShape
<1> HIDE DEF r
<1>4. FineSeq(Handlers) /\ FineSeq(List("setInProgress", l)) /\ FineSeq(List("begin", l)) /\ FineSeq(c)
  BY FineStatements, FineEmpty DEF Cancels, OfTopics
<1>5. FineSeq(b) /\ Statement("setInProgress", l) \in ToSet(b)
  BY <1>4, ListSingle, ConcatSet, FineConcat DEF FineSeq
<1>6. ready => Statement("begin", l) \in ToSet(c)
  BY ListSingle
<1> HIDE DEF b, c
<1>7. /\ FineSeq(q) /\ Statement("setInProgress", l) \in ToSet(q)
      /\ ready => Statement("begin", l) \in ToSet(q)
  BY <1>4, <1>5, <1>6, ConcatSet, FineConcat DEF FineSeq
<1> HIDE DEF q
<1>8. /\ Does(ToSet(q)) /\ Fits(ToSet(q)) /\ UNCHANGED parent
      /\ calls # <<>> => Head(calls).do \notin OfLists \cup OfTopics
  BY <1>1, <1>7, OutsideCalls
<1>9. /\ ShapesOK' /\ sessions'[l] = r /\ \A m \in Lists : m # l => sessions'[m] = sessions[m]
  BY <1>1, <1>3, OneShape DEF FInv
<1>10. ListOK(l)'
  <2>1. /\ Statement("setInProgress", l) \in todo'
        /\ ready => Statement("begin", l) \in todo'
    BY <1>7, <1>8 DEF Does, Statement
  <2>2. Active(l)' /\ ~ r.started
    BY <1>1, <1>2, <1>3, <1>9 DEF Active, ListOK, NewOK
  <2>3. ShownOK(l)'
    BY <2>1, <2>2 DEF ShownOK, Statement
  <2>4. DrivenOK(l)'
    BY <1>1, <1>9, <2>1, <2>2 DEF DrivenOK, Statement
  <2>5. NewOK(l)'
    BY <1>3, <1>9 DEF NewOK
  <2> QED
    BY <2>3, <2>4, <2>5 DEF ListOK
<1>11. ASSUME NEW m \in Lists PROVE ListOK(m)'
  <2>1. ListOK(m) /\ SparesList(m)
    BY <1>1, <1>8, ListFacts DEF SparesList
  <2> QED
    BY <1>1, <1>8, <1>9, <1>10, <2>1, ListKept
<1>12. inProgress' \subseteq Lists
  BY <1>1 DEF FInv, TypesOK
<1> QED
  BY <1>1, <1>8, <1>9, <1>11, <1>12, ListStep

LEMMA MarkRoomListsReadyStep ==
  ASSUME FInv, MarkRoomListsReady
  PROVE  FInv'
<1> DEFINE A == {l \in Lists : Active(l)}
           s == SetToSeq(A)
           ss == [i \in DOMAIN s |-> List("begin", s[i])]
           q == FlattenSeq(ss)
<1>1. /\ calls = <<>> /\ up /\ calls' = Settled(q) /\ ready'
      /\ UNCHANGED <<up, parent, sessions, inProgress, lookups, asked, joins,
                     lastTopicLookupSerial, lastForumTopicJoinSerial, expected>>
  BY DEF MarkRoomListsReady, Update, AtRest, ForEach, lookupVars, joinVars
<1>2. IsFiniteSet(A)
  BY FiniteAssumption, FS_Subset
<1>3. ss = [i \in DOMAIN s |-> ss[i]] /\ \A i \in DOMAIN s : ss[i] = List("begin", s[i])
  OBVIOUS
<1> HIDE DEF ss
<1>4. \A i \in DOMAIN s : FineSeq(ss[i]) /\ ToSet(ss[i]) = {Statement("begin", s[i])}
  BY <1>3, FineStatements, ListSingle DEF Cancels, OfTopics
<1> HIDE DEF A
<1>5. FineSeq(q)
  BY <1>2, <1>3, <1>4, EachFine
<1>6. ToSet(q) = UNION {ToSet(ss[i]) : i \in DOMAIN s} /\ A = {s[i] : i \in DOMAIN s}
  BY <1>2, <1>3, <1>4, EachSet DEF FineSeq
<1> HIDE DEF q, s
<1>7. \A l \in A : Statement("begin", l) \in ToSet(q)
  BY <1>4, <1>6
<1>8. Does(ToSet(q)) /\ Fits(ToSet(q))
  BY <1>1, <1>5, UpdateDoes, FineFits DEF FineSeq
<1>9. ASSUME NEW l \in Lists PROVE ListOK(l)'
  <2>1. ListOK(l) /\ todo = {}
    BY <1>1, ListFacts, EmptySet DEF todo
  <2>2. Active(l)' = Active(l)
    BY <1>1 DEF Active
  <2>3. Active(l) => Statement("begin", l) \in todo'
    BY <1>7, <1>8 DEF Does, Statement, A
  <2>4. ShownOK(l)'
    BY <1>1, <2>1, <2>2 DEF ListOK, ShownOK
  <2>5. DrivenOK(l)'
    BY <1>1, <2>1, <2>2, <2>3 DEF ListOK, DrivenOK, Statement
  <2>6. NewOK(l)'
    BY <1>1, <2>1 DEF ListOK, NewOK
  <2> QED
    BY <2>4, <2>5, <2>6 DEF ListOK
<1>10. ShapesOK' /\ inProgress' \subseteq Lists
  BY <1>1 DEF FInv, TypesOK, ShapesOK, SessionShape
<1> QED
  BY <1>1, <1>8, <1>9, <1>10, ListStep

LEMMA MarkRoomListsPendingStep ==
  ASSUME FInv, MarkRoomListsPending
  PROVE  FInv'
<1>1. /\ calls = <<>> /\ up /\ calls' = Settled(<<>>) /\ ready' = FALSE
      /\ UNCHANGED <<up, parent, sessions, inProgress, lookups, asked, joins,
                     lastTopicLookupSerial, lastForumTopicJoinSerial, expected>>
  BY DEF MarkRoomListsPending, Update, AtRest, lookupVars, joinVars
<1>2. Does(ToSet(<<>>)) /\ Fits(ToSet(<<>>))
  BY <1>1, FineEmpty, UpdateDoes, FineFits DEF FineSeq
<1>3. ASSUME NEW l \in Lists PROVE ListOK(l)'
  <2>1. ListOK(l) /\ todo = {}
    BY <1>1, ListFacts, EmptySet DEF todo
  <2>2. Active(l)' = Active(l)
    BY <1>1 DEF Active
  <2>3. ShownOK(l)'
    BY <1>1, <2>1, <2>2 DEF ListOK, ShownOK
  <2>4. DrivenOK(l)'
    BY <1>1, <2>1, <2>2 DEF ListOK, DrivenOK, Statement
  <2>5. NewOK(l)'
    BY <1>1, <2>1 DEF ListOK, NewOK
  <2> QED
    BY <2>3, <2>4, <2>5 DEF ListOK
<1>4. ShapesOK' /\ inProgress' \subseteq Lists
  BY <1>1 DEF FInv, TypesOK, ShapesOK, SessionShape
<1> QED
  BY <1>1, <1>2, <1>3, <1>4, ListStep

\* A statement of a list that is over is left out.
LEMMA ListGoneStep ==
  ASSUME FInv, ListGone
  PROVE  FInv'
<1>1. /\ calls # <<>> /\ "l" \in DOMAIN Head(calls) /\ ~ Active(Head(calls).l) /\ up
      /\ UNCHANGED <<up, parent, lookups, asked, joins, lastTopicLookupSerial,
                     lastForumTopicJoinSerial, expected,
                     sessions, ready, inProgress>>
  BY DEF ListGone, ListOver, clientVars, lookupVars, joinVars, listVars
<1>2. calls' = <<>> \o Tail(calls)
  BY DEF ListGone, Returning, Calling
<1>3. /\ IsSequence(Tail(calls)) /\ Head(calls) \in todo
      /\ todo = {Head(calls)} \cup ToSet(Tail(calls))
  BY <1>1, TailSet DEF FInv, CallsOK, todo
<1>4. IsSequence(calls') /\ todo' = ToSet(Tail(calls))
  BY <1>2, <1>3, EmptySet, ConcatSet DEF todo
<1>5. Does({}) /\ Fits({})
  <2>1. Does({})
    BY <1>1, <1>3, <1>4 DEF Does
  <2> QED
    BY <2>1 DEF Fits
<1>6. Head(calls).do \notin OfTopics
  BY <1>1, <1>3 DEF FInv, CallsOK, StatementOK
<1>7. ASSUME NEW l \in Lists PROVE ListOK(l)'
  <2>1. ListOK(l)
    BY <1>1, ListFacts
  <2>2. CASE Active(l)
    BY <1>1, <1>5, <2>1, <2>2, ListKept DEF SparesList
  <2>3. CASE ~ Active(l)
    BY <1>1, <2>1, <2>3 DEF ListOK, ShownOK, DrivenOK, NewOK, Active
  <2> QED
    BY <2>2, <2>3
<1>8. ShapesOK' /\ inProgress' \subseteq Lists
  BY <1>1 DEF FInv, TypesOK, ShapesOK, SessionShape
<1> QED
  BY <1>1, <1>5, <1>6, <1>7, <1>8, ListStep

LEMMA HandlersReturnStep ==
  ASSUME FInv, HandlersReturn
  PROVE  FInv'
<1>1. Doing("handlers") /\ Call(<<>>) /\ "handlers" \notin OfLists \cup OfTopics
  BY DEF HandlersReturn, OfLists, OfTopics
<1> QED
  BY <1>1, FineEmpty, QuietCall DEF HandlersReturn, lookupVars, joinVars

LEMMA ClientGoneStep ==
  ASSUME FInv, ClientGone
  PROVE  FInv'
<1>1. /\ ~ up /\ ~ up' /\ calls' = <<>>
      /\ UNCHANGED <<up, parent, lookups, asked, joins, lastTopicLookupSerial,
                     lastForumTopicJoinSerial, expected,
                     sessions, ready, inProgress>>
  BY DEF ClientGone, clientVars, lookupVars, joinVars, listVars
<1>2. IsSequence(calls') /\ todo' = {}
  BY <1>1, EmptySet DEF todo
<1>3. TypesOK' /\ ShapesOK'
  BY <1>1 DEF FInv, TypesOK, ShapesOK, SessionShape
<1> QED
  BY <1>1, <1>2, <1>3 DEF FInv, CallsOK, CancelsOK

LEMMA DisconnectStep ==
  ASSUME FInv, Disconnect
  PROVE  FInv'
<1>1. /\ Outside(<<>>) /\ up' = FALSE
      /\ lookups' = [t \in Topics |-> NoLookup] /\ joins' = [t \in Topics |-> NoJoin]
      /\ expected' = {} /\ inProgress' = {}
      /\ sessions' = [l \in Lists |-> IF Active(l) THEN Over ELSE sessions[l]]
      /\ UNCHANGED <<lastTopicLookupSerial, lastForumTopicJoinSerial>>
  BY DEF Disconnect
<1>2. /\ Does(ToSet(<<>>)) /\ Fits(ToSet(<<>>)) /\ UNCHANGED parent
  BY <1>1, FineEmpty, OutsideCalls
<1>3. CallsOK' /\ CancelsOK'
  <2>1. NoneStarts
    BY <1>1 DEF NoneStarts
  <2> QED
    BY <1>2, <2>1, CallsKept, CancelsKept DEF FInv
<1>4. TypesOK'
  <2>1. NoLookup \in [serial : Nat, callbacks : Seq(1 .. MaxJoins)]
    BY EmptySeq DEF NoLookup
  <2>2. NoJoin \in [serial : Nat, persistent : BOOLEAN, live : 0 .. MaxGeneration]
    BY BoundAssumption DEF NoJoin
  <2> QED
    BY <1>1, <1>2, <2>1, <2>2 DEF FInv, TypesOK
<1>5. ShapesOK'
  <2>1. SessionShape(Over)
    BY DEF Over, NewSession, SessionShape
  <2>2. \A l \in Lists : SessionShape(sessions'[l])
    BY <1>1, <2>1 DEF FInv, ShapesOK
  <2>3. DOMAIN sessions' = Lists /\ sessions' = [l \in Lists |-> sessions'[l]]
    BY <1>1
  <2> QED
    BY <2>2, <2>3 DEF ShapesOK
<1> QED
  BY <1>1, <1>3, <1>4, <1>5 DEF FInv

-----------------------------------------------------------------------------
(* Lookups and joins *)

LEMMA TopicFacts ==
  ASSUME FInv, up, NEW t \in Topics
  PROVE  TopicOK(t)
BY DEF FInv, JoinsOK, TopicOK

LEMMA TopicHead ==
  ASSUME FInv, NEW what, what # "parentChanged", NEW t, DoingTopic(what, t)
  PROVE  /\ up /\ calls # <<>> /\ Head(calls).do = what /\ Head(calls).t = t
         /\ Head(calls) \in todo /\ StatementOK(Head(calls))
         /\ UNCHANGED <<up, parent>> /\ Eligible(t)' = Eligible(t)
         /\ \A u : SparesForum(u) /\ (u # t => SparesTopic(u))
<1>1. /\ up /\ calls # <<>> /\ Head(calls).do = what /\ Head(calls).t = t
      /\ UNCHANGED <<up, parent>>
  BY DEF DoingTopic, Doing, At, clientVars
<1>2. Head(calls) \in todo
  BY <1>1, TailSet DEF FInv, CallsOK, todo
<1> QED
  BY <1>1, <1>2 DEF SparesTopic, SparesForum, FInv, CallsOK, Eligible

\* Nothing changes for the other topics, and t is not joined without its forum.
Others(t) ==
  /\ \A u \in Topics : u # t =>
       /\ joins'[u] = joins[u] /\ lookups'[u] = lookups[u]
       /\ <<u, lookups[u].serial>> \in asked => <<u, lookups[u].serial>> \in asked'
       /\ u \in expected' => u \in expected
  /\ ~ Eligible(t) /\ joins[t] = NoJoin => joins'[t] = NoJoin

LEMMA TopicCall ==
  ASSUME FInv, NEW what, what \notin OfLists \cup {"parentChanged"}, NEW t \in Topics, DoingTopic(what, t),
         NEW q, FineSeq(q), Call(q), Does(ToSet(q)) => TopicOK(t)',
         TypesOK', Others(t), UNCHANGED listVars
  PROVE  FInv'
<1>1. /\ up /\ calls # <<>> /\ Head(calls).do = what /\ UNCHANGED <<up, parent>>
      /\ \A u : SparesForum(u) /\ (u # t => SparesTopic(u))
  BY TopicHead
<1>2. Does(ToSet(q)) /\ Fits(ToSet(q))
  BY <1>1, CallDoes, FineFits DEF FineSeq, FInv, CallsOK
<1>3. ASSUME NEW u \in Topics PROVE TopicOK(u)'
  <2>1. CASE u # t
    <3>1. TopicOK(u)
      BY <1>1, TopicFacts
    <3> QED
      BY <1>1, <1>2, <2>1, <3>1, TopicKept DEF Others
  <2> QED
    BY <1>2, <2>1
<1>4. NoneStarts
  BY DEF Others, NoneStarts
<1> QED
  BY <1>1, <1>2, <1>3, <1>4, TopicStep

\* What a join waits for, when its statement may be the one that is executed
LEMMA JoinMoves ==
  ASSUME NEW t, JoinOK(t), NEW P, Does(P), calls # <<>>,
         joins'[t] = joins[t], Eligible(t)' = Eligible(t),
         joins[t].serial \in ToSet(lookups[t].callbacks) => JoinTold(t)',
         Head(calls).do = "resolve" /\ joins[t].serial \in ToSet(Head(calls).callbacks) => JoinTold(t)',
         Head(calls).do = "joinResult" => Head(calls).serial # joins[t].serial,
         SparesForum(t)
  PROVE  JoinOK(t)'
<1>1. SUFFICES ASSUME joins[t] # NoJoin
               PROVE  (Eligible(t)' \/ Settling(t)') /\ joins'[t].serial # 0 /\ JoinTold(t)'
  BY DEF JoinOK, NoJoin
<1>2. (Eligible(t)' \/ Settling(t)') /\ joins'[t].serial # 0 /\ JoinTold(t)
  BY <1>1, SettlingKept DEF JoinOK
<1>3. ASSUME NEW s \in todo, s.do = "resolve", s.t = t, joins[t].serial \in ToSet(s.callbacks)
      PROVE  JoinTold(t)'
  <2>1. CASE s = Head(calls)
    BY <1>3, <2>1
  <2>2. CASE s # Head(calls)
    <3>1. s \in todo'
      BY <1>3, <2>2 DEF Does
    <3> QED
      BY <1>3, <3>1 DEF JoinTold, ToSet
  <2> QED
    BY <2>1, <2>2
<1>4. ASSUME NEW s \in todo, s.do = "joinResult", s.t = t, s.serial = joins[t].serial
      PROVE  JoinTold(t)'
  <2>1. s \in todo'
    BY <1>4 DEF Does
  <2> QED
    BY <1>4, <2>1 DEF JoinTold
<1> QED
  BY <1>2, <1>3, <1>4 DEF JoinTold

LEMMA LookupMoves ==
  ASSUME NEW t, LookupOK(t), NEW P, Does(P), calls # <<>>, lookups'[t].serial = lookups[t].serial,
         Pending(t)' => Pending(t),
         <<t, lookups[t].serial>> \in asked => <<t, lookups[t].serial>> \in asked',
         Head(calls).do = "complete" => Head(calls).serial # lookups[t].serial
  PROVE  LookupOK(t)'
<1>1. SUFFICES ASSUME Pending(t)
               PROVE  \/ <<t, lookups[t].serial>> \in asked'
                      \/ \E s \in todo' : s.do = "complete" /\ s.t = t /\ s.serial = lookups[t].serial
  BY DEF LookupOK
<1>2. ASSUME NEW s \in todo, s.do = "complete", s.t = t, s.serial = lookups[t].serial
      PROVE  s \in todo'
  BY <1>2 DEF Does
<1> QED
  BY <1>1, <1>2 DEF LookupOK

LEMMA ExpectedMoves ==
  ASSUME NEW t, ExpectedOK(t), NEW P, Does(P), calls # <<>>, UNCHANGED parent,
         joins[t] # NoJoin => joins'[t] # NoJoin, t \in expected' => t \in expected,
         Head(calls).do \notin {"join", "fail", "parentChanged"}
  PROVE  ExpectedOK(t)'
<1>1. /\ [do |-> "join", t |-> t] \in todo => [do |-> "join", t |-> t] \in todo'
      /\ [do |-> "fail", t |-> t] \in todo => [do |-> "fail", t |-> t] \in todo'
  BY DEF Does
<1>2. Settling(t) => Settling(t)'
  BY SettlingKept DEF SparesForum
<1> QED
  BY <1>1, <1>2 DEF ExpectedOK, Eligible, NoJoin

-----------------------------------------------------------------------------
(* Lookups *)

LEMMA TellFine ==
  ASSUME NEW t, NEW c \in Seq(1 .. MaxJoins), NEW available
  PROVE  /\ FineSeq(Tell(t, c, available))
         /\ \A x \in ToSet(c) : \E s \in ToSet(Tell(t, c, available)) :
              s.do = "joinResult" /\ s.t = t /\ s.serial = x
<1> DEFINE one(i) == [do |-> "joinResult", t |-> t, serial |-> c[i], available |-> available]
<1>1. PICK n \in Nat : DOMAIN c = 1 .. n
  BY LenProperties
<1>2. PICK S : S = {one(i) : i \in 1 .. n}
  OBVIOUS
<1>3. Tell(t, c, available) = [i \in 1 .. n |-> one(i)]
  BY <1>1 DEF Tell
<1> DEFINE q == Tell(t, c, available)
<1>4. q \in [1 .. n -> S] /\ DOMAIN q = 1 .. n /\ \A i \in 1 .. n : q[i] = one(i)
  BY <1>2, <1>3
<1> HIDE DEF q
<1>5. q \in Seq(S)
  BY <1>4, SeqDef
<1>6. IsSequence(q) /\ ToSet(q) = {one(i) : i \in 1 .. n}
  BY <1>4, <1>5, SeqIsSequence DEF ToSet
<1>7. \A s \in ToSet(q) : StatementOK(s) /\ s.do \notin Cancels
  BY <1>6 DEF StatementOK, OfLists, OfTopics, Cancels
<1>8. \A x \in ToSet(c) : \E s \in ToSet(q) : s.do = "joinResult" /\ s.t = t /\ s.serial = x
  <2> TAKE x \in ToSet(c)
  <2>1. PICK i \in 1 .. n : x = c[i]
    BY <1>1 DEF ToSet
  <2>2. one(i) \in ToSet(q) /\ one(i).do = "joinResult" /\ one(i).t = t /\ one(i).serial = x
    BY <1>6, <2>1
  <2> QED
    BY <2>2
<1> QED
  BY <1>6, <1>7, <1>8 DEF FineSeq, Fine, q

LEMMA ToldNow ==
  ASSUME NEW t, NEW c \in Seq(1 .. MaxJoins), NEW available, Does(ToSet(Tell(t, c, available))),
         joins'[t].serial \in ToSet(c)
  PROVE  JoinTold(t)'
<1>1. PICK s \in ToSet(Tell(t, c, available)) :
        s.do = "joinResult" /\ s.t = t /\ s.serial = joins'[t].serial
  BY TellFine
<1>2. s \in todo'
  BY <1>1 DEF Does
<1> QED
  BY <1>1, <1>2 DEF JoinTold

LEMMA ResolveAtOnceStep ==
  ASSUME FInv, NEW t \in Topics, ResolveAtOnce(t)
  PROVE  FInv'
<1>1. /\ DoingTopic("resolve", t) /\ Call(Tell(t, Head(calls).callbacks, Eligible(t)))
      /\ UNCHANGED <<lookups, asked, joins, lastTopicLookupSerial, lastForumTopicJoinSerial,
                     expected, listVars>>
  BY DEF ResolveAtOnce, lookupVars, joinVars
<1> DEFINE q == Tell(t, Head(calls).callbacks, Eligible(t))
<1>2. /\ up /\ calls # <<>> /\ Head(calls).do = "resolve" /\ StatementOK(Head(calls))
      /\ UNCHANGED <<up, parent>> /\ Eligible(t)' = Eligible(t)
  BY <1>1, TopicHead
<1>3. Head(calls).callbacks \in Seq(1 .. MaxJoins)
  BY <1>2 DEF StatementOK
<1>4. FineSeq(q)
  BY <1>3, TellFine
<1>5. ASSUME Does(ToSet(q)) PROVE TopicOK(t)'
  <2>1. TopicOK(t)
    BY <1>2, TopicFacts
  <2>2. joins[t].serial \in ToSet(lookups[t].callbacks) => JoinTold(t)'
    BY <1>1 DEF JoinTold, ToSet
  <2>3. joins[t].serial \in ToSet(Head(calls).callbacks) => JoinTold(t)'
    <3>1. joins'[t].serial = joins[t].serial
      BY <1>1
    <3> QED
      BY <1>3, <1>5, <3>1, ToldNow
  <2> HIDE DEF q
  <2>4. JoinOK(t)'
    BY <1>1, <1>2, <1>5, <2>1, <2>2, <2>3, JoinMoves DEF TopicOK, SparesForum
  <2>5. LookupOK(t)'
    BY <1>1, <1>2, <1>5, <2>1, LookupMoves DEF TopicOK, Pending
  <2>6. ExpectedOK(t)'
    BY <1>1, <1>2, <1>5, <2>1, ExpectedMoves DEF TopicOK
  <2> QED
    BY <2>4, <2>5, <2>6 DEF TopicOK
<1>6. TypesOK'
  BY <1>1, <1>2 DEF FInv, TypesOK, listVars
<1>7. "resolve" \notin OfLists /\ Others(t)
  BY <1>1 DEF OfLists, Others
<1> HIDE DEF q
<1>8. Call(q)
  BY <1>1 DEF q
<1> QED
  BY <1>1, <1>4, <1>5, <1>6, <1>7, <1>8, TopicCall

LEMMA ResolveTogetherStep ==
  ASSUME FInv, NEW t \in Topics, ResolveTogether(t)
  PROVE  FInv'
<1> DEFINE c == Head(calls).callbacks
           old == lookups[t].callbacks
           new == old \o c
<1>1. /\ DoingTopic("resolve", t) /\ Call(<<>>) /\ Pending(t)
      /\ lookups' = [lookups EXCEPT ![t].callbacks = new]
      /\ UNCHANGED <<asked, joins, lastTopicLookupSerial, lastForumTopicJoinSerial, expected,
                     listVars>>
  BY DEF ResolveTogether, StillUseful, joinVars
<1>2. /\ up /\ calls # <<>> /\ Head(calls).do = "resolve" /\ StatementOK(Head(calls))
      /\ UNCHANGED <<up, parent>> /\ Eligible(t)' = Eligible(t)
  BY <1>1, TopicHead
<1>3. c \in Seq(1 .. MaxJoins) /\ old \in Seq(1 .. MaxJoins)
  BY <1>2 DEF StatementOK, FInv, TypesOK
<1>4. new \in Seq(1 .. MaxJoins) /\ ToSet(new) = ToSet(old) \cup ToSet(c)
  BY <1>3, ConcatProperties, ConcatSet, SeqIsSequence
<1> HIDE DEF new, c
<1>5. /\ lookups' \in [Topics -> [serial : Nat, callbacks : Seq(1 .. MaxJoins)]]
      /\ lookups'[t].callbacks = new /\ lookups'[t].serial = lookups[t].serial
      /\ \A u \in Topics : u # t => lookups'[u] = lookups[u]
  BY <1>1, <1>4 DEF FInv, TypesOK
<1>6. ASSUME Does(ToSet(<<>>)) PROVE TopicOK(t)'
  <2>1. TopicOK(t)
    BY <1>2, TopicFacts
  <2>2. joins'[t].serial \in ToSet(old) \cup ToSet(c) => JoinTold(t)'
    BY <1>4, <1>5 DEF JoinTold, ToSet
  <2>3. JoinOK(t)'
    BY <1>1, <1>2, <1>6, <2>1, <2>2, JoinMoves DEF TopicOK, SparesForum, c
  <2>4. LookupOK(t)'
    BY <1>1, <1>2, <1>5, <1>6, <2>1, LookupMoves DEF TopicOK
  <2>5. ExpectedOK(t)'
    BY <1>1, <1>2, <1>6, <2>1, ExpectedMoves DEF TopicOK
  <2> QED
    BY <2>3, <2>4, <2>5 DEF TopicOK
<1>7. TypesOK'
  BY <1>1, <1>2, <1>5 DEF FInv, TypesOK, listVars
<1>8. "resolve" \notin OfLists /\ Others(t)
  BY <1>1, <1>5 DEF OfLists, Others
<1> QED
  BY <1>1, <1>6, <1>7, <1>8, FineEmpty, TopicCall

LEMMA ResolveAnewStep ==
  ASSUME FInv, NEW t \in Topics, ResolveAnew(t)
  PROVE  FInv'
<1> DEFINE c == Head(calls).callbacks
           old == lookups[t].callbacks
           new == old \o c
           serial == lastTopicLookupSerial + 1
<1>1. /\ DoingTopic("resolve", t) /\ Call(<<>>)
      /\ lookups' = [lookups EXCEPT ![t] = [serial |-> serial, callbacks |-> new]]
      /\ asked' = asked \cup {<<t, serial>>} /\ lastTopicLookupSerial' = serial
      /\ UNCHANGED <<joins, lastForumTopicJoinSerial, expected, listVars>>
  BY DEF ResolveAnew, joinVars
<1>2. /\ up /\ calls # <<>> /\ Head(calls).do = "resolve" /\ StatementOK(Head(calls))
      /\ UNCHANGED <<up, parent>> /\ Eligible(t)' = Eligible(t)
  BY <1>1, TopicHead
<1>3. c \in Seq(1 .. MaxJoins) /\ old \in Seq(1 .. MaxJoins)
  BY <1>2 DEF StatementOK, FInv, TypesOK
<1>4. new \in Seq(1 .. MaxJoins) /\ ToSet(new) = ToSet(old) \cup ToSet(c)
  BY <1>3, ConcatProperties, ConcatSet, SeqIsSequence
<1> HIDE DEF new, c
<1>5. /\ lookups' \in [Topics -> [serial : Nat, callbacks : Seq(1 .. MaxJoins)]]
      /\ lookups'[t].callbacks = new /\ lookups'[t].serial = serial
      /\ \A u \in Topics : u # t => lookups'[u] = lookups[u]
  BY <1>1, <1>4 DEF FInv, TypesOK
<1>6. ASSUME Does(ToSet(<<>>)) PROVE TopicOK(t)'
  <2>1. TopicOK(t)
    BY <1>2, TopicFacts
  <2>2. joins'[t].serial \in ToSet(old) \cup ToSet(c) => JoinTold(t)'
    BY <1>4, <1>5 DEF JoinTold, ToSet
  <2>3. JoinOK(t)'
    BY <1>1, <1>2, <1>6, <2>1, <2>2, JoinMoves DEF TopicOK, SparesForum, c
  <2>4. LookupOK(t)'
    BY <1>1, <1>5 DEF LookupOK
  <2>5. ExpectedOK(t)'
    BY <1>1, <1>2, <1>6, <2>1, ExpectedMoves DEF TopicOK
  <2> QED
    BY <2>3, <2>4, <2>5 DEF TopicOK
<1>7. TypesOK'
  BY <1>1, <1>2, <1>5 DEF FInv, TypesOK, listVars
<1>8. "resolve" \notin OfLists /\ Others(t)
  BY <1>1, <1>5 DEF OfLists, Others
<1> QED
  BY <1>1, <1>6, <1>7, <1>8, FineEmpty, TopicCall

LEMMA CompleteTopicLookupStep ==
  ASSUME FInv, NEW t \in Topics, CompleteTopicLookup(t)
  PROVE  FInv'
<1> DEFINE old == lookups[t].callbacks
           q == Tell(t, old, Head(calls).available)
<1>1. /\ DoingTopic("complete", t)
      /\ UNCHANGED <<asked, joins, lastTopicLookupSerial, lastForumTopicJoinSerial, expected,
                     listVars>>
  BY DEF CompleteTopicLookup, joinVars
<1>2. /\ up /\ calls # <<>> /\ Head(calls).do = "complete"
      /\ UNCHANGED <<up, parent>> /\ Eligible(t)' = Eligible(t)
  BY <1>1, TopicHead
<1>3. TopicOK(t)
  BY <1>2, TopicFacts
<1>4. "complete" \notin OfLists
  BY DEF OfLists
<1>5. CASE lookups[t].serial = Head(calls).serial
  <2>1. lookups' = [lookups EXCEPT ![t] = NoLookup] /\ Call(q)
    BY <1>5 DEF CompleteTopicLookup
  <2>2. /\ lookups' \in [Topics -> [serial : Nat, callbacks : Seq(1 .. MaxJoins)]]
        /\ lookups'[t] = NoLookup /\ \A u \in Topics : u # t => lookups'[u] = lookups[u]
    BY <2>1, EmptySeq DEF FInv, TypesOK, NoLookup
  <2>3. old \in Seq(1 .. MaxJoins)
    BY DEF FInv, TypesOK
  <2>4. FineSeq(q)
    BY <2>3, TellFine
  <2>5. ASSUME Does(ToSet(q)) PROVE TopicOK(t)'
    <3>1. joins[t].serial \in ToSet(old) => JoinTold(t)'
      <4>1. joins'[t].serial = joins[t].serial
        BY <1>1
      <4> QED
        BY <2>3, <2>5, <4>1, ToldNow
    <3> HIDE DEF q
    <3>2. JoinOK(t)'
      BY <1>1, <1>2, <1>3, <2>5, <3>1, JoinMoves DEF TopicOK, SparesForum
    <3>3. LookupOK(t)'
      BY <2>2 DEF LookupOK, Pending, NoLookup
    <3>4. ExpectedOK(t)'
      BY <1>1, <1>2, <1>3, <2>5, ExpectedMoves DEF TopicOK
    <3> QED
      BY <3>2, <3>3, <3>4 DEF TopicOK
  <2> HIDE DEF q
  <2>6. TypesOK'
    BY <1>1, <1>2, <2>2 DEF FInv, TypesOK, listVars
  <2>7. Others(t)
    BY <1>1, <2>2 DEF Others
  <2> QED
    BY <1>1, <1>4, <2>1, <2>4, <2>5, <2>6, <2>7, TopicCall
<1>6. CASE lookups[t].serial # Head(calls).serial
  <2>1. UNCHANGED lookups /\ Call(<<>>)
    BY <1>6 DEF CompleteTopicLookup
  <2>2. ASSUME Does(ToSet(<<>>)) PROVE TopicOK(t)'
    <3>1. joins[t].serial \in ToSet(lookups[t].callbacks) => JoinTold(t)'
      BY <1>1, <2>1 DEF JoinTold, ToSet
    <3>2. JoinOK(t)'
      BY <1>1, <1>2, <1>3, <2>2, <3>1, JoinMoves DEF TopicOK, SparesForum
    <3>3. LookupOK(t)'
      BY <1>1, <1>2, <1>3, <1>6, <2>1, <2>2, LookupMoves DEF TopicOK, Pending
    <3>4. ExpectedOK(t)'
      BY <1>1, <1>2, <1>3, <2>2, ExpectedMoves DEF TopicOK
    <3> QED
      BY <3>2, <3>3, <3>4 DEF TopicOK
  <2>3. TypesOK' /\ Others(t)
    BY <1>1, <1>2, <2>1 DEF FInv, TypesOK, listVars, Others
  <2> QED
    BY <1>1, <1>4, <2>1, <2>2, <2>3, FineEmpty, TopicCall
<1> QED
  BY <1>5, <1>6

LEMMA OneTopicStep ==
  ASSUME FInv, up, NEW t \in Topics, NEW P, Does(P), Fits(P), TopicOK(t)', TypesOK', Others(t),
         calls # <<>> => /\ Head(calls).do \notin OfLists \cup {"parentChanged"}
                         /\ Head(calls).do \in OfTopics => Head(calls).t = t,
         UNCHANGED <<up, parent, listVars>>
  PROVE  FInv'
<1>1. ASSUME NEW u \in Topics PROVE TopicOK(u)'
  <2>1. CASE u # t
    <3>1. TopicOK(u) /\ SparesTopic(u) /\ SparesForum(u)
      BY <2>1, TopicFacts DEF SparesTopic, SparesForum
    <3> QED
      BY <2>1, <3>1, TopicKept DEF Others
  <2> QED
    BY <2>1
<1>2. NoneStarts
  BY DEF Others, NoneStarts
<1> QED
  BY <1>1, <1>2, TopicStep

\* A lookup that is cancelled is one no join waits for.
LEMMA LookupGone ==
  ASSUME FInv, NEW what \in {"cancelLookup", "suspendTopic"}, NEW t \in Topics,
         DoingTopic(what, t), Call(<<>>), lookups' = [lookups EXCEPT ![t] = NoLookup],
         UNCHANGED <<asked, joins, lastTopicLookupSerial, lastForumTopicJoinSerial, expected,
                     listVars>>
  PROVE  FInv'
<1>1. /\ up /\ calls # <<>> /\ Head(calls).do = what /\ Head(calls).t = t
      /\ Head(calls) \in todo /\ UNCHANGED <<up, parent>>
  BY TopicHead
<1>2. joins[t] = NoJoin
  BY <1>1 DEF FInv, CancelsOK, Unwanted
<1>3. TopicOK(t)
  BY <1>1, TopicFacts
<1>4. /\ lookups' \in [Topics -> [serial : Nat, callbacks : Seq(1 .. MaxJoins)]]
      /\ lookups'[t] = NoLookup /\ \A u \in Topics : u # t => lookups'[u] = lookups[u]
  BY EmptySeq DEF FInv, TypesOK, NoLookup
<1>5. ASSUME Does(ToSet(<<>>)) PROVE TopicOK(t)'
  <2>1. JoinOK(t)'
    BY <1>2 DEF JoinOK, NoJoin
  <2>2. LookupOK(t)'
    BY <1>4 DEF LookupOK, Pending, NoLookup
  <2>3. ExpectedOK(t)'
    BY <1>1, <1>3, <1>5, ExpectedMoves DEF TopicOK
  <2> QED
    BY <2>1, <2>2, <2>3 DEF TopicOK
<1>6. TypesOK' /\ Others(t) /\ what \notin OfLists
  BY <1>1, <1>4 DEF FInv, TypesOK, Others, OfLists, listVars
<1> QED
  BY <1>5, <1>6, FineEmpty, TopicCall

LEMMA LookupGoneSteps ==
  ASSUME FInv, NEW t \in Topics, CancelForumTopicLookup(t) \/ SuspendTopic(t)
  PROVE  FInv'
<1>1. CASE CancelForumTopicLookup(t)
  BY <1>1, LookupGone DEF CancelForumTopicLookup, joinVars
<1>2. CASE SuspendTopic(t)
  BY <1>2, LookupGone DEF SuspendTopic, joinVars
<1> QED
  BY <1>1, <1>2

\* What an answer leaves to execute
LEMMA AnswerStep ==
  ASSUME FInv, NEW t \in Topics, NEW serial, Answered(t, serial), NEW q, FineSeq(q), calls' = q,
         lookups[t].serial = serial =>
           \E s \in ToSet(q) : s.do = "complete" /\ s.t = t /\ s.serial = serial
  PROVE  FInv'
<1>1. /\ calls = <<>> /\ up /\ asked' = asked \ {<<t, serial>>}
      /\ UNCHANGED <<up, parent, lookups, lastTopicLookupSerial, joins, lastForumTopicJoinSerial,
                     expected, listVars>>
  BY DEF Answered, AtRest, clientVars, joinVars
<1>2. Does(ToSet(q)) /\ Fits(ToSet(q)) /\ SparesTopic(t) /\ SparesForum(t)
  BY <1>1, UpdateDoes, FineFits DEF FineSeq, SparesTopic, SparesForum
<1>3. TopicOK(t)
  BY <1>1, TopicFacts
<1>4. LookupOK(t)'
  <2>1. CASE lookups[t].serial = serial
    <3>1. PICK s \in ToSet(q) : s.do = "complete" /\ s.t = t /\ s.serial = serial
      BY <2>1
    <3>2. s \in todo'
      BY <1>2, <3>1 DEF Does
    <3> QED
      BY <1>1, <2>1, <3>1, <3>2 DEF LookupOK
  <2>2. CASE lookups[t].serial # serial
    BY <1>1, <1>2, <1>3, <2>2, LookupKept DEF TopicOK
  <2> QED
    BY <2>1, <2>2
<1>5. JoinOK(t)' /\ ExpectedOK(t)'
  BY <1>1, <1>2, <1>3, JoinKept, ExpectedKept DEF TopicOK, Eligible
<1>6. TypesOK' /\ Others(t)
  BY <1>1 DEF FInv, TypesOK, Others, listVars
<1> QED
  BY <1>1, <1>2, <1>4, <1>5, <1>6, OneTopicStep DEF TopicOK

LEMMA AnswerSteps ==
  ASSUME FInv, NEW t \in Topics, NEW serial,
         LookupIgnored(t, serial) \/ LookupFails(t, serial) \/ LookupSucceeds(t, serial)
  PROVE  FInv'
<1>1. Answered(t, serial)
  BY DEF LookupIgnored, LookupFails, LookupSucceeds
<1>2. CASE LookupIgnored(t, serial)
  <2>1. calls' = <<>> /\ lookups[t].serial # serial
    BY <1>1, <1>2 DEF LookupIgnored, Answered, AtRest
  <2> QED
    BY <1>1, <2>1, FineEmpty, AnswerStep
<1> DEFINE told(available) ==
             [do |-> "complete", t |-> t, serial |-> serial, available |-> available]
<1>3. \A available : FineSeq(Complete(t, serial, available))
                     /\ ToSet(Complete(t, serial, available)) = {told(available)}
  BY FineStatements, SingleSet DEF Complete
<1>4. CASE LookupFails(t, serial)
  <2>1. calls' = Complete(t, serial, FALSE)
    BY <1>4 DEF LookupFails
  <2>2. PICK q : q = Complete(t, serial, FALSE)
    OBVIOUS
  <2>3. told(FALSE) \in ToSet(q) /\ FineSeq(q)
    BY <1>3, <2>2
  <2>4. \E s \in ToSet(q) : s.do = "complete" /\ s.t = t /\ s.serial = serial
    BY <2>3
  <2> QED
    BY <1>1, <2>1, <2>2, <2>3, <2>4, AnswerStep
<1>5. CASE LookupSucceeds(t, serial)
  <2>1. PICK available, more : /\ calls' = Complete(t, serial, available) \o more
                               /\ FineSeq(more)
    <3>1. FineSeq(<<>>) /\ FineSeq(Topic("project", t))
      BY FineEmpty, FineStatements DEF Cancels, OfLists
    <3> QED
      BY <1>5, <3>1 DEF LookupSucceeds
  <2>2. PICK q : q = Complete(t, serial, available) \o more
    OBVIOUS
  <2>3. FineSeq(q) /\ ToSet(q) = {told(available)} \cup ToSet(more)
    BY <1>3, <2>1, <2>2, FineConcat, ConcatSet DEF FineSeq
  <2>4. told(available) \in ToSet(q)
    BY <2>3
  <2>5. \E s \in ToSet(q) : s.do = "complete" /\ s.t = t /\ s.serial = serial
    BY <2>4
  <2> QED
    BY <1>1, <2>1, <2>2, <2>3, <2>5, AnswerStep
<1> QED
  BY <1>2, <1>4, <1>5

-----------------------------------------------------------------------------
(* Joins *)

LEMMA JoinEarlyStep ==
  ASSUME FInv, NEW t \in Topics, JoinEarly(t)
  PROVE  FInv'
<1>1. /\ DoingTopic("join", t) /\ parent[ForumOf[t]] = "unknown" /\ Call(<<>>)
      /\ expected' \in {expected, expected \cup {t}}
      /\ UNCHANGED <<lookups, asked, joins, lastTopicLookupSerial, lastForumTopicJoinSerial,
                     listVars>>
  BY DEF JoinEarly, lookupVars
<1>2. /\ up /\ calls # <<>> /\ Head(calls).do = "join"
      /\ UNCHANGED <<up, parent>> /\ Eligible(t)' = Eligible(t)
  BY <1>1, TopicHead
<1>3. TopicOK(t)
  BY <1>2, TopicFacts
<1>4. ASSUME Does(ToSet(<<>>)) PROVE TopicOK(t)'
  <2>1. joins[t].serial \in ToSet(lookups[t].callbacks) => JoinTold(t)'
    BY <1>1 DEF JoinTold, ToSet
  <2>2. JoinOK(t)'
    BY <1>1, <1>2, <1>3, <1>4, <2>1, JoinMoves DEF TopicOK, SparesForum
  <2>3. ExpectedOK(t)'
    BY <1>1, <1>2 DEF ExpectedOK
  <2>4. LookupOK(t)'
    BY <1>1, <1>2, <1>3, <1>4, LookupMoves DEF TopicOK, Pending
  <2> QED
    BY <2>2, <2>3, <2>4 DEF TopicOK
<1>5. TypesOK' /\ Others(t) /\ "join" \notin OfLists
  BY <1>1, <1>2 DEF FInv, TypesOK, Others, OfLists, listVars
<1> QED
  BY <1>1, <1>4, <1>5, FineEmpty, TopicCall

LEMMA JoinRefusedStep ==
  ASSUME FInv, NEW t \in Topics, JoinRefused(t)
  PROVE  FInv'
<1>1. /\ DoingTopic("join", t) /\ parent[ForumOf[t]] = "ineligible" /\ Call(<<>>)
      /\ UNCHANGED <<lookups, asked, joins, lastTopicLookupSerial, lastForumTopicJoinSerial,
                     expected, listVars>>
  BY DEF JoinRefused, lookupVars, joinVars
<1>2. /\ up /\ calls # <<>> /\ Head(calls).do = "join"
      /\ UNCHANGED <<up, parent>> /\ Eligible(t)' = Eligible(t)
  BY <1>1, TopicHead
<1>3. TopicOK(t)
  BY <1>2, TopicFacts
<1>4. ASSUME Does(ToSet(<<>>)) PROVE TopicOK(t)'
  <2>1. joins[t].serial \in ToSet(lookups[t].callbacks) => JoinTold(t)'
    BY <1>1 DEF JoinTold, ToSet
  <2>2. JoinOK(t)'
    BY <1>1, <1>2, <1>3, <1>4, <2>1, JoinMoves DEF TopicOK, SparesForum
  <2>3. /\ [do |-> "fail", t |-> t] \in todo => [do |-> "fail", t |-> t] \in todo'
        /\ Settling(t) => Settling(t)'
    <3>1. [do |-> "fail", t |-> t] \in todo => [do |-> "fail", t |-> t] \in todo'
      BY <1>2, <1>4 DEF Does
    <3>2. SparesForum(t)
      BY <1>2 DEF SparesForum
    <3> QED
      BY <1>4, <3>1, <3>2, SettlingKept
  <2>4. ExpectedOK(t)'
    BY <1>1, <1>2, <1>3, <2>3 DEF TopicOK, ExpectedOK, Eligible, NoJoin
  <2>5. LookupOK(t)'
    BY <1>1, <1>2, <1>3, <1>4, LookupMoves DEF TopicOK, Pending
  <2> QED
    BY <2>2, <2>4, <2>5 DEF TopicOK
<1>5. TypesOK' /\ Others(t) /\ "join" \notin OfLists
  BY <1>1, <1>2 DEF FInv, TypesOK, Others, OfLists, listVars
<1> QED
  BY <1>1, <1>4, <1>5, FineEmpty, TopicCall

LEMMA JoinForumTopicStep ==
  ASSUME FInv, MetadataTypeOK, NEW t \in Topics, JoinForumTopic(t)
  PROVE  FInv'
<1> DEFINE serial == lastForumTopicJoinSerial + 1
           new == [serial |-> serial, persistent |-> PersistentIntent(t),
                   live |-> lastLiveMessageGeneration[t]]
<1>1. /\ DoingTopic("join", t) /\ Eligible(t) /\ lastForumTopicJoinSerial < MaxJoins
      /\ lastForumTopicJoinSerial' = serial
      /\ UNCHANGED <<lookups, asked, lastTopicLookupSerial, expected, listVars>>
  BY DEF JoinForumTopic, lookupVars
<1>2. /\ up /\ calls # <<>> /\ Head(calls).do = "join"
      /\ UNCHANGED <<up, parent>> /\ Eligible(t)' = Eligible(t)
  BY <1>1, TopicHead
<1>3. TopicOK(t) /\ "join" \notin OfLists
  BY <1>2, TopicFacts DEF OfLists
<1>4. serial \in 1 .. MaxJoins /\ PersistentIntent(t) \in BOOLEAN
  BY <1>1, JoinsAssumption DEF FInv, TypesOK, PersistentIntent
<1>5. CASE joins[t] = NoJoin
  <2>1. joins' = [joins EXCEPT ![t] = new] /\ Call(Resolve(t, <<serial>>))
    BY <1>5 DEF JoinForumTopic
  <2>2. new \in [serial : Nat, persistent : BOOLEAN, live : 0 .. MaxGeneration]
    BY <1>4, JoinsAssumption DEF MetadataTypeOK
  <2>3. new.serial = serial
    OBVIOUS
  <2> HIDE DEF new
  <2>4. /\ joins' \in [Topics -> [serial : Nat, persistent : BOOLEAN, live : 0 .. MaxGeneration]]
        /\ joins'[t] = new /\ \A u \in Topics : u # t => joins'[u] = joins[u]
    BY <2>1, <2>2 DEF FInv, TypesOK
  <2>5. <<serial>> \in Seq(1 .. MaxJoins) /\ ToSet(<<serial>>) = {serial}
    BY <1>4, SingleSet
  <2>6. FineSeq(Resolve(t, <<serial>>))
    BY <2>5, FineResolve
  <2>7. ASSUME Does(ToSet(Resolve(t, <<serial>>))) PROVE TopicOK(t)'
    <3> DEFINE s == [do |-> "resolve", t |-> t, callbacks |-> <<serial>>]
    <3>1. s \in ToSet(Resolve(t, <<serial>>)) /\ s.do = "resolve" /\ s.t = t /\ s.callbacks = <<serial>>
      BY SingleSet DEF Resolve
    <3>2. s \in todo'
      BY <2>7, <3>1 DEF Does
    <3>3. serial \in ToSet(s.callbacks)
      BY <2>5, <3>1
    <3> HIDE DEF s
    <3>4. joins'[t].serial = serial /\ serial # 0 /\ joins'[t] # NoJoin
      BY <1>4, <2>3, <2>4 DEF NoJoin
    <3>5. JoinTold(t)'
      BY <3>1, <3>2, <3>3, <3>4 DEF JoinTold, ToSet
    <3>6. JoinOK(t)' /\ ExpectedOK(t)'
      BY <1>1, <1>2, <3>4, <3>5 DEF JoinOK, ExpectedOK, NoJoin
    <3>7. LookupOK(t)'
      BY <1>1, <1>2, <1>3, <2>7, LookupMoves DEF TopicOK, Pending
    <3> QED
      BY <3>6, <3>7 DEF TopicOK
  <2>8. TypesOK' /\ Others(t)
    BY <1>1, <1>2, <1>4, <2>4 DEF FInv, TypesOK, Others, listVars
  <2> QED
    BY <1>1, <1>3, <2>1, <2>6, <2>7, <2>8, TopicCall
<1>6. CASE joins[t] # NoJoin
  <2>1. /\ joins' = [joins EXCEPT ![t].persistent = @ /\ PersistentIntent(t)] /\ Call(<<>>)
    BY <1>6 DEF JoinForumTopic
  <2>2. /\ joins' \in [Topics -> [serial : Nat, persistent : BOOLEAN, live : 0 .. MaxGeneration]]
        /\ joins'[t].serial = joins[t].serial
        /\ \A u \in Topics : u # t => joins'[u] = joins[u]
    BY <2>1 DEF FInv, TypesOK
  <2>3. ASSUME Does(ToSet(<<>>)) PROVE TopicOK(t)'
    <3>1. joins[t].serial # 0 /\ JoinTold(t)
      BY <1>3, <1>6 DEF TopicOK, JoinOK
    <3>2. \A s \in todo : s.do \in {"resolve", "joinResult"} => s \in todo'
      BY <1>2, <2>3 DEF Does
    <3>3. JoinTold(t)'
      BY <1>1, <2>2, <3>1, <3>2 DEF JoinTold, ToSet
    <3>4. joins'[t] # NoJoin
      BY <2>2, <3>1 DEF NoJoin
    <3>5. JoinOK(t)' /\ ExpectedOK(t)'
      BY <1>1, <1>2, <2>2, <3>1, <3>3, <3>4 DEF JoinOK, ExpectedOK, NoJoin
    <3>6. LookupOK(t)'
      BY <1>1, <1>2, <1>3, <2>3, LookupMoves DEF TopicOK, Pending
    <3> QED
      BY <3>5, <3>6 DEF TopicOK
  <2>4. TypesOK' /\ Others(t)
    BY <1>1, <1>2, <1>4, <2>2 DEF FInv, TypesOK, Others, listVars
  <2> QED
    BY <1>1, <1>3, <2>1, <2>3, <2>4, FineEmpty, TopicCall
<1> QED
  BY <1>5, <1>6

LEMMA JoinForgottenStep ==
  ASSUME FInv, NEW t \in Topics, JoinForgotten(t)
  PROVE  FInv'
<1>1. /\ DoingTopic("joinResult", t) /\ joins[t].serial # Head(calls).serial /\ Call(<<>>)
      /\ UNCHANGED <<lookups, asked, joins, lastTopicLookupSerial, lastForumTopicJoinSerial,
                     expected, listVars>>
  BY DEF JoinForgotten, lookupVars, joinVars
<1>2. /\ up /\ calls # <<>> /\ Head(calls).do = "joinResult"
      /\ UNCHANGED <<up, parent>> /\ Eligible(t)' = Eligible(t)
  BY <1>1, TopicHead
<1>3. TopicOK(t)
  BY <1>2, TopicFacts
<1>4. ASSUME Does(ToSet(<<>>)) PROVE TopicOK(t)'
  <2>1. joins[t].serial \in ToSet(lookups[t].callbacks) => JoinTold(t)'
    BY <1>1 DEF JoinTold, ToSet
  <2>2. JoinOK(t)'
    BY <1>1, <1>2, <1>3, <1>4, <2>1, JoinMoves DEF TopicOK, SparesForum
  <2>3. LookupOK(t)'
    BY <1>1, <1>2, <1>3, <1>4, LookupMoves DEF TopicOK, Pending
  <2>4. ExpectedOK(t)'
    BY <1>1, <1>2, <1>3, <1>4, ExpectedMoves DEF TopicOK
  <2> QED
    BY <2>2, <2>3, <2>4 DEF TopicOK
<1>5. TypesOK' /\ Others(t) /\ "joinResult" \notin OfLists
  BY <1>1, <1>2 DEF FInv, TypesOK, Others, OfLists, listVars
<1> QED
  BY <1>1, <1>4, <1>5, FineEmpty, TopicCall

\* A join that is over is forgotten, whatever is left to execute.
LEMMA JoinGone ==
  ASSUME FInv, up, NEW t \in Topics, NEW P, Does(P), Fits(P),
         joins' = [joins EXCEPT ![t] = NoJoin], expected' = expected \ {t},
         calls # <<>> => /\ Head(calls).do \notin OfLists \cup {"complete", "parentChanged"}
                         /\ Head(calls).do \in OfTopics => Head(calls).t = t,
         UNCHANGED <<up, parent, lookups, asked, lastTopicLookupSerial, lastForumTopicJoinSerial,
                     listVars>>
  PROVE  FInv'
<1>1. NoJoin \in [serial : Nat, persistent : BOOLEAN, live : 0 .. MaxGeneration]
  BY BoundAssumption DEF NoJoin
<1>2. /\ joins' \in [Topics -> [serial : Nat, persistent : BOOLEAN, live : 0 .. MaxGeneration]]
      /\ joins'[t] = NoJoin /\ \A u \in Topics : u # t => joins'[u] = joins[u]
  BY <1>1 DEF FInv, TypesOK
<1>3. TopicOK(t)
  BY TopicFacts
<1>4. JoinOK(t)' /\ ExpectedOK(t)'
  BY <1>2 DEF JoinOK, ExpectedOK, NoJoin
<1>5. \A s \in todo : s.do = "complete" => s \in todo'
  BY DEF Does
<1>6. LookupOK(t)'
  BY <1>3, <1>5 DEF TopicOK, LookupOK, Pending, NoLookup
<1>7. TypesOK' /\ Others(t)
  BY <1>2 DEF FInv, TypesOK, Others, listVars
<1> QED
  BY <1>4, <1>6, <1>7, OneTopicStep DEF TopicOK

LEMMA CallFits ==
  ASSUME FInv, calls # <<>>, NEW q, FineSeq(q), Call(q)
  PROVE  Does(ToSet(q)) /\ Fits(ToSet(q))
BY CallDoes, FineFits DEF FineSeq, FInv, CallsOK

LEMMA JoinOverSteps ==
  ASSUME FInv, NEW t \in Topics, JoinEndsQuietly(t) \/ JoinFails(t) \/ JoinSucceeds(t)
  PROVE  FInv'
<1>1. /\ DoingTopic("joinResult", t)
      /\ joins' = [joins EXCEPT ![t] = NoJoin] /\ expected' = expected \ {t}
      /\ UNCHANGED <<lookups, asked, lastTopicLookupSerial, lastForumTopicJoinSerial, listVars>>
  BY DEF JoinEndsQuietly, JoinFails, JoinSucceeds, JoinOver, lookupVars
<1>2. /\ up /\ calls # <<>> /\ Head(calls).do = "joinResult" /\ Head(calls).t = t
      /\ UNCHANGED <<up, parent>>
  BY <1>1, TopicHead
<1>3. PICK q : FineSeq(q) /\ Call(q)
  <2>1. FineSeq(<<>>) /\ FineSeq(Handlers) /\ FineSeq(Open(t, "join"))
    BY FineEmpty, FineStatements
  <2>2. FineSeq((IF t \in bookmarks THEN Handlers ELSE <<>>) \o Open(t, "join"))
    BY <2>1, FineConcat
  <2> QED
    BY <2>1, <2>2 DEF JoinEndsQuietly, JoinFails, JoinSucceeds
<1>4. Does(ToSet(q)) /\ Fits(ToSet(q))
  BY <1>2, <1>3, CallFits
<1>5. "joinResult" \notin OfLists \cup {"complete", "parentChanged"}
  BY DEF OfLists
<1> QED
  BY <1>1, <1>2, <1>4, <1>5, JoinGone

\* A topic that turns out to be open satisfies the join.
LEMMA OpenedSteps ==
  ASSUME FInv, NEW t \in Topics, PreparedOpens(t) \/ MessageWritten(t)
  PROVE  FInv'
<1>1. /\ DoingTopic("opened", t)
      /\ SatisfyForumTopicJoinIfOpen(t) \/ UNCHANGED joinVars
      /\ UNCHANGED <<lookups, asked, lastTopicLookupSerial, listVars>>
  BY DEF PreparedOpens, MessageWritten, lookupVars
<1>2. /\ up /\ calls # <<>> /\ Head(calls).do = "opened" /\ Head(calls).t = t
      /\ UNCHANGED <<up, parent>>
  BY <1>1, TopicHead
<1>3. /\ "opened" \notin OfLists \cup {"complete", "parentChanged"}
      /\ "opened" \notin OfLists \cup OfTopics
  BY DEF OfLists, OfTopics
<1>4. PICK q : FineSeq(q) /\ Call(q)
  BY FineEmpty, FineStatements DEF PreparedOpens, MessageWritten
<1>5. CASE joins' = [joins EXCEPT ![t] = NoJoin] /\ expected' = expected \ {t}
           /\ UNCHANGED lastForumTopicJoinSerial
  <2>1. Does(ToSet(q)) /\ Fits(ToSet(q))
    BY <1>2, <1>4, CallFits
  <2> QED
    BY <1>1, <1>2, <1>3, <1>5, <2>1, JoinGone
<1>6. CASE UNCHANGED joinVars
  BY <1>1, <1>3, <1>4, <1>6, QuietCall DEF DoingTopic, joinVars
<1> QED
  BY <1>1, <1>5, <1>6 DEF SatisfyForumTopicJoinIfOpen, joinVars

LEMMA CloseConversationStep ==
  ASSUME FInv, NEW t \in Topics, CloseConversation(t)
  PROVE  FInv'
<1>1. /\ Outside(<<>>) /\ up
      /\ joins' = [joins EXCEPT ![t] = NoJoin] /\ expected' = expected \ {t}
      /\ UNCHANGED <<up, lookups, asked, lastTopicLookupSerial, lastForumTopicJoinSerial, listVars>>
  BY DEF CloseConversation, lookupVars, Outside
<1>2. /\ Does(ToSet(<<>>)) /\ Fits(ToSet(<<>>)) /\ UNCHANGED parent
      /\ calls # <<>> => Head(calls).do \notin OfLists \cup OfTopics
  BY <1>1, FineEmpty, OutsideCalls
<1>3. {"complete", "parentChanged"} \subseteq OfTopics
  BY DEF OfTopics
<1> QED
  BY <1>1, <1>2, <1>3, JoinGone

LEMMA FailForumTopicJoinStep ==
  ASSUME FInv, NEW t \in Topics, FailForumTopicJoin(t)
  PROVE  FInv'
<1>1. /\ DoingTopic("fail", t) /\ Call(Handlers) /\ expected' = expected \ {t}
      /\ UNCHANGED <<lookups, asked, joins, lastTopicLookupSerial, lastForumTopicJoinSerial,
                     listVars>>
  BY DEF FailForumTopicJoin, lookupVars
<1>2. /\ up /\ calls # <<>> /\ Head(calls).do = "fail"
      /\ UNCHANGED <<up, parent>> /\ Eligible(t)' = Eligible(t)
  BY <1>1, TopicHead
<1>3. TopicOK(t)
  BY <1>2, TopicFacts
<1>4. ASSUME Does(ToSet(Handlers)) PROVE TopicOK(t)'
  <2>1. joins[t].serial \in ToSet(lookups[t].callbacks) => JoinTold(t)'
    BY <1>1 DEF JoinTold, ToSet
  <2>2. JoinOK(t)'
    BY <1>1, <1>2, <1>3, <1>4, <2>1, JoinMoves DEF TopicOK, SparesForum
  <2>3. LookupOK(t)'
    BY <1>1, <1>2, <1>3, <1>4, LookupMoves DEF TopicOK, Pending
  <2>4. ExpectedOK(t)'
    BY <1>1 DEF ExpectedOK
  <2> QED
    BY <2>2, <2>3, <2>4 DEF TopicOK
<1>5. TypesOK' /\ Others(t) /\ "fail" \notin OfLists
  BY <1>1, <1>2 DEF FInv, TypesOK, Others, OfLists, listVars
<1> QED
  BY <1>1, <1>4, <1>5, FineStatements, TopicCall

-----------------------------------------------------------------------------
(* Forums *)

LEMMA AtRestFacts ==
  ASSUME FInv, up, calls = <<>>, NEW t \in Topics
  PROVE  /\ todo = {}
         /\ joins[t] # NoJoin => /\ joins[t].serial # 0
                                 /\ joins[t].serial \in ToSet(lookups[t].callbacks)
         /\ Pending(t) => <<t, lookups[t].serial>> \in asked
         /\ t \in expected => joins[t] # NoJoin \/ parent[ForumOf[t]] = "unknown"
<1>1. todo = {}
  BY EmptySet DEF todo
<1>2. TopicOK(t)
  BY TopicFacts
<1> QED
  BY <1>1, <1>2 DEF TopicOK, JoinOK, JoinTold, LookupOK, ExpectedOK, Settling

\* failForumTopicJoins, of a forum the account is not in any more
LEMMA FailJoins ==
  ASSUME FInv, up, calls # <<>>, NEW f \in Forums, NEW after, IsSequence(after), FailForumTopicJoins(f, after),
         NEW A, A \subseteq ToSet(after), ToSet(after) \subseteq todo \cup A,
         \A s \in A : /\ StatementOK(s)
                      /\ s.do \in Cancels => s = [do |-> "suspend", f |-> f],
         ToSet(Tail(calls)) \subseteq ToSet(after), parent[f] # "eligible",
         Head(calls).do \notin (OfLists \cup OfTopics) \ {"parentChanged"},
         Head(calls).do = "parentChanged" => Head(calls).f = f,
         UNCHANGED <<up, parent, lookups, asked, lastTopicLookupSerial, listVars>>
  PROVE  FInv'
<1> DEFINE failed == JoinsKept(f) \cap TopicsOf(f)
           told == failed \cup (expected' \cap TopicsOf(f))
           a == EachTopic("cancelLookup", failed)
           b == EachTopic("fail", told)
           C == {[do |-> "cancelLookup", t |-> t] : t \in failed}
           F == {[do |-> "fail", t |-> t] : t \in told}
<1>1. /\ expected' = expected \ Abandoned(f)
      /\ joins' = [t \in Topics |-> IF t \in TopicsOf(f) THEN NoJoin ELSE joins[t]]
      /\ calls' = Settled(a \o b \o after)
      /\ UNCHANGED lastForumTopicJoinSerial
  BY DEF FailForumTopicJoins
<1>2. /\ failed \in SUBSET Topics /\ told \in SUBSET Topics
      /\ \A t \in failed \cup told : ForumOf[t] = f
      /\ \A t \in Topics : t \in expected' /\ ForumOf[t] = f => t \in told
  BY DEF TopicsOf
<1> HIDE DEF failed, told
<1>3. IsSequence(a) /\ ToSet(a) = C /\ IsSequence(b) /\ ToSet(b) = F
  BY <1>2, EachTopicSet
<1> HIDE DEF a, b
<1>4. PICK q : q = a \o b \o after
  OBVIOUS
<1>5. IsSequence(a \o b) /\ ToSet(a \o b) = C \cup F
  BY <1>3, ConcatSet
<1>6. IsSequence(q) /\ ToSet(q) = C \cup F \cup ToSet(after)
  BY <1>4, <1>5, ConcatSet
<1>7. Fits(C \cup F \cup A)
  <2>1. \A t \in Topics : ForumOf[t] = f => Unwanted(t)'
    BY <1>1 DEF Unwanted, Eligible, NoJoin, TopicsOf
  <2>2. Fits(C)
    BY <1>2, <2>1 DEF Fits, StatementOK, OfLists, OfTopics
  <2>3. Fits(F)
    BY DEF Fits, StatementOK, OfLists, OfTopics
  <2>4. Fits(A)
    BY <2>1 DEF Fits, Cancels
  <2> HIDE DEF C, F
  <2> QED
    BY <2>2, <2>3, <2>4 DEF Fits
<1>8. Does(C \cup F \cup A)
  <2> HIDE DEF C, F
  <2>1. ToSet(q) \subseteq todo \cup (C \cup F \cup A)
    BY <1>6
  <2>2. C \cup F \cup A \subseteq ToSet(q)
    BY <1>6
  <2>3. ToSet(Tail(calls)) \subseteq ToSet(q)
    BY <1>6
  <2>4. calls' = Settled(q) /\ IsSequence(calls)
    BY <1>1, <1>4 DEF FInv, CallsOK
  <2> QED
    BY <1>6, <2>1, <2>2, <2>3, <2>4, SettlesTo
<1>9. \A t \in Topics : /\ TopicOK(t) /\ SparesTopic(t) /\ (ForumOf[t] # f => SparesForum(t))
                        /\ joins'[t] = IF ForumOf[t] = f THEN NoJoin ELSE joins[t]
  BY <1>1, TopicFacts DEF SparesTopic, SparesForum, TopicsOf
<1>10. ASSUME NEW t \in Topics PROVE TopicOK(t)'
  <2>1. LookupOK(t)'
    BY <1>8, <1>9, LookupKept DEF TopicOK
  <2>2. CASE ForumOf[t] = f
    <3>1. JoinOK(t)'
      BY <1>9, <2>2 DEF JoinOK, NoJoin
    <3>2. ASSUME t \in expected' PROVE [do |-> "fail", t |-> t] \in todo'
      <4>1. [do |-> "fail", t |-> t] \in F
        BY <1>2, <2>2, <3>2
      <4> QED
        BY <1>8, <4>1 DEF Does
    <3> QED
      BY <2>1, <3>1, <3>2 DEF TopicOK, ExpectedOK
  <2>3. CASE ForumOf[t] # f
    BY <1>1, <1>8, <1>9, <2>3, TopicKept
  <2> QED
    BY <2>2, <2>3
<1>11. TypesOK'
  <2>1. NoJoin \in [serial : Nat, persistent : BOOLEAN, live : 0 .. MaxGeneration]
    BY BoundAssumption DEF NoJoin
  <2> QED
    BY <1>1, <2>1 DEF FInv, TypesOK, listVars
<1>12. NoneStarts
  BY <1>9 DEF NoneStarts
<1>13. Head(calls).do \notin OfLists
  BY DEF OfLists
<1> QED
  BY <1>7, <1>8, <1>10, <1>11, <1>12, <1>13, TopicStep

LEMMA SuspendForumTopicsStep ==
  ASSUME FInv, NEW f \in Forums, SuspendForumTopics(f)
  PROVE  FInv'
<1> DEFINE A == {[do |-> "suspend", f |-> f]}
           after == Forum("suspend", f) \o Tail(calls)
<1>1. /\ up /\ calls # <<>> /\ Head(calls).do = "projectAll" /\ parent[f] # "eligible"
      /\ FailForumTopicJoins(f, after)
      /\ UNCHANGED <<up, parent, lookups, asked, lastTopicLookupSerial, listVars>>
  BY DEF SuspendForumTopics, DoingForum, Doing, At, clientVars, lookupVars
<1>2. IsSequence(Tail(calls)) /\ ToSet(Tail(calls)) \subseteq todo
  BY <1>1, TailSet DEF FInv, CallsOK, todo
<1>3. IsSequence(Forum("suspend", f)) /\ ToSet(Forum("suspend", f)) = A
  BY SingleSet DEF Forum
<1>4. IsSequence(after) /\ ToSet(after) = A \cup ToSet(Tail(calls))
  BY <1>2, <1>3, ConcatSet
<1>5. \A s \in A : /\ StatementOK(s)
                   /\ s.do \in Cancels => s = [do |-> "suspend", f |-> f]
  BY DEF StatementOK, OfLists, OfTopics
<1>6. "projectAll" \notin OfLists \cup OfTopics /\ "projectAll" # "parentChanged"
  BY DEF OfLists, OfTopics
<1> HIDE DEF A, after
<1>7. A \subseteq ToSet(after) /\ ToSet(after) \subseteq todo \cup A /\ ToSet(Tail(calls)) \subseteq ToSet(after)
  BY <1>2, <1>4
<1> QED
  BY <1>1, <1>4, <1>5, <1>6, <1>7, FailJoins

\* retryExpectedForumTopicJoins, of a forum the account is in now
LEMMA RetryJoins ==
  ASSUME FInv, up, calls # <<>>, NEW f \in Forums, parent[f] = "eligible",
         Head(calls).do = "parentChanged", Head(calls).f = f,
         RetryExpectedForumTopicJoins(f, Forum("projectAll", f) \o Tail(calls)),
         UNCHANGED <<up, parent, lookups, asked, lastTopicLookupSerial, listVars>>
  PROVE  FInv'
<1> DEFINE again == expected' \cap TopicsOf(f)
           a == EachTopic("join", again)
           J == {[do |-> "join", t |-> t] : t \in again}
           q == a \o Forum("projectAll", f)
<1>1. /\ expected' = expected \ Abandoned(f)
      /\ joins' = [t \in Topics |-> IF t \in JoinsKept(f) THEN joins[t] ELSE NoJoin]
      /\ calls' = Settled(a \o (Forum("projectAll", f) \o Tail(calls)))
      /\ UNCHANGED lastForumTopicJoinSerial
  BY DEF RetryExpectedForumTopicJoins
<1>2. /\ again \in SUBSET Topics
      /\ \A t \in Topics : t \in expected' /\ ForumOf[t] = f => t \in again
  BY DEF TopicsOf
<1> HIDE DEF again
<1>3. IsSequence(a) /\ ToSet(a) = J
  BY <1>2, EachTopicSet
<1>4. FineSeq(a)
  BY <1>3 DEF FineSeq, Fine, StatementOK, Cancels, OfLists, OfTopics
<1>5. FineSeq(Forum("projectAll", f))
  BY FineStatements DEF Cancels, OfLists
<1> HIDE DEF a
<1>6. FineSeq(q) /\ J \subseteq ToSet(q)
  <2>1. FineSeq(q)
    BY <1>4, <1>5, FineConcat
  <2>2. ToSet(q) = ToSet(a) \cup ToSet(Forum("projectAll", f))
    BY <1>3, <1>5, ConcatSet DEF FineSeq
  <2> HIDE DEF q, J
  <2> QED
    BY <1>3, <2>1, <2>2
<1>7. Does(ToSet(q)) /\ Fits(ToSet(q))
  <2> DEFINE r == Forum("projectAll", f) \o Tail(calls)
             w == a \o r
  <2>1. IsSequence(calls) /\ IsSequence(Tail(calls)) /\ ToSet(Tail(calls)) \subseteq todo
    BY TailSet DEF FInv, CallsOK, todo
  <2>2. IsSequence(r) /\ ToSet(r) = ToSet(Forum("projectAll", f)) \cup ToSet(Tail(calls))
    BY <1>5, <2>1, ConcatSet DEF FineSeq
  <2> HIDE DEF r
  <2>3. IsSequence(w) /\ ToSet(w) = ToSet(a) \cup ToSet(r)
    BY <1>3, <2>2, ConcatSet
  <2>4. calls' = Settled(w)
    BY <1>1 DEF r
  <2> HIDE DEF w
  <2>5. ToSet(q) = ToSet(a) \cup ToSet(Forum("projectAll", f))
    BY <1>3, <1>5, ConcatSet DEF FineSeq
  <2> HIDE DEF q
  <2>6. Does(ToSet(q))
    BY <2>1, <2>2, <2>3, <2>4, <2>5, SettlesTo
  <2> QED
    BY <1>6, <2>6, FineFits DEF FineSeq
<1> HIDE DEF q
<1>8. \A t \in Topics :
        /\ TopicOK(t) /\ SparesTopic(t) /\ (ForumOf[t] # f => SparesForum(t))
        /\ joins'[t] # NoJoin => joins'[t] = joins[t]
        /\ ForumOf[t] # f /\ joins[t] # NoJoin => joins'[t] = joins[t]
  BY <1>1, TopicFacts DEF SparesTopic, SparesForum, OfTopics, JoinsKept, Abandoned, TopicsOf
<1>9. \A t \in Topics : ForumOf[t] # f => joins'[t] = joins[t]
  BY <1>1, <1>8
<1>10. ASSUME NEW t \in Topics PROVE TopicOK(t)'
  <2>1. CASE ForumOf[t] # f
    BY <1>1, <1>7, <1>8, <1>9, <2>1, TopicKept
  <2>2. CASE ForumOf[t] = f
    <3>1. LookupOK(t)'
      BY <1>7, <1>8, LookupKept DEF TopicOK
    <3>2. Eligible(t)'
      BY <2>2 DEF Eligible
    <3>3. JoinOK(t)'
      <4>1. SUFFICES ASSUME joins'[t] # NoJoin
                     PROVE  joins'[t].serial # 0 /\ JoinTold(t)'
        BY <3>2 DEF JoinOK, NoJoin
      <4>2. joins'[t] = joins[t] /\ joins[t] # NoJoin
        BY <1>8, <4>1
      <4> QED
        BY <1>7, <1>8, <4>2, ToldKept DEF TopicOK, JoinOK
    <3>4. ASSUME t \in expected' PROVE [do |-> "join", t |-> t] \in todo'
      <4>1. [do |-> "join", t |-> t] \in J
        BY <1>2, <2>2, <3>4
      <4> QED
        BY <1>6, <1>7, <4>1 DEF Does
    <3> QED
      BY <3>1, <3>2, <3>3, <3>4 DEF TopicOK, ExpectedOK
  <2> QED
    BY <2>1, <2>2
<1>11. TypesOK'
  <2>1. NoJoin \in [serial : Nat, persistent : BOOLEAN, live : 0 .. MaxGeneration]
    BY BoundAssumption DEF NoJoin
  <2> QED
    BY <1>1, <2>1 DEF FInv, TypesOK, listVars
<1>12. NoneStarts
  BY <1>8 DEF NoneStarts
<1>13. Head(calls).do \notin OfLists
  BY DEF OfLists
<1> QED
  BY <1>7, <1>10, <1>11, <1>12, <1>13, TopicStep

\* While a forum's change is still to be noticed, its joins and lookups stay as they are.
LEMMA ParentChangesStep ==
  ASSUME FInv, NEW f \in Forums, NEW p \in {"eligible", "ineligible"}, ParentChanges(f, p)
  PROVE  FInv'
<1> DEFINE h == IF p = parent[f] THEN <<>> ELSE Handlers
           q == h \o Forum("parentChanged", f)
<1>1. /\ up /\ calls = <<>> /\ calls' = Settled(q) /\ parent' = [parent EXCEPT ![f] = p]
      /\ UNCHANGED <<up, lookups, asked, joins, lastTopicLookupSerial, lastForumTopicJoinSerial,
                     expected, listVars>>
  BY DEF ParentChanges, Update, AtRest, lookupVars, joinVars
<1>2. FineSeq(h) /\ FineSeq(Forum("parentChanged", f))
  BY FineEmpty, FineStatements DEF Cancels, OfLists
<1> HIDE DEF h
<1>3. FineSeq(q) /\ [do |-> "parentChanged", f |-> f] \in ToSet(q)
  BY <1>2, FineConcat, ConcatSet, SingleSet DEF FineSeq, Forum
<1> HIDE DEF q
<1>4. Does(ToSet(q)) /\ Fits(ToSet(q))
  BY <1>1, <1>3, UpdateDoes, FineFits DEF FineSeq
<1>5. [do |-> "parentChanged", f |-> f] \in todo'
  BY <1>3, <1>4 DEF Does
<1>6. ASSUME NEW t \in Topics PROVE TopicOK(t)'
  <2>1. TopicOK(t) /\ SparesTopic(t) /\ SparesForum(t) /\ ForumOf[t] \in Forums
    BY <1>1, TopicFacts, ForumsAssumption DEF SparesTopic, SparesForum
  <2>2. LookupOK(t)'
    BY <1>1, <1>4, <2>1, LookupKept DEF TopicOK
  <2>3. ForumOf[t] = f => Settling(t)'
    BY <1>5 DEF Settling
  <2>4. ForumOf[t] # f => parent'[ForumOf[t]] = parent[ForumOf[t]]
    BY <1>1, <2>1 DEF FInv, TypesOK
  <2>5. JoinOK(t)'
    BY <1>1, <1>4, <2>1, <2>3, <2>4, JoinKept DEF TopicOK, Eligible
  <2>6. ExpectedOK(t)'
    BY <1>1, <2>3, <2>4, AtRestFacts DEF ExpectedOK, NoJoin
  <2> QED
    BY <2>2, <2>5, <2>6 DEF TopicOK
<1>7. TypesOK'
  BY <1>1 DEF FInv, TypesOK, listVars
<1>8. todo = {}
  BY <1>1, EmptySet DEF todo
<1> QED
  BY <1>1, <1>4, <1>6, <1>7, <1>8, TopicStep

LEMMA ParentChangedStep ==
  ASSUME FInv, NEW f \in Forums, ParentChanged(f)
  PROVE  FInv'
<1> DEFINE A == {[do |-> "projectAll", f |-> f]}
           after == Forum("projectAll", f) \o Tail(calls)
<1>1. /\ up /\ calls # <<>> /\ Head(calls).do = "parentChanged" /\ Head(calls).f = f
      /\ UNCHANGED <<up, parent, lookups, asked, lastTopicLookupSerial, listVars>>
  BY DEF ParentChanged, DoingForum, Doing, At, clientVars, lookupVars
<1>2. CASE parent[f] = "eligible"
  <2>1. RetryExpectedForumTopicJoins(f, after)
    BY <1>2 DEF ParentChanged
  <2> HIDE DEF A
  <2> QED
    BY <1>1, <1>2, <2>1, RetryJoins
<1>3. CASE parent[f] # "eligible"
  <2>1. FailForumTopicJoins(f, after)
    BY <1>3 DEF ParentChanged
  <2>2. IsSequence(Tail(calls)) /\ ToSet(Tail(calls)) \subseteq todo
    BY <1>1, TailSet DEF FInv, CallsOK, todo
  <2>3. IsSequence(Forum("projectAll", f)) /\ ToSet(Forum("projectAll", f)) = A
    BY SingleSet DEF Forum
  <2>4. IsSequence(after) /\ ToSet(after) = A \cup ToSet(Tail(calls))
    BY <2>2, <2>3, ConcatSet
  <2>5. \A s \in A : StatementOK(s) /\ s.do \notin Cancels
    BY DEF StatementOK, Cancels, OfLists, OfTopics
  <2>6. Head(calls).do \notin (OfLists \cup OfTopics) \ {"parentChanged"}
    BY <1>1
  <2> HIDE DEF A, after
  <2>7. A \subseteq ToSet(after) /\ ToSet(after) \subseteq todo \cup A /\ ToSet(Tail(calls)) \subseteq ToSet(after)
    BY <2>2, <2>4
  <2> QED
    BY <1>1, <1>3, <2>1, <2>4, <2>5, <2>6, <2>7, FailJoins
<1> QED
  BY <1>2, <1>3

-----------------------------------------------------------------------------
(* Every step *)

LEMMA InitIsInvariant == Init => FInv
<1> SUFFICES ASSUME Init PROVE FInv
  OBVIOUS
<1>1. IsSequence(calls) /\ todo = {}
  BY EmptySet DEF Init, todo
<1>2. TypesOK
  BY EmptySeq, BoundAssumption, JoinsAssumption DEF Init, TypesOK, NoLookup, NoJoin
<1>3. \A l \in Lists : /\ SessionShape(sessions[l]) /\ ~ Active(l) /\ ~ sessions[l].started
  BY DEF Init, NewSession, SessionShape, Active
<1>4. ShapesOK
  BY <1>3 DEF Init, ShapesOK
<1>5. ListsOK
  BY <1>3 DEF Init, ListsOK, ShownOK, DrivenOK, NewOK
<1>6. \A t \in Topics : joins[t] = NoJoin /\ lookups[t] = NoLookup
  BY DEF Init
<1>7. JoinsOK
  BY <1>6 DEF Init, JoinsOK, JoinOK, LookupOK, ExpectedOK, Pending
<1> QED
  BY <1>1, <1>2, <1>4, <1>5, <1>7 DEF FInv, CallsOK, CancelsOK

LEMMA StutterKeepsIt ==
  ASSUME FInv, UNCHANGED vars
  PROVE  FInv'
<1>1. UNCHANGED <<calls, up, parent, lookups, asked, joins, lastTopicLookupSerial,
                  lastForumTopicJoinSerial, expected, listVars>>
  BY DEF vars, clientVars, lookupVars, joinVars
<1>2. todo' = todo
  BY <1>1 DEF todo, ToSet
<1>3. TypesOK' /\ ShapesOK'
  BY <1>1 DEF FInv, TypesOK, ShapesOK, SessionShape, listVars
<1>4. CallsOK' /\ CancelsOK'
  BY <1>1, <1>2 DEF FInv, CallsOK, CancelsOK, IsSequence, ToSet, StatementOK, Unwanted, Eligible, NoJoin
<1>5. ListsOK' = ListsOK
  BY <1>1, <1>2 DEF ListsOK, ShownOK, DrivenOK, NewOK, Active, Statement, listVars
<1>6. \A t : JoinTold(t)' = JoinTold(t)
  BY <1>1, <1>2 DEF JoinTold, ToSet
<1>7. JoinsOK' = JoinsOK
  BY <1>1, <1>2, <1>6 DEF JoinsOK, JoinOK, LookupOK, ExpectedOK, Settling, Eligible, Pending, NoJoin, NoLookup
<1> QED
  BY <1>1, <1>3, <1>4, <1>5, <1>7 DEF FInv

LEMMA TopicStepsKeepIt ==
  ASSUME FInv, MetadataTypeOK, NEW t \in Topics, TopicNext(t)
  PROVE  FInv'
BY ResolveAtOnceStep, ResolveTogetherStep, ResolveAnewStep, CompleteTopicLookupStep,
   LookupGoneSteps, QuietTopicSteps, AnswerSteps, JoinEarlyStep, JoinRefusedStep,
   JoinForumTopicStep, JoinForgottenStep, JoinOverSteps, OpenedSteps,
   FailForumTopicJoinStep, QuietUpdates, QuietOutside, CloseConversationStep
DEF TopicNext

LEMMA ListStepsKeepIt ==
  ASSUME FInv, NEW l \in Lists, ListNext(l)
  PROVE  FInv'
BY StartRoomListStep, CancelRoomListStep, SetInProgressStep, BeginStep, AllListedStep,
   RequestPageStep, AdvanceForumStep, PageFailsStep, LastPageStep, PageShowsStep, PageEntryStep
DEF ListNext

LEMMA NextKeepsInvariant == FInv /\ MetadataTypeOK /\ [Next]_vars => FInv'
<1> SUFFICES ASSUME FInv, MetadataTypeOK, [Next]_vars PROVE FInv'
  OBVIOUS
<1>1. ASSUME NEW f \in Forums, ForumNext(f) PROVE FInv'
  BY <1>1, ParentChangesStep, ParentChangedStep, QuietForumSteps, SuspendForumTopicsStep DEF ForumNext
<1>2. CASE UNCHANGED vars
  BY <1>2, StutterKeepsIt
<1> QED
  BY <1>1, <1>2, TopicStepsKeepIt, ListStepsKeepIt, HandlersReturnStep, ClientGoneStep,
     ListGoneStep, DisconnectStep, MarkRoomListsReadyStep, MarkRoomListsPendingStep
  DEF Next

\* What joins, lookups and room lists wait for is owed to them in every state: by TDLib, or
\* by a statement that is still to be executed.
THEOREM ClientInvariance == Spec => []FInv
<1>1. Spec => []MetadataTypeOK
  BY ClientImplementsMetadata, MetadataTypes, PTL
<1> QED
  BY <1>1, InitIsInvariant, NextKeepsInvariant, PTL DEF Spec

\* Whoever joins a topic is told: at rest each pending join is among those its topic's lookup
\* will tell, TDLib still owes the answer, and a join that was put off waits for its forum.
THEOREM JoinsAreTold == Spec => []NoJoinIsLost
<1>1. FInv => NoJoinIsLost
  <2> SUFFICES ASSUME FInv, AtRest, up, NEW t \in Topics
               PROVE  /\ joins[t] # NoJoin =>
                           /\ joins[t].serial \in ToSet(lookups[t].callbacks)
                           /\ <<t, lookups[t].serial>> \in asked
                      /\ t \in expected => joins[t] # NoJoin \/ parent[ForumOf[t]] = "unknown"
    BY DEF NoJoinIsLost
  <2>1. /\ joins[t] # NoJoin => joins[t].serial \in ToSet(lookups[t].callbacks)
        /\ Pending(t) => <<t, lookups[t].serial>> \in asked
        /\ t \in expected => joins[t] # NoJoin \/ parent[ForumOf[t]] = "unknown"
    BY AtRestFacts DEF AtRest
  <2>2. ASSUME joins[t].serial \in ToSet(lookups[t].callbacks) PROVE Pending(t)
    <3>1. ToSet(NoLookup.callbacks) = {}
      BY EmptySet DEF NoLookup
    <3> QED
      BY <2>2, <3>1 DEF Pending
  <2> QED
    BY <2>1, <2>2
<1> QED
  BY <1>1, ClientInvariance, PTL

\* At rest every room list waits for a page or for the list of chats, until it is over, and the
\* user interface sees it in progress just as long.
THEOREM ListsGoOn == Spec => []NoListHangs
<1>1. FInv => NoListHangs
  <2> SUFFICES ASSUME FInv, AtRest, up PROVE NoListHangs
    BY DEF NoListHangs
  <2>1. todo = {}
    BY EmptySet DEF AtRest, todo
  <2>2. \A l \in Lists : /\ Active(l) => IF sessions[l].started THEN sessions[l].waiting ELSE ~ ready
                         /\ l \in inProgress <=> Active(l)
    BY <2>1, ListFacts DEF ListOK, ShownOK, DrivenOK
  <2>3. inProgress \subseteq Lists
    BY DEF FInv, TypesOK
  <2> QED
    BY <2>2, <2>3 DEF NoListHangs
<1> QED
  BY <1>1, ClientInvariance, PTL
================================================================================
