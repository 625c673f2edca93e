----------------------------- MODULE MCForumTopics -----------------------------
(***************************************************************************)
(* ForumTopics with the topics of one forum.                               *)
(***************************************************************************)
EXTENDS ForumTopics, TLC

CONSTANT f1

OneForum == {f1}
ForumOfAll == [t \in Topics |-> f1]

\* The view of TLC. No action and no property reads what a source noted once its lookup or
\* list is over, before it starts again and overwrites it, and all that the answer to a
\* lookup that is not pending does is to be answered.
Pursued(s) == IF s \in Lists THEN sessions[s].phase # "over" ELSE lookups[s] # NoLookup
LiveSources == [s \in Sources |->
  IF Pursued(s) THEN <<sourceGeneration[s], since[s], missable[s]>> ELSE <<>>]
LiveRequests == {a \in asked : a[2] = lookups[a[1]].serial}

View ==
  <<generation, topicState, telegram, LiveSources, calls, clientVars, lookups, LiveRequests,
    lastTopicLookupSerial, joinVars, roomVars, listVars>>
===============================================================================
