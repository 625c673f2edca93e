CONSTANTS
  MaxMessage = 2
  FirstLive = 2
  Kinds = {"text", "file", "bigFile", "localFile"}
  Replies = {TRUE, FALSE}
  InTopic = {}
  MaxUpdates = 1
  MaxDepth = 1
SPECIFICATION FairSpec
PROPERTIES DisplayedOnceInOrder EveryMessageLeaves
CHECK_DEADLOCK FALSE
