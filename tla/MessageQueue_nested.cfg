CONSTANTS
  MaxMessage = 2
  FirstLive = 1
  Kinds = {"text", "file", "bigFile", "sticker", "localSticker"}
  Replies = {FALSE}
  InTopic = {2}
  MaxUpdates = 2
  MaxDepth = 2
SPECIFICATION Spec
INVARIANT NothingLost
PROPERTY NothingStale
CHECK_DEADLOCK FALSE
