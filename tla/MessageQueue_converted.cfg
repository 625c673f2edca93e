CONSTANTS
  MaxMessage = 2
  FirstLive = 1
  Kinds = {"text", "file", "sticker"}
  Replies = {FALSE}
  InTopic = {}
  MaxUpdates = 0
  MaxDepth = 1
SPECIFICATION Spec
PROPERTY StickersWaitForConversion
CHECK_DEADLOCK FALSE
