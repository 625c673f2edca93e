CONSTANTS
  Topics = {t1}
  Lists = {l1}
  MaxGeneration = 3
  f1 = f1
  Forums <- OneForum
  ForumOf <- ForumOfAll
  Cursors = {c1}
  MaxJoins = 1
  Bookmarked = {t1}
  LeftOpen = {}
SPECIFICATION Spec
VIEW View
INVARIANTS TypeOK KnownIsCurrent ExistingIsKept NoJoinIsLost NoListHangs
CHECK_DEADLOCK FALSE
