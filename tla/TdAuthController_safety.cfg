CONSTANTS
  Modes = {"phone", "qr", "qrFallback"}
  ChallengeStates = {"WaitCode"}
  Details = {1, 2}
  Links = {1, 2}
  MaxCalls = 5
  MaxDepth = 2
SPECIFICATION Spec
CHECK_DEADLOCK FALSE
INVARIANTS OneOutcomeInOrder PromptsArePaired NeverStuck
PROPERTIES KeepsLoginContract
