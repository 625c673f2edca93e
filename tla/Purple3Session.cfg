CONSTANT MaxConnections = 2
SPECIFICATION FairSpec
INVARIANTS ConnectedIsServed RecoveryTriedOnce ConnectIsAnswered
PROPERTIES AccountNotMisled NothingHangs
CHECK_DEADLOCK FALSE
