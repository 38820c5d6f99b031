SPECIFICATION FairSpec
CONSTANT Null = Null
CHECK_DEADLOCK FALSE
INVARIANT QueueKept
INVARIANT AccountsKept
PROPERTY Finished
PROPERTY NoLateCallback
PROPERTY ClosingReleases
PROPERTY GoesAway
