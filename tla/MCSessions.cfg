SPECIFICATION FairSpec
CONSTANT Null = Null
CHECK_DEADLOCK FALSE
INVARIANT CountsKept
INVARIANT LoginKept
INVARIANT PagesKept
INVARIANT FilesKept
INVARIANT SynchronizedMeansReady
PROPERTY Removed
PROPERTY GetsInGame
PROPERTY Advances
PROPERTY Recovers
PROPERTY Processed
