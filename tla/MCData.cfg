SPECIFICATION Spec
CONSTANT Null = Null
CHECK_DEADLOCK FALSE
INVARIANT Linked
INVARIANT NothingOvertaken
INVARIANT LogoutOnItsWay
INVARIANT Understood
INVARIANT Framed
INVARIANT RequestsKept
INVARIANT ShowsActive
INVARIANT InStep
INVARIANT FilterKept
INVARIANT ScriptsKept
INVARIANT Converted
INVARIANT RecordsKept
INVARIANT ChatKept
INVARIANT GameKept
INVARIANT PoolKept
