SPECIFICATION Spec
CONSTANTS
  Users = {"u1"}
  Players = {"p1", "p2"}
  Handles = {1}
  NamesServer = FALSE
  MaxSaid = 2
  MaxGames = 2
  MaxLinks = 2
CHECK_DEADLOCK FALSE
INVARIANT Bridges
