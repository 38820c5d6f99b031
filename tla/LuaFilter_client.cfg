SPECIFICATION Spec
CONSTANTS
  Conns = {"c1", "c2"}
  Handlers <- luaFunctions
  Timers = {}
  MaxEvents = 4
CHECK_DEADLOCK FALSE
INVARIANT ClientIsOwn
