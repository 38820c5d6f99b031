SPECIFICATION Spec
CONSTANTS
  Jobs = {j1, j2}
  Lambdas = {}
  QueryOf <- ReadQuery
  ModeOf <- ReadMode
  InputsOf <- OneInput
  Conns = {c1, c2}
  Bound = 2
  Threads = 2
  MaxBatchSize = 1
  ErrorLimit = 1
  ColumnCounts = {TRUE, FALSE}
  Null = Null
CHECK_DEADLOCK FALSE
INVARIANT UsedWhileOpen
