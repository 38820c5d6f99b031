SPECIFICATION ClusterSpec
CONSTANTS
  Names = {n1, n2, n3}
  Ids = {i1, i2, i3}
  DbAccounts <- ThreeAccounts
  Clients = {c1}
  Sessions = {s1}
  Idx = {x1}
  Infos = {v1}
  Guids = {a1}
  ZeroGuid = ZeroGuid
  Otps = {0}
  StrictKick = TRUE
  StrayReports = TRUE
  MaxList = 3
  CountMod = 4
  Null = Null
  Games = {g1}
  Slots = {a1}
  IdxOf <- OneIdx
  InfoOf <- OneInfo
  MaxCount = 2
  MaxPending = 0
  MaxChannel = 1
  MaxLosses = 1
  MaxRestarts = 0
  KickFailures = FALSE
  n1 = n1
  n2 = n2
  n3 = n3
  i1 = i1
  i2 = i2
  i3 = i3
  g1 = g1
  x1 = x1
  v1 = v1
VIEW Lasting
SYMMETRY SymmetricAccounts
INVARIANT SynchronizedMeansReady
