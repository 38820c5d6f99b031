SPECIFICATION Spec
CONSTANTS
  n1 = n1
  i1 = i1
  Names = {n1}
  Ids = {i1}
  DbAccounts <- OneAccount
  Clients = {c1, c2}
  Sessions = {s1, s2}
  Idx = {g1}
  Infos = {info}
  Guids = {guid1, guid2}
  ZeroGuid = zero
  Otps = {0, 1}
  StrictKick = TRUE
  StrayReports = FALSE
  MaxList = 1
  CountMod = 4
  Null = Null
SYMMETRY Symmetric
INVARIANT TypeOK
INVARIANT SessionLink
INVARIANT NoDangling
INVARIANT MapsAgree
INVARIANT Managed
INVARIANT PlayerCount
PROPERTY RegistrySpec
