SPECIFICATION Spec
CONSTANTS
  Games = {g1, g2}
  Uploaders = {u1}
  Names = {n1}
  ClientIds = {k1}
  Owners = {o1}
  Otps = {1}
  Polite = TRUE
  MaxRequests = 2
  Null = Null
INVARIANT ClaimedServed
CHECK_DEADLOCK FALSE
