\* The recompute job repairs every race once clients and time stop.
SPECIFICATION FairSpec
CONSTANTS
  alice = alice  bob = bob  chat = chat
  a1 = a1  b1 = b1  b2 = b2
  None = None
  Tenant = {alice, bob}
  Tag = {chat}
  Span = {a1, b1}
  TenantOf <- MCTenantOf
  TagOf <- OneTag
  StampOf <- MCStampOf
  Priced <- MCPriced
  Free <- MCFree
  Handler = {h1, h2}
  Runner = {r1}
  PeriodDelta <- MCPeriodDelta
  Terms <- WeeklyTerms
  Ttl = 1
  FutureTolerance = 0
  RedisMayFail = FALSE
  MayCrash = FALSE
  MaxTime = 2
  MaxAccepted = 2
  MaxAdmin = 2
INVARIANTS NoImmortalCounter
PROPERTIES Reconciled
CHECK_DEADLOCK FALSE
