\* Two tenants on one tag, no failures.
SPECIFICATION Spec
CONSTANTS
  alice = alice  bob = bob  chat = chat
  a1 = a1  b1 = b1  b2 = b2
  None = None
  Tenant = {alice, bob}
  Tag = {chat}
  Span = {a1, b1}
  TenantOf <- MCTenantOf
  TagOf <- OneTag
  StampOf <- MCStampOf
  Priced <- MCPriced
  Free <- MCFree
  Handler = {h1}
  Runner = {r1}
  PeriodDelta <- MCPeriodDelta
  Terms <- DailyTerms
  Ttl = 2
  FutureTolerance = 0
  RedisMayFail = FALSE
  MayCrash = FALSE
  MaxTime = 2
  MaxAccepted = 3
  MaxAdmin = 2
PROPERTIES TenantScoped
CHECK_DEADLOCK FALSE
