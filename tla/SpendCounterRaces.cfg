\* Overlapping handlers, two tenants on one tag, Redis errors and crashes.
SPECIFICATION Spec
CONSTANTS
  alice = alice  bob = bob  chat = chat
  a1 = a1  b1 = b1  b2 = b2
  None = None
  Tenant = {alice, bob}
  Tag = {chat}
  Span = {a1, b2}
  TenantOf <- MCTenantOf
  TagOf <- OneTag
  StampOf <- MCStampOf
  Priced <- MCPriced
  Free <- MCFree
  Handler = {h1, h2}
  Runner = {r1}
  PeriodDelta <- MCPeriodDelta
  Terms <- DailyTermsOrNothing
  Ttl = 2
  FutureTolerance = 0
  RedisMayFail = TRUE
  MayCrash = TRUE
  MaxTime = 2
  MaxAccepted = 2
  MaxAdmin = 2
SYMMETRY HandlersAlike
INVARIANTS CounterBounded ExhaustedBounded
CHECK_DEADLOCK FALSE
