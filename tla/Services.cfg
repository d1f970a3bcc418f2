\* Two clients of two tenants; two submissions and two pollers; two orchestrators.
\* Limits of histories are smaller than the code's, so that they are crossed.
SPECIFICATION MCSpec
CONSTANTS
  weather = weather  forecast = forecast  recipe = recipe  Blank = Blank
  None = None
  Tenant = {alice, bob}
  Client = {c1, c2}
  FeatureTag = {chat, search}
  Prompt = {weather, forecast, recipe}
  PartsOnly = {}
  Text <- MCText
  TextOf <- MCTextOf
  Cosine <- MCCosine
  Threshold = 92
  Ttl = 1
  SweepPeriod = 2
  SweepsOnTime = TRUE
  MayFail = TRUE
  MaxTime = 4
  MaxCalls = 3
  s1 = s1  s2 = s2
  Span = {s1, s2}
  BatchEligible = {s1}
  Batches <- MCBatches
  Call = {j1, j2}
  Outcome = {"completed", "cancelled"}
  Poller = {p1, p2}
  NoRecord = NoRecord
  MaxFaults = 1
  Orchestrator = {o1, o2}
  SubAgent = {a1, a2}
  AgentTag <- MCAgentTag
  AgentCosts = {2}
  MaxAgentCalls = 2
  MaxSpansKept = 2
  Untraced = Untraced
  Malformed = Malformed
  RowCosts = {1, 2, 9}
  LookbackHours = 1
  MinDataPoints = 5
  MaxRows = 6
  MaxHour = 3
  Prices <- MCPrices
  TokenCounts <- MCTokenCounts
  NoPrice = NoPrice
  SpanCosts = {0, 1, 3, 7}
  MinSamples = 3
  MaxSamples = 5
  LowPct = 25
  HighPct = 75
  Digits = 10
  MaxSpans = 6
SYMMETRY Symmetry
INVARIANTS TenantIsolated AnswerFits StalenessBounded RecordsAreTrue LostWorkIsFlagged
  ContextsFollowCalls SummaryAddsUp AlertsAreExtreme OutliersAreFound IntervalIsHonest
CHECK_DEADLOCK FALSE
