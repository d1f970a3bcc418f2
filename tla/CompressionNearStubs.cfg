\* One call: a near-duplicate stub promises a copy like what it replaces.
SPECIFICATION Spec
CONSTANTS
  sys = sys  ask = ask  run = run  chat = chat  brief = brief  think = think  doc = doc  log1 = log1  log2 = log2  log3 = log3  ok = ok  json = json  table = table
  err = err  blank = blank  gist = gist  errgist = errgist  okgist = okgist  dedup = dedup  near = near  ccrlog = ccrlog  ccrdoc = ccrdoc  ccrthink = ccrthink  ccrother = ccrother
  Empty = blank
  DedupStub = dedup
  NearStub = near
  Text <- MCText
  Tokens <- MCTokens
  Stripped <- MCStripped
  Columnarized <- MCColumnarized
  Summary <- MCSummary
  StubOf <- MCStubOf
  Similar <- MCSimilar
  HighInfo = {err}
  Mentioned = {log1, doc}
  Conversations <- MCConversations
  Configs <- MCConfigs
  Scores = {10, 40}
  SemanticWeight = 35
  SoftGate = 15
  OldTurns = 1
  Window = 2
  Ttl = 1
  RedisMayFail = TRUE
  MaxTime = 2
  MaxCalls = 1
INVARIANT NearStubsAreBacked
CHECK_DEADLOCK FALSE
