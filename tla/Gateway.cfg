\* Two calls that share a store that may fail; outputs of tools, with limits smaller than the
\* code's, so that they are crossed; two requests through the proxy; a session of three tools.
SPECIFICATION MCSpec
CONSTANTS
  sys = sys  ask = ask  run = run  chat = chat  brief = brief  think = think  doc = doc  log1 = log1  log2 = log2  log3 = log3  ok = ok  json = json  table = table
  err = err  blank = blank  gist = gist  errgist = errgist  okgist = okgist  dedup = dedup  near = near  ccrlog = ccrlog  ccrdoc = ccrdoc  ccrthink = ccrthink  ccrother = ccrother
  Empty = blank
  DedupStub = dedup
  NearStub = near
  Text <- MCText
  Tokens <- MCTokens
  Stripped <- MCStripped
  Columnarized <- MCColumnarized
  Summary <- MCSummary
  StubOf <- MCStubOf
  Similar <- MCSimilar
  HighInfo = {err}
  Mentioned = {log1, doc}
  Conversations <- MCConversations
  Configs <- MCConfigs
  Scores = {10, 40}
  SemanticWeight = 35
  SoftGate = 15
  OldTurns = 1
  Window = 2
  Ttl = 1
  RedisMayFail = TRUE
  MaxTime = 2
  MaxCalls = 2
  Alphabets <- MCAlphabets
  HunkLines = 1
  LogCommits = 2
  TreeEntries = 2
  HeadLines = 2
  TailLines = 1
  PathLines = 1
  CodeLines = 1
  MaxLines = 5
  long = long  short = short  parts = parts  null = null
  Request = {r1, r2}
  Content = {sys, long, short, parts, null}
  Parts = parts
  Null = null
  Size <- MCSize
  Short <- MCShort
  Bodies <- MCBodies
  Inbound <- MCInbound
  Answers <- MCAnswers
  Blob = {"page", "line"}
  Weight <- MCWeight
  Limits = {0, 6}
  NoLimit = NoLimit
  RedisUrl = TRUE
  MaxTools = 3
  MaxRestarts = 1
INVARIANTS DedupIsLossless NearStubsShareAnAnchor ProtectedSurvive CountsAgree SelectionIsTight
  SummaryKeepsFacts SummaryIsASelection StubsAreRecoverable AnswersAreTheUpstreams
  ForwardsTheConversation SessionAddsUp BudgetFollowsReports
CHECK_DEADLOCK FALSE
