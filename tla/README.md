# Traject: a verification project

TLA+ models of the Traject backend and SDK. TLC checks them on small instances;
TLAPS proves what the passing runs check, but for liveness, for every value of the
constants. The modules sit beside the code they model; every definition that
stands for code is listed with its lines in `PROJECT.json` (`map`), every
behaviour that is hard to test under `hazards`.

    tlc -workers 2 -config SpendCounterRaces.cfg MCSpendCounter.tla
    tlapm SpendCounterProofs.tla        # and the other *Proofs.tla, DataLemmas.tla

Contents: 1 inventory, 2 plan, 3 modules, 4 runs and bounds, 5 fairness,
6 proofs, 7 what the code does not do that the source says, 8 limits.

## 1. Inventory

Traject records, attributes and reduces the cost of LLM calls. A Python SDK
(`sdk/python/traject`) instruments provider clients in the application's
process; a FastAPI backend (`backend/traject_backend`) stores spans in
PostgreSQL and keeps counters, locks and a watermark in Redis; APScheduler jobs
run inside every backend process; a React dashboard reads the backend's API.

### 1.1 Backend

| Component | State | Operations | Interacts with |
|---|---|---|---|
| Span ingestion (`services/span_ingestion.py`, `api/v1/spans.py`) | `inference_spans` | `ingest_spans`: future check, insert without duplicates, counter increments | Redis spend counters; read by budgets, rollup, retention |
| Budget enforcement (`services/budget_enforcer.py`, `api/v1/budgets.py`) | `budget_controls`, Redis `traject:budget:{tag}` | `check_budget`, status, list, upsert, delete | spans (SUM), ingestion and recompute (counter) |
| Recompute job (`workers/scheduler.py`) | none of its own | every 15 minutes: SUM per budget, SET the counter | spans, budgets, counters |
| Scheduler locks (`_run_locked`) | Redis `traject:lock:{job}` | SET NX EX 300, run, never delete | every job of every process |
| Cost attribution (`services/cost_attribution.py`, the job, `scripts/materialize_attribution.py`) | `cost_attribution`, Redis watermark | hourly upsert, catch-up loop, forced run | spans; read by dashboard, anomaly scan |
| Retention | none of its own | daily DELETE of old spans | spans, against the rollup |
| Semantic cache (`services/semantic_cache.py`, `api/v1/cache.py`, SDK `cache/`) | `cache_entries` | lookup (exact, then nearest neighbour), store, invalidate, stats, expiry job | SDK client |
| Anomaly detection (`services/anomaly_detector.py`) | none: alerts are logged | every 6 hours, per feature tag: fences around the hourly rows, the newest row compared | rollup |
| Cost prediction (`services/cost_predictor.py`) | none | point estimate from the price table, interval from the last spans | spans |
| ML training, benchmarks | model file, `benchmark_submissions` | training over labelled spans, of which nothing writes any; one insert, one select | spans |
| Auth, database, Redis client, SSRF guard, application start | settings | request scaffolding | all of the above |

### 1.2 SDK

| Component | State | Operations | Interacts with |
|---|---|---|---|
| Compression engine (`compression/`, `classifier/`) | none; the CCR store keeps originals in Redis for a time to live | `compress`: classify, preprocess, parse, protect, score, select, dedup, emit, validate | CCR store, MCP `traject_retrieve` |
| Instrumentor (`core/instrumentor.py`) | module configuration, patched clients | `instrument`, `patch`, `configure`, pipeline per call | compression, cost, telemetry |
| Telemetry (`core/telemetry_reporter.py`, `backend_client.py`, `telemetry/`) | none: no buffer, no retry | one POST per span in a task of its own, 2 s timeout, errors logged | ingestion |
| Tracer (`tracer/`) | a context per agent | start an orchestration, write and join the `traceparent` of a call, sum the spans of a trace | HTTP headers between agents |
| Batch (`batch/`) | table `batch_jobs` | submit (a failure becomes a FAILED record), update of a status, a polling stub that returns 0 | provider batch APIs, the application's poller |
| Router (`router/`) | routing table, LinUCB weights, conformal quantile | rules, A/B assignment, classifier, ML router, escalation, calibration | instrumentor, which substitutes `kwargs["model"]` |
| Prompt-cache advisor, classifier, pricing, cost, providers | constants | pure functions | instrumentor |
| Plugins | registry | register, load, run hooks | instrumentor |
| Proxy (`proxy/app.py`) | the mode, the requests under way | parse, compress, forward with its own credential, pass the answer on whole or as a stream | `compress`, the upstream provider |
| MCP server (`mcp/server.py`) | totals and limit of the session, a lazy CCR client | `traject_compress`, `_stats`, `_budget`, `_retrieve` | `compress`, CCR store |
| CLI, seed script | none | commands over the HTTP API | backend API |
| TypeScript SDK, dashboard, examples | - | second client, views | backend API |

### 1.3 Hard behaviours and what makes each component correct

* **Counters.** Three writers (ingests, slow-path checks, the recompute job)
  and two deleters (a budget delete, key expiry) work on one Redis key with no
  transaction; two of the writers SET a value they computed before an await.
  Correct: never more than was recorded or counted, never immortal, and repaired
  in the end. That a counter never falls short of the window's spend between two
  repairs cannot be had with this code (section 7).
* **Rollup.** A job that may run on several processes, twice, late or half,
  beside arriving spans, a forced run and a pruning DELETE. Correct: an hour
  behind the watermark is complete, nothing is pruned uncounted, totals never
  go down, every span is counted in the end.
* **Semantic cache.** Lookup and store are separate calls, lookup never looks
  at `expires_at`, a conflicting store keeps the old answer, several tenants
  share one index. Correct: a tenant gets its own answers only, for its prompt or a
  near one, and none older than a known bound.
* **Compression.** Duplicates, protections and stubs point at each other by
  content, and four decisions (protection, greedy selection, exact and near
  duplicates) are taken in an order of their own. Correct: what a stub
  replaces is found again (a verbatim copy later in the output, or the CCR
  store), protected text survives, the reported counts agree with each other.
* **Instrumented calls.** Wrappers that may be nested and must fail open,
  spans that are posted once, a router and an exporter that are configured
  while calls run. Correct: the caller gets what the provider gave, and what
  the telemetry says of it is true, told once and in one place.
* **Routing.** An experiment, a classifier and an escalation override a rule in
  turn; the quantile of a calibration set has edges. Correct: no model outside
  the map or the experiment of the task, the same model however often the
  client is wrapped, and the coverage the quantile promises.
* **Batch.** A provider may accept a job whose answer is lost, and two pollers
  may commit what they heard in either order. Correct: a record names a job
  that exists and holds exactly the spans it counts, and a failure owns up to
  everything that may run under it. That a stored job settles is up to the
  application: nothing in the repository polls.
* **Proxy.** Requests are lost before or after the upstream ran them, streams
  break, compression fails or grows a message. Correct: nothing is run twice,
  nothing refused is run, the answer is the upstream's to this request, and in
  shadow mode the request says what the client's said.
* **MCP session.** A failing tool still counts, a limit changes, a server
  restarts. Correct: the totals and the budget are what the agent was told.
* **Text and statistics.** Summaries that decide line by line, quartiles by
  floor indices, quotients rounded by `Decimal`, headers with a name in either
  case. Correct: what a summary is for is kept, an alert is about an extreme row,
  an interval holds its point, an agent joins the trace of whoever called it and
  a cascade costs what is kept of its agents.

## 2. Plan

In the order of importance; all but the last are done.

1. `SpendCounter` with `SpendCounterProofs`: the one place where races decide
   whether a customer is refused.
2. `AttributionRollup` with `AccountingProofs`, which implements the
   abstract `HourlyLedger`: the history that survives span retention.
3. `SemanticCache` with `SemanticCacheProofs`: answers served to users.
4. `CompressionPipeline` with `CompressionPipelineProofs`: what the model gets to
   read.
5. `Routing` (operators) and `InstrumentedCall` with `InstrumentedCallProofs`,
   which implements the abstract `BareCall`: the wrapper every call passes, the
   router it asks, the span it leaves.
6. `BatchJobs` with `BatchJobsProofs`: submission, lost answers, two pollers.
7. `CompressionProxy` and `McpSession` with `GatewayProofs`: the two front ends
   of `compress`, beside it in `MCGateway`.
8. `ToolResults`, `AnomalyScan`, `CostPrediction`, `CascadeTrace`: computations
   checked over every small input. The first and its proofs are with compression,
   whose summaries it makes (`MCGateway`, `CompressionPipelineProofs`); the others
   are in `MCServices`, with the cache and the batches, and in `AccountingProofs`,
   about what becomes of recorded costs.
9. Left: a conversation that is compressed, answered and compressed again; the
   plugin registry; the prompt cache advisor.

## 3. Modules

Each module has one action per step that the code takes between two awaits (or
per phase of a synchronous call), variables named after tables, keys and
locals, and mutants of its definitions ("Mutant:" comments) that show what the
properties notice. `MC*` modules give constants their values; `MCGateway` and
`MCServices` hold several modules that share no state, and a variable `side` picks
the one that a behaviour runs, so that their states add up.

### SpendCounter

`rows` is `inference_spans`, `budgets` is `budget_controls`, `counter` and
`expiry` are the Redis key of a tag. `pc`, `ctx`, `pend`, `todo` are the
coroutines of handlers and of the recompute job, suspended at an await.

| Code | Actions |
|---|---|
| `ingest_spans` | `Ingest` (future check, insert, commit), then per tag `Bump` (INCRBYFLOAT) and `Expire`; `CounterFails` |
| budget status endpoint, `check_budget` | `BeginQuery`, `LoadBudget`, `GetCounter`, `SumSpend`, `CacheSpend`, `Respond`; `CheckFails` (fail open) |
| `upsert_budget`, `delete_budget` | `UpsertBudget`; `DeleteBudget`, `DropKey` |
| `_run_recompute_budget_counters` | `BeginRecompute`, `RecomputeSum`, `RecomputeSet`, `RecomputeFails` |
| Redis and processes | `Tick` (key expiry), `Crash` |

A span costs one unit, nothing (`Free`, a price of zero, which creates the key
all the same) or has no price, so that spend is a number of spans. A batch is a set of
span ids; sending an id again is a retry. `check_budget` reads the budget row
twice and the session's identity map returns the first object again, hence
`ctx.terms`. The list endpoint takes the same steps per budget as the status
endpoint and has no actions of its own.

### AttributionRollup and HourlyLedger

One tick is an hour. The totals of an hour are a function of the spans they
count: `rollup[h]` is that set. `Fire` is `_run_locked`, `ReadWatermark`,
`Aggregate`, `Upsert`, `Mark` the job, `StartScript` and `ScriptNext` the
forcing script, `Prune` retention, `Abort` an exception or a dead process.
`HourlyLedger` is what a reader of the dashboard may rely on: an hour that is
over is posted with every span of it, and never with less afterwards.

### SemanticCache

`entries` is `cache_entries` by tenant and hash; a client's lookup is `Ask`,
`Exact`, then `Touch` (the UPDATE of the hit count) or `Near`; `Use` serves,
`CallProvider` and `Store` follow a miss. `Invalidate` and `Sweep` delete. A
similarity is a number of percent per pair of texts. The HNSW index is
approximate and searched before the tenant filter, so `Near` may see any row
of the tenant or none.

### CompressionPipeline

A call of `compress` in the phases of the function: `Begin` (validate,
classify, preprocess, parse), `Protect`, `Score` (soft protection and
relevance), `Dedup` (selection and exact duplicates), `NearDedup` (one group
per step), `Emit` (one segment per step, with `CCRStore.store`) or `EmitFails`,
`Deliver`, `Return`. A text is a model value with a token count, a summary and
so on; a similarity is a relation that need not be transitive. Scores and
semantic references come from the embedding model and are chosen freely, except
that without a hint the semantic component is 1.0 (`SemanticWeight`). `ccr` is
the store and `issued` remembers the stubs that were delivered.

### Routing and InstrumentedCall

`Routing` holds the router as operators. A conversation is what the classifier
looks at: families of keywords in the system message and in the user messages,
fences, a question mark, a length, tool messages. `Signals` are the eleven tests
in their order, `Score` is the complexity in 16000ths (exact where the code adds
floats). `RuleDecisions`, `MLDecisions` and `Escalated` give the *set* of
decisions a router can take: the group of an experiment depends on a random id,
the predicted tier on numbers. Calibration is exact on integers: `AtIndex`, of
`OrderStatistics`, is the order statistic that `numpy.quantile(method="higher")`
reads. The anomaly scan and the cost prediction read theirs with it, too.

`InstrumentedCall` is the process around it.

| Code | Actions |
|---|---|
| `configure`, `patch`, `ConformalPredictor.calibrate` | `Configure` (exporter, backend client, router), `Patch`, `Calibrate` |
| the wrappers up to the provider | `HashFails` (messages that are dicts and objects mixed, before anything is guarded); `Begin`: analysis, then routing once per wrapper (`Outgoing`) |
| the provider | `Answer`, `Raise` |
| `_run_pipeline`, per wrapper from the innermost | `Report`; `ReportFails` (the exporter raises), `ReportInvalid` (negative cost), `ReportBreaks` (usage cannot be read); `Unwrapped` where nobody patched |
| `send_span` | `SendEnds`, accepted or not |

A wrapper runs to its `await` in one step, so all wrappers of a call route in
`Begin`. `exported` remembers with each span the exporter it went to; `dropped`
are emissions that raised, `sending` and `stored` the spans on their way to the
backend and in it.

`BareCall` is what the caller may rely on: a call is sent once, the provider
answers or raises, and that is what comes back; only a patched client may refuse a
request, one whose messages cannot be hashed, or lose an answer, one whose usage
cannot be read. `Seen` maps a call to it: the
wrapper at which a call is, its span and its model are not seen.

### BatchJobs

| Code | Actions |
|---|---|
| `submit_batch` up to the first request | `Submit` (nothing eligible, unknown provider, an upload with OpenAI) |
| the upload of OpenAI | `Uploaded`, `UploadFails` |
| the answer to the create request | `SubmitReturns`; `SubmitFails` (an error, a timeout, an answer that cannot be read) |
| the provider (external) | `Accept`, also after the caller gave up, `LoseSubmission`, `Progress` |
| `JobTracker.create` | `Create`, then `Commit` or `CommitFails` (the transaction is the caller's) |
| `list_pending`, the provider's status, `update_status` | `Poll`, `AskProvider`, `UpdateStatus`, `CommitStatus`, `PollEnds`, `PollFails` |
| processes | `Crash` |

A job is named by the call it came from (`JobId`), a failed record by the
synthetic id of the call (`FailedId`), so that what a record says can be held
against what the provider runs. `poll_and_collect` returns 0 whatever there is
to poll, and nothing calls `list_pending` or `update_status`: the poller of the
model is an application's, built from the operations that `docs/batch-routing.md`
names, which may poll or not. `UpdateStatus` waits where another session
has flushed the row (the row lock), and refuses a status outside the enumeration.

### CompressionProxy and McpSession

A handler of the proxy runs from the parsed body to the request it sends in one
step (`ChatCompletions`, `ListModels`: `compress` is synchronous and blocks the
event loop), then waits: `UpstreamTakes` and `Lose` are the network,
`UpstreamReturns` and `RequestError` end a whole answer, `StreamChunk`,
`StreamEnds` and `StreamBreaks` a stream. `forward` is the
request that went upstream, headers with whose they are, `saved` the header the
client is told, `heard` what it heard. `Compress` gives the set of results that
`CompressionPipeline` allows for the messages: kept or replaced contents, system
messages always, an error for contents that are lists.

`McpSession` has one action per tool, an expiring CCR store that other
processes fill, and `Restart`. `reports` remembers what the agent was told,
which is what the totals and the budget are compared with.

### ToolResults, AnomalyScan, CostPrediction, CascadeTrace

`ToolResults` is the classifier and the summarizers of the kinds of command
output. A line is the name of its kind, an output a sequence of them, a summary
the sequence of positions it keeps, so that order, loss and invention can be
told. A loop over the lines is a recursive function, the accumulator after each
round (`DiffLoop`, `LogLoop`, `TestLoop`); a filter is the set of the positions it
lets through, listed by `InOrder`. `Write` appends a line: every output up to the
bound is a state.

`AnomalyScan` is `run_scan` for one tag over the hourly rows of its window, in
integers (fences are doubled); `CostPrediction` the interval around a point
estimate, with the one rounding that matters: the quotient of point and median
has finite precision (`RoundedQuotient`). `CascadeTrace` has an action per call
of the tracer; a header name is in lower or in upper case, because hops rewrite
it and `inject` overwrites only one of the two. The spans of a trace come from two
places: `RecordSpan` is the wrapper of a call, which draws a trace of its own for
each, `KeepOwnSpan` an application that keeps spans under the contexts of its
agents, for the client that `get_cascade_cost` is handed and src/ does not have.

## 4. Runs and bounds

| Run | Question | States | Expected |
|---|---|---|---|
| races | can overlaps, retries, errors and crashes make a counter or an exhausted answer exceed what was recorded and counted? | 992k | pass |
| reconcile | does the recompute job repair every race, and does a key without a time to live stay behind? | 415k | pass |
| tenants | is a tenant's answer about its own spend? | | violation |
| rollup | is every hour complete, counted once, never taken back, and done in the end? | 278k | pass |
| calls | does the caller see a bare call, is the telemetry true, does routing stay in bounds, does calibration cover? | 52k | pass |
| objects | does every call that a bare client would send get to the provider? | | violation |
| streams | does an answer without usage reach its caller? | | violation |
| gateway | is anything lost, wrongly counted or unrecoverable when a conversation is compressed or an output summarized; does the proxy forward it and pass on its answer; do totals and budget of a session follow what was told? | 1.4M | pass |
| near | does a near-duplicate stub stand before a copy like what it replaced? | | violation |
| prose | are the last turns and pinned messages delivered as they were given? | | violation |
| services | do cached answers stay with their tenant, fit and stay fresh; do batch records stay true and failures own up to what may run; do traces follow calls, alerts mark extremes, intervals hold their point? | 714k | pass |
| traces | do the spans of a cascade carry its trace? | | violation |

Bounds, by module.

* *SpendCounter*: two handlers and one job are the three writers that can meet
  at a key; all races between them need one tag and two spans. `MaxAccepted`
  allows two spans or one that is sent twice (a retry); `MaxAdmin` a budget that is
  created and changed or deleted, with a limit of 2 or of 0. A tick is half a day, so that
  the daily window equals the key's life of one day, and the time bound is
  long enough for a key to expire and to be created anew.
* *AttributionRollup*: a span may be ahead of the clock by the tolerance of the
  ingest, here an hour at most; two schedulers, one operator, two spans of one group
  in one hour (so that totals can shrink) and one in the next; four hours are one more than the retention of the
  instance. `MaxBacklog` is less than or equal to `MaxHours` (48 in the code):
  longer outages lose hours by design of the catch-up window.
* *SemanticCache*: two tenants with a client each, three texts of which two are
  paraphrases, three lookups in all; the sweep runs every second tick and an
  entry lives one, so that expired entries are met before they are swept. Clients,
  tenants and labels are interchangeable (`Symmetry`).
* *CompressionPipeline*: agent loops of three tool calls, ended conversations
  whose results are all old, and mixtures of the other kinds; the age of an old
  result is scaled from 3 turns to 1 and the reference window from 5 to 2, so
  that short conversations reach them. Texts include filler and JSON that preprocessing
  rewrites, in a last turn and in a preserved message, a triple that is similar
  pairwise but for one pair, a result shorter than its summary and one shorter
  than the stub. Two calls share the store.

* *InstrumentedCall*: one call, because calls share only the settings and the
  sets of spans, and at most two wrappers, which is where nesting begins. Seven
  requests differ in what the wrappers look at (keyword or positional model,
  provider, loop, no messages, messages that are not all dicts), the routers are
  rules with an experiment and an escalation, rules without a map, trained
  classifiers, one of them for a provider that only the default map has, and one
  that raises;
  the answers are a plain one, one with more cached than input tokens, one
  without usage, a stream. Calibration sets have 0 to 10 points and alpha 0,
  0.1 and 0.3, so that they are refused and the level is clamped, exact and in
  between.

* *BatchJobs*: two calls, each of which may go to either provider, two pollers, which is where late answers begin, and one fault of any kind
  (`MaxFaults`). A batch with an eligible span and one without, jobs that end as
  completed (known to the tracker) or cancelled (unknown to it).
* *CompressionProxy*: two requests, four conversations (a tool result, an
  assistant message that only calls a tool, a list of parts, none), each streamed
  or not, the model list, a malformed body; an upstream that answers, refuses with 429
  or fails with a body that is no JSON; a stream of two chunks.
* *McpSession*: three tool calls and a restart, two texts, limits 0 and 6: a
  session passes 80 % and 100 % of 6 and meets the limit that never counts.
* *ToolResults*: outputs of up to five lines over seven alphabets, each with the
  lines of one or two kinds of output; the numbers of lines a summary keeps are
  scaled to 1 and 2, so that outputs cross them.
* *AnomalyScan* and *CostPrediction*: six rows in three hours, of which the oldest
  leaves the window of one hour, with seven data points scaled to five; six spans
  with 10 samples scaled to three and the percentiles 5 and 95 to 25 and 75.
* *CascadeTrace*: two orchestrators, two agents, two calls, two spans: an agent
  reached twice, by two traces or by a chain.

Deadlock is not checked: clients may stop sending in every instance, and the
bounded ones do.

## 5. Fairness

`SpendCounter!Fairness`: a coroutine that is suspended at an await is resumed,
and the interval trigger (`scheduler.py`, every 15 minutes) starts the
recompute again and again. Nothing is assumed of clients or administrators.
`Reconciled` is stated where Redis answers and no process dies; without the
first the job's SET may fail for ever.

`AttributionRollup!Fairness`: the hourly cron trigger fires and a started run
or script goes on, and time passes. That a run succeeds now and then is not
fairness but the bound `MaxBacklog` in the guards of `NextHour` and `Abort`.

`InstrumentedCall!Fairness`: a wrapper that has the provider's answer is code
that runs to its end without an await. Providers may never answer, POSTs may
never end, and nobody has to call or to configure.

The other modules have safety properties only. No fairness is assumed of pollers
of batches, because no code of the repository schedules one, nor of the proxy. The
cache's `StalenessBounded` assumes `SweepsOnTime`: the clock does not pass a run of
the expiry job that is due.

## 6. Proofs

`SpendCounterProofs` proves for every number of tenants, tags, spans, handlers
and processes, and every clock:

* `TypeCorrect`: `Spec => []TypeOK`, inductive as it stands.
* `CounterIsBounded` and `ExhaustedIsBounded`, from the inductive invariant
  `CounterInv`. `CounterBounded` alone is not inductive: a `SET` writes a value
  that was summed some steps ago. The invariant therefore bounds what every
  coroutine carries (`CarriedBounded`): the sum in `ctx` is at most the spend
  recorded plus what was added so far, because neither of the two ever
  decreases, and an exhausted verdict rests on such a sum.
* `CountersAreMortal`: `NoImmortalCounter`, where Redis answers and no process
  dies. The state between INCRBYFLOAT and EXPIRE is the one exception, and each
  deletion or expiry of the key leaves it within that exception.

That a counter is never below the spend of its window is neither claimed nor true:
section 7 has the cases.

`SemanticCacheProofs` proves for every set of tenants, clients, prompts and
texts, every similarity, threshold, time to live and period of the expiry job:

* `TypeCorrect`, which needs one more fact than `TypeOK`: an exact match is held
  while its hit is counted (`MatchHeld`).
* `TenantsAreIsolated` and `AnswersFit`, from the inductive invariant `FitInv`:
  every row is filed under the hash of the prompt it answers (`RowsFit`), and
  what a lookup holds fits already before it is served (`HeldOK`).
* `AnswersAreFresh`, where `SweepsOnTime`, from `FreshInv`: the job ran at most
  one period ago (`SweptInTime`, which needs that the multiples of a period are
  one period apart), and a row that is still there had not expired by then
  (`RowsFresh`).

Two lemmas carry all three: a step keeps a row but for its counters or files a
new one (`RowStep`), and what a client holds it held before or has just found in
a row of its tenant (`AnswerStep`).

`CompressionPipelineProofs` proves for every set of texts and conversations, any
scores, hints and similarity, any number of calls and every time to live
`DuplicatesAreLossless`, `NearStubsShareAnchors` and `StubsStayRecoverable`, from
one inductive invariant `IInv`:

* `Stubs`: what is kept, or is still to be grouped, is no stub itself, so that a
  later pass cannot replace the copy that an earlier stub stands for; the last
  copy of every exact duplicate is kept; behind every near stub a kept result
  resembles the same earlier one (`Backed`). The two need not resemble each other:
  similarity is not transitive, and `near` shows a stub without a copy like it.
  A group is taken out of `left` whole, and only its last member stays.
* `Emitting`: the loop has emitted what is kept verbatim as far as it came,
  exact references for duplicates only, and CCR stubs for texts whose keys were
  set in this tick.
* `Stored`: a delivered text's key is there for a time to live after its
  delivery. A later SET can only prolong it, also in a call that fails half-way.

Three more properties have invariants of their own:

* `WhatIsProtectedSurvives` (`ProtectedSurvive`), from `ShieldInv`, about the
  messages as the caller gave them: what preprocessing may do to one is named
  (`Arrives`), and nothing else may happen to it. Once the
  protection was computed the last turns carry its mark, an exact duplicate is a
  tool result nobody asked to preserve and stands before a copy that is kept, and
  neither the selection nor the near duplicates take what is marked. That the
  last turns are the ones marked needs that turns are numbered without a gap
  (`Parsed`): from one segment to the next they advance by at most one.
* `CountsStayConsistent` (`CountsAgree`), from `CountInv`: a clamped saving is the
  difference of clamped counts, whatever a stub weighs.
* `SelectionStaysTight` (`SelectionIsTight`), from `CountInv`: the chosen set is
  `Greedy` of the candidates. That a prefix of the order by score is as short as
  it can be is `GreedyIsTight`: weights only grow with the set, so that among the
  members only the last may be the one that reaches the target.

The summaries of tool results have the last part of the module, for outputs of any
length over any alphabet and for any limits: `SummariesKeepFacts`
(`SummaryKeepsFacts`) and `SummariesAreSelections` (`SummaryIsASelection`). What a
summary keeps is stated without the loops, of the lines and what stands before
them (`LoadBearing`; it leaves out what the code drops and a docstring does not
say, see section 7), so that each loop needs an
invariant over its rounds that relates the accumulator to the lines read so far:

* `DiffAfter`: the counter is the number of changed lines since the last file or
  hunk (`InHunk`), every line that bears a fact is kept, and where one was left
  out, there is a mark.
* `LogAfter`: there are no more lines kept than entries so far, and as long as the
  limit is not reached, a hash is held just while a commit waits for its subject
  (`Pending`).
* `TestAfter`: the flag says that a section was opened and no other banner came
  since (`Opened`).

The induction over the rounds is a lemma of its own (`RunExists`, `StepByStep`).
`InOrder` lists a set by the number of members below each (`RanksRise`,
`RanksTaken`), so that every summarizer that filters keeps the order of the output
(`InOrderSelects`), and so does each that cuts, joins or appends (`PartSelects`,
`JoinSelects`, `AppendSelects`).

`InstrumentedCallProofs` proves for every set of calls, requests, routers,
answers and prices, and any number of wrappers:

* `CallsAreAsBare`: `Spec` implements `BareCall` (`AsIfBare`). Every step of a
  call is a step of the bare call, the refusal of messages that cannot be hashed
  among them, or is not seen: a wrapper that returns to
  another one, and every step of the configuration and of the way to the backend
  (`BareStep`). The run has one call; here there are any number of them.
* `TypesAreKept`, `CallsAreTransparent` (the same about the end of a call, as an
  invariant), `TelemetryIsTrue` and `SpansGoToOnePlace`, from the inductive
  invariant `IInv`. The refinement and `Transparent` need to know where a call is
  (`Phase`: no response before the answer, one afterwards, a wrapper still to
  report until the last one returns). The uniqueness of spans in `HeardIsTrue` follows from the numbers of the
  wrappers: every span so far has at most the number of wrappers that reported,
  and the next has one more. `OneCollector` needs that an exporter exists once
  something was exported (`Collected`).
* `CostBounded`, on the way: a cost is at most the uncached price, for every
  price table whose cached rates are no higher than the full ones
  (`CallAssumption`), even where more tokens are cached than were sent.
* `NothingIsMissed` (`AnswersAreAccounted`), from `AllAccounted`: every wrapper
  that has reported left a span, an entry in `dropped` or a reason, and one whose
  cost is negative has more cached than sent tokens (`NegativeIsShort`).
* `WrappersRouteAsOne` and `RoutingIsBounded` (`RoutedAsOnce`,
  `RoutingStaysInBounds`): what a wrapper may choose does not depend on the
  model it is given (`RoutedIs`), so that another wrapper adds nothing
  (`OutgoingIs`, by the number of wrappers). Both need `NamesApart`, that no model
  is called like a provider: the conformal wrapper looks the requested model up
  in a table of providers (`router/conformal.py:346`), and with such a name the
  second wrapper would find what the first did not.
* `CalibrationCovers` (`EmpiricalCoverage`) and `CalibrationCoversTheNext`
  (`MarginalCoverage`), for every calibration set and level. The position of the
  quantile is the corrected rank, or the last where the rank exceeds the data
  (`IndexIs`); the value at a position of the sorted scores has as many scores at
  or below it (`AtIndexIs`); without one point, the quantile of the rest is at
  least the one at the same rank of all, so that no more than the points beyond
  that rank are missed (`OthersBelow`, `KeptAre`).

One lemma per kind of step carries the proof: `CallStep` for steps of a call
that touch nothing else, `EmitStep` for a wrapper that emits, `SettingsStep` for
configuration.

`AccountingProofs` proves what becomes of recorded costs. For every set of spans,
groups, schedulers and operators, any retention and any number of hours:

* `TypesAreKept`, without further assumptions: Redis may fail, runs may overlap,
  spans may be late. Beside `TypeOK` it needs that a loop ends by the present and
  that the watermark is behind it (`Bounded`).
* `ClosedHoursAreComplete` and `PrunedAreCounted` where the deployment is
  `Regular`: jobs end within the time to live of their lock, Redis answers, spans
  come in their hour, `MaxBacklog` is at most `MaxHours` and less than
  `Retention`, and the script's `HoursBack` is less than `Retention`.
  Section 7 says what happens without Redis and with late spans. The
  inductive invariant `IInv` says that the watermark is close (`Close`), so that
  the window never skips an hour; that what is pruned is old (`OldPruned`), so
  that the query of a job or a script finds all of its hour (lemma `Unpruned`);
  that one job runs at a time and does the hour after the watermark from all of
  its spans (`Exclusive`, `JobInv`); and that a script, which takes no lock, can
  only write hours that are over whole (`ScriptInv`).
* `RollupImplementsLedger`, where in addition one operator at a time runs the
  script: `Spec` implements `HourlyLedger`. `Previews` says that a script about
  to write the current hour has seen at least what is shown of it; two scripts at
  once could take a later preview back.

For every history, window, percentile and price, and for any agents, hops, calls
and spans:

* `AlertsStayExtreme` and `OutliersStayFound`: the value at an index of the sorted
  rows has as many below it as the index says (`AtIndexIs`), hence what lies beyond
  a fence lies beyond the quarter it is made of; and where all rows but the newest
  are equal, both quarters are that value, the newest being at neither index
  (`MiddleIs`), so that the fences close up around it (`FencesAre`). The last step
  needs five rows; the code asks for seven.
* `IntervalsStayHonest`: an interpolated percentile lies between its neighbours in
  the order (`PercentileIs`), so that no more than the index and one lie beyond it
  (`LeftOut`), whatever quotient the history was scaled by; an interval that would
  miss its point is replaced by the sparse one, which holds it (`SparseHolds`).
* `ContextsKeepFollowing` (`ContextsFollowCalls`), from the inductive invariant
  `CascadeInv`: orchestrators' traces are apart (`TracesApart`), and every agent that
  has a context is in the trace of the orchestrator at whose call it joined, and so
  is every traceparent among the headers that it passes on (`Rooted`).
* `SummariesAddUp` (`SummaryAddsUp`), about the loop of the summary, a fold over
  records: after each span, the sums are what the spans so far cost
  (`TurnKeepsSums`), because a span charged to a tag adds its cost to the sum over
  all tags whether the tag is new or not (`ChargeAdds`).

`BatchJobsProofs` proves for every set of spans, batches, calls and pollers and
any number of faults `TypesAreKept`, `RecordsStayTrue` and `LostWorkStaysFlagged`.
Neither of the two properties is inductive: the first needs that what a poller
heard was true when it heard it, and that a status, once passed, stays passed
(`HeardIsTrue`); the second needs that what is on the wire or accepted is what
the call submitted (`Sent`).

`GatewayProofs` proves for every set of requests, bodies, headers and answers,
texts and limits:

* `AnswersStayTheUpstreams`, from an invariant that ties the stage of a handler to
  what it heard (`Handler`) and the wire to the number of runs (`Upstream`): a
  request on the wire has not run.
* `ConversationsAreForwarded` (`ForwardsTheConversation`), in shadow mode and live,
  against the body as the client sent it. Its invariant says of every request sent what `Compress` may return for its
  body (`Sends`). The messages kept are a list that grows with each message
  that is not dropped (`KeptGrows`), so that every system prompt is in it
  (`KeptHas`) and its tokens are what the saving is measured against.
* `SessionsAddUp` and `BudgetsFollowReports` of `McpSpec`, from `McpInv`: the totals
  are the sums over all reports (`Counted`), what was last said of the budget is
  what those of the reports that it had seen imply (`Said`), and sums over a
  beginning of the reports never exceed sums over more of them (`TotalGrows`).

`DataLemmas` holds what the others cite about sums, lists and sorted values. The
folds of the community modules are recursive functions over the subsets of a set.
The library's theorem that such a function exists takes an operator as its
parameter, which the provers cannot instantiate; `FoldExists` argues with a smallest
counterexample instead (`SmallestOf`), `FoldTyped` likewise. On them rest
the lemmas about sums (`SumAddsUp`, `SumsAgree`, `SumGrows`) and about lists folded
from the left (`FromLeftSteps`, `TotalAppends`). `AtIndexIs` and `AtIndexGrows` are
about the value at an index of sorted values, which `OrderStatistics` defines by
the number of values below it and not by a sort. A recursive function over
`0 .. n` is one that runs its body round by round (`RunExists`), by induction on
the rounds (`StepByStep`), again by a smallest counterexample.

The theorems rest on the named assumptions of the modules, which TLC
evaluates in every run of them. The type invariants that are proved are not
among the properties of the runs. Only model-checked are the liveness properties
(`Reconciled`, `EventuallyRolledUp`, `AnsweredReturns`) and whatever else is about
fairness, which is out of the prover's reach. What the violation runs show is a
counterexample and has no theorem.

## 7. What the source says and the code does not do

Shown by a run:

* `tenants`: `tenant_id` "scopes both the budget record and the spend
  computation" (`budget_enforcer.py:73`). The key names only the tag.
* `streams`: the "original response is returned unchanged"
  (`instrumentor.py:272`) and the pipeline "Never raises" (`:171`). Only errors
  of the SDK's own are caught around `extract_usage`; a stream of Anthropic or a
  usage that is None raises `AttributeError` at the caller.
* `objects`: "A cost optimizer must never break the call it optimizes"
  (`instrumentor.py:302`). The messages are hashed before that, outside any try
  (`:294`, `:370`), and each is read as a dict where only the first was looked at:
  with an object further on the call ends in `AttributeError` before it is sent.
* `near`: the stub says "nearly identical to a later, verbatim copy"
  (`semantic_dedup.py:26`, and `README.md:138`). Members of a group are compared
  with its first one, and the last is kept: it may be unlike the one replaced.
* `prose`: "the most recent turns are always kept verbatim, and any message you pin
  with `traject_preserve: True` is immutable" (`docs/compression-guide.md:15`, also
  `:114`, `:129` and `README.md:133`). The prose filter and the columnarizer run
  over every message before any is protected.
* `traces`: the traceparent links "every span into one distributed trace"
  (`docs/cascade-tracing.md:5`) and "all spans share the same `trace_id`" (`:64`).
  The wrapper draws a trace for each span (`instrumentor.py:207`) and leaves
  `parent_span_id` None; nothing reads the context of the agent.

Read in the code, without a run of its own.

Budgets, spans, rollup, cache:

* `spent_usd` is documented as "Current spend within the active period"
  (`api/v1/budgets.py:57`). The key lives for a day whatever the period; when it
  expired, the next ingest starts it from zero and the fast path believes it
  until the recompute job has run. The daily window is not free of this: with a
  tolerance of 60 s for clocks that are ahead, a span can stay in it for a minute
  after the default life of a key (86400 s, the window itself). The same happens
  where the life of a key ends between `incrbyfloat` and `expire`
  (`span_ingestion.py:192`), and after a SET of a sum that an ingest overtook. No
  property excludes too small a counter between two recomputes; `Reconciled` says
  that it is mended.
* `replace(tzinfo=None)` (`span_ingestion.py:151`) drops an offset and does not
  convert: a span stamped in another zone is stored in a wrong hour.
* The cache's embedding is "of the prompt" (`services/semantic_cache.py:83`). The
  SDK embeds "" for contents that are lists of parts.
* "Backfill every un-materialized hour since the last watermark"
  (`scheduler.py:70`): a GET that raises counts as no watermark, the run does
  the previous hour and then moves the watermark past the hours it skipped
  (`RedisMayFail` in `AttributionRollup`, FALSE in the run).
* The router is "purely advisory" by default (`docs/router-guide.md:7`): the
  wrapper puts the chosen model into `kwargs["model"]`.
* `backend_url` gives the backend "a copy of every span" (`configure`): not of
  synchronous calls without a loop, nor of spans whose emission raised. A second
  `configure` with the same URL is called a no-op and replaces the client.
* A covered prediction set is "expected to meet the threshold with probability
  >= 1 - alpha" (`router/conformal.py:61`, `docs/ml-router-guide.md:40`). The
  bound is compared with zero (`:199`), not with the threshold.
* The marginal guarantee (`router/conformal.py:85`) needs 1/alpha - 1 points;
  with fewer the level is clamped and the guarantee is only the one about the
  calibration set. `MarginalCoverage` says so in its premise.
* A cost is negative where more tokens are cached than counted as input, as
  Anthropic reports them; the span does not validate and the call is recorded
  nowhere.
* `span_ingestion.py:183` says that a status "recomputes on read"; the fast
  path never does. Late spans, with a timestamp in an hour behind the
  watermark, are stored and never rolled up (`LateSpans` is FALSE in the runs).
* Two scripts at once, or a script that was paused, may show less of the current
  hour than was shown before (`OneOperator` in the proof of the refinement).
* A budget's recompute sums the spans of every tenant with the tag, the slow
  path those of one: which of them the key holds depends on who wrote last.
  `Settled` therefore speaks of the recorded spend of the tag.
* `hit_count` is documented as the number of times an entry was served
  (`models/cache_entry.py:40`); conflicting stores increment it and similarity
  hits do not. `response_preview` keeps 200 characters of an answer. The model
  is documented as part of the cache key in the SDK and is not sent.
* An answer that is being stored when its tag is invalidated comes back.

Compression, calls, routing:

* A last turn or a system prompt that repeats is replaced by an exact copy further
  on, because exact duplicates come before the protection; only tool results are.
* Duplicate and CCR stubs have no guard against growing a short message; the
  counts are clamped, the message is longer. Stubs and summaries are messages
  of a role and a content only: `tool_call_id` is gone.
* Shadow mode still writes to the CCR store. A store that raises half-way
  leaves `compress` with an exception and the keys written so far.
* A message whose content is a list makes `_validate_compression_result` raise
  `TypeError`; the instrumentor swallows it, other callers see it.
* `ConformalRouter` documents its map as provider, tier, model and looks the
  requested model up in it (`router/conformal.py:347`).
* The pytest summary is "preserving all fact-bearing failure detail"
  (`tool_result_classifier.py:194`): the section "ERRORS" with the tracebacks of
  failed fixtures is dropped, and `SummaryKeepsFacts` does not ask for it. Nor does
  it for lines of a build that are no errors by the code's words, "npm warn" among
  them. The git log summary reports every line that is not blank as an omitted
  entry (`:189`).
* Semantic scores are cached "bypassing embedding computation"
  (`relevance_scorer.py:433`); the key of the cache is made from the embedding.

Batch:

* `docs/batch-routing.md:110` says that `poll_and_collect` checks the jobs and
  (`:119`) is a registered APScheduler job. It is a stub that returns 0, nothing
  registers it, and a stored job stays pending until an application polls: no
  property says that it settles.
* `BatchJobStatus` values "mirror the status strings returned by both" APIs
  (`batch_router.py:39`); a job may be cancelled, for which `update_status` raises.
* `span_count` of a failed record is documented as the spans "intended for
  submission" (`:370`); after an exception it counts ineligible spans too.
  `LostWorkIsFlagged` needs no more than that it counts enough.
* A request holds a placeholder message in place of the prompt. A file stays
  with the provider when the create request fails. An `expires_at` that cannot
  be read turns an accepted job into a failed record. With two pollers a settled
  status may go back; the next poll repairs it.

Proxy and MCP server:

* "All responses are forwarded verbatim" (`proxy/app.py:8`): a stream always has
  status 200, whatever the upstream answered, which is why
  `AnswersAreTheUpstreams` asks for the status of whole answers only; an answer
  that is no JSON becomes a 500. The proxy's content type is sent beside the client's.
* `X-Traject-Tokens-Saved` is "0 in shadow mode" (`proxy/app.py:11`); it is what
  compression would have saved, and `ForwardsTheConversation` bounds it by that.
* A `content` of null, as in an assistant message that only calls tools, is
  answered with 422. In shadow mode "upstream receives messages identical to the
  original" (`tests/unit/test_proxy_server.py:108`, likewise `proxy/app.py:218`), and
  extra fields are kept to "be forwarded unchanged" (`:181`). The handler copies role
  and content only (`:357`), in shadow mode too: `ForwardsTheConversation` says that
  no `tool_calls`, `tool_call_id` or `name` ever goes upstream. A list of
  parts that compression keeps ends in a 500.
* `compress` runs synchronously on the event loop: every other request waits.
* A limit of 0 is never exceeded, `tokens_used` counts tokens before
  compression, and a restart forgets the budget (`mcp/server.py`).

Statistics and traces:

* The anomaly scan is about the hourly cost of a tag. The rollup has a row per
  hour, tenant, provider and model, so the newest row is one of several; a tag
  without new rows is alerted about again every 6 hours; the fences are taken at
  floor indices and are not symmetric; an error in one tag loses the alerts of all.
* Where all calls cost the same, an inexact quotient moves the interval past its
  point and the prediction falls back to plus or minus 50 %. A "90% prediction
  interval" (`cost_predictor.py:3`) may leave out one call more on each side.
* No client in the repository offers `get_spans_by_trace_id` and no span of the SDK
  carries `is_orchestrator`: what `SummaryAddsUp` says is about spans that an
  application keeps. A
  span without a cost raises in `Decimal`. `inject` overwrites only the
  lower-case header: an agent that starts a trace of its own while it passes on
  an inbound "Traceparent" sends the old trace first.
* Nothing writes `routing_decision`, by which training selects its rows: it ends
  with `InsufficientDataError`. `_save_artifact` truncates the model file in place.

## 8. Limits

Not modelled, with the reasons in `PROJECT.json`: numerical parts (regression,
LinUCB, embeddings, training), the command line, the plugin registry, the prompt
cache advisor, cloud providers' fields, authentication, the URL check,
read-only endpoints, the dashboard and the TypeScript client. In the modelled
parts: amounts are units, not decimals; stamps are in UTC; conversations are
inputs and the output of a call is not fed to the next; contents are atomic, so
lists of parts appear only in `SemanticCache` and `CompressionProxy`; roles
other than system, user, assistant and tool are left out; `_apply_strategy` is
modelled for soft-protected segments, the only ones it is called for. In
`InstrumentedCall` patching and calls of one client do not overlap (a call keeps
the wrappers it began with), labels, hashes and the compression fields of a span
(`compression_applied`, `tokens_saved`) are left out,
`override_task_type` is not passed by the wrappers, and a model that is priced
by its prefix is the model itself. In `BatchJobs` a poller asks for one job at
a time, and one provider error is like another. In `CompressionProxy` bodies of
requests are parsed before the model begins, and clients do not hang up.
