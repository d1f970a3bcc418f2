----------------------------- MODULE SpendCounter -----------------------------
(***************************************************************************)
(* Budget enforcement of the Traject backend: span ingestion, the Redis    *)
(* spend counter kept per feature tag, the budget status endpoint, budget  *)
(* upsert and delete, and the scheduler's recompute job.                   *)
(*                                                                         *)
(* Every await on PostgreSQL or Redis is a step of its own, so handlers of *)
(* any number of Uvicorn workers interleave between them.  A priced span   *)
(* costs one unit, so that spend is the number of priced spans, or, where  *)
(* the model is free of charge, nothing.                                   *)
(***************************************************************************)
EXTENDS Integers, FiniteSets

CONSTANTS
  Tenant, Tag,      \* callers, and the feature tags they send
  Span,             \* span ids; a retry carries the id, stamp and cost again
  TenantOf, TagOf, StampOf,  \* what the payload of a span says, per id
  Priced, Free,     \* the spans that cost one unit, and those whose cost_usd is zero
  Handler,          \* request coroutines of the API processes
  Runner,           \* processes that run the recompute job
  PeriodDelta,      \* period name -> length of the rolling window, in ticks
  Terms,            \* budget payloads: [period, limit, warnPct]
  Ttl,              \* redis_cache_ttl_seconds, in ticks
  FutureTolerance,  \* _FUTURE_TOLERANCE_SECONDS, in ticks
  RedisMayFail,     \* calls to Redis may raise
  MayCrash,         \* a process may die between two steps
  None,
  MaxTime, MaxAccepted, MaxAdmin   \* bounds of the instance

Actor == Handler \cup Runner
Absent == -1      \* GET returns nothing
Nothing == -1     \* the tag is not in spend_by_tag, or its turn is over
NoExpiry == -1    \* the key has no time to live
Status == {"ok", "warning", "exhausted"}

ASSUME SpanAssumption ==
  /\ IsFiniteSet(Span)
  /\ TenantOf \in [Span -> Tenant]
  /\ TagOf \in [Span -> Tag]
  /\ StampOf \in [Span -> Int]
  /\ Priced \subseteq Span /\ Free \subseteq Span \ Priced

ASSUME TermsAssumption ==
  /\ PeriodDelta \in [DOMAIN PeriodDelta -> Nat]
  /\ Terms \subseteq [period : DOMAIN PeriodDelta, limit : Nat, warnPct : Nat]
  /\ None \notin Tenant \cup Tag \cup Terms /\ None \notin Status

ASSUME ActorAssumption == Handler \cap Runner = {}

ASSUME ClockAssumption == Ttl \in Nat \ {0} /\ FutureTolerance \in Nat

ASSUME BoundAssumption ==
  /\ MaxTime \in Nat /\ MaxAccepted \in Nat /\ MaxAdmin \in Nat
  /\ RedisMayFail \in BOOLEAN /\ MayCrash \in BOOLEAN

VARIABLES
  now,       \* wall clock
  rows,      \* ids stored in inference_spans
  budgets,   \* budget_controls: <<tenant, tag>> -> terms or None
  counter,   \* Redis "traject:budget:{tag}": the value, or Absent
  expiry,    \* when that key expires
  pc,        \* where each actor's coroutine is suspended
  pend,      \* ingest: spend_by_tag still to be added to the counters
  ctx,       \* locals of a query, a delete or a recompute
  todo,      \* recompute: budgets still to be visited
  accepted,  \* history: sum of the "accepted" answers
  bumped,    \* history: amount added by INCRBYFLOAT, per tag
  admin      \* number of budget changes, for the bound

store == <<rows, budgets>>
redis == <<counter, expiry>>
locals == <<pc, pend, ctx, todo>>
history == <<accepted, bumped, admin>>
vars == <<now, store, redis, locals, history>>

Ctx == [tenant : Tenant \cup {None}, tag : Tag \cup {None}, terms : Terms \cup {None},
        spent : Nat, status : Status \cup {None}]
NoCtx == [tenant |-> None, tag |-> None, terms |-> None, spent |-> 0, status |-> None]
NoAmounts == [g \in Tag |-> Nothing]

HandlerStep == {"idle", "bump", "expire", "load", "get", "sum", "cache", "reread", "drop"}
RunnerStep == {"idle", "rsum", "rset"}

(***************************************************************************)
(* Spend                                                                   *)
(***************************************************************************)

\* _period_start: the window rolls, it is not aligned to a calendar period.
PeriodStart(period) == now - PeriodDelta[period]

PricedRows(g) == {s \in rows \cap Priced : TagOf[s] = g}

\* The recompute job's SUM: it filters by tag and time only.
TagSpend(g, period) ==
  Cardinality({s \in PricedRows(g) : StampOf[s] >= PeriodStart(period)})

\* check_budget's SUM: also filtered by tenant.
TenantSpend(t, g, period) ==
  Cardinality({s \in PricedRows(g) : TenantOf[s] = t /\ StampOf[s] >= PeriodStart(period)})

\* Mutant: exhausted one unit too early.
StatusOfEager(terms, spent) ==
  IF spent + 1 >= terms.limit THEN "exhausted" ELSE "ok"

\* pct is 0.0 for a zero budget, whatever was spent.
StatusOf(terms, spent) ==
  LET whole == IF terms.limit = 0 THEN 1 ELSE terms.limit
      part  == IF terms.limit = 0 THEN 0 ELSE spent
  IN  CASE part >= whole -> "exhausted"
        [] part < whole /\ 100 * part >= terms.warnPct * whole -> "warning"
        [] OTHER -> "ok"

\* Mutant: the value is added to what is there.
SetKeyAdds(g, value) ==
  /\ counter' = [counter EXCEPT ![g] = IF @ = Absent THEN value ELSE @ + value]
  /\ expiry' = [expiry EXCEPT ![g] = now + Ttl]

SetKey(g, value) ==
  /\ counter' = [counter EXCEPT ![g] = value]
  /\ expiry' = [expiry EXCEPT ![g] = now + Ttl]

Present(g) == counter[g] # Absent

(***************************************************************************)
(* POST /v1/spans: ingest_spans                                            *)
(***************************************************************************)

\* After the current tag: the next one with an amount, or the answer.
AfterTag(amounts) == IF \E g \in Tag : amounts[g] # Nothing THEN "bump" ELSE "idle"

\* spend_by_tag: a tag is in it, with an amount that may be zero, when a span
\* with a cost_usd is.
SpendByTag(valid) ==
  [g \in Tag |-> IF \E s \in valid \cap (Priced \cup Free) : TagOf[s] = g
                 THEN Cardinality({s \in valid \cap Priced : TagOf[s] = g}) ELSE Nothing]

\* Spans too far in the future are rejected, the others inserted with
\* ON CONFLICT DO NOTHING and committed.  The amounts cover every valid span,
\* those the conflict clause skipped included.  A span without an id gets a
\* fresh one: it is one more element of Span.
Ingest(h) ==
  /\ pc[h] = "idle"
  /\ \E t \in Tenant : \E batch \in SUBSET {s \in Span : TenantOf[s] = t} :
       LET valid == {s \in batch : StampOf[s] <= now + FutureTolerance}
           spend == SpendByTag(valid)
       IN  /\ valid # {}
           /\ accepted + Cardinality(valid) <= MaxAccepted
           /\ rows' = rows \cup valid
           /\ accepted' = accepted + Cardinality(valid)
           /\ pend' = [pend EXCEPT ![h] = spend]
           /\ pc' = [pc EXCEPT ![h] = AfterTag(spend)]
  /\ UNCHANGED <<now, budgets, redis, ctx, todo, bumped, admin>>

\* Mutant: EXPIRE refreshes only a key that was already there.
BumpWithoutExpire(h) ==
  /\ pc[h] = "bump"
  /\ \E g \in Tag :
       /\ pend[h][g] # Nothing
       /\ counter' = [counter EXCEPT ![g] = (IF Present(g) THEN @ ELSE 0) + pend[h][g]]
       /\ bumped' = [bumped EXCEPT ![g] = @ + pend[h][g]]
       /\ pend' = [pend EXCEPT ![h][g] = Nothing]
       /\ ctx' = [ctx EXCEPT ![h].tag = g]
       /\ pc' = [pc EXCEPT ![h] = IF Present(g) THEN "expire" ELSE AfterTag(pend'[h])]
  /\ UNCHANGED <<now, store, expiry, todo, accepted, admin>>

\* INCRBYFLOAT: an absent key starts at zero and has no time to live.
Bump(h) ==
  /\ pc[h] = "bump"
  /\ \E g \in Tag :
       /\ pend[h][g] # Nothing
       /\ counter' = [counter EXCEPT ![g] = (IF Present(g) THEN @ ELSE 0) + pend[h][g]]
       /\ bumped' = [bumped EXCEPT ![g] = @ + pend[h][g]]
       /\ pend' = [pend EXCEPT ![h][g] = Nothing]
       /\ ctx' = [ctx EXCEPT ![h].tag = g]
  /\ pc' = [pc EXCEPT ![h] = "expire"]
  /\ UNCHANGED <<now, store, expiry, todo, accepted, admin>>

\* EXPIRE does nothing to a key deleted in the meantime.
Expire(h) ==
  /\ pc[h] = "expire"
  /\ LET g == ctx[h].tag
     IN  expiry' = IF Present(g) THEN [expiry EXCEPT ![g] = now + Ttl] ELSE expiry
  /\ ctx' = [ctx EXCEPT ![h] = NoCtx]
  /\ pc' = [pc EXCEPT ![h] = AfterTag(pend[h])]
  /\ UNCHANGED <<now, store, counter, pend, todo, history>>

\* An exception from INCRBYFLOAT or EXPIRE is logged and the loop goes on.
CounterFails(h) ==
  /\ RedisMayFail
  /\ \/ /\ pc[h] = "bump"
        /\ \E g \in Tag : pend[h][g] # Nothing /\ pend' = [pend EXCEPT ![h][g] = Nothing]
     \/ /\ pc[h] = "expire"
        /\ UNCHANGED pend
  /\ ctx' = [ctx EXCEPT ![h] = NoCtx]
  /\ pc' = [pc EXCEPT ![h] = AfterTag(pend'[h])]
  /\ UNCHANGED <<now, store, redis, todo, history>>

(***************************************************************************)
(* GET /v1/budgets/{feature_tag}: get_budget_status, _build_status_response*)
(* and check_budget.  list_budgets repeats the same steps per record.      *)
(***************************************************************************)

\* The endpoint reads the record; without one it answers 404.
BeginQuery(h) ==
  /\ pc[h] = "idle"
  /\ \E t \in Tenant, g \in Tag :
       /\ budgets[<<t, g>>] # None
       /\ ctx' = [ctx EXCEPT ![h] = [NoCtx EXCEPT !.tenant = t, !.tag = g,
                                                  !.terms = budgets[<<t, g>>]]]
  /\ pc' = [pc EXCEPT ![h] = "load"]
  /\ UNCHANGED <<now, store, redis, pend, todo, history>>

\* check_budget selects the row again; the session's identity map returns the
\* object read before.  A row deleted since then means no budget.
LoadBudget(h) ==
  /\ pc[h] = "load"
  /\ IF budgets[<<ctx[h].tenant, ctx[h].tag>>] = None
     THEN /\ ctx' = [ctx EXCEPT ![h].status = "ok"]
          /\ pc' = [pc EXCEPT ![h] = "reread"]
     ELSE /\ pc' = [pc EXCEPT ![h] = "get"]
          /\ UNCHANGED ctx
  /\ UNCHANGED <<now, store, redis, pend, todo, history>>

\* The fast path believes whatever the key holds.
GetCounter(h) ==
  /\ pc[h] = "get"
  /\ IF Present(ctx[h].tag)
     THEN /\ ctx' = [ctx EXCEPT ![h].status = StatusOf(ctx[h].terms, counter[ctx[h].tag])]
          /\ pc' = [pc EXCEPT ![h] = "reread"]
     ELSE /\ pc' = [pc EXCEPT ![h] = "sum"]
          /\ UNCHANGED ctx
  /\ UNCHANGED <<now, store, redis, pend, todo, history>>

SumSpend(h) ==
  /\ pc[h] = "sum"
  /\ LET c == ctx[h]
     IN  ctx' = [ctx EXCEPT ![h].spent = TenantSpend(c.tenant, c.tag, c.terms.period)]
  /\ pc' = [pc EXCEPT ![h] = "cache"]
  /\ UNCHANGED <<now, store, redis, pend, todo, history>>

CacheSpend(h) ==
  /\ pc[h] = "cache"
  /\ SetKey(ctx[h].tag, ctx[h].spent)
  /\ ctx' = [ctx EXCEPT ![h].status = StatusOf(ctx[h].terms, ctx[h].spent)]
  /\ pc' = [pc EXCEPT ![h] = "reread"]
  /\ UNCHANGED <<now, store, pend, todo, history>>

\* Fail open: any exception makes the status OK.  A SET may have been applied.
CheckFails(h) ==
  /\ RedisMayFail
  /\ \/ pc[h] = "get" /\ UNCHANGED redis
     \/ pc[h] = "cache" /\ (UNCHANGED redis \/ SetKey(ctx[h].tag, ctx[h].spent))
  /\ ctx' = [ctx EXCEPT ![h].status = "ok"]
  /\ pc' = [pc EXCEPT ![h] = "reread"]
  /\ UNCHANGED <<now, store, pend, todo, history>>

\* The response takes spent_usd from a second GET; if that raises, 500.
Respond(h) ==
  /\ pc[h] = "reread"
  /\ ctx' = [ctx EXCEPT ![h] = NoCtx]
  /\ pc' = [pc EXCEPT ![h] = "idle"]
  /\ UNCHANGED <<now, store, redis, pend, todo, history>>

(***************************************************************************)
(* PUT and DELETE /v1/budgets/{feature_tag}                                *)
(***************************************************************************)

\* One INSERT ... ON CONFLICT DO UPDATE; the counter is left as it is.
UpsertBudget ==
  /\ admin < MaxAdmin
  /\ \E t \in Tenant, g \in Tag, terms \in Terms :
       budgets' = [budgets EXCEPT ![<<t, g>>] = terms]
  /\ admin' = admin + 1
  /\ UNCHANGED <<now, rows, redis, locals, accepted, bumped>>

\* delete_budget: the row goes and is committed, then the shared key.
DeleteBudget(h) ==
  /\ pc[h] = "idle"
  /\ admin < MaxAdmin
  /\ \E t \in Tenant, g \in Tag :
       /\ budgets[<<t, g>>] # None
       /\ budgets' = [budgets EXCEPT ![<<t, g>>] = None]
       /\ ctx' = [ctx EXCEPT ![h].tag = g]
  /\ admin' = admin + 1
  /\ pc' = [pc EXCEPT ![h] = "drop"]
  /\ UNCHANGED <<now, rows, redis, pend, todo, accepted, bumped>>

\* The DEL; if it raises the answer is 500 and the row is gone all the same.
DropKey(h) ==
  /\ pc[h] = "drop"
  /\ \/ /\ counter' = [counter EXCEPT ![ctx[h].tag] = Absent]
        /\ expiry' = [expiry EXCEPT ![ctx[h].tag] = NoExpiry]
     \/ RedisMayFail /\ UNCHANGED redis
  /\ ctx' = [ctx EXCEPT ![h] = NoCtx]
  /\ pc' = [pc EXCEPT ![h] = "idle"]
  /\ UNCHANGED <<now, store, pend, todo, history>>

(***************************************************************************)
(* _run_recompute_budget_counters                                          *)
(***************************************************************************)

BudgetRows == {b \in Tenant \X Tag : budgets[b] # None}

BeginRecompute(r) ==
  /\ pc[r] = "idle"
  /\ BudgetRows # {}
  /\ todo' = [todo EXCEPT ![r] = {<<b[1], b[2], budgets[b].period>> : b \in BudgetRows}]
  /\ pc' = [pc EXCEPT ![r] = "rsum"]
  /\ UNCHANGED <<now, store, redis, pend, ctx, history>>

RecomputeSum(r) ==
  /\ pc[r] = "rsum"
  /\ \E b \in todo[r] :
       /\ ctx' = [ctx EXCEPT ![r].tag = b[2], ![r].spent = TagSpend(b[2], b[3])]
       /\ todo' = [todo EXCEPT ![r] = @ \ {b}]
  /\ pc' = [pc EXCEPT ![r] = "rset"]
  /\ UNCHANGED <<now, store, redis, pend, history>>

\* Mutant: the job refreshes only the keys that exist.
RecomputeSetExisting(r) ==
  /\ pc[r] = "rset"
  /\ IF Present(ctx[r].tag) THEN SetKey(ctx[r].tag, ctx[r].spent) ELSE UNCHANGED redis
  /\ ctx' = [ctx EXCEPT ![r] = NoCtx]
  /\ pc' = [pc EXCEPT ![r] = IF todo[r] = {} THEN "idle" ELSE "rsum"]
  /\ UNCHANGED <<now, store, pend, todo, history>>

RecomputeSet(r) ==
  /\ pc[r] = "rset"
  /\ SetKey(ctx[r].tag, ctx[r].spent)
  /\ ctx' = [ctx EXCEPT ![r] = NoCtx]
  /\ pc' = [pc EXCEPT ![r] = IF todo[r] = {} THEN "idle" ELSE "rsum"]
  /\ UNCHANGED <<now, store, pend, todo, history>>

\* One exception ends the whole job: the remaining budgets keep their counters.
RecomputeFails(r) ==
  /\ RedisMayFail
  /\ pc[r] = "rset"
  /\ UNCHANGED redis \/ SetKey(ctx[r].tag, ctx[r].spent)
  /\ ctx' = [ctx EXCEPT ![r] = NoCtx]
  /\ todo' = [todo EXCEPT ![r] = {}]
  /\ pc' = [pc EXCEPT ![r] = "idle"]
  /\ UNCHANGED <<now, store, pend, history>>

(***************************************************************************)
(* Environment                                                             *)
(***************************************************************************)

\* The process dies: what it had not yet done is never done.
Crash(a) ==
  /\ MayCrash
  /\ pc[a] # "idle"
  /\ pc' = [pc EXCEPT ![a] = "idle"]
  /\ pend' = [pend EXCEPT ![a] = NoAmounts]
  /\ ctx' = [ctx EXCEPT ![a] = NoCtx]
  /\ todo' = [todo EXCEPT ![a] = {}]
  /\ UNCHANGED <<now, store, redis, history>>

\* Time passes and Redis drops the keys whose expiry is past (now > when).
Tick ==
  /\ now < MaxTime
  /\ now' = now + 1
  /\ LET over == {g \in Tag : expiry[g] # NoExpiry /\ expiry[g] < now'}
     IN  /\ counter' = [g \in Tag |-> IF g \in over THEN Absent ELSE counter[g]]
         /\ expiry' = [g \in Tag |-> IF g \in over THEN NoExpiry ELSE expiry[g]]
  /\ UNCHANGED <<store, locals, history>>

Init ==
  /\ now = 0
  /\ rows = {}
  /\ budgets = [b \in Tenant \X Tag |-> None]
  /\ counter = [g \in Tag |-> Absent]
  /\ expiry = [g \in Tag |-> NoExpiry]
  /\ pc = [a \in Actor |-> "idle"]
  /\ pend = [a \in Actor |-> NoAmounts]
  /\ ctx = [a \in Actor |-> NoCtx]
  /\ todo = [a \in Actor |-> {}]
  /\ accepted = 0
  /\ bumped = [g \in Tag |-> 0]
  /\ admin = 0

IngestStep(h) == Ingest(h) \/ Bump(h) \/ Expire(h) \/ CounterFails(h)
QueryStep(h) ==
  \/ BeginQuery(h) \/ LoadBudget(h) \/ GetCounter(h) \/ SumSpend(h)
  \/ CacheSpend(h) \/ CheckFails(h) \/ Respond(h)
AdminStep == UpsertBudget \/ \E h \in Handler : DeleteBudget(h) \/ DropKey(h)
RecomputeStep(r) ==
  BeginRecompute(r) \/ RecomputeSum(r) \/ RecomputeSet(r) \/ RecomputeFails(r)

Next ==
  \/ \E h \in Handler : IngestStep(h) \/ QueryStep(h)
  \/ AdminStep
  \/ \E r \in Runner : RecomputeStep(r)
  \/ \E a \in Actor : Crash(a)
  \/ Tick

Spec == Init /\ [][Next]_vars

\* A started handler goes on, and the interval trigger keeps starting the job.
\* Nothing makes a client send a span or a query.
HandlerGoesOn(h) ==
  \/ Bump(h) \/ Expire(h) \/ LoadBudget(h) \/ GetCounter(h) \/ SumSpend(h)
  \/ CacheSpend(h) \/ Respond(h) \/ DropKey(h)
Fairness ==
  /\ \A h \in Handler : WF_vars(HandlerGoesOn(h))
  /\ \A r \in Runner : WF_vars(BeginRecompute(r) \/ RecomputeSum(r) \/ RecomputeSet(r))

FairSpec == Spec /\ Fairness

-----------------------------------------------------------------------------
(***************************************************************************)
(* Properties                                                              *)
(***************************************************************************)

\* The locals a suspension point of a coroutine relies on.
Relies(step, c) ==
  /\ step \in {"expire", "load", "get", "sum", "cache", "reread", "drop", "rset"} => c.tag \in Tag
  /\ step \in {"load", "get", "sum", "cache", "reread"} =>
       c.tenant \in Tenant /\ c.terms \in Terms
  /\ step = "reread" => c.status # None

\* Types, and every coroutine finds the locals its next step relies on.
TypeOK ==
  /\ now \in Nat
  /\ rows \subseteq Span
  /\ budgets \in [Tenant \X Tag -> Terms \cup {None}]
  /\ counter \in [Tag -> Nat \cup {Absent}]
  /\ expiry \in [Tag -> Nat \cup {NoExpiry}]
  /\ pc \in [Actor -> HandlerStep \cup RunnerStep]
  /\ pend \in [Actor -> [Tag -> Nat \cup {Nothing}]]
  /\ ctx \in [Actor -> Ctx]
  /\ todo \in [Actor -> SUBSET (Tenant \X Tag \X DOMAIN PeriodDelta)]
  /\ accepted \in Nat /\ bumped \in [Tag -> Nat] /\ admin \in Nat
  /\ \A a \in Actor : Relies(pc[a], ctx[a])

\* A counter is never more than the spend on record plus what was added by
\* increments: however ingests, cache fills and recomputes overlap, a delivery
\* is counted at most once through a SUM and once through its INCRBYFLOAT.
\* Setting the key (check_budget, the recompute job) has to replace, not add.
CounterBounded ==
  \A g \in Tag : counter[g] <= Cardinality(PricedRows(g)) + bumped[g]

\* The same bound for the decision: a budget is answered exhausted only when
\* that much was recorded or counted for the tag, and a budget of zero never,
\* of which "pct" is 0.0 whatever was spent.
ExhaustedBounded ==
  \A h \in Handler :
    LET c == ctx[h]
    IN  pc[h] = "reread" /\ c.status = "exhausted" =>
          /\ 0 < c.terms.limit
          /\ c.terms.limit <= Cardinality(PricedRows(c.tag)) + bumped[c.tag]

\* While Redis answers and no process dies, a counter without a time to live
\* is one whose EXPIRE is still to come: no other interleaving of ingests,
\* deletes and expiries leaves a spend counter behind that lives for ever.
NoImmortalCounter ==
  \A g \in Tag : Present(g) /\ expiry[g] = NoExpiry =>
    \E h \in Handler : pc[h] = "expire" /\ ctx[h].tag = g

\* "The scheduler's recompute job reconciles the authoritative value": once
\* clients and time stop, each budget's counter settles on the recorded spend
\* of the window of one of the tag's budgets, whatever races came before.
Settled(g) ==
  LET periods == {budgets[b].period : b \in {b \in BudgetRows : b[2] = g}}
  IN  periods # {} => counter[g] \in {TagSpend(g, p) : p \in periods}
Reconciled == \A g \in Tag : <>[]Settled(g)

(***************************************************************************)
(* What the source says of itself and the code does not do (see README).   *)
(***************************************************************************)

Reads(h) == pc[h] = "get" /\ pc'[h] = "reread"

\* check_budget: tenant_id "scopes both the budget record and the spend
\* computation".  A tenant that has sent nothing on a tag has spent nothing.
TenantScoped ==
  [][\A h \in Handler :
       LET c == ctx'[h]
       IN  Reads(h) /\ (\A s \in PricedRows(c.tag) : TenantOf[s] # c.tenant)
             => c.status = "ok"]_vars

=============================================================================
