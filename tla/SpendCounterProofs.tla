-------------------------- MODULE SpendCounterProofs --------------------------
(***************************************************************************)
(* Theorems about SpendCounter, for every set of tenants, tags, spans,     *)
(* handlers and recompute runners.                                         *)
(***************************************************************************)
EXTENDS SpendCounter, FiniteSetTheorems, TLAPS

\* A set of spans is finite, so counting it gives a number.
LEMMA SpanSubset ==
  ASSUME NEW S \in SUBSET Span
  PROVE  IsFiniteSet(S) /\ Cardinality(S) \in Nat
BY FS_Subset, FS_CardinalityType, SpanAssumption

\* The SUMs of check_budget and of the recompute job are numbers.
LEMMA SpendType ==
  ASSUME rows \subseteq Span, NEW t, NEW g, NEW p
  PROVE  /\ Cardinality(PricedRows(g)) \in Nat
         /\ TagSpend(g, p) \in Nat
         /\ TenantSpend(t, g, p) \in Nat
<1>1. /\ PricedRows(g) \in SUBSET Span
      /\ {s \in PricedRows(g) : StampOf[s] >= PeriodStart(p)} \in SUBSET Span
      /\ {s \in PricedRows(g) : TenantOf[s] = t /\ StampOf[s] >= PeriodStart(p)} \in SUBSET Span
  BY DEF PricedRows
<1>2. QED
  BY <1>1, SpanSubset DEF TagSpend, TenantSpend

\* A SUM over a window never exceeds the priced spans on record for the tag.
LEMMA SpendBound ==
  ASSUME rows \subseteq Span, NEW t, NEW g, NEW p
  PROVE  /\ TagSpend(g, p) <= Cardinality(PricedRows(g))
         /\ TenantSpend(t, g, p) <= Cardinality(PricedRows(g))
<1>1. IsFiniteSet(PricedRows(g))
  BY SpanSubset DEF PricedRows
<1>2. /\ {s \in PricedRows(g) : StampOf[s] >= PeriodStart(p)} \subseteq PricedRows(g)
      /\ {s \in PricedRows(g) : TenantOf[s] = t /\ StampOf[s] >= PeriodStart(p)}
           \subseteq PricedRows(g)
  OBVIOUS
<1>3. QED
  BY <1>1, <1>2, FS_Subset DEF TagSpend, TenantSpend

\* The status is one of the three words.
LEMMA StatusType ==
  ASSUME NEW terms, NEW spent
  PROVE  StatusOf(terms, spent) \in Status
<1> DEFINE whole == IF terms.limit = 0 THEN 1 ELSE terms.limit
           part  == IF terms.limit = 0 THEN 0 ELSE spent
<1>1. StatusOf(terms, spent) =
        CASE part >= whole -> "exhausted"
          [] part < whole /\ 100 * part >= terms.warnPct * whole -> "warning"
          [] OTHER -> "ok"
  BY DEF StatusOf
<1> HIDE DEF whole, part
<1>2. QED
  BY <1>1 DEF Status

-----------------------------------------------------------------------------
(***************************************************************************)
(* Types                                                                   *)
(***************************************************************************)

LEMMA InitTypeOK == Init => TypeOK
BY ClockAssumption, TermsAssumption
   DEF Init, TypeOK, NoAmounts, NoCtx, Ctx, Absent, NoExpiry, HandlerStep, RunnerStep, Relies

LEMMA NoCtxType == NoCtx \in Ctx
BY DEF NoCtx, Ctx

\* An actor that moves to a step with the locals it relies on disturbs nobody.
LEMMA LocalsType ==
  ASSUME TypeOK, NEW a \in Actor, NEW c \in Ctx, NEW step \in HandlerStep \cup RunnerStep,
         Relies(step, c), ctx' = [ctx EXCEPT ![a] = c], pc' = [pc EXCEPT ![a] = step]
  PROVE  /\ pc' \in [Actor -> HandlerStep \cup RunnerStep]
         /\ ctx' \in [Actor -> Ctx]
         /\ \A b \in Actor : Relies(pc'[b], ctx'[b])
<1>1. /\ pc \in [Actor -> HandlerStep \cup RunnerStep]
      /\ ctx \in [Actor -> Ctx]
      /\ \A b \in Actor : Relies(pc[b], ctx[b])
  BY DEF TypeOK
<1>2. \A b \in Actor : Relies(pc'[b], ctx'[b])
  <2> SUFFICES ASSUME NEW b \in Actor PROVE Relies(pc'[b], ctx'[b])
    OBVIOUS
  <2>1. CASE b = a
    <3>1. pc'[b] = step /\ ctx'[b] = c
      BY <1>1, <2>1
    <3>2. QED
      BY <3>1
  <2>2. CASE b # a
    <3>1. pc'[b] = pc[b] /\ ctx'[b] = ctx[b]
      BY <1>1, <2>2
    <3>2. QED
      BY <1>1, <3>1
  <2>3. QED
    BY <2>1, <2>2
<1>3. QED
  BY <1>1, <1>2

\* What a step that leaves the store and Redis alone has to show.
LEMMA OnlyLocals ==
  ASSUME TypeOK, UNCHANGED <<now, store, redis, history>>,
         pend' \in [Actor -> [Tag -> Nat \cup {Nothing}]],
         todo' \in [Actor -> SUBSET (Tenant \X Tag \X DOMAIN PeriodDelta)],
         pc' \in [Actor -> HandlerStep \cup RunnerStep],
         ctx' \in [Actor -> Ctx],
         \A b \in Actor : Relies(pc'[b], ctx'[b])
  PROVE  TypeOK'
BY DEF TypeOK, store, redis, history

\* After a tag the handler is at a suspension point that needs no locals.
LEMMA AfterTagType ==
  ASSUME NEW amounts
  PROVE  /\ AfterTag(amounts) \in HandlerStep \cup RunnerStep
         /\ \A c : Relies(AfterTag(amounts), c)
BY DEF AfterTag, HandlerStep, RunnerStep, Relies

\* SET with an expiry keeps the types of the keys.
LEMMA SetKeyType ==
  ASSUME TypeOK, NEW g \in Tag, NEW value \in Nat, SetKey(g, value)
  PROVE  /\ counter' \in [Tag -> Nat \cup {Absent}]
         /\ expiry' \in [Tag -> Nat \cup {NoExpiry}]
BY ClockAssumption DEF SetKey, TypeOK

\* The type of an actor's locals.
LEMMA LocalFacts ==
  ASSUME TypeOK, NEW a \in Actor
  PROVE  /\ ctx[a] \in Ctx /\ Relies(pc[a], ctx[a])
         /\ ctx = [ctx EXCEPT ![a] = ctx[a]]
         /\ pend[a] \in [Tag -> Nat \cup {Nothing}]
BY DEF TypeOK

\* Ingestion keeps the types: the amounts it hands over are counts.
LEMMA IngestType ==
  ASSUME TypeOK, NEW h \in Handler, IngestStep(h)
  PROVE  TypeOK'
<1>a. h \in Actor
  BY DEF Actor
<1>b. ctx[h] \in Ctx /\ Relies(pc[h], ctx[h]) /\ ctx = [ctx EXCEPT ![h] = ctx[h]]
  BY <1>a, LocalFacts
<1>1. CASE Ingest(h)
  <2>1. PICK batch \in SUBSET Span :
          LET valid == {s \in batch : StampOf[s] <= now + FutureTolerance}
              spend == SpendByTag(valid)
          IN  /\ rows' = rows \cup valid
              /\ accepted' = accepted + Cardinality(valid)
              /\ pend' = [pend EXCEPT ![h] = spend]
              /\ pc' = [pc EXCEPT ![h] = AfterTag(spend)]
    BY <1>1 DEF Ingest
  <2> DEFINE valid == {s \in batch : StampOf[s] <= now + FutureTolerance}
             spend == SpendByTag(valid)
  <2>2. Cardinality(valid) \in Nat /\ spend \in [Tag -> Nat \cup {Nothing}]
    <3>1. valid \in SUBSET Span
      OBVIOUS
    <3>2. \A g \in Tag : {s \in valid \cap Priced : TagOf[s] = g} \in SUBSET Span
      OBVIOUS
    <3> HIDE DEF valid
    <3>3. QED
      BY <3>1, <3>2, SpanSubset DEF SpendByTag
  <2>3. /\ rows' = rows \cup valid
        /\ accepted' = accepted + Cardinality(valid)
        /\ pend' = [pend EXCEPT ![h] = spend]
        /\ pc' = [pc EXCEPT ![h] = AfterTag(spend)]
    BY <2>1
  <2>4. valid \subseteq Span
    OBVIOUS
  <2> HIDE DEF valid, spend
  <2>5. UNCHANGED <<now, budgets, redis, ctx, todo, bumped, admin>>
    BY <1>1 DEF Ingest
  <2>6. ctx' = [ctx EXCEPT ![h] = ctx[h]]
    BY <1>b, <2>5
  <2>7. /\ pc' \in [Actor -> HandlerStep \cup RunnerStep]
        /\ ctx' \in [Actor -> Ctx]
        /\ \A b \in Actor : Relies(pc'[b], ctx'[b])
    BY <1>a, <1>b, <2>3, <2>6, AfterTagType, LocalsType
  <2>8. QED
    BY <1>a, <2>2, <2>3, <2>4, <2>5, <2>7 DEF TypeOK, redis
<1>2. CASE Bump(h)
  <2>1. PICK g \in Tag :
          /\ counter' = [counter EXCEPT ![g] = (IF Present(g) THEN @ ELSE 0) + pend[h][g]]
          /\ bumped' = [bumped EXCEPT ![g] = @ + pend[h][g]]
          /\ pend' = [pend EXCEPT ![h][g] = Nothing]
          /\ pend[h][g] # Nothing
          /\ ctx' = [ctx EXCEPT ![h].tag = g]
    BY <1>2 DEF Bump
  <2>2. /\ counter' \in [Tag -> Nat \cup {Absent}]
        /\ bumped' \in [Tag -> Nat]
        /\ pend' \in [Actor -> [Tag -> Nat \cup {Nothing}]]
    BY <1>a, <2>1 DEF Present, TypeOK
  <2> DEFINE c == [ctx[h] EXCEPT !.tag = g]
  <2>3. c \in Ctx /\ Relies("expire", c) /\ "expire" \in HandlerStep \cup RunnerStep
    BY <1>b DEF Ctx, Relies, HandlerStep
  <2>4. ctx' = [ctx EXCEPT ![h] = c]
    BY <2>1
  <2> HIDE DEF c
  <2>5. pc' = [pc EXCEPT ![h] = "expire"] /\ UNCHANGED <<now, store, expiry, todo, accepted, admin>>
    BY <1>2 DEF Bump
  <2>6. /\ pc' \in [Actor -> HandlerStep \cup RunnerStep]
        /\ ctx' \in [Actor -> Ctx]
        /\ \A b \in Actor : Relies(pc'[b], ctx'[b])
    BY <1>a, <2>3, <2>4, <2>5, LocalsType
  <2>7. QED
    BY <2>2, <2>5, <2>6 DEF TypeOK, store
<1>3. CASE Expire(h)
  <2>1. expiry' \in [Tag -> Nat \cup {NoExpiry}]
    <3>1. expiry' = expiry \/ expiry' = [expiry EXCEPT ![ctx[h].tag] = now + Ttl]
      BY <1>3 DEF Expire
    <3>2. QED
      BY <3>1, ClockAssumption DEF TypeOK
  <2>2. /\ pc' \in [Actor -> HandlerStep \cup RunnerStep]
        /\ ctx' \in [Actor -> Ctx]
        /\ \A b \in Actor : Relies(pc'[b], ctx'[b])
    BY <1>3, <1>a, NoCtxType, AfterTagType, LocalsType DEF Expire
  <2>3. QED
    BY <1>3, <2>1, <2>2 DEF Expire, TypeOK, store, history
<1>4. CASE CounterFails(h)
  <2>1. pend' \in [Actor -> [Tag -> Nat \cup {Nothing}]]
    BY <1>4, <1>a DEF CounterFails, TypeOK
  <2>2. /\ pc' \in [Actor -> HandlerStep \cup RunnerStep]
        /\ ctx' \in [Actor -> Ctx]
        /\ \A b \in Actor : Relies(pc'[b], ctx'[b])
    <3>1. /\ pc' = [pc EXCEPT ![h] = AfterTag(pend'[h])]
          /\ ctx' = [ctx EXCEPT ![h] = NoCtx]
      BY <1>4 DEF CounterFails
    <3>2. AfterTag(pend'[h]) \in HandlerStep \cup RunnerStep /\ Relies(AfterTag(pend'[h]), NoCtx)
      BY AfterTagType
    <3>3. QED
      BY <3>1, <3>2, <1>a, NoCtxType, LocalsType
  <2>3. UNCHANGED <<now, store, redis, todo, history>>
    BY <1>4 DEF CounterFails
  <2>4. QED
    BY <2>1, <2>2, <2>3, OnlyLocals DEF TypeOK
<1>5. QED
  BY <1>1, <1>2, <1>3, <1>4 DEF IngestStep

\* A status query keeps the types.
LEMMA QueryType ==
  ASSUME TypeOK, NEW h \in Handler, QueryStep(h)
  PROVE  TypeOK'
<1>a. h \in Actor
  BY DEF Actor
<1>b. ctx[h] \in Ctx /\ Relies(pc[h], ctx[h]) /\ ctx = [ctx EXCEPT ![h] = ctx[h]]
  BY <1>a, LocalFacts
<1>c. pend \in [Actor -> [Tag -> Nat \cup {Nothing}]] /\ todo \in [Actor -> SUBSET (Tenant \X Tag \X DOMAIN PeriodDelta)]
  BY DEF TypeOK
<1> USE DEF HandlerStep
\* A step that only moves the handler, to locals of the right type.
<1>d. ASSUME NEW c \in Ctx, NEW step \in HandlerStep, Relies(step, c),
             ctx' = [ctx EXCEPT ![h] = c], pc' = [pc EXCEPT ![h] = step],
             UNCHANGED <<now, store, redis, pend, todo, history>>
      PROVE  TypeOK'
  <2>1. /\ pc' \in [Actor -> HandlerStep \cup RunnerStep]
        /\ ctx' \in [Actor -> Ctx]
        /\ \A b \in Actor : Relies(pc'[b], ctx'[b])
    BY <1>d, <1>a, LocalsType
  <2>2. QED
    BY <1>c, <1>d, <2>1, OnlyLocals
\* The same for a step that may also set the key of the handler's tag.
<1>e. ASSUME pc[h] = "cache", NEW s \in Status,
             UNCHANGED redis \/ SetKey(ctx[h].tag, ctx[h].spent),
             ctx' = [ctx EXCEPT ![h].status = s], pc' = [pc EXCEPT ![h] = "reread"],
             UNCHANGED <<now, store, pend, todo, history>>
      PROVE  TypeOK'
  <2> DEFINE c == [ctx[h] EXCEPT !.status = s]
  <2>1. c \in Ctx /\ Relies("reread", c)
    BY <1>b, <1>e, TermsAssumption DEF Relies, Ctx, Status
  <2>2. ctx' = [ctx EXCEPT ![h] = c]
    BY <1>e
  <2> HIDE DEF c
  <2>3. /\ pc' \in [Actor -> HandlerStep \cup RunnerStep]
        /\ ctx' \in [Actor -> Ctx]
        /\ \A b \in Actor : Relies(pc'[b], ctx'[b])
    BY <1>e, <1>a, <2>1, <2>2, LocalsType
  <2>4. ctx[h].tag \in Tag /\ ctx[h].spent \in Nat
    BY <1>b, <1>e DEF Relies, Ctx
  <2>5. /\ counter' \in [Tag -> Nat \cup {Absent}]
        /\ expiry' \in [Tag -> Nat \cup {NoExpiry}]
    BY <1>e, <2>4, SetKeyType DEF redis, TypeOK
  <2>6. QED
    BY <1>e, <2>3, <2>5 DEF TypeOK, store, history
<1>1. CASE BeginQuery(h)
  <2>1. PICK t \in Tenant, g \in Tag :
          /\ budgets[<<t, g>>] # None
          /\ ctx' = [ctx EXCEPT ![h] = [NoCtx EXCEPT !.tenant = t, !.tag = g,
                                                     !.terms = budgets[<<t, g>>]]]
    BY <1>1 DEF BeginQuery
  <2> DEFINE c == [NoCtx EXCEPT !.tenant = t, !.tag = g, !.terms = budgets[<<t, g>>]]
  <2>2. budgets[<<t, g>>] \in Terms
    BY <2>1 DEF TypeOK
  <2>3. c \in Ctx /\ Relies("load", c)
    BY <2>2 DEF NoCtx, Ctx, Relies
  <2>4. ctx' = [ctx EXCEPT ![h] = c]
    BY <2>1
  <2> HIDE DEF c
  <2>5. pc' = [pc EXCEPT ![h] = "load"] /\ UNCHANGED <<now, store, redis, pend, todo, history>>
    BY <1>1 DEF BeginQuery
  <2>6. QED
    BY <1>d, <2>3, <2>4, <2>5
<1>2. CASE LoadBudget(h)
  <2>1. CASE budgets[<<ctx[h].tenant, ctx[h].tag>>] = None
    <3> DEFINE c == [ctx[h] EXCEPT !.status = "ok"]
    <3>1. c \in Ctx /\ Relies("reread", c)
      BY <1>2, <1>b, TermsAssumption DEF LoadBudget, Relies, Ctx, Status
    <3>2. ctx' = [ctx EXCEPT ![h] = c]
      BY <1>2, <2>1 DEF LoadBudget
    <3> HIDE DEF c
    <3>3. pc' = [pc EXCEPT ![h] = "reread"] /\ UNCHANGED <<now, store, redis, pend, todo, history>>
      BY <1>2, <2>1 DEF LoadBudget
    <3>4. QED
      BY <1>d, <3>1, <3>2, <3>3
  <2>2. CASE budgets[<<ctx[h].tenant, ctx[h].tag>>] # None
    <3>1. Relies("get", ctx[h])
      BY <1>2, <1>b DEF LoadBudget, Relies
    <3>2. /\ ctx' = [ctx EXCEPT ![h] = ctx[h]]
          /\ pc' = [pc EXCEPT ![h] = "get"]
          /\ UNCHANGED <<now, store, redis, pend, todo, history>>
      BY <1>2, <1>b, <2>2 DEF LoadBudget
    <3>3. QED
      BY <1>b, <1>d, <3>1, <3>2
  <2>3. QED
    BY <2>1, <2>2
<1>3. CASE GetCounter(h)
  <2>1. CASE Present(ctx[h].tag)
    <3> DEFINE s == StatusOf(ctx[h].terms, counter[ctx[h].tag])
               c == [ctx[h] EXCEPT !.status = s]
    <3>1. s \in Status
      BY StatusType
    <3>2. ctx' = [ctx EXCEPT ![h] = c]
      BY <1>3, <2>1 DEF GetCounter
    <3> HIDE DEF s
    <3>3. c \in Ctx /\ Relies("reread", c)
      BY <1>3, <1>b, <3>1, TermsAssumption DEF GetCounter, Relies, Ctx, Status
    <3> HIDE DEF c
    <3>4. pc' = [pc EXCEPT ![h] = "reread"] /\ UNCHANGED <<now, store, redis, pend, todo, history>>
      BY <1>3, <2>1 DEF GetCounter
    <3>5. QED
      BY <1>d, <3>2, <3>3, <3>4
  <2>2. CASE ~Present(ctx[h].tag)
    <3>1. Relies("sum", ctx[h])
      BY <1>3, <1>b DEF GetCounter, Relies
    <3>2. /\ ctx' = [ctx EXCEPT ![h] = ctx[h]]
          /\ pc' = [pc EXCEPT ![h] = "sum"]
          /\ UNCHANGED <<now, store, redis, pend, todo, history>>
      BY <1>3, <1>b, <2>2 DEF GetCounter
    <3>3. QED
      BY <1>b, <1>d, <3>1, <3>2
  <2>3. QED
    BY <2>1, <2>2
<1>4. CASE SumSpend(h)
  <2> DEFINE sum == TenantSpend(ctx[h].tenant, ctx[h].tag, ctx[h].terms.period)
             c == [ctx[h] EXCEPT !.spent = sum]
  <2>1. sum \in Nat
    BY SpendType DEF TypeOK
  <2>2. ctx' = [ctx EXCEPT ![h] = c]
    BY <1>4 DEF SumSpend
  <2> HIDE DEF sum
  <2>3. c \in Ctx /\ Relies("cache", c)
    BY <1>4, <1>b, <2>1 DEF SumSpend, Relies, Ctx
  <2> HIDE DEF c
  <2>4. pc' = [pc EXCEPT ![h] = "cache"] /\ UNCHANGED <<now, store, redis, pend, todo, history>>
    BY <1>4 DEF SumSpend
  <2>5. QED
    BY <1>d, <2>2, <2>3, <2>4
<1>5. CASE CacheSpend(h)
  <2>1. StatusOf(ctx[h].terms, ctx[h].spent) \in Status
    BY StatusType
  <2>2. QED
    BY <1>5, <1>e, <2>1 DEF CacheSpend
<1>6. CASE CheckFails(h)
  <2>1. CASE pc[h] = "cache"
    BY <1>6, <1>e, <2>1 DEF CheckFails, Status
  <2>2. CASE pc[h] = "get"
    <3> DEFINE c == [ctx[h] EXCEPT !.status = "ok"]
    <3>1. c \in Ctx /\ Relies("reread", c)
      BY <1>b, <2>2, TermsAssumption DEF Relies, Ctx, Status
    <3>2. ctx' = [ctx EXCEPT ![h] = c]
      BY <1>6 DEF CheckFails
    <3> HIDE DEF c
    <3>3. pc' = [pc EXCEPT ![h] = "reread"] /\ UNCHANGED <<now, store, redis, pend, todo, history>>
      BY <1>6, <2>2 DEF CheckFails
    <3>4. QED
      BY <1>d, <3>1, <3>2, <3>3
  <2>3. QED
    BY <1>6, <2>1, <2>2 DEF CheckFails
<1>7. CASE Respond(h)
  BY <1>7, <1>d, NoCtxType DEF Respond, Relies
<1>8. QED
  BY <1>1, <1>2, <1>3, <1>4, <1>5, <1>6, <1>7 DEF QueryStep

\* Budget changes keep the types.
LEMMA AdminType ==
  ASSUME TypeOK, AdminStep
  PROVE  TypeOK'
<1>1. CASE UpsertBudget
  <2>1. budgets' \in [Tenant \X Tag -> Terms \cup {None}]
    BY <1>1 DEF UpsertBudget, TypeOK
  <2>2. admin' = admin + 1 /\ UNCHANGED <<now, rows, redis, locals, accepted, bumped>>
    BY <1>1 DEF UpsertBudget
  <2>3. QED
    BY <2>1, <2>2 DEF TypeOK, redis, locals
<1>2. ASSUME NEW h \in Handler, DeleteBudget(h) PROVE TypeOK'
  <2>a. h \in Actor
    BY DEF Actor
  <2>1. PICK t \in Tenant, g \in Tag :
          /\ budgets' = [budgets EXCEPT ![<<t, g>>] = None]
          /\ ctx' = [ctx EXCEPT ![h].tag = g]
    BY <1>2 DEF DeleteBudget
  <2>2. budgets' \in [Tenant \X Tag -> Terms \cup {None}]
    BY <2>1 DEF TypeOK
  <2> DEFINE c == [ctx[h] EXCEPT !.tag = g]
  <2>3. ctx' = [ctx EXCEPT ![h] = c]
    BY <2>1
  <2>4. c \in Ctx /\ Relies("drop", c)
    BY <2>a, LocalFacts DEF Ctx, Relies
  <2> HIDE DEF c
  <2>5. /\ pc' = [pc EXCEPT ![h] = "drop"]
        /\ admin' = admin + 1
        /\ UNCHANGED <<now, rows, redis, pend, todo, accepted, bumped>>
    BY <1>2 DEF DeleteBudget
  <2>6. /\ pc' \in [Actor -> HandlerStep \cup RunnerStep]
        /\ ctx' \in [Actor -> Ctx]
        /\ \A b \in Actor : Relies(pc'[b], ctx'[b])
    BY <2>a, <2>3, <2>4, <2>5, LocalsType DEF HandlerStep
  <2>7. QED
    BY <2>2, <2>5, <2>6 DEF TypeOK, redis
<1>3. ASSUME NEW h \in Handler, DropKey(h) PROVE TypeOK'
  <2>a. h \in Actor
    BY DEF Actor
  <2>1. /\ counter' \in [Tag -> Nat \cup {Absent}]
        /\ expiry' \in [Tag -> Nat \cup {NoExpiry}]
    BY <1>3 DEF DropKey, TypeOK, redis
  <2>2. Relies("idle", NoCtx) /\ "idle" \in HandlerStep
    BY DEF Relies, HandlerStep
  <2>3. /\ pc' \in [Actor -> HandlerStep \cup RunnerStep]
        /\ ctx' \in [Actor -> Ctx]
        /\ \A b \in Actor : Relies(pc'[b], ctx'[b])
    BY <1>3, <2>a, <2>2, NoCtxType, LocalsType DEF DropKey
  <2>4. QED
    BY <1>3, <2>1, <2>3 DEF DropKey, TypeOK, store, history
<1>4. QED
  BY <1>1, <1>2, <1>3 DEF AdminStep

\* The recompute job keeps the types.
LEMMA RecomputeType ==
  ASSUME TypeOK, NEW r \in Runner, RecomputeStep(r)
  PROVE  TypeOK'
<1>a. r \in Actor
  BY DEF Actor
<1>b. ctx[r] \in Ctx /\ Relies(pc[r], ctx[r]) /\ ctx = [ctx EXCEPT ![r] = ctx[r]]
  BY <1>a, LocalFacts
\* A step that ends a visit, whether or not the key was set.
<1>c. ASSUME pc[r] = "rset", UNCHANGED redis \/ SetKey(ctx[r].tag, ctx[r].spent),
             NEW step \in {"idle", "rsum"},
             ctx' = [ctx EXCEPT ![r] = NoCtx], pc' = [pc EXCEPT ![r] = step],
             todo' \in [Actor -> SUBSET (Tenant \X Tag \X DOMAIN PeriodDelta)],
             UNCHANGED <<now, store, pend, history>>
      PROVE  TypeOK'
  <2>1. Relies(step, NoCtx) /\ step \in HandlerStep \cup RunnerStep
    BY DEF Relies, HandlerStep, RunnerStep
  <2>2. /\ pc' \in [Actor -> HandlerStep \cup RunnerStep]
        /\ ctx' \in [Actor -> Ctx]
        /\ \A b \in Actor : Relies(pc'[b], ctx'[b])
    BY <1>a, <1>c, <2>1, NoCtxType, LocalsType
  <2>3. ctx[r].tag \in Tag /\ ctx[r].spent \in Nat
    BY <1>b, <1>c DEF Relies, Ctx
  <2>4. /\ counter' \in [Tag -> Nat \cup {Absent}]
        /\ expiry' \in [Tag -> Nat \cup {NoExpiry}]
    BY <1>c, <2>3, SetKeyType DEF redis, TypeOK
  <2>5. QED
    BY <1>c, <2>2, <2>4 DEF TypeOK, store, history
<1>1. CASE BeginRecompute(r)
  <2>1. {<<b[1], b[2], budgets[b].period>> : b \in BudgetRows} \in SUBSET (Tenant \X Tag \X DOMAIN PeriodDelta)
    BY TermsAssumption DEF BudgetRows, TypeOK
  <2>2. todo' \in [Actor -> SUBSET (Tenant \X Tag \X DOMAIN PeriodDelta)]
    BY <1>1, <2>1 DEF BeginRecompute, TypeOK
  <2>3. Relies("rsum", ctx[r]) /\ "rsum" \in RunnerStep
    BY DEF Relies, RunnerStep
  <2>4. /\ ctx' = [ctx EXCEPT ![r] = ctx[r]]
        /\ pc' = [pc EXCEPT ![r] = "rsum"]
        /\ UNCHANGED <<now, store, redis, pend, history>>
    BY <1>1, <1>b DEF BeginRecompute
  <2>5. /\ pc' \in [Actor -> HandlerStep \cup RunnerStep]
        /\ ctx' \in [Actor -> Ctx]
        /\ \A b \in Actor : Relies(pc'[b], ctx'[b])
    BY <1>a, <1>b, <2>3, <2>4, LocalsType
  <2>6. QED
    BY <2>2, <2>4, <2>5, OnlyLocals DEF TypeOK
<1>2. CASE RecomputeSum(r)
  <2>1. PICK b \in todo[r] :
          /\ ctx' = [ctx EXCEPT ![r].tag = b[2], ![r].spent = TagSpend(b[2], b[3])]
          /\ todo' = [todo EXCEPT ![r] = @ \ {b}]
    BY <1>2 DEF RecomputeSum
  <2>2. TagSpend(b[2], b[3]) \in Nat /\ b[2] \in Tag
    <3>1. rows \subseteq Span /\ b \in Tenant \X Tag \X DOMAIN PeriodDelta
      BY <1>a DEF TypeOK
    <3>2. QED
      BY <3>1, SpendType
  <2>3. todo' \in [Actor -> SUBSET (Tenant \X Tag \X DOMAIN PeriodDelta)]
    BY <1>a, <2>1 DEF TypeOK
  <2> DEFINE sum == TagSpend(b[2], b[3])
             c == [ctx[r] EXCEPT !.tag = b[2], !.spent = sum]
  <2>4. ctx' = [ctx EXCEPT ![r] = c]
    BY <1>a, <2>1 DEF TypeOK
  <2>5. sum \in Nat
    BY <2>2
  <2> HIDE DEF sum
  <2>6. c \in Ctx /\ Relies("rset", c)
    BY <1>b, <2>2, <2>5 DEF Ctx, Relies
  <2> HIDE DEF c
  <2>7. pc' = [pc EXCEPT ![r] = "rset"] /\ UNCHANGED <<now, store, redis, pend, history>>
    BY <1>2 DEF RecomputeSum
  <2>8. /\ pc' \in [Actor -> HandlerStep \cup RunnerStep]
        /\ ctx' \in [Actor -> Ctx]
        /\ \A a \in Actor : Relies(pc'[a], ctx'[a])
    BY <1>a, <2>4, <2>6, <2>7, LocalsType DEF RunnerStep
  <2>9. QED
    BY <2>3, <2>7, <2>8, OnlyLocals DEF TypeOK
<1>3. CASE RecomputeSet(r)
  BY <1>3, <1>c DEF RecomputeSet, TypeOK
<1>4. CASE RecomputeFails(r)
  <2>1. todo' \in [Actor -> SUBSET (Tenant \X Tag \X DOMAIN PeriodDelta)]
    BY <1>4 DEF RecomputeFails, TypeOK
  <2>2. QED
    BY <1>4, <1>c, <2>1 DEF RecomputeFails
<1>5. QED
  BY <1>1, <1>2, <1>3, <1>4 DEF RecomputeStep

\* Crashes and the passing of time keep the types.
LEMMA EnvironmentType ==
  ASSUME TypeOK, Tick \/ \E a \in Actor : Crash(a)
  PROVE  TypeOK'
<1>1. CASE Tick
  BY <1>1 DEF Tick, TypeOK, store, locals, history
<1>2. ASSUME NEW a \in Actor, Crash(a) PROVE TypeOK'
  <2>1. Relies("idle", NoCtx) /\ "idle" \in HandlerStep
    BY DEF Relies, HandlerStep
  <2>2. /\ pc' \in [Actor -> HandlerStep \cup RunnerStep]
        /\ ctx' \in [Actor -> Ctx]
        /\ \A b \in Actor : Relies(pc'[b], ctx'[b])
    BY <1>2, <2>1, NoCtxType, LocalsType DEF Crash
  <2>3. /\ pend' \in [Actor -> [Tag -> Nat \cup {Nothing}]]
        /\ todo' \in [Actor -> SUBSET (Tenant \X Tag \X DOMAIN PeriodDelta)]
    BY <1>2 DEF Crash, NoAmounts, TypeOK
  <2>4. QED
    BY <1>2, <2>2, <2>3, OnlyLocals DEF Crash
<1>3. QED
  BY <1>1, <1>2

\* Type correctness: every coroutine finds the locals its next step relies on.
THEOREM TypeCorrect == Spec => []TypeOK
<1>1. TypeOK /\ [Next]_vars => TypeOK'
  <2> SUFFICES ASSUME TypeOK, [Next]_vars PROVE TypeOK'
    OBVIOUS
  <2>1. CASE Next
    BY <2>1, IngestType, QueryType, AdminType, RecomputeType, EnvironmentType DEF Next
  <2>2. CASE UNCHANGED vars
    BY <2>2 DEF vars, store, redis, locals, history, TypeOK
  <2>3. QED
    BY <2>1, <2>2
<1>2. QED
  BY InitTypeOK, <1>1, PTL DEF Spec

-----------------------------------------------------------------------------
(***************************************************************************)
(* Counters and answers are bounded by what was recorded and added         *)
(***************************************************************************)

Recorded(g) == Cardinality(PricedRows(g))

\* What an actor carries towards the counter or the answer is bounded already.
CarriedBounded(a) ==
  LET c == ctx[a]
  IN  /\ pc[a] \in {"cache", "rset"} => c.spent <= Recorded(c.tag)
      /\ pc[a] = "reread" /\ c.status = "exhausted" =>
           0 < c.terms.limit /\ c.terms.limit <= Recorded(c.tag) + bumped[c.tag]

\* The inductive invariant: CounterBounded alone is not preserved by the SET of
\* an amount that was summed up earlier.
CounterInv == CounterBounded /\ \A a \in Actor : CarriedBounded(a)

\* Spend on record only grows when rows are only added.
LEMMA RecordedGrows ==
  ASSUME TypeOK, TypeOK', rows \subseteq rows', NEW g
  PROVE  Recorded(g) \in Nat /\ Recorded(g)' \in Nat /\ Recorded(g) <= Recorded(g)'
<1>1. /\ PricedRows(g) \in SUBSET Span
      /\ PricedRows(g)' \in SUBSET Span
      /\ PricedRows(g) \subseteq PricedRows(g)'
  BY DEF PricedRows, TypeOK
<1>2. IsFiniteSet(PricedRows(g)')
  BY <1>1, SpanSubset
<1>3. Cardinality(PricedRows(g)) <= Cardinality(PricedRows(g)')
  BY <1>1, <1>2, FS_Subset
<1>4. Cardinality(PricedRows(g)) \in Nat /\ Cardinality(PricedRows(g)') \in Nat
  BY <1>1, SpanSubset
<1>5. QED
  BY <1>3, <1>4 DEF Recorded

\* What an actor carries stays bounded when others move.
LEMMA CarriedStays ==
  ASSUME TypeOK, TypeOK', NEW a \in Actor, CarriedBounded(a),
         pc'[a] = pc[a], ctx'[a] = ctx[a], rows \subseteq rows',
         \A g \in Tag : bumped[g] <= bumped'[g]
  PROVE  CarriedBounded(a)'
<1> DEFINE c == ctx[a]
           w == Recorded(c.tag)
           v == Cardinality(PricedRows(c.tag)')
<1>1. w \in Nat /\ v \in Nat /\ w <= v
  BY RecordedGrows DEF Recorded
<1>2. /\ c \in Ctx /\ Relies(pc[a], c)
      /\ bumped \in [Tag -> Nat] /\ bumped' \in [Tag -> Nat]
  BY DEF TypeOK
<1>3. Recorded(ctx[a].tag)' = v
  BY DEF Recorded, PricedRows
<1>4. c.spent \in Nat
  BY <1>2 DEF Ctx
<1>5. ASSUME pc[a] \in {"cache", "rset"} PROVE c.spent <= v
  <2>1. c.spent <= w
    BY <1>5 DEF CarriedBounded
  <2>2. QED
    BY <1>1, <1>4, <2>1
<1>6. ASSUME pc[a] = "reread", c.status = "exhausted"
      PROVE  0 < c.terms.limit /\ c.terms.limit <= v + bumped'[c.tag]
  <2>1. c.tag \in Tag /\ c.terms \in Terms
    BY <1>2, <1>6 DEF Relies
  <2>2. c.terms.limit \in Nat
    BY <2>1, TermsAssumption
  <2>3. 0 < c.terms.limit /\ c.terms.limit <= w + bumped[c.tag]
    BY <1>6 DEF CarriedBounded
  <2>4. bumped[c.tag] <= bumped'[c.tag] /\ bumped[c.tag] \in Nat /\ bumped'[c.tag] \in Nat
    BY <1>2, <2>1
  <2>5. QED
    BY <1>1, <2>2, <2>3, <2>4
<1> HIDE DEF w, v
<1>7. QED
  BY <1>3, <1>5, <1>6 DEF CarriedBounded

\* One actor's step keeps the invariant if what it now carries and the counters
\* are bounded.
LEMMA CounterFrame ==
  ASSUME TypeOK, TypeOK', CounterInv, NEW a \in Actor,
         \A b \in Actor \ {a} : pc'[b] = pc[b] /\ ctx'[b] = ctx[b],
         rows \subseteq rows', \A g \in Tag : bumped[g] <= bumped'[g],
         CarriedBounded(a)', CounterBounded'
  PROVE  CounterInv'
<1>1. ASSUME NEW b \in Actor PROVE CarriedBounded(b)'
  <2>1. CASE b = a
    BY <2>1
  <2>2. CASE b # a
    BY <2>2, CarriedStays DEF CounterInv
  <2>3. QED
    BY <2>1, <2>2
<1>2. QED
  BY <1>1 DEF CounterInv

\* Counters that are unchanged or dropped stay bounded.
LEMMA CounterStays ==
  ASSUME TypeOK, TypeOK', CounterBounded, rows \subseteq rows',
         \A g \in Tag : bumped[g] <= bumped'[g] /\ counter'[g] \in {counter[g], Absent}
  PROVE  CounterBounded'
<1> SUFFICES ASSUME NEW g \in Tag
             PROVE  counter'[g] <= Cardinality(PricedRows(g)') + bumped'[g]
  BY DEF CounterBounded
<1>1. /\ Cardinality(PricedRows(g)) \in Nat
      /\ Cardinality(PricedRows(g)') \in Nat
      /\ Cardinality(PricedRows(g)) <= Cardinality(PricedRows(g)')
  BY RecordedGrows DEF Recorded
<1>2. bumped[g] \in Nat /\ bumped'[g] \in Nat /\ counter[g] \in Nat \cup {Absent}
  BY DEF TypeOK
<1>3. counter[g] <= Cardinality(PricedRows(g)) + bumped[g]
  BY DEF CounterBounded
<1>4. QED
  BY <1>1, <1>2, <1>3 DEF Absent

\* SET with an amount that is on record keeps the counters bounded.
LEMMA CounterSet ==
  ASSUME TypeOK, TypeOK', CounterInv, NEW a \in Actor, pc[a] \in {"cache", "rset"},
         SetKey(ctx[a].tag, ctx[a].spent), UNCHANGED <<rows, bumped>>
  PROVE  CounterBounded'
<1> SUFFICES ASSUME NEW g \in Tag
             PROVE  counter'[g] <= Cardinality(PricedRows(g)') + bumped'[g]
  BY DEF CounterBounded
<1>1. Cardinality(PricedRows(g)') = Cardinality(PricedRows(g)) /\ bumped'[g] = bumped[g]
  BY DEF PricedRows
<1>2. Cardinality(PricedRows(g)) \in Nat /\ bumped[g] \in Nat /\ ctx[a].spent \in Nat
  BY RecordedGrows DEF Recorded, TypeOK, Ctx
<1>3. CASE g = ctx[a].tag
  <2>1. counter'[g] = ctx[a].spent
    BY <1>3 DEF SetKey, TypeOK
  <2>2. ctx[a].spent <= Cardinality(PricedRows(g))
    BY <1>3 DEF CounterInv, CarriedBounded, Recorded
  <2>3. QED
    BY <1>1, <1>2, <2>1, <2>2
<1>4. CASE g # ctx[a].tag
  BY <1>1, <1>4 DEF SetKey, TypeOK, CounterInv, CounterBounded
<1>5. QED
  BY <1>3, <1>4

\* "exhausted" is answered only when a limit above zero is reached.
LEMMA ExhaustedMeans ==
  ASSUME NEW terms, NEW spent, terms.limit \in Nat, spent \in Nat \cup {Absent},
         StatusOf(terms, spent) = "exhausted"
  PROVE  0 < terms.limit /\ terms.limit <= spent
<1> DEFINE whole == IF terms.limit = 0 THEN 1 ELSE terms.limit
           part  == IF terms.limit = 0 THEN 0 ELSE spent
           warn  == 100 * part >= terms.warnPct * whole
<1>1. StatusOf(terms, spent) =
        CASE part >= whole -> "exhausted"
          [] part < whole /\ warn -> "warning"
          [] OTHER -> "ok"
  BY DEF StatusOf
<1> HIDE DEF warn
<1>2. part >= whole
  BY <1>1 DEF Absent
<1>3. QED
  BY <1>2 DEF Absent

\* Every step of ingestion keeps the invariant.
LEMMA IngestBounded ==
  ASSUME TypeOK, TypeOK', CounterInv, NEW h \in Handler, IngestStep(h)
  PROVE  CounterInv'
<1>a. h \in Actor
  BY DEF Actor
<1>b. /\ pc \in [Actor -> HandlerStep \cup RunnerStep]
      /\ ctx \in [Actor -> Ctx]
      /\ bumped \in [Tag -> Nat]
      /\ pend[h] \in [Tag -> Nat \cup {Nothing}]
  BY <1>a DEF TypeOK
<1>c. \A amounts : AfterTag(amounts) \in {"bump", "idle"}
  BY DEF AfterTag
<1>1. CASE Ingest(h)
  <2>1. /\ rows \subseteq rows'
        /\ UNCHANGED <<counter, bumped, ctx>>
        /\ \E amounts : pc' = [pc EXCEPT ![h] = AfterTag(amounts)]
    BY <1>1 DEF Ingest, redis
  <2>2. CarriedBounded(h)'
    BY <1>a, <1>b, <1>c, <2>1 DEF CarriedBounded
  <2>3. CounterBounded'
    BY <1>b, <2>1, CounterStays DEF CounterInv
  <2>4. QED
    BY <1>a, <1>b, <2>1, <2>2, <2>3, CounterFrame
<1>2. CASE Bump(h)
  <2>1. PICK g \in Tag :
          /\ counter' = [counter EXCEPT ![g] = (IF Present(g) THEN @ ELSE 0) + pend[h][g]]
          /\ bumped' = [bumped EXCEPT ![g] = @ + pend[h][g]]
          /\ ctx' = [ctx EXCEPT ![h].tag = g]
          /\ pend[h][g] # Nothing
    BY <1>2 DEF Bump
  <2>2. rows' = rows /\ pc' = [pc EXCEPT ![h] = "expire"]
    BY <1>2 DEF Bump, store
  <2>3. CarriedBounded(h)'
    BY <1>a, <1>b, <2>2 DEF CarriedBounded
  <2>4. \A x \in Tag : bumped[x] <= bumped'[x]
    BY <1>b, <2>1
  <2>5. CounterBounded'
    <3> SUFFICES ASSUME NEW x \in Tag
                 PROVE  counter'[x] <= Cardinality(PricedRows(x)') + bumped'[x]
      BY DEF CounterBounded
    <3>1. Cardinality(PricedRows(x)') = Cardinality(PricedRows(x))
      BY <2>2 DEF PricedRows
    <3>2. Cardinality(PricedRows(x)) \in Nat
      BY <2>2, RecordedGrows DEF Recorded
    <3>3. counter[x] \in Nat \cup {Absent} /\ bumped[x] \in Nat /\ pend[h][g] \in Nat
      BY <1>b, <2>1 DEF TypeOK
    <3>4. counter[x] <= Cardinality(PricedRows(x)) + bumped[x]
      BY DEF CounterInv, CounterBounded
    <3>5. CASE x = g
      <4>1. /\ counter'[x] = (IF Present(x) THEN counter[x] ELSE 0) + pend[h][g]
            /\ bumped'[x] = bumped[x] + pend[h][g]
        BY <1>b, <2>1, <3>5 DEF TypeOK
      <4>2. QED
        BY <3>1, <3>2, <3>3, <3>4, <4>1 DEF Present
    <3>6. CASE x # g
      <4>1. counter'[x] = counter[x] /\ bumped'[x] = bumped[x]
        BY <1>b, <2>1, <3>6 DEF TypeOK
      <4>2. QED
        BY <3>1, <3>4, <4>1
    <3>7. QED
      BY <3>5, <3>6
  <2>6. QED
    BY <1>a, <1>b, <2>1, <2>2, <2>3, <2>4, <2>5, CounterFrame
<1>3. CASE Expire(h) \/ CounterFails(h)
  <2>1. /\ UNCHANGED <<rows, counter, bumped>>
        /\ ctx' = [ctx EXCEPT ![h] = NoCtx]
        /\ \E amounts : pc' = [pc EXCEPT ![h] = AfterTag(amounts)]
    BY <1>3 DEF Expire, CounterFails, store, redis, history
  <2>2. CarriedBounded(h)'
    BY <1>a, <1>b, <1>c, <2>1 DEF CarriedBounded
  <2>3. CounterBounded'
    BY <1>b, <2>1, CounterStays DEF CounterInv
  <2>4. QED
    BY <1>a, <1>b, <2>1, <2>2, <2>3, CounterFrame
<1>4. QED
  BY <1>1, <1>2, <1>3 DEF IngestStep

\* Every step of a status query keeps the invariant.
LEMMA QueryBounded ==
  ASSUME TypeOK, TypeOK', CounterInv, NEW h \in Handler, QueryStep(h)
  PROVE  CounterInv'
<1>a. h \in Actor
  BY DEF Actor
<1>b. /\ pc \in [Actor -> HandlerStep \cup RunnerStep]
      /\ ctx \in [Actor -> Ctx]
      /\ bumped \in [Tag -> Nat]
      /\ ctx[h] \in Ctx /\ Relies(pc[h], ctx[h])
  BY <1>a DEF TypeOK
<1>c. UNCHANGED <<rows, bumped>> /\ \A b \in Actor \ {h} : pc'[b] = pc[b] /\ ctx'[b] = ctx[b]
  BY <1>a, <1>b DEF QueryStep, BeginQuery, LoadBudget, GetCounter, SumSpend, CacheSpend,
                    CheckFails, Respond, store, history
<1>d. ASSUME counter' = counter, CarriedBounded(h)' PROVE CounterInv'
  <2>1. CounterBounded'
    BY <1>b, <1>c, <1>d, CounterStays DEF CounterInv
  <2>2. QED
    BY <1>a, <1>b, <1>c, <1>d, <2>1, CounterFrame
<1>1. CASE BeginQuery(h) \/ Respond(h)
  <2>1. CarriedBounded(h)'
    BY <1>1, <1>a, <1>b DEF BeginQuery, Respond, CarriedBounded
  <2>2. QED
    BY <1>1, <1>d, <2>1 DEF BeginQuery, Respond, redis
<1>2. CASE LoadBudget(h)
  <2>1. pc'[h] = "get" \/ (pc'[h] = "reread" /\ ctx'[h].status = "ok")
    BY <1>2, <1>a, <1>b DEF LoadBudget, Ctx
  <2>2. CarriedBounded(h)'
    BY <2>1 DEF CarriedBounded
  <2>3. QED
    BY <1>2, <1>d, <2>2 DEF LoadBudget, redis
<1>3. CASE GetCounter(h)
  <2>1. CASE pc'[h] = "sum"
    <3>1. CarriedBounded(h)'
      BY <2>1 DEF CarriedBounded
    <3>2. QED
      BY <1>3, <1>d, <3>1 DEF GetCounter, redis
  <2>2. CASE pc'[h] # "sum"
    <3> DEFINE g == ctx[h].tag
               s == StatusOf(ctx[h].terms, counter[g])
    <3>1. /\ ctx' = [ctx EXCEPT ![h].status = s]
          /\ pc' = [pc EXCEPT ![h] = "reread"]
      BY <1>3, <1>a, <1>b, <2>2 DEF GetCounter
    <3>2. g \in Tag /\ ctx[h].terms \in Terms
      BY <1>3, <1>b DEF GetCounter, Relies
    <3> HIDE DEF s
    <3>3. /\ ctx'[h].status = s /\ ctx'[h].tag = g /\ ctx'[h].terms = ctx[h].terms
          /\ pc'[h] = "reread"
      BY <1>a, <1>b, <3>1 DEF Ctx
    <3>4. ASSUME s = "exhausted" PROVE 0 < ctx[h].terms.limit /\ ctx[h].terms.limit <= Recorded(g) + bumped[g]
      <4>1. ctx[h].terms.limit \in Nat /\ counter[g] \in Nat \cup {Absent}
        BY <3>2, TermsAssumption DEF TypeOK
      <4>2. 0 < ctx[h].terms.limit /\ ctx[h].terms.limit <= counter[g]
        BY <3>4, <4>1, ExhaustedMeans DEF s
      <4>3. counter[g] <= Recorded(g) + bumped[g]
        BY <3>2 DEF CounterInv, CounterBounded, Recorded
      <4>4. Recorded(g) \in Nat /\ bumped[g] \in Nat
        BY <1>b, <1>c, <3>2, RecordedGrows
      <4>5. QED
        BY <4>1, <4>2, <4>3, <4>4 DEF Absent
    <3>5. Recorded(ctx[h].tag)' = Recorded(g)
      BY <1>c, <3>3 DEF Recorded, PricedRows
    <3> HIDE DEF g
    <3>6. CarriedBounded(h)'
      BY <1>c, <3>3, <3>4, <3>5 DEF CarriedBounded
    <3>7. QED
      BY <1>3, <1>d, <3>6 DEF GetCounter, redis
  <2>3. QED
    BY <2>1, <2>2
<1>4. CASE SumSpend(h)
  <2> DEFINE g == ctx[h].tag
             x == TenantSpend(ctx[h].tenant, g, ctx[h].terms.period)
  <2>1. /\ ctx' = [ctx EXCEPT ![h].spent = x]
        /\ pc' = [pc EXCEPT ![h] = "cache"]
    BY <1>4 DEF SumSpend
  <2>2. x <= Recorded(g)
    BY SpendBound DEF TypeOK, Recorded
  <2> HIDE DEF x
  <2>3. ctx'[h].spent = x /\ ctx'[h].tag = g /\ pc'[h] = "cache"
    BY <1>a, <1>b, <2>1 DEF Ctx
  <2>4. Recorded(ctx[h].tag)' = Recorded(g)
    BY <1>c, <2>3 DEF Recorded, PricedRows
  <2> HIDE DEF g
  <2>5. CarriedBounded(h)'
    BY <2>2, <2>3, <2>4 DEF CarriedBounded
  <2>6. QED
    BY <1>4, <1>d, <2>5 DEF SumSpend, redis
<1>5. CASE CacheSpend(h)
  <2> DEFINE g == ctx[h].tag
             s == StatusOf(ctx[h].terms, ctx[h].spent)
  <2>1. /\ pc[h] = "cache"
        /\ SetKey(g, ctx[h].spent)
        /\ ctx' = [ctx EXCEPT ![h].status = s]
        /\ pc' = [pc EXCEPT ![h] = "reread"]
    BY <1>5 DEF CacheSpend
  <2>2. CounterBounded'
    BY <1>a, <1>c, <2>1, CounterSet
  <2> HIDE DEF s
  <2>3. /\ ctx'[h].status = s /\ ctx'[h].tag = g /\ ctx'[h].terms = ctx[h].terms
        /\ pc'[h] = "reread"
    BY <1>a, <1>b, <2>1 DEF Ctx
  <2>4. ASSUME s = "exhausted" PROVE 0 < ctx[h].terms.limit /\ ctx[h].terms.limit <= Recorded(g) + bumped[g]
    <3>1. g \in Tag /\ ctx[h].terms \in Terms
      BY <1>b, <2>1 DEF Relies
    <3>2. ctx[h].terms.limit \in Nat /\ ctx[h].spent \in Nat
      BY <1>b, <3>1, TermsAssumption DEF Ctx
    <3>3. 0 < ctx[h].terms.limit /\ ctx[h].terms.limit <= ctx[h].spent
      BY <2>4, <3>2, ExhaustedMeans DEF s
    <3>4. ctx[h].spent <= Recorded(g)
      BY <1>a, <2>1 DEF CounterInv, CarriedBounded
    <3>5. Recorded(g) \in Nat /\ bumped[g] \in Nat
      BY <1>b, <1>c, <3>1, RecordedGrows
    <3>6. QED
      BY <3>2, <3>3, <3>4, <3>5
  <2>5. Recorded(ctx[h].tag)' = Recorded(g)
    BY <1>c, <2>3 DEF Recorded, PricedRows
  <2> HIDE DEF g
  <2>6. CarriedBounded(h)'
    BY <1>c, <2>3, <2>4, <2>5 DEF CarriedBounded
  <2>7. QED
    BY <1>a, <1>b, <1>c, <2>2, <2>6, CounterFrame
<1>6. CASE CheckFails(h)
  <2>1. pc'[h] = "reread" /\ ctx'[h].status = "ok"
    BY <1>6, <1>a, <1>b DEF CheckFails, Ctx
  <2>2. CarriedBounded(h)'
    BY <2>1 DEF CarriedBounded
  <2>3. CASE UNCHANGED redis
    BY <1>d, <2>2, <2>3 DEF redis
  <2>4. CASE pc[h] = "cache" /\ SetKey(ctx[h].tag, ctx[h].spent)
    <3>1. CounterBounded'
      BY <1>a, <1>c, <2>4, CounterSet
    <3>2. QED
      BY <1>a, <1>b, <1>c, <2>2, <3>1, CounterFrame
  <2>5. QED
    BY <1>6, <2>3, <2>4 DEF CheckFails
<1>7. QED
  BY <1>1, <1>2, <1>3, <1>4, <1>5, <1>6 DEF QueryStep

\* Budget changes, the recompute job, crashes and time keep the invariant.
LEMMA AdminBounded ==
  ASSUME TypeOK, TypeOK', CounterInv, AdminStep
  PROVE  CounterInv'
<1>a. /\ pc \in [Actor -> HandlerStep \cup RunnerStep]
      /\ ctx \in [Actor -> Ctx]
      /\ bumped \in [Tag -> Nat]
      /\ counter \in [Tag -> Nat \cup {Absent}]
  BY DEF TypeOK
<1>1. CASE UpsertBudget
  <2>1. UNCHANGED <<rows, counter, bumped, pc, ctx>>
    BY <1>1 DEF UpsertBudget, redis, locals
  <2>2. CounterBounded'
    BY <1>a, <2>1, CounterStays DEF CounterInv
  <2>3. \A b \in Actor : CarriedBounded(b)'
    BY <1>a, <2>1, CarriedStays DEF CounterInv
  <2>4. QED
    BY <2>2, <2>3 DEF CounterInv
<1>2. ASSUME NEW h \in Handler, DeleteBudget(h) \/ DropKey(h) PROVE CounterInv'
  <2>a. h \in Actor
    BY DEF Actor
  <2>1. UNCHANGED <<rows, bumped>> /\ \A b \in Actor \ {h} : pc'[b] = pc[b] /\ ctx'[b] = ctx[b]
    BY <1>a, <1>2, <2>a DEF DeleteBudget, DropKey, store, history
  <2>2. pc'[h] \in {"drop", "idle"}
    BY <1>a, <1>2, <2>a DEF DeleteBudget, DropKey
  <2>3. CarriedBounded(h)'
    BY <2>2 DEF CarriedBounded
  <2>4. \A g \in Tag : counter'[g] \in {counter[g], Absent}
    BY <1>a, <1>2 DEF DeleteBudget, DropKey, redis
  <2>5. CounterBounded'
    BY <1>a, <2>1, <2>4, CounterStays DEF CounterInv
  <2>6. QED
    BY <1>a, <2>a, <2>1, <2>3, <2>5, CounterFrame
<1>3. QED
  BY <1>1, <1>2 DEF AdminStep

\* Every step of the recompute job keeps the invariant.
LEMMA RecomputeBounded ==
  ASSUME TypeOK, TypeOK', CounterInv, NEW r \in Runner, RecomputeStep(r)
  PROVE  CounterInv'
<1>a. r \in Actor
  BY DEF Actor
<1>b. /\ pc \in [Actor -> HandlerStep \cup RunnerStep]
      /\ ctx \in [Actor -> Ctx]
      /\ bumped \in [Tag -> Nat]
      /\ todo[r] \in SUBSET (Tenant \X Tag \X DOMAIN PeriodDelta)
  BY <1>a DEF TypeOK
<1>c. UNCHANGED <<rows, bumped>> /\ \A b \in Actor \ {r} : pc'[b] = pc[b] /\ ctx'[b] = ctx[b]
  BY <1>a, <1>b DEF RecomputeStep, BeginRecompute, RecomputeSum, RecomputeSet, RecomputeFails,
                    store, history
<1>1. CASE BeginRecompute(r)
  <2>1. pc'[r] = "rsum" /\ counter' = counter
    BY <1>1, <1>a, <1>b DEF BeginRecompute, redis
  <2>2. CarriedBounded(r)'
    BY <2>1 DEF CarriedBounded
  <2>3. CounterBounded'
    BY <1>b, <1>c, <2>1, CounterStays DEF CounterInv
  <2>4. QED
    BY <1>a, <1>b, <1>c, <2>2, <2>3, CounterFrame
<1>2. CASE RecomputeSum(r)
  <2>1. PICK b \in todo[r] :
          ctx' = [ctx EXCEPT ![r].tag = b[2], ![r].spent = TagSpend(b[2], b[3])]
    BY <1>2 DEF RecomputeSum
  <2> DEFINE x == TagSpend(b[2], b[3])
  <2>2. x <= Recorded(b[2])
    BY SpendBound DEF TypeOK, Recorded
  <2> HIDE DEF x
  <2>3. ctx' = [ctx EXCEPT ![r].tag = b[2], ![r].spent = x]
    BY <2>1 DEF x
  <2>4. ctx'[r].spent = x /\ ctx'[r].tag = b[2]
    BY <1>a, <1>b, <2>3 DEF Ctx
  <2>5. pc'[r] = "rset" /\ counter' = counter
    BY <1>2, <1>a, <1>b DEF RecomputeSum, redis
  <2>6. Recorded(ctx[r].tag)' = Recorded(b[2])
    BY <1>c, <2>4 DEF Recorded, PricedRows
  <2>7. CarriedBounded(r)'
    BY <2>2, <2>4, <2>5, <2>6 DEF CarriedBounded
  <2>8. CounterBounded'
    BY <1>b, <1>c, <2>5, CounterStays DEF CounterInv
  <2>9. QED
    BY <1>a, <1>b, <1>c, <2>7, <2>8, CounterFrame
<1>3. CASE RecomputeSet(r) \/ RecomputeFails(r)
  <2>1. pc'[r] \in {"idle", "rsum"}
    BY <1>3, <1>a, <1>b DEF RecomputeSet, RecomputeFails
  <2>2. CarriedBounded(r)'
    BY <2>1 DEF CarriedBounded
  <2>3. CASE SetKey(ctx[r].tag, ctx[r].spent)
    <3>1. pc[r] = "rset"
      BY <1>3 DEF RecomputeSet, RecomputeFails
    <3>2. CounterBounded'
      BY <1>a, <1>c, <2>3, <3>1, CounterSet
    <3>3. QED
      BY <1>a, <1>b, <1>c, <2>2, <3>2, CounterFrame
  <2>4. CASE UNCHANGED redis
    <3>1. CounterBounded'
      BY <1>b, <1>c, <2>4, CounterStays DEF CounterInv, redis
    <3>2. QED
      BY <1>a, <1>b, <1>c, <2>2, <3>1, CounterFrame
  <2>5. QED
    BY <1>3, <2>3, <2>4 DEF RecomputeSet, RecomputeFails
<1>4. QED
  BY <1>1, <1>2, <1>3 DEF RecomputeStep

\* Crashes and expiring keys keep the invariant.
LEMMA EnvironmentBounded ==
  ASSUME TypeOK, TypeOK', CounterInv, Tick \/ \E a \in Actor : Crash(a)
  PROVE  CounterInv'
<1>a. /\ pc \in [Actor -> HandlerStep \cup RunnerStep]
      /\ ctx \in [Actor -> Ctx]
      /\ bumped \in [Tag -> Nat]
  BY DEF TypeOK
<1>b. UNCHANGED <<rows, bumped>> /\ \A g \in Tag : counter'[g] \in {counter[g], Absent}
  BY DEF Tick, Crash, store, redis, history
<1>c. CounterBounded'
  BY <1>a, <1>b, CounterStays DEF CounterInv
<1>1. CASE Tick
  <2>1. \A b \in Actor : CarriedBounded(b)'
    BY <1>1, <1>a, <1>b, CarriedStays DEF CounterInv, Tick, locals
  <2>2. QED
    BY <1>c, <2>1 DEF CounterInv
<1>2. ASSUME NEW a \in Actor, Crash(a) PROVE CounterInv'
  <2>1. pc'[a] = "idle" /\ \A b \in Actor \ {a} : pc'[b] = pc[b] /\ ctx'[b] = ctx[b]
    BY <1>a, <1>2 DEF Crash
  <2>2. CarriedBounded(a)'
    BY <2>1 DEF CarriedBounded
  <2>3. QED
    BY <1>a, <1>b, <1>c, <2>1, <2>2, CounterFrame
<1>3. QED
  BY <1>1, <1>2

\* The invariant that carries both bounds is inductive.
LEMMA CounterInvariant == Spec => []CounterInv
<1>1. Init => CounterInv
  <2> SUFFICES ASSUME Init PROVE CounterInv
    OBVIOUS
  <2>1. \A g \in Tag : counter[g] = Absent /\ bumped[g] = 0
    BY DEF Init
  <2>2. \A g \in Tag : Cardinality(PricedRows(g)) \in Nat
    BY SpanSubset DEF Init, PricedRows
  <2>3. \A a \in Actor : pc[a] = "idle"
    BY DEF Init
  <2>4. QED
    BY <2>1, <2>2, <2>3 DEF CounterInv, CounterBounded, CarriedBounded, Absent
<1>2. TypeOK /\ TypeOK' /\ CounterInv /\ [Next]_vars => CounterInv'
  <2> SUFFICES ASSUME TypeOK, TypeOK', CounterInv, [Next]_vars PROVE CounterInv'
    OBVIOUS
  <2>1. CASE Next
    BY <2>1, IngestBounded, QueryBounded, AdminBounded, RecomputeBounded, EnvironmentBounded
       DEF Next
  <2>2. CASE UNCHANGED vars
    <3>1. UNCHANGED <<rows, counter, bumped, pc, ctx>>
      BY <2>2 DEF vars, store, redis, locals, history
    <3>2. bumped \in [Tag -> Nat]
      BY DEF TypeOK
    <3>3. CounterBounded'
      BY <3>1, <3>2, CounterStays DEF CounterInv
    <3>4. \A b \in Actor : CarriedBounded(b)'
      BY <3>1, <3>2, CarriedStays DEF CounterInv
    <3>5. QED
      BY <3>3, <3>4 DEF CounterInv
  <2>3. QED
    BY <2>1, <2>2
<1>3. QED
  BY <1>1, <1>2, TypeCorrect, PTL DEF Spec

\* A spend counter never exceeds the spend recorded for the tag plus what was
\* added to it, however requests, recomputes, expiries and crashes interleave.
THEOREM CounterIsBounded == Spec => []CounterBounded
<1>1. CounterInv => CounterBounded
  BY DEF CounterInv
<1>2. QED
  BY <1>1, CounterInvariant, PTL

\* check_budget never answers exhausted unless that much was recorded or added,
\* and never for a budget of zero.
THEOREM ExhaustedIsBounded == Spec => []ExhaustedBounded
<1>1. CounterInv => ExhaustedBounded
  BY DEF CounterInv, CarriedBounded, ExhaustedBounded, Actor, Recorded
<1>2. QED
  BY <1>1, CounterInvariant, PTL

-----------------------------------------------------------------------------
(***************************************************************************)
(* No counter lives for ever                                               *)
(***************************************************************************)

\* An actor that is not about to send EXPIRE moves, and no key gets a value.
LEMMA MortalStays ==
  ASSUME TypeOK, NoImmortalCounter, NEW a \in Actor, pc[a] # "expire",
         \A b \in Actor \ {a} : pc'[b] = pc[b] /\ ctx'[b] = ctx[b],
         \A g \in Tag : counter'[g] = Absent \/ (counter'[g] = counter[g] /\ expiry'[g] = expiry[g])
  PROVE  NoImmortalCounter'
<1> SUFFICES ASSUME NEW g \in Tag, counter'[g] # Absent, expiry'[g] = NoExpiry
             PROVE  \E h \in Handler : pc'[h] = "expire" /\ ctx'[h].tag = g
  BY DEF NoImmortalCounter, Present
<1>1. PICK h \in Handler : pc[h] = "expire" /\ ctx[h].tag = g
  BY DEF NoImmortalCounter, Present
<1>2. h \in Actor \ {a}
  BY <1>1 DEF Actor
<1>3. QED
  BY <1>1, <1>2

\* The same where the actor sets one key, with an expiry.
LEMMA MortalSet ==
  ASSUME TypeOK, NoImmortalCounter, NEW a \in Actor, pc[a] # "expire",
         \A b \in Actor \ {a} : pc'[b] = pc[b] /\ ctx'[b] = ctx[b],
         NEW g \in Tag, NEW value, SetKey(g, value)
  PROVE  NoImmortalCounter'
<1> SUFFICES ASSUME NEW x \in Tag, counter'[x] # Absent, expiry'[x] = NoExpiry
             PROVE  \E h \in Handler : pc'[h] = "expire" /\ ctx'[h].tag = x
  BY DEF NoImmortalCounter, Present
<1>1. x # g
  <2>1. expiry'[g] = now + Ttl
    BY DEF SetKey, TypeOK
  <2>2. now \in Nat
    BY DEF TypeOK
  <2>3. QED
    BY <2>1, <2>2, ClockAssumption DEF NoExpiry
<1>2. counter'[x] = counter[x] /\ expiry'[x] = expiry[x]
  BY <1>1 DEF SetKey, TypeOK
<1>3. PICK h \in Handler : pc[h] = "expire" /\ ctx[h].tag = x
  BY <1>2 DEF NoImmortalCounter, Present
<1>4. h \in Actor \ {a}
  BY <1>3 DEF Actor
<1>5. QED
  BY <1>3, <1>4

\* While Redis answers and no process dies, every step keeps it.
LEMMA MortalStep ==
  ASSUME ~RedisMayFail, ~MayCrash, TypeOK, NoImmortalCounter, Next
  PROVE  NoImmortalCounter'
<1>a. /\ pc \in [Actor -> HandlerStep \cup RunnerStep]
      /\ ctx \in [Actor -> Ctx]
      /\ counter \in [Tag -> Nat \cup {Absent}]
      /\ \A a \in Actor : Relies(pc[a], ctx[a])
  BY DEF TypeOK
<1>b. Handler \subseteq Actor /\ Runner \subseteq Actor
  BY DEF Actor
<1>1. ASSUME NEW h \in Handler, Bump(h) PROVE NoImmortalCounter'
  <2>1. PICK g \in Tag :
          /\ counter' = [counter EXCEPT ![g] = (IF Present(g) THEN @ ELSE 0) + pend[h][g]]
          /\ ctx' = [ctx EXCEPT ![h].tag = g]
    BY <1>1 DEF Bump
  <2>2. /\ pc[h] = "bump"
        /\ pc' = [pc EXCEPT ![h] = "expire"]
        /\ expiry' = expiry
    BY <1>1 DEF Bump
  <2> SUFFICES ASSUME NEW x \in Tag, counter'[x] # Absent, expiry'[x] = NoExpiry
               PROVE  \E k \in Handler : pc'[k] = "expire" /\ ctx'[k].tag = x
    BY DEF NoImmortalCounter, Present
  <2>3. CASE x = g
    <3>1. pc'[h] = "expire" /\ ctx'[h].tag = g
      BY <1>a, <1>b, <2>1, <2>2 DEF Ctx
    <3>2. QED
      BY <2>3, <3>1
  <2>4. CASE x # g
    <3>1. counter'[x] = counter[x] /\ expiry'[x] = expiry[x]
      BY <1>a, <2>1, <2>2, <2>4
    <3>2. PICK k \in Handler : pc[k] = "expire" /\ ctx[k].tag = x
      BY <3>1 DEF NoImmortalCounter, Present
    <3>3. k # h
      BY <2>2, <3>2
    <3>4. pc'[k] = pc[k] /\ ctx'[k] = ctx[k]
      BY <1>a, <1>b, <2>1, <2>2, <3>3
    <3>5. QED
      BY <3>2, <3>4
  <2>5. QED
    BY <2>3, <2>4
<1>2. ASSUME NEW h \in Handler, Expire(h) PROVE NoImmortalCounter'
  <2> DEFINE g == ctx[h].tag
  <2>1. /\ expiry' = IF Present(g) THEN [expiry EXCEPT ![g] = now + Ttl] ELSE expiry
        /\ counter' = counter
        /\ \A k \in Handler \ {h} : pc'[k] = pc[k] /\ ctx'[k] = ctx[k]
    BY <1>2, <1>a, <1>b DEF Expire
  <2> SUFFICES ASSUME NEW x \in Tag, counter'[x] # Absent, expiry'[x] = NoExpiry
               PROVE  \E k \in Handler : pc'[k] = "expire" /\ ctx'[k].tag = x
    BY DEF NoImmortalCounter, Present
  <2>2. now + Ttl # NoExpiry
    BY ClockAssumption DEF NoExpiry, TypeOK
  <2>3. x # g
    BY <2>1, <2>2 DEF Present, TypeOK
  <2>4. counter[x] # Absent /\ expiry[x] = NoExpiry
    BY <2>1, <2>3 DEF TypeOK
  <2>5. PICK k \in Handler : pc[k] = "expire" /\ ctx[k].tag = x
    BY <2>4 DEF NoImmortalCounter, Present
  <2>6. QED
    BY <2>1, <2>3, <2>5
<1>3. ASSUME NEW h \in Handler,
             \/ Ingest(h) \/ BeginQuery(h) \/ LoadBudget(h) \/ GetCounter(h) \/ SumSpend(h)
             \/ Respond(h) \/ DeleteBudget(h) \/ DropKey(h)
      PROVE  NoImmortalCounter'
  <2>1. pc[h] # "expire"
    BY <1>3 DEF Ingest, BeginQuery, LoadBudget, GetCounter, SumSpend, Respond, DeleteBudget, DropKey
  <2>2. \A b \in Actor \ {h} : pc'[b] = pc[b] /\ ctx'[b] = ctx[b]
    BY <1>3, <1>a, <1>b
       DEF Ingest, BeginQuery, LoadBudget, GetCounter, SumSpend, Respond, DeleteBudget, DropKey
  <2>3. \A g \in Tag : counter'[g] = Absent \/ (counter'[g] = counter[g] /\ expiry'[g] = expiry[g])
    <3>1. CASE UNCHANGED redis
      BY <3>1 DEF redis
    <3>2. CASE DropKey(h)
      BY <1>a, <3>2 DEF DropKey, TypeOK, redis
    <3>3. QED
      BY <1>3, <3>1, <3>2 DEF Ingest, BeginQuery, LoadBudget, GetCounter, SumSpend, Respond,
                              DeleteBudget
  <2>4. QED
    BY <1>b, <2>1, <2>2, <2>3, MortalStays
<1>4. ASSUME NEW h \in Handler, CacheSpend(h) PROVE NoImmortalCounter'
  <2>1. pc[h] = "cache" /\ SetKey(ctx[h].tag, ctx[h].spent)
    BY <1>4 DEF CacheSpend
  <2>2. ctx[h].tag \in Tag
    BY <1>a, <1>b, <2>1 DEF Relies
  <2>3. \A b \in Actor \ {h} : pc'[b] = pc[b] /\ ctx'[b] = ctx[b]
    BY <1>4, <1>a, <1>b DEF CacheSpend
  <2>4. QED
    BY <1>b, <2>1, <2>2, <2>3, MortalSet
<1>5. CASE UpsertBudget
  BY <1>5 DEF UpsertBudget, redis, locals, NoImmortalCounter, Present
<1>6. ASSUME NEW r \in Runner, BeginRecompute(r) \/ RecomputeSum(r) PROVE NoImmortalCounter'
  <2>1. pc[r] # "expire" /\ UNCHANGED redis
    BY <1>6 DEF BeginRecompute, RecomputeSum
  <2>2. \A b \in Actor \ {r} : pc'[b] = pc[b] /\ ctx'[b] = ctx[b]
    BY <1>6, <1>a, <1>b DEF BeginRecompute, RecomputeSum
  <2>3. QED
    BY <1>b, <2>1, <2>2, MortalStays DEF redis
<1>7. ASSUME NEW r \in Runner, RecomputeSet(r) PROVE NoImmortalCounter'
  <2>1. pc[r] = "rset" /\ SetKey(ctx[r].tag, ctx[r].spent)
    BY <1>7 DEF RecomputeSet
  <2>2. ctx[r].tag \in Tag
    BY <1>a, <1>b, <2>1 DEF Relies
  <2>3. \A b \in Actor \ {r} : pc'[b] = pc[b] /\ ctx'[b] = ctx[b]
    BY <1>7, <1>a, <1>b DEF RecomputeSet
  <2>4. QED
    BY <1>b, <2>1, <2>2, <2>3, MortalSet
<1>8. CASE Tick
  <2>1. UNCHANGED <<pc, ctx>>
    BY <1>8 DEF Tick, locals
  <2>2. \A g \in Tag : counter'[g] = Absent \/ (counter'[g] = counter[g] /\ expiry'[g] = expiry[g])
    BY <1>8 DEF Tick
  <2>3. QED
    BY <2>1, <2>2 DEF NoImmortalCounter, Present
<1>9. QED
  BY <1>1, <1>2, <1>3, <1>4, <1>5, <1>6, <1>7, <1>8
     DEF Next, IngestStep, QueryStep, AdminStep, RecomputeStep, CounterFails, CheckFails,
         RecomputeFails, Crash

\* While Redis answers and no process dies, a counter without a time to live is
\* always one whose EXPIRE is still to be sent.
THEOREM CountersAreMortal ==
  ASSUME ~RedisMayFail, ~MayCrash
  PROVE  Spec => []NoImmortalCounter
<1>1. Init => NoImmortalCounter
  BY DEF Init, NoImmortalCounter, Present
<1>2. TypeOK /\ NoImmortalCounter /\ [Next]_vars => NoImmortalCounter'
  <2> SUFFICES ASSUME TypeOK, NoImmortalCounter, [Next]_vars PROVE NoImmortalCounter'
    OBVIOUS
  <2>1. CASE Next
    BY <2>1, MortalStep
  <2>2. CASE UNCHANGED vars
    BY <2>2 DEF vars, redis, locals, NoImmortalCounter, Present
  <2>3. QED
    BY <2>1, <2>2
<1>3. QED
  BY <1>1, <1>2, TypeCorrect, PTL DEF Spec

=============================================================================
