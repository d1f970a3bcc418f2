-------------------------- MODULE SemanticCacheProofs --------------------------
(***************************************************************************)
(* Theorems about SemanticCache, for every set of tenants, clients,        *)
(* prompts and texts, every similarity and every threshold.                *)
(***************************************************************************)
EXTENDS SemanticCache, TLAPS

\* The key of a request is a key of the table.
LEMMA KeyType ==
  ASSUME NEW t \in Tenant, NEW p \in Prompt
  PROVE  /\ Key(t, p) \in Keys
         /\ Key(t, p)[1] = t
         /\ Key(t, p)[2] = HashMessages(p)
BY PromptAssumption DEF Key, Keys, HashMessages

-----------------------------------------------------------------------------
(***************************************************************************)
(* Types                                                                   *)
(***************************************************************************)

\* An exact match is held while its hit is counted.
MatchHeld == \A c \in Client : pc[c] = "touch" => answer[c] # None

TypeInv == TypeOK /\ MatchHeld

\* What was found is an answer.
LEMMA FoundType ==
  ASSUME TypeOK, NEW c \in Client, NEW k \in Keys, entries[k] # None
  PROVE  Found(c, k) \in Answer /\ Found(c, k) # None
<1>1. entries[k] \in Entry /\ k[1] \in Tenant
  BY DEF TypeOK, Keys
<1>2. Found(c, k) \in Answer
  BY <1>1 DEF Found, Answer, Entry, TypeOK
<1>3. QED
  BY <1>2, NoneAssumption

\* Counting a hit keeps the type of the table.
LEMMA CountHitType ==
  ASSUME TypeOK, NEW k \in Keys, CountHit(k)
  PROVE  entries' \in [Keys -> Entry \cup {None}]
<1>1. CASE entries[k] = None
  BY <1>1 DEF CountHit, TypeOK
<1>2. CASE entries[k] # None
  <2>1. [entries[k] EXCEPT !.hits = @ + 1] \in Entry
    BY <1>2 DEF TypeOK, Entry
  <2>2. QED
    BY <1>2, <2>1 DEF CountHit, TypeOK
<1>3. QED
  BY <1>1, <1>2

\* A conflict changes the two counters only.
LEMMA ConflictType ==
  ASSUME NEW e \in Entry
  PROVE  /\ OnConflict(e) \in Entry
         /\ OnConflict(e).by = e.by
         /\ OnConflict(e).created = e.created
         /\ OnConflict(e).expires = e.expires
<1>1. e = [by |-> e.by, tag |-> e.tag, created |-> e.created, expires |-> e.expires,
           hits |-> e.hits, saved |-> e.saved]
  BY DEF Entry
<1> DEFINE f == [e EXCEPT !.hits = @ + 1]
<1>2. f = [by |-> e.by, tag |-> e.tag, created |-> e.created, expires |-> e.expires,
           hits |-> e.hits + 1, saved |-> e.saved]
  BY <1>1 DEF Entry
<1>3. OnConflict(e) = [f EXCEPT !.saved = e.saved + 1]
  BY DEF OnConflict
<1> HIDE DEF f
<1>4. OnConflict(e) = [by |-> e.by, tag |-> e.tag, created |-> e.created,
                       expires |-> e.expires, hits |-> e.hits + 1, saved |-> e.saved + 1]
  BY <1>2, <1>3 DEF Entry
<1>5. QED
  BY <1>4 DEF Entry

\* A store keeps the type of the table.
LEMMA StoreType ==
  ASSUME TypeOK, NEW c \in Client, Store(c)
  PROVE  entries' \in [Keys -> Entry \cup {None}]
<1> DEFINE k == Key(ctx[c].tenant, ctx[c].prompt)
<1>1. ctx[c] \in Request
  BY DEF TypeOK, Store
<1>2. k \in Keys
  BY <1>1, KeyType DEF Request
<1>3. CASE entries[k] = None
  <2>1. [by |-> ctx[c].prompt, tag |-> ctx[c].tag, created |-> now, expires |-> now + Ttl,
         hits |-> 0, saved |-> 0] \in Entry
    BY <1>1, SweepAssumption DEF Entry, Request, TypeOK
  <2>2. QED
    BY <1>2, <1>3, <2>1 DEF Store, Put, TypeOK
<1>4. CASE entries[k] # None
  <2> DEFINE e == OnConflict(entries[k])
  <2>1. e \in Entry
    BY <1>2, <1>4, ConflictType DEF TypeOK
  <2>2. entries' = [entries EXCEPT ![k] = e]
    BY <1>4 DEF Store, Put
  <2> HIDE DEF e, k
  <2>3. QED
    BY <1>2, <2>1, <2>2 DEF TypeOK
<1>5. QED
  BY <1>3, <1>4

\* A step of a client keeps the types.
LEMMA ClientTypes ==
  ASSUME TypeInv, NEW c \in Client, ClientStep(c)
  PROVE  TypeInv'
<1> USE DEF TypeInv, MatchHeld, TypeOK, Served, Steps, Put
<1>1. CASE Ask(c)
  <2>1. PICK r \in Request : ctx' = Put(ctx, c, r)
    BY <1>1 DEF Ask
  <2>2. r # None
    BY NoneAssumption
  <2>3. QED
    BY <1>1, <2>1, <2>2 DEF Ask
<1>2. CASE Exact(c)
  <2> DEFINE k == Key(ctx[c].tenant, ctx[c].prompt)
  <2>1. k \in Keys
    BY <1>2, KeyType DEF Exact, Request
  <2>2. CASE entries[k] # None
    BY <1>2, <2>1, <2>2, FoundType DEF Exact
  <2>3. CASE entries[k] = None
    BY <1>2, <2>3 DEF Exact
  <2>4. QED
    BY <2>2, <2>3
<1>3. CASE Touch(c)
  <2>1. Key(ctx[c].tenant, ctx[c].prompt) \in Keys
    BY <1>3, KeyType DEF Touch, Request
  <2>2. entries' \in [Keys -> Entry \cup {None}]
    BY <1>3, <2>1, CountHitType DEF Touch
  <2>3. QED
    BY <1>3, <2>2 DEF Touch
<1>4. CASE Near(c)
  <2>1. CASE pc' = Put(pc, c, "call") /\ UNCHANGED answer
    BY <1>4, <2>1 DEF Near
  <2>2. CASE \E k \in RowsOf(ctx[c].tenant) :
               answer' = Put(answer, c, Found(c, k)) /\ pc' = Put(pc, c, "served")
    <3>1. PICK k \in RowsOf(ctx[c].tenant) :
            answer' = Put(answer, c, Found(c, k)) /\ pc' = Put(pc, c, "served")
      BY <2>2
    <3>2. k \in Keys /\ entries[k] # None
      BY DEF RowsOf
    <3>3. QED
      BY <1>4, <3>1, <3>2, FoundType DEF Near
  <2>3. QED
    BY <1>4, <2>1, <2>2 DEF Near
<1>5. CASE LookupFails(c)
  <2>1. entries' \in [Keys -> Entry \cup {None}]
    <3>1. CASE UNCHANGED entries
      BY <3>1
    <3>2. CASE pc[c] = "touch" /\ CountHit(Key(ctx[c].tenant, ctx[c].prompt))
      <4>1. Key(ctx[c].tenant, ctx[c].prompt) \in Keys
        BY <3>2, KeyType DEF Request
      <4>2. QED
        BY <3>2, <4>1, CountHitType
    <3>3. QED
      BY <1>5, <3>1, <3>2 DEF LookupFails
  <2>2. QED
    BY <1>5, <2>1 DEF LookupFails
<1>6. CASE Use(c)
  BY <1>6 DEF Use
<1>7. CASE CallProvider(c)
  BY <1>7 DEF CallProvider
<1>8. CASE Store(c)
  <2>1. entries' \in [Keys -> Entry \cup {None}]
    BY <1>8, StoreType
  <2>2. QED
    BY <1>8, <2>1 DEF Store
<1>9. CASE StoreFails(c)
  BY <1>9 DEF StoreFails
<1>10. QED
  BY <1>1, <1>2, <1>3, <1>4, <1>5, <1>6, <1>7, <1>8, <1>9 DEF ClientStep

\* Deleting entries keeps the types.
LEMMA DropType ==
  ASSUME TypeInv, NEW K, Drop(K), UNCHANGED <<now, swept, pc, ctx, answer, calls>>
  PROVE  TypeInv'
BY DEF TypeInv, MatchHeld, TypeOK, Served, Drop

\* Every step keeps the types.
LEMMA TypeStep == TypeInv /\ [Next]_vars => TypeInv'
<1> SUFFICES ASSUME TypeInv, [Next]_vars PROVE TypeInv'
  OBVIOUS
<1>1. CASE \E c \in Client : ClientStep(c)
  BY <1>1, ClientTypes
<1>2. CASE Invalidate
  BY <1>2, DropType DEF Invalidate
<1>3. CASE Sweep
  BY <1>3 DEF Sweep, TypeInv, MatchHeld, TypeOK, Served
<1>4. CASE Tick
  BY <1>4 DEF Tick, TypeInv, MatchHeld, TypeOK, Served
<1>5. CASE UNCHANGED vars
  BY <1>5 DEF vars, TypeInv, MatchHeld, TypeOK, Served
<1>6. QED
  BY <1>1, <1>2, <1>3, <1>4, <1>5 DEF Next

\* Every request under way has its arguments, and a hit always has an answer:
\* also when the increment of the hit count fails or meets another row.
THEOREM TypeCorrect == Spec => []TypeOK
<1>1. Init => TypeInv
  BY DEF Init, TypeInv, MatchHeld, TypeOK, Served, Steps
<1>2. TypeInv => TypeOK
  BY DEF TypeInv
<1>3. QED
  BY <1>1, <1>2, TypeStep, PTL DEF Spec

-----------------------------------------------------------------------------
(***************************************************************************)
(* What a step may do to a row and to an answer that is held.              *)
(***************************************************************************)

\* Counting a hit keeps whom a row answers.
LEMMA CountHitKeeps ==
  ASSUME TypeOK, NEW k \in Keys, CountHit(k), NEW j \in Keys, entries'[j] # None
  PROVE  /\ entries[j] # None
         /\ entries'[j].by = entries[j].by
         /\ entries'[j].created = entries[j].created
         /\ entries'[j].expires = entries[j].expires
<1>1. CASE entries[k] = None
  BY <1>1 DEF CountHit
<1>2. CASE entries[k] # None
  <2> DEFINE e == [entries[k] EXCEPT !.hits = @ + 1]
  <2>1. entries[k] \in Entry
    BY <1>2 DEF TypeOK
  <2>2. e.by = entries[k].by /\ e.created = entries[k].created /\ e.expires = entries[k].expires
    BY <2>1 DEF Entry
  <2>3. entries' = [entries EXCEPT ![k] = e]
    BY <1>2 DEF CountHit
  <2> HIDE DEF e
  <2>4. QED
    BY <1>2, <2>2, <2>3 DEF TypeOK
<1>3. QED
  BY <1>1, <1>2

\* A store files the prompt under its own hash or keeps the row that is there.
LEMMA StoreKeeps ==
  ASSUME TypeOK, NEW c \in Client, Store(c), NEW j \in Keys, entries'[j] # None
  PROVE  \/ /\ entries[j] # None
            /\ entries'[j].by = entries[j].by
            /\ entries'[j].created = entries[j].created
            /\ entries'[j].expires = entries[j].expires
         \/ /\ HashMessages(entries'[j].by) = j[2]
            /\ entries'[j].created = now
            /\ entries'[j].expires = now + Ttl
<1> DEFINE k == Key(ctx[c].tenant, ctx[c].prompt)
<1>1. ctx[c] \in Request
  BY DEF TypeOK, Store
<1>2. k \in Keys /\ k[2] = HashMessages(ctx[c].prompt)
  BY <1>1, KeyType DEF Request
<1>3. CASE entries[k] = None
  <2> DEFINE e == [by |-> ctx[c].prompt, tag |-> ctx[c].tag, created |-> now,
                   expires |-> now + Ttl, hits |-> 0, saved |-> 0]
  <2>1. entries' = [entries EXCEPT ![k] = e]
    BY <1>3 DEF Store, Put
  <2>2. e.by = ctx[c].prompt /\ e.created = now /\ e.expires = now + Ttl
    OBVIOUS
  <2> HIDE DEF e, k
  <2>3. QED
    BY <1>2, <2>1, <2>2 DEF TypeOK
<1>4. CASE entries[k] # None
  <2> DEFINE e == OnConflict(entries[k])
  <2>1. e.by = entries[k].by /\ e.created = entries[k].created /\ e.expires = entries[k].expires
    BY <1>2, <1>4, ConflictType DEF TypeOK
  <2>2. entries' = [entries EXCEPT ![k] = e]
    BY <1>4 DEF Store, Put
  <2> HIDE DEF e, k
  <2>3. QED
    BY <1>2, <1>4, <2>1, <2>2 DEF TypeOK
<1>5. QED
  BY <1>3, <1>4

\* A row after a step is one from before, but for its counters, or was stored
\* just now under its own hash.
RowKept(j) ==
  /\ entries[j] # None
  /\ entries'[j].by = entries[j].by
  /\ entries'[j].created = entries[j].created
  /\ entries'[j].expires = entries[j].expires
RowStored(j) ==
  /\ HashMessages(entries'[j].by) = j[2]
  /\ entries'[j].created = now
  /\ entries'[j].expires = now + Ttl
  /\ UNCHANGED <<now, swept>>

LEMMA RowStep ==
  ASSUME TypeInv, [Next]_vars, NEW j \in Keys, entries'[j] # None
  PROVE  RowKept(j) \/ RowStored(j)
<1>1. CASE UNCHANGED entries
  BY <1>1 DEF RowKept
<1>2. ASSUME NEW c \in Client, ClientStep(c) PROVE RowKept(j) \/ RowStored(j)
  <2>1. CASE Store(c)
    <3>1. UNCHANGED <<now, swept>>
      BY <2>1 DEF Store
    <3>2. QED
      BY <2>1, <3>1, StoreKeeps DEF RowKept, RowStored, TypeInv
  <2>2. CASE pc[c] = "touch" /\ CountHit(Key(ctx[c].tenant, ctx[c].prompt))
    <3>1. Key(ctx[c].tenant, ctx[c].prompt) \in Keys
      BY <2>2, KeyType DEF Request, TypeInv, TypeOK
    <3>2. QED
      BY <2>2, <3>1, CountHitKeeps DEF RowKept, TypeInv
  <2>3. QED
    BY <1>2, <1>1, <2>1, <2>2
       DEF ClientStep, Ask, Exact, Touch, Near, LookupFails, Use, CallProvider, StoreFails
<1>3. CASE Invalidate
  BY <1>3 DEF Invalidate, Drop, RowKept
<1>4. CASE Sweep
  BY <1>4 DEF Sweep, RowKept
<1>5. QED
  BY <1>1, <1>2, <1>3, <1>4 DEF Next, Tick, vars

\* What a client holds after a step it held before, or has found just now in a
\* row of its tenant.
Holding(c) == pc[c] \in {"touch", "served"}
AnswerKept(c) == Holding(c) /\ answer'[c] = answer[c]
AnswerFound(c) ==
  \E k \in Keys :
    /\ entries[k] # None /\ k[1] = ctx[c].tenant
    /\ answer'[c] = Found(c, k)
    /\ k[2] = HashMessages(ctx[c].prompt) \/ NearEnough(ctx[c].prompt, entries[k].by)

LEMMA AnswerStep ==
  ASSUME TypeInv, [Next]_vars, NEW c \in Client, Holding(c)'
  PROVE  /\ ctx'[c] = ctx[c]
         /\ AnswerKept(c) \/ AnswerFound(c)
<1> USE DEF TypeInv, TypeOK, Put, Holding, AnswerKept
<1>1. CASE UNCHANGED <<pc, ctx, answer>>
  BY <1>1
<1>2. ASSUME NEW d \in Client, ClientStep(d), d # c
      PROVE  UNCHANGED <<pc[c], ctx[c], answer[c]>>
  BY <1>2 DEF ClientStep, Ask, Exact, Touch, Near, LookupFails, Use, CallProvider, Store,
    StoreFails
<1>3. CASE Exact(c)
  <2> DEFINE k == Key(ctx[c].tenant, ctx[c].prompt)
  <2>1. k \in Keys /\ k[1] = ctx[c].tenant /\ k[2] = HashMessages(ctx[c].prompt)
    BY <1>3, KeyType DEF Exact, Request
  <2>2. entries[k] # None /\ answer'[c] = Found(c, k)
    BY <1>3 DEF Exact
  <2>3. QED
    BY <1>3, <2>1, <2>2 DEF Exact, AnswerFound
<1>4. CASE Touch(c)
  BY <1>4 DEF Touch
<1>5. CASE Near(c)
  <2>1. PICK k \in RowsOf(ctx[c].tenant) :
          NearEnough(ctx[c].prompt, entries[k].by) /\ answer' = Put(answer, c, Found(c, k))
    BY <1>5 DEF Near
  <2>2. QED
    BY <1>5, <2>1 DEF Near, RowsOf, AnswerFound
<1>6. ASSUME ClientStep(c) PROVE Exact(c) \/ Touch(c) \/ Near(c)
  BY <1>6 DEF ClientStep, Ask, LookupFails, Use, CallProvider, Store, StoreFails
<1>7. QED
  BY <1>1, <1>2, <1>3, <1>4, <1>5, <1>6 DEF Next, Invalidate, Sweep, Tick, vars

-----------------------------------------------------------------------------
(***************************************************************************)
(* Answers belong to the tenant and fit the prompt.  While a lookup is     *)
(* under way its row may change; what it holds may not stop fitting.       *)
(***************************************************************************)

\* A row answers a prompt with the hash it is filed under, also after a conflict.
RowFits(k) == HashMessages(entries[k].by) = k[2]
RowsFit == \A k \in Keys : entries[k] # None => RowFits(k)

AnswerOK(c) ==
  /\ answer[c].tenant = ctx[c].tenant
  /\ \/ HashMessages(answer[c].by) = HashMessages(ctx[c].prompt)
     \/ Similarity(ctx[c].prompt, answer[c].by) >= Threshold
HeldOK == \A c \in Client : Holding(c) => AnswerOK(c)

FitInv == TypeInv /\ RowsFit /\ HeldOK

LEMMA FitStep == FitInv /\ [Next]_vars => FitInv'
<1> SUFFICES ASSUME FitInv, [Next]_vars PROVE FitInv'
  OBVIOUS
<1>1. TypeInv'
  BY TypeStep DEF FitInv
<1>2. RowsFit'
  BY RowStep DEF FitInv, RowsFit, RowFits, RowKept, RowStored, HashMessages
<1>3. ASSUME NEW c \in Client, Holding(c)' PROVE AnswerOK(c)'
  <2>1. ctx'[c] = ctx[c]
    BY <1>3, AnswerStep DEF FitInv
  <2>2. CASE AnswerKept(c)
    BY <2>1, <2>2 DEF FitInv, HeldOK, AnswerKept, AnswerOK, HashMessages, Similarity,
      EmbeddedText
  <2>3. CASE AnswerFound(c)
    <3>1. PICK k \in Keys :
            /\ entries[k] # None /\ k[1] = ctx[c].tenant
            /\ answer'[c] = Found(c, k)
            /\ k[2] = HashMessages(ctx[c].prompt) \/ NearEnough(ctx[c].prompt, entries[k].by)
      BY <2>3 DEF AnswerFound
    <3>2. HashMessages(entries[k].by) = k[2]
      BY <3>1 DEF FitInv, RowsFit, RowFits
    <3>3. answer'[c].tenant = k[1] /\ answer'[c].by = entries[k].by
      BY <3>1 DEF Found
    <3>4. QED
      BY <2>1, <3>1, <3>2, <3>3 DEF AnswerOK, NearEnough, HashMessages, Similarity,
        EmbeddedText
  <2>4. QED
    BY <1>3, <2>2, <2>3, AnswerStep DEF FitInv
<1>4. QED
  BY <1>1, <1>2, <1>3 DEF FitInv, HeldOK

LEMMA FitInit == Init => FitInv
BY DEF Init, FitInv, TypeInv, MatchHeld, TypeOK, Served, Steps, RowsFit, HeldOK, Holding

\* No call of a tenant is answered by what another tenant's call produced,
\* whatever is deleted or stored between the statements of a lookup.
THEOREM TenantsAreIsolated == Spec => []TenantIsolated
<1>1. FitInv => TenantIsolated
  BY DEF FitInv, HeldOK, Holding, AnswerOK, TenantIsolated, Served
<1>2. QED
  BY <1>1, FitInit, FitStep, PTL DEF Spec

\* An answer was produced for a prompt with the same hash or for one whose
\* embedding reaches the threshold.
THEOREM AnswersFit == Spec => []AnswerFits
<1>1. FitInv => AnswerFits
  BY DEF FitInv, HeldOK, Holding, AnswerOK, AnswerFits, Served
<1>2. QED
  BY <1>1, FitInit, FitStep, PTL DEF Spec

-----------------------------------------------------------------------------
(***************************************************************************)
(* Freshness, where the expiry job runs on time.                           *)
(***************************************************************************)

\* The job ran at the last multiple of its period, or is due now.
SweptInTime ==
  /\ swept \in Nat /\ swept <= now /\ now - swept <= SweepPeriod
  /\ swept % SweepPeriod = 0

\* Rows that had expired when the job ran are gone.
RowsFresh ==
  \A k \in Keys : entries[k] # None =>
    /\ entries[k].expires = entries[k].created + Ttl
    /\ entries[k].created <= now /\ swept <= entries[k].expires

HeldFresh ==
  \A c \in Client : Holding(c) => answer[c].read - answer[c].created <= Ttl + SweepPeriod

FreshInv == TypeInv /\ SweptInTime /\ RowsFresh /\ HeldFresh

LEMMA NextMultiple ==
  ASSUME NEW n \in Nat, NEW p \in Nat \ {0}, n % p = 0
  PROVE  (n + p) % p = 0
<1> DEFINE q == n \div p
<1>1. q \in Nat /\ n = p * q
  OBVIOUS
<1> HIDE DEF q
<1>2. n + p = p * (q + 1)
  BY <1>1
<1>3. (p * (q + 1)) % p = 0
  BY <1>1
<1>4. QED
  BY <1>2, <1>3

\* The clock does not pass a run that is due.
LEMMA SweptStep ==
  ASSUME SweepsOnTime, FreshInv, [Next]_vars
  PROVE  SweptInTime'
<1> USE SweepAssumption DEF FreshInv, TypeInv, TypeOK, SweptInTime
<1>1. CASE Sweep
  BY <1>1 DEF Sweep
<1>2. CASE Tick
  <2>1. now' = now + 1 /\ swept' = swept
    BY <1>2 DEF Tick
  <2>2. now - swept # SweepPeriod
    <3> SUFFICES ASSUME now = swept + SweepPeriod PROVE FALSE
      OBVIOUS
    <3>1. now % SweepPeriod = 0
      BY NextMultiple
    <3>2. QED
      BY <1>2, <3>1 DEF Tick
  <2>3. QED
    BY <2>1, <2>2
<1>3. CASE UNCHANGED <<now, swept>>
  BY <1>3
<1>4. QED
  BY <1>1, <1>2, <1>3 DEF Next, ClientStep, Ask, Exact, Touch, Near, LookupFails, Use,
    CallProvider, Store, StoreFails, Invalidate, vars

LEMMA FreshStep ==
  ASSUME SweepsOnTime, FreshInv, [Next]_vars
  PROVE  FreshInv'
<1> USE SweepAssumption
<1>1. TypeInv' /\ SweptInTime'
  BY TypeStep, SweptStep DEF FreshInv
<1>2. ASSUME NEW k \in Keys, entries'[k] # None
      PROVE  /\ entries'[k].expires = entries'[k].created + Ttl
             /\ entries'[k].created <= now' /\ swept' <= entries'[k].expires
  <2>1. CASE RowStored(k)
    BY <2>1 DEF RowStored, FreshInv, SweptInTime, TypeInv, TypeOK
  <2>2. CASE RowKept(k)
    <3>1. /\ entries[k].created \in Nat /\ entries[k].expires \in Nat
          /\ now \in Nat /\ swept \in Nat
      BY <2>2 DEF RowKept, FreshInv, TypeInv, TypeOK, Entry
    <3>2. now' = now \/ now' = now + 1
      BY DEF Next, ClientStep, Ask, Exact, Touch, Near, LookupFails, Use, CallProvider, Store,
        StoreFails, Invalidate, Sweep, Tick, vars
    <3>3. swept' = swept \/ entries[k].expires >= swept'
      <4>1. CASE Sweep
        <5>1. ~Expired(k) /\ swept' = now
          BY <1>2, <4>1 DEF Sweep
        <5>2. QED
          BY <2>2, <3>1, <5>1 DEF Expired, RowKept
      <4>2. QED
        BY <4>1 DEF Next, ClientStep, Ask, Exact, Touch, Near, LookupFails, Use, CallProvider,
          Store, StoreFails, Invalidate, Tick, vars
    <3>4. QED
      BY <2>2, <3>1, <3>2, <3>3 DEF RowKept, FreshInv, RowsFresh
  <2>3. QED
    BY <1>2, <2>1, <2>2, RowStep DEF FreshInv
<1>3. ASSUME NEW c \in Client, Holding(c)'
      PROVE  answer'[c].read - answer'[c].created <= Ttl + SweepPeriod
  <2>1. CASE AnswerKept(c)
    BY <2>1 DEF AnswerKept, FreshInv, HeldFresh
  <2>2. CASE AnswerFound(c)
    <3>1. PICK k \in Keys : entries[k] # None /\ answer'[c] = Found(c, k)
      BY <2>2 DEF AnswerFound
    <3>2. answer'[c].read = now /\ answer'[c].created = entries[k].created
      BY <3>1 DEF Found
    <3>3. entries[k].created \in Nat /\ now \in Nat
      BY <3>1 DEF FreshInv, TypeInv, TypeOK, Entry
    <3>4. swept <= entries[k].created + Ttl
      BY <3>1 DEF FreshInv, RowsFresh
    <3>5. QED
      BY <3>2, <3>3, <3>4 DEF FreshInv, SweptInTime
  <2>3. QED
    BY <1>3, <2>1, <2>2, AnswerStep DEF FreshInv
<1>4. QED
  BY <1>1, <1>2, <1>3 DEF FreshInv, RowsFresh, HeldFresh

\* Though lookup never looks at expires_at, nothing is served that is older than
\* one time to live and one period of the job.
THEOREM AnswersAreFresh == ASSUME SweepsOnTime PROVE Spec => []StalenessBounded
<1>1. Init => FreshInv
  BY SweepAssumption DEF Init, FreshInv, TypeInv, MatchHeld, TypeOK, Served, Steps,
    SweptInTime, RowsFresh, HeldFresh, Holding
<1>2. FreshInv /\ [Next]_vars => FreshInv'
  BY FreshStep
<1>3. FreshInv => StalenessBounded
  BY DEF FreshInv, HeldFresh, Holding, StalenessBounded, Served
<1>4. QED
  BY <1>1, <1>2, <1>3, PTL DEF Spec

=============================================================================
