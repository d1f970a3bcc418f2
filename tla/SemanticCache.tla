----------------------------- MODULE SemanticCache -----------------------------
(***************************************************************************)
(* The semantic cache: the SDK client that looks a prompt up before it     *)
(* calls the provider and stores the answer afterwards, the backend's      *)
(* lookup (exact hash, then nearest embedding) and store, invalidation,    *)
(* and the daily job that deletes expired entries.  Each SQL statement is  *)
(* a step: clients, invalidations and the job interleave between them.     *)
(***************************************************************************)
EXTENDS Integers

CONSTANTS
  Tenant, Client, FeatureTag,
  Prompt,        \* lists of messages
  TextOf,        \* the text of a prompt, after strip and lower
  PartsOnly,     \* prompts whose contents are lists of parts, not strings
  Text, Blank,   \* texts, among them the empty one
  Cosine,        \* similarity of the embeddings of two texts, in percent
  Threshold,     \* cache_similarity_threshold, in percent
  Ttl,           \* redis_cache_ttl_seconds, in ticks
  SweepPeriod,   \* ticks between two runs of the expiry job
  SweepsOnTime,  \* the expiry job never fails or is missed
  MayFail,       \* database and network calls may fail
  None,
  MaxTime, MaxCalls   \* bounds of the instance

ASSUME PromptAssumption ==
  /\ TextOf \in [Prompt -> Text]
  /\ Blank \in Text /\ PartsOnly \subseteq Prompt
  /\ Cosine \in [Text \X Text -> Int] /\ Threshold \in Int
ASSUME SweepAssumption ==
  /\ Ttl \in Nat /\ SweepPeriod \in Nat \ {0}
  /\ {SweepsOnTime, MayFail} \subseteq BOOLEAN
  /\ MaxTime \in Nat /\ MaxCalls \in Nat

VARIABLES
  now,
  entries,  \* cache_entries: <<tenant, prompt_hash>> -> row or None
  swept,    \* when the expiry job last ran
  pc, ctx,  \* each client's call: where it is and its request
  answer,   \* what the lookup in progress found
  calls     \* number of lookups, for the bound

vars == <<now, entries, swept, pc, ctx, answer, calls>>

Request == [tenant : Tenant, prompt : Prompt, tag : FeatureTag]

\* A row: whose prompt it answers (its embedding and response), its label, its
\* creation and expiry, and the two counters a conflict updates.
Entry == [by : Prompt, tag : FeatureTag, created : Nat, expires : Nat,
          hits : Nat, saved : Nat]
Answer == [tenant : Tenant, by : Prompt, created : Nat, read : Nat]

ASSUME NoneAssumption == None \notin Request \cup Answer

Put(f, k, v) == [f EXCEPT ![k] = v]

(***************************************************************************)
(* Keys                                                                    *)
(***************************************************************************)

\* _hash_messages: text parts count, roles and the model do not.
HashMessages(p) == TextOf[p]
Key(t, p) == <<t, HashMessages(p)>>
Keys == Tenant \X Text

\* The text given to the embedding model: a content that is not a string is
\* taken as the empty one.
EmbeddedText(p) == IF p \in PartsOnly THEN Blank ELSE TextOf[p]

Similarity(p, q) == Cosine[<<EmbeddedText(p), EmbeddedText(q)>>]

RowsOf(t) == {k \in Keys : k[1] = t /\ entries[k] # None}

\* Mutant: no comparison with the threshold.
NearEnoughAlways(p, q) == TRUE
NearEnough(p, q) == Similarity(p, q) >= Threshold

Found(c, k) ==
  [tenant |-> k[1], by |-> entries[k].by, created |-> entries[k].created, read |-> now]

(***************************************************************************)
(* lookup                                                                  *)
(***************************************************************************)

Ask(c) ==
  /\ pc[c] = "idle"
  /\ calls < MaxCalls
  /\ \E r \in Request : ctx' = Put(ctx, c, r)
  /\ pc' = Put(pc, c, "exact")
  /\ calls' = calls + 1
  /\ UNCHANGED <<now, entries, swept, answer>>

\* The exact match; expires_at is not looked at.
Exact(c) ==
  /\ pc[c] = "exact"
  /\ LET k == Key(ctx[c].tenant, ctx[c].prompt)
     IN  IF entries[k] # None
         THEN answer' = Put(answer, c, Found(c, k)) /\ pc' = Put(pc, c, "touch")
         ELSE pc' = Put(pc, c, "near") /\ UNCHANGED answer
  /\ UNCHANGED <<now, entries, swept, ctx, calls>>

\* UPDATE ... hit_count + 1, by key: nothing if the row is gone by now, another
\* row if it was stored again since.
CountHit(k) ==
  entries' = IF entries[k] # None THEN [entries EXCEPT ![k].hits = @ + 1] ELSE entries

Touch(c) ==
  /\ pc[c] = "touch"
  /\ CountHit(Key(ctx[c].tenant, ctx[c].prompt))
  /\ pc' = Put(pc, c, "served")
  /\ UNCHANGED <<now, swept, ctx, answer, calls>>

\* Mutant: the search is not scoped to the tenant.
NearAnyTenant(c) ==
  /\ pc[c] = "near"
  /\ \/ \E k \in {k \in Keys : entries[k] # None} :
          IF NearEnough(ctx[c].prompt, entries[k].by)
          THEN answer' = Put(answer, c, Found(c, k)) /\ pc' = Put(pc, c, "served")
          ELSE pc' = Put(pc, c, "call") /\ UNCHANGED answer
     \/ pc' = Put(pc, c, "call") /\ UNCHANGED answer
  /\ UNCHANGED <<now, entries, swept, ctx, calls>>

\* ORDER BY distance LIMIT 1 over an approximate index that is filtered by
\* tenant after the search: it yields some row of the tenant, or none.
Near(c) ==
  /\ pc[c] = "near"
  /\ \/ \E k \in RowsOf(ctx[c].tenant) :
          IF NearEnough(ctx[c].prompt, entries[k].by)
          THEN answer' = Put(answer, c, Found(c, k)) /\ pc' = Put(pc, c, "served")
          ELSE pc' = Put(pc, c, "call") /\ UNCHANGED answer
     \/ pc' = Put(pc, c, "call") /\ UNCHANGED answer
  /\ UNCHANGED <<now, entries, swept, ctx, calls>>

\* Fail open: any error is a miss, an exact match found before it included.
\* The increment may have been committed.
LookupFails(c) ==
  /\ MayFail
  /\ \/ pc[c] \in {"exact", "near", "touch"} /\ UNCHANGED entries
     \/ pc[c] = "touch" /\ CountHit(Key(ctx[c].tenant, ctx[c].prompt))
  /\ pc' = Put(pc, c, "call")
  /\ answer' = Put(answer, c, None)
  /\ UNCHANGED <<now, swept, ctx, calls>>

\* The application uses the answer.
Use(c) ==
  /\ pc[c] = "served"
  /\ pc' = Put(pc, c, "idle")
  /\ ctx' = Put(ctx, c, None) /\ answer' = Put(answer, c, None)
  /\ UNCHANGED <<now, entries, swept, calls>>

(***************************************************************************)
(* store                                                                   *)
(***************************************************************************)

\* The provider answers; the application may store that or not.
CallProvider(c) ==
  /\ pc[c] = "call"
  /\ \/ pc' = Put(pc, c, "store") /\ UNCHANGED ctx
     \/ pc' = Put(pc, c, "idle") /\ ctx' = Put(ctx, c, None)
  /\ UNCHANGED <<now, entries, swept, answer, calls>>

\* Mutant: a conflict prolongs the entry.
OnConflictRefresh(e) == [e EXCEPT !.hits = @ + 1, !.saved = @ + 1, !.expires = now + Ttl]

\* ON CONFLICT: the counters move, the response, its label and its expiry stay.
OnConflict(e) == [e EXCEPT !.hits = @ + 1, !.saved = @ + 1]

Store(c) ==
  /\ pc[c] = "store"
  /\ LET r == ctx[c]
         k == Key(r.tenant, r.prompt)
     IN  entries' = Put(entries, k,
           IF entries[k] # None
           THEN OnConflict(entries[k])
           ELSE [by |-> r.prompt, tag |-> r.tag, created |-> now, expires |-> now + Ttl,
                 hits |-> 0, saved |-> 0])
  /\ pc' = Put(pc, c, "idle") /\ ctx' = Put(ctx, c, None)
  /\ UNCHANGED <<now, swept, answer, calls>>

\* Logged, never raised: the client goes on without an entry.
StoreFails(c) ==
  /\ MayFail
  /\ pc[c] = "store"
  /\ pc' = Put(pc, c, "idle") /\ ctx' = Put(ctx, c, None)
  /\ UNCHANGED <<now, entries, swept, answer, calls>>

(***************************************************************************)
(* cache_invalidate, the expiry job and the clock                          *)
(***************************************************************************)

Drop(K) ==
  /\ entries' = [k \in Keys |-> IF k \in K THEN None ELSE entries[k]]
  /\ entries' # entries

\* By hash if one is given, else by tag.
Invalidate ==
  /\ \E t \in Tenant :
       \/ \E h \in Text : Drop({<<t, h>>})
       \/ \E g \in FeatureTag : Drop({k \in RowsOf(t) : entries[k].tag = g})
  /\ UNCHANGED <<now, swept, pc, ctx, answer, calls>>

Expired(k) == entries[k] # None /\ entries[k].expires < now

Sweep ==
  /\ now % SweepPeriod = 0
  /\ swept # now
  /\ swept' = now
  /\ entries' = [k \in Keys |-> IF Expired(k) THEN None ELSE entries[k]]
  /\ UNCHANGED <<now, pc, ctx, answer, calls>>

Tick ==
  /\ now < MaxTime
  /\ SweepsOnTime /\ now % SweepPeriod = 0 => swept = now
  /\ now' = now + 1
  /\ UNCHANGED <<entries, swept, pc, ctx, answer, calls>>

Init ==
  /\ now = 0 /\ swept = 0 /\ calls = 0
  /\ entries = [k \in Keys |-> None]
  /\ pc = [c \in Client |-> "idle"]
  /\ ctx = [c \in Client |-> None]
  /\ answer = [c \in Client |-> None]

ClientStep(c) ==
  \/ Ask(c) \/ Exact(c) \/ Touch(c) \/ Near(c) \/ LookupFails(c) \/ Use(c)
  \/ CallProvider(c) \/ Store(c) \/ StoreFails(c)

Next == (\E c \in Client : ClientStep(c)) \/ Invalidate \/ Sweep \/ Tick

Spec == Init /\ [][Next]_vars

-----------------------------------------------------------------------------
(***************************************************************************)
(* Properties                                                              *)
(***************************************************************************)

Steps == {"idle", "exact", "touch", "near", "served", "call", "store"}

Served(c) == pc[c] = "served"

\* Types; a request under way has its arguments, and a hit has an answer,
\* whatever failed on the way.
TypeOK ==
  /\ now \in Nat /\ swept \in Nat /\ calls \in Nat
  /\ entries \in [Keys -> Entry \cup {None}]
  /\ pc \in [Client -> Steps]
  /\ ctx \in [Client -> Request \cup {None}]
  /\ answer \in [Client -> Answer \cup {None}]
  /\ \A c \in Client : pc[c] # "idle" => ctx[c] # None
  /\ \A c \in Client : Served(c) => answer[c] # None

\* No tenant is served an answer that another tenant's call produced: the hash
\* and the index are shared, only the two filters keep tenants apart.
TenantIsolated == \A c \in Client : Served(c) => answer[c].tenant = ctx[c].tenant

\* An answer was made for a prompt with the same normalised text, or for one
\* whose embedding reaches the threshold: also when the row that matched was
\* deleted or stored again while the lookup was under way.
AnswerFits ==
  \A c \in Client : Served(c) =>
    \/ HashMessages(answer[c].by) = HashMessages(ctx[c].prompt)
    \/ Similarity(ctx[c].prompt, answer[c].by) >= Threshold

\* Lookup ignores expires_at, so freshness rests on the expiry job alone: where
\* the job runs on time, nothing is served that is older than one time to live
\* and one period of the job, however often it was asked for or stored again.
StalenessBounded ==
  \A c \in Client : Served(c) => answer[c].read - answer[c].created <= Ttl + SweepPeriod

=============================================================================
