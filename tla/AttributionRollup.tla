--------------------------- MODULE AttributionRollup ---------------------------
(***************************************************************************)
(* Cost attribution of the Traject backend: the hourly job that aggregates *)
(* inference_spans into cost_attribution, its Redis lock and watermark,    *)
(* the retention job that prunes spans, and the script that forces the     *)
(* aggregation.  One tick of the clock is one hour.                        *)
(*                                                                         *)
(* The totals of an hour are a function of the spans they count, so a row  *)
(* of cost_attribution is modelled by the set of those spans.              *)
(***************************************************************************)
EXTENDS Integers, FiniteSets

CONSTANTS
  Span,          \* spans that clients send, each once
  HourOf,        \* hour of a span's timestamp
  GroupOf,       \* its (tenant, feature_tag, provider, model)
  Runner,        \* processes with a running scheduler
  Operator,      \* people who run scripts/materialize_attribution.py
  MaxHours,      \* catch-up window of one run, max_hours
  Retention,     \* span_retention_days, in ticks
  HoursBack,     \* --hours-back of the script
  MaxBacklog,    \* longest time without a finished run
  LateSpans,     \* clients may send a span after its hour
  JobsAreQuick,  \* jobs and scripts end within the lock's time to live
  RedisMayFail, MayAbort,
  MaxTime        \* bound of the instance

Actor == Runner \cup Operator
Hour == 0 .. MaxTime
NoHour == -1

ASSUME SpanAssumption ==
  /\ HourOf \in [Span -> Nat]
  /\ \A s \in Span : HourOf[s] <= MaxTime
ASSUME ActorAssumption == Runner \cap Operator = {}
ASSUME WindowAssumption ==
  /\ MaxHours \in Nat \ {0} /\ Retention \in Nat /\ HoursBack \in Nat
  /\ MaxBacklog \in Nat \ {0} /\ MaxTime \in Nat
  /\ {LateSpans, JobsAreQuick, RedisMayFail, MayAbort} \subseteq BOOLEAN

VARIABLES
  now,        \* the current hour
  rows,       \* inference_spans
  received,   \* history: every span ever committed
  rollup,     \* cost_attribution: hour -> spans counted in its totals
  watermark,  \* Redis "traject:watermark:materialize_hourly", or NoHour
  lock,       \* Redis "traject:lock:materialize_attribution" exists
  fired,      \* the hour in which the actor was last started
  pc,
  hour,       \* the hour being materialised
  last,       \* where the loop ends: current_hour, or the script's last hour
  batch       \* result of the aggregate query

locals == <<pc, hour, last, batch>>
vars == <<now, rows, received, rollup, watermark, lock, fired, locals>>

Larger(a, b) == IF a >= b THEN a ELSE b
AllIdle == \A a \in Actor : pc[a] = "idle"

(***************************************************************************)
(* Clients and the clock                                                   *)
(***************************************************************************)

\* The API commits a span.  It takes a timestamp up to a minute in the future: at
\* the end of an hour, one of the next.
Receive(s) ==
  /\ s \notin received
  /\ HourOf[s] <= now + 1
  /\ HourOf[s] < now => LateSpans
  /\ rows' = rows \cup {s}
  /\ received' = received \cup {s}
  /\ UNCHANGED <<now, rollup, watermark, lock, fired, locals>>

\* Hours without a finished run, were the next hour to begin now.  Before the
\* first watermark a run looks back one hour only.
Backlog == IF watermark = NoHour THEN now + 1 ELSE now - watermark
BacklogLimit == IF watermark = NoHour THEN 1 ELSE MaxBacklog

\* The lock's time to live (300 s) is over before the next hour's run.
NextHour ==
  /\ now < MaxTime
  /\ Backlog <= BacklogLimit
  /\ JobsAreQuick => AllIdle
  /\ now' = now + 1
  /\ lock' = FALSE
  /\ UNCHANGED <<rows, received, rollup, watermark, fired, locals>>

\* Nobody deletes the lock; it lapses 300 s after it was taken.
LockLapses ==
  /\ lock
  /\ JobsAreQuick => AllIdle
  /\ lock' = FALSE
  /\ UNCHANGED <<now, rows, received, rollup, watermark, fired, locals>>

(***************************************************************************)
(* _run_locked and _run_materialize_attribution                            *)
(***************************************************************************)

\* The cron trigger, once per hour and process: SET NX, skip when it is taken,
\* run anyway when Redis raises.  The history begins with hour 0: there is
\* nothing to do before hour 1.
Fire(r) ==
  /\ pc[r] = "idle"
  /\ now > 0
  /\ fired[r] # now
  /\ fired' = [fired EXCEPT ![r] = now]
  /\ \/ ~lock /\ lock' = TRUE /\ pc' = [pc EXCEPT ![r] = "read"]
     \/ lock /\ UNCHANGED <<lock, pc>>
     \/ RedisMayFail /\ pc' = [pc EXCEPT ![r] = "read"] /\ UNCHANGED lock
  /\ UNCHANGED <<now, rows, received, rollup, watermark, hour, last, batch>>

\* Mutant: every run does the previous hour only.
StartPrevious(mark) == now - 1

\* Where the catch-up starts; a failed GET counts as no watermark.
StartAfter(mark) ==
  Larger(IF mark = NoHour THEN now - 1 ELSE mark + 1, now - MaxHours)

\* Mutant: the loop includes the current hour.
LoopInclusive(a, start) ==
  /\ hour' = [hour EXCEPT ![a] = start]
  /\ last' = [last EXCEPT ![a] = now]
  /\ pc' = [pc EXCEPT ![a] = IF start <= now THEN "aggregate" ELSE "idle"]

Loop(a, start) ==
  /\ hour' = [hour EXCEPT ![a] = start]
  /\ last' = [last EXCEPT ![a] = now]
  /\ pc' = [pc EXCEPT ![a] = IF start < now THEN "aggregate" ELSE "idle"]

ReadWatermark(r) ==
  /\ pc[r] = "read"
  /\ \/ Loop(r, StartAfter(watermark))
     \/ RedisMayFail /\ Loop(r, StartAfter(NoHour))
  /\ UNCHANGED <<now, rows, received, rollup, watermark, lock, fired, batch>>

\* Mutant: the aggregate has no lower bound.
AggregateUpTo(a) ==
  /\ pc[a] = "aggregate"
  /\ LET found == {s \in rows : HourOf[s] <= hour[a]}
     IN  /\ batch' = [batch EXCEPT ![a] = found]
         /\ pc' = [pc EXCEPT ![a] = IF found = {} THEN "mark" ELSE "upsert"]
  /\ UNCHANGED <<now, rows, received, rollup, watermark, lock, fired, hour, last>>

\* materialize_hourly, first statement: GROUP BY over [hour, hour + 1h).
\* Without rows it returns 0.
Aggregate(a) ==
  /\ pc[a] = "aggregate"
  /\ LET found == {s \in rows : HourOf[s] = hour[a]}
     IN  /\ batch' = [batch EXCEPT ![a] = found]
         /\ pc' = [pc EXCEPT ![a] = IF found = {} THEN "mark" ELSE "upsert"]
  /\ UNCHANGED <<now, rows, received, rollup, watermark, lock, fired, hour, last>>

\* materialize_hourly, second statement and commit: the totals of every group
\* in the result are overwritten, the other groups of the hour stay.
Overwrite(old, new) ==
  {s \in old : \A n \in new : GroupOf[n] # GroupOf[s]} \cup new

Upsert(a) ==
  /\ pc[a] = "upsert"
  /\ rollup' = [rollup EXCEPT ![hour[a]] = Overwrite(@, batch[a])]
  /\ batch' = [batch EXCEPT ![a] = {}]
  /\ pc' = [pc EXCEPT ![a] = "mark"]
  /\ UNCHANGED <<now, rows, received, watermark, lock, fired, hour, last>>

\* The watermark follows each hour; a failed SET is swallowed.
Mark(r) ==
  /\ r \in Runner
  /\ pc[r] = "mark"
  /\ watermark' = hour[r] \/ (RedisMayFail /\ UNCHANGED watermark)
  /\ hour' = [hour EXCEPT ![r] = @ + 1]
  /\ pc' = [pc EXCEPT ![r] = IF hour[r] + 1 < last[r] THEN "aggregate" ELSE "idle"]
  /\ UNCHANGED <<now, rows, received, rollup, lock, fired, last, batch>>

\* An exception is logged, or the process dies; the lock stays until it lapses.
\* Failures are no more frequent than MaxBacklog says, and the last hour of the
\* instance is without.
Abort(a) ==
  /\ MayAbort
  /\ now < MaxTime /\ Backlog <= BacklogLimit
  /\ pc[a] # "idle"
  /\ pc' = [pc EXCEPT ![a] = "idle"]
  /\ batch' = [batch EXCEPT ![a] = {}]
  /\ UNCHANGED <<now, rows, received, rollup, watermark, lock, fired, hour, last>>

(***************************************************************************)
(* scripts/materialize_attribution.py: the current hour, then backwards,   *)
(* with neither lock nor watermark                                         *)
(***************************************************************************)

StartScript(o) ==
  /\ pc[o] = "idle"
  /\ fired[o] # now
  /\ fired' = [fired EXCEPT ![o] = now]
  /\ hour' = [hour EXCEPT ![o] = now]
  /\ last' = [last EXCEPT ![o] = Larger(0, now - HoursBack)]
  /\ pc' = [pc EXCEPT ![o] = "aggregate"]
  /\ UNCHANGED <<now, rows, received, rollup, watermark, lock, batch>>

ScriptNext(o) ==
  /\ pc[o] = "mark"
  /\ hour' = [hour EXCEPT ![o] = Larger(0, @ - 1)]
  /\ pc' = [pc EXCEPT ![o] = IF hour[o] > last[o] THEN "aggregate" ELSE "idle"]
  /\ UNCHANGED <<now, rows, received, rollup, watermark, lock, fired, last, batch>>

(***************************************************************************)
(* _run_span_retention: one DELETE; the cutoff falls inside an hour        *)
(***************************************************************************)

\* Mutant: the cutoff is taken in a smaller unit of time.
PruneEager ==
  /\ \E part \in SUBSET {s \in rows : HourOf[s] = now} :
       rows' = {s \in rows : HourOf[s] >= now} \ part
  /\ rows' # rows
  /\ UNCHANGED <<now, received, rollup, watermark, lock, fired, locals>>

Prune ==
  /\ \E part \in SUBSET {s \in rows : HourOf[s] = now - Retention} :
       rows' = {s \in rows : HourOf[s] >= now - Retention} \ part
  /\ rows' # rows
  /\ UNCHANGED <<now, received, rollup, watermark, lock, fired, locals>>

Init ==
  /\ now = 0
  /\ rows = {} /\ received = {}
  /\ rollup = [h \in Hour |-> {}]
  /\ watermark = NoHour
  /\ lock = FALSE
  /\ fired = [a \in Actor |-> NoHour]
  /\ pc = [a \in Actor |-> "idle"]
  /\ hour = [a \in Actor |-> 0]
  /\ last = [a \in Actor |-> 0]
  /\ batch = [a \in Actor |-> {}]

JobStep(r) == Fire(r) \/ ReadWatermark(r) \/ Aggregate(r) \/ Upsert(r) \/ Mark(r)
ScriptStep(o) == StartScript(o) \/ Aggregate(o) \/ Upsert(o) \/ ScriptNext(o)

Next ==
  \/ \E s \in Span : Receive(s)
  \/ NextHour \/ LockLapses \/ Prune
  \/ \E r \in Runner : JobStep(r)
  \/ \E o \in Operator : ScriptStep(o)
  \/ \E a \in Actor : Abort(a)

Spec == Init /\ [][Next]_vars

\* The trigger fires in every hour that is not over, a started run or
\* script goes on.
Fairness ==
  /\ WF_vars(NextHour)
  /\ \A r \in Runner : WF_vars(JobStep(r))
  /\ \A o \in Operator : WF_vars(Aggregate(o) \/ Upsert(o) \/ ScriptNext(o))

FairSpec == Spec /\ Fairness

-----------------------------------------------------------------------------
(***************************************************************************)
(* Properties                                                              *)
(***************************************************************************)

TypeOK ==
  /\ now \in Hour
  /\ received \subseteq Span /\ rows \subseteq received
  /\ \A s \in received : HourOf[s] <= now + 1
  /\ rollup \in [Hour -> SUBSET Span]
  /\ watermark \in Hour \cup {NoHour}
  /\ lock \in BOOLEAN
  /\ fired \in [Actor -> Hour \cup {NoHour}]
  /\ pc \in [Actor -> {"idle", "read", "aggregate", "upsert", "mark"}]
  /\ hour \in [Actor -> Hour] /\ last \in [Actor -> Hour]
  /\ batch \in [Actor -> SUBSET Span]

\* The watermark never passes an hour whose spans are not all in the totals:
\* otherwise no later run visits the hour again and the gap is permanent.
ClosedHoursComplete ==
  \A s \in received : HourOf[s] <= watermark => s \in rollup[HourOf[s]]

\* _run_span_retention: "history lives in the cost_attribution rollup".  A span
\* is pruned only after it was counted.
PrunedAreRolledUp == \A s \in received \ rows : s \in rollup[HourOf[s]]

\* Every span received in time is counted in the end, though runs are missed,
\* fail half-way and are taken over by another process.
EventuallyRolledUp ==
  \A s \in Span :
    (s \in received /\ HourOf[s] < MaxTime) ~> (s \in rollup[HourOf[s]])

\* The job, the script, the pruning and their failures implement HourlyLedger.
Ledger == INSTANCE HourlyLedger WITH book <- rollup
ImplementsLedger == Ledger!Spec

=============================================================================
