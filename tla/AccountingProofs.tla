------------------------- MODULE AccountingProofs -------------------------------
(***************************************************************************)
(* Proofs about what becomes of recorded costs: the rollup by hours, for   *)
(* every set of spans, processes and operators and any number of hours;    *)
(* the anomaly scan and the cost prediction, for every history; and the    *)
(* cascades, for any number of agents, calls and spans.                    *)
(***************************************************************************)
EXTENDS AttributionRollup, AnomalyScan, CostPrediction, CascadeTrace, DataLemmas,
        SequenceTheorems, TLAPS

(***************************************************************************)
(* Types                                                                   *)
(***************************************************************************)

Steps == {"idle", "read", "aggregate", "upsert", "mark"}
Looping(a) == pc[a] \in {"aggregate", "upsert", "mark"}

\* A loop ends no later than the present, and the watermark is behind it.
Bounded ==
  /\ watermark < now
  /\ \A r \in Runner :
       /\ last[r] <= now
       /\ pc[r] = "read" => now > 0
       /\ Looping(r) => hour[r] < last[r]

TypeInv == TypeOK /\ Bounded

LEMMA TypeInit == Init => TypeInv
<1> SUFFICES ASSUME Init
             PROVE  TypeInv
  OBVIOUS
<1>1. 0 \in Hour
  BY WindowAssumption DEF Hour
<1>2. TypeOK
  BY <1>1 DEF Init, TypeOK
<1>3. Bounded
  BY DEF Init, Bounded, Looping, NoHour, Actor
<1>4. QED
  BY <1>2, <1>3 DEF TypeInv

\* A run begins no later than the present.
LEMMA StartType ==
  ASSUME TypeInv, now > 0, NEW mark \in Hour \cup {NoHour}, mark < now
  PROVE  StartAfter(mark) \in Hour /\ StartAfter(mark) <= now
<1>1. now \in Nat /\ now <= MaxTime /\ mark \in Int /\ (mark # NoHour => mark \in Nat)
  BY WindowAssumption DEF TypeInv, TypeOK, Hour, NoHour
<1>2. DEFINE first == IF mark = NoHour THEN now - 1 ELSE mark + 1
<1>3. first \in Nat /\ first <= now
  BY <1>1
<1>4. StartAfter(mark) = Larger(first, now - MaxHours)
  BY DEF StartAfter
<1>5. StartAfter(mark) \in Int /\ StartAfter(mark) >= first /\ StartAfter(mark) <= now
  BY <1>1, <1>3, <1>4, WindowAssumption DEF Larger
<1>6. QED
  BY <1>1, <1>3, <1>5, WindowAssumption DEF Hour

LEMMA TypeStep == TypeInv /\ [Next]_vars => TypeInv'
<1> SUFFICES ASSUME TypeInv, [Next]_vars
             PROVE  TypeInv'
  OBVIOUS
<1> USE WindowAssumption DEF TypeInv, Bounded, Looping
<1>a. /\ now \in Nat /\ now <= MaxTime /\ MaxTime \in Nat
      /\ \A r \in Runner : r \in Actor /\ r \notin Operator
      /\ \A o \in Operator : o \in Actor
  BY ActorAssumption DEF TypeOK, Hour, Actor
<1>1. CASE UNCHANGED vars
  BY <1>1 DEF vars, locals, TypeOK
<1>2. ASSUME NEW s \in Span, Receive(s)
      PROVE  TypeInv'
  BY <1>2 DEF Receive, locals, TypeOK
<1>3. CASE NextHour
  <2>1. /\ now' = now + 1 /\ now' \in Hour /\ lock' = FALSE
        /\ UNCHANGED <<rows, received, rollup, watermark, fired, locals>>
    BY <1>3, <1>a DEF NextHour, Hour
  <2>2. \A s \in received : HourOf[s] <= now' + 1
    BY <2>1, <1>a, SpanAssumption DEF TypeOK
  <2>3. TypeOK'
    BY <2>1, <2>2 DEF TypeOK, locals
  <2>4. watermark < now'
    BY <2>1, <1>a DEF TypeOK, Hour, NoHour
  <2>5. \A r \in Runner : last[r] \in Nat /\ last[r] <= now'
    BY <2>1, <1>a DEF TypeOK, Hour
  <2>6. QED
    BY <2>1, <2>3, <2>4, <2>5, <1>a DEF locals
<1>4. CASE LockLapses
  BY <1>4 DEF LockLapses, locals, TypeOK
<1>5. CASE Prune
  <2>1. rows' \subseteq rows /\ UNCHANGED <<now, received, rollup, watermark, lock, fired, locals>>
    BY <1>5 DEF Prune
  <2>2. QED
    BY <2>1 DEF locals, TypeOK
<1>6. ASSUME NEW r \in Runner, Fire(r)
      PROVE  TypeInv'
  <2>1. /\ now > 0 /\ fired' = [fired EXCEPT ![r] = now]
        /\ pc' = pc \/ pc' = [pc EXCEPT ![r] = "read"]
        /\ lock' \in BOOLEAN
        /\ UNCHANGED <<now, rows, received, rollup, watermark, hour, last, batch>>
    BY <1>6 DEF Fire, TypeOK
  <2>2. TypeOK'
    BY <2>1, <1>a DEF TypeOK
  <2>3. QED
    BY <2>1, <2>2, <1>a DEF TypeOK
<1>7. ASSUME NEW r \in Runner, ReadWatermark(r)
      PROVE  TypeInv'
  <2>1. PICK mark \in {watermark, NoHour} : Loop(r, StartAfter(mark))
    BY <1>7 DEF ReadWatermark
  <2>2. /\ mark \in Hour \cup {NoHour} /\ mark < now /\ now > 0
    BY <1>7, <1>a DEF ReadWatermark, TypeOK, NoHour
  <2>3. StartAfter(mark) \in Hour /\ StartAfter(mark) <= now
    BY <2>2, StartType
  <2>4. /\ hour' = [hour EXCEPT ![r] = StartAfter(mark)]
        /\ last' = [last EXCEPT ![r] = now]
        /\ pc' = [pc EXCEPT ![r] = IF StartAfter(mark) < now THEN "aggregate" ELSE "idle"]
        /\ UNCHANGED <<now, rows, received, rollup, watermark, lock, fired, batch>>
    BY <1>7, <2>1 DEF ReadWatermark, Loop
  <2>5. TypeOK'
    BY <2>3, <2>4, <1>a DEF TypeOK
  <2>6. QED
    BY <2>3, <2>4, <2>5, <1>a DEF TypeOK
<1>8. ASSUME NEW a \in Actor, Aggregate(a)
      PROVE  TypeInv'
  <2>1. /\ pc[a] = "aggregate"
        /\ \E step \in {"mark", "upsert"} : pc' = [pc EXCEPT ![a] = step]
        /\ batch' = [batch EXCEPT ![a] = {s \in rows : HourOf[s] = hour[a]}]
        /\ UNCHANGED <<now, rows, received, rollup, watermark, lock, fired, hour, last>>
    BY <1>8 DEF Aggregate
  <2>2. {s \in rows : HourOf[s] = hour[a]} \in SUBSET Span
    BY DEF TypeOK
  <2>3. TypeOK'
    BY <2>1, <2>2 DEF TypeOK
  <2>4. QED
    BY <2>1, <2>3, <1>a DEF TypeOK
<1>9. ASSUME NEW a \in Actor, Upsert(a)
      PROVE  TypeInv'
  <2>1. /\ pc[a] = "upsert" /\ pc' = [pc EXCEPT ![a] = "mark"]
        /\ rollup' = [rollup EXCEPT ![hour[a]] = Overwrite(rollup[hour[a]], batch[a])]
        /\ batch' = [batch EXCEPT ![a] = {}]
        /\ UNCHANGED <<now, rows, received, watermark, lock, fired, hour, last>>
    BY <1>9 DEF Upsert
  <2>2. Overwrite(rollup[hour[a]], batch[a]) \in SUBSET Span
    BY DEF Overwrite, TypeOK
  <2>3. TypeOK'
    BY <2>1, <2>2 DEF TypeOK
  <2>4. QED
    BY <2>1, <2>3, <1>a DEF TypeOK
<1>10. ASSUME NEW r \in Runner, Mark(r)
       PROVE  TypeInv'
  <2>1. /\ pc[r] = "mark" /\ watermark' \in {watermark, hour[r]}
        /\ hour' = [hour EXCEPT ![r] = hour[r] + 1]
        /\ pc' = [pc EXCEPT ![r] = IF hour[r] + 1 < last[r] THEN "aggregate" ELSE "idle"]
        /\ UNCHANGED <<now, rows, received, rollup, lock, fired, last, batch>>
    BY <1>10 DEF Mark
  <2>2. /\ hour[r] \in Nat /\ last[r] \in Nat /\ hour[r] < last[r] /\ last[r] <= now
    BY <2>1, <1>a DEF TypeOK, Hour
  <2>3. hour[r] \in Hour /\ hour[r] + 1 \in Hour
    BY <2>2, <1>a DEF Hour
  <2>4. TypeOK'
    BY <2>1, <2>3, <1>a DEF TypeOK
  <2>5. QED
    BY <2>1, <2>2, <2>4, <1>a DEF TypeOK
<1>11. ASSUME NEW a \in Actor, Abort(a)
       PROVE  TypeInv'
  <2>1. /\ pc' = [pc EXCEPT ![a] = "idle"] /\ batch' = [batch EXCEPT ![a] = {}]
        /\ UNCHANGED <<now, rows, received, rollup, watermark, lock, fired, hour, last>>
    BY <1>11 DEF Abort
  <2>2. TypeOK'
    BY <2>1 DEF TypeOK
  <2>3. QED
    BY <2>1, <2>2, <1>a DEF TypeOK
<1>12. ASSUME NEW o \in Operator, StartScript(o)
       PROVE  TypeInv'
  <2>1. Larger(0, now - HoursBack) \in Hour
    BY <1>a DEF Larger, Hour
  <2>2. TypeOK'
    BY <1>12, <2>1, <1>a DEF StartScript, TypeOK
  <2>3. QED
    BY <1>12, <2>2, <1>a DEF StartScript, TypeOK
<1>13. ASSUME NEW o \in Operator, ScriptNext(o)
       PROVE  TypeInv'
  <2>1. Larger(0, hour[o] - 1) \in Hour
    BY <1>a DEF Larger, TypeOK, Hour
  <2>2. TypeOK'
    BY <1>13, <2>1, <1>a DEF ScriptNext, TypeOK
  <2>3. QED
    BY <1>13, <2>2, <1>a DEF ScriptNext, TypeOK
<1>14. QED
  BY <1>1, <1>2, <1>3, <1>4, <1>5, <1>6, <1>7, <1>8, <1>9, <1>10, <1>11, <1>12, <1>13
     DEF Next, JobStep, ScriptStep, Actor

\* _run_materialize_attribution and the script keep their locals well formed:
\* hours that exist, loops that end by the present, a watermark behind it; also
\* with runs that overlap, a Redis that fails and spans that come late.
THEOREM TypesAreKept == Spec => []TypeOK
<1>1. TypeInv => TypeOK
  BY DEF TypeInv
<1>2. QED
  BY <1>1, TypeInit, TypeStep, PTL DEF Spec

(***************************************************************************)
(* Safety, where jobs end within the time to live of their lock, Redis     *)
(* answers, spans come in their hour, the catch-up window is as long as    *)
(* the longest outage and retention is longer than both it and the         *)
(* script's reach                                                          *)
(***************************************************************************)

Regular ==
  /\ JobsAreQuick /\ ~RedisMayFail /\ ~LateSpans
  /\ MaxBacklog <= MaxHours /\ MaxBacklog < Retention /\ HoursBack < Retention

Of(h) == {s \in received : HourOf[s] = h}

\* The watermark is not far behind.
Close == now <= watermark + MaxBacklog + 1 /\ (watermark = NoHour => now <= 1)

\* What was pruned is older than the retention.
OldPruned == \A s \in received \ rows : HourOf[s] <= now - Retention

\* The totals count what was received, and for their hour only.
Honest == \A h \in Hour : rollup[h] \subseteq Of(h)

\* One job at a time, for as long as the lock is there.
Exclusive ==
  \A r \in Runner : pc[r] # "idle" =>
    lock /\ \A q \in Runner : pc[q] # "idle" => q = r

\* A job does the hour after the watermark, from all of its spans.
JobInv(r) ==
  Looping(r) =>
    /\ hour[r] = watermark + 1 /\ last[r] = now
    /\ pc[r] = "upsert" => batch[r] = Of(hour[r])
    /\ pc[r] = "mark" => Of(hour[r]) \subseteq rollup[hour[r]]

\* A script stays within the retention; the current hour it may know in part.
ScriptInv(o) ==
  pc[o] # "idle" =>
    /\ hour[o] <= now /\ now - HoursBack <= last[o] /\ last[o] <= hour[o]
    /\ pc[o] = "upsert" => batch[o] \subseteq Of(hour[o])
    /\ pc[o] = "upsert" /\ hour[o] < now => batch[o] = Of(hour[o])

IInv ==
  /\ TypeInv /\ Close /\ OldPruned /\ Honest /\ Exclusive
  /\ \A r \in Runner : JobInv(r)
  /\ \A o \in Operator : ScriptInv(o)
  /\ ClosedHoursComplete

LEMMA Facts ==
  ASSUME Regular, IInv
  PROVE  /\ now \in Nat /\ watermark \in Int /\ watermark < now
         /\ now - Retention <= watermark /\ now - Retention < now - HoursBack
         /\ Retention \in Nat /\ HoursBack \in Nat /\ HoursBack < Retention
         /\ \A r \in Runner : r \in Actor /\ r \notin Operator
         /\ \A o \in Operator : o \in Actor /\ o \notin Runner
         /\ \A a \in Actor : hour[a] \in Nat /\ last[a] \in Nat
         /\ \A t \in Span : HourOf[t] \in Nat
         /\ received \subseteq Span /\ rows \subseteq received
<1>1. now \in Nat /\ watermark \in Int /\ watermark < now
  BY WindowAssumption DEF IInv, TypeInv, TypeOK, Bounded, Hour, NoHour
<1>2. now - Retention <= watermark /\ now - Retention < now - HoursBack
  BY <1>1, WindowAssumption DEF IInv, Close, Regular
<1>3. \A a \in Actor : hour[a] \in Nat /\ last[a] \in Nat
  BY WindowAssumption DEF IInv, TypeInv, TypeOK, Hour
<1>4. QED
  BY <1>1, <1>2, <1>3, ActorAssumption, SpanAssumption, WindowAssumption
     DEF Actor, Regular, IInv, TypeInv, TypeOK

\* Within the retention the query finds all that was received.
LEMMA Unpruned ==
  ASSUME Regular, IInv, NEW h \in Int, h > now - Retention
  PROVE  {s \in rows : HourOf[s] = h} = Of(h)
<1>1. \A s \in received : HourOf[s] = h => s \in rows
  BY Facts DEF IInv, OldPruned
<1>2. QED
  BY <1>1, Facts DEF Of

LEMMA InvInit == Init => IInv
<1> SUFFICES ASSUME Init
             PROVE  IInv
  OBVIOUS
<1>1. TypeInv
  BY TypeInit
<1>2. Close
  BY WindowAssumption DEF Init, Close, NoHour
<1>3. OldPruned /\ Honest /\ Exclusive /\ ClosedHoursComplete
  BY DEF Init, OldPruned, Honest, Of, Exclusive, ClosedHoursComplete, Actor
<1>4. \A r \in Runner : JobInv(r)
  BY DEF Init, JobInv, Looping, Actor
<1>5. \A o \in Operator : ScriptInv(o)
  BY DEF Init, ScriptInv, Actor
<1>6. QED
  BY <1>1, <1>2, <1>3, <1>4, <1>5 DEF IInv

\* A new span is one of the current hour or the next, which no job does and no
\* watermark passes.
LEMMA InvReceive ==
  ASSUME Regular, IInv, TypeInv', NEW s \in Span, Receive(s)
  PROVE  IInv'
<1>1. /\ HourOf[s] >= now /\ rows' = rows \cup {s} /\ received' = received \cup {s}
      /\ UNCHANGED <<now, rollup, watermark, lock, fired, pc, hour, last, batch>>
  BY Facts DEF Receive, Regular, locals
<1>2. \A h : Of(h) \subseteq Of(h)' /\ (h # HourOf[s] => Of(h)' = Of(h))
  BY <1>1 DEF Of
<1>3. Close' /\ OldPruned' /\ Exclusive'
  BY <1>1 DEF IInv, Close, OldPruned, Exclusive
<1>4. Honest'
  BY <1>1, <1>2 DEF IInv, Honest
<1>5. \A r \in Runner : JobInv(r)'
  <2> SUFFICES ASSUME NEW r \in Runner, Looping(r)'
               PROVE  JobInv(r)'
    BY DEF JobInv
  <2>1. Looping(r) /\ JobInv(r)
    BY <1>1 DEF Looping, IInv
  <2>2. hour[r] # HourOf[s]
    <3>1. hour[r] < last[r] /\ last[r] = now
      BY <2>1 DEF JobInv, IInv, TypeInv, Bounded
    <3>2. QED
      BY <1>1, <3>1, Facts
  <2>3. Of(hour[r])' = Of(hour[r])
    BY <1>1, <2>2 DEF Of
  <2>4. QED
    BY <1>1, <2>1, <2>3 DEF JobInv
<1>6. \A o \in Operator : ScriptInv(o)'
  <2> SUFFICES ASSUME NEW o \in Operator
               PROVE  ScriptInv(o)'
    OBVIOUS
  <2>1. ScriptInv(o)
    BY DEF IInv
  <2>2. Of(hour[o]) \subseteq Of(hour[o])' /\ (hour[o] < now => Of(hour[o])' = Of(hour[o]))
    BY <1>1, Facts DEF Of
  <2>3. QED
    BY <1>1, <2>1, <2>2 DEF ScriptInv
<1>7. ClosedHoursComplete'
  BY <1>1, Facts DEF IInv, ClosedHoursComplete
<1>8. QED
  BY <1>3, <1>4, <1>5, <1>6, <1>7 DEF IInv

\* Nothing runs when the hour begins, and no hour begins too far from the watermark.
LEMMA InvNextHour ==
  ASSUME Regular, IInv, TypeInv', NextHour
  PROVE  IInv'
<1>1. /\ now' = now + 1 /\ Backlog <= BacklogLimit /\ \A a \in Actor : pc[a] = "idle"
      /\ UNCHANGED <<rows, received, rollup, watermark, fired, pc, hour, last, batch>>
  BY DEF NextHour, Regular, AllIdle, locals
<1>2. Close'
  BY <1>1, Facts, WindowAssumption DEF Close, Backlog, BacklogLimit, NoHour
<1>3. OldPruned'
  <2> SUFFICES ASSUME NEW s \in received, s \notin rows
               PROVE  HourOf[s] <= now' - Retention
    BY <1>1 DEF OldPruned
  <2>1. HourOf[s] <= now - Retention
    BY DEF IInv, OldPruned
  <2>2. QED
    BY <1>1, <2>1, Facts
<1>4. Honest' /\ ClosedHoursComplete'
  BY <1>1 DEF IInv, Honest, Of, ClosedHoursComplete
<1>5. Exclusive' /\ (\A r \in Runner : JobInv(r)') /\ (\A o \in Operator : ScriptInv(o)')
  BY <1>1, Facts DEF Exclusive, JobInv, ScriptInv, Looping
<1>6. QED
  BY <1>2, <1>3, <1>4, <1>5 DEF IInv

LEMMA InvLockLapses ==
  ASSUME Regular, IInv, TypeInv', LockLapses
  PROVE  IInv'
<1>1. /\ \A a \in Actor : pc[a] = "idle"
      /\ UNCHANGED <<now, rows, received, rollup, watermark, fired, pc, hour, last, batch>>
  BY DEF LockLapses, Regular, AllIdle, locals
<1>2. Exclusive'
  BY <1>1, Facts DEF Exclusive
<1>3. QED
  BY <1>1, <1>2 DEF IInv, Close, OldPruned, Honest, Of, JobInv, ScriptInv, Looping,
                    ClosedHoursComplete

LEMMA InvPrune ==
  ASSUME Regular, IInv, TypeInv', Prune
  PROVE  IInv'
<1>1. UNCHANGED <<now, received, rollup, watermark, lock, fired, pc, hour, last, batch>>
  BY DEF Prune, locals
<1>2. \A s \in rows : s \notin rows' => HourOf[s] <= now - Retention
  BY Facts DEF Prune
<1>3. OldPruned'
  BY <1>1, <1>2 DEF IInv, OldPruned
<1>4. QED
  BY <1>1, <1>3 DEF IInv, Close, Honest, Of, Exclusive, JobInv, ScriptInv, Looping,
                    ClosedHoursComplete

LEMMA InvFire ==
  ASSUME Regular, IInv, TypeInv', NEW r \in Runner, Fire(r)
  PROVE  IInv'
<1>1. /\ pc[r] = "idle"
      /\ \/ ~lock /\ lock' = TRUE /\ pc' = [pc EXCEPT ![r] = "read"]
         \/ lock' = lock /\ pc' = pc
      /\ UNCHANGED <<now, rows, received, rollup, watermark, hour, last, batch>>
  BY DEF Fire, Regular
<1>2. Exclusive'
  BY <1>1, Facts DEF IInv, TypeInv, TypeOK, Exclusive
<1>3. \A q \in Runner : JobInv(q)'
  <2> SUFFICES ASSUME NEW q \in Runner
               PROVE  JobInv(q)'
    OBVIOUS
  <2>1. Looping(q)' => Looping(q) /\ pc'[q] = pc[q]
    BY <1>1, Facts DEF IInv, TypeInv, TypeOK, Looping
  <2>2. QED
    BY <1>1, <2>1 DEF IInv, JobInv, Looping, Of
<1>4. \A o \in Operator : ScriptInv(o)'
  <2> SUFFICES ASSUME NEW o \in Operator
               PROVE  ScriptInv(o)'
    OBVIOUS
  <2>1. pc'[o] = pc[o]
    BY <1>1, Facts DEF IInv, TypeInv, TypeOK
  <2>2. QED
    BY <1>1, <2>1 DEF IInv, ScriptInv, Of
<1>5. QED
  BY <1>1, <1>2, <1>3, <1>4 DEF IInv, Close, OldPruned, Honest, Of, ClosedHoursComplete

\* A job starts right after the watermark.
LEMMA InvReadWatermark ==
  ASSUME Regular, IInv, TypeInv', NEW r \in Runner, ReadWatermark(r)
  PROVE  IInv'
<1>1. /\ pc[r] = "read" /\ Loop(r, StartAfter(watermark))
      /\ UNCHANGED <<now, rows, received, rollup, watermark, lock, fired, batch>>
  BY DEF ReadWatermark, Regular
<1>2. StartAfter(watermark) = watermark + 1
  <2>1. MaxHours \in Nat /\ MaxHours > 0 /\ MaxBacklog \in Nat /\ MaxBacklog <= MaxHours
    BY WindowAssumption DEF Regular
  <2>2. now > 0 /\ now <= watermark + MaxBacklog + 1 /\ (watermark = NoHour => now <= 1)
    BY <1>1 DEF IInv, Close, TypeInv, Bounded
  <2>3. CASE watermark = NoHour
    <3>1. now = 1 /\ watermark = -1
      BY <2>2, <2>3, Facts DEF NoHour
    <3>2. StartAfter(watermark) = Larger(0, 1 - MaxHours)
      BY <2>3, <3>1 DEF StartAfter
    <3>3. Larger(0, 1 - MaxHours) = 0
      BY <2>1 DEF Larger
    <3>4. QED
      BY <3>1, <3>2, <3>3
  <2>4. CASE watermark # NoHour
    <3>1. StartAfter(watermark) = Larger(watermark + 1, now - MaxHours)
      BY <2>4 DEF StartAfter
    <3>2. watermark + 1 >= now - MaxHours
      BY <2>1, <2>2, Facts
    <3>3. QED
      BY <3>1, <3>2 DEF Larger
  <2>5. QED
    BY <2>3, <2>4
<1>3. /\ hour' = [hour EXCEPT ![r] = watermark + 1] /\ last' = [last EXCEPT ![r] = now]
      /\ \E step \in {"aggregate", "idle"} : pc' = [pc EXCEPT ![r] = step]
  BY <1>1, <1>2 DEF Loop
<1>4. Exclusive'
  BY <1>1, <1>3 DEF IInv, TypeInv, TypeOK, Exclusive
<1>5. \A q \in Runner : JobInv(q)'
  <2> SUFFICES ASSUME NEW q \in Runner
               PROVE  JobInv(q)'
    OBVIOUS
  <2>1. CASE q = r
    BY <1>1, <1>3, <2>1, Facts DEF IInv, TypeInv, TypeOK, JobInv, Looping
  <2>2. CASE q # r
    <3>1. pc[q] = "idle"
      BY <1>1, <2>2 DEF IInv, Exclusive
    <3>2. QED
      BY <1>3, <2>2, <3>1, Facts DEF IInv, TypeInv, TypeOK, JobInv, Looping
  <2>3. QED
    BY <2>1, <2>2
<1>6. \A o \in Operator : ScriptInv(o)'
  <2> SUFFICES ASSUME NEW o \in Operator
               PROVE  ScriptInv(o)'
    OBVIOUS
  <2>1. pc'[o] = pc[o] /\ hour'[o] = hour[o] /\ last'[o] = last[o]
    BY <1>3, Facts DEF IInv, TypeInv, TypeOK
  <2>2. QED
    BY <1>1, <2>1 DEF IInv, ScriptInv, Of
<1>7. QED
  BY <1>1, <1>4, <1>5, <1>6 DEF IInv, Close, OldPruned, Honest, Of, ClosedHoursComplete

\* Jobs and scripts look at hours within the retention, so they miss nothing.
LEMMA InvAggregate ==
  ASSUME Regular, IInv, TypeInv', NEW a \in Actor, Aggregate(a)
  PROVE  IInv'
<1> DEFINE found == {s \in rows : HourOf[s] = hour[a]}
<1>1. /\ pc[a] = "aggregate" /\ batch' = [batch EXCEPT ![a] = found]
      /\ pc' = [pc EXCEPT ![a] = IF found = {} THEN "mark" ELSE "upsert"]
      /\ UNCHANGED <<now, rows, received, rollup, watermark, lock, fired, hour, last>>
  BY DEF Aggregate
<1>2. hour[a] \in Int /\ hour[a] > now - Retention
  <2>1. CASE a \in Runner
    BY <1>1, <2>1, Facts DEF IInv, JobInv, Looping
  <2>2. CASE a \in Operator
    BY <1>1, <2>2, Facts DEF IInv, ScriptInv
  <2>3. QED
    BY <2>1, <2>2 DEF Actor
<1>3. found = Of(hour[a])
  BY <1>2, Unpruned
<1>4. Exclusive'
  BY <1>1, Facts DEF IInv, TypeInv, TypeOK, Exclusive
<1>5. \A q \in Runner : JobInv(q)'
  <2> SUFFICES ASSUME NEW q \in Runner
               PROVE  JobInv(q)'
    OBVIOUS
  <2>1. CASE q = a
    BY <1>1, <1>3, <2>1, Facts DEF IInv, TypeInv, TypeOK, JobInv, Looping, Of
  <2>2. CASE q # a
    BY <1>1, <2>2, Facts DEF IInv, TypeInv, TypeOK, JobInv, Looping, Of
  <2>3. QED
    BY <2>1, <2>2
<1>6. \A o \in Operator : ScriptInv(o)'
  <2> SUFFICES ASSUME NEW o \in Operator
               PROVE  ScriptInv(o)'
    OBVIOUS
  <2>1. CASE o = a
    BY <1>1, <1>3, <2>1, Facts DEF IInv, TypeInv, TypeOK, ScriptInv, Of
  <2>2. CASE o # a
    BY <1>1, <2>2, Facts DEF IInv, TypeInv, TypeOK, ScriptInv, Of
  <2>3. QED
    BY <2>1, <2>2
<1>7. QED
  BY <1>1, <1>4, <1>5, <1>6 DEF IInv, Close, OldPruned, Honest, Of, ClosedHoursComplete

\* What an upsert writes: all of an hour that is over, or a part of the current one.
LEMMA WhatIsWritten ==
  ASSUME Regular, IInv, NEW a \in Actor, pc[a] = "upsert"
  PROVE  /\ hour[a] \in Hour /\ hour[a] <= now
         /\ batch[a] \subseteq Of(hour[a])
         /\ hour[a] < now => batch[a] = Of(hour[a])
         /\ a \in Runner => hour[a] < now
<1>1. CASE a \in Runner
  <2>1. /\ batch[a] = Of(hour[a]) /\ last[a] = now /\ hour[a] < last[a]
    BY <1>1 DEF IInv, JobInv, Looping, TypeInv, Bounded
  <2>2. QED
    BY <1>1, <2>1, Facts DEF IInv, TypeInv, TypeOK
<1>2. CASE a \in Operator
  BY <1>2, Facts DEF IInv, ScriptInv, TypeInv, TypeOK
<1>3. QED
  BY <1>1, <1>2 DEF Actor

\* Whoever writes an hour that is over writes all of it.
LEMMA InvUpsert ==
  ASSUME Regular, IInv, TypeInv', NEW a \in Actor, Upsert(a)
  PROVE  IInv'
<1>1. /\ pc[a] = "upsert" /\ pc' = [pc EXCEPT ![a] = "mark"]
      /\ rollup' = [rollup EXCEPT ![hour[a]] = Overwrite(rollup[hour[a]], batch[a])]
      /\ batch' = [batch EXCEPT ![a] = {}]
      /\ UNCHANGED <<now, rows, received, watermark, lock, fired, hour, last>>
  BY DEF Upsert
<1>2. /\ hour[a] \in Hour /\ batch[a] \subseteq Of(hour[a])
      /\ hour[a] < now => batch[a] = Of(hour[a])
  BY <1>1, WhatIsWritten
<1>3. /\ batch[a] \subseteq Overwrite(rollup[hour[a]], batch[a])
      /\ Overwrite(rollup[hour[a]], batch[a]) \subseteq rollup[hour[a]] \cup batch[a]
  BY DEF Overwrite
<1>4. /\ rollup'[hour[a]] = Overwrite(rollup[hour[a]], batch[a])
      /\ \A h \in Hour : h # hour[a] => rollup'[h] = rollup[h]
  BY <1>1, <1>2 DEF IInv, TypeInv, TypeOK
<1>5. \A h \in Hour : h < now /\ Of(h) \subseteq rollup[h] => Of(h) \subseteq rollup'[h]
  BY <1>2, <1>3, <1>4
<1>6. \A h : Of(h)' = Of(h)
  BY <1>1 DEF Of
<1>7. Honest'
  BY <1>2, <1>3, <1>4, <1>6 DEF IInv, Honest
<1>8. Exclusive'
  BY <1>1, Facts DEF IInv, TypeInv, TypeOK, Exclusive
<1>9. \A q \in Runner : JobInv(q)'
  <2> SUFFICES ASSUME NEW q \in Runner, Looping(q)'
               PROVE  JobInv(q)'
    BY DEF JobInv
  <2>1. Looping(q)
    BY <1>1, Facts DEF IInv, TypeInv, TypeOK, Looping
  <2>2. hour[q] = watermark + 1 /\ last[q] = now /\ hour[q] < now /\ hour[q] \in Hour
    BY <2>1, Facts DEF IInv, TypeInv, TypeOK, Bounded, JobInv
  <2>3. CASE q = a
    <3>1. Of(hour[q]) \subseteq rollup'[hour[q]]
      BY <1>2, <1>3, <1>4, <2>2, <2>3
    <3>2. QED
      BY <1>1, <1>6, <2>2, <2>3, <3>1, Facts DEF IInv, TypeInv, TypeOK, JobInv
  <2>4. CASE q # a
    <3>1. pc'[q] = pc[q] /\ batch'[q] = batch[q]
      BY <1>1, <2>4, Facts DEF IInv, TypeInv, TypeOK
    <3>2. pc[q] = "mark" => Of(hour[q]) \subseteq rollup'[hour[q]]
      BY <1>5, <2>1, <2>2 DEF IInv, JobInv
    <3>3. pc[q] = "upsert" => batch[q] = Of(hour[q])
      BY <2>1 DEF IInv, JobInv
    <3>4. QED
      BY <1>1, <1>6, <2>2, <3>1, <3>2, <3>3 DEF JobInv
  <2>5. QED
    BY <2>3, <2>4
<1>10. \A o \in Operator : ScriptInv(o)'
  <2> SUFFICES ASSUME NEW o \in Operator
               PROVE  ScriptInv(o)'
    OBVIOUS
  <2>1. pc'[o] # "idle" => pc[o] # "idle"
    BY <1>1, Facts DEF IInv, TypeInv, TypeOK
  <2>2. pc'[o] = "upsert" => pc[o] = "upsert" /\ batch'[o] = batch[o]
    BY <1>1, Facts DEF IInv, TypeInv, TypeOK
  <2>3. QED
    BY <1>1, <1>6, <2>1, <2>2 DEF IInv, ScriptInv
<1>11. ClosedHoursComplete'
  <2> SUFFICES ASSUME NEW s \in received, HourOf[s] <= watermark
               PROVE  s \in rollup'[HourOf[s]]
    BY <1>1 DEF ClosedHoursComplete
  <2>1. HourOf[s] \in Hour /\ HourOf[s] < now
    <3>1. s \in Span /\ HourOf[s] \in Nat /\ HourOf[s] <= MaxTime
      BY Facts, SpanAssumption
    <3>2. QED
      BY <3>1, Facts, WindowAssumption DEF Hour
  <2>2. Of(HourOf[s]) \subseteq rollup[HourOf[s]]
    BY DEF IInv, ClosedHoursComplete, Of
  <2>3. QED
    BY <1>5, <2>1, <2>2 DEF Of
<1>12. QED
  BY <1>1, <1>7, <1>8, <1>9, <1>10, <1>11 DEF IInv, Close, OldPruned

\* The watermark moves one hour, over spans that are all in the totals.
LEMMA InvMark ==
  ASSUME Regular, IInv, TypeInv', NEW r \in Runner, Mark(r)
  PROVE  IInv'
<1>1. /\ pc[r] = "mark" /\ watermark' = hour[r] /\ hour' = [hour EXCEPT ![r] = hour[r] + 1]
      /\ pc' = [pc EXCEPT ![r] = IF hour[r] + 1 < last[r] THEN "aggregate" ELSE "idle"]
      /\ UNCHANGED <<now, rows, received, rollup, lock, fired, last, batch>>
  BY DEF Mark, Regular
<1>2. /\ hour[r] = watermark + 1 /\ last[r] = now /\ hour[r] < now
      /\ Of(hour[r]) \subseteq rollup[hour[r]]
  BY <1>1 DEF IInv, JobInv, Looping, TypeInv, Bounded
<1>3. Close'
  <2>1. watermark \in Nat \cup {-1}
    BY WindowAssumption DEF IInv, TypeInv, TypeOK, Hour, NoHour
  <2>2. watermark' = watermark + 1 /\ watermark' # NoHour /\ now' = now
    BY <1>1, <1>2, <2>1 DEF NoHour
  <2>3. QED
    BY <2>1, <2>2, Facts, WindowAssumption DEF IInv, Close
<1>4. ClosedHoursComplete'
  <2> SUFFICES ASSUME NEW s \in received, HourOf[s] <= hour[r]
               PROVE  s \in rollup[HourOf[s]]
    BY <1>1 DEF ClosedHoursComplete
  <2>1. HourOf[s] <= watermark \/ HourOf[s] = hour[r]
    BY <1>2, Facts
  <2>2. QED
    BY <1>2, <2>1 DEF IInv, ClosedHoursComplete, Of
<1>5. Exclusive'
  BY <1>1, Facts DEF IInv, TypeInv, TypeOK, Exclusive
<1>6. \A q \in Runner : JobInv(q)'
  <2> SUFFICES ASSUME NEW q \in Runner
               PROVE  JobInv(q)'
    OBVIOUS
  <2>1. CASE q = r
    BY <1>1, <1>2, <2>1, Facts DEF IInv, TypeInv, TypeOK, JobInv, Looping
  <2>2. CASE q # r
    <3>1. pc[q] = "idle"
      BY <1>1, <2>2 DEF IInv, Exclusive
    <3>2. QED
      BY <1>1, <2>2, <3>1, Facts DEF IInv, TypeInv, TypeOK, JobInv, Looping
  <2>3. QED
    BY <2>1, <2>2
<1>7. \A o \in Operator : ScriptInv(o)'
  <2> SUFFICES ASSUME NEW o \in Operator
               PROVE  ScriptInv(o)'
    OBVIOUS
  <2>1. pc'[o] = pc[o] /\ hour'[o] = hour[o]
    BY <1>1, Facts DEF IInv, TypeInv, TypeOK
  <2>2. QED
    BY <1>1, <2>1 DEF IInv, ScriptInv, Of
<1>8. QED
  BY <1>1, <1>3, <1>4, <1>5, <1>6, <1>7 DEF IInv, OldPruned, Honest, Of

\* A job that dies leaves the watermark where its last full hour put it.
LEMMA InvAbort ==
  ASSUME Regular, IInv, TypeInv', NEW a \in Actor, Abort(a)
  PROVE  IInv'
<1>1. /\ pc' = [pc EXCEPT ![a] = "idle"] /\ batch' = [batch EXCEPT ![a] = {}]
      /\ UNCHANGED <<now, rows, received, rollup, watermark, lock, fired, hour, last>>
  BY DEF Abort
<1>2. \A b \in Actor :
        \/ pc'[b] = "idle"
        \/ pc'[b] = pc[b] /\ batch'[b] = batch[b]
  BY <1>1 DEF IInv, TypeInv, TypeOK
<1>3. Exclusive'
  BY <1>1, <1>2, Facts DEF IInv, Exclusive
<1>4. \A q \in Runner : JobInv(q)'
  BY <1>1, <1>2, Facts DEF IInv, JobInv, Looping, Of
<1>5. \A o \in Operator : ScriptInv(o)'
  BY <1>1, <1>2, Facts DEF IInv, ScriptInv, Of
<1>6. QED
  BY <1>1, <1>3, <1>4, <1>5 DEF IInv, Close, OldPruned, Honest, Of, ClosedHoursComplete

\* A script starts at the current hour, without lock and watermark.
LEMMA InvStartScript ==
  ASSUME Regular, IInv, TypeInv', NEW o \in Operator, StartScript(o)
  PROVE  IInv'
<1>1. /\ pc' = [pc EXCEPT ![o] = "aggregate"] /\ hour' = [hour EXCEPT ![o] = now]
      /\ last' = [last EXCEPT ![o] = Larger(0, now - HoursBack)]
      /\ UNCHANGED <<now, rows, received, rollup, watermark, lock, batch>>
  BY DEF StartScript
<1>2. \A b \in Actor : b # o => pc'[b] = pc[b] /\ hour'[b] = hour[b] /\ last'[b] = last[b]
  BY <1>1 DEF IInv, TypeInv, TypeOK
<1>3. Exclusive'
  BY <1>1, <1>2, Facts DEF IInv, Exclusive
<1>4. \A q \in Runner : JobInv(q)'
  BY <1>1, <1>2, Facts DEF IInv, JobInv, Looping, Of
<1>5. \A p \in Operator : ScriptInv(p)'
  <2>1. Larger(0, now - HoursBack) <= now /\ now - HoursBack <= Larger(0, now - HoursBack)
    BY Facts DEF Larger
  <2>2. ScriptInv(o)'
    BY <1>1, <2>1, Facts DEF IInv, TypeInv, TypeOK, ScriptInv
  <2>3. \A p \in Operator : p # o => ScriptInv(p)'
    BY <1>1, <1>2, Facts DEF IInv, ScriptInv, Of
  <2>4. QED
    BY <2>2, <2>3
<1>6. QED
  BY <1>1, <1>3, <1>4, <1>5 DEF IInv, Close, OldPruned, Honest, Of, ClosedHoursComplete

\* The script goes back one hour, and no further than --hours-back.
LEMMA InvScriptNext ==
  ASSUME Regular, IInv, TypeInv', NEW o \in Operator, ScriptNext(o)
  PROVE  IInv'
<1>1. /\ pc[o] = "mark" /\ hour' = [hour EXCEPT ![o] = Larger(0, hour[o] - 1)]
      /\ pc' = [pc EXCEPT ![o] = IF hour[o] > last[o] THEN "aggregate" ELSE "idle"]
      /\ UNCHANGED <<now, rows, received, rollup, watermark, lock, fired, last, batch>>
  BY DEF ScriptNext
<1>2. \A b \in Actor : b # o => pc'[b] = pc[b] /\ hour'[b] = hour[b]
  BY <1>1 DEF IInv, TypeInv, TypeOK
<1>3. Exclusive'
  BY <1>1, <1>2, Facts DEF IInv, Exclusive
<1>4. \A q \in Runner : JobInv(q)'
  BY <1>1, <1>2, Facts DEF IInv, JobInv, Looping, Of
<1>5. \A p \in Operator : ScriptInv(p)'
  <2>1. pc'[o] # "idle" => hour[o] > last[o] /\ pc'[o] = "aggregate"
    BY <1>1, Facts DEF IInv, TypeInv, TypeOK
  <2>2. hour'[o] = Larger(0, hour[o] - 1) /\ hour[o] <= now /\ now - HoursBack <= last[o]
    BY <1>1, Facts DEF IInv, TypeInv, TypeOK, ScriptInv
  <2>3. hour[o] > last[o] => hour'[o] <= now /\ last[o] <= hour'[o]
    BY <2>2, Facts DEF Larger
  <2>4. ScriptInv(o)'
    BY <1>1, <2>1, <2>2, <2>3 DEF ScriptInv
  <2>5. \A p \in Operator : p # o => ScriptInv(p)'
    BY <1>1, <1>2, Facts DEF IInv, ScriptInv, Of
  <2>6. QED
    BY <2>4, <2>5
<1>6. QED
  BY <1>1, <1>3, <1>4, <1>5 DEF IInv, Close, OldPruned, Honest, Of, ClosedHoursComplete

LEMMA InvStep == Regular /\ IInv /\ [Next]_vars => IInv'
<1> SUFFICES ASSUME Regular, IInv, [Next]_vars
             PROVE  IInv'
  OBVIOUS
<1>1. TypeInv'
  BY TypeStep DEF IInv
<1>2. CASE UNCHANGED vars
  BY <1>1, <1>2 DEF vars, locals, IInv, Close, OldPruned, Honest, Of, Exclusive,
                    JobInv, ScriptInv, Looping, ClosedHoursComplete
<1>3. CASE Next
  <2>1. \A a \in Actor : Aggregate(a) \/ Upsert(a) \/ Abort(a) => IInv'
    BY <1>1, InvAggregate, InvUpsert, InvAbort
  <2>2. \A r \in Runner : JobStep(r) => IInv'
    BY <1>1, <2>1, InvFire, InvReadWatermark, InvMark DEF JobStep, Actor
  <2>3. \A o \in Operator : ScriptStep(o) => IInv'
    BY <1>1, <2>1, InvStartScript, InvScriptNext DEF ScriptStep, Actor
  <2>4. QED
    BY <1>1, <1>3, <2>1, <2>2, <2>3, InvReceive, InvNextHour, InvLockLapses, InvPrune
       DEF Next
<1>4. QED
  BY <1>2, <1>3

LEMMA SpecIInv == ASSUME Regular PROVE Spec => []IInv
<1>1. IInv /\ [Next]_vars => IInv'
  BY InvStep
<1>2. QED
  BY <1>1, InvInit, PTL DEF Spec

\* _run_materialize_attribution: the watermark never closes an hour whose spans
\* are not all counted, whatever runs are missed or die between two commits.
THEOREM ClosedHoursAreComplete == ASSUME Regular PROVE Spec => []ClosedHoursComplete
<1>1. IInv => ClosedHoursComplete
  BY DEF IInv
<1>2. QED
  BY <1>1, SpecIInv, PTL

\* _run_span_retention: "history lives in the cost_attribution rollup".  The
\* pruning stays behind the watermark, so a span is counted before it goes.
THEOREM PrunedAreCounted == ASSUME Regular PROVE Spec => []PrunedAreRolledUp
<1>1. IInv => PrunedAreRolledUp
  <2> SUFFICES ASSUME IInv, NEW s \in received \ rows
               PROVE  s \in rollup[HourOf[s]]
    BY DEF PrunedAreRolledUp
  <2>1. HourOf[s] <= now - Retention
    BY DEF IInv, OldPruned
  <2>2. HourOf[s] <= watermark
    BY <2>1, Facts
  <2>3. QED
    BY <2>2 DEF IInv, ClosedHoursComplete
<1>2. QED
  BY <1>1, SpecIInv, PTL

(***************************************************************************)
(* Refinement, where in addition one operator at a time runs the script    *)
(***************************************************************************)

OneOperator == \A o, p \in Operator : o = p

\* What a script is about to show of the current hour is no less than what is shown.
Previews ==
  \A o \in Operator : pc[o] = "upsert" /\ hour[o] = now => rollup[now] \subseteq batch[o]

LEMMA PreviewsInit == Init => Previews
  BY DEF Init, Previews, Actor

LEMMA PreviewsStep ==
  ASSUME Regular, OneOperator, IInv, Previews, IInv', [Next]_vars
  PROVE  Previews'
<1> SUFFICES ASSUME NEW o \in Operator, pc'[o] = "upsert", hour'[o] = now'
             PROVE  rollup'[now'] \subseteq batch'[o]
  BY DEF Previews
<1>a. o \in Actor /\ o \notin Runner /\ now \in Hour
  BY Facts DEF IInv, TypeInv, TypeOK
<1>b. pc \in [Actor -> Steps] /\ hour \in [Actor -> Hour] /\ batch \in [Actor -> SUBSET Span]
  BY DEF IInv, TypeInv, TypeOK, Steps
<1>1. ASSUME pc' = pc, UNCHANGED <<now, rollup, hour, batch>>
      PROVE  rollup'[now'] \subseteq batch'[o]
  BY <1>1 DEF Previews
<1>2. CASE NextHour
  BY <1>2, <1>a DEF NextHour, Regular, AllIdle, locals
<1>3. ASSUME NEW r \in Runner, Fire(r) \/ ReadWatermark(r) \/ Mark(r)
      PROVE  rollup'[now'] \subseteq batch'[o]
  <2>1. pc'[o] = pc[o] /\ hour'[o] = hour[o] /\ UNCHANGED <<now, rollup, batch>>
    BY <1>3, <1>a, <1>b DEF Fire, ReadWatermark, Loop, Mark
  <2>2. QED
    BY <2>1 DEF Previews
<1>4. ASSUME NEW a \in Actor, Aggregate(a)
      PROVE  rollup'[now'] \subseteq batch'[o]
  <2>1. CASE a = o
    <3>1. batch'[o] = {s \in rows : HourOf[s] = hour[o]} /\ UNCHANGED <<now, rollup, hour>>
      BY <1>4, <2>1, <1>a, <1>b DEF Aggregate
    <3>2. batch'[o] = Of(now)
      BY <3>1, Facts, Unpruned, WindowAssumption DEF Regular
    <3>3. QED
      BY <3>1, <3>2, <1>a DEF IInv, Honest
  <2>2. CASE a # o
    BY <1>4, <2>2, <1>a, <1>b DEF Aggregate, Previews
  <2>3. QED
    BY <2>1, <2>2
<1>5. ASSUME NEW a \in Actor, Upsert(a)
      PROVE  rollup'[now'] \subseteq batch'[o]
  <2>1. /\ pc[a] = "upsert" /\ pc' = [pc EXCEPT ![a] = "mark"]
        /\ rollup' = [rollup EXCEPT ![hour[a]] = Overwrite(rollup[hour[a]], batch[a])]
        /\ batch' = [batch EXCEPT ![a] = {}] /\ UNCHANGED <<now, hour>>
    BY <1>5 DEF Upsert
  <2>2. a # o
    BY <2>1, <1>a, <1>b
  <2>3. a \in Runner
    BY <2>2, <1>a DEF OneOperator, Actor
  <2>4. hour[a] < now /\ hour[a] \in Hour
    BY <2>1, <2>3, WhatIsWritten
  <2>5. rollup'[now] = rollup[now]
    BY <2>1, <2>4, Facts, <1>a DEF IInv, TypeInv, TypeOK
  <2>6. pc'[o] = pc[o] /\ batch'[o] = batch[o] /\ hour'[o] = hour[o] /\ now' = now
    BY <2>1, <2>2, <1>a, <1>b
  <2>7. QED
    BY <2>5, <2>6 DEF Previews
<1>6. ASSUME NEW a \in Actor, Abort(a)
      PROVE  rollup'[now'] \subseteq batch'[o]
  <2>1. a # o
    BY <1>6, <1>a, <1>b DEF Abort
  <2>2. QED
    BY <1>6, <2>1, <1>a, <1>b DEF Abort, Previews
<1>7. ASSUME NEW p \in Operator, StartScript(p) \/ ScriptNext(p)
      PROVE  rollup'[now'] \subseteq batch'[o]
  <2>1. p # o
    BY <1>7, <1>a, <1>b DEF StartScript, ScriptNext
  <2>2. QED
    BY <2>1 DEF OneOperator
<1>8. ASSUME NEW s \in Span, Receive(s)
      PROVE  rollup'[now'] \subseteq batch'[o]
  BY <1>1, <1>8 DEF Receive, locals
<1>9. CASE LockLapses \/ Prune \/ UNCHANGED vars
  BY <1>1, <1>9 DEF LockLapses, Prune, vars, locals
<1>10. QED
  BY <1>2, <1>3, <1>4, <1>5, <1>6, <1>7, <1>8, <1>9 DEF Next, JobStep, ScriptStep, Actor

LEMMA LedgerInit == Init => Ledger!Init
  BY DEF Init, Ledger!Init

\* An upsert posts the whole of an hour that is over, or shows more of the current
\* one: no group of the old totals survives that the new ones do not have.
LEMMA LedgerUpsert ==
  ASSUME Regular, IInv, Previews, NEW a \in Actor, Upsert(a)
  PROVE  Ledger!Next
<1>1. /\ pc[a] = "upsert"
      /\ rollup' = [rollup EXCEPT ![hour[a]] = Overwrite(rollup[hour[a]], batch[a])]
      /\ UNCHANGED <<now, received>>
  BY DEF Upsert
<1>2. /\ hour[a] \in Hour /\ hour[a] <= now /\ batch[a] \subseteq Of(hour[a])
      /\ hour[a] < now => batch[a] = Of(hour[a])
      /\ a \in Runner => hour[a] < now
  BY <1>1, WhatIsWritten
<1>3. rollup[hour[a]] \subseteq Of(hour[a])
  BY <1>2 DEF IInv, Honest
<1>4. rollup[hour[a]] \subseteq batch[a] => rollup' = [rollup EXCEPT ![hour[a]] = batch[a]]
  <2>1. rollup[hour[a]] \subseteq batch[a] => Overwrite(rollup[hour[a]], batch[a]) = batch[a]
    BY DEF Overwrite
  <2>2. QED
    BY <1>1, <2>1
<1>5. CASE hour[a] < now
  <2>1. rollup' = [rollup EXCEPT ![hour[a]] = Of(hour[a])]
    BY <1>2, <1>3, <1>4, <1>5
  <2>2. Ledger!Post(hour[a])
    BY <1>1, <1>5, <2>1 DEF Ledger!Post, Ledger!Of, Of
  <2>3. QED
    BY <1>2, <2>2 DEF Ledger!Next
<1>6. CASE ~(hour[a] < now)
  <2>1. hour[a] = now /\ a \in Operator
    BY <1>2, <1>6, Facts DEF Actor
  <2>2. rollup[now] \subseteq batch[a]
    BY <1>1, <2>1 DEF Previews
  <2>3. rollup' = [rollup EXCEPT ![now] = batch[a]] /\ batch[a] \in SUBSET Ledger!Of(now)
    BY <1>2, <1>4, <2>1, <2>2 DEF Ledger!Of, Of
  <2>4. Ledger!Preview
    BY <1>1, <2>2, <2>3 DEF Ledger!Preview
  <2>5. QED
    BY <2>4 DEF Ledger!Next
<1>7. QED
  BY <1>5, <1>6

LEMMA LedgerStep ==
  ASSUME Regular, IInv, Previews, [Next]_vars
  PROVE  [Ledger!Next]_<<now, received, rollup>>
<1>1. ASSUME NEW s \in Span, Receive(s)
      PROVE  Ledger!Next
  <2>1. Ledger!Receive(s)
    BY <1>1, Facts DEF Receive, Regular, Ledger!Receive
  <2>2. QED
    BY <2>1 DEF Ledger!Next
<1>2. CASE NextHour
  BY <1>2 DEF NextHour, Ledger!Next, Ledger!NextHour
<1>3. ASSUME NEW a \in Actor, Aggregate(a) \/ Upsert(a) \/ Abort(a)
      PROVE  [Ledger!Next]_<<now, received, rollup>>
  BY <1>3, LedgerUpsert DEF Aggregate, Abort
<1>4. ASSUME NEW r \in Runner, JobStep(r)
      PROVE  [Ledger!Next]_<<now, received, rollup>>
  BY <1>3, <1>4 DEF JobStep, Actor, Fire, ReadWatermark, Mark
<1>5. ASSUME NEW o \in Operator, ScriptStep(o)
      PROVE  [Ledger!Next]_<<now, received, rollup>>
  BY <1>3, <1>5 DEF ScriptStep, Actor, StartScript, ScriptNext
<1>6. CASE LockLapses \/ Prune \/ UNCHANGED vars
  BY <1>6 DEF LockLapses, Prune, vars
<1>7. QED
  BY <1>1, <1>2, <1>3, <1>4, <1>5, <1>6 DEF Next

\* Cost attribution implements HourlyLedger: whoever materialises an hour that is
\* over posts all of it, whatever died in between, and pruning takes nothing back.
THEOREM RollupImplementsLedger ==
  ASSUME Regular, OneOperator PROVE Spec => ImplementsLedger
<1>1. IInv /\ Previews /\ [Next]_vars => IInv' /\ Previews'
  BY InvStep, PreviewsStep
<1>2. IInv /\ Previews /\ [Next]_vars => [Ledger!Next]_<<now, received, rollup>>
  BY LedgerStep
<1>3. QED
  BY <1>1, <1>2, InvInit, PreviewsInit, LedgerInit, PTL
     DEF Spec, ImplementsLedger, Ledger!Spec

(***************************************************************************)
(* The anomaly scan                                                        *)
(***************************************************************************)

RowsTyped == tagRows \in Seq([hour : Nat, cost : RowCosts]) /\ clock \in Nat

LEMMA ScanTypes == ScanSpec => []RowsTyped
<1>1. ScanInit => RowsTyped
  BY DEF ScanInit, RowsTyped
<1>2. RowsTyped /\ [ScanNext]_scanVars => RowsTyped'
  <2> SUFFICES ASSUME RowsTyped, [ScanNext]_scanVars PROVE RowsTyped'
    OBVIOUS
  <2>1. CASE WriteRow
    <3>1. PICK c \in RowCosts : tagRows' = Append(tagRows, [hour |-> clock, cost |-> c]) /\ clock' = clock
      BY <2>1 DEF WriteRow
    <3>2. [hour |-> clock, cost |-> c] \in [hour : Nat, cost : RowCosts]
      BY DEF RowsTyped
    <3> DEFINE Row == [hour : Nat, cost : RowCosts]
               row == [hour |-> clock, cost |-> c]
    <3>3. tagRows \in Seq(Row) /\ row \in Row /\ tagRows' = Append(tagRows, row)
      BY <3>1, <3>2 DEF RowsTyped
    <3>4. tagRows' \in Seq(Row)
      <4> HIDE DEF Row, row
      <4> QED BY <3>3
    <3> QED BY <3>1, <3>4 DEF RowsTyped
  <2>2. CASE HourPasses
    BY <2>2 DEF HourPasses, RowsTyped
  <2>3. CASE UNCHANGED scanVars
    BY <2>3 DEF scanVars, RowsTyped
  <2> QED BY <2>1, <2>2, <2>3 DEF ScanNext
<1> QED BY <1>1, <1>2, PTL DEF ScanSpec

LEMMA CostsTyped ==
  ASSUME RowsTyped
  PROVE  /\ Len(Costs) \in Nat /\ Costs \in [1 .. Len(Costs) -> Nat]
         /\ DOMAIN Costs = 1 .. Len(Costs)
<1> DEFINE before == {i \in DOMAIN tagRows : tagRows[i].hour < clock - LookbackHours}
           n == Len(tagRows)
           k == Cardinality(before)
           Row == [hour : Nat, cost : RowCosts]
<1>1. n \in Nat /\ DOMAIN tagRows = 1 .. n /\ \A i \in 1 .. n : tagRows[i] \in Row
  <2>1. tagRows \in Seq(Row)
    BY DEF RowsTyped
  <2> HIDE DEF Row
  <2> QED BY <2>1
<1>2. k \in Nat /\ k <= n
  <2>1. before \in SUBSET (1 .. n) /\ before \in SUBSET before
    BY <1>1
  <2> HIDE DEF before
  <2> QED BY <1>1, <2>1, SubsetCounted
<1>3. InWindow = SubSeq(tagRows, k + 1, n)
  BY DEF InWindow
<1> HIDE DEF k, n
<1>4. InWindow \in Seq(Row)
  <2>1. k + 1 \in Int /\ n \in Int /\ \A i \in k + 1 .. n : tagRows[i] \in Row
    BY <1>1, <1>2
  <2> HIDE DEF Row
  <2> QED BY <1>3, <2>1, SubSeqProperties
<1>5. \A i \in 1 .. Len(InWindow) : InWindow[i].cost \in RowCosts
  <2>1. \A i \in 1 .. Len(InWindow) : InWindow[i] \in Row
    <3> HIDE DEF Row
    <3> QED BY <1>4
  <2> QED BY <2>1
<1>6. Costs = [i \in 1 .. Len(InWindow) |-> InWindow[i].cost]
  BY <1>4 DEF Costs
<1>7. Costs \in Seq(RowCosts) /\ Len(Costs) = Len(InWindow)
  <2>1. Len(InWindow) \in Nat
    BY <1>4
  <2> QED BY <1>5, <1>6, <2>1
<1>8. RowCosts \subseteq Nat
  BY ScanAssumption
<1>9. Len(Costs) \in Nat /\ DOMAIN Costs = 1 .. Len(Costs)
  BY <1>7
<1>10. Costs \in [1 .. Len(Costs) -> Nat]
  <2>1. \A i \in 1 .. Len(Costs) : Costs[i] \in RowCosts
    BY <1>5, <1>6, <1>7
  <2>2. Costs = [i \in 1 .. Len(Costs) |-> Costs[i]]
    BY <1>6, <1>7, <1>9
  <2> QED BY <1>8, <2>1, <2>2
<1> QED BY <1>9, <1>10

\* The fences of enough costs, by the values at the quarters of their order.
LEMMA FencesAre ==
  ASSUME NEW n \in Nat, n >= 5, NEW v \in [1 .. n -> Nat], n = Len(v), NEW c \in Nat
  PROVE  LET q1 == AtIndex(v, n \div 4)
             q3 == AtIndex(v, (3 * n) \div 4)
         IN  /\ q1 \in Nat /\ q3 \in Nat
             /\ 2 * c > Fences(v).high => c > q3
             /\ 2 * c < Fences(v).low => c < q1
             /\ q1 = q3 => Fences(v) = [low |-> 2 * q1, high |-> 2 * q1]
<1> DEFINE q1 == AtIndex(v, n \div 4)
           q3 == AtIndex(v, (3 * n) \div 4)
<1>1. v \in [1 .. n -> Int]
  OBVIOUS
<1>2. n \div 4 \in 0 .. n - 1 /\ (3 * n) \div 4 \in n \div 4 .. n - 1
  OBVIOUS
<1>3. (3 * n) \div 4 \in 0 .. n - 1
  BY <1>2
<1>4. q1 \in Nat /\ q3 \in Nat
  <2>1. (\E j \in 1 .. n : q1 = v[j]) /\ \E j \in 1 .. n : q3 = v[j]
    BY <1>1, <1>2, <1>3, AtIndexIs
  <2> QED BY <2>1
<1>5. q1 <= q3
  BY <1>1, <1>2, AtIndexGrows
<1>6. Quartile(v, 1) = q1 /\ Quartile(v, 3) = q3
  <2>1. (1 * n) \div 4 = n \div 4
    OBVIOUS
  <2> QED BY <1>2, <2>1 DEF Quartile
<1>7. Fences(v) = [low |-> 2 * q1 - 3 * (q3 - q1), high |-> 2 * q3 + 3 * (q3 - q1)]
  BY <1>6 DEF Fences
<1> HIDE DEF q1, q3
<1>8. /\ 2 * c > Fences(v).high => c > q3
      /\ 2 * c < Fences(v).low => c < q1
  BY <1>4, <1>5, <1>7
<1>9. q1 = q3 => Fences(v) = [low |-> 2 * q1, high |-> 2 * q1]
  BY <1>4, <1>7
<1> QED BY <1>4, <1>8, <1>9 DEF q1, q3

\* get_cost_anomalies: an hour that is flagged high is among the dearest quarter of
\* the window, one that is flagged low among the cheapest.
THEOREM AlertsStayExtreme == ScanSpec => []AlertsAreExtreme
<1>1. RowsTyped => AlertsAreExtreme
  <2> SUFFICES ASSUME RowsTyped, Alert # "none" PROVE AlertsAreExtreme
    BY DEF AlertsAreExtreme
  <2> DEFINE n == Len(Costs)
             c == Costs[n]
             q1 == AtIndex(Costs, n \div 4)
             q3 == AtIndex(Costs, (3 * n) \div 4)
             above == {i \in DOMAIN Costs : Costs[i] >= Last(Costs)}
             below == {i \in DOMAIN Costs : Costs[i] <= Last(Costs)}
  <2>1. n \in Nat /\ Costs \in [1 .. n -> Nat] /\ DOMAIN Costs = 1 .. n
    BY CostsTyped
  <2>2. n >= MinDataPoints
    BY <2>1, ScanAssumption DEF Alert
  <2>3. n >= 5 /\ c \in Nat /\ Last(Costs) = c
    BY <2>1, <2>2, ScanAssumption DEF Last
  <2>4. /\ q1 \in Nat /\ q3 \in Nat
        /\ 2 * c > Fences(Costs).high => c > q3
        /\ 2 * c < Fences(Costs).low => c < q1
    BY <2>1, <2>3, FencesAre
  <2>5. Costs \in [1 .. n -> Int] /\ n \div 4 \in 0 .. n - 1 /\ (3 * n) \div 4 \in 0 .. n - 1
    BY <2>1, <2>3
  <2>6. ASSUME Alert = "high"
        PROVE  Cardinality(above) < n - (3 * n) \div 4
    <3>1. c > q3
      BY <2>3, <2>4, <2>6 DEF Alert
    <3>2. above \in SUBSET (1 .. n) /\ UpTo(Costs, n, q3) \in SUBSET (1 .. n)
          /\ above \cap UpTo(Costs, n, q3) = {}
      BY <2>1, <2>3, <2>4, <3>1 DEF UpTo
    <3>3. Cardinality(UpTo(Costs, n, q3)) > (3 * n) \div 4
      BY <2>1, <2>5, AtIndexIs
    <3> HIDE DEF above, q3
    <3>4. /\ Cardinality(above) \in Nat /\ Cardinality(UpTo(Costs, n, q3)) \in Nat
          /\ Cardinality(above) + Cardinality(UpTo(Costs, n, q3)) <= n
      BY <2>1, <3>2, ApartCounted
    <3> QED BY <2>1, <2>5, <3>3, <3>4
  <2>7. ASSUME Alert = "low"
        PROVE  Cardinality(below) <= n \div 4
    <3>1. c < q1
      BY <2>3, <2>4, <2>7 DEF Alert
    <3>2. below \in SUBSET Below(Costs, n, q1) /\ Below(Costs, n, q1) \in SUBSET (1 .. n)
      BY <2>1, <2>3, <2>4, <3>1 DEF Below
    <3>3. Cardinality(Below(Costs, n, q1)) <= n \div 4
      BY <2>1, <2>5, AtIndexIs
    <3> HIDE DEF below, q1
    <3>4. /\ Cardinality(below) \in Nat /\ Cardinality(Below(Costs, n, q1)) \in Nat
          /\ Cardinality(below) <= Cardinality(Below(Costs, n, q1))
      BY <2>1, <3>2, SubsetCounted
    <3> QED BY <2>1, <2>5, <3>3, <3>4
  <2> QED BY <2>6, <2>7 DEF AlertsAreExtreme, CountOf
<1> QED BY <1>1, ScanTypes, PTL

\* Of values that are c but for the last, c is at every index that is neither the
\* first nor the last.
LEMMA MiddleIs ==
  ASSUME NEW n \in Nat, NEW v \in [1 .. n -> Nat], NEW c \in Nat,
         \A i \in 1 .. n - 1 : v[i] = c, NEW k \in 1 .. n - 2
  PROVE  AtIndex(v, k) = c
<1> DEFINE x == AtIndex(v, k)
<1>1. n >= 3 /\ k \in 0 .. n - 1 /\ v \in [1 .. n -> Int]
  OBVIOUS
<1>2. /\ x \in Int /\ \E j \in 1 .. n : x = v[j]
      /\ Cardinality(Below(v, n, x)) <= k /\ Cardinality(UpTo(v, n, x)) > k
  BY <1>1, AtIndexIs
<1> HIDE DEF x
<1>3. SUFFICES ASSUME x # c PROVE FALSE
  BY DEF x
<1>4. x = v[n]
  BY <1>2, <1>3
<1>5. Cardinality(1 .. n - 1) = n - 1 /\ Cardinality({n}) = 1
  <2>1. Cardinality(1 .. n - 1) = IF 1 > n - 1 THEN 0 ELSE n - 1 - 1 + 1
    BY <1>1, 1 \in Int, n - 1 \in Int, FS_Interval
  <2>2. Cardinality(1 .. n - 1) = n - 1
    BY <1>1, <2>1
  <2> QED BY <2>2, FS_Singleton
<1>6. CASE x > c
  <2>1. 1 .. n - 1 \in SUBSET Below(v, n, x) /\ Below(v, n, x) \in SUBSET (1 .. n)
    BY <1>2, <1>6 DEF Below
  <2>2. /\ Cardinality(Below(v, n, x)) \in Nat
        /\ Cardinality(1 .. n - 1) <= Cardinality(Below(v, n, x))
    BY <2>1, SubsetCounted
  <2> QED BY <1>2, <1>5, <2>2
<1>7. CASE x < c
  <2>1. UpTo(v, n, x) \in SUBSET {n} /\ {n} \in SUBSET (1 .. n)
    BY <1>1, <1>2, <1>7 DEF UpTo
  <2>2. Cardinality(UpTo(v, n, x)) \in Nat /\ Cardinality(UpTo(v, n, x)) <= Cardinality({n})
    BY <2>1, SubsetCounted
  <2> QED BY <1>2, <1>5, <2>2
<1> QED BY <1>2, <1>3, <1>6, <1>7

\* get_cost_anomalies: the newest hour is flagged when it differs from a history
\* that is constant, by however little.
THEOREM OutliersStayFound == ScanSpec => []OutliersAreFound
<1>1. RowsTyped => OutliersAreFound
  <2> SUFFICES ASSUME RowsTyped, NEW c \in RowCosts, Len(Costs) >= MinDataPoints,
                      \A i \in 1 .. Len(Costs) - 1 : Costs[i] = c
               PROVE  /\ Last(Costs) > c => Alert = "high"
                      /\ Last(Costs) < c => Alert = "low"
    BY DEF OutliersAreFound
  <2> DEFINE n == Len(Costs)
  <2>1. n \in Nat /\ Costs \in [1 .. n -> Nat] /\ n >= 5 /\ c \in Nat
    BY CostsTyped, ScanAssumption
  <2>2. n \div 4 \in 1 .. n - 2 /\ (3 * n) \div 4 \in 1 .. n - 2
    BY <2>1
  <2>3. AtIndex(Costs, n \div 4) = c /\ AtIndex(Costs, (3 * n) \div 4) = c
    BY <2>1, <2>2, MiddleIs
  <2>4. Fences(Costs) = [low |-> 2 * c, high |-> 2 * c]
    BY <2>1, <2>3, FencesAre
  <2>5. Last(Costs) = Costs[n] /\ Costs[n] \in Nat /\ ~(n < MinDataPoints)
    BY <2>1, ScanAssumption DEF Last
  <2> QED BY <2>1, <2>4, <2>5 DEF Alert
<1> QED BY <1>1, ScanTypes, PTL

(***************************************************************************)
(* The cost prediction                                                     *)
(***************************************************************************)

SpentTyped == price \in Prices \cup {NoPrice} /\ spent \in Seq(SpanCosts)

LEMMA PredictTypes == PredictSpec => []SpentTyped
<1>1. PredictInit => SpentTyped
  BY DEF PredictInit, SpentTyped
<1>2. SpentTyped /\ [PredictNext]_predictVars => SpentTyped'
  <2> SUFFICES ASSUME SpentTyped, [PredictNext]_predictVars PROVE SpentTyped'
    OBVIOUS
  <2>1. CASE SpanArrives
    BY <2>1 DEF SpanArrives, SpentTyped
  <2>2. CASE SpanAges
    BY <2>2 DEF SpanAges, SpentTyped, Front
  <2>3. CASE UNCHANGED predictVars
    BY <2>3 DEF predictVars, SpentTyped
  <2> QED BY <2>1, <2>2, <2>3 DEF PredictNext
<1> QED BY <1>1, <1>2, PTL DEF PredictSpec

LEMMA HistoryTyped ==
  ASSUME SpentTyped
  PROVE  /\ Len(History) \in Nat /\ History \in [1 .. Len(History) -> Nat]
         /\ DOMAIN History = 1 .. Len(History)
<1> DEFINE m == IF Len(spent) < MaxSamples THEN Len(spent) ELSE MaxSamples
<1>1. /\ Len(spent) \in Nat /\ MaxSamples \in Nat /\ SpanCosts \subseteq Nat
      /\ \A i \in 1 .. Len(spent) : spent[i] \in SpanCosts
  BY PredictionAssumption DEF SpentTyped
<1>2. m \in Int /\ \A i \in 1 .. m : spent[i] \in Nat
  <2>1. m \in Nat /\ m <= Len(spent)
    BY <1>1
  <2> HIDE DEF m
  <2>2. \A i \in 1 .. m : i \in 1 .. Len(spent)
    BY <1>1, <2>1
  <2>3. \A i \in 1 .. m : spent[i] \in SpanCosts
    BY <1>1, <2>2
  <2>4. \A i \in 1 .. m : spent[i] \in Nat
    BY <1>1, <2>3
  <2>5. m \in Int
    BY <2>1
  <2> QED BY <2>4, <2>5
<1>3. History = SubSeq(spent, 1, m)
  BY DEF History
<1> HIDE DEF m
<1>4. History \in Seq(Nat)
  BY <1>2, <1>3, 1 \in Int, SubSeqProperties
<1> QED BY <1>4

LEMMA Weighs ==
  ASSUME NEW f \in 0 .. 100, NEW d \in Nat
  PROVE  f * d \in Nat /\ f * d <= 100 * d
<1>1. f * d \in Nat /\ (100 - f) * d \in Nat /\ (100 - f) * d = 100 * d - f * d
  OBVIOUS
<1> QED BY <1>1

\* A percentile lies between its neighbours in the order.
LEMMA PercentileIs ==
  ASSUME NEW n \in Nat \ {0}, NEW v \in [1 .. n -> Int], Len(v) = n, NEW pct \in 0 .. 100
  PROVE  LET m == (pct * (n - 1)) \div 100 IN
         /\ Percentile(v, pct) \in Int /\ m \in 0 .. n - 1
         /\ 100 * AtIndex(v, m) <= Percentile(v, pct)
         /\ m + 1 < n => Percentile(v, pct) <= 100 * AtIndex(v, m + 1)
<1> DEFINE at == pct * (n - 1)
           m == at \div 100
           low == AtIndex(v, m)
           high == AtIndex(v, m + 1)
<1>1. at \in Nat /\ at <= 100 * (n - 1)
  BY n - 1 \in Nat, Weighs
<1>2. m \in 0 .. n - 1 /\ at % 100 \in 0 .. 100
  <2> HIDE DEF at
  <2> QED BY <1>1
<1>3. low \in Int
  BY <1>2, AtIndexIs
<1>4. Percentile(v, pct) = IF m + 1 >= n THEN 100 * AtIndex(v, n - 1)
                           ELSE 100 * low + (at % 100) * (high - low)
  BY DEF Percentile
<1>5. CASE m + 1 >= n
  <2>1. m = n - 1
    BY <1>2, <1>5
  <2> QED BY <1>2, <1>3, <1>4, <1>5, <2>1
<1>6. CASE m + 1 < n
  <2>1. m + 1 \in m .. n - 1 /\ m + 1 \in 0 .. n - 1
    BY <1>2, <1>6
  <2>2. high \in Int /\ low <= high
    BY <1>2, <2>1, AtIndexIs, AtIndexGrows
  <2> DEFINE f == at % 100
             d == high - low
  <2>3. d \in Nat
    BY <1>3, <2>2
  <2>4. f * d \in Nat /\ f * d <= 100 * d
    BY <1>2, <2>3, Weighs
  <2>5. Percentile(v, pct) = 100 * low + f * d
    BY <1>2, <1>4, <1>6
  <2> HIDE DEF f, at, m
  <2>6. Percentile(v, pct) \in Int /\ 100 * low <= Percentile(v, pct) /\ Percentile(v, pct) <= 100 * high
    BY <1>3, <2>2, <2>4, <2>5
  <2> QED BY <1>2, <2>6 DEF m, at
<1> QED BY <1>2, <1>5, <1>6

\* How many values a percentile leaves out on either side.
Under(v, n, p) == {i \in 1 .. n : 100 * v[i] < p}
Over(v, n, p) == {i \in 1 .. n : 100 * v[i] > p}

LEMMA LeftOut ==
  ASSUME NEW n \in Nat \ {0}, NEW v \in [1 .. n -> Int], Len(v) = n, NEW pct \in 0 .. 100
  PROVE  /\ Cardinality(Under(v, n, Percentile(v, pct)))
              <= (pct * (n - 1)) \div 100 + 1
         /\ Cardinality(Over(v, n, Percentile(v, pct)))
              <= ((100 - pct) * (n - 1)) \div 100 + 1
<1> DEFINE m == (pct * (n - 1)) \div 100
           p == Percentile(v, pct)
           less == {i \in 1 .. n : 100 * v[i] < p}
           more == {i \in 1 .. n : 100 * v[i] > p}
<1>1. /\ p \in Int /\ m \in 0 .. n - 1 /\ 100 * AtIndex(v, m) <= p
      /\ m + 1 < n => p <= 100 * AtIndex(v, m + 1)
  BY PercentileIs, ZenonT(60)
<1>2. AtIndex(v, m) \in Int /\ Cardinality(UpTo(v, n, AtIndex(v, m))) > m
  BY <1>1, AtIndexIs
<1>3. m + 1 < n => /\ AtIndex(v, m + 1) \in Int
                   /\ Cardinality(Below(v, n, AtIndex(v, m + 1))) <= m + 1
  BY <1>1, AtIndexIs, SMTT(60)
<1>4. n - 1 - m <= ((100 - pct) * (n - 1)) \div 100 + 1
  <2> DEFINE a == pct * (n - 1)
             b == (100 - pct) * (n - 1)
  <2>1. a \in Int /\ b \in Int /\ a + b = 100 * (n - 1)
    OBVIOUS
  <2>2. m = a \div 100
    OBVIOUS
  <2> HIDE DEF a, b, m
  <2>3. n - 1 - m <= b \div 100 + 1
    BY <2>1, <2>2
  <2> QED BY <2>3 DEF b
<1> HIDE DEF m, p
<1>5. Cardinality(less) <= m + 1
  <2>1. CASE m + 1 < n
    <3>1. less \in SUBSET Below(v, n, AtIndex(v, m + 1)) /\ Below(v, n, AtIndex(v, m + 1)) \in SUBSET (1 .. n)
      BY <1>1, <1>3, <2>1 DEF Below
    <3> HIDE DEF less
    <3>2. /\ Cardinality(less) \in Nat /\ Cardinality(Below(v, n, AtIndex(v, m + 1))) \in Nat
          /\ Cardinality(less) <= Cardinality(Below(v, n, AtIndex(v, m + 1)))
      BY <3>1, SubsetCounted
    <3> QED BY <1>1, <1>3, <2>1, <3>2
  <2>2. CASE ~(m + 1 < n)
    <3>1. less \in SUBSET (1 .. n) /\ less \in SUBSET less
      OBVIOUS
    <3> HIDE DEF less
    <3>2. Cardinality(less) \in Nat /\ Cardinality(less) <= n
      BY <3>1, SubsetCounted
    <3> QED BY <1>1, <2>2, <3>2
  <2> QED BY <2>1, <2>2
<1>6. Cardinality(more) <= n - 1 - m
  <2>1. /\ more \in SUBSET (1 .. n) /\ UpTo(v, n, AtIndex(v, m)) \in SUBSET (1 .. n)
        /\ more \cap UpTo(v, n, AtIndex(v, m)) = {}
    BY <1>1, <1>2 DEF UpTo
  <2> HIDE DEF more
  <2>2. /\ Cardinality(more) \in Nat /\ Cardinality(UpTo(v, n, AtIndex(v, m))) \in Nat
        /\ Cardinality(more) + Cardinality(UpTo(v, n, AtIndex(v, m))) <= n
    BY <2>1, ApartCounted
  <2> QED BY <1>1, <1>2, <2>2
<1>7. Cardinality(more) \in Nat
  <2>1. more \in SUBSET (1 .. n) /\ more \in SUBSET more
    OBVIOUS
  <2> HIDE DEF more
  <2> QED BY <2>1, SubsetCounted
<1>8. ((100 - pct) * (n - 1)) \div 100 \in Int
  BY (100 - pct) * (n - 1) \in Int
<1>9. Cardinality(more) <= ((100 - pct) * (n - 1)) \div 100 + 1
  <2> HIDE DEF more
  <2> DEFINE q == ((100 - pct) * (n - 1)) \div 100
  <2>1. q \in Int /\ n - 1 - m <= q + 1
    BY <1>4, <1>8
  <2> HIDE DEF q
  <2>2. Cardinality(more) <= q + 1
    BY <1>1, <1>6, <1>7, <2>1
  <2> QED BY <2>2 DEF q
<1> QED BY <1>5, <1>9 DEF m, p, Under, Over

LEMMA SparseHolds ==
  ASSUME NEW point \in Nat
  PROVE  Sparse(point).low <= 100 * Digits * point /\ 100 * Digits * point <= Sparse(point).high
<1>1. Digits * point \in Nat
  BY PredictionAssumption
<1>2. /\ 50 * Digits * point = 50 * (Digits * point)
      /\ 100 * Digits * point = 100 * (Digits * point)
      /\ 150 * Digits * point = 150 * (Digits * point)
  BY PredictionAssumption
<1> QED BY <1>1, <1>2 DEF Sparse

\* What IntervalIsHonest says of an answer.
HonestAnswer(answer) ==
  LET interval == answer.interval
      factor == RoundedQuotient(100 * answer.point * Digits, Percentile(History, 50))
      left(pct) == (pct * (Len(History) - 1)) \div 100 + 1
  IN  /\ interval.low <= 100 * Digits * answer.point
      /\ 100 * Digits * answer.point <= interval.high
      /\ ~interval.sparse =>
           /\ Cardinality(CostsBelow(factor, interval.low)) <= left(LowPct)
           /\ Cardinality(CostsAbove(factor, interval.high)) <= left(100 - HighPct)

\* CostPredictor: no more of the history than the percentiles leave out costs less
\* than the interval's low end, or more than its high end.
THEOREM IntervalsStayHonest == PredictSpec => []IntervalIsHonest
<1>1. SpentTyped => IntervalIsHonest
  <2> DEFINE n == Len(History)
             median == Percentile(History, 50)
  <2> SUFFICES ASSUME SpentTyped, NEW tokens \in TokenCounts, PredictCost(tokens).status = 200
               PROVE  HonestAnswer(PredictCost(tokens))
    BY DEF IntervalIsHonest, HonestAnswer
  <2> DEFINE point == PointEstimate(tokens)
             interval == PredictInterval(point)
             factor == RoundedQuotient(100 * point * Digits, median)
             scaled == Scaled(History, point, median)
             low == Percentile(scaled, LowPct)
             high == Percentile(scaled, HighPct)
  <2>1. /\ tokens.input >= 0 /\ tokens.output >= 0 /\ price # NoPrice
        /\ PredictCost(tokens).point = point /\ PredictCost(tokens).interval = interval
    <3>1. tokens.input \in Int /\ tokens.output \in Int
      BY PredictionAssumption
    <3>2. ~(tokens.input < 0 \/ tokens.output < 0)
      BY DEF PredictCost
    <3>3. price # NoPrice
      BY <3>2 DEF PredictCost
    <3>4. PredictCost(tokens) = [status |-> 200, point |-> point, interval |-> interval,
                                 sample_count |-> n]
      BY <3>2, <3>3 DEF PredictCost
    <3> HIDE DEF point, interval, n
    <3> QED BY <3>1, <3>2, <3>3, <3>4
  <2>2. point \in Nat
    <3>1. /\ tokens.input \in Nat /\ tokens.output \in Nat
          /\ price.input \in Nat /\ price.output \in Nat
      BY <2>1, PredictionAssumption DEF SpentTyped
    <3>2. tokens.input * price.input \in Nat /\ tokens.output * price.output \in Nat
      BY <3>1
    <3> QED BY <3>2 DEF PointEstimate
  <2>3. n \in Nat /\ History \in [1 .. n -> Nat] /\ DOMAIN History = 1 .. n
    BY HistoryTyped
  <2>4. CASE interval = Sparse(point)
    <3>1. interval.sparse = TRUE
      BY <2>4 DEF Sparse
    <3>2. interval.low <= 100 * Digits * point /\ 100 * Digits * point <= interval.high
      BY <2>2, <2>4, SparseHolds
    <3> HIDE DEF interval, point
    <3> QED BY <2>1, <3>1, <3>2 DEF HonestAnswer
  <2>5. CASE interval # Sparse(point)
    <3> HIDE DEF point
    <3>1. /\ ~(n < MinSamples) /\ median # 0
          /\ interval = [low |-> low, high |-> high, sparse |-> FALSE]
          /\ low <= 100 * Digits * point /\ 100 * Digits * point <= high
      BY <2>5 DEF PredictInterval, Enforced
    <3>2. n \in Nat \ {0} /\ History \in [1 .. n -> Int] /\ Len(History) = n
      BY <2>3, <3>1, PredictionAssumption
    <3> HIDE DEF n
    <3>3. median \in Int /\ median > 0
      <4> DEFINE m == (50 * (n - 1)) \div 100
      <4>1. median \in Int /\ m \in 0 .. n - 1 /\ 100 * AtIndex(History, m) <= median
        BY <3>2, 50 \in 0 .. 100, PercentileIs
      <4> HIDE DEF m, median
      <4>2. AtIndex(History, m) \in Nat
        <5>1. \E j \in 1 .. n : AtIndex(History, m) = History[j]
          BY <3>2, <4>1, AtIndexIs
        <5> QED BY <2>3, <5>1
      <4> QED BY <3>1, <4>1, <4>2
    <3>4. factor \in Int
      <4>1. 100 * point * Digits \in Int
        BY <2>2, PredictionAssumption
      <4> DEFINE a == 100 * point * Digits
      <4> HIDE DEF a, median
      <4>2. a \div median \in Int
        BY <3>3, <4>1 DEF a
      <4> QED BY <4>2 DEF RoundedQuotient, a
    <3>5. scaled = [i \in 1 .. n |-> History[i] * factor]
      BY <2>3 DEF Scaled
    <3> HIDE DEF factor, scaled
    <3>6. scaled \in [1 .. n -> Int] /\ Len(scaled) = n
      BY <3>2, <3>4, <3>5
    <3>7. \A i \in 1 .. n : 100 * History[i] * factor = 100 * scaled[i]
      BY <3>2, <3>4, <3>5
    <3>8. LowPct \in 0 .. 100 /\ HighPct \in 0 .. 100
      BY PredictionAssumption
    <3>9. /\ CostsBelow(factor, low) = Under(scaled, n, low)
          /\ CostsAbove(factor, high) = Over(scaled, n, high)
      BY <2>3, <3>7 DEF CostsBelow, CostsAbove, Under, Over
    <3>10. /\ Cardinality(Under(scaled, n, low)) <= (LowPct * (n - 1)) \div 100 + 1
           /\ Cardinality(Over(scaled, n, high)) <= ((100 - HighPct) * (n - 1)) \div 100 + 1
      <4>1. Cardinality(Under(scaled, n, Percentile(scaled, LowPct)))
              <= (LowPct * (n - 1)) \div 100 + 1
        BY <3>2, <3>6, <3>8, LeftOut
      <4>2. Cardinality(Over(scaled, n, Percentile(scaled, HighPct)))
              <= ((100 - HighPct) * (n - 1)) \div 100 + 1
        BY <3>2, <3>6, <3>8, LeftOut
      <4> QED BY <4>1, <4>2
    <3>11. interval.low = low /\ interval.high = high
      BY <3>1
    <3> DEFINE answer == PredictCost(tokens)
    <3>12. /\ answer.interval.low = low /\ answer.interval.high = high
           /\ answer.point = point /\ factor = RoundedQuotient(100 * answer.point * Digits, median)
      BY <2>1, <3>11 DEF factor
    <3>13. low <= 100 * Digits * point /\ 100 * Digits * point <= high
      BY <3>1
    <3> HIDE DEF answer, low, high, interval
    <3>15. HonestAnswer(answer)
      <4> DEFINE f == RoundedQuotient(100 * answer.point * Digits, Percentile(History, 50))
      <4>1. f = factor /\ n = Len(History)
        BY <3>12 DEF median, n
      <4>2. /\ Cardinality(CostsBelow(f, answer.interval.low)) <= (LowPct * (n - 1)) \div 100 + 1
            /\ Cardinality(CostsAbove(f, answer.interval.high)) <= ((100 - HighPct) * (n - 1)) \div 100 + 1
        <5> HIDE DEF f
        <5>1. /\ CostsBelow(f, answer.interval.low) = Under(scaled, n, low)
              /\ CostsAbove(f, answer.interval.high) = Over(scaled, n, high)
          BY <3>9, <3>12, <4>1
        <5> QED BY <3>10, <5>1
      <4>3. answer.interval.low <= 100 * Digits * answer.point /\ 100 * Digits * answer.point <= answer.interval.high
        BY <3>12, <3>13
      <4> QED BY <4>1, <4>2, <4>3, Zenon DEF HonestAnswer
    <3> QED BY <3>15 DEF answer
  <2> QED BY <2>4, <2>5
<1> QED BY <1>1, PredictTypes, PTL

(***************************************************************************)
(* The cascade trace                                                       *)
(***************************************************************************)

Context == [trace : Nat, span : Nat, feature_tag : FeatureTags]
Header == [name : {"traceparent", "Traceparent"}, value : [trace : Nat, span : Nat] \cup {Malformed}]
KeptSpan == [trace : Nat, feature_tag : FeatureTags, cost : Nat, is_orchestrator : BOOLEAN,
             root : Orchestrator \cup {Untraced}]

CascadeTypes ==
  /\ context \in [Agent -> Context \cup {Untraced}]
  /\ headers \in [Agent -> Seq(Header)]
  /\ minted \in Nat
  /\ kept \in Seq(KeptSpan)
  /\ root \in [Agent -> Orchestrator \cup {Untraced}]

\* The orchestrators' traces are apart, and drawn so far.
TracesApart ==
  \A o \in Orchestrator : context[o] # Untraced =>
    /\ root[o] = o /\ context[o].trace \in 1 .. minted
    /\ \A p \in Orchestrator \ {o} : context[p] # Untraced => context[p].trace # context[o].trace

\* Nobody calls an orchestrator.
Uncalled == \A o \in Orchestrator : headers[o] = <<>>

\* trace and r belong together: an orchestrator and its trace.
Belongs(trace, r) == r \in Orchestrator /\ context[r] # Untraced /\ trace = context[r].trace

\* Headers name the trace of r, all of them, or nothing.
Names(hs, r) ==
  \A i \in DOMAIN hs : IF r = Untraced THEN hs[i].value = Malformed
                       ELSE hs[i].value # Malformed /\ Belongs(hs[i].value.trace, r)

\* An agent's context and headers are about its root.
Rooted(a) ==
  /\ root[a] = Untraced <=> context[a] = Untraced
  /\ context[a] # Untraced => Belongs(context[a].trace, root[a])
  /\ Names(headers[a], root[a])

CascadeInv == CascadeTypes /\ TracesApart /\ Uncalled /\ (\A a \in Agent : Rooted(a))

LEMMA CascadeStarts == CascadeInit => CascadeInv
<1> SUFFICES ASSUME CascadeInit PROVE CascadeInv
  OBVIOUS
<1>1. CascadeTypes
  BY DEF CascadeInit, CascadeTypes
<1>2. /\ \A a \in Agent : context[a] = Untraced /\ root[a] = Untraced /\ headers[a] = <<>>
      /\ kept = <<>>
  BY DEF CascadeInit
<1>3. \A a \in Agent : Rooted(a)
  BY <1>2 DEF Rooted, Names
<1> QED BY <1>1, <1>2, <1>3 DEF CascadeInv, TracesApart, Uncalled, Agent

\* What belongs together stays together while the orchestrators' contexts last.
LEMMA BelongsKept ==
  ASSUME \A o \in Orchestrator : context[o] # Untraced => context'[o] = context[o]
  PROVE  /\ \A t, r : Belongs(t, r) => Belongs(t, r)'
         /\ \A hs, r : Names(hs, r) => Names(hs, r)'
<1>1. ASSUME NEW t, NEW r, Belongs(t, r)
      PROVE  r \in Orchestrator /\ context'[r] # Untraced /\ t = context'[r].trace
  BY <1>1 DEF Belongs
<1>2. \A t, r : Belongs(t, r) => r \in Orchestrator /\ context'[r] # Untraced /\ t = context'[r].trace
  BY <1>1
<1> QED BY <1>2 DEF Belongs, Names

LEMMA StartsTrace ==
  ASSUME CascadeInv, NEW o \in Orchestrator, StartOrchestration(o)
  PROVE  CascadeInv'
<1> DEFINE new == [trace |-> minted + 1, span |-> minted + 2, feature_tag |-> AgentTag[o]]
<1>1. /\ context[o] = Untraced /\ context' = [context EXCEPT ![o] = new]
      /\ minted' = minted + 2 /\ root' = [root EXCEPT ![o] = o]
      /\ headers' = headers /\ kept' = kept
  BY DEF StartOrchestration
<1>2. /\ o \in Agent /\ minted \in Nat /\ DOMAIN context = Agent /\ DOMAIN root = Agent
      /\ AgentTag[o] \in FeatureTags /\ new \in Context /\ new # Untraced /\ new.trace = minted + 1
      /\ o # Untraced
  <2>1. o \in Agent /\ minted \in Nat /\ AgentTag[o] \in FeatureTags /\ o # Untraced
    BY CascadeAssumption DEF CascadeInv, CascadeTypes, Agent, FeatureTags
  <2>2. new \in Context /\ new.trace = minted + 1
    BY <2>1 DEF Context
  <2> QED BY <2>1, <2>2, CascadeAssumption DEF CascadeInv, CascadeTypes, Context
<1> HIDE DEF new
<1>3. CascadeTypes'
  BY <1>1, <1>2 DEF CascadeInv, CascadeTypes
<1>4. /\ context'[o] = new /\ root'[o] = o
      /\ \A a \in Agent \ {o} : context'[a] = context[a] /\ root'[a] = root[a]
  BY <1>1, <1>2
<1>5. TracesApart'
  <2>1. \A p \in Orchestrator \ {o} : context'[p] = context[p] /\ root'[p] = root[p]
    BY <1>4 DEF Agent
  <2>2. \A p \in Orchestrator \ {o} : context[p] # Untraced =>
          context[p].trace \in 1 .. minted /\ root[p] = p /\ context[p].trace # minted + 1
    BY <1>2 DEF CascadeInv, TracesApart
  <2> QED BY <1>1, <1>2, <1>4, <2>1, <2>2 DEF CascadeInv, TracesApart
<1>6. /\ \A t, r : Belongs(t, r) => Belongs(t, r)'
      /\ \A hs, r : Names(hs, r) => Names(hs, r)'
  BY <1>1, <1>4, BelongsKept DEF CascadeInv, Agent
<1>7. ASSUME NEW a \in Agent
      PROVE  Rooted(a)'
  <2>1. CASE a # o
    <3>1. context'[a] = context[a] /\ root'[a] = root[a] /\ headers'[a] = headers[a]
      BY <1>1, <1>4, <2>1
    <3> QED BY <1>6, <3>1 DEF Rooted, CascadeInv
  <2>2. CASE a = o
    <3>1. headers[o] = <<>>
      BY DEF CascadeInv, Uncalled
    <3> QED BY <1>1, <1>2, <1>4, <2>2, <3>1 DEF Rooted, Names, Belongs
  <2> QED BY <2>1, <2>2
<1>8. Uncalled'
  BY <1>1 DEF CascadeInv, Uncalled
<1> QED BY <1>3, <1>5, <1>6, <1>7, <1>8 DEF CascadeInv

\* What an agent sends is about its root, and hops leave it so or make nothing of it.
LEMMA SentNames ==
  ASSUME CascadeInv, NEW a \in Agent, NEW sent \in Outbound(a), NEW hs \in OnTheWay(sent)
  PROVE  /\ hs \in Seq(Header)
         /\ Names(hs, root[a]) \/ Names(hs, Untraced)
<1>1. /\ headers[a] \in Seq(Header) /\ Names(headers[a], root[a]) /\ Rooted(a)
      /\ context[a] \in Context \cup {Untraced}
  BY DEF CascadeInv, CascadeTypes, Rooted
<1>2. ASSUME context[a] # Untraced, NEW old \in Seq(Header), Names(old, root[a])
      PROVE  Inject(old, context[a]) \in Seq(Header) /\ Names(Inject(old, context[a]), root[a])
  <2> DEFINE value == [trace |-> context[a].trace, span |-> context[a].span]
             new == [name |-> "traceparent", value |-> value]
  <2>1. /\ value \in [trace : Nat, span : Nat] /\ value # Malformed
        /\ Belongs(value.trace, root[a]) /\ root[a] # Untraced
    BY <1>1, <1>2, CascadeAssumption DEF Rooted, Context
  <2> HIDE DEF value
  <2>2. new \in Header /\ new.value = value
    BY <2>1 DEF Header
  <2>3. CASE \E i \in DOMAIN old : old[i].name = "traceparent"
    <3>1. Inject(old, context[a]) =
            [i \in DOMAIN old |-> IF old[i].name = "traceparent" THEN [old[i] EXCEPT !.value = value] ELSE old[i]]
      BY <2>3 DEF Inject, value
    <3>2. \A i \in DOMAIN old : old[i] \in Header /\ [old[i] EXCEPT !.value = value] \in Header
      <4>1. \A i \in DOMAIN old : old[i] \in Header
        BY <1>2
      <4> QED BY <2>1, <4>1 DEF Header
    <3>3. \A i \in DOMAIN old : [old[i] EXCEPT !.value = value].value = value
      BY <3>2 DEF Header
    <3>4. DOMAIN Inject(old, context[a]) = DOMAIN old
      BY <3>1
    <3>5. Inject(old, context[a]) \in Seq(Header)
      <4>1. DOMAIN old = 1 .. Len(old) /\ Len(old) \in Nat
        BY <1>2
      <4> QED BY <3>1, <3>2, <4>1
    <3>6. \A i \in DOMAIN old : \/ Inject(old, context[a])[i].value = value
                                \/ Inject(old, context[a])[i].value = old[i].value
      BY <3>1, <3>3
    <3> QED BY <1>2, <2>1, <3>4, <3>5, <3>6 DEF Names
  <2>4. CASE ~ \E i \in DOMAIN old : old[i].name = "traceparent"
    <3>1. Inject(old, context[a]) = Append(old, new)
      BY <2>4 DEF Inject, value
    <3> HIDE DEF new
    <3>2. Append(old, new) \in Seq(Header)
      BY <1>2, <2>2
    <3>3. \A i \in DOMAIN Append(old, new) : (i \in DOMAIN old /\ Append(old, new)[i] = old[i])
                                             \/ Append(old, new)[i] = new
      BY <1>2
    <3> QED BY <1>2, <2>1, <2>2, <3>1, <3>2, <3>3 DEF Names
  <2> QED BY <2>3, <2>4
<1>3. <<>> \in Seq(Header) /\ \A r : Names(<<>>, r)
  BY DEF Names
<1>4. sent \in Seq(Header) /\ Names(sent, root[a])
  <2>1. CASE context[a] = Untraced
    BY <1>1, <1>3, <2>1 DEF Outbound
  <2>2. CASE context[a] # Untraced
    BY <1>1, <1>2, <1>3, <2>2 DEF Outbound
  <2> QED BY <2>1, <2>2
<1> DEFINE capital == [i \in DOMAIN sent |-> IF Lower(sent[i].name) = "traceparent"
                                            THEN [sent[i] EXCEPT !.name = "Traceparent"] ELSE sent[i]]
           mangled == [i \in DOMAIN sent |-> IF Lower(sent[i].name) = "traceparent"
                                            THEN [sent[i] EXCEPT !.value = Malformed] ELSE sent[i]]
<1>5. \A i \in DOMAIN sent :
        /\ sent[i] \in Header /\ Lower(sent[i].name) = "traceparent"
        /\ capital[i] = [sent[i] EXCEPT !.name = "Traceparent"]
        /\ mangled[i] = [sent[i] EXCEPT !.value = Malformed]
  <2>1. \A i \in DOMAIN sent : sent[i] \in Header
    BY <1>4
  <2>2. \A h \in Header : Lower(h.name) = "traceparent"
    BY DEF Header, Lower
  <2> QED BY <2>1, <2>2
<1>6. \A h \in Header : /\ [h EXCEPT !.name = "Traceparent"] \in Header
                        /\ [h EXCEPT !.name = "Traceparent"].value = h.value
                        /\ [h EXCEPT !.value = Malformed] \in Header
                        /\ [h EXCEPT !.value = Malformed].value = Malformed
  BY DEF Header
<1>7. DOMAIN sent = 1 .. Len(sent) /\ Len(sent) \in Nat
  BY <1>4
<1>8. hs \in {sent, <<>>, capital, mangled}
  BY DEF OnTheWay
<1>9. DOMAIN capital = DOMAIN sent /\ DOMAIN mangled = DOMAIN sent
  OBVIOUS
<1>10. capital = [i \in 1 .. Len(sent) |-> capital[i]] /\ mangled = [i \in 1 .. Len(sent) |-> mangled[i]]
  BY <1>7
<1> HIDE DEF capital, mangled
<1>11. capital \in Seq(Header) /\ Names(capital, root[a])
  <2>1. ASSUME NEW i \in DOMAIN sent
        PROVE  capital[i] \in Header /\ capital[i].value = sent[i].value
    <3>1. sent[i] \in Header /\ capital[i] = [sent[i] EXCEPT !.name = "Traceparent"]
      BY <1>5, <2>1
    <3> DEFINE h == sent[i]
    <3>2. h \in Header /\ [h EXCEPT !.name = "Traceparent"] \in Header /\ [h EXCEPT !.name = "Traceparent"].value = h.value
      <4>1. h \in Header
        BY <3>1
      <4> HIDE DEF h
      <4> QED BY <1>6, <4>1
    <3> QED BY <3>1, <3>2
  <2>2. capital \in Seq(Header)
    BY <1>7, <1>10, <2>1
  <2> QED BY <1>4, <1>9, <2>1, <2>2 DEF Names
<1>12. mangled \in Seq(Header) /\ Names(mangled, Untraced)
  <2>1. ASSUME NEW i \in DOMAIN sent
        PROVE  mangled[i] \in Header /\ mangled[i].value = Malformed
    <3>1. sent[i] \in Header /\ mangled[i] = [sent[i] EXCEPT !.value = Malformed]
      BY <1>5, <2>1
    <3> DEFINE h == sent[i]
    <3>2. h \in Header /\ [h EXCEPT !.value = Malformed] \in Header /\ [h EXCEPT !.value = Malformed].value = Malformed
      <4>1. h \in Header
        BY <3>1
      <4> HIDE DEF h
      <4> QED BY <1>6, <4>1
    <3> QED BY <3>1, <3>2
  <2>2. mangled \in Seq(Header)
    BY <1>7, <1>10, <2>1
  <2> QED BY <1>9, <2>1, <2>2 DEF Names
<1> QED BY <1>3, <1>4, <1>8, <1>11, <1>12

\* What a callee finds in them, and whom it belongs to from then on.
LEMMA ExtractFinds ==
  ASSUME NEW hs \in Seq(Header), NEW r, Names(hs, r)
  PROVE  IF hs = <<>> \/ r = Untraced THEN Extract(hs) = Untraced
         ELSE /\ Extract(hs) \in [trace : Nat, span : Nat]
              /\ Belongs(Extract(hs).trace, r)
<1> DEFINE found == {i \in DOMAIN hs : Lower(hs[i].name) = "traceparent"}
<1>1. DOMAIN hs = 1 .. Len(hs) /\ Len(hs) \in Nat /\ \A i \in 1 .. Len(hs) : hs[i] \in Header
  OBVIOUS
<1>2. \A h \in Header : /\ Lower(h.name) = "traceparent"
                        /\ h.value \in [trace : Nat, span : Nat] \cup {Malformed}
  BY DEF Header, Lower
<1>3. found = 1 .. Len(hs)
  BY <1>1, <1>2
<1>4. CASE hs = <<>>
  BY <1>3, <1>4 DEF Extract
<1>5. CASE hs # <<>>
  <2>1. found # {} /\ found \subseteq Nat
    BY <1>1, <1>3, <1>5
  <2>2. Min(found) \in found
    <3> HIDE DEF found
    <3> QED BY <2>1, SmallestOf DEF Min
  <2> DEFINE value == hs[Min(found)].value
  <2>3. Extract(hs) = IF value = Malformed THEN Untraced ELSE value
    BY <2>1 DEF Extract
  <2>4. Min(found) \in DOMAIN hs /\ value \in [trace : Nat, span : Nat] \cup {Malformed}
    BY <1>1, <1>2, <1>3, <2>2
  <2> HIDE DEF found
  <2> QED BY <1>5, <2>3, <2>4 DEF Names
<1> QED BY <1>4, <1>5

\* The context that a callee gets and the root it has belong together.
Joins(hs) == \E i \in DOMAIN hs : Lower(hs[i].name) = "traceparent" /\ hs[i].value # Malformed

LEMMA JoinsOrNot ==
  ASSUME NEW hs \in Seq(Header), NEW r \in Orchestrator \cup {Untraced}, Names(hs, r)
  PROVE  \/ Extract(hs) = Untraced /\ ~Joins(hs) /\ Names(hs, Untraced)
         \/ /\ Extract(hs) \in [trace : Nat, span : Nat] /\ Extract(hs) # Untraced
            /\ Joins(hs) /\ r # Untraced /\ Belongs(Extract(hs).trace, r)
<1>1. \A i \in DOMAIN hs : hs[i] \in Header
  OBVIOUS
<1>2. \A h \in Header : Lower(h.name) = "traceparent"
  BY DEF Header, Lower
<1>3. \A i \in DOMAIN hs : Lower(hs[i].name) = "traceparent"
  BY <1>1, <1>2
<1>4. CASE hs = <<>> \/ r = Untraced
  <2>1. Extract(hs) = Untraced
    BY <1>4, ExtractFinds
  <2>2. Names(hs, Untraced)
    BY <1>4 DEF Names
  <2> QED BY <1>3, <2>1, <2>2 DEF Joins, Names
<1>5. CASE hs # <<>> /\ r # Untraced
  <2>1. Extract(hs) \in [trace : Nat, span : Nat] /\ Belongs(Extract(hs).trace, r)
    BY <1>5, ExtractFinds
  <2>2. Extract(hs) # Untraced
    BY <2>1, CascadeAssumption
  <2>3. 1 \in DOMAIN hs
    BY <1>5
  <2>4. hs[1].value # Malformed
    BY <1>5, <2>3 DEF Names
  <2> QED BY <1>3, <1>5, <2>1, <2>2, <2>3, <2>4 DEF Joins
<1> QED BY <1>4, <1>5

LEMMA CallsAgent ==
  ASSUME CascadeInv, NEW a \in Agent, NEW b \in SubAgent, CallAgent(a, b)
  PROVE  CascadeInv'
<1> DEFINE joined(hs) == [trace |-> Extract(hs).trace, span |-> minted + 1, feature_tag |-> ""]
<1>1. PICK sent \in Outbound(a) : \E hs \in OnTheWay(sent) :
           /\ headers' = [headers EXCEPT ![b] = hs]
           /\ context' = [context EXCEPT ![b] = IF Extract(hs) = Untraced THEN Untraced ELSE joined(hs)]
           /\ minted' = IF Extract(hs) = Untraced THEN minted ELSE minted + 1
           /\ root' = [root EXCEPT ![b] = IF Joins(hs) THEN root[a] ELSE Untraced]
  BY DEF CallAgent, Joins
<1>2. PICK hs \in OnTheWay(sent) :
           /\ headers' = [headers EXCEPT ![b] = hs]
           /\ context' = [context EXCEPT ![b] = IF Extract(hs) = Untraced THEN Untraced ELSE joined(hs)]
           /\ minted' = IF Extract(hs) = Untraced THEN minted ELSE minted + 1
           /\ root' = [root EXCEPT ![b] = IF Joins(hs) THEN root[a] ELSE Untraced]
  BY <1>1
<1>3. kept' = kept
  BY DEF CallAgent
<1>4. /\ b \in Agent /\ b \notin Orchestrator /\ minted \in Nat
      /\ DOMAIN context = Agent /\ DOMAIN root = Agent /\ DOMAIN headers = Agent
      /\ root[a] \in Orchestrator \cup {Untraced}
  BY CascadeAssumption DEF CascadeInv, CascadeTypes, Agent
<1>5. hs \in Seq(Header) /\ (Names(hs, root[a]) \/ Names(hs, Untraced))
  BY SentNames
<1> DEFINE got == context'[b]
           from == root'[b]
<1>6. /\ got \in Context \cup {Untraced} /\ from \in Orchestrator \cup {Untraced}
      /\ from = Untraced <=> got = Untraced
      /\ got # Untraced => Belongs(got.trace, from)
      /\ Names(hs, from)
  <2>1. /\ got = IF Extract(hs) = Untraced THEN Untraced ELSE joined(hs)
        /\ from = IF Joins(hs) THEN root[a] ELSE Untraced
    BY <1>2, <1>4
  <2>2. PICK r \in Orchestrator \cup {Untraced} : Names(hs, r) /\ r \in {root[a], Untraced}
    BY <1>4, <1>5
  <2>3. CASE Extract(hs) = Untraced /\ ~Joins(hs) /\ Names(hs, Untraced)
    <3> HIDE DEF joined, got, from
    <3> QED BY <2>1, <2>3
  <2>4. CASE /\ Extract(hs) \in [trace : Nat, span : Nat] /\ Extract(hs) # Untraced
             /\ Joins(hs) /\ r # Untraced /\ Belongs(Extract(hs).trace, r)
    <3>1. from = root[a] /\ r = root[a] /\ got = joined(hs)
      <4> HIDE DEF joined, got, from
      <4> QED BY <2>1, <2>2, <2>4
    <3>2. joined(hs) \in Context /\ joined(hs).trace = Extract(hs).trace
      <4> DEFINE e == Extract(hs)
      <4>1. e \in [trace : Nat, span : Nat]
        BY <2>4
      <4> HIDE DEF e
      <4>2. e.trace \in Nat
        BY <4>1
      <4>3. [trace |-> e.trace, span |-> minted + 1, feature_tag |-> ""] \in Context
        BY <1>4, <4>2 DEF Context, FeatureTags
      <4> QED BY <4>3 DEF e
    <3>3. joined(hs) # Untraced
      BY <3>2, CascadeAssumption DEF Context
    <3>4. from \in Orchestrator /\ from # Untraced
      <4> HIDE DEF joined, got, from
      <4> QED BY <1>4, <2>4, <3>1
    <3> HIDE DEF joined, got, from
    <3> QED BY <2>2, <2>4, <3>1, <3>2, <3>3, <3>4
  <2> HIDE DEF joined, got, from
  <2> QED BY <2>2, <2>3, <2>4, JoinsOrNot, <1>5
<1>7. /\ context' = [context EXCEPT ![b] = got] /\ root' = [root EXCEPT ![b] = from]
      /\ headers' = [headers EXCEPT ![b] = hs]
      /\ minted' \in Nat /\ minted' >= minted
  <2> HIDE DEF joined
  <2> QED BY <1>2, <1>4
<1>8. \A c \in Agent \ {b} : context'[c] = context[c] /\ root'[c] = root[c] /\ headers'[c] = headers[c]
  <2> HIDE DEF joined
  <2> QED BY <1>2, <1>4
<1> HIDE DEF joined
<1>9. CascadeTypes'
  <2> HIDE DEF got, from
  <2>1. context' \in [Agent -> Context \cup {Untraced}] /\ root' \in [Agent -> Orchestrator \cup {Untraced}]
    BY <1>6, <1>7 DEF CascadeInv, CascadeTypes
  <2>2. headers' \in [Agent -> Seq(Header)]
    BY <1>5, <1>7 DEF CascadeInv, CascadeTypes
  <2> QED BY <1>3, <1>7, <2>1, <2>2 DEF CascadeInv, CascadeTypes
<1>10. \A o \in Orchestrator : context'[o] = context[o] /\ root'[o] = root[o] /\ headers'[o] = headers[o]
  BY <1>4, <1>8 DEF Agent
<1>11. TracesApart' /\ Uncalled'
  <2>1. Uncalled'
    BY <1>10 DEF CascadeInv, Uncalled
  <2>2. \A o \in Orchestrator : context[o] # Untraced => context[o].trace \in 1 .. minted'
    BY <1>4, <1>7 DEF CascadeInv, TracesApart
  <2> QED BY <1>10, <2>1, <2>2 DEF CascadeInv, TracesApart
<1>12. /\ \A t, r : Belongs(t, r) => Belongs(t, r)'
       /\ \A x, r : Names(x, r) => Names(x, r)'
  BY <1>3, <1>10, BelongsKept DEF CascadeInv
<1>13. ASSUME NEW c \in Agent
       PROVE  Rooted(c)'
  <2>1. CASE c # b
    BY <1>8, <1>12, <2>1 DEF CascadeInv, Rooted
  <2>2. CASE c = b
    <3>1. PICK g, r : /\ g = context'[b] /\ r = root'[b]
                      /\ r = Untraced <=> g = Untraced
                      /\ g # Untraced => Belongs(g.trace, r)
                      /\ Names(hs, r)
      BY <1>6
    <3>2. (g # Untraced => Belongs(g.trace, r)') /\ Names(hs, r)'
      BY <1>12, <3>1
    <3>3. headers'[b] = hs
      BY <1>4, <1>7
    <3> QED BY <2>2, <3>1, <3>2, <3>3 DEF Rooted, Names, Belongs
  <2> QED BY <2>1, <2>2
<1> QED BY <1>9, <1>11, <1>12, <1>13 DEF CascadeInv

\* A span more leaves contexts and headers as they are.
LEMMA RecordsSpan ==
  ASSUME CascadeInv, NEW a \in Agent, RecordSpan(a) \/ KeepOwnSpan(a)
  PROVE  CascadeInv'
<1>1. UNCHANGED <<context, headers, root>>
  BY DEF RecordSpan, KeepOwnSpan
<1>2. /\ context[a] \in Context \cup {Untraced} /\ root[a] \in Orchestrator \cup {Untraced}
      /\ AgentTag[a] \in FeatureTags /\ kept \in Seq(KeptSpan) /\ minted \in Nat
  BY DEF CascadeInv, CascadeTypes, FeatureTags
<1>3. PICK s : /\ kept' = Append(kept, s) /\ s \in KeptSpan
               /\ minted' \in Nat /\ 1 .. minted \subseteq 1 .. minted'
  <2>1. CASE RecordSpan(a)
    <3> DEFINE new(c) == [trace |-> minted + 1, feature_tag |-> AgentTag[a], cost |-> c,
                          is_orchestrator |-> FALSE, root |-> root[a]]
    <3>1. PICK c \in AgentCosts : kept' = Append(kept, new(c)) /\ minted' = minted + 1
      BY <2>1 DEF RecordSpan
    <3>2. new(c) \in KeptSpan
      BY <1>2, CascadeAssumption DEF KeptSpan
    <3>3. minted' \in Nat /\ 1 .. minted \subseteq 1 .. minted'
      BY <1>2, <3>1
    <3> QED BY <3>1, <3>2, <3>3
  <2>2. CASE KeepOwnSpan(a)
    <3> DEFINE new(c) == [trace |-> context[a].trace, feature_tag |-> AgentTag[a], cost |-> c,
                          is_orchestrator |-> a \in Orchestrator, root |-> root[a]]
    <3>1. PICK c \in AgentCosts : kept' = Append(kept, new(c)) /\ minted' = minted
      BY <2>2 DEF KeepOwnSpan
    <3>2. context[a].trace \in Nat
      BY <1>2, <2>2 DEF KeepOwnSpan, Context
    <3>3. new(c) \in KeptSpan
      BY <1>2, <3>2, CascadeAssumption DEF KeptSpan
    <3> QED BY <1>2, <3>1, <3>3
  <2> QED BY <2>1, <2>2
<1>4. kept' \in Seq(KeptSpan)
  BY <1>2, <1>3
<1>5. CascadeTypes' /\ Uncalled'
  BY <1>1, <1>3, <1>4 DEF CascadeInv, CascadeTypes, Uncalled
<1>6. TracesApart'
  BY <1>1, <1>3 DEF CascadeInv, TracesApart
<1>7. \A x \in Agent : Rooted(x)'
  BY <1>1 DEF CascadeInv, Rooted, Names, Belongs
<1> QED BY <1>5, <1>6, <1>7 DEF CascadeInv

LEMMA CascadeInvHolds == CascadeSpec => []CascadeInv
<1>1. CascadeInit => CascadeInv
  BY CascadeStarts
<1>2. ASSUME CascadeInv, [CascadeNext]_cascadeVars PROVE CascadeInv'
  <2>1. ASSUME NEW o \in Orchestrator, StartOrchestration(o) PROVE CascadeInv'
    BY <1>2, <2>1, StartsTrace
  <2>2. ASSUME NEW a \in Agent, NEW b \in SubAgent, CallAgent(a, b) PROVE CascadeInv'
    BY <1>2, <2>2, CallsAgent
  <2>3. ASSUME NEW a \in Agent, RecordSpan(a) \/ KeepOwnSpan(a) PROVE CascadeInv'
    BY <1>2, <2>3, RecordsSpan
  <2>4. ASSUME UNCHANGED cascadeVars PROVE CascadeInv'
    BY <1>2, <2>4 DEF cascadeVars, CascadeInv, CascadeTypes, TracesApart, Uncalled, Rooted,
                      Names, Belongs
  <2> QED BY <1>2, <2>1, <2>2, <2>3, <2>4 DEF CascadeNext
<1> QED BY <1>1, <1>2, PTL DEF CascadeSpec

\* The summary of a trace: its loop over the spans, and what it adds up to.

\* What the tags of sub_agent_costs add up to.
AgentsTotal(costs) == MapThenSumSet(LAMBDA tag : costs[tag], DOMAIN costs)

LEMMA AgentsTotalIs ==
  ASSUME NEW D, IsFiniteSet(D), NEW costs \in [D -> Int]
  PROVE  \E h : IsSum(h, costs, D) /\ AgentsTotal(costs) = h[D]
<1> DEFINE adds(f) == f = [u \in SUBSET DOMAIN costs |->
                             IF u = {} THEN 0
                             ELSE costs[CHOOSE x \in u : TRUE] + f[u \ {CHOOSE x \in u : TRUE}]]
           f == CHOOSE f : adds(f)
<1>1. AgentsTotal(costs) = f[DOMAIN costs] /\ DOMAIN costs = D
  BY DEF AgentsTotal, MapThenSumSet, MapThenFoldSet
<1>2. \A e : adds(e) <=> ByChoice(e, costs, D)
  BY DOMAIN costs = D DEF ByChoice
<1>3. PICK e : ByChoice(e, costs, D)
  BY SumByChoice
<1>4. adds(f)
  <2> HIDE DEF adds
  <2>1. adds(e)
    BY <1>2, <1>3
  <2> QED BY <2>1
<1> HIDE DEF f
<1>5. IsSum(f, costs, D)
  <2>1. ByChoice(f, costs, D)
    BY <1>2, <1>4
  <2> QED BY <2>1, SumByChoice
<1> QED BY <1>1, <1>5

\* A span charged to a tag is in its costs, and adds to what they add up to.
ChargedTo(D, costs, tag, c) ==
  /\ Charge(costs, tag, c) \in [D \cup {tag} -> Int] /\ IsFiniteSet(D \cup {tag})
  /\ \A t : t # tag /\ t \in D => Charge(costs, tag, c)[t] = costs[t]
  /\ Charge(costs, tag, c)[tag] = c + IF tag \in D THEN costs[tag] ELSE 0
  /\ AgentsTotal(Charge(costs, tag, c)) = AgentsTotal(costs) + c

LEMMA ChargeAdds ==
  ASSUME NEW D, IsFiniteSet(D), NEW costs \in [D -> Int], NEW tag, NEW c \in Int
  PROVE  ChargedTo(D, costs, tag, c)
<1> DEFINE new == Charge(costs, tag, c)
           E == D \cup {tag}
           A == D \ {tag}
<1>1. /\ new \in [E -> Int] /\ \A t \in A : new[t] = costs[t]
      /\ new[tag] = c + IF tag \in D THEN costs[tag] ELSE 0
  BY DEF Charge
<1>2. IsFiniteSet(E) /\ IsFiniteSet(A)
  BY FS_AddElement, FS_RemoveElement
<1> HIDE DEF new
<1>3. PICK h : IsSum(h, costs, D) /\ AgentsTotal(costs) = h[D]
  BY AgentsTotalIs
<1>4. PICK e : IsSum(e, new, E) /\ AgentsTotal(new) = e[E]
  <2> HIDE DEF E
  <2> QED BY <1>1, <1>2, AgentsTotalIs
<1>5. e[A] = h[A]
  <2>1. A \subseteq D /\ A \subseteq E /\ \A t \in A : new[t] = costs[t]
    BY <1>1
  <2> HIDE DEF A, E
  <2> QED BY <1>1, <1>2, <1>3, <1>4, <2>1, SumsAgree
<1>6. e[E] = new[tag] + e[A]
  <2>1. tag \in E /\ E \ {tag} = A
    OBVIOUS
  <2> HIDE DEF A
  <2> QED BY <1>4, <2>1 DEF IsSum
<1>7. h[D] = h[A] + IF tag \in D THEN costs[tag] ELSE 0
  <2>1. CASE tag \in D
    <3>1. h[D] = costs[tag] + h[A] /\ h[A] \in Int /\ costs[tag] \in Int
      BY <1>3, <2>1 DEF IsSum
    <3> QED BY <2>1, <3>1
  <2>2. CASE tag \notin D
    <3>1. A = D /\ h[D] \in Int
      BY <1>3, <2>2 DEF IsSum
    <3> QED BY <2>2, <3>1
  <2> QED BY <2>1, <2>2
<1>8. h[A] \in Int /\ (IF tag \in D THEN costs[tag] ELSE 0) \in Int
  BY <1>3 DEF IsSum
<1>9. AgentsTotal(new) = AgentsTotal(costs) + c
  <2> HIDE DEF A, E
  <2> QED BY <1>1, <1>3, <1>4, <1>5, <1>6, <1>7, <1>8
<1> QED BY <1>1, <1>2, <1>9 DEF new, ChargedTo

\* What the spans at the indices of I cost.
SpentOn(I) == MapThenSumSet(LAMBDA i : kept[i].cost, I)
CostsOf(I) == [i \in I |-> kept[i].cost]

LEMMA SpentIs ==
  ASSUME NEW D, IsFiniteSet(D), \A i \in D : kept[i].cost \in Nat
  PROVE  \E h : IsSum(h, CostsOf(D), D) /\ \A I \in SUBSET D : SpentOn(I) = h[I]
<1>1. ASSUME NEW I \in SUBSET D
      PROVE  \E f : IsSum(f, CostsOf(I), I) /\ SpentOn(I) = f[I]
  <2> DEFINE w == CostsOf(I)
             adds(f) == f = [u \in SUBSET I |->
                               IF u = {} THEN 0
                               ELSE kept[CHOOSE x \in u : TRUE].cost
                                    + f[u \ {CHOOSE x \in u : TRUE}]]
             f == CHOOSE f : adds(f)
  <2>1. SpentOn(I) = f[I]
    BY DEF SpentOn, MapThenSumSet, MapThenFoldSet
  <2>2. IsFiniteSet(I) /\ w \in [I -> Int]
    BY FS_Subset DEF CostsOf
  <2>3. \A e : adds(e) <=> ByChoice(e, w, I)
    <3>1. \A u \in SUBSET I : u # {} =>
            w[CHOOSE x \in u : TRUE] = kept[CHOOSE x \in u : TRUE].cost
      BY DEF CostsOf
    <3> HIDE DEF w
    <3> QED BY <3>1 DEF ByChoice
  <2> HIDE DEF w
  <2>4. PICK e : ByChoice(e, w, I)
    BY <2>2, SumByChoice
  <2>5. adds(f)
    <3> HIDE DEF adds
    <3>1. adds(e)
      BY <2>3, <2>4
    <3> QED BY <3>1
  <2> HIDE DEF f
  <2>6. IsSum(f, w, I)
    <3>1. ByChoice(f, w, I)
      BY <2>3, <2>5
    <3> QED BY <2>2, <3>1, SumByChoice
  <2> QED BY <2>1, <2>6 DEF w
<1>2. PICK h : IsSum(h, CostsOf(D), D) /\ SpentOn(D) = h[D]
  BY <1>1
<1>3. ASSUME NEW I \in SUBSET D
      PROVE  SpentOn(I) = h[I]
  <2>1. PICK f : IsSum(f, CostsOf(I), I) /\ SpentOn(I) = f[I]
    BY <1>1
  <2>2. CostsOf(I) \in [I -> Int] /\ CostsOf(D) \in [D -> Int] /\ IsFiniteSet(I)
    BY FS_Subset DEF CostsOf
  <2>3. \A x \in I : CostsOf(I)[x] = CostsOf(D)[x]
    BY DEF CostsOf
  <2> QED BY <1>2, <2>1, <2>2, <2>3, SumsAgree
<1> QED BY <1>2, <1>3

\* A span more adds its cost, and no span costs nothing.
LEMMA SpentAdds ==
  ASSUME kept \in Seq(KeptSpan)
  PROVE  /\ SpentOn({}) = 0
         /\ \A I \in SUBSET DOMAIN kept : SpentOn(I) \in Int
         /\ \A I \in SUBSET DOMAIN kept, k \in DOMAIN kept :
              k \notin I => SpentOn(I \cup {k}) = SpentOn(I) + kept[k].cost
<1>1. DOMAIN kept = 1 .. Len(kept) /\ Len(kept) \in Nat /\ \A i \in DOMAIN kept : kept[i].cost \in Nat
  <2>1. \A i \in DOMAIN kept : kept[i] \in KeptSpan
    OBVIOUS
  <2>2. \A s \in KeptSpan : s.cost \in Nat
    BY DEF KeptSpan
  <2> QED BY <2>1, <2>2
<1>2. IsFiniteSet(DOMAIN kept)
  BY <1>1, FS_Interval, 1 \in Int, Len(kept) \in Int
<1>3. PICK h : IsSum(h, CostsOf(DOMAIN kept), DOMAIN kept) /\ \A I \in SUBSET DOMAIN kept : SpentOn(I) = h[I]
  BY <1>1, <1>2, SpentIs
<1>4. SpentOn({}) = 0 /\ \A I \in SUBSET DOMAIN kept : SpentOn(I) \in Int
  BY <1>3 DEF IsSum
<1>5. ASSUME NEW I \in SUBSET DOMAIN kept, NEW k \in DOMAIN kept, k \notin I
      PROVE  SpentOn(I \cup {k}) = SpentOn(I) + kept[k].cost
  <2> DEFINE J == I \cup {k}
  <2>1. J \in SUBSET DOMAIN kept /\ k \in J /\ J \ {k} = I
    BY <1>5
  <2>2. h[J] = CostsOf(DOMAIN kept)[k] + h[J \ {k}]
    BY <1>3, <2>1 DEF IsSum
  <2>3. CostsOf(DOMAIN kept)[k] = kept[k].cost
    BY DEF CostsOf
  <2> HIDE DEF J
  <2>4. SpentOn(J) = kept[k].cost + SpentOn(I)
    BY <1>3, <2>1, <2>2, <2>3
  <2> QED BY <1>1, <1>4, <2>4 DEF J
<1> QED BY <1>4, <1>5

\* The sums of get_cascade_cost, and a turn of its loop for a trace.
SumCosts == UNION {[D -> Int] : D \in {T \in SUBSET FeatureTags : IsFiniteSet(T)}}
SumType == [orchestrator : Int, agents : SumCosts, feature_tag : FeatureTags, count : Int]
Turn(acc, i, trace) == IF kept[i].trace = trace THEN AddSpan(acc, kept[i]) ELSE acc
TurnSums(h, n, trace) ==
  /\ h \in [0 .. n -> SumType] /\ h[0] = NoCosts
  /\ \A k \in 1 .. n : h[k] = Turn(h[k - 1], k, trace)

LEMMA AddSpanIs ==
  ASSUME NEW acc \in SumType, NEW s \in KeptSpan
  PROVE  /\ AddSpan(acc, s) \in SumType
         /\ IF s.is_orchestrator
            THEN /\ AddSpan(acc, s).orchestrator = acc.orchestrator + s.cost
                 /\ AddSpan(acc, s).agents = acc.agents
            ELSE /\ AddSpan(acc, s).orchestrator = acc.orchestrator
                 /\ AddSpan(acc, s).agents = Charge(acc.agents, s.feature_tag, s.cost)
<1>1. /\ s.cost \in Nat /\ s.feature_tag \in FeatureTags
      /\ acc.orchestrator \in Int /\ acc.count \in Int /\ acc.agents \in SumCosts
      /\ acc.feature_tag \in FeatureTags
  BY DEF KeptSpan, SumType
<1>2. PICK D \in SUBSET FeatureTags : IsFiniteSet(D) /\ acc.agents \in [D -> Int]
  BY <1>1 DEF SumCosts
<1>3. Charge(acc.agents, s.feature_tag, s.cost) \in SumCosts
  <2> DEFINE E == D \cup {s.feature_tag}
             costs == acc.agents
             tag == s.feature_tag
             c == s.cost
  <2>1. E \in SUBSET FeatureTags
    BY <1>1
  <2>2. costs \in [D -> Int] /\ c \in Int
    BY <1>1, <1>2
  <2>3. Charge(costs, tag, c) \in [E -> Int] /\ IsFiniteSet(E)
    <3> HIDE DEF costs, c
    <3> QED BY <1>2, <2>2, ChargeAdds DEF ChargedTo
  <2> QED BY <2>1, <2>3 DEF SumCosts
<1>4. CASE s.is_orchestrator
  <2>1. AddSpan(acc, s) = [acc EXCEPT !.orchestrator = @ + s.cost, !.count = @ + 1,
                                      !.feature_tag = IF @ = "" THEN s.feature_tag ELSE @]
    BY <1>4 DEF AddSpan
  <2> DEFINE x == acc.orchestrator + s.cost
             y == acc.count + 1
             z == IF acc.feature_tag = "" THEN s.feature_tag ELSE acc.feature_tag
  <2>2. x \in Int /\ y \in Int /\ z \in FeatureTags
    <3>1. x \in Int /\ y \in Int
      BY <1>1
    <3>2. z \in {s.feature_tag, acc.feature_tag}
      BY Zenon
    <3> HIDE DEF x, y, z
    <3> QED BY <1>1, <3>1, <3>2
  <2>3. AddSpan(acc, s) = [acc EXCEPT !.orchestrator = x, !.count = y, !.feature_tag = z]
    BY <2>1
  <2> HIDE DEF x, y, z
  <2>4. /\ AddSpan(acc, s) \in SumType
        /\ AddSpan(acc, s).orchestrator = x /\ AddSpan(acc, s).agents = acc.agents
    BY <2>2, <2>3 DEF SumType
  <2> QED BY <1>4, <2>4 DEF x
<1>5. CASE ~s.is_orchestrator
  <2> DEFINE charged == Charge(acc.agents, s.feature_tag, s.cost)
  <2> DEFINE y == acc.count + 1
  <2>1. AddSpan(acc, s) = [acc EXCEPT !.agents = charged, !.count = y]
    BY <1>5 DEF AddSpan
  <2>3. y \in Int /\ charged \in SumCosts
    BY <1>1, <1>3
  <2> HIDE DEF charged, y
  <2>2. AddSpan(acc, s) \in SumType /\ AddSpan(acc, s).orchestrator = acc.orchestrator
        /\ AddSpan(acc, s).agents = charged
    BY <2>1, <2>3 DEF SumType
  <2> QED BY <1>5, <2>2 DEF charged
<1> QED BY <1>4, <1>5

SumsOf(trace) ==
  FoldLeft(LAMBDA acc, s : IF s.trace = trace THEN AddSpan(acc, s) ELSE acc, NoCosts, kept)

\* The loop takes the spans in turn.
LEMMA SumsTakeTurns ==
  ASSUME kept \in Seq(KeptSpan), NEW trace
  PROVE  \E h : TurnSums(h, Len(kept), trace) /\ SumsOf(trace) = h[Len(kept)]
<1> DEFINE n == Len(kept)
           S == 1 .. n
           g == [p \in S \X SumType |-> Turn(p[2], p[1], trace)]
           adds(f) == f = [s \in SUBSET DOMAIN kept |->
                             IF s = {} THEN NoCosts
                             ELSE IF kept[Max(s)].trace = trace
                                  THEN AddSpan(f[s \ {Max(s)}], kept[Max(s)]) ELSE f[s \ {Max(s)}]]
           f == CHOOSE f : adds(f)
<1>1. SumsOf(trace) = f[DOMAIN kept]
  BY DEF SumsOf, FoldLeft, MapThenFoldSet
<1>2. DOMAIN kept = S /\ n \in Nat /\ \A i \in S : kept[i] \in KeptSpan
  OBVIOUS
<1>3. \A k \in S, acc \in SumType : Turn(acc, k, trace) \in SumType
  BY <1>2, AddSpanIs DEF Turn
<1>4. g \in [S \X SumType -> SumType] /\ \A k \in S, acc \in SumType : g[<<k, acc>>] = Turn(acc, k, trace)
  BY <1>3
<1>5. NoCosts \in SumType
  <2>1. {} \in SUBSET FeatureTags /\ IsFiniteSet({}) /\ [t \in {} |-> 0] \in [{} -> Int]
    BY FS_EmptySet
  <2>2. [t \in {} |-> 0] \in SumCosts
    BY <2>1 DEF SumCosts
  <2>3. "" \in FeatureTags
    BY DEF FeatureTags
  <2> DEFINE none == [t \in {} |-> 0]
             empty == ""
  <2>4. /\ none \in SumCosts /\ empty \in FeatureTags
        /\ NoCosts = [orchestrator |-> 0, agents |-> none, feature_tag |-> empty, count |-> 0]
    BY <2>2, <2>3 DEF NoCosts
  <2> HIDE DEF none, empty
  <2> QED BY <2>4 DEF SumType
<1>6. \A s \in SUBSET S : s # {} => Max(s) \in S
  BY <1>2, MaxIs, \A s \in SUBSET S : s \subseteq 0 .. n
<1>7. \A e : adds(e) <=> e = [s \in SUBSET S |-> IF s = {} THEN NoCosts
                                                ELSE Turn(e[s \ {Max(s)}], Max(s), trace)]
  BY <1>2 DEF Turn
<1> HIDE DEF n, g, adds
<1>8. ASSUME NEW e \in [SUBSET S -> SumType]
      PROVE  adds(e) <=> FromLeft(e, g, NoCosts, n)
  <2>1. ASSUME NEW s \in SUBSET S, s # {}
        PROVE  g[<<Max(s), e[s \ {Max(s)}]>>] = Turn(e[s \ {Max(s)}], Max(s), trace)
    <3>1. Max(s) \in S /\ s \ {Max(s)} \in SUBSET S
      BY <1>6, <2>1
    <3>2. e[s \ {Max(s)}] \in SumType
      BY <1>8, <3>1
    <3> QED BY <1>4, <3>1, <3>2
  <2>2. [s \in SUBSET S |-> IF s = {} THEN NoCosts ELSE g[<<Max(s), e[s \ {Max(s)}]>>]]
          = [s \in SUBSET S |-> IF s = {} THEN NoCosts ELSE Turn(e[s \ {Max(s)}], Max(s), trace)]
    BY <2>1
  <2> QED BY <1>7, <2>2 DEF FromLeft
<1>9. PICK e \in [SUBSET S -> SumType] : FromLeft(e, g, NoCosts, n)
  BY <1>2, <1>4, <1>5, FromLeftExists
<1>10. adds(f)
  <2>1. adds(e)
    BY <1>8, <1>9
  <2> QED BY <2>1
<1> HIDE DEF f
<1>11. f = [s \in SUBSET S |-> IF s = {} THEN NoCosts ELSE Turn(f[s \ {Max(s)}], Max(s), trace)]
  BY <1>7, <1>10
<1>12. f \in [SUBSET S -> SumType]
  <2> DEFINE c == [s \in SUBSET S |-> Max(s)]
  <2>1. Takes(c, S)
    BY <1>2, MaxTaken
  <2>2. f = [s \in SUBSET S |-> f[s]] /\ f[{}] \in SumType
    BY <1>5, <1>11
  <2>3. ASSUME NEW s \in SUBSET S, s # {}, f[s \ {c[s]}] \in SumType
        PROVE  f[s] \in SumType
    <3>1. f[s] = Turn(f[s \ {Max(s)}], Max(s), trace) /\ c[s] = Max(s)
      BY <1>11, <2>3
    <3> QED BY <1>3, <1>6, <2>3, <3>1
  <2> HIDE DEF c
  <2>4. Keeps(f, c, SumType, S)
    BY <2>2, <2>3 DEF Keeps
  <2>5. IsFiniteSet(S)
    BY <1>2, FS_Interval
  <2> QED BY <2>1, <2>4, <2>5, FoldTyped
<1>13. FromLeft(f, g, NoCosts, n)
  BY <1>8, <1>10, <1>12
<1>14. f[1 .. 0] = NoCosts /\ \A k \in S : f[1 .. k] = g[<<k, f[1 .. (k - 1)]>>]
  BY <1>2, <1>13, FromLeftSteps
<1> DEFINE h == [k \in 0 .. n |-> f[1 .. k]]
<1>15. \A k \in 0 .. n : 1 .. k \in SUBSET S
  BY <1>2
<1>16. h \in [0 .. n -> SumType] /\ h[n] = f[S] /\ h[0] = NoCosts
  BY <1>2, <1>12, <1>14, <1>15
<1>17. ASSUME NEW k \in S
       PROVE  h[k] = Turn(h[k - 1], k, trace)
  <2>1. k - 1 \in 0 .. n /\ k \in 0 .. n
    BY <1>2
  <2>2. f[1 .. (k - 1)] \in SumType /\ f[1 .. k] = g[<<k, f[1 .. (k - 1)]>>]
    BY <1>12, <1>14, <1>15, <2>1
  <2> QED BY <1>4, <2>1, <2>2
<1> HIDE DEF h
<1>18. TurnSums(h, n, trace)
  BY <1>16, <1>17 DEF TurnSums
<1> QED BY <1>1, <1>2, <1>16, <1>18 DEF n

\* The first k spans of a trace, its orchestrators', and its agents' under a tag.
OfTrace(trace, k) == {i \in 1 .. k : kept[i].trace = trace}
OfOrchestrator(trace, k) == {i \in 1 .. k : kept[i].trace = trace /\ kept[i].is_orchestrator}
OfTag(trace, k, t) ==
  {i \in 1 .. k : kept[i].trace = trace /\ ~kept[i].is_orchestrator /\ kept[i].feature_tag = t}

\* The sums of the first k spans are what they cost.
SumsAre(acc, trace, k) ==
  /\ acc.orchestrator = SpentOn(OfOrchestrator(trace, k))
  /\ acc.orchestrator + AgentsTotal(acc.agents) = SpentOn(OfTrace(trace, k))
  /\ \A t : (IF t \in DOMAIN acc.agents THEN acc.agents[t] ELSE 0) = SpentOn(OfTag(trace, k, t))

LEMMA TurnKeepsSums ==
  ASSUME kept \in Seq(KeptSpan), NEW trace, NEW k \in DOMAIN kept, NEW acc \in SumType,
         SumsAre(acc, trace, k - 1)
  PROVE  SumsAre(Turn(acc, k, trace), trace, k)
<1> DEFINE s == kept[k]
           next == Turn(acc, k, trace)
<1>1. k \in Nat /\ k - 1 \in Nat /\ k # 0 /\ s \in KeptSpan /\ DOMAIN kept = 1 .. Len(kept)
  OBVIOUS
<1>2. s.cost \in Nat /\ acc.orchestrator \in Int /\ acc.agents \in SumCosts /\ s.is_orchestrator \in BOOLEAN
  BY <1>1 DEF KeptSpan, SumType
<1>3. PICK D \in SUBSET FeatureTags : IsFiniteSet(D) /\ acc.agents \in [D -> Int]
  BY <1>2 DEF SumCosts
<1> DEFINE costs == acc.agents
           c == s.cost
           tag == s.feature_tag
<1>4. AgentsTotal(costs) \in Int
  <2>1. costs \in [D -> Int]
    BY <1>3
  <2> HIDE DEF costs
  <2>2. PICK h : IsSum(h, costs, D) /\ AgentsTotal(costs) = h[D]
    BY <1>3, <2>1, AgentsTotalIs
  <2> QED BY <2>2 DEF IsSum
<1>5. \A i \in 1 .. k : i # k => i \in 1 .. (k - 1)
  BY <1>1
<1>6. 1 .. (k - 1) \subseteq 1 .. k /\ k \in 1 .. k /\ k \notin 1 .. (k - 1) /\ 1 .. k \subseteq DOMAIN kept
  BY <1>1
<1> DEFINE all == OfTrace(trace, k - 1)
           orch == OfOrchestrator(trace, k - 1)
           of(t) == OfTag(trace, k - 1, t)
<1>7. /\ all \in SUBSET DOMAIN kept /\ orch \in SUBSET DOMAIN kept
      /\ \A t : of(t) \in SUBSET DOMAIN kept
      /\ k \notin all /\ k \notin orch /\ \A t : k \notin of(t)
  BY <1>6 DEF OfTrace, OfOrchestrator, OfTag
<1>8. /\ SpentOn(all \cup {k}) = SpentOn(all) + c
      /\ SpentOn(orch \cup {k}) = SpentOn(orch) + c
      /\ SpentOn(of(tag) \cup {k}) = SpentOn(of(tag)) + c
  <2> DEFINE mine == of(tag)
  <2>1. mine \in SUBSET DOMAIN kept /\ k \notin mine
    BY <1>7
  <2> HIDE DEF all, orch, mine
  <2> QED BY <1>7, <2>1, SpentAdds DEF mine
<1>9. /\ acc.orchestrator = SpentOn(orch) /\ acc.orchestrator + AgentsTotal(costs) = SpentOn(all)
      /\ \A t : (IF t \in DOMAIN costs THEN costs[t] ELSE 0) = SpentOn(of(t))
  BY DEF SumsAre
<1>10. CASE s.trace # trace
  <2>1. next = acc
    BY <1>10 DEF Turn
  <2>2. /\ OfTrace(trace, k) = all /\ OfOrchestrator(trace, k) = orch
        /\ \A t : OfTag(trace, k, t) = of(t)
    BY <1>5, <1>6, <1>10 DEF OfTrace, OfOrchestrator, OfTag
  <2> QED BY <1>9, <2>1, <2>2 DEF SumsAre
<1>11. CASE s.trace = trace /\ s.is_orchestrator
  <2>1. next.orchestrator = acc.orchestrator + c /\ next.agents = costs
    BY <1>1, <1>11, AddSpanIs DEF Turn
  <2>2. /\ OfTrace(trace, k) = all \cup {k} /\ OfOrchestrator(trace, k) = orch \cup {k}
        /\ \A t : OfTag(trace, k, t) = of(t)
    BY <1>5, <1>6, <1>11 DEF OfTrace, OfOrchestrator, OfTag
  <2> HIDE DEF next, all, orch, of, c, costs, s
  <2>3. c \in Nat /\ acc.orchestrator \in Int
    BY <1>2 DEF c
  <2>4. next.orchestrator = SpentOn(OfOrchestrator(trace, k))
    BY <1>8, <1>9, <2>1, <2>2
  <2>5. next.orchestrator + AgentsTotal(next.agents) = SpentOn(OfTrace(trace, k))
    <3>1. acc.orchestrator + c + AgentsTotal(costs) = SpentOn(all) + c
      BY <1>4, <1>9, <2>3
    <3> QED BY <1>8, <2>1, <2>2, <3>1
  <2>6. \A t : (IF t \in DOMAIN next.agents THEN next.agents[t] ELSE 0) = SpentOn(OfTag(trace, k, t))
    BY <1>9, <2>1, <2>2
  <2> QED BY <2>4, <2>5, <2>6 DEF SumsAre, next
<1>12. CASE s.trace = trace /\ ~s.is_orchestrator
  <2>1. next.orchestrator = acc.orchestrator /\ next.agents = Charge(costs, tag, c)
    BY <1>1, <1>12, AddSpanIs DEF Turn
  <2>2. OfTrace(trace, k) = all \cup {k}
    BY <1>5, <1>6, <1>12 DEF OfTrace
  <2>3. OfOrchestrator(trace, k) = orch
    BY <1>5, <1>6, <1>12 DEF OfOrchestrator
  <2>4. OfTag(trace, k, tag) = of(tag) \cup {k} /\ \A t : t # tag => OfTag(trace, k, t) = of(t)
    BY <1>5, <1>6, <1>12 DEF OfTag
  <2>5. costs \in [D -> Int] /\ c \in Nat /\ c \in Int /\ acc.orchestrator \in Int
    BY <1>2, <1>3
  <2> HIDE DEF next, all, orch, of, c, costs, s, tag
  <2>6. /\ next.agents \in [D \cup {tag} -> Int]
        /\ \A t : t # tag /\ t \in D => next.agents[t] = costs[t]
        /\ next.agents[tag] = c + IF tag \in D THEN costs[tag] ELSE 0
        /\ AgentsTotal(next.agents) = AgentsTotal(costs) + c
    <3>1. IsFiniteSet(D)
      BY <1>3
    <3>2. costs \in [D -> Int] /\ c \in Int
      BY <2>5
    <3>3. ChargedTo(D, costs, tag, c)
      BY <3>1, <3>2, ChargeAdds
    <3> QED BY <2>1, <3>3 DEF ChargedTo
  <2>7. next.orchestrator + AgentsTotal(next.agents) = SpentOn(OfTrace(trace, k))
    BY <1>4, <1>8, <1>9, <2>1, <2>2, <2>5, <2>6
  <2>8. next.orchestrator = SpentOn(OfOrchestrator(trace, k))
    BY <1>9, <2>1, <2>3
  <2>9. DOMAIN next.agents = D \cup {tag} /\ DOMAIN costs = D
    BY <2>5, <2>6
  <2>10. ASSUME NEW t
         PROVE  (IF t \in DOMAIN next.agents THEN next.agents[t] ELSE 0) = SpentOn(OfTag(trace, k, t))
    <3>1. CASE t = tag
      <4>1. (IF tag \in D THEN costs[tag] ELSE 0) = SpentOn(of(tag)) /\ SpentOn(of(tag)) \in Int
        <5>1. (IF tag \in D THEN costs[tag] ELSE 0) = SpentOn(of(tag))
          BY <1>9, <2>9
        <5>2. (IF tag \in D THEN costs[tag] ELSE 0) \in Int
          BY <2>5
        <5> QED BY <5>1, <5>2
      <4>2. next.agents[tag] = SpentOn(of(tag)) + c
        BY <2>5, <2>6, <4>1
      <4>3. SpentOn(OfTag(trace, k, tag)) = SpentOn(of(tag)) + c
        BY <1>8, <2>4
      <4> QED BY <2>9, <3>1, <4>2, <4>3
    <3>2. CASE t # tag
      <4>1. t \in DOMAIN next.agents <=> t \in D
        BY <2>9, <3>2
      <4> QED BY <1>9, <2>4, <2>6, <2>9, <3>2, <4>1
    <3> QED BY <3>1, <3>2
  <2> QED BY <2>7, <2>8, <2>10 DEF SumsAre, next
<1> QED BY <1>2, <1>10, <1>11, <1>12

LEMMA SumsCoverTrace ==
  ASSUME kept \in Seq(KeptSpan), NEW trace
  PROVE  SumsAre(SumsOf(trace), trace, Len(kept)) /\ SumsOf(trace) \in SumType
<1> DEFINE n == Len(kept)
<1>1. n \in Nat /\ DOMAIN kept = 1 .. n
  OBVIOUS
<1>2. PICK h : TurnSums(h, n, trace) /\ SumsOf(trace) = h[n]
  BY SumsTakeTurns
<1> DEFINE bad == {k \in 0 .. n : ~SumsAre(h[k], trace, k)}
<1>3. bad = {}
  <2> SUFFICES ASSUME bad # {} PROVE FALSE
    OBVIOUS
  <2>1. PICK k \in bad : \A j \in bad : k <= j
    <3>1. bad \subseteq Nat
      BY <1>1
    <3> HIDE DEF bad
    <3> QED BY <3>1, SmallestOf
  <2>2. k # 0
    <3>1. OfTrace(trace, 0) = {} /\ OfOrchestrator(trace, 0) = {} /\ \A t : OfTag(trace, 0, t) = {}
      BY DEF OfTrace, OfOrchestrator, OfTag
    <3>2. SpentOn({}) = 0
      BY SpentAdds
    <3> DEFINE none == [t \in {} |-> 0]
    <3>3. NoCosts.orchestrator = 0 /\ NoCosts.agents = none
      BY DEF NoCosts
    <3>4. DOMAIN none = {} /\ none \in [{} -> Int]
      OBVIOUS
    <3> HIDE DEF none
    <3>5. AgentsTotal(none) = 0
      <4>1. PICK e : IsSum(e, none, {}) /\ AgentsTotal(none) = e[{}]
        BY <3>4, FS_EmptySet, AgentsTotalIs
      <4> QED BY <4>1 DEF IsSum
    <3>6. SumsAre(NoCosts, trace, 0)
      <4>1. NoCosts.orchestrator + AgentsTotal(NoCosts.agents) = 0
        BY <3>3, <3>5
      <4>2. \A t : (IF t \in DOMAIN NoCosts.agents THEN NoCosts.agents[t] ELSE 0) = 0
        BY <3>3, <3>4
      <4> QED BY <3>1, <3>2, <3>3, <4>1, <4>2 DEF SumsAre
    <3> QED BY <1>2, <2>1, <3>6 DEF TurnSums
  <2>3. k \in 1 .. n /\ k - 1 \in 0 .. n /\ ~(k <= k - 1)
    BY <1>1, <2>1, <2>2
  <2>4. SumsAre(h[k - 1], trace, k - 1)
    BY <2>1, <2>3
  <2>5. h[k - 1] \in SumType /\ h[k] = Turn(h[k - 1], k, trace)
    BY <1>2, <2>3 DEF TurnSums
  <2>6. SumsAre(h[k], trace, k)
    BY <1>1, <2>3, <2>4, <2>5, TurnKeepsSums
  <2> QED BY <2>1, <2>6
<1>4. n \in 0 .. n
  BY <1>1
<1> QED BY <1>2, <1>3, <1>4 DEF TurnSums

LEMMA InvAddsUp == CascadeInv => SummaryAddsUp
<1> SUFFICES ASSUME CascadeInv, NEW trace PROVE CostIsSpent(trace)
  BY DEF SummaryAddsUp
<1> DEFINE sums == SumsOf(trace)
           n == Len(kept)
<1>1. kept \in Seq(KeptSpan) /\ DOMAIN kept = 1 .. n
  BY DEF CascadeInv, CascadeTypes
<1>2. SumsAre(sums, trace, n)
  BY <1>1, SumsCoverTrace
<1>3. /\ CascadeCost(trace).total_cost_usd = sums.orchestrator + AgentsTotal(sums.agents)
      /\ CascadeCost(trace).orchestrator_cost_usd = sums.orchestrator
      /\ CascadeCost(trace).sub_agent_costs = sums.agents
  BY DEF CascadeCost, AgentsTotal, SumsOf
<1>4. /\ Spent(LAMBDA s : s.trace = trace) = SpentOn(OfTrace(trace, n))
      /\ Spent(LAMBDA s : s.trace = trace /\ s.is_orchestrator) = SpentOn(OfOrchestrator(trace, n))
      /\ \A tag : Spent(LAMBDA s : s.trace = trace /\ ~s.is_orchestrator /\ s.feature_tag = tag)
           = SpentOn(OfTag(trace, n, tag))
  BY <1>1 DEF Spent, SpentOn, OfTrace, OfOrchestrator, OfTag
<1> HIDE DEF sums, n
<1>5. /\ CascadeCost(trace).total_cost_usd = Spent(LAMBDA s : s.trace = trace)
      /\ CascadeCost(trace).orchestrator_cost_usd = Spent(LAMBDA s : s.trace = trace /\ s.is_orchestrator)
  BY <1>2, <1>3, <1>4 DEF SumsAre
<1>6. ASSUME NEW tag \in DOMAIN sums.agents
      PROVE  sums.agents[tag] = Spent(LAMBDA s : s.trace = trace /\ ~s.is_orchestrator /\ s.feature_tag = tag)
  <2>1. sums.agents[tag] = SpentOn(OfTag(trace, n, tag))
    BY <1>2 DEF SumsAre
  <2> QED BY <1>4, <2>1
<1> QED BY <1>3, <1>5, <1>6 DEF CostIsSpent

LEMMA InvFollowsCalls == CascadeInv => ContextsFollowCalls
<1> SUFFICES ASSUME CascadeInv PROVE ContextsFollowCalls
  OBVIOUS
<1>1. \A a \in Agent : context[a] # Untraced => context[a].trace = context[root[a]].trace
  BY DEF CascadeInv, Rooted, Belongs
<1> QED BY <1>1 DEF CascadeInv, Rooted, TracesApart, ContextsFollowCalls

\* CascadeTracer: an agent has a context just when a traceparent reached it through
\* any number of calls and hops, and then of the trace of the orchestrator at whose
\* call it began; no two orchestrators share a trace.
THEOREM ContextsKeepFollowing == CascadeSpec => []ContextsFollowCalls
BY CascadeInvHolds, InvFollowsCalls, PTL

\* get_cascade_cost: for any spans that a client returns, the summary of a trace is
\* what they cost, each under its tag or as the orchestrator's.
THEOREM SummariesAddUp == CascadeSpec => []SummaryAddsUp
BY CascadeInvHolds, InvAddsUp, PTL

================================================================================
