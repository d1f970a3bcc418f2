------------------------------- MODULE BatchJobs -------------------------------
(***************************************************************************)
(* Batch submission and its job records: BatchRouter.submit_batch, whose   *)
(* requests the provider may accept without the answer arriving, and       *)
(* JobTracker, which keeps a record in a transaction of its caller.        *)
(*                                                                         *)
(* Nothing in the source calls list_pending or update_status, and          *)
(* poll_and_collect is a stub that returns 0: the pollers here are an      *)
(* application's, which may poll or not; no property needs them to.        *)
(***************************************************************************)
EXTENDS Integers, FiniteSets

CONSTANTS
  Span, BatchEligible,  \* spans, and those with batch_eligible set
  Batches,              \* the lists of spans that are submitted
  Call,                 \* calls of submit_batch
  Outcome,              \* how jobs may end at the provider
  Poller,               \* sessions that poll
  NoRecord,
  MaxFaults             \* bound: crashes, rollbacks and failed polls

ASSUME SpanAssumption ==
  IsFiniteSet(Span) /\ BatchEligible \subseteq Span /\ Batches \subseteq SUBSET Span
ASSUME FaultAssumption == MaxFaults \in Nat

VARIABLES
  stage, given, record,  \* each call: where it is, its spans, its BatchJobRecord
  wire,                  \* create requests under way to the provider
  batch, remote,         \* the provider's jobs: their requests and status
  rows,                  \* batch_jobs: job_id -> record, or NoRecord
  pstage, todo, heard,   \* each poller: where it is, jobs to ask for, an answer
  faults

batchVars == <<stage, given, record, wire, batch, remote, rows, pstage, todo, heard, faults>>
callVars == <<stage, given, record, wire>>
provider == <<batch, remote>>
pollVars == <<pstage, todo, heard>>

\* BatchJobStatus.  A provider knows more: "cancelled" is not a member.
BatchJobStatus == {"pending", "in_progress", "completed", "failed", "expired"}
Active == {"pending", "in_progress"}
Settled == BatchJobStatus \ Active
RemoteStatus == BatchJobStatus \cup {"none", "cancelled"}

ASSUME OutcomeAssumption == Outcome \subseteq Settled \cup {"cancelled"}

\* Job ids are the provider's, or synthetic ("failed-" and a fresh uuid).
JobId(c) == <<c, "job">>
FailedId(c) == <<c, "synthetic">>
Ids == Call \X {"job", "synthetic"}

\* A poller hears status none for an id the provider does not know.
Heard == [id : Ids, status : RemoteStatus]

BatchJobRecord == [id : Ids, status : BatchJobStatus, span_count : Nat]

ASSUME NoRecordAssumption == NoRecord \notin BatchJobRecord \cup Heard

With(f, k, v) == [f EXCEPT ![k] = v]

(***************************************************************************)
(* submit_batch                                                            *)
(***************************************************************************)

Eligible(spans) == spans \cap BatchEligible

\* Mutant: a failed record counts nothing.
FailedRecordEmpty(c, n) ==
  [id |-> FailedId(c), status |-> "failed", span_count |-> 0]
FailedRecord(c, n) ==
  [id |-> FailedId(c), status |-> "failed", span_count |-> n]

\* Mutant: every span that was given is counted.
SubmittedRecordAll(c) ==
  [id |-> JobId(c), status |-> "pending", span_count |-> Cardinality(given[c])]
SubmittedRecord(c) ==
  [id |-> JobId(c), status |-> "pending", span_count |-> Cardinality(Eligible(given[c]))]

Return(c, r) ==
  /\ record' = With(record, c, r)
  /\ stage' = With(stage, c, "returned")

\* The decisions before the first request: nothing eligible; an unknown
\* provider; no client for it (an exception, which counts every span); or an
\* upload for OpenAI, the create request at once for Anthropic.
Submit(c) ==
  /\ stage[c] = "idle"
  /\ \E spans \in Batches :
       LET eligible == Eligible(spans)
           fail(n) == Return(c, FailedRecord(c, n)) /\ UNCHANGED wire
       IN  /\ given' = With(given, c, spans)
           /\ \/ eligible = {} /\ fail(0)
              \/ eligible # {} /\ fail(Cardinality(eligible))
              \/ eligible # {} /\ fail(Cardinality(spans))
              \/ /\ eligible # {} /\ stage' = With(stage, c, "uploading")
                 /\ UNCHANGED <<record, wire>>
              \/ /\ eligible # {} /\ stage' = With(stage, c, "creating")
                 /\ wire' = With(wire, c, eligible)
                 /\ UNCHANGED record
  /\ UNCHANGED <<batch, remote, rows, pollVars, faults>>

\* The file is up, and the create request that names it is sent.
Uploaded(c) ==
  /\ stage[c] = "uploading"
  /\ stage' = With(stage, c, "creating")
  /\ wire' = With(wire, c, Eligible(given[c]))
  /\ UNCHANGED <<given, record, batch, remote, rows, pollVars, faults>>

\* A file that did arrive stays with the provider; no job uses it.
UploadFails(c) ==
  /\ stage[c] = "uploading"
  /\ Return(c, FailedRecord(c, Cardinality(given[c])))
  /\ UNCHANGED <<given, wire, batch, remote, rows, pollVars, faults>>

SubmitReturns(c) ==
  /\ stage[c] = "creating"
  /\ remote[c] # "none"
  /\ Return(c, SubmittedRecord(c))
  /\ UNCHANGED <<given, wire, batch, remote, rows, pollVars, faults>>

\* Refused, lost, timed out with the request still under way, or accepted with
\* an answer whose id or expires_at cannot be read: one exception for all.
SubmitFails(c) ==
  /\ stage[c] = "creating"
  /\ Return(c, FailedRecord(c, Cardinality(given[c])))
  /\ UNCHANGED <<given, wire, batch, remote, rows, pollVars, faults>>

\* The process of the call dies; what was not committed is gone.
Crash(c) ==
  /\ stage[c] \notin {"idle", "stored", "dead"}
  /\ faults < MaxFaults
  /\ stage' = With(stage, c, "dead")
  /\ record' = With(record, c, NoRecord)
  /\ faults' = faults + 1
  /\ UNCHANGED <<given, wire, batch, remote, rows, pollVars>>

(***************************************************************************)
(* The provider                                                            *)
(***************************************************************************)

Accept(c) ==
  /\ wire[c] # {}
  /\ wire' = With(wire, c, {})
  /\ batch' = With(batch, c, wire[c])
  /\ remote' = With(remote, c, "pending")
  /\ UNCHANGED <<stage, given, record, rows, pollVars, faults>>

LoseSubmission(c) ==
  /\ wire[c] # {}
  /\ wire' = With(wire, c, {})
  /\ UNCHANGED <<stage, given, record, batch, remote, rows, pollVars, faults>>

Progress(c) ==
  /\ \/ remote[c] = "pending" /\ remote' = With(remote, c, "in_progress")
     \/ /\ remote[c] \in Active
        /\ \E s \in Outcome : remote' = With(remote, c, s)
  /\ UNCHANGED <<callVars, batch, rows, pollVars, faults>>

(***************************************************************************)
(* JobTracker, and an application that polls with it                       *)
(***************************************************************************)

\* create: the row is flushed and not committed; job_id is unique.
Create(c) ==
  /\ stage[c] = "returned"
  /\ stage' = With(stage, c, IF rows[record[c].id] = NoRecord THEN "flushed" ELSE "refused")
  /\ UNCHANGED <<given, record, wire, provider, rows, pollVars, faults>>

Commit(c) ==
  /\ stage[c] = "flushed"
  /\ rows' = With(rows, record[c].id, record[c])
  /\ stage' = With(stage, c, "stored")
  /\ UNCHANGED <<given, record, wire, provider, pollVars, faults>>

\* The transaction ends with an error, committed or not: the caller may retry.
CommitFails(c) ==
  /\ stage[c] = "flushed"
  /\ faults < MaxFaults
  /\ \/ UNCHANGED rows
     \/ rows' = With(rows, record[c].id, record[c])
  /\ stage' = With(stage, c, "returned")
  /\ faults' = faults + 1
  /\ UNCHANGED <<given, record, wire, provider, pollVars>>

ListPending == {id \in Ids : rows[id] # NoRecord /\ rows[id].status \in Active}

Poll(p) ==
  /\ pstage[p] = "idle"
  /\ ListPending # {}
  /\ todo' = With(todo, p, ListPending)
  /\ pstage' = With(pstage, p, "polling")
  /\ UNCHANGED <<callVars, provider, rows, heard, faults>>

StatusAt(id) == IF id = JobId(id[1]) THEN remote[id[1]] ELSE "none"

AskProvider(p) ==
  /\ pstage[p] = "polling"
  /\ \E id \in todo[p] :
       /\ heard' = With(heard, p, [id |-> id, status |-> StatusAt(id)])
       /\ todo' = With(todo, p, todo[p] \ {id})
  /\ pstage' = With(pstage, p, "heard")
  /\ UNCHANGED <<callVars, provider, rows, faults>>

\* A row that another session has updated and not committed is locked.
Locked(id) == \E p \in Poller : pstage[p] = "flushed" /\ heard[p].id = id

Get(id) == rows[id]

\* update_status: a status outside the enum raises, an unknown job is a
\* warning, anything else is written whatever the row says by now.
UpdateStatus(p) ==
  /\ pstage[p] = "heard"
  /\ \/ /\ heard[p].status \notin BatchJobStatus \/ Get(heard[p].id) = NoRecord
        /\ pstage' = With(pstage, p, "polling")
        /\ heard' = With(heard, p, NoRecord)
     \/ /\ heard[p].status \in BatchJobStatus /\ Get(heard[p].id) # NoRecord
        /\ ~Locked(heard[p].id)
        /\ pstage' = With(pstage, p, "flushed")
        /\ UNCHANGED heard
  /\ UNCHANGED <<callVars, provider, rows, todo, faults>>

CommitStatus(p) ==
  /\ pstage[p] = "flushed"
  /\ rows' = [rows EXCEPT ![heard[p].id].status = heard[p].status]
  /\ pstage' = With(pstage, p, "polling")
  /\ heard' = With(heard, p, NoRecord)
  /\ UNCHANGED <<callVars, provider, todo, faults>>

PollEnds(p) ==
  /\ pstage[p] = "polling" /\ todo[p] = {}
  /\ pstage' = With(pstage, p, "idle")
  /\ UNCHANGED <<callVars, provider, rows, todo, heard, faults>>

\* A request fails, a transaction rolls back or the poller dies.
PollFails(p) ==
  /\ pstage[p] # "idle"
  /\ faults < MaxFaults
  /\ pstage' = With(pstage, p, "idle")
  /\ todo' = With(todo, p, {}) /\ heard' = With(heard, p, NoRecord)
  /\ faults' = faults + 1
  /\ UNCHANGED <<callVars, provider, rows>>

(***************************************************************************)
(* Specification                                                           *)
(***************************************************************************)

BatchInit ==
  /\ stage = [c \in Call |-> "idle"]
  /\ given = [c \in Call |-> {}]
  /\ record = [c \in Call |-> NoRecord]
  /\ wire = [c \in Call |-> {}]
  /\ batch = [c \in Call |-> {}]
  /\ remote = [c \in Call |-> "none"]
  /\ rows = [id \in Ids |-> NoRecord]
  /\ pstage = [p \in Poller |-> "idle"]
  /\ todo = [p \in Poller |-> {}]
  /\ heard = [p \in Poller |-> NoRecord]
  /\ faults = 0

CallStep(c) ==
  \/ Submit(c) \/ Uploaded(c) \/ UploadFails(c) \/ SubmitReturns(c) \/ SubmitFails(c)
  \/ Crash(c) \/ Create(c) \/ Commit(c) \/ CommitFails(c)
ProviderStep(c) == Accept(c) \/ LoseSubmission(c) \/ Progress(c)
PollStep(p) ==
  Poll(p) \/ AskProvider(p) \/ UpdateStatus(p) \/ CommitStatus(p) \/ PollEnds(p) \/ PollFails(p)

BatchNext ==
  \/ \E c \in Call : CallStep(c) \/ ProviderStep(c)
  \/ \E p \in Poller : PollStep(p)

BatchSpec == BatchInit /\ [][BatchNext]_batchVars

(***************************************************************************)
(* Properties                                                              *)
(***************************************************************************)

BatchTypeOK ==
  /\ stage \in [Call -> {"idle", "uploading", "creating", "returned", "flushed",
                         "refused", "stored", "dead"}]
  /\ given \in [Call -> SUBSET Span]
  /\ record \in [Call -> BatchJobRecord \cup {NoRecord}]
  /\ wire \in [Call -> SUBSET Span]
  /\ batch \in [Call -> SUBSET Span]
  /\ remote \in [Call -> RemoteStatus]
  /\ rows \in [Ids -> BatchJobRecord \cup {NoRecord}]
  /\ pstage \in [Poller -> {"idle", "polling", "heard", "flushed"}]
  /\ todo \in [Poller -> SUBSET Ids]
  /\ heard \in [Poller -> Heard \cup {NoRecord}]
  /\ faults \in 0..MaxFaults

\* A status that a job had at some time before it got to status now.
Was(status, now) ==
  \/ status = now
  \/ status = "pending" /\ now # "none"
  \/ status = "in_progress" /\ now \notin {"none", "pending"}

\* What a record says is or was so: its job exists, holds the eligible spans of
\* the call and no other, as many as the record counts, and went through the
\* status; a record under a synthetic id has failed for good.
Truthful(r) ==
  LET c == r.id[1]
  IN  IF r.id = JobId(c)
      THEN /\ batch[c] = given[c] \cap BatchEligible
           /\ r.span_count = Cardinality(batch[c])
           /\ Was(r.status, remote[c])
           /\ remote[c] # "none"
      ELSE r.status = "failed"

\* Every record that a caller holds or the table keeps is truthful, whatever
\* pollers with late answers, crashes and repeated transactions do to it.
RecordsAreTrue ==
  /\ \A c \in Call : record[c] # NoRecord => record[c].id[1] = c /\ Truthful(record[c])
  /\ \A id \in Ids : rows[id] # NoRecord => rows[id].id = id /\ Truthful(rows[id])

\* "Any exception is expressed as a FAILED record": spans that run, or may
\* still be accepted, under a call that reported failure are covered by its
\* span_count.  A caller that resubmits after a failure with a count of zero
\* runs nothing twice; after any other failure it may.
LostWorkIsFlagged ==
  \A c \in Call :
    record[c] # NoRecord /\ record[c].id = FailedId(c) =>
      Cardinality(wire[c] \cup batch[c]) <= record[c].span_count

=============================================================================
