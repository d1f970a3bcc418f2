---------------------------- MODULE BatchJobsProofs ----------------------------
(***************************************************************************)
(* Theorems about BatchJobs, for any spans, batches, calls and pollers.    *)
(***************************************************************************)
EXTENDS BatchJobs, FiniteSetTheorems, TLAPS

\* The eligible spans of a call are no more than the spans of the call.
LEMMA EligibleCounts ==
  ASSUME NEW spans \in SUBSET Span
  PROVE  /\ Eligible(spans) \in SUBSET Span
         /\ Cardinality(spans) \in Nat
         /\ Cardinality(Eligible(spans)) \in Nat
         /\ Cardinality(Eligible(spans)) <= Cardinality(spans)
<1>1. IsFiniteSet(spans) /\ Eligible(spans) \subseteq spans
  BY SpanAssumption, FS_Subset DEF Eligible
<1>2. IsFiniteSet(Eligible(spans)) /\ Cardinality(Eligible(spans)) <= Cardinality(spans)
  BY <1>1, FS_Subset
<1>3. QED
  BY <1>1, <1>2, FS_CardinalityType

\* Job ids: two per call, apart from each other.
LEMMA IdType ==
  ASSUME NEW c \in Call
  PROVE  /\ JobId(c) \in Ids /\ FailedId(c) \in Ids
         /\ JobId(c)[1] = c /\ FailedId(c)[1] = c
         /\ JobId(c) # FailedId(c)
BY DEF JobId, FailedId, Ids

LEMMA IdCases ==
  ASSUME NEW id \in Ids
  PROVE  id[1] \in Call /\ (id = JobId(id[1]) \/ id = FailedId(id[1]))
BY DEF JobId, FailedId, Ids

\* Statuses only move on: what a job once was it was also later.
LEMMA WasStays ==
  ASSUME NEW s \in BatchJobStatus, NEW now \in RemoteStatus, NEW then \in RemoteStatus,
         Was(s, now),
         \/ now = "pending" /\ then = "in_progress"
         \/ now \in Active /\ then \in Outcome
  PROVE  Was(s, then)
BY OutcomeAssumption DEF Was, Active, Settled, BatchJobStatus, RemoteStatus

-----------------------------------------------------------------------------
(***************************************************************************)
(* Types                                                                   *)
(***************************************************************************)

\* Callers and pollers hold what their place in the code says they hold.
Held ==
  /\ \A c \in Call :
       stage[c] \in {"returned", "flushed", "refused", "stored"} <=> record[c] # NoRecord
  /\ \A p \in Poller : pstage[p] \in {"heard", "flushed"} <=> heard[p] # NoRecord
  /\ \A p \in Poller : pstage[p] = "flushed" =>
       heard[p].status \in BatchJobStatus /\ rows[heard[p].id] # NoRecord

TypeInv == BatchTypeOK /\ Held

\* A failed record is a record of the call, under a synthetic id.
LEMMA FailedType ==
  ASSUME NEW c \in Call, NEW n \in Nat
  PROVE  /\ FailedRecord(c, n) \in BatchJobRecord
         /\ FailedRecord(c, n) # NoRecord
         /\ FailedRecord(c, n).id = FailedId(c)
         /\ FailedRecord(c, n).status = "failed"
         /\ FailedRecord(c, n).span_count = n
BY IdType, NoRecordAssumption DEF FailedRecord, BatchJobRecord, BatchJobStatus

\* A submitted record is a record of the call, under the provider's id.
LEMMA SubmittedType ==
  ASSUME BatchTypeOK, NEW c \in Call
  PROVE  /\ SubmittedRecord(c) \in BatchJobRecord
         /\ SubmittedRecord(c) # NoRecord
         /\ SubmittedRecord(c).id = JobId(c)
         /\ SubmittedRecord(c).status = "pending"
         /\ SubmittedRecord(c).span_count = Cardinality(Eligible(given[c]))
<1>1. Cardinality(Eligible(given[c])) \in Nat
  BY EligibleCounts DEF BatchTypeOK
<1>2. QED
  BY <1>1, IdType, NoRecordAssumption DEF SubmittedRecord, BatchJobRecord, BatchJobStatus

\* A poller's answer has a status the provider knows.
LEMMA HeardType ==
  ASSUME BatchTypeOK, NEW id \in Ids
  PROVE  [id |-> id, status |-> StatusAt(id)] \in Heard
BY IdCases DEF StatusAt, BatchTypeOK, Heard, RemoteStatus

\* Which records and rows a step of submit_batch makes: none, a failed one with
\* a count that covers the eligible spans unless none was sent, or the job's.
LEMMA SubmitCases ==
  ASSUME TypeInv, NEW c \in Call, Submit(c)
  PROVE  \E spans \in SUBSET Span :
           /\ given' = [given EXCEPT ![c] = spans]
           /\ \/ \E n \in Nat :
                   /\ record' = [record EXCEPT ![c] = FailedRecord(c, n)]
                   /\ stage' = [stage EXCEPT ![c] = "returned"]
                   /\ UNCHANGED wire
              \/ stage' = [stage EXCEPT ![c] = "uploading"] /\ UNCHANGED <<record, wire>>
              \/ /\ stage' = [stage EXCEPT ![c] = "creating"]
                 /\ wire' = [wire EXCEPT ![c] = Eligible(spans)]
                 /\ UNCHANGED record
<1>1. PICK spans \in Batches :
        LET eligible == Eligible(spans)
            fail(n) == Return(c, FailedRecord(c, n)) /\ UNCHANGED wire
        IN  /\ given' = With(given, c, spans)
            /\ \/ eligible = {} /\ fail(0)
               \/ eligible # {} /\ fail(Cardinality(eligible))
               \/ eligible # {} /\ fail(Cardinality(spans))
               \/ /\ eligible # {} /\ stage' = With(stage, c, "uploading")
                  /\ UNCHANGED <<record, wire>>
               \/ /\ eligible # {} /\ stage' = With(stage, c, "creating")
                  /\ wire' = With(wire, c, eligible)
                  /\ UNCHANGED record
  BY DEF Submit
<1>2. spans \in SUBSET Span
  BY SpanAssumption
<1>3. 0 \in Nat /\ Cardinality(spans) \in Nat /\ Cardinality(Eligible(spans)) \in Nat
  BY <1>2, EligibleCounts
<1>4. QED
  BY <1>1, <1>2, <1>3 DEF Return, With

LEMMA TypeInit == BatchInit => TypeInv
BY FaultAssumption DEF BatchInit, TypeInv, BatchTypeOK, Held, RemoteStatus

LEMMA TypeStep == TypeInv /\ [BatchNext]_batchVars => TypeInv'
<1> SUFFICES ASSUME TypeInv, [BatchNext]_batchVars PROVE TypeInv'
  OBVIOUS
<1> USE DEF TypeInv, callVars, provider, pollVars
<1>1. ASSUME NEW c \in Call, Submit(c) PROVE TypeInv'
  <2>1. PICK spans \in SUBSET Span :
           /\ given' = [given EXCEPT ![c] = spans]
           /\ \/ \E n \in Nat :
                   /\ record' = [record EXCEPT ![c] = FailedRecord(c, n)]
                   /\ stage' = [stage EXCEPT ![c] = "returned"]
                   /\ UNCHANGED wire
              \/ stage' = [stage EXCEPT ![c] = "uploading"] /\ UNCHANGED <<record, wire>>
              \/ /\ stage' = [stage EXCEPT ![c] = "creating"]
                 /\ wire' = [wire EXCEPT ![c] = Eligible(spans)]
                 /\ UNCHANGED record
    BY <1>1, SubmitCases
  <2>2. UNCHANGED <<batch, remote, rows, pstage, todo, heard, faults>> /\ stage[c] = "idle"
    BY <1>1 DEF Submit
  <2>3. BatchTypeOK'
    <3>1. given' \in [Call -> SUBSET Span] /\ stage' \in [Call -> {"idle", "uploading", "creating",
             "returned", "flushed", "refused", "stored", "dead"}]
      BY <2>1 DEF BatchTypeOK
    <3>2. record' \in [Call -> BatchJobRecord \cup {NoRecord}]
      BY <2>1, FailedType DEF BatchTypeOK
    <3>3. wire' \in [Call -> SUBSET Span]
      BY <2>1, EligibleCounts DEF BatchTypeOK
    <3> QED BY <2>2, <3>1, <3>2, <3>3 DEF BatchTypeOK
  <2>4. Held'
    BY <2>1, <2>2, FailedType DEF BatchTypeOK, Held
  <2>5. QED
    BY <2>3, <2>4
<1>2. ASSUME NEW c \in Call, Uploaded(c) PROVE TypeInv'
  <2>1. given[c] \in SUBSET Span
    BY DEF BatchTypeOK
  <2>2. Eligible(given[c]) \in SUBSET Span
    BY <2>1, EligibleCounts
  <2>3. QED
    BY <1>2, <2>2 DEF Uploaded, With, BatchTypeOK, Held
<1>3. ASSUME NEW c \in Call, UploadFails(c) \/ SubmitFails(c) PROVE TypeInv'
  <2>1. Cardinality(given[c]) \in Nat
    BY EligibleCounts DEF BatchTypeOK
  <2>2. FailedRecord(c, Cardinality(given[c])) \in BatchJobRecord \ {NoRecord}
    BY <2>1, FailedType
  <2>3. QED
    BY <1>3, <2>2 DEF UploadFails, SubmitFails, Return, With, BatchTypeOK, Held
<1>4. ASSUME NEW c \in Call, SubmitReturns(c) PROVE TypeInv'
  <2>1. SubmittedRecord(c) \in BatchJobRecord \ {NoRecord}
    BY SubmittedType
  <2>2. QED
    BY <1>4, <2>1 DEF SubmitReturns, Return, With, BatchTypeOK, Held
<1>5. ASSUME NEW c \in Call, Crash(c) \/ Create(c) PROVE TypeInv'
  <2>1. BatchTypeOK'
    BY <1>5, FaultAssumption DEF Crash, Create, With, BatchTypeOK
  <2>2. Held'
    BY <1>5, NoRecordAssumption DEF Crash, Create, With, BatchTypeOK, Held
  <2>3. QED
    BY <2>1, <2>2
<1>6. ASSUME NEW c \in Call, Commit(c) \/ CommitFails(c) PROVE TypeInv'
  <2>1. record[c] \in BatchJobRecord /\ record[c] # NoRecord
    BY <1>6 DEF Commit, CommitFails, BatchTypeOK, Held
  <2>2. record[c].id \in Ids
    BY <2>1 DEF BatchJobRecord
  <2>3. BatchTypeOK'
    BY <1>6, <2>1, <2>2, FaultAssumption DEF Commit, CommitFails, With, BatchTypeOK
  <2>4. \A id \in Ids : rows[id] # NoRecord => rows'[id] # NoRecord
    BY <1>6, <2>1, <2>2 DEF Commit, CommitFails, With, BatchTypeOK
  <2>5. \A p \in Poller : heard[p] # NoRecord => heard[p].id \in Ids
    BY DEF BatchTypeOK, Heard
  <2>6. Held'
    BY <1>6, <2>4, <2>5 DEF Commit, CommitFails, With, BatchTypeOK, Held
  <2>7. QED
    BY <2>3, <2>6
<1>7. ASSUME NEW c \in Call, ProviderStep(c) PROVE TypeInv'
  <2>1. BatchTypeOK'
    BY <1>7, OutcomeAssumption
       DEF ProviderStep, Accept, LoseSubmission, Progress, With, BatchTypeOK, RemoteStatus, BatchJobStatus, Settled
  <2>2. Held'
    BY <1>7 DEF ProviderStep, Accept, LoseSubmission, Progress, Held
  <2>3. QED
    BY <2>1, <2>2
<1>8. ASSUME NEW p \in Poller, AskProvider(p) PROVE TypeInv'
  <2>1. PICK id \in todo[p] :
          /\ heard' = With(heard, p, [id |-> id, status |-> StatusAt(id)])
          /\ todo' = With(todo, p, todo[p] \ {id})
    BY <1>8 DEF AskProvider
  <2>2. id \in Ids
    BY DEF BatchTypeOK
  <2>3. [id |-> id, status |-> StatusAt(id)] \in Heard
    BY <2>2, HeardType
  <2>4. [id |-> id, status |-> StatusAt(id)] # NoRecord
    BY <2>3, NoRecordAssumption
  <2>5. BatchTypeOK'
    BY <1>8, <2>1, <2>3 DEF AskProvider, With, BatchTypeOK
  <2>6. Held'
    BY <1>8, <2>1, <2>4 DEF AskProvider, With, BatchTypeOK, Held
  <2>7. QED
    BY <2>5, <2>6
<1>9. ASSUME NEW p \in Poller, CommitStatus(p) PROVE TypeInv'
  <2>1. heard[p] \in Heard /\ heard[p].status \in BatchJobStatus /\ rows[heard[p].id] # NoRecord
    BY <1>9 DEF CommitStatus, BatchTypeOK, Held
  <2>2. heard[p].id \in Ids /\ rows[heard[p].id] \in BatchJobRecord
    BY <2>1 DEF Heard, BatchTypeOK
  <2>3. [rows[heard[p].id] EXCEPT !.status = heard[p].status] \in BatchJobRecord \ {NoRecord}
    BY <2>1, <2>2, NoRecordAssumption DEF BatchJobRecord
  <2>4. BatchTypeOK'
    BY <1>9, <2>2, <2>3 DEF CommitStatus, With, BatchTypeOK
  <2>5. \A id \in Ids : rows[id] # NoRecord => rows'[id] # NoRecord
    BY <1>9, <2>2, <2>3 DEF CommitStatus, BatchTypeOK
  <2>6. \A q \in Poller : heard[q] # NoRecord => heard[q].id \in Ids
    BY DEF BatchTypeOK, Heard
  <2>7. Held'
    BY <1>9, <2>5, <2>6 DEF CommitStatus, With, BatchTypeOK, Held
  <2>8. QED
    BY <2>4, <2>7
<1>10. ASSUME NEW p \in Poller, Poll(p) \/ UpdateStatus(p) \/ PollEnds(p) \/ PollFails(p)
       PROVE TypeInv'
  <2>1. ListPending \in SUBSET Ids
    BY DEF ListPending
  <2>2. BatchTypeOK'
    BY <1>10, <2>1, FaultAssumption DEF Poll, UpdateStatus, PollEnds, PollFails, With, BatchTypeOK
  <2>3. Held'
    BY <1>10 DEF Poll, UpdateStatus, Get, PollEnds, PollFails, With, BatchTypeOK, Held
  <2>4. QED
    BY <2>2, <2>3
<1>11. CASE UNCHANGED batchVars
  BY <1>11 DEF batchVars, BatchTypeOK, Held
<1>12. QED
  BY <1>1, <1>2, <1>3, <1>4, <1>5, <1>6, <1>7, <1>8, <1>9, <1>10, <1>11
     DEF BatchNext, CallStep, PollStep

\* Calls, jobs, rows and pollers keep their types.
THEOREM TypesAreKept == BatchSpec => []BatchTypeOK
<1>1. TypeInv => BatchTypeOK
  BY DEF TypeInv
<1>2. QED
  BY TypeInit, TypeStep, <1>1, PTL DEF BatchSpec

-----------------------------------------------------------------------------
(***************************************************************************)
(* Records are true, and work that may run is flagged                      *)
(***************************************************************************)

\* A request is under way or was accepted at most once, and is the eligible
\* part of what the call was given; before it is sent there is neither.
Sent ==
  \A c \in Call :
    /\ wire[c] \in {{}, Eligible(given[c])} /\ batch[c] \in {{}, Eligible(given[c])}
    /\ batch[c] # {} <=> remote[c] # "none"
    /\ wire[c] # {} => remote[c] = "none"
    /\ stage[c] \in {"idle", "uploading"} => wire[c] = {} /\ batch[c] = {}

\* A status that was heard and will be written is one the job had.
HeardIsTrue ==
  \A p \in Poller :
    heard[p] # NoRecord /\ heard[p].status \in BatchJobStatus =>
      LET c == heard[p].id[1]
      IN  heard[p].id = JobId(c) /\ Was(heard[p].status, remote[c]) /\ remote[c] # "none"

IInv == TypeInv /\ Sent /\ HeardIsTrue /\ RecordsAreTrue /\ LostWorkIsFlagged

\* The record of an accepted job does not exist before the job does.
LEMMA NoJobNoRecord ==
  ASSUME IInv, NEW c \in Call, remote[c] = "none"
  PROVE  /\ \A d \in Call : record[d] # NoRecord => record[d].id # JobId(c)
         /\ rows[JobId(c)] = NoRecord
         /\ \A p \in Poller :
              heard[p] # NoRecord /\ heard[p].status \in BatchJobStatus => heard[p].id # JobId(c)
<1>1. JobId(c) \in Ids /\ JobId(c)[1] = c
  BY IdType
<1>2. \A d \in Call : record[d] # NoRecord => record[d].id # JobId(c)
  BY <1>1 DEF IInv, RecordsAreTrue, Truthful
<1>3. rows[JobId(c)] = NoRecord
  BY <1>1 DEF IInv, RecordsAreTrue, Truthful
<1>4. \A p \in Poller :
        heard[p] # NoRecord /\ heard[p].status \in BatchJobStatus => heard[p].id # JobId(c)
  BY <1>1 DEF IInv, HeardIsTrue
<1>5. QED
  BY <1>2, <1>3, <1>4

\* A truthful record stays so while its job is left alone, or only moves on.
LEMMA TruthfulStays ==
  ASSUME NEW r \in BatchJobRecord, Truthful(r), BatchTypeOK, BatchTypeOK',
         r.id = JobId(r.id[1]) =>
           LET c == r.id[1]
           IN  /\ UNCHANGED <<batch[c], given[c]>>
               /\ \/ UNCHANGED remote[c]
                  \/ remote[c] = "pending" /\ remote'[c] = "in_progress"
                  \/ remote[c] \in Active /\ remote'[c] \in Outcome
  PROVE  Truthful(r)'
<1>1. CASE r.id = JobId(r.id[1])
  <2> DEFINE c == r.id[1]
  <2>1. c \in Call /\ r.status \in BatchJobStatus
    BY IdCases DEF BatchJobRecord
  <2>2. remote[c] \in RemoteStatus /\ remote'[c] \in RemoteStatus
    BY <2>1 DEF BatchTypeOK
  <2>3. Was(r.status, remote'[c])
    BY <1>1, <2>1, <2>2, WasStays DEF Truthful
  <2>4. remote'[c] # "none"
    BY <1>1, OutcomeAssumption DEF Truthful, Settled, BatchJobStatus
  <2>5. QED
    BY <1>1, <2>3, <2>4 DEF Truthful, JobId
<1>2. CASE r.id # JobId(r.id[1])
  BY <1>2 DEF Truthful, JobId
<1>3. QED
  BY <1>1, <1>2

LEMMA InvInit == BatchInit => IInv
<1> SUFFICES ASSUME BatchInit PROVE IInv
  OBVIOUS
<1>1. TypeInv
  BY TypeInit
<1>2. Sent /\ HeardIsTrue /\ RecordsAreTrue /\ LostWorkIsFlagged
  BY DEF BatchInit, Sent, HeardIsTrue, RecordsAreTrue, LostWorkIsFlagged
<1>3. QED
  BY <1>1, <1>2 DEF IInv

\* The eligible spans, on the wire or accepted, are covered by the count of all.
LEMMA CountCovers ==
  ASSUME BatchTypeOK, Sent, NEW c \in Call
  PROVE  Cardinality(wire[c] \cup batch[c]) <= Cardinality(given[c])
<1>1. given[c] \in SUBSET Span
  BY DEF BatchTypeOK
<1>2. /\ Cardinality(given[c]) \in Nat
      /\ Cardinality(Eligible(given[c])) <= Cardinality(given[c])
  BY <1>1, EligibleCounts
<1>3. wire[c] \cup batch[c] \in {{}, Eligible(given[c])}
  BY DEF Sent
<1>4. QED
  BY <1>2, <1>3, FS_EmptySet

\* Steps of submit_batch.
LEMMA InvSubmit ==
  ASSUME IInv, TypeInv', NEW c \in Call,
         Submit(c) \/ Uploaded(c) \/ UploadFails(c) \/ SubmitReturns(c) \/ SubmitFails(c)
  PROVE  IInv'
<1> USE DEF IInv, TypeInv
<1>1. CASE Submit(c)
  <2>1. PICK spans \in SUBSET Span :
           /\ given' = [given EXCEPT ![c] = spans]
           /\ \/ \E n \in Nat :
                   /\ record' = [record EXCEPT ![c] = FailedRecord(c, n)]
                   /\ stage' = [stage EXCEPT ![c] = "returned"]
                   /\ UNCHANGED wire
              \/ stage' = [stage EXCEPT ![c] = "uploading"] /\ UNCHANGED <<record, wire>>
              \/ /\ stage' = [stage EXCEPT ![c] = "creating"]
                 /\ wire' = [wire EXCEPT ![c] = Eligible(spans)]
                 /\ UNCHANGED record
    BY <1>1, SubmitCases
  <2>2. UNCHANGED <<batch, remote, rows, pstage, todo, heard, faults>> /\ stage[c] = "idle"
    BY <1>1 DEF Submit, pollVars
  <2>3. wire[c] = {} /\ batch[c] = {} /\ remote[c] = "none" /\ record[c] = NoRecord
    BY <2>2 DEF Sent, Held
  <2>4. Sent'
    BY <2>1, <2>2, <2>3 DEF Sent, BatchTypeOK
  <2>5. HeardIsTrue'
    BY <2>2 DEF HeardIsTrue
  <2>6. RecordsAreTrue'
    <3>1. ASSUME NEW d \in Call, record'[d] # NoRecord
          PROVE  record'[d].id[1] = d /\ Truthful(record[d])'
      <4>1. CASE d = c
        BY <2>1, <2>3, <3>1, <4>1, FailedType, IdType DEF BatchTypeOK, Truthful
      <4>2. CASE d # c
        BY <2>1, <2>2, <3>1, <4>2 DEF BatchTypeOK, RecordsAreTrue, Truthful
      <4>3. QED
        BY <4>1, <4>2
    <3>2. ASSUME NEW id \in Ids, rows'[id] # NoRecord
          PROVE  rows'[id].id = id /\ Truthful(rows[id])'
      <4>1. rows[JobId(c)] = NoRecord
        BY <2>3, NoJobNoRecord
      <4>2. CASE id[1] = c
        BY <2>2, <3>2, <4>1, <4>2, IdCases DEF RecordsAreTrue, Truthful, JobId
      <4>3. CASE id[1] # c
        BY <2>1, <2>2, <3>2, <4>3, IdCases DEF BatchTypeOK, RecordsAreTrue, Truthful
      <4>4. QED
        BY <4>2, <4>3
    <3>3. QED
      BY <3>1, <3>2 DEF RecordsAreTrue
  <2>7. LostWorkIsFlagged'
    <3> SUFFICES ASSUME NEW d \in Call, record'[d] # NoRecord, record'[d].id = FailedId(d)
                 PROVE  Cardinality(wire'[d] \cup batch'[d]) <= record'[d].span_count
      BY DEF LostWorkIsFlagged
    <3>1. CASE d = c
      <4>1. PICK n \in Nat : record' = [record EXCEPT ![c] = FailedRecord(c, n)] /\ UNCHANGED wire
        BY <2>1, <2>3, <3>1 DEF BatchTypeOK
      <4>2. record'[d].span_count = n /\ wire'[d] \cup batch'[d] = {}
        BY <2>2, <2>3, <3>1, <4>1, FailedType DEF BatchTypeOK
      <4>3. QED
        BY <4>1, <4>2, FS_EmptySet
    <3>2. CASE d # c
      BY <2>1, <2>2, <3>2 DEF BatchTypeOK, LostWorkIsFlagged
    <3>3. QED
      BY <3>1, <3>2
  <2>8. QED
    BY <2>4, <2>5, <2>6, <2>7
<1>2. CASE Uploaded(c)
  <2>1. record[c] = NoRecord /\ wire[c] = {} /\ batch[c] = {} /\ remote[c] = "none"
    BY <1>2 DEF Uploaded, Held, Sent
  <2>2. Sent'
    BY <1>2, <2>1 DEF Uploaded, With, Sent, BatchTypeOK
  <2>3. HeardIsTrue' /\ RecordsAreTrue'
    BY <1>2 DEF Uploaded, pollVars, HeardIsTrue, RecordsAreTrue, Truthful
  <2>4. LostWorkIsFlagged'
    BY <1>2, <2>1 DEF Uploaded, With, LostWorkIsFlagged, BatchTypeOK
  <2>5. QED
    BY <2>2, <2>3, <2>4
<1>3. CASE UploadFails(c) \/ SubmitFails(c)
  <2> DEFINE n == Cardinality(given[c])
  <2>1. n \in Nat
    BY EligibleCounts DEF BatchTypeOK
  <2>2. record' = [record EXCEPT ![c] = FailedRecord(c, n)]
        /\ UNCHANGED <<given, wire, batch, remote, rows, pstage, todo, heard>>
    BY <1>3 DEF UploadFails, SubmitFails, Return, With, pollVars
  <2>3. record'[c] = FailedRecord(c, n) /\ \A d \in Call \ {c} : record'[d] = record[d]
    BY <2>2 DEF BatchTypeOK
  <2>4. Sent' /\ HeardIsTrue'
    BY <1>3, <2>2 DEF UploadFails, SubmitFails, Return, With, Sent, HeardIsTrue, BatchTypeOK
  <2>5. Truthful(record[c])' /\ record'[c].id[1] = c
    BY <2>1, <2>3, FailedType, IdType DEF Truthful
  <2>6. RecordsAreTrue'
    BY <2>2, <2>3, <2>5 DEF RecordsAreTrue, Truthful
  <2>7. Cardinality(wire'[c] \cup batch'[c]) <= record'[c].span_count
    BY <2>1, <2>2, <2>3, FailedType, CountCovers
  <2>8. LostWorkIsFlagged'
    BY <2>2, <2>3, <2>7 DEF LostWorkIsFlagged
  <2>9. QED
    BY <2>4, <2>6, <2>8
<1>4. CASE SubmitReturns(c)
  <2>1. record' = [record EXCEPT ![c] = SubmittedRecord(c)]
        /\ UNCHANGED <<given, wire, batch, remote, rows, pstage, todo, heard>>
    BY <1>4 DEF SubmitReturns, Return, With, pollVars
  <2>2. record'[c] = SubmittedRecord(c) /\ \A d \in Call \ {c} : record'[d] = record[d]
    BY <2>1 DEF BatchTypeOK
  <2>3. remote[c] # "none" /\ batch[c] = Eligible(given[c])
    BY <1>4 DEF SubmitReturns, Sent
  <2>4. Truthful(record[c])' /\ record'[c].id[1] = c
    BY <2>1, <2>2, <2>3, SubmittedType, IdType, ZenonT(60) DEF Truthful, Was, Eligible
  <2>5. Sent' /\ HeardIsTrue'
    BY <1>4, <2>1 DEF SubmitReturns, Return, With, Sent, HeardIsTrue, BatchTypeOK
  <2>6. RecordsAreTrue'
    BY <2>1, <2>2, <2>4 DEF RecordsAreTrue, Truthful
  <2>7. record'[c].id # FailedId(c)
    BY <2>2, SubmittedType, IdType
  <2>8. LostWorkIsFlagged'
    BY <2>1, <2>2, <2>7 DEF LostWorkIsFlagged
  <2>9. QED
    BY <2>5, <2>6, <2>8
<1>5. QED
  BY <1>1, <1>2, <1>3, <1>4

\* A crash, and the transaction that stores the record.
LEMMA InvStore ==
  ASSUME IInv, TypeInv', NEW c \in Call,
         Crash(c) \/ Create(c) \/ Commit(c) \/ CommitFails(c)
  PROVE  IInv'
<1> USE DEF IInv, TypeInv
<1>1. UNCHANGED <<given, wire, batch, remote, pstage, todo, heard>>
  BY DEF Crash, Create, Commit, CommitFails, pollVars, provider
<1>2. Sent'
  BY <1>1 DEF Crash, Create, Commit, CommitFails, With, Sent, BatchTypeOK
<1>3. HeardIsTrue'
  BY <1>1 DEF HeardIsTrue
<1>4. \A d \in Call : record'[d] \in {record[d], NoRecord}
  BY DEF Crash, Create, Commit, CommitFails, With, BatchTypeOK
<1>5. LostWorkIsFlagged'
  BY <1>1, <1>4 DEF LostWorkIsFlagged
<1>6. \A id \in Ids : rows'[id] = rows[id] \/ (record[c] # NoRecord /\ id = record[c].id /\ rows'[id] = record[c])
  BY DEF Crash, Create, Commit, CommitFails, With, BatchTypeOK, Held
<1>7. RecordsAreTrue'
  BY <1>1, <1>4, <1>6 DEF RecordsAreTrue, Truthful
<1>8. QED
  BY <1>2, <1>3, <1>5, <1>7

\* What the provider does.
LEMMA InvProvider ==
  ASSUME IInv, TypeInv', NEW c \in Call, ProviderStep(c)
  PROVE  IInv'
<1> USE DEF IInv, TypeInv
<1>1. UNCHANGED <<stage, given, record, rows, pstage, todo, heard>>
  BY DEF ProviderStep, Accept, LoseSubmission, Progress, callVars, pollVars
<1>2. CASE Accept(c)
  <2>1. /\ wire[c] = Eligible(given[c]) /\ wire[c] # {}
        /\ remote[c] = "none" /\ batch[c] = {}
        /\ stage[c] \notin {"idle", "uploading"}
    BY <1>2 DEF Accept, Sent
  <2>2. Sent'
    BY <1>1, <1>2, <2>1 DEF Accept, With, Sent, BatchTypeOK
  <2>3. /\ \A d \in Call : record[d] # NoRecord => record[d].id # JobId(c)
        /\ rows[JobId(c)] = NoRecord
        /\ \A p \in Poller :
             heard[p] # NoRecord /\ heard[p].status \in BatchJobStatus => heard[p].id # JobId(c)
    BY <2>1, NoJobNoRecord
  <2>4. HeardIsTrue'
    BY <1>1, <1>2, <2>3 DEF Accept, With, HeardIsTrue, BatchTypeOK
  <2>5. RecordsAreTrue'
    <3>1. ASSUME NEW r \in BatchJobRecord, Truthful(r), r.id # JobId(c) PROVE Truthful(r)'
      <4>1. r.id[1] \in Call /\ (r.id[1] = c => r.id # JobId(r.id[1]))
        BY <3>1, IdCases DEF BatchJobRecord
      <4>2. CASE r.id[1] = c
        BY <3>1, <4>1, <4>2 DEF Truthful, JobId
      <4>3. CASE r.id[1] # c
        BY <1>1, <1>2, <3>1, <4>1, <4>3 DEF Accept, With, BatchTypeOK, Truthful
      <4>4. QED
        BY <4>2, <4>3
    <3>2. \A d \in Call : record[d] # NoRecord => record[d] \in BatchJobRecord
      BY DEF BatchTypeOK
    <3>3. \A id \in Ids : rows[id] # NoRecord => rows[id] \in BatchJobRecord /\ rows[id].id # JobId(c)
      BY <2>3 DEF BatchTypeOK, RecordsAreTrue
    <3>4. QED
      BY <1>1, <2>3, <3>1, <3>2, <3>3 DEF RecordsAreTrue
  <2>6. \A d \in Call : wire'[d] \cup batch'[d] = wire[d] \cup batch[d]
    BY <1>2, <2>1 DEF Accept, With, BatchTypeOK
  <2>7. LostWorkIsFlagged'
    BY <1>1, <2>6 DEF LostWorkIsFlagged
  <2>8. QED
    BY <2>2, <2>4, <2>5, <2>7
<1>3. CASE LoseSubmission(c)
  <2>1. Sent' /\ HeardIsTrue' /\ RecordsAreTrue'
    BY <1>1, <1>3 DEF LoseSubmission, With, Sent, HeardIsTrue, RecordsAreTrue, Truthful, BatchTypeOK
  <2>2. ASSUME NEW d \in Call, record[d] # NoRecord, record[d].id = FailedId(d)
        PROVE  Cardinality(wire'[d] \cup batch'[d]) <= record[d].span_count
    <3>1. CASE d = c
      <4>1. wire'[d] \cup batch'[d] = {}
        BY <1>3, <3>1 DEF LoseSubmission, With, Sent, BatchTypeOK
      <4>2. record[d].span_count \in Nat
        BY <2>2 DEF BatchTypeOK, BatchJobRecord
      <4>3. QED
        BY <4>1, <4>2, FS_EmptySet
    <3>2. CASE d # c
      BY <1>3, <2>2, <3>2 DEF LoseSubmission, With, BatchTypeOK, LostWorkIsFlagged
    <3>3. QED
      BY <3>1, <3>2
  <2>3. LostWorkIsFlagged'
    BY <1>1, <2>2 DEF LostWorkIsFlagged
  <2>4. QED
    BY <2>1, <2>3
<1>4. CASE Progress(c)
  <2>1. /\ UNCHANGED <<wire, batch>> /\ \A d \in Call \ {c} : remote'[d] = remote[d]
        /\ \/ remote[c] = "pending" /\ remote'[c] = "in_progress"
           \/ remote[c] \in Active /\ remote'[c] \in Outcome
    BY <1>4 DEF Progress, With, callVars, BatchTypeOK
  <2>2. remote[c] # "none" /\ remote'[c] # "none"
    BY <2>1, OutcomeAssumption DEF Active, Settled, BatchJobStatus
  <2>3. Sent'
    BY <1>1, <2>1, <2>2 DEF Sent
  <2>4. \A p \in Poller : heard[p] # NoRecord => heard[p].id \in Ids
    BY DEF BatchTypeOK, Heard
  <2>5. HeardIsTrue'
    <3> SUFFICES ASSUME NEW p \in Poller, heard[p] # NoRecord, heard[p].status \in BatchJobStatus
                 PROVE  LET d == heard[p].id[1]
                        IN  /\ heard[p].id = JobId(d) /\ remote'[d] # "none"
                            /\ Was(heard[p].status, remote'[d])
      BY <1>1 DEF HeardIsTrue
    <3> DEFINE d == heard[p].id[1]
    <3>1. d \in Call /\ heard[p].id = JobId(d) /\ Was(heard[p].status, remote[d]) /\ remote[d] # "none"
      BY <2>4, IdCases DEF HeardIsTrue
    <3>2. remote[d] \in RemoteStatus /\ remote'[d] \in RemoteStatus
      BY <3>1 DEF BatchTypeOK
    <3>3. Was(heard[p].status, remote'[d])
      BY <2>1, <3>1, <3>2, WasStays
    <3>4. QED
      BY <2>1, <2>2, <3>1, <3>3
  <2>6. ASSUME NEW r \in BatchJobRecord, Truthful(r) PROVE Truthful(r)'
    <3>1. r.id[1] \in Call
      BY IdCases DEF BatchJobRecord
    <3>2. QED
      BY <1>1, <2>1, <2>6, <3>1, TruthfulStays
  <2>7. RecordsAreTrue'
    BY <1>1, <2>6 DEF RecordsAreTrue, BatchTypeOK
  <2>8. LostWorkIsFlagged'
    BY <1>1, <2>1 DEF LostWorkIsFlagged
  <2>9. QED
    BY <2>3, <2>5, <2>7, <2>8
<1>5. QED
  BY <1>2, <1>3, <1>4 DEF ProviderStep

\* Steps of a poller.
LEMMA InvPoll ==
  ASSUME IInv, TypeInv', NEW p \in Poller, PollStep(p)
  PROVE  IInv'
<1> USE DEF IInv, TypeInv
<1>1. UNCHANGED <<stage, given, record, wire, batch, remote>>
  BY DEF PollStep, Poll, AskProvider, UpdateStatus, CommitStatus, PollEnds, PollFails, callVars, provider
<1>2. Sent' /\ LostWorkIsFlagged'
  BY <1>1 DEF Sent, LostWorkIsFlagged
<1>3. HeardIsTrue'
  <2>1. CASE AskProvider(p)
    <3>1. PICK id \in todo[p] : heard' = With(heard, p, [id |-> id, status |-> StatusAt(id)])
      BY <2>1 DEF AskProvider
    <3>2. id \in Ids
      BY DEF BatchTypeOK
    <3>3. StatusAt(id) \in BatchJobStatus =>
            id = JobId(id[1]) /\ Was(StatusAt(id), remote[id[1]]) /\ remote[id[1]] # "none"
      BY DEF StatusAt, BatchJobStatus, Was
    <3>4. QED
      BY <1>1, <3>1, <3>2, <3>3 DEF With, HeardIsTrue, BatchTypeOK
  <2>2. CASE ~AskProvider(p)
    <3>1. \A q \in Poller : heard'[q] \in {heard[q], NoRecord}
      BY <2>2 DEF PollStep, Poll, UpdateStatus, CommitStatus, PollEnds, PollFails, With, BatchTypeOK
    <3>2. QED
      BY <1>1, <3>1 DEF HeardIsTrue
  <2>3. QED
    BY <2>1, <2>2
<1>4. RecordsAreTrue'
  <2>1. CASE CommitStatus(p)
    <3> DEFINE id == heard[p].id
    <3> DEFINE r == [rows[id] EXCEPT !.status = heard[p].status]
    <3>1. /\ heard[p] # NoRecord /\ heard[p].status \in BatchJobStatus /\ id \in Ids
          /\ rows[id] # NoRecord /\ rows[id] \in BatchJobRecord
      BY <2>1 DEF CommitStatus, Held, BatchTypeOK, Heard
    <3>2. id = JobId(id[1]) /\ Was(heard[p].status, remote[id[1]]) /\ remote[id[1]] # "none"
      BY <3>1 DEF HeardIsTrue
    <3>3. rows[id].id = id /\ Truthful(rows[id])
      BY <3>1 DEF RecordsAreTrue
    <3>4. r.id = id /\ r.status = heard[p].status /\ r.span_count = rows[id].span_count
      BY <3>1, <3>3 DEF BatchJobRecord
    <3> HIDE DEF r
    <3>5. Truthful(r)
      BY <3>2, <3>3, <3>4 DEF Truthful
    <3>6. rows' = [rows EXCEPT ![id] = r]
      BY <2>1 DEF CommitStatus, r
    <3> HIDE DEF id
    <3>7. \A i \in Ids : rows'[i] # NoRecord => rows'[i].id = i /\ Truthful(rows'[i])
      BY <3>1, <3>4, <3>5, <3>6 DEF BatchTypeOK, RecordsAreTrue
    <3>8. QED
      BY <1>1, <3>7 DEF RecordsAreTrue, Truthful
  <2>2. CASE ~CommitStatus(p)
    <3>1. UNCHANGED rows
      BY <2>2 DEF PollStep, Poll, AskProvider, UpdateStatus, PollEnds, PollFails
    <3>2. QED
      BY <1>1, <3>1 DEF RecordsAreTrue, Truthful
  <2>3. QED
    BY <2>1, <2>2
<1>5. QED
  BY <1>2, <1>3, <1>4

LEMMA InvStep == IInv /\ [BatchNext]_batchVars => IInv'
<1> SUFFICES ASSUME IInv, [BatchNext]_batchVars PROVE IInv'
  OBVIOUS
<1>1. TypeInv'
  BY TypeStep DEF IInv
<1>2. CASE BatchNext
  BY <1>1, <1>2, InvSubmit, InvStore, InvProvider, InvPoll DEF BatchNext, CallStep
<1>3. CASE UNCHANGED batchVars
  BY <1>1, <1>3
     DEF batchVars, IInv, Sent, HeardIsTrue, RecordsAreTrue, LostWorkIsFlagged, Truthful
<1>4. QED
  BY <1>2, <1>3

\* Whatever is lost, repeated or late, a record says nothing false of its job.
THEOREM RecordsStayTrue == BatchSpec => []RecordsAreTrue
<1>1. IInv => RecordsAreTrue
  BY DEF IInv
<1>2. QED
  BY InvInit, InvStep, <1>1, PTL DEF BatchSpec

\* Work that may run under a failed call is covered by the call's record.
THEOREM LostWorkStaysFlagged == BatchSpec => []LostWorkIsFlagged
<1>1. IInv => LostWorkIsFlagged
  BY DEF IInv
<1>2. QED
  BY InvInit, InvStep, <1>1, PTL DEF BatchSpec

=============================================================================
