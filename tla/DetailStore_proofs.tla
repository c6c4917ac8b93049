------------------------- MODULE DetailStore_proofs -------------------------
(***************************************************************************)
(* Proofs about what DetailCrawl says of the database and the bucket       *)
(* together: what is called ready is what is stored, and the runs          *)
(* implement RawShelf.  They rest on the bookkeeping of DetailCrawl_proofs.*)
(***************************************************************************)
EXTENDS DetailCrawl_proofs

\* The bucket keeps what it was given.
Untouched == Faults \cap {"object_lost", "object_changed"} = {}

\* Lengths tell bodies apart, which is all that stat_object compares.
SizesDistinguish == \A c, d \in Contents : Size[c] = Size[d] => c = d

LEMMA ControlParts ==
  Control => Tables /\ RunState /\ RetryBudget /\ Held
  BY PerJob DEF Control, TypeOK, Held, JobsInv

-----------------------------------------------------------------------------

LEMMA ReadyKeptStep ==
  ASSUME Untouched, Control, [Next]_vars
  PROVE  \A j \in Jobs :
           job[j].status = "raw_ready" /\ object'[j] # object[j] =>
             /\ object'[j] = None
             /\ object[j] = parsed[j].current
<1>1. Tables /\ RunState /\ Held
  BY ControlParts
<1>2. CASE UNCHANGED object
  BY <1>2
<1>3. CASE PutObject \/ PutFails
  <2>1. cur \in Jobs /\ job[cur].status = "uploading"
    BY <1>1, <1>3 DEF Held, Worker, PutObject, PutFails
  <2>2. \A k \in Jobs : k # cur => object'[k] = object[k]
    BY <1>1, <1>3 DEF Tables, PutObject, PutFails
  <2>3. QED BY <2>1, <2>2
<1>4. ASSUME NEW k \in Jobs, PurgeRaw(k) \/ PurgeInterrupted(k)
      PROVE  /\ \A j \in Jobs : j # k => object'[j] = object[j]
             /\ object'[k] # object[k] => object'[k] = None /\ object[k] = parsed[k].current
  <2>1. /\ object[k] \in {parsed[k].current, None}
        /\ object' = [object EXCEPT ![k] = None]
    BY <1>4 DEF PurgeRaw, PurgeInterrupted, CleanupCandidate
  <2>2. QED BY <1>1, <2>1 DEF Tables
<1>5. ASSUME NEW k, LoseObject(k) \/ ChangeObject(k)
      PROVE  FALSE
  BY <1>5 DEF LoseObject, ChangeObject, Untouched
<1>6. CASE RecoverUpload \/ RecoverStaleFetches \/ AuditRawObject \/ FinishRecovery
  BY <1>2, <1>6 DEF RecoverUpload, RecoverStaleFetches, AuditRawObject, FinishRecovery, stored
<1>7. CASE Discovery
  BY <1>2, <1>7 DEF Discovery, UpsertDiscoveredJobs, EndDiscovery, stored
<1>8. CASE Detail
  BY <1>2, <1>3, <1>8
     DEF Detail, ClaimNextJob, EndDetails, FetchPage, FetchFails, PageGone, RejectPage,
         MarkUploading, CompleteUpload, CompleteFails, CompleteUnanswered, FailUnanswered,
         stored
<1>9. CASE AbortRun \/ (\E p \in {"full", "discovery", "detail"} : StartRun(p)) \/ UNCHANGED vars
  BY <1>2, <1>9 DEF AbortRun, StartRun, vars, stored
<1>10. ASSUME NEW k \in Jobs, ParseRaw(k) \/ RetryDue(k)
       PROVE  UNCHANGED object
  BY <1>10 DEF ParseRaw, RetryDue
<1>11. QED
  BY <1>2, <1>4, <1>5, <1>6, <1>7, <1>8, <1>9, <1>10 DEF Next, Recovery

\* In a bucket nobody else writes to, the object of a ready job goes only by cleanup, and
\* only when the current parse result was made from that body: put_object never hits the
\* fixed key of a ready job.
THEOREM ReadyObjectsStay ==
  ASSUME Untouched
  PROVE  Spec => ReadyObjectKept
<1> DEFINE Step == \A j \in Jobs :
                     job[j].status = "raw_ready" /\ object'[j] # object[j] =>
                       /\ object'[j] = None
                       /\ object[j] = parsed[j].current
<1>1. Control /\ [Next]_vars => [Step]_vars
  BY ReadyKeptStep
<1>2. QED BY <1>1, ControlHolds, PTL DEF Spec, ReadyObjectKept

-----------------------------------------------------------------------------
(* Ready means stored.                                                      *)

ReadyStored(j) ==
    job[j].status = "raw_ready" /\ raw[j].integrity = "valid" =>
      /\ raw[j].sha # None
      /\ ~raw[j].purged
      /\ object[j] = raw[j].sha

StoreInv == ReadyMatchesStore /\ Uploaded

LEMMA ReadyFrame ==
  ASSUME NEW j \in Jobs, ReadyStored(j),
         \/ /\ job'[j].status = job[j].status
            /\ raw'[j] = raw[j]
            /\ object'[j] = object[j]
         \/ job'[j].status # "raw_ready"
  PROVE  ReadyStored(j)'
  BY DEF ReadyStored

\* The end of the current attempt in failure.
LEMMA StoreFails ==
  ASSUME Tables, Held, ReadyMatchesStore, Fails
  PROVE  StoreInv'
<1>1. cur \in Jobs
  BY FailsFacts, CurrentAttempt DEF Held
<1>2. PICK s \in ClosedAttempt, retryable \in BOOLEAN :
        /\ FailAttempt(s, retryable)
        /\ NextAfterError(s) \/ NextJob(0)
  BY FailsFacts
<1>3. /\ \A k \in Jobs : k # cur => job'[k] = job[k]
      /\ job'[cur].status \in {"blocked", "permanent_error", "retryable_error"}
  BY <1>1, <1>2, FailAttemptEffect DEF Tables
<1>4. raw' = raw
  BY FailsFacts
<1>5. \A k \in Jobs : k # cur => object'[k] = object[k]
  BY <1>1
     DEF Tables, Fails, FetchFails, PageGone, RejectPage, PutFails, CompleteFails,
         FailUnanswered
<1>6. \A k \in Jobs : ReadyStored(k)'
  BY <1>3, <1>4, <1>5, ReadyFrame DEF ReadyMatchesStore, ReadyStored
<1>7. pc' # "stored"
  BY <1>2, RunMoves
<1>8. QED BY <1>6, <1>7 DEF StoreInv, ReadyMatchesStore, ReadyStored, Uploaded

LEMMA SameSize ==
  ASSUME SizesDistinguish, NEW c \in Contents, NEW d \in Body, d # None, Size[d] = Size[c]
  PROVE  d = c
  BY DEF SizesDistinguish, Body

LEMMA StoreStep ==
  ASSUME Faults \subseteq {"lost_ack"}, SizesDistinguish, Control, StoreInv, [Next]_vars
  PROVE  StoreInv'
<1>1. /\ Tables /\ RunState /\ Held /\ ReadyMatchesStore
      /\ \A j \in Jobs : ReadyStored(j)
  BY ControlParts DEF StoreInv, ReadyMatchesStore, ReadyStored
<1> DEFINE Goal == \A j \in Jobs : ReadyStored(j)'
<1>2. ASSUME Goal, pc' # "stored"
      PROVE  StoreInv'
  BY <1>2 DEF StoreInv, ReadyMatchesStore, ReadyStored, Uploaded
<1>3. ASSUME UNCHANGED <<job, raw, object>>
      PROVE  Goal
  BY <1>1, <1>3, ReadyFrame
<1>4. CASE RecoverUpload
  <2>1. PICK u \in uploads :
          IF SizeMatches(u[1], attempt[u[1]][u[2]].sha)
            THEN Complete(u[1], u[2], attempt[u[1]][u[2]].sha)
            ELSE FailRecoveredUpload(u[1], u[2])
    BY <1>4 DEF RecoverUpload
  <2>2. /\ u[1] \in Jobs /\ u[2] \in AttemptNumber
        /\ attempt[u[1]][u[2]].status = "uploading"
    BY <1>1, <1>4 DEF Held, Worker, RecoverUpload, PendingUploads
  <2>3. PICK j \in Jobs, c \in Contents :
          /\ j = u[1]
          /\ c = attempt[u[1]][u[2]].sha
    BY <1>1, <2>2 DEF Held, JobsInv, JobInv, RowsOf
  <2>4. object' = object /\ pc' = "recover"
    BY <1>4 DEF RecoverUpload
  <2>5. CASE SizeMatches(j, c)
    <3>1. object[j] = c
      BY <1>1, <2>5, SameSize DEF SizeMatches, Tables
    <3>2. Complete(j, u[2], c)
      BY <2>1, <2>3, <2>5
    <3>3. /\ \A k \in Jobs : k # j => job'[k] = job[k] /\ raw'[k] = raw[k]
          /\ raw'[j].sha = c
          /\ ~raw'[j].purged
      BY <1>1, <3>2, CompleteEffect, StoreRawEffect DEF Tables
    <3>4. ReadyStored(j)'
      BY <2>4, <3>1, <3>3, ContentsAssumption DEF ReadyStored
    <3>5. Goal
      BY <1>1, <2>4, <3>3, <3>4, ReadyFrame
    <3>6. QED BY <1>2, <2>4, <3>5
  <2>6. CASE ~SizeMatches(j, c)
    <3>1. FailRecoveredUpload(j, u[2])
      BY <2>1, <2>3, <2>6
    <3>2. /\ \A k \in Jobs : k # j => job'[k] = job[k]
          /\ job'[j].status = "retryable_error"
          /\ raw' = raw
      BY <1>1, <3>1 DEF FailRecoveredUpload, Tables, JobTable, JobRow
    <3>3. Goal
      BY <1>1, <2>4, <3>2, ReadyFrame
    <3>4. QED BY <1>2, <2>4, <3>3
  <2>7. QED BY <2>5, <2>6
<1>5. CASE RecoverStaleFetches
  <2>1. raw' = raw /\ object' = object /\ pc' = "audit"
    BY <1>5 DEF RecoverStaleFetches
  <2>2. ASSUME NEW j \in Jobs
        PROVE  job'[j].status \in {job[j].status, "retryable_error"}
    <3>1. job[j] \in JobRow
      BY <1>1 DEF Tables, JobTable
    <3>2. job'[j] = IF j \in StaleJobs
                      THEN [job[j] EXCEPT !.status = "retryable_error", !.due = TRUE]
                      ELSE job[j]
      BY <1>5 DEF RecoverStaleFetches
    <3>3. QED BY <3>1, <3>2 DEF JobRow
  <2>3. Goal
    BY <1>1, <2>1, <2>2, ReadyFrame
  <2>4. QED BY <1>2, <2>1, <2>3
<1>6. CASE AuditRawObject
  <2>1. PICK j \in checks :
          /\ raw' = [raw EXCEPT ![j].integrity = AuditVerdict(j)]
          /\ job' = [job EXCEPT ![j].status = StatusForIntegrity(AuditVerdict(j))]
    BY <1>6 DEF AuditRawObject
  <2>2. /\ object' = object /\ pc' = "audit"
        /\ j \in Jobs /\ raw[j].sha # None /\ ~raw[j].purged
    BY <1>1, <1>6 DEF AuditRawObject, Held, Worker, RunState
  <2>3. /\ \A k \in Jobs : k # j => job'[k] = job[k] /\ raw'[k] = raw[k]
        /\ raw'[j].sha = raw[j].sha
        /\ raw'[j].purged = raw[j].purged
        /\ raw'[j].integrity = AuditVerdict(j)
    BY <1>1, <2>1, <2>2 DEF Tables, JobTable, JobRow, RawTable, RawRow
  <2>4. raw[j].sha \in Contents /\ object[j] \in Body
    BY <1>1, <2>2 DEF Tables, RawTable, RawRow, Body
  <2>5. AuditVerdict(j) = "valid" => object[j] = raw[j].sha
    BY <2>4, SameSize DEF AuditVerdict
  <2>6. ReadyStored(j)'
    BY <2>2, <2>3, <2>5 DEF ReadyStored
  <2>7. Goal
    BY <1>1, <2>2, <2>3, <2>6, ReadyFrame
  <2>8. QED BY <1>2, <2>2, <2>7
<1>7. ASSUME NEW S, UpsertDiscoveredJobs(S)
      PROVE  StoreInv'
  <2>1. raw' = raw /\ object' = object /\ pc' = "discover"
    BY <1>7 DEF UpsertDiscoveredJobs
  <2>2. \A j \in Jobs : job'[j].status \in {job[j].status, "pending"}
    BY <1>1, <1>7, UpsertedRow DEF Upserted, Tables
  <2>3. Goal
    BY <1>1, <2>1, <2>2, ReadyFrame
  <2>4. QED BY <1>2, <2>1, <2>3
<1>8. CASE ClaimNextJob \/ FetchPage \/ MarkUploading
  <2>1. raw' = raw /\ object' = object /\ pc' # "stored"
    BY <1>8 DEF ClaimNextJob, FetchPage, MarkUploading
  <2>2. \A j \in Jobs : job'[j].status \in {job[j].status, "fetching", "validating", "uploading"}
    <3>1. PICK j \in Jobs, s \in {"fetching", "validating", "uploading"} :
            \/ job' = [job EXCEPT ![j].status = s]
            \/ job' = [job EXCEPT ![j].status = s, ![j].count = @ + 1, ![j].due = TRUE]
      BY <1>1, <1>8 DEF ClaimNextJob, FetchPage, MarkUploading, Held, Worker
    <3>2. QED BY <1>1, <3>1 DEF Tables, JobTable, JobRow
  <2>3. Goal
    BY <1>1, <2>1, <2>2, ReadyFrame
  <2>4. QED BY <1>2, <2>1, <2>3
<1>9. CASE PutObject
  <2>1. /\ cur \in Jobs /\ job[cur].status = "uploading"
        /\ cur' = cur /\ page' = page /\ job' = job /\ raw' = raw
        /\ object' = [object EXCEPT ![cur] = page]
    BY <1>1, <1>9 DEF PutObject, Held, Worker, rows, work
  <2>2. Goal
    BY <1>1, <2>1 DEF ReadyStored, Tables
  <2>3. Uploaded'
    BY <1>1, <2>1 DEF Uploaded, Tables
  <2>4. QED BY <2>2, <2>3 DEF StoreInv, ReadyMatchesStore, ReadyStored
<1>10. CASE CompleteUpload \/ CompleteUnanswered
  <2>1. PICK j \in Jobs, c \in Contents : j = cur /\ c = page
    BY <1>1, <1>10 DEF CompleteUpload, CompleteUnanswered, Held, Worker
  <2>2. /\ Complete(j, job[j].count, c)
        /\ object[j] = c
        /\ object' = object /\ pc' # "stored"
    BY <1>10, <2>1 DEF CompleteUpload, CompleteUnanswered, NextJob, StoreInv, Uploaded
  <2>3. /\ \A k \in Jobs : k # j => job'[k] = job[k] /\ raw'[k] = raw[k]
        /\ raw'[j].sha = c
        /\ ~raw'[j].purged
    BY <1>1, <2>2, CompleteEffect, StoreRawEffect DEF Tables
  <2>4. ReadyStored(j)'
    BY <2>2, <2>3, ContentsAssumption DEF ReadyStored
  <2>5. Goal
    BY <1>1, <2>2, <2>3, <2>4, ReadyFrame
  <2>6. QED BY <1>2, <2>2, <2>5
<1>11. ASSUME NEW j \in Jobs, ParseRaw(j)
       PROVE  StoreInv'
  <2>1. object' = object /\ pc = "idle" /\ pc' = pc
    BY <1>11 DEF ParseRaw, run
  <2>2. CASE UNCHANGED <<job, raw>>
    BY <1>2, <1>3, <2>1, <2>2
  <2>3. CASE ~UNCHANGED <<job, raw>>
    <3>1. PICK i \in Integrity \ {"none", "valid"} :
            /\ raw' = [raw EXCEPT ![j].integrity = i]
            /\ job' = [job EXCEPT ![j].status = StatusForIntegrity(i)]
      BY <1>11, <2>3 DEF ParseRaw, Integrity
    <3>2. StatusForIntegrity(i) # "raw_ready"
      BY DEF StatusForIntegrity
    <3>3. /\ \A k \in Jobs : k # j => job'[k] = job[k] /\ raw'[k] = raw[k]
          /\ job'[j].status # "raw_ready"
      BY <1>1, <3>1, <3>2 DEF Tables, JobTable, JobRow, RawTable
    <3>4. Goal
      BY <1>1, <2>1, <3>3, ReadyFrame
    <3>5. QED BY <1>2, <2>1, <3>4
  <2>4. QED BY <2>2, <2>3
<1>12. ASSUME NEW j \in Jobs, PurgeRaw(j)
       PROVE  StoreInv'
  <2>1. pc = "idle" /\ pc' = pc
    BY <1>12 DEF PurgeRaw, CleanupCandidate, run
  <2>2. /\ \A k \in Jobs : k # j => job'[k] = job[k] /\ raw'[k] = raw[k] /\ object'[k] = object[k]
        /\ job'[j].status = "storage_missing"
    BY <1>1, <1>12 DEF PurgeRaw, Tables, JobTable, JobRow, RawTable
  <2>3. Goal
    BY <1>1, <2>2, ReadyFrame
  <2>4. QED BY <1>2, <2>1, <2>3
<1>13. ASSUME NEW j \in Jobs, RetryDue(j)
       PROVE  StoreInv'
  <2>1. /\ raw' = raw /\ object' = object
        /\ pc' = pc /\ cur' = cur /\ page' = page
    BY <1>13 DEF RetryDue, run, work
  <2>2. \A k \in Jobs : job'[k].status = job[k].status
    BY <1>1, <1>13 DEF RetryDue, Tables, JobTable, JobRow
  <2>3. Goal
    BY <1>1, <2>1, <2>2, ReadyFrame
  <2>4. QED BY <2>1, <2>3 DEF StoreInv, ReadyMatchesStore, ReadyStored, Uploaded
<1>14. ASSUME NEW j, PurgeInterrupted(j) \/ LoseObject(j) \/ ChangeObject(j)
       PROVE  FALSE
  BY <1>14 DEF PurgeInterrupted, LoseObject, ChangeObject
<1>15. CASE \/ \E p \in {"full", "discovery", "detail"} : StartRun(p)
            \/ FinishRecovery \/ EndDiscovery \/ EndDetails \/ AbortRun
  <2>1. UNCHANGED <<job, raw, object>> /\ pc' # "stored"
    BY <1>15
       DEF StartRun, FinishRecovery, EndDiscovery, EndDetails, AbortRun, EndRun, stored, rows
  <2>2. QED BY <1>2, <1>3, <2>1
<1>16. CASE UNCHANGED vars
  <2>1. UNCHANGED <<job, raw, object, pc, cur, page>>
    BY <1>16 DEF vars, stored, rows, run, work
  <2>2. QED BY <1>3, <2>1 DEF StoreInv, ReadyMatchesStore, ReadyStored, Uploaded
<1>17. QED
  BY <1>1, <1>4, <1>5, <1>6, <1>7, <1>8, <1>9, <1>10, <1>11, <1>12, <1>13, <1>14, <1>15,
     <1>16, StoreFails DEF Next, Recovery, Discovery, Detail, Fails

\* Where no fault touches the bucket and lengths tell bodies apart, a ready and valid row
\* is backed by the very body it names, after any kills, failed puts and lost commits.
THEOREM ReadyIsStored ==
  ASSUME Faults \subseteq {"lost_ack"}, SizesDistinguish
  PROVE  Spec => []ReadyMatchesStore
<1>1. Init => StoreInv
  BY DEF Init, StoreInv, ReadyMatchesStore, Uploaded
<1>2. Control /\ StoreInv /\ [Next]_vars => StoreInv'
  BY StoreStep
<1>3. StoreInv => ReadyMatchesStore
  BY DEF StoreInv
<1>4. QED BY <1>1, <1>2, <1>3, ControlHolds, PTL DEF Spec

-----------------------------------------------------------------------------
(* The runs implement RawShelf.                                             *)

Accepted(j) == {attempt[j][n].sha : n \in AttemptNumber} \ {None}
Offered(j) ==
    IF job[j].status = "raw_ready" /\ raw[j].integrity = "valid" THEN raw[j].sha ELSE None

\* The body of a stored row was recorded by an attempt of its job.
RawAttempted == \A j \in Jobs : raw[j].sha # None => raw[j].sha \in Accepted(j)

LEMMA AcceptedType ==
  ASSUME Tables, NEW j \in Jobs
  PROVE  Accepted(j) \subseteq Contents
<1>1. \A n \in AttemptNumber : attempt[j][n].sha \in Body
  BY DEF Tables, AttemptTable, AttemptRow
<1>2. QED BY <1>1 DEF Accepted, Body

\* A step that records no new body and touches the offer of one job implements a step of
\* the shelf, when an offer it makes was empty before and was accepted.
LEMMA ShelfMove ==
  ASSUME Tables, NEW j \in Jobs,
         \A k \in Jobs : Accepted(k)' = Accepted(k),
         \A k \in Jobs : k # j => Offered(k)' = Offered(k),
         \/ Offered(j)' \in {Offered(j), None}
         \/ Offered(j) = None /\ Offered(j)' \in Accepted(j)
  PROVE  [Shelf!Next]_(Shelf!shelfVars)
<1> DEFINE acc == [k \in Jobs |-> Accepted(k)]
           off == [k \in Jobs |-> Offered(k)]
<1>1. acc' = acc
  OBVIOUS
<1>2. off' = [off EXCEPT ![j] = Offered(j)']
  OBVIOUS
<1>3. CASE Offered(j)' = Offered(j)
  <2>1. off' = off
    BY <1>2, <1>3
  <2>2. QED BY <1>1, <2>1 DEF Shelf!shelfVars, Accepted, Offered
<1>4. CASE Offered(j)' = None /\ Offered(j) # None
  <2>1. Shelf!Withdraw(j)
    BY <1>1, <1>2, <1>4 DEF Shelf!Withdraw, Accepted, Offered
  <2>2. QED BY <2>1 DEF Shelf!Next
<1>5. CASE Offered(j) = None /\ Offered(j)' \in Accepted(j)
  <2>1. PICK c \in Contents : c = Offered(j)' /\ c \in Accepted(j)
    BY <1>5, AcceptedType
  <2>2. Shelf!Offer(j, c)
    BY <1>1, <1>2, <1>5, <2>1 DEF Shelf!Offer, Accepted, Offered
  <2>3. QED BY <2>1, <2>2 DEF Shelf!Next
<1>6. QED BY <1>3, <1>4, <1>5

LEMMA SameShas ==
  ASSUME \A k \in Jobs : \A m \in AttemptNumber : attempt'[k][m].sha = attempt[k][m].sha
  PROVE  \A k \in Jobs : Accepted(k)' = Accepted(k)
  BY DEF Accepted

LEMMA SetAttemptShas ==
  ASSUME Tables, NEW j \in Jobs, NEW n \in AttemptNumber, NEW s, SetAttempt(j, n, s)
  PROVE  \A k \in Jobs : Accepted(k)' = Accepted(k)
  BY SetAttemptEffect, SameShas DEF Tables

ShelfStep == RawAttempted' /\ [Shelf!Next]_(Shelf!shelfVars)

LEMMA ShelfStutter ==
  ASSUME RawAttempted,
         \A k \in Jobs : Accepted(k)' = Accepted(k) /\ Offered(k)' = Offered(k),
         \A k \in Jobs : raw'[k].sha \in {raw[k].sha} \cup Accepted(k)
  PROVE  ShelfStep
<1>1. RawAttempted'
  BY DEF RawAttempted
<1>2. UNCHANGED Shelf!shelfVars
  <2>1. [k \in Jobs |-> Accepted(k)]' = [k \in Jobs |-> Accepted(k)]
    OBVIOUS
  <2>2. [k \in Jobs |-> Offered(k)]' = [k \in Jobs |-> Offered(k)]
    OBVIOUS
  <2>3. QED BY <2>1, <2>2 DEF Shelf!shelfVars, Accepted, Offered
<1>3. QED BY <1>1, <1>2 DEF ShelfStep

LEMMA ShelfOne ==
  ASSUME Tables, RawAttempted, NEW j \in Jobs,
         \A k \in Jobs : Accepted(k)' = Accepted(k),
         \A k \in Jobs : k # j => job'[k] = job[k] /\ raw'[k] = raw[k],
         raw'[j].sha \in {raw[j].sha} \cup Accepted(j),
         \/ Offered(j)' \in {Offered(j), None}
         \/ Offered(j) = None /\ Offered(j)' \in Accepted(j)
  PROVE  ShelfStep
<1>1. RawAttempted'
  BY DEF RawAttempted
<1>2. \A k \in Jobs : k # j => Offered(k)' = Offered(k)
  BY DEF Offered
<1>3. QED BY <1>1, <1>2, ShelfMove DEF ShelfStep

LEMMA ShelfFails ==
  ASSUME Tables, Held, RawAttempted, Fails
  PROVE  ShelfStep
<1>1. PICK j \in Jobs : j = cur /\ job[j].count \in AttemptNumber
  BY FailsFacts, CurrentAttempt DEF Held
<1>2. PICK s \in ClosedAttempt, retryable \in BOOLEAN : FailAttempt(s, retryable)
  BY FailsFacts
<1>3. /\ \A k \in Jobs : k # j => job'[k] = job[k]
      /\ job'[j].status \in {"blocked", "permanent_error", "retryable_error"}
      /\ SetAttempt(j, job[j].count, s)
  BY <1>1, <1>2, FailAttemptEffect DEF Tables
<1>4. \A k \in Jobs : Accepted(k)' = Accepted(k)
  BY <1>1, <1>3, SetAttemptShas
<1>5. raw' = raw
  BY FailsFacts
<1>6. Offered(j)' = None
  BY <1>3 DEF Offered
<1>7. QED BY <1>3, <1>4, <1>5, <1>6, ShelfOne

LEMMA ShelfComplete ==
  ASSUME Tables, RawAttempted, NEW j \in Jobs, NEW n \in AttemptNumber,
         attempt[j][n].sha \in Contents, job[j].status = "uploading",
         Complete(j, n, attempt[j][n].sha)
  PROVE  ShelfStep
<1>1. attempt[j][n].sha \in Accepted(j)
  BY ContentsAssumption DEF Accepted
<1>2. /\ \A k \in Jobs : k # j => job'[k] = job[k] /\ raw'[k] = raw[k]
      /\ raw'[j].sha = attempt[j][n].sha
      /\ SetAttempt(j, n, "success")
  BY CompleteEffect, StoreRawEffect DEF Tables
<1>3. \A k \in Jobs : Accepted(k)' = Accepted(k)
  BY <1>2, SetAttemptShas
<1>4. Offered(j) = None /\ Offered(j)' \in {None, attempt[j][n].sha}
  BY <1>2 DEF Offered
<1>5. QED BY <1>1, <1>2, <1>3, <1>4, ShelfOne

LEMMA ShelfRecoverUpload ==
  ASSUME Tables, Held, RawAttempted, RecoverUpload
  PROVE  ShelfStep
<1>1. PICK u \in uploads :
        \/ Complete(u[1], u[2], attempt[u[1]][u[2]].sha)
        \/ FailRecoveredUpload(u[1], u[2])
  BY DEF RecoverUpload
<1>2. PICK j \in Jobs, n \in AttemptNumber : j = u[1] /\ n = u[2]
  BY DEF Held, Worker, RecoverUpload, PendingUploads
<1>3. attempt[j][n].status = "uploading"
  BY <1>2 DEF Held, Worker, RecoverUpload, PendingUploads
<1>4. attempt[j][n].sha \in Contents /\ job[j].status = "uploading"
  BY <1>3 DEF Held, JobsInv, JobInv, Ledger, RowsOf
<1>5. CASE FailRecoveredUpload(j, n)
  <2>1. /\ raw' = raw
        /\ \A k \in Jobs : k # j => job'[k] = job[k]
        /\ job'[j].status = "retryable_error"
        /\ SetAttempt(j, n, "storage_error")
    BY <1>5 DEF FailRecoveredUpload, Tables, JobTable, JobRow
  <2>2. \A k \in Jobs : Accepted(k)' = Accepted(k)
    BY <2>1, SetAttemptShas
  <2>3. Offered(j)' = None
    BY <2>1 DEF Offered
  <2>4. QED BY <2>1, <2>2, <2>3, ShelfOne
<1>6. QED BY <1>1, <1>2, <1>4, <1>5, ShelfComplete

LEMMA ShelfMarkUploading ==
  ASSUME Tables, Held, RawAttempted, MarkUploading
  PROVE  ShelfStep
<1>1. PICK j \in Jobs, c \in Contents : j = cur /\ c = page
  BY DEF Held, Worker, MarkUploading
<1>2. /\ job[j].status = "validating"
      /\ job[j].count \in AttemptNumber
      /\ attempt[j][job[j].count].status = "fetching"
  BY <1>1, CurrentOpen DEF Held, Worker, MarkUploading
<1>3. attempt[j][job[j].count].sha = None
  BY <1>2 DEF Held, JobsInv, JobInv, RowsOf
<1>4. /\ raw' = raw
      /\ \A k \in Jobs : k # j => job'[k] = job[k]
      /\ job'[j].status = "uploading"
  BY <1>1 DEF MarkUploading, Tables, JobTable, JobRow
<1>5. /\ \A k \in Jobs : k # j => attempt'[k] = attempt[k]
      /\ \A m \in AttemptNumber : m # job[j].count => attempt'[j][m] = attempt[j][m]
      /\ attempt'[j][job[j].count].sha = c
  BY <1>1, <1>2 DEF MarkUploading, UploadRecord, Tables, AttemptTable
<1>6. /\ \A k \in Jobs : k # j => Accepted(k)' = Accepted(k)
      /\ Accepted(j)' = Accepted(j) \cup {c}
  <2>1. \A k \in Jobs : k # j => Accepted(k)' = Accepted(k)
    BY <1>5 DEF Accepted
  <2>2. ASSUME NEW x PROVE x \in Accepted(j)' <=> x \in Accepted(j) \cup {c}
    BY <1>2, <1>3, <1>5, ContentsAssumption DEF Accepted
  <2>3. QED BY <2>1, <2>2
<1>7. \A k \in Jobs : Offered(k)' = Offered(k)
  BY <1>2, <1>4 DEF Offered
<1>8. RawAttempted'
  BY <1>4, <1>6 DEF RawAttempted
<1>9. Shelf!Accept(j, c)
  <2> DEFINE acc == [k \in Jobs |-> Accepted(k)]
             off == [k \in Jobs |-> Offered(k)]
  <2>1. acc' = [acc EXCEPT ![j] = @ \cup {c}]
    BY <1>6
  <2>2. off' = off
    BY <1>7
  <2>3. off[j] = None
    BY <1>2 DEF Offered
  <2>4. QED BY <2>1, <2>2, <2>3 DEF Shelf!Accept, Accepted, Offered
<1>10. QED BY <1>8, <1>9 DEF ShelfStep, Shelf!Next

LEMMA ShelfStepHolds ==
  ASSUME Control, RawAttempted, [Next]_vars
  PROVE  ShelfStep
<1>1. Tables /\ RunState /\ Held
  BY ControlParts
<1>2. ASSUME UNCHANGED attempt
      PROVE  \A k \in Jobs : Accepted(k)' = Accepted(k)
  BY <1>2 DEF Accepted
<1>3. ASSUME UNCHANGED <<attempt, raw>>, \A j \in Jobs : job'[j].status = job[j].status
      PROVE  ShelfStep
  BY <1>1, <1>2, <1>3, ShelfStutter DEF Offered
<1>4. CASE CompleteUpload \/ CompleteUnanswered
  <2>1. PICK j \in Jobs : j = cur
    BY <1>1, <1>4 DEF CompleteUpload, CompleteUnanswered, Held, Worker
  <2>2. /\ job[j].count \in AttemptNumber
        /\ attempt[j][job[j].count].sha = page
        /\ page \in Contents
        /\ job[j].status = "uploading"
    BY <1>1, <1>4, <2>1, CurrentOpen DEF CompleteUpload, CompleteUnanswered, Held, Worker
  <2>3. Complete(j, job[j].count, attempt[j][job[j].count].sha)
    BY <1>4, <2>1, <2>2 DEF CompleteUpload, CompleteUnanswered
  <2>4. QED BY <1>1, <2>2, <2>3, ShelfComplete
<1>5. CASE RecoverStaleFetches
  <2>1. raw' = raw
    BY <1>5 DEF RecoverStaleFetches
  <2>2. ASSUME NEW j \in Jobs
        PROVE  Offered(j)' = Offered(j)
    <3>1. job'[j] = IF j \in StaleJobs
                      THEN [job[j] EXCEPT !.status = "retryable_error", !.due = TRUE]
                      ELSE job[j]
      BY <1>5 DEF RecoverStaleFetches
    <3>2. job[j] \in JobRow
      BY <1>1 DEF Tables, JobTable
    <3>3. QED BY <2>1, <3>1, <3>2 DEF StaleJobs, Offered, JobRow
  <2>3. \A j \in Jobs : \A n \in AttemptNumber : attempt'[j][n].sha = attempt[j][n].sha
    <3>1. ASSUME NEW j \in Jobs, NEW n \in AttemptNumber
          PROVE  attempt'[j][n].sha = attempt[j][n].sha
      <4>1. attempt'[j][n] = IF Unfinished(j, n)
                               THEN [attempt[j][n] EXCEPT !.status = "fetch_error"]
                               ELSE attempt[j][n]
        BY <1>5 DEF RecoverStaleFetches
      <4>2. attempt[j][n] \in AttemptRow
        BY <1>1 DEF Tables, AttemptTable
      <4>3. QED BY <4>1, <4>2 DEF AttemptRow
    <3>2. QED BY <3>1
  <2>4. QED BY <2>1, <2>2, <2>3, SameShas, ShelfStutter
<1>6. CASE AuditRawObject
  <2>1. PICK j \in checks :
          /\ raw' = [raw EXCEPT ![j].integrity = AuditVerdict(j)]
          /\ job' = [job EXCEPT ![j].status = StatusForIntegrity(AuditVerdict(j))]
    BY <1>6 DEF AuditRawObject
  <2>2. attempt' = attempt /\ j \in Jobs /\ raw[j].sha # None
    BY <1>1, <1>6 DEF AuditRawObject, Held, Worker, RunState
  <2>3. /\ \A k \in Jobs : k # j => job'[k] = job[k] /\ raw'[k] = raw[k]
        /\ raw'[j].sha = raw[j].sha
    BY <1>1, <2>1, <2>2 DEF Tables, JobTable, RawTable, RawRow
  <2>4. Offered(j) \in {None, raw[j].sha} /\ Offered(j)' \in {None, raw[j].sha}
    BY <2>3 DEF Offered
  <2>5. raw[j].sha \in Accepted(j)
    BY <2>2 DEF RawAttempted
  <2>6. QED BY <1>1, <1>2, <2>2, <2>3, <2>4, <2>5, ShelfOne
<1>7. ASSUME NEW S, UpsertDiscoveredJobs(S)
      PROVE  ShelfStep
  <2>1. raw' = raw /\ attempt' = attempt
    BY <1>7 DEF UpsertDiscoveredJobs
  <2>2. \A j \in Jobs : Offered(j)' = Offered(j)
    BY <1>1, <1>7, <2>1, UpsertedRow DEF Upserted, Requeued, Offered, Tables
  <2>3. QED BY <1>2, <2>1, <2>2, ShelfStutter
<1>8. CASE ClaimNextJob
  <2>1. PICK j \in Jobs :
          /\ Claimable(j)
          /\ job' = [job EXCEPT ![j].status = "fetching", ![j].count = @ + 1, ![j].due = TRUE]
          /\ SetAttempt(j, job[j].count + 1, "fetching")
    BY <1>8 DEF ClaimNextJob
  <2>2. job[j].count + 1 \in AttemptNumber
    <3>1. job[j] \in JobRow /\ JobInv(j)
      BY <1>1 DEF Tables, JobTable, Held, JobsInv
    <3>2. job[j].count + 1 <= job[j].base + MaxAttempts
      BY <2>1, <3>1, LimitsAssumption DEF Claimable, JobRow
    <3>3. QED
      BY <3>1, <3>2, LimitsAssumption DEF JobInv, RoomFor, JobRow, AttemptNumber
  <2>3. raw' = raw
    BY <1>8 DEF ClaimNextJob
  <2>4. \A k \in Jobs : Offered(k)' = Offered(k)
    BY <1>1, <2>1, <2>3 DEF Claimable, Offered, Tables, JobTable, JobRow
  <2>5. QED BY <1>1, <2>1, <2>2, <2>3, <2>4, SetAttemptShas, ShelfStutter
<1>9. CASE FetchPage
  <2>1. /\ raw' = raw /\ attempt' = attempt
        /\ cur \in Jobs /\ job[cur].status = "fetching"
        /\ job' = [job EXCEPT ![cur].status = "validating"]
    BY <1>1, <1>9 DEF FetchPage, Held, Worker
  <2>2. \A k \in Jobs : Offered(k)' = Offered(k)
    BY <1>1, <2>1 DEF Offered, Tables, JobTable, JobRow
  <2>3. QED BY <1>2, <2>1, <2>2, ShelfStutter
<1>10. ASSUME NEW j \in Jobs, ParseRaw(j)
       PROVE  ShelfStep
  <2>1. attempt' = attempt
    BY <1>10 DEF ParseRaw
  <2>2. CASE UNCHANGED <<job, raw>>
    BY <1>3, <2>1, <2>2
  <2>3. CASE ~UNCHANGED <<job, raw>>
    <3>1. PICK i \in Integrity \ {"none", "valid"} :
            /\ raw' = [raw EXCEPT ![j].integrity = i]
            /\ job' = [job EXCEPT ![j].status = StatusForIntegrity(i)]
      BY <1>10, <2>3 DEF ParseRaw, Integrity
    <3>2. /\ \A k \in Jobs : k # j => job'[k] = job[k] /\ raw'[k] = raw[k]
          /\ raw'[j].sha = raw[j].sha
          /\ raw'[j].integrity # "valid"
      BY <1>1, <3>1 DEF Tables, JobTable, RawTable, RawRow
    <3>3. Offered(j)' = None
      BY <3>2 DEF Offered
    <3>4. QED BY <1>1, <1>2, <2>1, <3>2, <3>3, ShelfOne
  <2>4. QED BY <2>2, <2>3
<1>11. ASSUME NEW j \in Jobs, PurgeRaw(j)
       PROVE  ShelfStep
  <2>1. /\ attempt' = attempt
        /\ \A k \in Jobs : k # j => job'[k] = job[k] /\ raw'[k] = raw[k]
        /\ job'[j].status = "storage_missing"
        /\ raw'[j].sha = raw[j].sha
    BY <1>1, <1>11 DEF PurgeRaw, Tables, JobTable, JobRow, RawTable, RawRow
  <2>2. Offered(j)' = None
    BY <2>1 DEF Offered
  <2>3. QED BY <1>1, <1>2, <2>1, <2>2, ShelfOne
<1>12. ASSUME NEW j \in Jobs,
              RetryDue(j) \/ PurgeInterrupted(j) \/ LoseObject(j) \/ ChangeObject(j)
       PROVE  ShelfStep
  <2>1. UNCHANGED <<attempt, raw>> /\ \A k \in Jobs : job'[k].status = job[k].status
    BY <1>1, <1>12
       DEF RetryDue, PurgeInterrupted, LoseObject, ChangeObject, Tables, JobTable, JobRow
  <2>2. QED BY <1>3, <2>1
<1>13. CASE \/ \E p \in {"full", "discovery", "detail"} : StartRun(p)
            \/ FinishRecovery \/ EndDiscovery \/ EndDetails \/ PutObject \/ AbortRun
            \/ UNCHANGED vars
  <2>1. UNCHANGED <<attempt, raw, job>>
    BY <1>13
       DEF StartRun, FinishRecovery, EndDiscovery, EndDetails, PutObject, AbortRun, vars,
           stored, rows
  <2>2. QED BY <1>3, <2>1
<1>14. QED
  BY <1>1, <1>4, <1>5, <1>6, <1>7, <1>8, <1>9, <1>10, <1>11, <1>12, <1>13, ShelfFails,
     ShelfRecoverUpload, ShelfMarkUploading DEF Next, Recovery, Discovery, Detail, Fails

\* Under every fault the acquisition side keeps what RawShelf promises the parser: what is
\* offered is a body this job's validation accepted, and it is withdrawn before another
\* takes its place (upsert_discovered_jobs, complete_upload, update_raw_integrity).
THEOREM ImplementsShelf == Spec => ShelfSpec
<1>1. Init => RawAttempted /\ Shelf!Init
  BY DEF Init, RawAttempted, Shelf!Init
<1>2. Control /\ RawAttempted /\ [Next]_vars
        => RawAttempted' /\ [Shelf!Next]_(Shelf!shelfVars)
  BY ShelfStepHolds DEF ShelfStep
<1>3. QED BY <1>1, <1>2, ControlHolds, PTL DEF Spec, ShelfSpec, Shelf!Spec

=============================================================================
