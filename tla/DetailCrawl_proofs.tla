------------------------- MODULE DetailCrawl_proofs -------------------------
(***************************************************************************)
(* Proofs about DetailCrawl, for every set of jobs, every set of bodies    *)
(* and every bound.  A lemma about each transaction's effect on a table is *)
(* stated once; the step of an action cites the lemmas of what it calls.   *)
(***************************************************************************)
EXTENDS DetailCrawl, TLAPS

-----------------------------------------------------------------------------
(* The transactions keep the tables in their types.                        *)

LEMMA SetAttemptType ==
  ASSUME attempt \in AttemptTable, NEW j, NEW n,
         NEW s \in OpenAttempt \cup ClosedAttempt, SetAttempt(j, n, s)
  PROVE  attempt' \in AttemptTable
<1>1. CASE j \in Jobs /\ n \in AttemptNumber
  BY <1>1 DEF SetAttempt, AttemptRow, AttemptTable
<1>2. CASE ~(j \in Jobs /\ n \in AttemptNumber)
  <2>1. attempt' = attempt
    <3>1. CASE j \in Jobs /\ n \notin AttemptNumber
      BY <3>1 DEF SetAttempt, AttemptTable
    <3>2. CASE j \notin Jobs
      BY <3>2 DEF SetAttempt, AttemptTable
    <3>3. QED BY <3>1, <3>2, <1>2
  <2>2. QED BY <2>1
<1>3. QED BY <1>1, <1>2

LEMMA FailAttemptType ==
  ASSUME job \in JobTable, attempt \in AttemptTable,
         NEW s \in ClosedAttempt, NEW retryable, FailAttempt(s, retryable)
  PROVE  job' \in JobTable /\ attempt' \in AttemptTable
<1> DEFINE after == StatusAfterFailure(cur, s, retryable)
<1>1. after \in JobStatus
  BY DEF StatusAfterFailure, JobStatus
<1>2. job' = [job EXCEPT ![cur].status = after, ![cur].due = (after = "permanent_error")]
  BY DEF FailAttempt
<1>3. (after = "permanent_error") \in BOOLEAN
  OBVIOUS
<1> HIDE DEF after
<1>4. job' \in JobTable
  <2> DEFINE ended(k) == [job[k] EXCEPT !.status = after, !.due = (after = "permanent_error")]
  <2>1. job' = [k \in Jobs |-> IF k = cur THEN ended(k) ELSE job[k]]
    BY <1>2 DEF JobTable
  <2>2. ASSUME NEW k \in Jobs
        PROVE  job[k] \in JobRow /\ ended(k) \in JobRow
    <3>1. job[k] \in JobRow
      BY DEF JobTable
    <3>2. QED BY <1>1, <1>3, <3>1 DEF JobRow
  <2> HIDE DEF ended
  <2>3. QED BY <2>1, <2>2 DEF JobTable
<1>5. SetAttempt(cur, job[cur].count, s)
  BY DEF FailAttempt
<1>6. QED
  BY <1>4, <1>5, SetAttemptType

LEMMA StoreRawType ==
  ASSUME raw \in RawTable, parsed \in ParsedTable,
         NEW j, NEW c \in Body, StoreRaw(j, c)
  PROVE  raw' \in RawTable /\ parsed' \in ParsedTable
<1>1. CASE UNCHANGED <<raw, parsed>>
  BY <1>1
<1>2. CASE /\ raw' = [raw EXCEPT ![j] = [sha |-> c, integrity |-> "valid", purged |-> FALSE]]
           /\ parsed' = [parsed EXCEPT ![j].verdict = "open"]
  <2>1. [sha |-> c, integrity |-> "valid", purged |-> FALSE] \in RawRow
    BY DEF RawRow, Integrity
  <2>2. raw' \in RawTable
    BY <1>2, <2>1 DEF RawTable
  <2>3. parsed' \in ParsedTable
    BY <1>2 DEF ParsedRow, ParsedTable
  <2>4. QED BY <2>2, <2>3
<1>3. QED BY <1>1, <1>2 DEF StoreRaw

LEMMA CompleteType ==
  ASSUME job \in JobTable, attempt \in AttemptTable,
         raw \in RawTable, parsed \in ParsedTable,
         NEW j, NEW n, NEW c \in Body, Complete(j, n, c)
  PROVE  /\ job' \in JobTable /\ attempt' \in AttemptTable
         /\ raw' \in RawTable /\ parsed' \in ParsedTable
<1>1. attempt' \in AttemptTable
  BY SetAttemptType DEF Complete, ClosedAttempt
<1>2. raw' \in RawTable /\ parsed' \in ParsedTable
  BY StoreRawType DEF Complete
<1>3. job' \in JobTable
  BY DEF Complete, JobRow, JobStatus, JobTable
<1>4. QED BY <1>1, <1>2, <1>3

LEMMA FailRecoveredUploadType ==
  ASSUME job \in JobTable, attempt \in AttemptTable, raw \in RawTable,
         parsed \in ParsedTable, NEW j, NEW n, FailRecoveredUpload(j, n)
  PROVE  /\ job' \in JobTable /\ attempt' \in AttemptTable
         /\ raw' \in RawTable /\ parsed' \in ParsedTable
<1>1. attempt' \in AttemptTable
  BY SetAttemptType DEF FailRecoveredUpload, ClosedAttempt
<1>2. job' \in JobTable
  BY DEF FailRecoveredUpload, JobRow, JobStatus, JobTable
<1>3. QED BY <1>1, <1>2 DEF FailRecoveredUpload

LEMMA RecoverStaleFetchesType ==
  ASSUME job \in JobTable, attempt \in AttemptTable, RecoverStaleFetches
  PROVE  job' \in JobTable /\ attempt' \in AttemptTable
<1>1. attempt' \in AttemptTable
  <2>1. ASSUME NEW j \in Jobs, NEW n \in AttemptNumber
        PROVE  (IF Unfinished(j, n)
                  THEN [attempt[j][n] EXCEPT !.status = "fetch_error"]
                  ELSE attempt[j][n]) \in AttemptRow
    <3>1. attempt[j][n] \in AttemptRow
      BY DEF AttemptTable
    <3>2. QED BY <3>1 DEF AttemptRow, ClosedAttempt
  <2>2. QED BY <2>1 DEF RecoverStaleFetches, AttemptTable
<1>2. job' \in JobTable
  <2>1. ASSUME NEW j \in Jobs
        PROVE  (IF j \in StaleJobs
                  THEN [job[j] EXCEPT !.status = "retryable_error", !.due = TRUE]
                  ELSE job[j]) \in JobRow
    <3>1. job[j] \in JobRow
      BY DEF JobTable
    <3>2. QED BY <3>1 DEF JobRow, JobStatus
  <2>2. QED BY <2>1 DEF RecoverStaleFetches, JobTable
<1>3. QED BY <1>1, <1>2

LEMMA StatusForIntegrityType ==
  ASSUME NEW i PROVE StatusForIntegrity(i) \in JobStatus
  BY DEF StatusForIntegrity, JobStatus

LEMMA EndRunType == EndRun => RunState'
  BY DEF EndRun, RunState, Body

LEMMA NextJobType ==
  ASSUME RunState, NEW n \in Nat, NextJob(n)
  PROVE  RunState'
  BY DEF NextJob, RunState, Body, todo

LEMMA NextAfterErrorType ==
  ASSUME RunState, NEW s, NextAfterError(s)
  PROVE  RunState'
<1>1. CASE EndRun
  BY <1>1, EndRunType
<1>2. CASE NextJob(streak + 1)
  <2>1. streak + 1 \in Nat
    BY DEF RunState
  <2>2. QED BY <1>2, <2>1, NextJobType
<1>3. QED BY <1>1, <1>2 DEF NextAfterError

-----------------------------------------------------------------------------

LEMMA TypeInit ==
  ASSUME Init
  PROVE  TypeOK
<1>1. Tables
  BY DEF Init, Tables, JobTable, AttemptTable, RawTable, ParsedTable, JobRow, AttemptRow,
     RawRow, ParsedRow, JobStatus, Integrity, Body
<1>2. RunState
  BY DEF Init, RunState, Body
<1>3. QED BY <1>1, <1>2 DEF TypeOK

LEMMA TypeStep ==
  ASSUME TypeOK, [Next]_vars
  PROVE  TypeOK'
<1> SUFFICES ASSUME Tables, RunState, [Next]_vars
             PROVE  Tables' /\ RunState'
  BY DEF TypeOK
<1> USE DEF stored, rows, work, todo, tally, run
<1>1. ASSUME NEW p \in {"full", "discovery", "detail"}, StartRun(p)
      PROVE  Tables' /\ RunState'
  <2>1. PendingUploads \subseteq Jobs \X AttemptNumber
    BY DEF PendingUploads
  <2>2. Tables'
    BY <1>1 DEF StartRun, Tables
  <2>3. RunState'
    BY <1>1, <2>1 DEF StartRun, RunState
  <2>4. QED BY <2>2, <2>3
<1>2. CASE RecoverUpload
  <2>1. PICK u \in uploads :
          /\ uploads' = uploads \ {u}
          /\ IF SizeMatches(u[1], attempt[u[1]][u[2]].sha)
               THEN Complete(u[1], u[2], attempt[u[1]][u[2]].sha)
               ELSE FailRecoveredUpload(u[1], u[2])
    BY <1>2 DEF RecoverUpload
  <2>2. attempt[u[1]][u[2]].sha \in Body
    <3>1. u[1] \in Jobs /\ u[2] \in AttemptNumber
      BY DEF RunState
    <3>2. attempt[u[1]][u[2]] \in AttemptRow
      BY <3>1 DEF Tables, AttemptTable
    <3>3. QED BY <3>2 DEF AttemptRow
  <2>3. Tables'
    BY <1>2, <2>1, <2>2, CompleteType, FailRecoveredUploadType DEF Tables, RecoverUpload
  <2>4. RunState'
    BY <1>2, <2>1 DEF RunState, RecoverUpload
  <2>5. QED BY <2>3, <2>4
<1>3. CASE RecoverStaleFetches
  <2>1. checks' \subseteq Jobs
    BY <1>3 DEF RecoverStaleFetches
  <2>2. Tables'
    BY <1>3, RecoverStaleFetchesType DEF Tables, RecoverStaleFetches
  <2>3. RunState'
    BY <1>3, <2>1 DEF RecoverStaleFetches, RunState
  <2>4. QED BY <2>2, <2>3
<1>4. CASE AuditRawObject
  <2>1. PICK j \in checks :
          /\ raw' = [raw EXCEPT ![j].integrity = AuditVerdict(j)]
          /\ job' = [job EXCEPT ![j].status = StatusForIntegrity(AuditVerdict(j))]
          /\ checks' = checks \ {j}
    BY <1>4 DEF AuditRawObject
  <2>2. AuditVerdict(j) \in Integrity
    BY DEF AuditVerdict, Integrity
  <2>3. raw' \in RawTable
    BY <2>1, <2>2 DEF Tables, RawTable, RawRow
  <2>4. job' \in JobTable
    BY <2>1, StatusForIntegrityType DEF Tables, JobTable, JobRow
  <2>5. Tables'
    BY <1>4, <2>3, <2>4 DEF Tables, AuditRawObject
  <2>6. RunState'
    BY <1>4, <2>1 DEF AuditRawObject, RunState
  <2>7. QED BY <2>5, <2>6
<1>5. CASE FinishRecovery
  <2>1. Tables'
    BY <1>5 DEF FinishRecovery, Tables
  <2>2. RunState'
    BY <1>5 DEF FinishRecovery, RunState
  <2>3. QED BY <2>1, <2>2
<1>6. ASSUME NEW S \in SUBSET Jobs, UpsertDiscoveredJobs(S)
      PROVE  Tables' /\ RunState'
  <2> DEFINE listed(j) == [job[j] EXCEPT !.status = "pending"]
             again(j) == [job[j] EXCEPT !.status = "pending", !.base = job[j].count,
                                        !.due = TRUE]
  <2>0. ASSUME NEW j \in Jobs
        PROVE  job[j] \in JobRow /\ listed(j) \in JobRow /\ again(j) \in JobRow
    <3>1. job[j] \in JobRow
      BY DEF Tables, JobTable
    <3>2. QED BY <3>1 DEF JobRow, JobStatus
  <2>1. job' \in JobTable
    <3>1. job' = [j \in Jobs |->
                    CASE j \in S /\ job[j].status = "none" -> listed(j)
                      [] j \in seen \cup S /\ Requeued(j) -> again(j)
                      [] OTHER -> job[j]]
      BY <1>6 DEF UpsertDiscoveredJobs
    <3> HIDE DEF listed, again
    <3>2. QED BY <2>0, <3>1 DEF JobTable
  <2>2. Tables'
    BY <1>6, <2>1 DEF UpsertDiscoveredJobs, Tables
  <2>3. RunState'
    BY <1>6 DEF UpsertDiscoveredJobs, RunState
  <2>4. QED BY <2>2, <2>3
<1>7. CASE EndDiscovery
  <2>1. Tables'
    BY <1>7 DEF EndDiscovery, Tables
  <2>2. CASE EndRun
    BY <2>1, <2>2, EndRunType
  <2>3. CASE pc' = "select" /\ UNCHANGED <<phase, work, todo, tally>>
    BY <2>1, <2>3 DEF RunState
  <2>4. QED BY <1>7, <2>2, <2>3 DEF EndDiscovery
<1>8. CASE ClaimNextJob
  <2>1. PICK j \in Jobs :
          /\ job' = [job EXCEPT ![j].status = "fetching", ![j].count = @ + 1, ![j].due = TRUE]
          /\ SetAttempt(j, job[j].count + 1, "fetching")
          /\ cur' = j
    BY <1>8 DEF ClaimNextJob
  <2>2. job' \in JobTable
    BY <2>1 DEF Tables, JobTable, JobRow, JobStatus
  <2>3. attempt' \in AttemptTable
    BY <2>1, SetAttemptType DEF Tables, OpenAttempt
  <2>4. Tables'
    BY <1>8, <2>2, <2>3 DEF ClaimNextJob, Tables
  <2>5. RunState'
    BY <1>8, <2>1 DEF ClaimNextJob, RunState
  <2>6. QED BY <2>4, <2>5
<1>9. CASE EndDetails
  BY <1>9, EndRunType DEF EndDetails, Tables
<1>10. CASE FetchPage
  <2>1. job' \in JobTable
    BY <1>10 DEF FetchPage, Tables, JobTable, JobRow, JobStatus
  <2>2. Tables'
    BY <1>10, <2>1 DEF FetchPage, Tables
  <2>3. RunState'
    BY <1>10 DEF FetchPage, RunState, Body
  <2>4. QED BY <2>2, <2>3
<1>11. CASE FetchFails
  <2>1. PICK s \in ClosedAttempt : FailAttempt(s, TRUE) /\ NextAfterError(s)
    BY <1>11 DEF FetchFails, ClosedAttempt
  <2>2. Tables'
    BY <1>11, <2>1, FailAttemptType DEF FetchFails, Tables
  <2>3. QED BY <2>1, <2>2, NextAfterErrorType
<1>12. CASE PageGone
  <2>1. Tables'
    BY <1>12, FailAttemptType DEF PageGone, Tables, ClosedAttempt
  <2>2. QED BY <1>12, <2>1, NextJobType DEF PageGone
<1>13. CASE RejectPage
  <2>1. PICK s \in ClosedAttempt : FailAttempt(s, TRUE) /\ NextAfterError(s)
    BY <1>13 DEF RejectPage, ClosedAttempt
  <2>2. Tables'
    BY <1>13, <2>1, FailAttemptType DEF RejectPage, Tables
  <2>3. QED BY <2>1, <2>2, NextAfterErrorType
<1>14. CASE MarkUploading
  <2>1. UploadRecord(page) \in AttemptRow
    BY DEF UploadRecord, AttemptRow, OpenAttempt, RunState
  <2>2. attempt' \in AttemptTable
    BY <1>14, <2>1 DEF MarkUploading, Tables, AttemptTable
  <2>3. job' \in JobTable
    BY <1>14 DEF MarkUploading, Tables, JobTable, JobRow, JobStatus
  <2>4. Tables'
    BY <1>14, <2>2, <2>3 DEF MarkUploading, Tables
  <2>5. RunState'
    BY <1>14 DEF MarkUploading, RunState
  <2>6. QED BY <2>4, <2>5
<1>15. CASE PutObject
  <2>1. Tables'
    BY <1>15 DEF PutObject, Tables, RunState
  <2>2. RunState'
    BY <1>15 DEF PutObject, RunState
  <2>3. QED BY <2>1, <2>2
<1>16. CASE PutFails
  <2>1. FailAttempt("storage_error", TRUE) /\ NextAfterError("storage_error")
    BY <1>16 DEF PutFails
  <2>2. object' \in [Jobs -> Body]
    BY <1>16 DEF PutFails, Tables, RunState
  <2>3. Tables'
    BY <1>16, <2>1, <2>2, FailAttemptType DEF PutFails, Tables, ClosedAttempt
  <2>4. QED BY <2>1, <2>3, NextAfterErrorType
<1>17. CASE CompleteUpload
  <2>1. page \in Body
    BY DEF RunState
  <2>2. Tables'
    BY <1>17, <2>1, CompleteType DEF CompleteUpload, Tables
  <2>3. QED BY <1>17, <2>2, NextJobType DEF CompleteUpload
<1>18. CASE CompleteFails \/ FailUnanswered
  <2>1. Tables'
    BY <1>18, FailAttemptType DEF CompleteFails, FailUnanswered, Tables, ClosedAttempt
  <2>2. QED BY <1>18, <2>1, NextAfterErrorType DEF CompleteFails, FailUnanswered
<1>19. CASE CompleteUnanswered
  <2>1. page \in Body
    BY DEF RunState
  <2>2. Tables'
    BY <1>19, <2>1, CompleteType DEF CompleteUnanswered, Tables
  <2>3. RunState'
    BY <1>19 DEF CompleteUnanswered, RunState
  <2>4. QED BY <2>2, <2>3
<1>20. CASE AbortRun
  BY <1>20, EndRunType DEF AbortRun, Tables
<1>21. ASSUME NEW j \in Jobs, ParseRaw(j)
       PROVE  Tables' /\ RunState'
  <2>1. RunState'
    BY <1>21 DEF ParseRaw, RunState
  <2>2. CASE object[j] = raw[j].sha
    <3>1. raw[j].sha \in Body
      BY DEF Tables, RawTable, RawRow
    <3>2. parsed' \in ParsedTable
      BY <1>21, <2>2, <3>1 DEF ParseRaw, Tables, ParsedTable, ParsedRow
    <3>3. QED BY <1>21, <2>1, <2>2, <3>2 DEF ParseRaw, Tables
  <2>3. CASE object[j] # raw[j].sha
    <3>1. PICK i \in Integrity :
            /\ parsed' = [parsed EXCEPT ![j].verdict = "rejected"]
            /\ raw' = [raw EXCEPT ![j].integrity = i]
            /\ job' = [job EXCEPT ![j].status = StatusForIntegrity(i)]
      BY <1>21, <2>3 DEF ParseRaw, Integrity
    <3>2. parsed' \in ParsedTable
      BY <3>1 DEF Tables, ParsedTable, ParsedRow
    <3>3. raw' \in RawTable
      BY <3>1 DEF Tables, RawTable, RawRow
    <3>4. job' \in JobTable
      BY <3>1, StatusForIntegrityType DEF Tables, JobTable, JobRow
    <3>5. QED BY <1>21, <2>1, <3>2, <3>3, <3>4 DEF ParseRaw, Tables
  <2>4. QED BY <2>2, <2>3
<1>22. ASSUME NEW j \in Jobs, PurgeRaw(j)
       PROVE  Tables' /\ RunState'
  <2>1. object' \in [Jobs -> Body]
    BY <1>22 DEF PurgeRaw, Tables, Body
  <2>2. raw' \in RawTable
    BY <1>22 DEF PurgeRaw, Tables, RawTable, RawRow
  <2>3. job' \in JobTable
    BY <1>22 DEF PurgeRaw, Tables, JobTable, JobRow, JobStatus
  <2>4. RunState'
    BY <1>22 DEF PurgeRaw, RunState
  <2>5. QED BY <1>22, <2>1, <2>2, <2>3, <2>4 DEF PurgeRaw, Tables
<1>23. ASSUME NEW j \in Jobs, PurgeInterrupted(j) \/ LoseObject(j) \/ ChangeObject(j)
       PROVE  Tables' /\ RunState'
  <2>1. object' \in [Jobs -> Body]
    BY <1>23 DEF PurgeInterrupted, LoseObject, ChangeObject, Tables, Body
  <2>2. RunState'
    BY <1>23 DEF PurgeInterrupted, LoseObject, ChangeObject, RunState
  <2>3. QED
    BY <1>23, <2>1, <2>2 DEF PurgeInterrupted, LoseObject, ChangeObject, Tables
<1>24. ASSUME NEW j \in Jobs, RetryDue(j)
       PROVE  Tables' /\ RunState'
  <2>1. job' \in JobTable
    BY <1>24 DEF RetryDue, Tables, JobTable, JobRow
  <2>2. RunState'
    BY <1>24 DEF RetryDue, RunState
  <2>3. QED BY <1>24, <2>1, <2>2 DEF RetryDue, Tables
<1>25. CASE UNCHANGED vars
  BY <1>25 DEF vars, Tables, RunState
<1>26. QED
  BY <1>1, <1>2, <1>3, <1>4, <1>5, <1>6, <1>7, <1>8, <1>9, <1>10, <1>11, <1>12, <1>13,
     <1>14, <1>15, <1>16, <1>17, <1>18, <1>19, <1>20, <1>21, <1>22, <1>23, <1>24, <1>25
     DEF Next, Recovery, Discovery, Detail

\* Every step keeps the variables in their types.
THEOREM TypeCorrect == Spec => []TypeOK
  BY TypeInit, TypeStep, PTL DEF Spec

-----------------------------------------------------------------------------
(* The retry budget needs no more than the types: only a claim raises the   *)
(* count, under a guard, and only discovery moves the base, up to the count.*)

\* What a listing page does to one row.
Upserted(j) ==
    \/ job'[j] = job[j]
    \/ /\ job'[j].status = "pending"
       /\ job'[j].count = job[j].count
       /\ \/ /\ job[j].status = "none"
             /\ job'[j].base = job[j].base
          \/ /\ Requeued(j)
             /\ job'[j].base = job[j].count

LEMMA UpsertedRow ==
  ASSUME job \in JobTable, NEW S, UpsertDiscoveredJobs(S), NEW j \in Jobs
  PROVE  Upserted(j)
<1>1. job[j] \in JobRow
  BY DEF JobTable
<1>2. CASE j \in S /\ job[j].status = "none"
  <2>1. job'[j] = [job[j] EXCEPT !.status = "pending"]
    BY <1>2 DEF UpsertDiscoveredJobs, Requeued
  <2>2. QED BY <1>1, <1>2, <2>1 DEF Upserted, JobRow
<1>3. CASE j \in seen \cup S /\ Requeued(j)
  <2>1. job'[j] = [job[j] EXCEPT !.status = "pending", !.base = job[j].count, !.due = TRUE]
    BY <1>3 DEF UpsertDiscoveredJobs, Requeued
  <2>2. QED BY <1>1, <1>3, <2>1 DEF Upserted, JobRow
<1>4. CASE ~(j \in S /\ job[j].status = "none") /\ ~(j \in seen \cup S /\ Requeued(j))
  BY <1>4 DEF UpsertDiscoveredJobs, Upserted
<1>5. QED BY <1>2, <1>3, <1>4

LEMMA BudgetKept ==
  ASSUME TypeOK, RetryBudget,
         \A j \in Jobs : job'[j].count = job[j].count /\ job'[j].base = job[j].base
  PROVE  RetryBudget'
  BY DEF RetryBudget

\* A job is never fetched more than detail_max_attempts times in one raw
\* generation, whatever is killed, lost or changed (claim_next_job's WHERE and
\* upsert_discovered_jobs' new base are the only places that matter).
THEOREM RetryBudgetHolds == Spec => []RetryBudget
<1>1. Init => RetryBudget
  BY LimitsAssumption DEF Init, RetryBudget
<1>2. TypeOK /\ RetryBudget /\ [Next]_vars => RetryBudget'
  <2> SUFFICES ASSUME TypeOK, RetryBudget, [Next]_vars
               PROVE  RetryBudget'
    OBVIOUS
  <2> DEFINE Kept == \A j \in Jobs : job'[j].count = job[j].count /\ job'[j].base = job[j].base
  <2>0. job \in JobTable
    BY DEF TypeOK, Tables
  <2>1. CASE ClaimNextJob
    <3>1. PICK j \in Jobs :
            /\ Claimable(j)
            /\ job' = [job EXCEPT ![j].status = "fetching", ![j].count = @ + 1, ![j].due = TRUE]
      BY <2>1 DEF ClaimNextJob
    <3>2. job[j].count - job[j].base < MaxAttempts
      BY <3>1 DEF Claimable
    <3>3. QED
      BY <2>0, <3>1, <3>2, LimitsAssumption DEF RetryBudget, JobTable, JobRow
  <2>2. ASSUME NEW S \in SUBSET Jobs, UpsertDiscoveredJobs(S)
        PROVE  RetryBudget'
    <3>1. \A j \in Jobs : /\ job'[j].count = job[j].count
                          /\ job'[j].base \in {job[j].base, job[j].count}
      BY <2>0, <2>2, UpsertedRow DEF Upserted
    <3>2. QED BY <2>0, <3>1, LimitsAssumption DEF RetryBudget, JobTable, JobRow
  <2>3. CASE RecoverUpload
    <3>1. PICK u \in uploads : \/ Complete(u[1], u[2], attempt[u[1]][u[2]].sha)
                             \/ FailRecoveredUpload(u[1], u[2])
      BY <2>3 DEF RecoverUpload
    <3>2. Kept
      BY <2>0, <3>1 DEF Complete, FailRecoveredUpload, JobTable, JobRow
    <3>3. QED BY <3>2, BudgetKept
  <2>4. CASE RecoverStaleFetches
    <3>1. Kept
      BY <2>0, <2>4 DEF RecoverStaleFetches, JobTable, JobRow
    <3>2. QED BY <3>1, BudgetKept
  <2>5. CASE AuditRawObject
    <3>1. Kept
      BY <2>0, <2>5 DEF AuditRawObject, JobTable, JobRow
    <3>2. QED BY <3>1, BudgetKept
  <2>6. CASE \/ FetchFails \/ PageGone \/ RejectPage \/ PutFails
             \/ CompleteFails \/ FailUnanswered
    <3>1. PICK s, retryable : FailAttempt(s, retryable)
      BY <2>6 DEF FetchFails, PageGone, RejectPage, PutFails, CompleteFails, FailUnanswered
    <3>2. Kept
      BY <2>0, <3>1 DEF FailAttempt, JobTable, JobRow
    <3>3. QED BY <3>2, BudgetKept
  <2>7. CASE FetchPage \/ MarkUploading \/ CompleteUpload \/ CompleteUnanswered
    <3>1. Kept
      BY <2>0, <2>7
         DEF FetchPage, MarkUploading, CompleteUpload, CompleteUnanswered, Complete, JobTable,
             JobRow
    <3>2. QED BY <3>1, BudgetKept
  <2>8. ASSUME NEW j \in Jobs, ParseRaw(j) \/ PurgeRaw(j) \/ RetryDue(j)
        PROVE  RetryBudget'
    <3>1. Kept
      BY <2>0, <2>8 DEF ParseRaw, PurgeRaw, RetryDue, JobTable, JobRow
    <3>2. QED BY <3>1, BudgetKept
  <2>9. ASSUME NEW j \in Jobs, PurgeInterrupted(j) \/ LoseObject(j) \/ ChangeObject(j)
        PROVE  RetryBudget'
    <3>1. job' = job
      BY <2>9 DEF PurgeInterrupted, LoseObject, ChangeObject
    <3>2. QED BY <3>1, BudgetKept
  <2>10. CASE \/ \E p \in {"full", "discovery", "detail"} : StartRun(p)
              \/ FinishRecovery \/ EndDiscovery \/ EndDetails \/ PutObject \/ AbortRun
              \/ UNCHANGED vars
    <3>1. job' = job
      BY <2>10 DEF StartRun, FinishRecovery, EndDiscovery, EndDetails, PutObject, AbortRun,
         vars, stored, rows
    <3>2. QED BY <3>1, BudgetKept
  <2>11. QED
    BY <2>1, <2>2, <2>3, <2>4, <2>5, <2>6, <2>7, <2>8, <2>9, <2>10
       DEF Next, Recovery, Discovery, Detail
<1>3. QED
  BY <1>1, <1>2, TypeCorrect, PTL DEF Spec

-----------------------------------------------------------------------------
(* The bookkeeping of the database and of the run's memory.  AttemptLedger   *)
(* is not inductive alone: that the attempt a run closes is the open one     *)
(* follows from Worker, that a claim finds room in the table from Room, that *)
(* a requeued job had its raw purged from Rows.  The parts about one job are *)
(* gathered in JobInv, so that a step has to look at the job it touches.     *)

Ledger(j) ==
    /\ \A n \in AttemptNumber :
         /\ (attempt[j][n].status # "none") <=> (n <= job[j].count)
         /\ attempt[j][n].status \in OpenAttempt => n = job[j].count
    /\ job[j].status \in {"fetching", "validating"} <=>
         \E n \in AttemptNumber : attempt[j][n].status = "fetching"
    /\ job[j].status = "uploading" <=>
         \E n \in AttemptNumber : attempt[j][n].status = "uploading"

RoomFor(j) ==
    /\ job[j].base + MaxAttempts <= MaxFetches
    /\ Requeued(j) => job[j].count + MaxAttempts <= MaxFetches

RowsOf(j) ==
    /\ \A n \in AttemptNumber :
         /\ attempt[j][n].status \in {"none", "fetching"} => attempt[j][n].sha = None
         /\ attempt[j][n].status = "uploading" => attempt[j][n].sha \in Contents
    /\ job[j].status \in {"raw_ready", "storage_corrupt", "storage_missing"} =>
         raw[j].sha # None
    /\ job[j].status \in {"raw_ready", "storage_corrupt"} => ~raw[j].purged

JobInv(j) == Ledger(j) /\ RoomFor(j) /\ RowsOf(j)

LEMMA PerJob ==
  AttemptLedger /\ Room /\ Rows <=> \A j \in Jobs : JobInv(j)
  BY DEF AttemptLedger, Room, Rows, JobInv, Ledger, RoomFor, RowsOf

LEMMA JobFrame ==
  ASSUME NEW j \in Jobs, JobInv(j),
         job'[j] = job[j], attempt'[j] = attempt[j], raw'[j] = raw[j]
  PROVE  JobInv(j)'
  BY DEF JobInv, Ledger, RoomFor, RowsOf, Requeued

LEMMA SetAttemptEffect ==
  ASSUME attempt \in AttemptTable, NEW j \in Jobs, NEW n \in AttemptNumber,
         NEW s, SetAttempt(j, n, s)
  PROVE  /\ \A k \in Jobs : k # j => attempt'[k] = attempt[k]
         /\ \A m \in AttemptNumber : m # n => attempt'[j][m] = attempt[j][m]
         /\ attempt'[j][n].status = s
         /\ attempt'[j][n].sha = attempt[j][n].sha
  BY DEF SetAttempt, AttemptTable, AttemptRow

LEMMA FailAttemptEffect ==
  ASSUME job \in JobTable, attempt \in AttemptTable, cur \in Jobs,
         NEW s \in ClosedAttempt, NEW retryable, FailAttempt(s, retryable)
  PROVE  /\ \A k \in Jobs : k # cur => job'[k] = job[k]
         /\ job'[cur].count = job[cur].count
         /\ job'[cur].base = job[cur].base
         /\ job'[cur].status \in {"blocked", "permanent_error", "retryable_error"}
         /\ SetAttempt(cur, job[cur].count, s)
<1> DEFINE after == StatusAfterFailure(cur, s, retryable)
<1>1. after \in {"blocked", "permanent_error", "retryable_error"}
  BY DEF StatusAfterFailure
<1>2. /\ job' = [job EXCEPT ![cur].status = after, ![cur].due = (after = "permanent_error")]
      /\ SetAttempt(cur, job[cur].count, s)
  BY DEF FailAttempt
<1> HIDE DEF after
<1>3. QED BY <1>1, <1>2 DEF JobTable, JobRow

LEMMA StoreRawEffect ==
  ASSUME raw \in RawTable, NEW j \in Jobs, NEW c, StoreRaw(j, c)
  PROVE  /\ \A k \in Jobs : k # j => raw'[k] = raw[k]
         /\ raw'[j].sha = c
         /\ ~raw'[j].purged
  BY DEF StoreRaw, RawTable, RawRow

LEMMA CompleteEffect ==
  ASSUME job \in JobTable, NEW j \in Jobs, NEW n, NEW c, Complete(j, n, c)
  PROVE  /\ \A k \in Jobs : k # j => job'[k] = job[k]
         /\ job'[j].count = job[j].count
         /\ job'[j].base = job[j].base
         /\ job'[j].status = "raw_ready"
         /\ SetAttempt(j, n, "success")
         /\ StoreRaw(j, c)
  BY DEF Complete, JobTable, JobRow

\* The newest attempt of a job is closed and the job leaves the flight.
LEMMA CloseLedger ==
  ASSUME job \in JobTable, attempt \in AttemptTable,
         NEW j \in Jobs, Ledger(j), job[j].count \in AttemptNumber,
         NEW s \in ClosedAttempt, SetAttempt(j, job[j].count, s),
         job'[j].count = job[j].count,
         job'[j].status \notin {"fetching", "validating", "uploading"}
  PROVE  Ledger(j)'
<1>1. \A n \in AttemptNumber :
        /\ n # job[j].count => attempt'[j][n] = attempt[j][n]
        /\ n = job[j].count => attempt'[j][n].status = s
  BY SetAttemptEffect
<1>2. s # "none" /\ s \notin OpenAttempt
  BY DEF ClosedAttempt, OpenAttempt
<1>3. job[j].count \in Nat
  BY DEF JobTable, JobRow
<1>4. \A n \in AttemptNumber : attempt'[j][n].status \notin OpenAttempt
  BY <1>1, <1>2 DEF Ledger
<1>5. \A n \in AttemptNumber : (attempt'[j][n].status # "none") <=> (n <= job[j].count)
  BY <1>1, <1>2, <1>3 DEF Ledger, AttemptNumber
<1>6. QED BY <1>4, <1>5 DEF Ledger, OpenAttempt

LEMMA CloseRows ==
  ASSUME attempt \in AttemptTable, raw \in RawTable,
         NEW j \in Jobs, RowsOf(j), job[j].count \in AttemptNumber,
         NEW s \in ClosedAttempt, SetAttempt(j, job[j].count, s),
         \/ job'[j].status \in {"blocked", "permanent_error", "retryable_error"}
         \/ job'[j].status = "raw_ready" /\ raw'[j].sha # None /\ ~raw'[j].purged
  PROVE  RowsOf(j)'
<1>1. \A n \in AttemptNumber :
        /\ n # job[j].count => attempt'[j][n] = attempt[j][n]
        /\ n = job[j].count => attempt'[j][n].status = s
  BY SetAttemptEffect
<1>2. s \notin {"none", "fetching", "uploading"}
  BY DEF ClosedAttempt
<1>3. QED BY <1>1, <1>2 DEF RowsOf

\* Together: what closing the current attempt of a job keeps.
LEMMA CloseJob ==
  ASSUME job \in JobTable, attempt \in AttemptTable, raw \in RawTable,
         NEW j \in Jobs, \A k \in Jobs : JobInv(k), job[j].count \in AttemptNumber,
         NEW s \in ClosedAttempt, SetAttempt(j, job[j].count, s),
         job'[j].count = job[j].count, job'[j].base = job[j].base,
         \/ job'[j].status \in {"blocked", "permanent_error", "retryable_error"}
         \/ job'[j].status = "raw_ready" /\ raw'[j].sha # None /\ ~raw'[j].purged,
         \A k \in Jobs : k # j => job'[k] = job[k] /\ raw'[k] = raw[k]
  PROVE  /\ \A k \in Jobs : JobInv(k)'
         /\ \A k \in Jobs : k # j => job'[k] = job[k]
         /\ job'[j].status \notin {"fetching", "validating", "uploading"}
<1>1. JobInv(j)'
  <2>1. Ledger(j)'
    BY CloseLedger DEF JobInv
  <2>2. RowsOf(j)'
    BY CloseRows DEF JobInv
  <2>3. RoomFor(j)'
    BY DEF JobInv, RoomFor, Requeued
  <2>4. QED BY <2>1, <2>2, <2>3 DEF JobInv
<1>2. ASSUME NEW k \in Jobs, k # j
      PROVE  JobInv(k)'
  <2>1. attempt'[k] = attempt[k]
    BY <1>2, SetAttemptEffect
  <2>2. QED BY <1>2, <2>1, JobFrame
<1>3. QED BY <1>1, <1>2

-----------------------------------------------------------------------------

JobsInv == \A j \in Jobs : JobInv(j)
Held == JobsInv /\ OnlyCurrentInFlight /\ Worker

LEMMA CurrentOpen ==
  ASSUME JobsInv, Worker, pc \in {"fetch", "validate", "upload", "stored"}
  PROVE  /\ cur \in Jobs
         /\ job[cur].count \in AttemptNumber
         /\ attempt[cur][job[cur].count].status =
              IF pc \in {"fetch", "validate"} THEN "fetching" ELSE "uploading"
<1>1. cur \in Jobs
  BY DEF Worker
<1>2. Ledger(cur)
  BY <1>1 DEF JobsInv, JobInv
<1>3. CASE pc \in {"fetch", "validate"}
  <2>1. job[cur].status \in {"fetching", "validating"}
    BY <1>3 DEF Worker
  <2>2. PICK n \in AttemptNumber : attempt[cur][n].status = "fetching"
    BY <1>2, <2>1 DEF Ledger
  <2>3. n = job[cur].count
    BY <1>2, <2>2 DEF Ledger, OpenAttempt
  <2>4. QED BY <1>1, <1>3, <2>2, <2>3
<1>4. CASE pc \in {"upload", "stored"}
  <2>1. job[cur].status = "uploading"
    BY <1>4 DEF Worker
  <2>2. PICK n \in AttemptNumber : attempt[cur][n].status = "uploading"
    BY <1>2, <2>1 DEF Ledger
  <2>3. n = job[cur].count
    BY <1>2, <2>2 DEF Ledger, OpenAttempt
  <2>4. QED BY <1>1, <1>4, <2>2, <2>3
<1>5. QED BY <1>3, <1>4

\* Wherever a run may fail its current attempt, that attempt exists.
LEMMA CurrentAttempt ==
  ASSUME JobsInv, Worker, pc \in {"fetch", "validate", "upload", "stored", "unanswered"}
  PROVE  cur \in Jobs /\ job[cur].count \in AttemptNumber
<1>1. CASE pc = "unanswered"
  BY <1>1 DEF Worker
<1>2. QED BY <1>1, CurrentOpen

LEMMA RunMoves ==
  ASSUME NEW s, \/ NextAfterError(s) \/ EndRun \/ \E n : NextJob(n)
  PROVE  pc' \in {"idle", "select"} /\ cur' = None
  BY DEF NextAfterError, EndRun, NextJob

\* The run fails its current attempt and moves on or ends.
LEMMA FailCurrent ==
  ASSUME Tables, Held, pc \in {"fetch", "validate", "upload", "stored", "unanswered"},
         NEW s \in ClosedAttempt, NEW retryable, FailAttempt(s, retryable),
         raw' = raw,
         pc' \in {"idle", "select"}, cur' = None
  PROVE  Held'
<1>1. /\ cur \in Jobs
      /\ job[cur].count \in AttemptNumber
  BY CurrentAttempt DEF Held
<1>2. /\ \A k \in Jobs : k # cur => job'[k] = job[k]
      /\ job'[cur].count = job[cur].count
      /\ job'[cur].base = job[cur].base
      /\ job'[cur].status \in {"blocked", "permanent_error", "retryable_error"}
      /\ SetAttempt(cur, job[cur].count, s)
  BY <1>1, FailAttemptEffect DEF Tables
<1>3. \A k \in Jobs : JobInv(k)'
  BY <1>1, <1>2, CloseJob DEF Tables, Held, JobsInv
<1>4. OnlyCurrentInFlight'
  BY <1>1, <1>2 DEF Held, OnlyCurrentInFlight
<1>5. Worker'
  BY DEF Worker
<1>6. QED BY <1>3, <1>4, <1>5 DEF Held, JobsInv

Fails ==
    \/ FetchFails \/ PageGone \/ RejectPage \/ PutFails
    \/ CompleteFails \/ FailUnanswered

LEMMA FailsFacts ==
  ASSUME Fails
  PROVE  /\ pc \in {"fetch", "validate", "upload", "stored", "unanswered"}
         /\ raw' = raw
         /\ \E s \in ClosedAttempt, retryable \in BOOLEAN :
              /\ FailAttempt(s, retryable)
              /\ NextAfterError(s) \/ NextJob(0)
<1>1. /\ pc \in {"fetch", "validate", "upload", "stored", "unanswered"}
      /\ raw' = raw
  BY DEF Fails, FetchFails, PageGone, RejectPage, PutFails, CompleteFails, FailUnanswered
<1>2. \E s \in ClosedAttempt, retryable \in BOOLEAN :
        /\ FailAttempt(s, retryable)
        /\ NextAfterError(s) \/ NextJob(0)
  BY DEF Fails, FetchFails, PageGone, RejectPage, PutFails, CompleteFails, FailUnanswered,
         ClosedAttempt
<1>3. QED BY <1>1, <1>2

LEMMA HeldFails ==
  ASSUME Tables, Held, Fails
  PROVE  Held'
<1>1. PICK s \in ClosedAttempt, retryable \in BOOLEAN :
        /\ FailAttempt(s, retryable)
        /\ NextAfterError(s) \/ NextJob(0)
  BY FailsFacts
<1>2. QED BY <1>1, FailsFacts, RunMoves, FailCurrent

LEMMA HeldComplete ==
  ASSUME Tables, Held, CompleteUpload \/ CompleteUnanswered
  PROVE  Held'
<1>1. /\ cur \in Jobs
      /\ job[cur].count \in AttemptNumber
  BY CurrentOpen DEF Held, CompleteUpload, CompleteUnanswered
<1>2. page \in Contents /\ attempt[cur][job[cur].count].sha = page
  BY DEF Held, Worker, CompleteUpload, CompleteUnanswered
<1>3. /\ \A k \in Jobs : k # cur => job'[k] = job[k]
      /\ job'[cur].count = job[cur].count
      /\ job'[cur].base = job[cur].base
      /\ job'[cur].status = "raw_ready"
      /\ SetAttempt(cur, job[cur].count, "success")
      /\ StoreRaw(cur, page)
  BY <1>1, CompleteEffect DEF Tables, CompleteUpload, CompleteUnanswered
<1>4. /\ \A k \in Jobs : k # cur => raw'[k] = raw[k]
      /\ raw'[cur].sha = page
      /\ ~raw'[cur].purged
  BY <1>1, <1>3, StoreRawEffect DEF Tables
<1>5. \A k \in Jobs : JobInv(k)'
  BY <1>1, <1>2, <1>3, <1>4, CloseJob, ContentsAssumption
     DEF Tables, Held, JobsInv, ClosedAttempt
<1>6. \/ pc' = "select" /\ cur' = None
      \/ pc' = "unanswered" /\ cur' = cur
  BY DEF CompleteUpload, CompleteUnanswered, NextJob, work
<1>7. OnlyCurrentInFlight'
  BY <1>1, <1>3 DEF Held, OnlyCurrentInFlight, CompleteUpload, CompleteUnanswered
<1>8. /\ attempt'[cur][job[cur].count].status = "success"
      /\ attempt'[cur][job[cur].count].sha = page
  BY <1>1, <1>2, <1>3, SetAttemptEffect DEF Tables
<1>9. Worker'
  BY <1>1, <1>3, <1>4, <1>6, <1>8 DEF Worker
<1>10. QED BY <1>5, <1>7, <1>9 DEF Held, JobsInv

LEMMA HeldRecoverUpload ==
  ASSUME Tables, RunState, Held, RecoverUpload
  PROVE  Held'
<1>1. PICK u \in uploads :
        /\ uploads' = uploads \ {u}
        /\ IF SizeMatches(u[1], attempt[u[1]][u[2]].sha)
             THEN Complete(u[1], u[2], attempt[u[1]][u[2]].sha)
             ELSE FailRecoveredUpload(u[1], u[2])
  BY DEF RecoverUpload
<1> DEFINE j == u[1]
           n == u[2]
<1>2. /\ j \in Jobs /\ n \in AttemptNumber /\ u = <<j, n>>
      /\ attempt[j][n].status = "uploading"
  BY DEF Held, Worker, RecoverUpload, PendingUploads
<1>3. n = job[j].count /\ attempt[j][n].sha \in Contents
  BY <1>2 DEF Held, JobsInv, JobInv, Ledger, RowsOf, OpenAttempt
<1> HIDE DEF j, n
<1>4. PICK s \in ClosedAttempt : SetAttempt(j, n, s)
  BY <1>1 DEF Complete, FailRecoveredUpload, ClosedAttempt, j, n
<1>5. /\ \A k \in Jobs : k # j => job'[k] = job[k] /\ raw'[k] = raw[k]
      /\ job'[j].count = job[j].count
      /\ job'[j].base = job[j].base
      /\ \/ job'[j].status \in {"blocked", "permanent_error", "retryable_error"}
         \/ job'[j].status = "raw_ready" /\ raw'[j].sha # None /\ ~raw'[j].purged
  <2>1. CASE Complete(j, n, attempt[j][n].sha)
    BY <1>2, <1>3, <2>1, CompleteEffect, StoreRawEffect, ContentsAssumption DEF Tables
  <2>2. CASE FailRecoveredUpload(j, n)
    BY <1>2, <2>2 DEF FailRecoveredUpload, Tables, JobTable, JobRow
  <2>3. QED BY <1>1, <2>1, <2>2 DEF j, n
<1>6. /\ \A k \in Jobs : JobInv(k)'
      /\ job'[j].status \notin {"fetching", "validating", "uploading"}
  BY <1>2, <1>3, <1>4, <1>5, CloseJob DEF Tables, Held, JobsInv
<1>7. pc = "recover" /\ pc' = "recover" /\ cur' = cur
  BY DEF RecoverUpload, work
<1>8. uploads' = PendingUploads'
  <2>1. \A v \in Jobs \X AttemptNumber :
          attempt'[v[1]][v[2]].status =
            IF v = u THEN s ELSE attempt[v[1]][v[2]].status
    BY <1>2, <1>3, <1>4, SetAttemptEffect DEF Tables
  <2>2. s # "uploading"
    BY DEF ClosedAttempt
  <2>3. uploads = PendingUploads
    BY <1>7 DEF Held, Worker
  <2>4. QED BY <1>1, <2>1, <2>2, <2>3 DEF PendingUploads
<1>9. QED
  BY <1>6, <1>7, <1>8 DEF Held, JobsInv, OnlyCurrentInFlight, Worker

\* A row keeps its invariant when its attempts do not change and its status moves
\* between statuses of no flight.
LEMMA StatusMove ==
  ASSUME NEW j \in Jobs, JobInv(j), attempt'[j] = attempt[j],
         job'[j].count = job[j].count, job'[j].base = job[j].base,
         job[j].status \notin {"fetching", "validating", "uploading"},
         job'[j].status \notin {"fetching", "validating", "uploading"},
         job'[j].status \in {"raw_ready", "storage_corrupt", "storage_missing"} =>
           raw'[j].sha # None,
         job'[j].status \in {"raw_ready", "storage_corrupt"} => ~raw'[j].purged,
         Requeued(j)' => job[j].count + MaxAttempts <= MaxFetches
  PROVE  JobInv(j)'
<1>1. Ledger(j)'
  BY DEF JobInv, Ledger
<1>2. RowsOf(j)'
  BY DEF JobInv, RowsOf
<1>3. RoomFor(j)'
  BY DEF JobInv, RoomFor
<1>4. QED BY <1>1, <1>2, <1>3 DEF JobInv

LEMMA HeldRecoverStaleFetches ==
  ASSUME Tables, Held, RecoverStaleFetches
  PROVE  Held'
<1>1. /\ pc = "recover" /\ pc' = "audit" /\ cur' = cur /\ cur = None
      /\ raw' = raw
      /\ checks' \in SUBSET {j \in Jobs : raw[j].sha # None /\ ~raw[j].purged}
  BY DEF RecoverStaleFetches, Held, Worker, work
<1>2. PendingUploads = {}
  BY DEF RecoverStaleFetches, Held, Worker
<1>3. ASSUME NEW j \in Jobs
      PROVE  /\ JobInv(j)'
             /\ job'[j].status \notin {"fetching", "validating", "uploading"}
  <2>1. JobInv(j)
    BY DEF Held, JobsInv
  <2>2. \A n \in AttemptNumber : attempt[j][n].status # "uploading"
    <3>1. ASSUME NEW n \in AttemptNumber, attempt[j][n].status = "uploading"
          PROVE  <<j, n>> \in PendingUploads
      BY <3>1 DEF PendingUploads
    <3>2. QED BY <3>1, <1>2
  <2>3. job[j].status # "uploading"
    BY <2>1, <2>2 DEF JobInv, Ledger
  <2>4. \A n \in AttemptNumber :
          /\ attempt'[j][n].sha = attempt[j][n].sha
          /\ attempt'[j][n].status =
               IF attempt[j][n].status = "fetching" THEN "fetch_error" ELSE attempt[j][n].status
    <3>1. ASSUME NEW n \in AttemptNumber
          PROVE  /\ attempt'[j][n].sha = attempt[j][n].sha
                 /\ attempt'[j][n].status =
                      IF attempt[j][n].status = "fetching" THEN "fetch_error"
                      ELSE attempt[j][n].status
      <4>1. attempt[j][n] \in AttemptRow
        BY DEF Tables, AttemptTable
      <4>2. attempt'[j][n] = IF Unfinished(j, n)
                               THEN [attempt[j][n] EXCEPT !.status = "fetch_error"]
                               ELSE attempt[j][n]
        BY DEF RecoverStaleFetches
      <4>3. QED BY <4>1, <4>2 DEF Unfinished, AttemptRow
    <3>2. QED BY <3>1
  <2>5. /\ job'[j].count = job[j].count
        /\ job'[j].base = job[j].base
        /\ job'[j].status = IF job[j].status \in {"fetching", "validating"}
                              THEN "retryable_error" ELSE job[j].status
    <3>1. job[j] \in JobRow
      BY DEF Tables, JobTable
    <3>2. job'[j] = IF j \in StaleJobs
                      THEN [job[j] EXCEPT !.status = "retryable_error", !.due = TRUE]
                      ELSE job[j]
      BY DEF RecoverStaleFetches
    <3>3. QED BY <3>1, <3>2 DEF StaleJobs, JobRow
  <2>6. Ledger(j)'
    <3>1. \A n \in AttemptNumber : attempt'[j][n].status \notin OpenAttempt
      BY <2>2, <2>4 DEF OpenAttempt
    <3>2. \A n \in AttemptNumber : attempt'[j][n].status = "none" <=> attempt[j][n].status = "none"
      BY <2>4
    <3>3. QED BY <2>1, <2>3, <2>5, <3>1, <3>2 DEF JobInv, Ledger, OpenAttempt
  <2>7. RowsOf(j)'
    <3>1. \A n \in AttemptNumber :
            /\ attempt'[j][n].status \in {"none", "fetching"} => attempt'[j][n].sha = None
            /\ attempt'[j][n].status = "uploading" => attempt'[j][n].sha \in Contents
      BY <2>1, <2>2, <2>4 DEF JobInv, RowsOf
    <3>2. QED BY <1>1, <2>1, <2>5, <3>1 DEF JobInv, RowsOf
  <2>8. RoomFor(j)'
    BY <1>1, <2>1, <2>5 DEF JobInv, RoomFor, Requeued
  <2>9. QED BY <2>3, <2>5, <2>6, <2>7, <2>8 DEF JobInv
<1>4. QED
  BY <1>1, <1>3 DEF Held, JobsInv, OnlyCurrentInFlight, Worker

LEMMA HeldClaimNextJob ==
  ASSUME Tables, RetryBudget, Held, ClaimNextJob
  PROVE  Held'
<1>1. PICK j \in Jobs :
        /\ Claimable(j)
        /\ job' = [job EXCEPT ![j].status = "fetching", ![j].count = @ + 1, ![j].due = TRUE]
        /\ SetAttempt(j, job[j].count + 1, "fetching")
        /\ cur' = j
  BY DEF ClaimNextJob
<1>2. /\ pc = "select" /\ pc' = "fetch" /\ raw' = raw
  BY DEF ClaimNextJob
<1>3. job[j] \in JobRow /\ JobInv(j)
  BY DEF Tables, JobTable, Held, JobsInv
<1>4. /\ job[j].count + 1 \in AttemptNumber
      /\ job[j].count \in Nat
  <2>1. job[j].count + 1 <= job[j].base + MaxAttempts
    BY <1>1, <1>3, LimitsAssumption DEF Claimable, JobRow
  <2>2. job[j].base + MaxAttempts <= MaxFetches
    BY <1>3 DEF JobInv, RoomFor
  <2>3. QED BY <1>3, <2>1, <2>2, LimitsAssumption DEF JobRow, AttemptNumber
<1>5. /\ \A k \in Jobs : k # j => job'[k] = job[k]
      /\ job'[j].status = "fetching"
      /\ job'[j].count = job[j].count + 1
      /\ job'[j].base = job[j].base
  BY <1>1, <1>3 DEF Tables, JobTable, JobRow
<1>6. /\ \A k \in Jobs : k # j => attempt'[k] = attempt[k]
      /\ \A m \in AttemptNumber : m # job[j].count + 1 => attempt'[j][m] = attempt[j][m]
      /\ attempt'[j][job[j].count + 1].status = "fetching"
      /\ attempt'[j][job[j].count + 1].sha = attempt[j][job[j].count + 1].sha
  BY <1>1, <1>4, SetAttemptEffect DEF Tables
<1>7. \A n \in AttemptNumber : attempt[j][n].status \notin OpenAttempt
  BY <1>1, <1>3 DEF JobInv, Ledger, Claimable, OpenAttempt
<1>8. attempt[j][job[j].count + 1].status = "none"
  BY <1>3, <1>4 DEF JobInv, Ledger
<1>9. JobInv(j)'
  <2>1. \A n \in AttemptNumber :
          (attempt'[j][n].status # "none") <=> (n <= job[j].count + 1)
    BY <1>3, <1>4, <1>6, <1>8 DEF JobInv, Ledger, AttemptNumber
  <2>2. \A n \in AttemptNumber : attempt'[j][n].status \in OpenAttempt => n = job[j].count + 1
    BY <1>6, <1>7
  <2>3. \A n \in AttemptNumber : attempt'[j][n].status # "uploading"
    BY <1>6, <1>7 DEF OpenAttempt
  <2>4. Ledger(j)'
    BY <1>4, <1>5, <1>6, <2>1, <2>2, <2>3 DEF Ledger
  <2>5. RowsOf(j)'
    BY <1>3, <1>5, <1>6, <1>8 DEF JobInv, RowsOf
  <2>6. RoomFor(j)'
    BY <1>3, <1>5 DEF JobInv, RoomFor, Requeued
  <2>7. QED BY <2>4, <2>5, <2>6 DEF JobInv
<1>10. ASSUME NEW k \in Jobs, k # j
       PROVE  JobInv(k)'
  BY <1>2, <1>5, <1>6, <1>10, JobFrame DEF Held, JobsInv
<1>11. OnlyCurrentInFlight'
  BY <1>1, <1>2, <1>5, JobsAssumption DEF Held, OnlyCurrentInFlight, Worker
<1>12. Worker'
  BY <1>1, <1>2, <1>5 DEF Worker
<1>13. QED BY <1>9, <1>10, <1>11, <1>12 DEF Held, JobsInv

LEMMA HeldFetchPage ==
  ASSUME Tables, Held, FetchPage
  PROVE  Held'
<1>1. PICK j \in Jobs : j = cur
  BY DEF Held, Worker, FetchPage
<1>2. /\ job[j].status = "fetching"
  BY <1>1 DEF Held, Worker, FetchPage
<1>3. /\ pc = "fetch" /\ pc' = "validate" /\ cur' = cur /\ page' \in Contents
      /\ raw' = raw /\ attempt' = attempt
      /\ job' = [job EXCEPT ![j].status = "validating"]
  BY <1>1 DEF FetchPage, work
<1>4. /\ \A k \in Jobs : k # j => job'[k] = job[k]
      /\ job'[j].status = "validating"
      /\ job'[j].count = job[j].count
      /\ job'[j].base = job[j].base
  BY <1>2, <1>3 DEF Tables, JobTable, JobRow
<1>5. JobInv(j)'
  BY <1>2, <1>3, <1>4 DEF Held, JobsInv, JobInv, Ledger, RowsOf, RoomFor, Requeued
<1>6. ASSUME NEW k \in Jobs, k # j
      PROVE  JobInv(k)'
  BY <1>3, <1>4, <1>6, JobFrame DEF Held, JobsInv
<1>7. OnlyCurrentInFlight'
  BY <1>1, <1>3, <1>4 DEF Held, OnlyCurrentInFlight
<1>8. Worker'
  BY <1>1, <1>3, <1>4 DEF Worker
<1>9. QED BY <1>5, <1>6, <1>7, <1>8 DEF Held, JobsInv

LEMMA HeldMarkUploading ==
  ASSUME Tables, Held, MarkUploading
  PROVE  Held'
<1>1. PICK j \in Jobs : j = cur
  BY DEF Held, Worker, MarkUploading
<1>2. /\ job[j].status = "validating"
      /\ page \in Contents
      /\ job[j].count \in AttemptNumber
      /\ attempt[j][job[j].count].status = "fetching"
  BY <1>1, CurrentOpen DEF Held, Worker, MarkUploading
<1>3. /\ pc = "validate" /\ pc' = "upload" /\ cur' = cur /\ page' = page
      /\ raw' = raw
      /\ job' = [job EXCEPT ![j].status = "uploading"]
  BY <1>1 DEF MarkUploading, work
<1>4. /\ \A k \in Jobs : k # j => job'[k] = job[k]
      /\ job'[j].status = "uploading"
      /\ job'[j].count = job[j].count
      /\ job'[j].base = job[j].base
  BY <1>2, <1>3 DEF Tables, JobTable, JobRow
<1>5. /\ \A k \in Jobs : k # j => attempt'[k] = attempt[k]
      /\ \A m \in AttemptNumber : m # job[j].count => attempt'[j][m] = attempt[j][m]
      /\ attempt'[j][job[j].count].status = "uploading"
      /\ attempt'[j][job[j].count].sha = page
  BY <1>1, <1>2 DEF MarkUploading, UploadRecord, Tables, AttemptTable
<1>6. JobInv(j)'
  <2>1. JobInv(j)
    BY DEF Held, JobsInv
  <2>2. \A n \in AttemptNumber : n # job[j].count => attempt[j][n].status \notin OpenAttempt
    BY <2>1 DEF JobInv, Ledger
  <2>3. Ledger(j)'
    BY <1>2, <1>4, <1>5, <2>1, <2>2 DEF JobInv, Ledger, OpenAttempt
  <2>4. RowsOf(j)'
    BY <1>2, <1>4, <1>5, <2>1 DEF JobInv, RowsOf
  <2>5. RoomFor(j)'
    BY <1>4, <2>1 DEF JobInv, RoomFor, Requeued
  <2>6. QED BY <2>3, <2>4, <2>5 DEF JobInv
<1>7. ASSUME NEW k \in Jobs, k # j
      PROVE  JobInv(k)'
  BY <1>3, <1>4, <1>5, <1>7, JobFrame DEF Held, JobsInv
<1>8. OnlyCurrentInFlight'
  BY <1>1, <1>3, <1>4 DEF Held, OnlyCurrentInFlight
<1>9. Worker'
  BY <1>1, <1>2, <1>3, <1>4, <1>5 DEF Worker
<1>10. QED BY <1>6, <1>7, <1>8, <1>9 DEF Held, JobsInv

LEMMA HeldUpsertDiscoveredJobs ==
  ASSUME Tables, Held, NEW S \in SUBSET Jobs, UpsertDiscoveredJobs(S)
  PROVE  Held'
<1>1. /\ pc = "discover" /\ pc' = "discover" /\ cur' = cur /\ cur = None
      /\ attempt' = attempt /\ raw' = raw
  BY DEF UpsertDiscoveredJobs, Held, Worker, work
<1>2. ASSUME NEW j \in Jobs
      PROVE  /\ JobInv(j)'
             /\ job'[j].status \notin {"fetching", "validating", "uploading"}
  <2>1. Upserted(j)
    BY UpsertedRow DEF Tables
  <2>2. JobInv(j) /\ job[j] \in JobRow
    BY DEF Held, JobsInv, Tables, JobTable
  <2>3. job[j].status \notin {"fetching", "validating", "uploading"}
    BY <1>1, JobsAssumption DEF Held, OnlyCurrentInFlight
  <2>4. CASE job'[j] = job[j]
    BY <1>1, <2>2, <2>3, <2>4, JobFrame
  <2>5. CASE job'[j] # job[j]
    <3>1. /\ job'[j].status = "pending"
          /\ job'[j].count = job[j].count
          /\ \/ job'[j].base = job[j].base
             \/ Requeued(j) /\ job'[j].base = job[j].count
      BY <2>1, <2>5 DEF Upserted
    <3>2. Ledger(j)'
      BY <1>1, <2>2, <2>3, <3>1 DEF JobInv, Ledger
    <3>3. RowsOf(j)'
      BY <1>1, <2>2, <3>1 DEF JobInv, RowsOf
    <3>4. RoomFor(j)'
      BY <2>2, <3>1 DEF JobInv, RoomFor, Requeued
    <3>5. QED BY <3>1, <3>2, <3>3, <3>4 DEF JobInv
  <2>6. QED BY <2>4, <2>5
<1>3. QED
  BY <1>1, <1>2 DEF Held, JobsInv, OnlyCurrentInFlight, Worker

LEMMA HeldAuditRawObject ==
  ASSUME Tables, RunState, Held, AuditRawObject
  PROVE  Held'
<1>1. PICK j \in checks :
        /\ raw' = [raw EXCEPT ![j].integrity = AuditVerdict(j)]
        /\ job' = [job EXCEPT ![j].status = StatusForIntegrity(AuditVerdict(j))]
        /\ checks' = checks \ {j}
  BY DEF AuditRawObject
<1>2. /\ pc = "audit" /\ pc' = "audit" /\ cur' = cur /\ cur = None
      /\ attempt' = attempt
  BY DEF AuditRawObject, Held, Worker, work
<1>3. j \in Jobs /\ raw[j].sha # None /\ ~raw[j].purged
  BY <1>1, <1>2 DEF Held, Worker, RunState
<1>4. \A k \in Jobs : job[k].status \notin {"fetching", "validating", "uploading"}
  BY <1>2, JobsAssumption DEF Held, OnlyCurrentInFlight
<1>5. \A k \in Jobs : raw'[k].sha = raw[k].sha /\ raw'[k].purged = raw[k].purged
  BY <1>1 DEF Tables, RawTable, RawRow
<1>6. /\ \A k \in Jobs : k # j => job'[k] = job[k] /\ raw'[k] = raw[k]
      /\ job'[j].count = job[j].count
      /\ job'[j].base = job[j].base
      /\ job'[j].status \in {"raw_ready", "storage_missing", "storage_corrupt"}
  <2>1. StatusForIntegrity(AuditVerdict(j)) \in
          {"raw_ready", "storage_missing", "storage_corrupt"}
    BY DEF StatusForIntegrity
  <2>2. QED BY <1>1, <1>3, <2>1 DEF Tables, JobTable, JobRow, RawTable, RawRow
<1>7. JobInv(j)'
  <2>1. ~Requeued(j)'
    BY <1>3, <1>5 DEF Requeued
  <2>2. QED BY <1>2, <1>3, <1>4, <1>5, <1>6, <2>1, StatusMove DEF Held, JobsInv
<1>8. ASSUME NEW k \in Jobs, k # j
      PROVE  JobInv(k)'
  BY <1>2, <1>6, <1>8, JobFrame DEF Held, JobsInv
<1>9. OnlyCurrentInFlight'
  BY <1>4, <1>6 DEF OnlyCurrentInFlight
<1>10. Worker'
  BY <1>1, <1>2, <1>5 DEF Held, Worker, RunState
<1>11. QED BY <1>7, <1>8, <1>9, <1>10 DEF Held, JobsInv

\* Parse and cleanup work while no run does.
LEMMA IdleMove ==
  ASSUME Held, NEW j \in Jobs, pc = "idle", pc' = pc, cur' = cur, attempt' = attempt,
         \A k \in Jobs : k # j => job'[k] = job[k] /\ raw'[k] = raw[k],
         JobInv(j)'
  PROVE  Held'
<1>1. ASSUME NEW k \in Jobs, k # j
      PROVE  JobInv(k)'
  BY <1>1, JobFrame DEF Held, JobsInv
<1>2. OnlyCurrentInFlight' /\ Worker'
  BY DEF Held, OnlyCurrentInFlight, Worker
<1>3. QED BY <1>1, <1>2 DEF Held, JobsInv

LEMMA HeldParseRaw ==
  ASSUME Tables, Held, NEW j \in Jobs, ParseRaw(j)
  PROVE  Held'
<1>1. /\ pc = "idle" /\ pc' = pc /\ cur' = cur /\ attempt' = attempt
      /\ job[j].status = "raw_ready"
  BY DEF ParseRaw, run, work
<1>2. JobInv(j)
  BY DEF Held, JobsInv
<1>3. raw[j].sha # None /\ ~raw[j].purged
  BY <1>1, <1>2 DEF JobInv, RowsOf
<1>4. CASE UNCHANGED <<job, raw>>
  BY <1>1, <1>2, <1>4, JobFrame, IdleMove
<1>5. CASE ~UNCHANGED <<job, raw>>
  <2>1. PICK i \in Integrity \ {"none", "valid"} :
          /\ raw' = [raw EXCEPT ![j].integrity = i]
          /\ job' = [job EXCEPT ![j].status = StatusForIntegrity(i)]
    BY <1>5 DEF ParseRaw, Integrity
  <2>2. StatusForIntegrity(i) \in {"storage_missing", "storage_corrupt"}
    BY DEF StatusForIntegrity
  <2>3. /\ \A k \in Jobs : k # j => job'[k] = job[k] /\ raw'[k] = raw[k]
        /\ job'[j].count = job[j].count
        /\ job'[j].base = job[j].base
        /\ job'[j].status \in {"storage_missing", "storage_corrupt"}
        /\ raw'[j].sha = raw[j].sha
        /\ raw'[j].purged = raw[j].purged
    BY <2>1, <2>2 DEF Tables, JobTable, JobRow, RawTable, RawRow
  <2>4. JobInv(j)'
    <3>1. ~Requeued(j)'
      BY <1>3, <2>3 DEF Requeued
    <3>2. QED BY <1>1, <1>2, <1>3, <2>3, <3>1, StatusMove
  <2>5. QED BY <1>1, <2>3, <2>4, IdleMove
<1>6. QED BY <1>4, <1>5

LEMMA HeldPurgeRaw ==
  ASSUME Tables, Held, NEW j \in Jobs, PurgeRaw(j)
  PROVE  Held'
<1>1. /\ pc = "idle" /\ pc' = pc /\ cur' = cur /\ attempt' = attempt
      /\ job[j].status \in {"raw_ready", "storage_missing"}
      /\ raw[j].sha # None
      /\ job[j].count + MaxAttempts <= MaxFetches
  BY DEF PurgeRaw, CleanupCandidate, run, work
<1>2. JobInv(j)
  BY DEF Held, JobsInv
<1>3. /\ \A k \in Jobs : k # j => job'[k] = job[k] /\ raw'[k] = raw[k]
      /\ job'[j].count = job[j].count
      /\ job'[j].base = job[j].base
      /\ job'[j].status = "storage_missing"
      /\ raw'[j].sha = raw[j].sha
  BY DEF PurgeRaw, Tables, JobTable, JobRow, RawTable, RawRow
<1>4. JobInv(j)'
  BY <1>1, <1>2, <1>3, StatusMove
<1>5. QED BY <1>1, <1>3, <1>4, IdleMove

LEMMA HeldRetryDue ==
  ASSUME Tables, Held, NEW j \in Jobs, RetryDue(j)
  PROVE  Held'
<1>1. /\ pc' = pc /\ cur' = cur /\ page' = page /\ uploads' = uploads /\ checks' = checks
      /\ attempt' = attempt /\ raw' = raw
  BY DEF RetryDue, run, work, todo
<1>2. \A k \in Jobs : /\ job'[k].status = job[k].status
                      /\ job'[k].count = job[k].count
                      /\ job'[k].base = job[k].base
  BY DEF RetryDue, Tables, JobTable, JobRow
<1>3. ASSUME NEW k \in Jobs
      PROVE  JobInv(k)'
  BY <1>1, <1>2 DEF Held, JobsInv, JobInv, Ledger, RoomFor, RowsOf, Requeued
<1>4. OnlyCurrentInFlight'
  BY <1>1, <1>2 DEF Held, OnlyCurrentInFlight
<1>5. Worker'
  BY <1>1, <1>2 DEF Held, Worker, PendingUploads
<1>6. QED BY <1>3, <1>4, <1>5 DEF Held, JobsInv

\* A step that changes no row, and moves the run as one of the cases allows.
LEMMA RowsUnchanged ==
  ASSUME Held, UNCHANGED rows
  PROVE  JobsInv'
<1>1. UNCHANGED <<job, attempt, raw>>
  BY DEF rows
<1>2. ASSUME NEW j \in Jobs
      PROVE  JobInv(j)'
  BY <1>1, JobFrame DEF Held, JobsInv
<1>3. QED BY <1>2 DEF JobsInv

LEMMA HeldMoves ==
  ASSUME RunState, Held,
         \/ \E p \in {"full", "discovery", "detail"} : StartRun(p)
         \/ FinishRecovery \/ EndDiscovery \/ EndDetails \/ PutObject \/ AbortRun
         \/ \E j \in Jobs : PurgeInterrupted(j) \/ LoseObject(j) \/ ChangeObject(j)
         \/ UNCHANGED vars
  PROVE  Held'
<1>1. UNCHANGED <<job, attempt, raw>> /\ UNCHANGED rows
  BY DEF StartRun, FinishRecovery, EndDiscovery, EndDetails, PutObject, AbortRun,
     PurgeInterrupted, LoseObject, ChangeObject, vars, stored, rows
<1>2. JobsInv'
  BY <1>1, RowsUnchanged
<1>3. CASE EndRun
  <2>1. pc' = "idle" /\ cur' = None
    BY <1>3 DEF EndRun
  <2>2. QED BY <1>2, <2>1 DEF Held, OnlyCurrentInFlight, Worker
<1>4. ASSUME NEW p, StartRun(p)
      PROVE  Held'
  <2>1. pc = "idle" /\ pc' = "recover" /\ cur' = cur /\ uploads' = PendingUploads
    BY <1>4 DEF StartRun, work
  <2>2. PendingUploads' = PendingUploads
    BY <1>1 DEF PendingUploads
  <2>3. QED BY <1>2, <2>1, <2>2 DEF Held, OnlyCurrentInFlight, Worker
<1>5. CASE FinishRecovery \/ (EndDiscovery /\ ~EndRun)
  <2>1. /\ pc \in {"audit", "discover"} /\ pc' \in {"select", "discover"} /\ cur' = cur
    BY <1>5 DEF FinishRecovery, EndDiscovery, work
  <2>2. QED BY <1>1, <1>2, <2>1 DEF Held, OnlyCurrentInFlight, Worker
<1>6. CASE PutObject
  <2>1. pc = "upload" /\ pc' = "stored" /\ cur' = cur /\ page' = page
    BY <1>6 DEF PutObject, work
  <2>2. QED BY <1>1, <1>2, <2>1 DEF Held, OnlyCurrentInFlight, Worker
<1>7. CASE UNCHANGED run
  <2>1. UNCHANGED <<pc, cur, page, uploads, checks>>
    BY <1>7 DEF run, work, todo
  <2>2. QED BY <1>1, <1>2, <2>1 DEF Held, OnlyCurrentInFlight, Worker, PendingUploads
<1>8. QED
  BY <1>3, <1>4, <1>5, <1>6, <1>7
     DEF EndDetails, AbortRun, PurgeInterrupted, LoseObject, ChangeObject, vars

\* Every step of the specification keeps the bookkeeping.
LEMMA HeldStep ==
  ASSUME TypeOK, RetryBudget, Held, [Next]_vars
  PROVE  Held'
<1>1. Tables /\ RunState
  BY DEF TypeOK
<1>2. CASE Recovery
  BY <1>1, <1>2, HeldRecoverUpload, HeldRecoverStaleFetches, HeldAuditRawObject, HeldMoves
     DEF Recovery
<1>3. CASE Discovery
  BY <1>1, <1>3, HeldUpsertDiscoveredJobs, HeldMoves DEF Discovery
<1>4. CASE Detail
  BY <1>1, <1>4, HeldClaimNextJob, HeldFetchPage, HeldMarkUploading, HeldFails,
     HeldComplete, HeldMoves DEF Detail, Fails
<1>5. ASSUME NEW j \in Jobs, ParseRaw(j) \/ PurgeRaw(j) \/ RetryDue(j)
      PROVE  Held'
  BY <1>1, <1>5, HeldParseRaw, HeldPurgeRaw, HeldRetryDue
<1>6. QED
  BY <1>1, <1>2, <1>3, <1>4, <1>5, HeldMoves DEF Next

LEMMA HeldInit ==
  ASSUME Init
  PROVE  Held
<1>1. ASSUME NEW j \in Jobs
      PROVE  JobInv(j)
  BY LimitsAssumption
     DEF Init, JobInv, Ledger, RoomFor, RowsOf, Requeued, OpenAttempt, AttemptNumber
<1>2. OnlyCurrentInFlight /\ Worker
  BY DEF Init, OnlyCurrentInFlight, Worker
<1>3. QED BY <1>1, <1>2 DEF Held, JobsInv

\* The conjunction of all of it is an invariant, under every fault.
THEOREM ControlHolds == Spec => []Control
<1>1. Control <=> TypeOK /\ RetryBudget /\ Held
  BY PerJob DEF Control, Held, JobsInv
<1>2. QED BY <1>1, HeldInit, HeldStep, TypeCorrect, RetryBudgetHolds, PTL DEF Spec

\* The attempt table and the job table agree after any interruption: claims, failures,
\* completions and both recoveries keep exactly the newest attempt open while the job
\* is in flight.
THEOREM AttemptLedgerHolds == Spec => []AttemptLedger
<1>1. Control => AttemptLedger
  BY DEF Control
<1>2. QED BY <1>1, ControlHolds, PTL

\* A run past its recovery has no job in flight but its own: recover_pending_uploads and
\* recover_stale_fetches between them miss none.
THEOREM OnlyCurrentInFlightHolds == Spec => []OnlyCurrentInFlight
<1>1. Control => OnlyCurrentInFlight
  BY DEF Control
<1>2. QED BY <1>1, ControlHolds, PTL

Rewrite(j, n) ==
    attempt[j][n].status \in ClosedAttempt /\ attempt'[j][n] # attempt[j][n] =>
      /\ cur = j /\ n = job[j].count
      /\ attempt[j][n].status = "success" /\ attempt'[j][n].status = "storage_error"
      /\ attempt'[j][n].sha = attempt[j][n].sha
      /\ job[j].status = "raw_ready"
      /\ job'[j].status \in {"retryable_error", "permanent_error"}
      /\ raw'[j] = raw[j] /\ raw[j].sha = attempt[j][n].sha

LEMMA RewriteUnanswered ==
  ASSUME Tables, Held, FailUnanswered
  PROVE  \A j \in Jobs : \A n \in AttemptNumber : Rewrite(j, n)
<1>1. /\ cur \in Jobs /\ job[cur].count \in AttemptNumber
      /\ job[cur].status = "raw_ready"
      /\ attempt[cur][job[cur].count].status = "success"
      /\ raw[cur].sha = attempt[cur][job[cur].count].sha
  BY DEF Held, Worker, FailUnanswered
<1>2. /\ FailAttempt("storage_error", TRUE)
      /\ SetAttempt(cur, job[cur].count, "storage_error")
      /\ raw' = raw
  BY DEF FailUnanswered, FailAttempt
<1>3. job'[cur].status \in {"retryable_error", "permanent_error"}
  <2> DEFINE after == StatusAfterFailure(cur, "storage_error", TRUE)
  <2>1. after \in {"retryable_error", "permanent_error"}
    BY DEF StatusAfterFailure
  <2>2. job' = [job EXCEPT ![cur].status = after, ![cur].due = (after = "permanent_error")]
    BY <1>2 DEF FailAttempt
  <2> HIDE DEF after
  <2>3. QED BY <1>1, <2>1, <2>2 DEF Tables, JobTable, JobRow
<1>4. /\ \A k \in Jobs : k # cur => attempt'[k] = attempt[k]
      /\ \A m \in AttemptNumber : m # job[cur].count => attempt'[cur][m] = attempt[cur][m]
      /\ attempt'[cur][job[cur].count].status = "storage_error"
      /\ attempt'[cur][job[cur].count].sha = attempt[cur][job[cur].count].sha
  BY <1>1, <1>2, SetAttemptEffect DEF Tables
<1>5. QED BY <1>1, <1>2, <1>3, <1>4 DEF Rewrite

LEMMA ClosedStep ==
  ASSUME Control, [Next]_vars, ~FailUnanswered
  PROVE  \A j \in Jobs : \A n \in AttemptNumber :
           attempt[j][n].status \in ClosedAttempt => attempt'[j][n] = attempt[j][n]
<1> DEFINE Kept(j, n) == attempt[j][n].status \in ClosedAttempt => attempt'[j][n] = attempt[j][n]
<1>1. Tables /\ RunState /\ Held
  BY PerJob DEF Control, TypeOK, Held, JobsInv
<1>2. OpenAttempt \cap ClosedAttempt = {} /\ "none" \notin ClosedAttempt
  BY DEF OpenAttempt, ClosedAttempt
<1>3. ASSUME NEW j \in Jobs, NEW n \in AttemptNumber, NEW s, SetAttempt(j, n, s),
             attempt[j][n].status \notin ClosedAttempt
      PROVE  \A k \in Jobs : \A m \in AttemptNumber : Kept(k, m)
  BY <1>1, <1>3, SetAttemptEffect DEF Tables
<1>4. CASE pc \in {"fetch", "validate", "upload", "stored"}
           /\ \E s : SetAttempt(cur, job[cur].count, s)
  <2>1. /\ cur \in Jobs
        /\ job[cur].count \in AttemptNumber
        /\ attempt[cur][job[cur].count].status \in OpenAttempt
    BY <1>1, <1>4, CurrentOpen DEF Held, OpenAttempt
  <2>2. QED BY <1>2, <1>3, <1>4, <2>1
<1>5. CASE \/ FetchFails \/ PageGone \/ RejectPage \/ PutFails
           \/ CompleteUpload \/ CompleteFails \/ CompleteUnanswered
  BY <1>4, <1>5
     DEF FetchFails, PageGone, RejectPage, PutFails, CompleteUpload, CompleteFails,
         CompleteUnanswered, FailAttempt, Complete
<1>6. CASE RecoverUpload
  <2>1. PICK u \in uploads : \E s : SetAttempt(u[1], u[2], s)
    BY <1>6 DEF RecoverUpload, Complete, FailRecoveredUpload
  <2>2. /\ u[1] \in Jobs /\ u[2] \in AttemptNumber
        /\ attempt[u[1]][u[2]].status = "uploading"
    BY <1>1, <1>6 DEF Held, Worker, RecoverUpload, PendingUploads
  <2>3. attempt[u[1]][u[2]].status \notin ClosedAttempt
    BY <2>2 DEF ClosedAttempt
  <2>4. QED BY <1>3, <2>1, <2>2, <2>3
<1>7. CASE RecoverStaleFetches
  BY <1>7 DEF RecoverStaleFetches, Unfinished, ClosedAttempt
<1>8. CASE ClaimNextJob
  <2>1. PICK j \in Jobs : Claimable(j) /\ SetAttempt(j, job[j].count + 1, "fetching")
    BY <1>8 DEF ClaimNextJob
  <2>2. /\ job[j].count + 1 \in AttemptNumber
        /\ attempt[j][job[j].count + 1].status = "none"
    <3>1. job[j] \in JobRow /\ JobInv(j)
      BY <1>1 DEF Tables, JobTable, Held, JobsInv
    <3>2. job[j].count + 1 <= job[j].base + MaxAttempts
      BY <2>1, <3>1, LimitsAssumption DEF Claimable, JobRow
    <3>3. job[j].count + 1 \in AttemptNumber
      BY <3>1, <3>2, LimitsAssumption DEF JobInv, RoomFor, JobRow, AttemptNumber
    <3>4. QED BY <3>1, <3>3 DEF JobInv, Ledger, JobRow
  <2>3. QED BY <1>2, <1>3, <2>1, <2>2
<1>9. CASE MarkUploading
  <2>1. /\ cur \in Jobs
        /\ job[cur].count \in AttemptNumber
        /\ attempt[cur][job[cur].count].status = "fetching"
    BY <1>1, <1>9, CurrentOpen DEF Held, MarkUploading
  <2>2. attempt' = [attempt EXCEPT ![cur][job[cur].count] = UploadRecord(page)]
    BY <1>9 DEF MarkUploading
  <2>3. QED BY <1>1, <2>1, <2>2 DEF Tables, AttemptTable, ClosedAttempt
<1>10. CASE UNCHANGED attempt
  BY <1>10
<1>11. ASSUME NEW S, UpsertDiscoveredJobs(S)
       PROVE  UNCHANGED attempt
  BY <1>11 DEF UpsertDiscoveredJobs
<1>12. ASSUME NEW j, \/ ParseRaw(j) \/ PurgeRaw(j) \/ PurgeInterrupted(j)
                    \/ RetryDue(j) \/ LoseObject(j) \/ ChangeObject(j)
       PROVE  UNCHANGED attempt
  BY <1>12 DEF ParseRaw, PurgeRaw, PurgeInterrupted, RetryDue, LoseObject, ChangeObject
<1>13. CASE \/ \E p \in {"full", "discovery", "detail"} : StartRun(p)
            \/ AuditRawObject \/ FinishRecovery \/ EndDiscovery \/ EndDetails
            \/ FetchPage \/ PutObject \/ AbortRun \/ UNCHANGED vars
  BY <1>10, <1>13
     DEF StartRun, AuditRawObject, FinishRecovery, EndDiscovery, EndDetails, FetchPage,
         PutObject, AbortRun, vars, stored, rows
<1>14. QED
  BY <1>5, <1>6, <1>7, <1>8, <1>9, <1>10, <1>11, <1>12, <1>13
     DEF Next, Recovery, Discovery, Detail

LEMMA HistoryStep ==
  ASSUME Control, [Next]_vars
  PROVE  \A j \in Jobs : \A n \in AttemptNumber : Rewrite(j, n)
<1>1. Tables /\ Held
  BY PerJob DEF Control, TypeOK, Held, JobsInv
<1>2. CASE FailUnanswered
  BY <1>1, <1>2, RewriteUnanswered
<1>3. CASE ~FailUnanswered
  BY <1>3, ClosedStep DEF Rewrite
<1>4. QED BY <1>2, <1>3

\* A closed attempt is not rewritten by a recovery, a later run or a run that goes on.
\* The exception is stated with its limits: the run whose complete_upload committed
\* unanswered turns its own success into storage_error (fail_attempt has no guard on the
\* status), takes the job out of raw_ready with it, and the raw row keeps the attempt's hash.
THEOREM ClosedAttemptsHold == Spec => ClosedAttemptsAreHistory
<1> DEFINE History == \A j \in Jobs : \A n \in AttemptNumber : Rewrite(j, n)
<1>1. Control /\ [Next]_vars => [History]_vars
  BY HistoryStep
<1>2. QED BY <1>1, ControlHolds, PTL DEF Spec, ClosedAttemptsAreHistory, Rewrite

=============================================================================
