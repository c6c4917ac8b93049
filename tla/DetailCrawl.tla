---------------------------- MODULE DetailCrawl ----------------------------
(***************************************************************************)
(* The life of the raw HTML of one source's job pages, as the state store  *)
(* (postgres_state.py), the pipeline (pipeline.py), the MinIO store        *)
(* (storage.py) and the raw cleanup (raw_cleanup.py) drive it:             *)
(*                                                                         *)
(*   discovery lists a job -> a detail run claims it, fetches, validates,  *)
(*   uploads and records it -> parse reads it -> cleanup purges it ->      *)
(*   discovery lists it again and it is fetched afresh.                    *)
(*                                                                         *)
(* Every database transaction and every storage call is a step of its own, *)
(* and a run may die between any two of them.  The source lock is taken    *)
(* as given here: one run, parse or cleanup at a time (SourceLock).        *)
(*                                                                         *)
(* Abstractions: a page body is a member of Contents and stands for its    *)
(* own SHA-256; the object key is fixed per job; time is the bit "due"     *)
(* (next_retry_at has passed).                                             *)
(***************************************************************************)
EXTENDS Integers, FiniteSets

CONSTANTS
    Jobs,         \* job ids, in claim order (first_seen_at, id)
    Contents,     \* page bodies a site may serve
    Size,         \* their length in bytes
    None,         \* no body, no object, no row
    MaxAttempts,  \* state.detail_max_attempts
    MaxJobs,      \* detail.max_jobs_per_run
    ErrorLimit,   \* detail.max_consecutive_errors
    MaxFetches,   \* BOUND: attempts recorded per job over all generations
    Faults        \* environment faults that may happen

ASSUME JobsAssumption == Jobs \subseteq Nat /\ None \notin Jobs
ASSUME ContentsAssumption == None \notin Contents /\ Size \in [Contents -> Nat]
ASSUME LimitsAssumption ==
    /\ MaxAttempts \in Nat \ {0}
    /\ MaxJobs \in Nat \ {0}
    /\ ErrorLimit \in Nat \ {0}
    /\ MaxFetches \in Nat
    /\ MaxFetches >= MaxAttempts
ASSUME FaultsAssumption ==
    Faults \subseteq {"lost_ack", "object_lost", "object_changed", "cleanup_killed"}

VARIABLES
    job,      \* crawl_state.jobs
    attempt,  \* crawl_state.fetch_attempts, by attempt_number
    raw,      \* crawl_state.raw_objects
    parsed,   \* parse attempts of the raw generation, and the current result
    object,   \* the bucket: the body stored at each job's fixed key
    pc, phase,  \* the run that holds the source lock: its next step and its phase
    cur, page,  \* the job it claimed and the body it fetched
    uploads,    \* uploads it still has to recover: pairs of job and attempt number
    checks,     \* jobs whose raw it still has to audit
    seen,       \* jobs it has discovered (last_seen_run_id)
    processed, streak  \* jobs it has claimed; how many failed in a row

rows == <<job, attempt, raw, parsed>>
stored == <<rows, object>>
work == <<cur, page>>
todo == <<uploads, checks>>
tally == <<seen, processed, streak>>
run == <<pc, phase, work, todo, tally>>
vars == <<stored, run>>

JobStatus == {"none", "pending", "fetching", "validating", "uploading",
              "raw_ready", "retryable_error", "blocked", "permanent_error",
              "storage_missing", "storage_corrupt"}
OpenAttempt == {"fetching", "uploading"}
ClosedAttempt == {"invalid_response", "fetch_error", "blocked",
                  "storage_error", "success"}
Integrity == {"none", "valid", "missing", "size_mismatch", "hash_mismatch"}
Body == Contents \cup {None}
AttemptNumber == 1 .. MaxFetches

JobRow == [status : JobStatus, count : Nat, base : Nat, due : BOOLEAN]
AttemptRow == [status : {"none"} \cup OpenAttempt \cup ClosedAttempt, sha : Body]
RawRow == [sha : Body, integrity : Integrity, purged : BOOLEAN]
ParsedRow == [verdict : {"open", "done", "rejected"}, current : Body]
JobTable == [Jobs -> JobRow]
AttemptTable == [Jobs -> [AttemptNumber -> AttemptRow]]
RawTable == [Jobs -> RawRow]
ParsedTable == [Jobs -> ParsedRow]

Init ==
    /\ job = [j \in Jobs |-> [status |-> "none", count |-> 0, base |-> 0, due |-> TRUE]]
    /\ attempt = [j \in Jobs |-> [n \in AttemptNumber |-> [status |-> "none", sha |-> None]]]
    /\ raw = [j \in Jobs |-> [sha |-> None, integrity |-> "none", purged |-> FALSE]]
    /\ parsed = [j \in Jobs |-> [verdict |-> "open", current |-> None]]
    /\ object = [j \in Jobs |-> None]
    /\ pc = "idle" /\ phase = "none"
    /\ cur = None /\ page = None
    /\ uploads = {} /\ checks = {}
    /\ seen = {} /\ processed = 0 /\ streak = 0

-----------------------------------------------------------------------------
(* What the transactions do to the rows.  A definition with a suffix after  *)
(* an underscore is the one below it with a plausible bug; only the mutants *)
(* in PROJECT.json use it.                                                  *)

SetAttempt(j, n, s) == attempt' = [attempt EXCEPT ![j][n].status = s]

StoreRaw_KeepsOldHash(j, c) ==
    IF raw[j].sha # None /\ ~raw[j].purged
      THEN UNCHANGED <<raw, parsed>>
      ELSE /\ raw' = [raw EXCEPT ![j] = [sha |-> c, integrity |-> "valid", purged |-> FALSE]]
           /\ parsed' = [parsed EXCEPT ![j].verdict = "open"]

\* INSERT ... ON CONFLICT (job_id) DO UPDATE ... WHERE purged_at IS NOT NULL OR
\* the hash differs: a conflicting row with the same hash is left untouched.
\* A replaced row starts a raw generation: refreshed_at moves, so earlier parse
\* attempts no longer count.
StoreRaw(j, c) ==
    IF raw[j].sha = c /\ ~raw[j].purged
      THEN UNCHANGED <<raw, parsed>>
      ELSE /\ raw' = [raw EXCEPT ![j] = [sha |-> c, integrity |-> "valid", purged |-> FALSE]]
           /\ parsed' = [parsed EXCEPT ![j].verdict = "open"]

\* The object is in place and its attempt succeeds.
Complete(j, n, c) ==
    /\ StoreRaw(j, c)
    /\ SetAttempt(j, n, "success")
    /\ job' = [job EXCEPT ![j].status = "raw_ready", ![j].due = TRUE]

StatusAfterFailure(j, s, retryable) ==
    IF s = "blocked" THEN "blocked"
    ELSE IF ~retryable \/ job[j].count - job[j].base >= MaxAttempts
           THEN "permanent_error"
           ELSE "retryable_error"

\* The attempt that claimed the current job ends with status s.
FailAttempt(s, retryable) ==
    LET j == cur
        after == StatusAfterFailure(j, s, retryable)
    IN  /\ SetAttempt(j, job[j].count, s)
        /\ job' = [job EXCEPT ![j].status = after,
                              ![j].due = (after = "permanent_error")]

\* Memory and lock are gone.
EndRun ==
    /\ pc' = "idle" /\ phase' = "none"
    /\ cur' = None /\ page' = None
    /\ uploads' = {} /\ checks' = {}
    /\ seen' = {} /\ processed' = 0 /\ streak' = 0

NextJob(n) ==
    /\ pc' = "select" /\ cur' = None /\ page' = None /\ streak' = n
    /\ UNCHANGED <<phase, todo, seen, processed>>

\* A failed page counts against the run; too many in a row, or a block, end it.
NextAfterError(s) ==
    IF s = "blocked" \/ streak + 1 >= ErrorLimit THEN EndRun ELSE NextJob(streak + 1)

-----------------------------------------------------------------------------
(* Start-up: interrupted uploads, stale fetches, integrity audit.          *)

PendingUploads ==
    {u \in Jobs \X AttemptNumber : attempt[u[1]][u[2]].status = "uploading"}

StartRun(p) ==
    /\ pc = "idle" /\ pc' = "recover"
    /\ phase' = p
    /\ uploads' = PendingUploads
    /\ UNCHANGED <<stored, work, checks, tally>>

\* stat_object reports the size only; the hash it returns is the expected one.
SizeMatches(j, c) == object[j] # None /\ Size[object[j]] = Size[c]

FailRecoveredUpload_JobOnly(j, n) ==
    /\ job' = [job EXCEPT ![j].status = "retryable_error", ![j].due = FALSE]
    /\ UNCHANGED <<attempt, raw, parsed>>

FailRecoveredUpload(j, n) ==
    /\ SetAttempt(j, n, "storage_error")
    /\ job' = [job EXCEPT ![j].status = "retryable_error", ![j].due = FALSE]
    /\ UNCHANGED <<raw, parsed>>

RecoverUpload ==
    /\ pc = "recover"
    /\ \E u \in uploads :
         LET j == u[1]
             n == u[2]
         IN  /\ uploads' = uploads \ {u}
             /\ IF SizeMatches(j, attempt[j][n].sha)
                  THEN Complete(j, n, attempt[j][n].sha)
                  ELSE FailRecoveredUpload(j, n)
    /\ UNCHANGED <<object, pc, phase, work, checks, tally>>

StaleJobs_OnlyFetching == {j \in Jobs : job[j].status = "fetching"}

StaleJobs == {j \in Jobs : job[j].status \in {"fetching", "validating"}}

Unfinished_WholeHistory(j, n) == j \in StaleJobs /\ n <= job[j].count

Unfinished(j, n) == attempt[j][n].status = "fetching"

\* One transaction closes every attempt left fetching and requeues its job; the
\* audit then loads some unpurged rows (limit, least recently checked first).
RecoverStaleFetches ==
    /\ pc = "recover" /\ pc' = "audit"
    /\ uploads = {}
    /\ attempt' = [j \in Jobs |-> [n \in AttemptNumber |->
                     IF Unfinished(j, n)
                       THEN [attempt[j][n] EXCEPT !.status = "fetch_error"]
                       ELSE attempt[j][n]]]
    /\ job' = [j \in Jobs |->
                 IF j \in StaleJobs
                   THEN [job[j] EXCEPT !.status = "retryable_error", !.due = TRUE]
                   ELSE job[j]]
    /\ checks' \in SUBSET {j \in Jobs : raw[j].sha # None /\ ~raw[j].purged}
    /\ UNCHANGED <<raw, parsed, object, phase, work, uploads, tally>>

AuditVerdict(j) ==
    IF object[j] = None THEN "missing"
    ELSE IF Size[object[j]] # Size[raw[j].sha] THEN "size_mismatch"
    ELSE "valid"

StatusForIntegrity(i) ==
    CASE i = "valid" -> "raw_ready"
      [] i = "missing" -> "storage_missing"
      [] OTHER -> "storage_corrupt"

\* update_raw_integrity writes both rows whatever they said before.
AuditRawObject ==
    /\ pc = "audit"
    /\ \E j \in checks :
         /\ raw' = [raw EXCEPT ![j].integrity = AuditVerdict(j)]
         /\ job' = [job EXCEPT ![j].status = StatusForIntegrity(AuditVerdict(j))]
         /\ checks' = checks \ {j}
    /\ UNCHANGED <<attempt, parsed, object, pc, phase, work, uploads, tally>>

FinishRecovery ==
    /\ pc = "audit"
    /\ checks = {}
    /\ pc' = IF phase = "detail" THEN "select" ELSE "discover"
    /\ UNCHANGED <<stored, phase, work, todo, tally>>

-----------------------------------------------------------------------------
(* Discovery: a listing page upserts its jobs; purged ones are requeued.   *)

Requeued(j) ==
    raw[j].sha # None /\ raw[j].purged /\ job[j].status = "storage_missing"

UpsertDiscoveredJobs(S) ==
    /\ pc = "discover"
    /\ seen' = seen \cup S
    /\ job' = [j \in Jobs |->
                 CASE j \in S /\ job[j].status = "none" ->
                        [job[j] EXCEPT !.status = "pending"]
                   [] j \in seen \cup S /\ Requeued(j) ->
                        [job[j] EXCEPT !.status = "pending", !.base = job[j].count,
                                       !.due = TRUE]
                   [] OTHER -> job[j]]
    /\ UNCHANGED <<attempt, raw, parsed, object, pc, phase, work, todo, processed, streak>>

\* A discovery run ends here; a full run goes on to details unless a block or an
\* error stopped it.
EndDiscovery ==
    /\ pc = "discover"
    /\ \/ EndRun
       \/ /\ phase = "full"
          /\ pc' = "select"
          /\ UNCHANGED <<phase, work, todo, tally>>
    /\ UNCHANGED stored

-----------------------------------------------------------------------------
(* Detail: claim, fetch, validate, upload, record.                         *)

Claimable_OneMore(j) ==
    /\ job[j].status \in {"pending", "retryable_error", "blocked"}
    /\ job[j].count - job[j].base <= MaxAttempts
    /\ job[j].due

Claimable(j) ==
    /\ job[j].status \in {"pending", "retryable_error", "blocked"}
    /\ job[j].count - job[j].base < MaxAttempts
    /\ job[j].due

ClaimNextJob ==
    /\ pc = "select" /\ pc' = "fetch"
    /\ processed < MaxJobs /\ processed' = processed + 1
    /\ \E j \in Jobs :
         /\ Claimable(j)
         /\ \A k \in Jobs : Claimable(k) => j <= k
         /\ job' = [job EXCEPT ![j].status = "fetching", ![j].count = @ + 1, ![j].due = TRUE]
         /\ SetAttempt(j, job[j].count + 1, "fetching")
         /\ cur' = j
    /\ UNCHANGED <<raw, parsed, object, phase, page, todo, seen, streak>>

EndDetails ==
    /\ pc = "select"
    /\ \/ processed = MaxJobs
       \/ \A j \in Jobs : ~Claimable(j)
    /\ EndRun
    /\ UNCHANGED stored

\* The page arrives and mark_validating commits.
FetchPage ==
    /\ pc = "fetch" /\ pc' = "validate"
    /\ page' \in Contents
    /\ job' = [job EXCEPT ![cur].status = "validating"]
    /\ UNCHANGED <<attempt, raw, parsed, object, phase, cur, todo, tally>>

\* A block, an HTTP or transport error, or a failure of mark_validating.
FetchFails ==
    /\ pc = "fetch"
    /\ \E s \in {"blocked", "fetch_error", "storage_error"} :
         FailAttempt(s, TRUE) /\ NextAfterError(s)
    /\ UNCHANGED <<raw, parsed, object>>

\* HTTP 410 is final, and is not an error of the run.
PageGone ==
    /\ pc = "fetch"
    /\ FailAttempt("fetch_error", FALSE)
    /\ NextJob(0)
    /\ UNCHANGED <<raw, parsed, object>>

\* The page is rejected, or validating, preparing or mark_uploading raised.
RejectPage ==
    /\ pc = "validate"
    /\ \E s \in {"invalid_response", "storage_error"} :
         FailAttempt(s, TRUE) /\ NextAfterError(s)
    /\ UNCHANGED <<raw, parsed, object>>

UploadRecord_NoHash(c) == [status |-> "uploading", sha |-> None]

UploadRecord(c) == [status |-> "uploading", sha |-> c]

MarkUploading ==
    /\ pc = "validate" /\ pc' = "upload"
    /\ attempt' = [attempt EXCEPT ![cur][job[cur].count] = UploadRecord(page)]
    /\ job' = [job EXCEPT ![cur].status = "uploading"]
    /\ UNCHANGED <<raw, parsed, object, phase, work, todo, tally>>

PutObject ==
    /\ pc = "upload" /\ pc' = "stored"
    /\ object' = [object EXCEPT ![cur] = page]
    /\ UNCHANGED <<rows, phase, work, todo, tally>>

\* put_object or the stat behind it raised: the body may have been written.
PutFails ==
    /\ pc = "upload"
    /\ \E c \in {object[cur], page} : object' = [object EXCEPT ![cur] = c]
    /\ FailAttempt("storage_error", TRUE)
    /\ NextAfterError("storage_error")
    /\ UNCHANGED <<raw, parsed>>

CompleteUpload ==
    /\ pc = "stored"
    /\ Complete(cur, job[cur].count, page)
    /\ NextJob(0)
    /\ UNCHANGED object

\* complete_upload raised and its transaction was rolled back: the attempt is failed.
CompleteFails ==
    /\ pc = "stored"
    /\ FailAttempt("storage_error", TRUE)
    /\ NextAfterError("storage_error")
    /\ UNCHANGED <<raw, parsed, object>>

\* complete_upload raised although its transaction has committed: only the answer was
\* lost.  (What the other transactions commit without an answer is what they commit with
\* one, followed by a failure of the step after them or by the end of the run.)
CompleteUnanswered ==
    /\ "lost_ack" \in Faults
    /\ pc = "stored" /\ pc' = "unanswered"
    /\ Complete(cur, job[cur].count, page)
    /\ UNCHANGED <<object, phase, work, todo, tally>>

FailUnanswered_AttemptOnly ==
    /\ pc = "unanswered"
    /\ SetAttempt(cur, job[cur].count, "storage_error")
    /\ NextAfterError("storage_error")
    /\ UNCHANGED <<job, raw, parsed, object>>

\* The except branch then fails the attempt, whatever its row says by now.
FailUnanswered ==
    /\ pc = "unanswered"
    /\ FailAttempt("storage_error", TRUE)
    /\ NextAfterError("storage_error")
    /\ UNCHANGED <<raw, parsed, object>>

\* The process dies, or an exception escapes the run: memory and lock are gone.
AbortRun ==
    /\ pc # "idle"
    /\ EndRun
    /\ UNCHANGED stored

-----------------------------------------------------------------------------
(* The other holders of the source lock, and the environment.              *)

\* The parse phase reads the whole object and checks size and hash.  Accepted
\* and rejected pages and raw errors are final for the generation; a transient
\* parse error leaves it open and changes nothing here.  A body that came back may
\* have a result already: that one is found and is not made current again.
ResultFound(j) ==
    /\ parsed[j].current # None
    /\ \E m, n \in AttemptNumber : m # n /\ {attempt[j][m].sha, attempt[j][n].sha} = {raw[j].sha}

ParseRaw(j) ==
    /\ pc = "idle"
    /\ job[j].status = "raw_ready"
    /\ raw[j].integrity = "valid"
    /\ parsed[j].verdict = "open"
    /\ IF object[j] = raw[j].sha
         THEN /\ \/ parsed' = [parsed EXCEPT ![j] = [verdict |-> "done", current |-> raw[j].sha]]
                 \/ ResultFound(j) /\ parsed' = [parsed EXCEPT ![j].verdict = "done"]
                 \/ parsed' = [parsed EXCEPT ![j].verdict = "rejected"]
              /\ UNCHANGED <<job, raw>>
         ELSE LET i == IF object[j] = None THEN "missing"
                       ELSE IF Size[object[j]] # Size[raw[j].sha] THEN "size_mismatch"
                       ELSE "hash_mismatch"
              IN  /\ parsed' = [parsed EXCEPT ![j].verdict = "rejected"]
                  /\ raw' = [raw EXCEPT ![j].integrity = i]
                  /\ job' = [job EXCEPT ![j].status = StatusForIntegrity(i)]
    /\ UNCHANGED <<attempt, object, run>>

CleanupCandidate_AnyResult(j) ==
    /\ pc = "idle"
    /\ raw[j].sha # None
    /\ ~raw[j].purged
    /\ job[j].status \in {"raw_ready", "storage_missing"}
    /\ parsed[j].current # None
    /\ job[j].count + MaxAttempts <= MaxFetches

\* Retention (listing expired or long unknown) is the environment's choice here;
\* the rest of the candidate query is the guard.
CleanupCandidate(j) ==
    /\ pc = "idle"
    /\ raw[j].sha # None
    /\ ~raw[j].purged
    /\ job[j].status \in {"raw_ready", "storage_missing"}
    /\ parsed[j].current = raw[j].sha
    /\ job[j].count + MaxAttempts <= MaxFetches  \* room for another generation

\* The object is verified by hash and removed, or already missing; then one
\* transaction sets the purge marker.  A changed object is skipped.
PurgeRaw(j) ==
    /\ CleanupCandidate(j)
    /\ object[j] \in {raw[j].sha, None}
    /\ object' = [object EXCEPT ![j] = None]
    /\ raw' = [raw EXCEPT ![j].purged = TRUE]
    /\ job' = [job EXCEPT ![j].status = "storage_missing"]
    /\ UNCHANGED <<attempt, parsed, run>>

\* Cleanup is killed after remove_object and before the marker.
PurgeInterrupted(j) ==
    /\ "cleanup_killed" \in Faults
    /\ CleanupCandidate(j)
    /\ object[j] = raw[j].sha
    /\ object' = [object EXCEPT ![j] = None]
    /\ UNCHANGED <<job, attempt, raw, parsed, run>>

RetryDue(j) ==
    /\ ~job[j].due
    /\ job' = [job EXCEPT ![j].due = TRUE]
    /\ UNCHANGED <<attempt, raw, parsed, object, run>>

LoseObject(j) ==
    /\ "object_lost" \in Faults
    /\ object[j] # None
    /\ object' = [object EXCEPT ![j] = None]
    /\ UNCHANGED <<job, attempt, raw, parsed, run>>

ChangeObject(j) ==
    /\ "object_changed" \in Faults
    /\ object[j] # None
    /\ \E c \in Contents \ {object[j]} : object' = [object EXCEPT ![j] = c]
    /\ UNCHANGED <<job, attempt, raw, parsed, run>>

-----------------------------------------------------------------------------

Recovery == RecoverUpload \/ RecoverStaleFetches \/ AuditRawObject \/ FinishRecovery

Discovery ==
    \/ \E S \in SUBSET Jobs \ {{}} : UpsertDiscoveredJobs(S)
    \/ EndDiscovery

Detail ==
    \/ ClaimNextJob \/ EndDetails
    \/ FetchPage \/ FetchFails \/ PageGone
    \/ RejectPage \/ MarkUploading
    \/ PutObject \/ PutFails
    \/ CompleteUpload \/ CompleteFails
    \/ CompleteUnanswered \/ FailUnanswered

Next ==
    \/ \E p \in {"full", "discovery", "detail"} : StartRun(p)
    \/ Recovery \/ Discovery \/ Detail \/ AbortRun
    \/ \E j \in Jobs : \/ ParseRaw(j) \/ PurgeRaw(j) \/ PurgeInterrupted(j)
                       \/ RetryDue(j) \/ LoseObject(j) \/ ChangeObject(j)

Spec == Init /\ [][Next]_vars

\* The scheduler starts a detail run again and again, a run that is not killed
\* makes its next step, retry delays elapse, and kills are finitely many (a kill
\* where the run might end of itself changes nothing, and may recur).
Fairness ==
    /\ SF_vars(StartRun("detail"))
    /\ WF_vars(Recovery) /\ WF_vars(EndDiscovery) /\ WF_vars(Detail)
    /\ \A j \in Jobs : WF_vars(RetryDue(j))
    /\ <>[][AbortRun => EndDetails \/ EndDiscovery]_vars

FairSpec == Spec /\ Fairness

-----------------------------------------------------------------------------
(* Properties.                                                             *)

Tables ==
    /\ job \in JobTable
    /\ attempt \in AttemptTable
    /\ raw \in RawTable
    /\ parsed \in ParsedTable
    /\ object \in [Jobs -> Body]

RunState ==
    /\ pc \in {"idle", "recover", "audit", "discover", "select", "fetch", "validate",
              "upload", "stored", "unanswered"}
    /\ phase \in {"none", "full", "discovery", "detail"}
    /\ cur \in Jobs \cup {None} /\ page \in Body
    /\ uploads \subseteq Jobs \X AttemptNumber
    /\ checks \subseteq Jobs /\ seen \subseteq Jobs
    /\ processed \in Nat /\ streak \in Nat

TypeOK == Tables /\ RunState

\* The attempt table and the job table agree whatever was interrupted: attempts
\* are numbered without gaps up to fetch_attempt_count, only the newest can be
\* open, and it is open exactly while the job is in flight.
AttemptLedger ==
    \A j \in Jobs :
      /\ \A n \in AttemptNumber :
           /\ (attempt[j][n].status # "none") <=> (n <= job[j].count)
           /\ attempt[j][n].status \in OpenAttempt => n = job[j].count
      /\ job[j].status \in {"fetching", "validating"} <=>
           \E n \in AttemptNumber : attempt[j][n].status = "fetching"
      /\ job[j].status = "uploading" <=>
           \E n \in AttemptNumber : attempt[j][n].status = "uploading"

\* No job is fetched more than detail_max_attempts times per raw generation,
\* counting attempts that a killed process never finished.
RetryBudget ==
    \A j \in Jobs :
      /\ job[j].base <= job[j].count
      /\ job[j].count <= job[j].base + MaxAttempts

\* Past its recovery, a run leaves nothing half-done behind: the only job in
\* flight is the one it is working on.
OnlyCurrentInFlight ==
    pc \notin {"idle", "recover"} =>
      \A j \in Jobs :
        job[j].status \in {"fetching", "validating", "uploading"} => j = cur

\* What the database calls ready and valid is what the bucket holds.
ReadyMatchesStore ==
    \A j \in Jobs :
      job[j].status = "raw_ready" /\ raw[j].integrity = "valid" =>
        /\ raw[j].sha # None
        /\ ~raw[j].purged
        /\ object[j] = raw[j].sha

\* The object behind a ready row is neither overwritten nor removed by a run;
\* only cleanup removes it, and only when the current parse result was made from
\* that very body.
ReadyObjectKept ==
    [][\A j \in Jobs :
         job[j].status = "raw_ready" /\ object'[j] # object[j] =>
           /\ object'[j] = None
           /\ object[j] = parsed[j].current]_vars

\* A closed attempt is history for every recovery and every later run.  One step may
\* rewrite it: the run that recorded a success without being answered fails that newest
\* attempt of the job it works on.  The job then leaves raw_ready with it, and the raw
\* row of that attempt stays (complete_upload, fail_attempt).
ClosedAttemptsAreHistory ==
    [][\A j \in Jobs : \A n \in AttemptNumber :
         attempt[j][n].status \in ClosedAttempt /\ attempt'[j][n] # attempt[j][n] =>
           /\ cur = j /\ n = job[j].count
           /\ attempt[j][n].status = "success" /\ attempt'[j][n].status = "storage_error"
           /\ attempt'[j][n].sha = attempt[j][n].sha
           /\ job[j].status = "raw_ready"
           /\ job'[j].status \in {"retryable_error", "permanent_error"}
           /\ raw'[j] = raw[j] /\ raw[j].sha = attempt[j][n].sha]_vars

\* What the acquisition side promises the parser, kept under every fault: the
\* body offered is the recorded one while the row is ready and valid, and the
\* accepted bodies are those an attempt recorded before uploading.
Shelf == INSTANCE RawShelf WITH
    accepted <- [j \in Jobs |-> {attempt[j][n].sha : n \in AttemptNumber} \ {None}],
    shelf <- [j \in Jobs |->
                IF job[j].status = "raw_ready" /\ raw[j].integrity = "valid"
                  THEN raw[j].sha ELSE None]

ShelfSpec == Shelf!Spec

\* The inductive invariant behind the safety properties (see DetailCrawl_proofs).

\* There is room in the attempt table for the current generation, and for the
\* next one of a purged job.
Room ==
    \A j \in Jobs :
      /\ job[j].base + MaxAttempts <= MaxFetches
      /\ Requeued(j) => job[j].count + MaxAttempts <= MaxFetches

\* What the run has in memory agrees with what it has committed.
Worker ==
    /\ pc \in {"idle", "recover", "audit", "discover", "select"} => cur = None
    /\ pc = "fetch" => cur \in Jobs /\ job[cur].status = "fetching"
    /\ pc = "validate" =>
         cur \in Jobs /\ job[cur].status = "validating" /\ page \in Contents
    /\ pc \in {"upload", "stored"} =>
         /\ cur \in Jobs
         /\ job[cur].status = "uploading"
         /\ page \in Contents
         /\ attempt[cur][job[cur].count].sha = page
    /\ pc = "unanswered" =>
         /\ cur \in Jobs
         /\ job[cur].status = "raw_ready" /\ job[cur].count \in AttemptNumber
         /\ attempt[cur][job[cur].count].status = "success"
         /\ raw[cur].sha = attempt[cur][job[cur].count].sha
    /\ pc = "recover" => uploads = PendingUploads
    /\ pc = "audit" => \A j \in checks : raw[j].sha # None /\ ~raw[j].purged

\* The hash is known from mark_uploading on, and a status about stored raw has a
\* row to be about.
Rows ==
    \A j \in Jobs :
      /\ \A n \in AttemptNumber :
           /\ attempt[j][n].status \in {"none", "fetching"} => attempt[j][n].sha = None
           /\ attempt[j][n].status = "uploading" => attempt[j][n].sha \in Contents
      /\ job[j].status \in {"raw_ready", "storage_corrupt", "storage_missing"} =>
           raw[j].sha # None
      /\ job[j].status \in {"raw_ready", "storage_corrupt"} => ~raw[j].purged

\* While the bucket is not tampered with, what was put is what is there.
Uploaded == pc = "stored" => object[cur] = page

Control == TypeOK /\ AttemptLedger /\ RetryBudget /\ Room /\ OnlyCurrentInFlight
             /\ Worker /\ Rows

\* Nothing more will be done for this job unless it is purged and listed again:
\* it has its raw and no run is about to fail it, or failed for good, or spent its
\* attempts.
Settled(j) ==
    \/ job[j].status = "raw_ready" /\ cur # j
    \/ job[j].status \in {"permanent_error", "storage_missing", "storage_corrupt"}
    \/ /\ job[j].status \in {"retryable_error", "blocked"}
       /\ job[j].count - job[j].base >= MaxAttempts

\* Every listed job settles: none is forgotten in flight by an interrupted run,
\* none is starved behind jobs that keep failing or blocking the run.
EveryJobSettles ==
    \A j \in Jobs : (job[j].status = "pending") ~> Settled(j)

-----------------------------------------------------------------------------
(* What the documentation says and this code does not keep: a run refutes it. *)

\* "A later detail run can recover an interrupted upload by checking the object,
\* or mark it retryable when missing/corrupt" (docs/architecture/storage-state.md):
\* an upload recovered as successful left the body it recorded.
RecoveredUploadIsStored ==
    [][\A j \in Jobs :
         pc = "recover" /\ job[j].status = "uploading" /\ job'[j].status = "raw_ready" =>
           object[j] = raw'[j].sha]_vars

=============================================================================
