---------------------------- MODULE SqliteState ----------------------------
(***************************************************************************)
(* The local deployment: the SQLite state store (state.py) with raw pages  *)
(* in a directory (LocalRawStorage), driven by the same pipeline and parse *)
(* service as the PostgreSQL one, but with no source lock: two processes   *)
(* may run phases of one source at once.  Transactions are serialised by   *)
(* SQLite (BEGIN IMMEDIATE for claims); everything between them is not.    *)
(*                                                                         *)
(* Differences from DetailCrawl that matter: a raw row is inserted once    *)
(* and never replaced (INSERT, and INSERT OR IGNORE in recovery), nothing  *)
(* is purged or requeued, and stat_object returns the hash of the file it  *)
(* finds, which a recovered upload then records.                           *)
(*                                                                         *)
(* Abstractions: a body stands for its own SHA-256; retry times and the    *)
(* age of a parse attempt are environment choices ("due", "old"); a run id *)
(* is the process while it runs; each process performs one transaction or  *)
(* one file operation per step and may die between any two.                *)
(***************************************************************************)
EXTENDS Integers, FiniteSets, Sequences

CONSTANTS
    Jobs,         \* job ids, in claim order
    Contents,     \* page bodies a site may serve
    Size,         \* their length in bytes
    Procs,        \* processes that run phases of the source
    Settings,     \* who is at work in a behaviour, and whether the directory loses pages
    None,
    MaxAttempts,  \* state.detail_max_attempts
    MaxParses     \* parse.max_attempts

ASSUME JobsAssumption == Jobs \subseteq Nat /\ None \notin Jobs \cup Contents \cup Procs
ASSUME ProcsAssumption == IsFiniteSet(Procs)
ASSUME SizeAssumption == Size \in [Contents -> Nat]
ASSUME LimitsAssumption == {MaxAttempts, MaxParses} \subseteq Nat \ {0}
ASSUME SettingsAssumption == Settings \subseteq [crew : SUBSET Procs, lossy : BOOLEAN]

VARIABLES
    job,      \* jobs: raw_status, fetch_attempt_count and whether next_retry_at has passed
    attempt,  \* fetch_attempts of each job, by attempt_number
    raw,      \* raw_objects: the recorded hash, or None, and integrity_status
    tries,    \* parse_attempts of each raw object, oldest first
    file,     \* the body in the job's file
    proc,     \* the processes
    setting   \* the setting of this behaviour

tables == <<job, attempt, raw, tries>>
vars == <<tables, file, proc, setting>>

Body == Contents \cup {None}
JobStatus == {"none", "pending", "fetching", "validating", "uploading", "raw_ready",
              "retryable_error", "blocked", "permanent_error", "storage_missing",
              "storage_corrupt"}
InFlight == {"fetching", "validating", "uploading"}
AttemptStatus == {"fetching", "uploading", "invalid_response", "fetch_error", "blocked",
                  "storage_error", "success"}
Final == {"success", "validation_error", "raw_missing", "raw_corrupt"}
TryStatus == {"parsing", "parse_error"} \cup Final
Integrity == {"none", "valid", "missing", "size_mismatch", "hash_mismatch"}

JobRow == [status : JobStatus, count : 0 .. MaxAttempts, due : BOOLEAN]
AttemptRow == [status : AttemptStatus, sha : Body]
RawRow == [sha : Body, integrity : Integrity]
TryRow == [run : Procs \cup {None}, status : TryStatus, old : BOOLEAN]
Pending == Jobs \X (1 .. MaxAttempts)
Process == [pc : {"off", "uploads", "stale", "audit", "audited", "discover", "select", "fetch",
                  "validate", "upload", "stored", "failed", "parse_recover", "parse_claim",
                  "read", "verdict"},
            todo : SUBSET Pending, checks : SUBSET Jobs,
            job : Jobs \cup {None}, n : Nat, body : Body]

Off == [pc |-> "off", todo |-> {}, checks |-> {}, job |-> None, n |-> 0, body |-> None]

Init ==
    /\ job = [j \in Jobs |-> [status |-> "none", count |-> 0, due |-> TRUE]]
    /\ attempt = [j \in Jobs |-> <<>>]
    /\ raw = [j \in Jobs |-> [sha |-> None, integrity |-> "none"]]
    /\ tries = [j \in Jobs |-> <<>>]
    /\ file = [j \in Jobs |-> None]
    /\ proc = [p \in Procs |-> Off]
    /\ setting \in Settings

-----------------------------------------------------------------------------
(* Helpers.  A definition with a suffix after an underscore is the one      *)
(* below it with a plausible bug; only the mutants in PROJECT.json use it.  *)

At(p, pc) == p \in setting.crew /\ proc[p].pc = pc
To(p, pc) == proc' = [proc EXCEPT ![p].pc = pc]
Next1(p, pc) == proc' = [proc EXCEPT ![p] = [Off EXCEPT !.pc = pc]]
SetAttempt(j, n, s) == attempt' = [attempt EXCEPT ![j][n].status = s]
SetJob(j, s, due) == job' = [job EXCEPT ![j].status = s, ![j].due = due]

\* The id of a run that is over belongs to nobody.
Forget(p) ==
    [j \in Jobs |-> [i \in DOMAIN tries[j] |->
        IF tries[j][i].run = p THEN [tries[j][i] EXCEPT !.run = None] ELSE tries[j][i]]]

-----------------------------------------------------------------------------
(* Recovery at the start of a crawl run.                                   *)

PendingUploads == {u \in Pending : u[2] \in DOMAIN attempt[u[1]]
                                   /\ attempt[u[1]][u[2]].status = "uploading"}

StartCrawl(p) ==
    /\ At(p, "off")
    /\ proc' = [proc EXCEPT ![p] = [Off EXCEPT !.pc = "uploads", !.todo = PendingUploads]]
    /\ UNCHANGED <<tables, file, setting>>

InsertRaw_Replace(j, c) == raw' = [raw EXCEPT ![j] = [sha |-> c, integrity |-> "valid"]]

\* INSERT OR IGNORE, with the hash of the file that was found.
InsertRaw(j, c) ==
    raw' = [raw EXCEPT ![j] = IF @.sha = None THEN [sha |-> c, integrity |-> "valid"] ELSE @]

\* stat_object looks at the file, then one transaction records what it found,
\* whatever became of the attempt in between.
StatUpload(p) ==
    /\ At(p, "uploads") /\ proc[p].job = None
    /\ \E u \in proc[p].todo :
         proc' = [proc EXCEPT ![p].todo = @ \ {u}, ![p].job = u[1], ![p].n = u[2],
                              ![p].body = file[u[1]]]
    /\ UNCHANGED <<tables, file, setting>>

Intact_Unchecked(p) == TRUE

Intact(p) ==
    LET me == proc[p]
    IN  me.body # None /\ Size[me.body] = Size[attempt[me.job][me.n].sha]

FailRecovered_JobOnly(j, n) ==
    /\ SetJob(j, "retryable_error", FALSE)
    /\ UNCHANGED attempt

FailRecovered(j, n) ==
    /\ SetJob(j, "retryable_error", FALSE)
    /\ SetAttempt(j, n, "storage_error")

RecoverUpload(p) ==
    /\ At(p, "uploads") /\ proc[p].job # None
    /\ LET j == proc[p].job
           n == proc[p].n
       IN  IF Intact(p)
             THEN /\ InsertRaw(j, proc[p].body)
                  /\ SetAttempt(j, n, "success")
                  /\ SetJob(j, "raw_ready", TRUE)
             ELSE /\ FailRecovered(j, n)
                  /\ UNCHANGED raw
    /\ proc' = [proc EXCEPT ![p].job = None, ![p].n = 0, ![p].body = None]
    /\ UNCHANGED <<tries, file, setting>>

Stale_OnlyFetching == {j \in Jobs : job[j].status = "fetching"}

Stale == {j \in Jobs : job[j].status \in {"fetching", "validating"}}

Interrupted(row) == IF row.status = "fetching" THEN [row EXCEPT !.status = "fetch_error"] ELSE row

\* Every fetch in flight is taken for stale, also one of a process that is alive.
RecoverStaleFetches(p) ==
    /\ At(p, "uploads") /\ proc[p].job = None /\ proc[p].todo = {}
    /\ attempt' = [j \in Jobs |-> [n \in DOMAIN attempt[j] |-> Interrupted(attempt[j][n])]]
    /\ job' = [j \in Jobs |-> IF j \in Stale
                 THEN [job[j] EXCEPT !.status = "retryable_error", !.due = TRUE] ELSE job[j]]
    /\ proc' = [proc EXCEPT ![p].pc = "audit", ![p].checks = {j \in Jobs : raw[j].sha # None}]
    /\ UNCHANGED <<raw, tries, file, setting>>

StatRaw(p) ==
    /\ At(p, "audit")
    /\ \E j \in proc[p].checks :
         proc' = [proc EXCEPT ![p].pc = "audited", ![p].job = j, ![p].body = file[j]]
    /\ UNCHANGED <<tables, file, setting>>

Audit(c, sha) ==
    IF c = None THEN "missing" ELSE IF Size[c] # Size[sha] THEN "size_mismatch" ELSE "valid"

StatusFor(i) ==
    CASE i = "valid" -> "raw_ready" [] i = "missing" -> "storage_missing"
      [] OTHER -> "storage_corrupt"

UpdateRawIntegrity(p) ==
    /\ At(p, "audited")
    /\ LET j == proc[p].job
           i == Audit(proc[p].body, raw[j].sha)
       IN  /\ raw' = [raw EXCEPT ![j].integrity = i]
           /\ job' = [job EXCEPT ![j].status = StatusFor(i)]
           /\ proc' = [proc EXCEPT ![p].pc = "audit", ![p].checks = @ \ {j},
                                   ![p].job = None, ![p].body = None]
    /\ UNCHANGED <<attempt, tries, file, setting>>

EndRecovery(p) ==
    /\ At(p, "audit") /\ proc[p].checks = {}
    /\ To(p, "discover")
    /\ UNCHANGED <<tables, file, setting>>

-----------------------------------------------------------------------------
(* Discovery and detail.                                                   *)

UpsertDiscoveredJobs(p) ==
    /\ At(p, "discover")
    /\ \E S \in SUBSET Jobs :
         job' = [j \in Jobs |-> IF j \in S /\ job[j].status = "none"
                                  THEN [job[j] EXCEPT !.status = "pending"] ELSE job[j]]
    /\ To(p, "select")
    /\ UNCHANGED <<attempt, raw, tries, file, setting>>

Claimable_OneMore(j) ==
    /\ job[j].status \in {"pending", "retryable_error", "blocked"}
    /\ job[j].count <= MaxAttempts
    /\ job[j].due

Claimable(j) ==
    /\ job[j].status \in {"pending", "retryable_error", "blocked"}
    /\ job[j].count < MaxAttempts
    /\ job[j].due

ClaimNextJob(p) ==
    /\ At(p, "select")
    /\ \E j \in Jobs :
         /\ Claimable(j) /\ \A k \in Jobs : Claimable(k) => j <= k
         /\ job' = [job EXCEPT ![j].status = "fetching", ![j].count = @ + 1, ![j].due = TRUE]
         /\ attempt' = [attempt EXCEPT ![j] = Append(@, [status |-> "fetching", sha |-> None])]
         /\ proc' = [proc EXCEPT ![p].pc = "fetch", ![p].job = j, ![p].n = job[j].count + 1]
    /\ UNCHANGED <<raw, tries, file, setting>>

\* Nothing is left, or the run has had its share of jobs or of errors.
EndCrawl(p) ==
    /\ At(p, "select")
    /\ Next1(p, "off")
    /\ UNCHANGED <<tables, file, setting>>

\* The page arrives and mark_validating commits, with no look at the old status.
FetchPage(p) ==
    /\ At(p, "fetch")
    /\ \E c \in Contents : proc' = [proc EXCEPT ![p].pc = "validate", ![p].body = c]
    /\ SetJob(proc[p].job, "validating", job[proc[p].job].due)
    /\ UNCHANGED <<attempt, raw, tries, file, setting>>

AfterFailure(n, s, retryable) ==
    IF s = "blocked" THEN s
    ELSE IF ~retryable \/ n >= MaxAttempts THEN "permanent_error" ELSE "retryable_error"

\* fail_attempt writes attempt and job, whatever they say by now; a block ends
\* the run.
FailAttempt(p, s, retryable) ==
    LET j == proc[p].job
        n == proc[p].n
        after == AfterFailure(n, s, retryable)
    IN  /\ SetAttempt(j, n, s)
        /\ SetJob(j, after, after = "permanent_error")
        /\ Next1(p, IF s = "blocked" THEN "off" ELSE "select")
        /\ UNCHANGED <<raw, tries, file, setting>>

\* HTTP 410 is not retried.
FetchFails(p) ==
    /\ At(p, "fetch")
    /\ \/ \E s \in {"fetch_error", "blocked"} : FailAttempt(p, s, TRUE)
       \/ FailAttempt(p, "fetch_error", FALSE)

\* The page is refused, or cannot be prepared for storage.
RejectPage(p) ==
    /\ At(p, "validate")
    /\ \E s \in {"invalid_response", "storage_error"} : FailAttempt(p, s, TRUE)

MarkUploading(p) ==
    /\ At(p, "validate")
    /\ attempt' = [attempt EXCEPT ![proc[p].job][proc[p].n] =
                     [status |-> "uploading", sha |-> proc[p].body]]
    /\ job' = [job EXCEPT ![proc[p].job].status = "uploading"]
    /\ To(p, "upload")
    /\ UNCHANGED <<raw, tries, file, setting>>

SavePage_Unchecked(p) ==
    /\ At(p, "upload")
    /\ file' \in {file, [file EXCEPT ![proc[p].job] = proc[p].body]} /\ To(p, "stored")
    /\ UNCHANGED <<tables, setting>>

\* A temporary file is written and renamed over the old one, so a reader sees
\* either body whole; a failed write leaves the old one.
SavePage(p) ==
    /\ At(p, "upload")
    /\ \/ file' = [file EXCEPT ![proc[p].job] = proc[p].body] /\ To(p, "stored")
       \/ To(p, "failed") /\ UNCHANGED file
    /\ UNCHANGED <<tables, setting>>

\* A plain INSERT: a job that already has its raw row makes the transaction fail.
CompleteUpload(p) ==
    /\ At(p, "stored")
    /\ LET j == proc[p].job
       IN  IF raw[j].sha = None
             THEN /\ raw' = [raw EXCEPT ![j] = [sha |-> proc[p].body, integrity |-> "valid"]]
                  /\ SetAttempt(j, proc[p].n, "success")
                  /\ SetJob(j, "raw_ready", TRUE)
                  /\ Next1(p, "select")
             ELSE To(p, "failed") /\ UNCHANGED <<raw, attempt, job>>
    /\ UNCHANGED <<tries, file, setting>>

StorageFails(p) == At(p, "failed") /\ FailAttempt(p, "storage_error", TRUE)

-----------------------------------------------------------------------------
(* Parse.                                                                  *)

StartParse(p) ==
    /\ At(p, "off")
    /\ Next1(p, "parse_recover")
    /\ UNCHANGED <<tables, file, setting>>

Overdue(t) == t.status = "parsing" /\ t.old

RecoverStaleParses(p) ==
    /\ At(p, "parse_recover")
    /\ tries' = [j \in Jobs |-> [i \in DOMAIN tries[j] |->
                   IF Overdue(tries[j][i])
                     THEN [tries[j][i] EXCEPT !.status = "parse_error", !.old = FALSE]
                     ELSE tries[j][i]]]
    /\ To(p, "parse_claim")
    /\ UNCHANGED <<job, attempt, raw, file, setting>>

Parsable_AlsoActive(p, j) ==
    /\ job[j].status = "raw_ready" /\ raw[j].integrity = "valid"
    /\ \A i \in DOMAIN tries[j] : tries[j][i].status \notin Final /\ tries[j][i].run # p
    /\ Len(tries[j]) < MaxParses

Parsable(p, j) ==
    /\ job[j].status = "raw_ready" /\ raw[j].integrity = "valid"
    /\ \A i \in DOMAIN tries[j] : tries[j][i].status = "parse_error" /\ tries[j][i].run # p
    /\ Len(tries[j]) < MaxParses

ClaimNextRaw(p) ==
    /\ At(p, "parse_claim")
    /\ \E j \in Jobs :
         /\ Parsable(p, j) /\ \A k \in Jobs : Parsable(p, k) => j <= k
         /\ tries' = [tries EXCEPT ![j] = Append(@, [run |-> p, status |-> "parsing",
                                                     old |-> FALSE])]
         /\ proc' = [proc EXCEPT ![p].pc = "read", ![p].job = j, ![p].n = Len(tries[j]) + 1]
    /\ UNCHANGED <<job, attempt, raw, file, setting>>

EndParse(p) ==
    /\ At(p, "parse_claim")
    /\ Next1(p, "off")
    /\ tries' = Forget(p)
    /\ UNCHANGED <<job, attempt, raw, file, setting>>

ReadFile(p) ==
    /\ At(p, "read")
    /\ proc' = [proc EXCEPT ![p].pc = "verdict", ![p].body = file[proc[p].job]]
    /\ UNCHANGED <<tables, file, setting>>

\* What complete_parse or fail_parse will say of the bytes that were read.
Verdicts(c, sha) ==
    IF c = None THEN {"raw_missing"}
    ELSE IF c # sha THEN {"raw_corrupt"}
    ELSE {"success", "validation_error", "parse_error"}

IntegrityAfter(c, sha) ==
    IF c = None THEN "missing" ELSE IF Size[c] # Size[sha] THEN "size_mismatch"
    ELSE "hash_mismatch"

Mine_AnyStatus(p) == tries[proc[p].job][proc[p].n].run = p

Mine(p) == LET t == tries[proc[p].job][proc[p].n] IN t.run = p /\ t.status = "parsing"

CloseParse(p) ==
    LET j == proc[p].job
        me == proc[p]
    IN  /\ At(p, "verdict") /\ Mine(p)
        /\ \E v \in Verdicts(me.body, raw[j].sha) :
             /\ tries' = [tries EXCEPT ![j][me.n].status = v, ![j][me.n].old = FALSE]
             /\ IF v \in {"raw_missing", "raw_corrupt"}
                  THEN LET i == IntegrityAfter(me.body, raw[j].sha)
                       IN  /\ raw' = [raw EXCEPT ![j].integrity = i]
                           /\ job' = [job EXCEPT ![j].status = StatusFor(i)]
                  ELSE UNCHANGED <<raw, job>>
        /\ Next1(p, "parse_claim")
        /\ UNCHANGED <<attempt, file, setting>>

\* The attempt was recovered as stale meanwhile: the run fails.
LoseParse(p) ==
    /\ At(p, "verdict") /\ ~Mine(p)
    /\ Next1(p, "off")
    /\ tries' = Forget(p)
    /\ UNCHANGED <<job, attempt, raw, file, setting>>

-----------------------------------------------------------------------------

Die(p) ==
    /\ p \in setting.crew /\ proc[p].pc # "off"
    /\ Next1(p, "off")
    /\ tries' = Forget(p)
    /\ UNCHANGED <<job, attempt, raw, file, setting>>

RetryDue(j) ==
    /\ ~job[j].due
    /\ job' = [job EXCEPT ![j].due = TRUE]
    /\ UNCHANGED <<attempt, raw, tries, file, proc, setting>>

GrowOld(j) ==
    /\ \E i \in DOMAIN tries[j] :
         /\ tries[j][i].status = "parsing" /\ ~tries[j][i].old
         /\ tries' = [tries EXCEPT ![j][i].old = TRUE]
    /\ UNCHANGED <<job, attempt, raw, file, proc, setting>>

LoseFile(j) ==
    /\ setting.lossy
    /\ file[j] # None /\ file' = [file EXCEPT ![j] = None]
    /\ UNCHANGED <<tables, proc, setting>>

Crawl(p) ==
    \/ StatUpload(p) \/ RecoverUpload(p) \/ RecoverStaleFetches(p)
    \/ StatRaw(p) \/ UpdateRawIntegrity(p) \/ EndRecovery(p)
    \/ UpsertDiscoveredJobs(p) \/ ClaimNextJob(p) \/ EndCrawl(p)
    \/ FetchPage(p) \/ FetchFails(p) \/ RejectPage(p) \/ MarkUploading(p)
    \/ SavePage(p) \/ CompleteUpload(p) \/ StorageFails(p)

Parse(p) ==
    \/ RecoverStaleParses(p) \/ ClaimNextRaw(p) \/ EndParse(p)
    \/ ReadFile(p) \/ CloseParse(p) \/ LoseParse(p)

Next ==
    \/ \E p \in Procs : StartCrawl(p) \/ StartParse(p) \/ Crawl(p) \/ Parse(p) \/ Die(p)
    \/ \E j \in Jobs : RetryDue(j) \/ GrowOld(j) \/ LoseFile(j)

Spec == Init /\ [][Next]_vars

-----------------------------------------------------------------------------
(* Properties.                                                             *)

TypeOK ==
    /\ job \in [Jobs -> JobRow]
    /\ \A j \in Jobs : attempt[j] \in Seq(AttemptRow) /\ tries[j] \in Seq(TryRow)
    /\ raw \in [Jobs -> RawRow]
    /\ file \in [Jobs -> Body]
    /\ proc \in [Procs -> Process]
    /\ setting \in Settings

Alone == Cardinality(setting.crew) = 1

Open(row) == row.status \in {"fetching", "uploading"}

\* While one process works on the source at a time, as the deployment intends,
\* only the newest fetch attempt of a job can be open, and its number is the
\* job's count: no crash leaves an attempt behind that a new one overtakes.
NewestAttemptIsOpen ==
    Alone => \A j \in Jobs :
        /\ Len(attempt[j]) = job[j].count
        /\ \A n \in DOMAIN attempt[j] : Open(attempt[j][n]) => n = Len(attempt[j])

\* One process at a time: once its recovery is through, no job and no attempt of
\* an earlier process is left in flight, at whatever step that one died.
RecoveryIsComplete ==
    Alone => \A p \in Procs, j \in Jobs :
        proc[p].pc \in {"discover", "select"} =>
            /\ job[j].status \notin InFlight
            /\ \A n \in DOMAIN attempt[j] : ~Open(attempt[j][n])

\* One process at a time, and a directory that loses nothing: the file of a job
\* that is ready and valid holds the very body its raw row names, whatever write
\* failed and wherever the process died.
ReadyPageIsIntact ==
    Alone /\ ~setting.lossy =>
        \A j \in Jobs : job[j].status = "raw_ready" /\ raw[j].integrity = "valid"
                          => file[j] = raw[j].sha

\* A job is offered to the parser, or said to have lost its page, only if its raw
\* row is there, and the row names a body that some attempt fetched.
ReadyHasRow ==
    \A j \in Jobs :
        /\ job[j].status \in {"raw_ready", "storage_missing", "storage_corrupt"}
             => raw[j].sha # None
        /\ raw[j].sha # None => \E n \in DOMAIN attempt[j] : attempt[j][n].sha = raw[j].sha

\* What the tables say of pages is what the directory and the attempts bear out.
PagesAgree == TypeOK /\ ReadyPageIsIntact /\ ReadyHasRow

\* Two processes that recover, upload and record one page at once never replace
\* the raw row the parser may already have used.
RawIsWrittenOnce ==
    [][\A j \in Jobs : raw[j].sha # None => raw'[j].sha = raw[j].sha]_raw

\* Two processes never parse a page at the same time, nor more often than allowed.
ParseBudget ==
    \A j \in Jobs :
        /\ Len(tries[j]) <= MaxParses
        /\ Cardinality({i \in DOMAIN tries[j] : tries[j][i].status = "parsing"}) <= 1

\* Fetch and parse attempts are accounted for, wherever a process died.
AttemptsAgree == NewestAttemptIsOpen /\ RecoveryIsComplete /\ ParseBudget

\* A parse attempt once closed keeps its outcome, also when its process comes
\* back after another one recovered it as stale.
ClosedParseIsFinal ==
    [][\A j \in Jobs : \A i \in DOMAIN tries[j] :
         tries[j][i].status # "parsing" => tries'[j][i].status = tries[j][i].status]_tries

=============================================================================
