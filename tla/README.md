# JobLake in TLA+

JobLake crawls Vietnamese job boards: it lists job URLs, downloads each job's
page as raw HTML into object storage, parses it into PostgreSQL, enriches the
text with a language model and publishes the active jobs to a serving database.
This directory holds TLA+ models of the parts where order, failure and memory
decide whether the result is right, the TLC runs that check them on small
instances, and theorems about them checked by TLAPS.

Paths below are relative to `src/joblake/` unless they start with `docs/`,
`migrations/` or `scripts/`.

## 1. Inventory

| Component | State it keeps | Operations | Hard behaviour |
|---|---|---|---|
| Detail crawl state machine (`postgres_state.py`, `pipeline.py`) | `jobs`, `fetch_attempts`, `raw_objects` rows; the run's claimed job, error streak, pages processed | claim, mark validating, mark uploading, complete, fail; recover uploads and stale fetches; audit; requeue | a kill between any two transactions; put or commit with a lost answer; budgets over several raw generations |
| Raw storage (`storage.py`) | one object per job at a fixed key | put, stat, read | put may have written and still raise; stat compares lengths only |
| Raw cleanup (`raw_cleanup.py`) | purge journal, `purged_at` | pick candidates, verify, remove, mark | object and row have no common transaction |
| Parsing queue (`parsing/service.py`, `postgres_state.py`, `postgres.py`) | `parse_attempts`, versioned results, current result | claim, check raw, parse, succeed/fail, recover, replay | results of several parser versions and raw generations; stale claims |
| Source lock (`postgres_state.py` `source_run`) | a PostgreSQL session advisory lock | poll with deadline, check before each write, release | the session may be lost between the check and the write |
| Listing change detection (`cdc.py`) | `crawl_runs` CDC columns, `cdc_sources`, listing status of jobs, `url_events` | prepare, record coverage, finalize | interrupted, incomplete and superseded runs must not expire jobs |
| Discovery crawl (`discovery.py`) | target rows, per-target progress | page loop, stop rules, upsert, verdict | when a listing counts as completely covered; the site changes while it is read |
| Fetchers (`fetchers.py`, `vietnamworks_browser.py`) | the browser, the session kept on disk, the pager's last page | fetch with retries, restart, click through pages | a browser that breaks; the site's scripts render links after the page number |
| Enrichment queue (`enrichment/store.py`, `enrichment/service.py`) | queue rows, request reservations, batches | enqueue, reserve, finish, block, recover | rolling quotas, crash after reservation, content changed while a request is out |
| Serving sync (`supabase_sync.py`) | remote `serving.jobs` | lock, snapshot, stage, reconcile, verify | a stale or partial snapshot; syncs that overlap |
| Standalone runner (`standalone.py`) | task processes, stop event, `latest.json` | execute, stop, cycle, publish gate | stop, timeout and exit of a task race; orphans of a killed runner |
| Parsed-job store (`postgres.py`) | results per parser version | record, make current | one current result per posting |
| Local store (`state.py`, `LocalRawStorage`) | the same tables in SQLite, pages in a directory | as `postgres_state.py`, without cleanup and versions | no source lock: two processes may run at once |
| Health policy, validation, block detection | none | pure functions | thresholds at their boundary |
| Adapters, parsers, providers, schemas, scripts, Airflow DAGs | none of their own, or external | I/O and text | outside the models, or a choice of outcome in them |

How they interact. A scheduler (Airflow or `standalone.py`) starts a *run* of one
source in a phase: `full`, `discovery`, `detail` or `parse`. A run, a parse or a
cleanup of a source holds its advisory lock throughout, so writers of one source
are serial; sources are independent. The first three phases begin with a recovery
of what an interrupted run left behind. Discovery writes `jobs`; CDC reads
what discovery saw; detail writes attempts, the bucket and `raw_objects`; parse
reads the bucket and may withdraw a row it finds damaged; cleanup removes objects
already parsed; sync publishes active jobs that have a current result. There are
no messages: everything is shared state in PostgreSQL and the bucket, and memory
of the run that a kill erases.

What makes each correct:

- detail crawl: jobs and attempts agree after any kill; the fetch budget holds
  per raw generation; nothing stays in flight for ever; a ready row is backed by the
  body it names; finished attempts stay as they ended;
- raw storage and cleanup: only an object that was parsed is removed, an interrupted
  removal is in the journal and is completed, and the parser never sees one body turn
  into another;
- source lock: no write without ownership, but for the one that was already checked;
- CDC: a job expires only on complete evidence of the newest run, decisions are final,
  events, counts and statuses tell one story;
- discovery: a listing called complete was read to its end; what was read is stored,
  whatever ended the run; a block ends the source;
- fetchers: the links returned for a page are those of that page; a session the site
  blocked is not used again;
- parsing: a success has its result, a result is of the bytes it names, at most one
  attempt is open, the current result is the newest of the present page;
- enrichment: quotas hold over crashes, a validated answer is kept for good, every content
  is answered or given up;
- sync: a published job goes only on evidence, no older snapshot follows a newer one, and
  what is served catches up;
- standalone runner: nothing is published after a failed phase or gate; every cycle ends;
- local store: pages, rows and attempts agree after any kill, and what two processes at
  once may not do to each other.

## 2. Plan

| Order | Module | Models | Composes | Proved |
|---|---|---|---|---|
| 1 (done) | `DetailCrawl`, `RawShelf` | raw life cycle of one source; what it promises the parser | bucket, recovery, parse's checks, cleanup | all safety invariants, the refinement |
| 2 (done) | `ListingCdc` | runs, coverage, finalization, with the source lock and lost sessions | source lock | all safety properties |
| 3 (done) | `Enrichment` | queue, quota windows, groups, recovery | - | all safety properties |
| 4 (done) | `ParseWork`, `RawRetention` | parse claims, retries, versions, current result; cleanup with its journal | two processes and the cleanup over rows, bucket and lock | all safety properties |
| 5 (done) | `ServingSync`, `Publication` | snapshot and reconcile; cycles, tasks and the gate | the runner over the syncs | all safety properties |
| 6 (done) | `PageFetcher`, `ListingPager`, `DiscoveryCrawl` | fetch loops, the client-side pager, pagination and coverage | a crawler over a fetcher over a site | all safety properties |
| 7 (done) | `SqliteState` | the local store without a source lock | crawl and parse of two processes | all safety properties |
| 8 | proofs | that the coverage `DiscoveryCrawl` records is one `ListingCdc` may choose; bounds on the steps of a run, the safety part of its end | the two crawls | - |
| 9 | pure rules | health policy, block detection, validation as operators against reference definitions | - | - |

Abstract specification: `RawShelf`. Runs keep one or two jobs, two bodies, two attempts
and the number of generations that makes the hazard possible. Which faults may happen is a
constant of the cfg, or, where a hazard needs one or two faults and not all at once, a
*setting* chosen by `Init` and kept: one run then covers several environments, each
small.

## 3. What is modelled

### `DetailCrawl.tla`

One source's jobs from listing to purge and back. Each PostgreSQL transaction and
each storage call is one action; anything may happen between two of them.

| Variable | Code |
|---|---|
| `job` | `crawl_state.jobs`: `raw_status` ("none" before the row exists), `fetch_attempt_count` (`count`), `fetch_retry_base` (`base`), `next_retry_at` passed (`due`) |
| `attempt` | `crawl_state.fetch_attempts` by `attempt_number`: status and recorded SHA-256 |
| `raw` | `crawl_state.raw_objects`: hash, integrity status, purge marker |
| `parsed` | whether the current raw generation has a final parse verdict, and the body the current result was made from |
| `object` | the bucket at the job's fixed key |
| `pc`, `phase`, `cur`, `page`, `uploads`, `checks`, `seen`, `processed`, `streak` | memory of the run that holds the lock; `AbortRun` erases it |

| Actions | Code |
|---|---|
| `StartRun`, `RecoverUpload`, `RecoverStaleFetches`, `AuditRawObject`, `FinishRecovery` | `_run_locked`, `_recover_interrupted_work`, `_audit_raw_objects` and their store calls |
| `UpsertDiscoveredJobs`, `EndDiscovery` | `upsert_discovered_jobs` with its requeue of purged jobs |
| `ClaimNextJob`, `EndDetails` | `claim_next_job` and the loop of `_run_details` |
| `FetchPage`, `FetchFails`, `PageGone`, `RejectPage`, `MarkUploading`, `PutObject`, `PutFails`, `CompleteUpload`, `CompleteFails`, `CompleteUnanswered`, `FailUnanswered` | `_crawl_detail`, one action for each outcome of each call, with the stop rules of `_run_details` |
| `AbortRun` | kill or escaping exception, at any step |
| `ParseRaw` | the raw checks and verdicts of `parsing/service.py` |
| `PurgeRaw`, `PurgeInterrupted` | `raw_cleanup.py`, complete or killed after the removal |
| `RetryDue`, `LoseObject`, `ChangeObject` | time and the bucket's other users |

Abstractions. A body stands for its hash (no collisions). The key of a job is
fixed, which is what `storage.py` builds from source, URL hash. Delays
become the bit `due`. `MaxJobs` and `ErrorLimit`, optional in the configuration, are
finite here. The integrity value "unchecked" is in the schema and never written.
Retention periods are a free choice of the environment. The source lock is taken as
given: one holder at a time (`ListingCdc` models it). `MaxFetches` is the only bound of the model: the
attempts recorded per job over all generations; cleanup does not start a generation
for which there is no room.

A transaction that commits without an answer is two steps: `CompleteUnanswered` commits the
success of an attempt, `FailUnanswered` is the `except` branch, which fails that attempt
although it is closed: `fail_attempt` has no guard on the status. The attempt then reads
"storage_error", the job leaves `raw_ready` for a retry or, on its last attempt, for
"permanent_error", and the raw row and its object stay. `ClosedAttemptsAreHistory` says that
this is the only way a closed attempt changes, and what changes with it. Death between the
two steps leaves the success.

A definition whose name carries a suffix after an underscore (`StoreRaw_KeepsOldHash`)
is the definition of that name with a plausible bug. No action uses it; it stands there
to show that the property is sensitive to that bug.

### `RawShelf.tla`

What acquisition promises the parser: a job offers at most one body, an offered
body was accepted for this job, and it is withdrawn before another is offered.
`DetailCrawl` implements it under the mapping `Shelf`: the accepted bodies are
the hashes its attempts recorded, the offered one is the raw row's hash while the job
is `raw_ready` and the row `valid`.

### `ListingCdc.tla`

The runs of one source as change detection sees them: several processes take turns on
the source lock, register a run, list targets, record coverage and finalize. Each
transaction is one action.

| Variable | Code |
|---|---|
| `runs` | `crawl_state.crawl_runs`: whether it has ended, `phase`, `scope_hash`, `cdc_status`, `expired_url_count`, `reappeared_url_count` |
| `cover` | `crawl_state.discovery_targets` by run and target: status, `coverage_complete` |
| `listing` | `crawl_state.jobs`: `listing_status`, `last_seen_run_id`, `tracking_scope_hash`, `expired_run_id` |
| `source`, `events` | `crawl_state.cdc_sources` and `crawl_state.url_events` |
| `holder` | the session that holds the advisory lock |
| `pc`, `conf`, `rid`, `target`, `full` | memory of a process: its step, configuration, run, target and the coverage it computed |
| `slip` | the process passed the `SELECT 1` of `_connect` before its session was lost; one write may still commit |
| `observed` | history, not in the code: the jobs each run has upserted |

| Actions | Code |
|---|---|
| `SourceRun`, `LeaveRun`, `Connect` | `source_run`, `_connect`, and death at any step |
| `LoseSession` | PostgreSQL drops the lock session while the process goes on |
| `StartRun`, `PrepareCdcRun`, `FinishRun` | `start_run`, `prepare_cdc_run`, `finish_run`, the last from every step that can fail |
| `StartDiscoveryTarget`, `UpsertDiscoveredJobs`, `FinishDiscoveryTarget`, `RecordDiscoveryCoverage` | `_run_target`, one page, `_finish_target` with its two transactions |
| `FinalizeCdc` | `finalize_cdc` with its refusals, baseline, expiry and reappearance |

Abstractions. Phases `full` and `discovery` are one phase, `detail` and `parse` another:
`cdc.py` tells no more apart, and detail work after finalization touches none of these
columns. The order of targets is free. The reason of a skip is wording. The
scope hash stands for the configuration it is computed from, so a scope determines
its enabled targets. Whether a target is completely covered is a free choice of a target
that completed; `DiscoveryCrawl` models the rules that decide it. A process
refused by the lock, at once or at its deadline, has written nothing and is no step.
`finalize_cdc` is one action although it reads several tables in several statements: under
the lock nobody else writes them, and under a lost session the model lets
the late write come before or after, not in the middle of it. `MaxRuns` is the only
bound: the rows of `crawl_runs`.

### `Enrichment.tla`

The queue of contents to enrich and the worker that asks providers about them, a request
at a time, of one row or of a group of up to three.

| Variable | Code |
|---|---|
| `content` | the current, accepted, active content of each posting (`CURRENT_CONTENT`) |
| `row` | `core.job_enrichments` by posting and content hash: status, attempts, ticks until `next_attempt_at`, the request whose answer it holds |
| `request` | `core.enrichment_attempts` with its `enrichment_attempt_jobs`: status, provider, members, age, and `coalesce(actual_tokens, reserved_tokens)` |
| `blocked` | `core.enrichment_provider_state`: ticks until `blocked_until` |
| `pc`, `scope`, `spent`, `fresh` | the worker: its step, the candidates of its run, requests made, whether its loop has turned |
| `head`, `tried`, `turn`, `group`, `cur`, `passed`, `usage`, `cool` | the job selected and its attempts as read then, the provider in turn, the members, the request out and its answer |
| `burnt` | history, not in the code: the tokens the provider really charged |

| Actions | Code |
|---|---|
| `Lock`, `Recover`, `Choose`, `Enqueue` | `service.run` and `backfill.run` up to `process`; `recover`, the preview and its frozen selection, `enqueue` |
| `NextJob`, `NoJob`, `EndRun` | `next_job` with its sweep of exhausted rows, the oversize check, the loop's end |
| `Group`, `Reserve`, `Refused`, `Wait` | `group_jobs`, `reserve_batch`, shrinking and fallback, `can_retry_soon` |
| `Call`, `Block`, `Finish` | the request and its validation, `block`, `finish_batch` |
| `Crash`, `ChangeContent`, `Tick` | death at any step, parsing and listing changes, time |

Abstractions. Time is a count of ticks: `Minute`, `Day` and `RetryDelay` are numbers of
them, a window holds the requests younger than its length, and `now()` advances between
any two actions. A request's age and charge are forgotten when it leaves the day's
window. The estimate of a group is the sum of its contents' costs, so the limit on a
batch's input is part of the limit on its total. Followers are any set that fits instead
of the first in order, and any of them may be dropped when the group is refused. A request
costs at most its estimate, which reserves the whole output allowance; how far an
underestimated input overdraws a quota is the provider's business and not a property here.
Validation of an answer is a free choice for each member. `Eligible` stands for the part
of the candidates view that depends on the content alone: its date and history. The
session lock and all writes share one connection, so a worker that lost its lock writes
no more and one worker stands for any number. `MaxRequests` is the only bound: the rows of
the ledger.

### `ParseWork.tla` and `RawRetention.tla`

`ParseWork` is the parse phase of one source: several processes that claim, read, parse,
save and close. `RawRetention` extends it with the cleanup and holds the specification.
`DetailCrawl` has parse and cleanup as single steps of its environment; here they
are taken apart, and the crawl is the environment.

| Variable | Code |
|---|---|
| `raw` | `crawl_state.raw_objects` with `raw_status` of the job: hash, integrity, purge marker, and which generation it is |
| `tries` | `crawl_state.parse_attempts` of each job, oldest first: generation, parser version, run, status, and whether it is older than `stale_after_seconds` |
| `results`, `current` | `core.job_parse_results` of a posting and the one with `is_current` |
| `object` | the bucket at the job's fixed key |
| `worker` | memory of each parse process: step, claimed job, attempt, expected hash, bytes read |
| `holder`, `slip` | the session that owns the source lock; processes that lost it after the check of one more transaction |
| `release` | the newest parser version installed |
| `listing`, `journal`, `clean` | whether the listing is over, `crawl_state.raw_cleanup_log`, memory of the cleanup |
| `weather`, `spent` | the faults of this behaviour, and those that have happened |

| Actions | Code |
|---|---|
| `StartParse`, `Recover`, `ClaimNextRaw`, `EndParse` | `source_run`, `recover_stale_parses`, `claim_next_raw`, the loop of `parsing/service.py` |
| `ReadObject`, `Parse`, `Save` | `read`, its checks, the parser, `save_parse_result` on a connection of its own |
| `CompleteParse`, `FailParse`, `GiveUp` | `complete_parse`, `fail_parse`, and their refusal of an attempt that is no longer the run's |
| `StartCleanup`, `WriteIntent`, `VerifyObject`, `RemoveObject`, `RecordPurge`, `EndCleanup`, `CleanupGivesUp` | `raw_cleanup.py` between any two of its commits |
| `Kill`, `KillCleanup`, `LoseSession`, `CleanupLosesSession`, `GrowOld`, `Release` | death at any step, a dropped lock session, time, a new parser |
| `ListJob`, `FetchRaw`, `AuditRaw`, `ExpireListing`, `Relist`, `LoseObject`, `ChangeObject` | what crawl runs and other users do to rows and bucket |

Abstractions. A body stands for its hash, a version for its place in the order of
releases. A run id is the process while it runs and nobody's afterwards. Retention periods
are over as soon as a listing is; the caps of a run are the choice of candidates it takes.
There is one cleanup process: two exclude each other by the source lock except across a
lost session. `MaxVersion` and `MaxRaws` bound the model.

### `SqliteState.tla`

The local deployment: `state.py` and files, driven by the same pipeline and service, with
no source lock.

| Variable | Code |
|---|---|
| `job`, `attempt`, `raw`, `tries` | the tables `jobs`, `fetch_attempts`, `raw_objects`, `parse_attempts` |
| `file` | the body in a job's file |
| `proc` | memory of each process, in a crawl or a parse run |
| `setting` | who is at work, and whether the directory may lose files |

Actions are the transactions and file operations in the order of `pipeline.py`:
`StartCrawl`, `StatUpload`/`RecoverUpload`, `RecoverStaleFetches`, `StatRaw`/`UpdateRawIntegrity`,
`EndRecovery`, `UpsertDiscoveredJobs`, `ClaimNextJob`, `FetchPage`, `FetchFails`,
`RejectPage`, `MarkUploading`, `SavePage`, `CompleteUpload`, `StorageFails`, `EndCrawl`;
and of the parse service: `StartParse`, `RecoverStaleParses`, `ClaimNextRaw`, `ReadFile`,
`CloseParse`, `LoseParse`, `EndParse`. `Die` may come at any step. It differs from
`DetailCrawl` where the code does: a raw row is inserted once and never replaced, nothing
is purged, and a recovered upload records the hash of the file it found. Two processes
do overtake each other here: recovery takes the fetch of a live process for stale. What is
stated for a crew of one is not promised to two.

### `PageFetcher.tla`, `ListingPager.tla` and `DiscoveryCrawl.tla`

The discovery phase of a run, in three layers: one fetch; the listing of VietnamWorks,
which has to be clicked through; the crawler over either.

| Variable | Code |
|---|---|
| `call` | one fetch: its step, page, attempt and result (`RequestsFetcher`, `PlaywrightFetcher`, `CloakBrowserFetcher`) |
| `browser`, `jar` | the browser of the fetcher and the session kept at `storage_state_path`: has the site challenged it |
| `dom`, `pager` | what the page shows and where its scripts are heading; `last_page_number`, `last_links`, `reload_requested` |
| `listing`, `setting` | what the site lists; the configuration and the kind of site |
| `stored`, `row` | `jobs` and `discovery_targets` of the state store |
| `crawl`, `outcome` | `_TargetProgress` and the loop over targets; the status of the run |

| Actions | Code |
|---|---|
| `RequestsFetch`, `Navigate`, `NoPage`, `Capture`, `BrowserTimeout`, `BrowserError` | the attempt loops of `fetchers.py` |
| `OpenUrl`, `ReadControls`, `ClickControl`, `ProbeUrl`, `WaitResult`, `CollectLinks`, `PagerTimeout` | `vietnamworks_browser.py` |
| `RenderActive`, `RenderLinks`, `Shift` | the site: its scripts, a job leaving the listing |
| `OpenFetcher`, `StartTarget`, `SendRequest`, `Fetch`, `ReadPage`, `FetchFails`, `FinishTarget`, `FailTarget`, `EndTargets`, `EndDiscovery` | `discovery.py` and the discovery branch of `pipeline.py` |

Abstractions. An answer is the class of status and content the code tells apart, a body
the set of job URLs on it. Delays and the copies of listing pages are left out, except that
the copy may fail. What coverage is used for is in `ListingCdc`, where it is a free choice;
`DiscoveryCrawl` shows which choice the code makes. A page's transaction may fail, or commit
without an answer, at a point where the progress of the target has counted its URLs as seen
already: `SeenIsStored` says that every URL seen on an earlier page is stored, and that the
page whose own transaction failed leaves its target failed and the run raising. The
transactions that open and close a target's row do not fail, and the process does not die;
`ListingCdc` has runs that end anywhere. Pages are numbered from one, as every
configuration has it. A setting with the client-side listing has one target, and a site
that shows an empty result past its last page (`SettingsAssumption`): its fetcher is
selected by `configs/vietnamworks.yaml` alone, which has one target, and looks for that
result; it keeps the page it is on from one target to the next.

### `ServingSync.tla` and `Publication.tla`

`ServingSync` is the transaction that publishes, run by several processes over a local
database that goes on changing. `Publication` is the runner that starts it, or does not.

| Variable | Code |
|---|---|
| `local`, `version` | postings with listing status, `last_seen_at`, current content and mapping; commits so far |
| `serving`, `applied` | `serving.jobs`; the version of the snapshot committed last |
| `mutex`, `sync` | the advisory lock; each sync process with its mode and snapshot |
| `setting` | whether there is a runner, what may fail, which syncs are started by hand |
| `stop`, `exec`, `runner` | the stop event; `Runner.execute` on each thread; `Runner.cycle` and `Runner.source` |
| `results`, `latest` | the tasks of the cycle with their exit codes; `latest.json` |

| Actions | Code |
|---|---|
| `TryLock`, `TakeSnapshot`, `StageSnapshot`, `Preview`, `Reconcile`, `AbortSync` | `supabase_sync.py`: `sync`, its three modes, failure anywhere |
| `StartTask`, `TaskExits`, `SyncExits`, `Terminate`, `Retry` | `execute` |
| `StartSource`, `EndPhase` | `source` on the pool |
| `StartCycle`, `EndIngestion`, `EndReport`, `EndGate`, `FailGate`, `StartEnrichment`, `EndEnrichment`, `EndConnection`, `EndPublish`, `EndCleanup`, `EndCycle` | `cycle` |
| `Stop`, `Kill`, `StartManual`, `ReapOrphan`, `Ingest` | signals, death of the runner, syncs of others, changes of the database |

Abstractions. A task other than the sync is its exit code, and every code but 0 is 1. The
interval between cycles, the retry delay and whether the cleanup is due are choices. The
consistency checks on a snapshot are the one on the mapping of postings to jobs. Nothing in
the repository removes a posting; an operator may (`RemovePosting`), and the tests of the sync
do, expecting its published row to go. A posting that is written again has a new id and is
another one. `DeletionIsEvidence` tells a posting that is missing from a snapshot because it
was removed from one the snapshot lost or did not know yet: the `DELETE` cannot tell
them apart, so the refusal of a broken mapping and the order of the snapshots must.
`changes` of a setting bounds the commits of the local database.

## 4. Runs

| Run | Instance | Shows |
|---|---|---|
| `detail_generations` | 1 job, 2 bodies of different length, 2 attempts, 4 recorded attempts, lost acknowledgements | `AttemptLedger`, `RetryBudget`, `ReadyMatchesStore`, `ReadyObjectKept`, `ClosedAttemptsAreHistory` |
| `detail_faults` | 1 job, 2 bodies of equal length, 1 attempt, 3 recorded attempts, all faults | `ShelfSpec` (refinement of `RawShelf`) |
| `detail_settles` | 2 jobs, 1 body, one job per run, stop at the first error, lost acknowledgements | `EveryJobSettles` (liveness) |
| `detail_recovered_upload` | as the first, bodies of equal length | violation of `RecoveredUploadIsStored` |
| `cdc_locked` | 1 process, 2 jobs, 2 targets, 2 scopes, 3 runs | `ListingAgrees`, `HistoryAgrees`, `PendingIsNewest`, `ExpiryIsEvidenced`, `ObservedIsActive` |
| `cdc_session_lost` | 2 processes, 2 jobs, 1 target, 1 scope, 2 runs, lost sessions | `DecisionIsFinal` |
| `parse_retention` | 1 job, 2 bodies of equal length, 2 processes, cleanup, 2 attempts, 2 versions, 2 generations, seven combinations of faults | `ResultsAgree`, `AttemptBudget`, `MissingIsExplained`, `ClosedIsFinal`, `RemovalIsSafe`, `EveryPageSettles`, `PurgeEnds` (liveness) |
| `sqlite_unlocked` | 1 job, 2 bodies of equal length, 2 fetch and 2 parse attempts; one process, with files kept or lost, or two | `PagesAgree`, `AttemptsAgree`, `RawIsWrittenOnce`, `ClosedParseIsFinal` |
| `discovery` | 2 targets of 3 and 1 pages that share a job, 3 tries, the settings of `MCDiscoveryCrawl` | `CoverageIsHonest`, `SeenIsStored`, `PagerReadsItsPage`, `KeptSessionIsWelcome`, `DiscoveryEnds` (liveness) |
| `publication` | 2 sources, 1 slot, 1 retry, 2 postings, 1 content, 2 syncs, five settings | `PublishIsGated`, `DeletionIsEvidence`, `NewerIsNotUndone`, `StatusIsHonest`, `CycleEnds`, `ServingConverges` (liveness) |
| `enrich_quota` | 2 postings, 1 content, one provider with room for 2 requests and 2 tokens a day, 2 attempts, 3 requests | `QueueAgrees`, `QuotaHolds`, `RetriesAlone`, `AnswerIsKept` |
| `enrich_settles` | 2 postings, one of them too large for any budget, 2 providers, 2 attempts, 1 request a run | `EveryContentSettles` (liveness) |

Properties with several parts: `HistoryAgrees` is `ActiveIsExplained` and
`CountsMatchEvents`; `ResultsAgree` is the type invariant, `SuccessIsStored`,
`ResultIsGenuine` and `CurrentMatchesRaw`; `PagesAgree` is the type invariant,
`ReadyPageIsIntact` and `ReadyHasRow`; `AttemptsAgree` (SQLite) is `NewestAttemptIsOpen`,
`RecoveryIsComplete` and `ParseBudget`; `CoverageIsHonest` is the type invariant,
`CompleteSeesAll`, `CompletedMeansEveryTarget` and `BlockEndsDiscovery`; `QueueAgrees` is
the type invariant, `LedgerAgrees` and `AttemptBudget`; `QuotaHolds` is `RequestQuota` and
`TokenQuota`.

### What is not promised

Some properties hold under a condition, because the code does not do more; each is
written into the property.

- `CurrentMatchesRaw` excludes a page that returns to an earlier body (`save_parse_result`
  finds the old result and does not make it current again), and a process that lost its
  lock saving for a version that is no longer the newest.
- `CompleteSeesAll` holds for listings that stay as they are while they are read: when
  a job leaves, another moves to a page already read. Nothing in the code can see it.
- `RemovalIsSafe` promises the current result and the absence of parsers only while no
  session is lost: the last `SELECT 1` comes before the removal, not with it.
- In `SqliteState` the ledger of fetch attempts and the match of file and row are
  promised to one process at a time; once-written rows and the parse budget to two.
- `ObservedIsActive`, `PendingIsNewest`: only while no lock session is lost.
- `storage_corrupt` counts as settled in `EveryJobSettles`: nothing in the code leaves it.

### The bounds

Safety of the detail machine relates one job to its own attempts, row
and object, and the run to the job it holds, so one job suffices there; two attempts
per generation with four in all give two generations, each with a failure or a kill
followed by a retry, and two bodies make the generations differ. Competing for runs
needs two jobs: the liveness run has two, with the harshest stop rules.

A job's listing history needs a baseline, a run that expires it and one
that sees it again: three runs; two jobs, because a run that observes no
job is refused. Coverage that is complete for one target and not for another, and a
scope that drops a target, need two targets and two scopes. Three runs that all may change
the scope are too many states: `LongIsNarrow`, a state constraint of the MC module, lets
a third run start only where all runs so far are of the narrow scope, so that the
instance is the union of three runs of one scope and two runs of any. A lost session needs a
second process to take the lock. Processes under an intact lock are serial, so one
process stands for any number.

In `parse_retention` a fault happens once; each combination is the one or two faults a
hazard needs (a kill while the parser is released, a kill beside a failing store, a lost
session, and so on). Two generations of two versions let an older result compete with a
newer one in both directions; two processes let a stale claim be taken over while its owner
is alive; bodies of equal length leave the difference to the hash. `RawRetention_proofs` removes all
these bounds for the safety properties.

In `discovery` three pages have a first, a middle and a last one, a page size of two lets
a job move to the page before, and a second target of one page ends in any way after any
end of the first. The settings are what the configurations in the repository combine, the
documented alternatives, and sites that change, announce no page count or repeat their
first page at the end. `publication` has two sources for a failure that a later source
might hide, one retry, three commits of the local database for a job published, left
and seen again, or published and removed, and two syncs for one to overtake; a killed runner leaves one behind.

A quota is overdrawn by one request too many, so limits of one a minute and two a day
with three requests reach every boundary; a pair needs two postings, and
its retries, which are alone, a second attempt. Rows interact through the windows and the
group only, so one content per posting, which may go and come back, is enough. For
liveness the second request must fall back, as the first provider's day has room for
one; the ledger holds every attempt of every row that fits, so that the bound never
stands in the way.

`discovery` and `publication` allow deadlock because the run ends, or because a setting
without a runner comes to rest.

### Fairness

Detail crawl (`FairSpec`). The scheduler starts detail runs periodically and a run waits
its turn on the lock, hence strong fairness of `StartRun("detail")`; a run
that is not killed makes its next step (weak fairness of recovery, of the end of
discovery and of detail); retry times pass; kills are finitely many, as no code
can promise progress under endless kills (a kill where the run would end anyway is
no different from its end and is not counted). Nothing is assumed of fetch outcomes, of
discovery's listings, of parse or of cleanup.

Parse and cleanup (`RawRetention!FairSpec`): parse runs and cleanups are scheduled again and
again and compete for the lock with whatever crawl does, hence strong fairness of
`StartParse` by some process and of `StartCleanup`; a process that runs makes its next
step; attempts grow old. A fault happens once. Nothing is assumed of listings, pages
or audits.

Discovery: the crawler and its fetcher go on (every wait of the code has a time-out); the
site owes nothing.

Publication (`FairSpec`): threads go on, and the next cycle comes, as the loop of
the runner waits a finite interval; a task ends by itself only in settings where
nothing fails, otherwise the runner's own time-out ends it; a sync that was started makes
its next step. Stop, kill, syncs by hand and changes of the database are owed to nobody.

Enrichment (`FairSpec`): the phase is triggered again and again and a run that finds the
lock taken gives up, hence strong fairness of `Lock("enrich")` and none of backfills; a
live worker makes its next step; time passes; workers die finitely often; postings
come to rest, as the property is about their last content. Nothing is assumed of answers,
usage or blocks.

### The disagreement

`detail_recovered_upload` shows one, in `PROJECT.json` under "findings": an upload killed
before its put is recovered as complete over an older object of the same length, because
`stat_object` of the MinIO store reports the expected hash as found. The local store hashes
the file and does not have it.

## 5. Theorems

All theorems are for every value of the constants that satisfies the named assumptions
of the module it is about. Every safety property of every passing run is one of them,
most without further assumption.

`DetailCrawl_proofs` and `DetailStore_proofs`:

| Theorem | States | Extra assumption |
|---|---|---|
| `TypeCorrect` | `Spec => []TypeOK` | - |
| `RetryBudgetHolds` | `Spec => []RetryBudget` | - |
| `ControlHolds` | `Spec => []Control`, the inductive invariant | - |
| `AttemptLedgerHolds`, `OnlyCurrentInFlightHolds` | the properties of that name | - |
| `ClosedAttemptsHold` | `ClosedAttemptsAreHistory` | - |
| `ReadyObjectsStay` | `ReadyObjectKept` | the bucket has no other writer (`Untouched`) |
| `ReadyIsStored` | `[]ReadyMatchesStore` | no fault but a lost acknowledgement; lengths tell bodies apart |
| `ImplementsShelf` | `Spec => ShelfSpec` | - |

`AttemptLedger` is not inductive: that the attempt closed by `FailAttempt` is the
open one needs what the run remembers (`Worker`: the claimed job is in the status
its `pc` says, its attempt has the recorded hash); that a claim finds a free attempt
number needs `Room`; that a status about stored raw has a row needs `Rows`.
`Control` is their conjunction. The proof first states what each transaction does to the
tables as lemmas, then has one step per action. For `ClosedAttemptsHold` the
attempt that `FailUnanswered` rewrites must be the success this run has just recorded, in a
ready job whose raw row has its hash; `Worker` says so at that step. `ReadyIsStored` adds `Uploaded` (what
was put is there) and its two extra assumptions are the ones the finding on
recovered uploads shows to be necessary; a cleanup killed after the removal leaves a ready
row without object until cleanup or audit sees it, which is why that fault is excluded.

`ListingCdc_proofs`:

| Theorem | States | Extra assumption |
|---|---|---|
| `BookkeepingHolds` | `Spec => []Bookkeeping`, the inductive invariant | - |
| `TypeCorrect`, `ListingAgreesHolds` | `[]TypeOK`, `[]ListingAgrees` | - |
| `HistoryAgreesHolds` | `[]HistoryAgrees` | - |
| `DecisionsStay` | `DecisionIsFinal` | - |
| `ExpiriesAreEvidenced` | `ExpiryIsEvidenced` | - |
| `PendingIsNewestHolds` | `[]PendingIsNewest` | no session is lost |
| `ObservedAreActive` | `ObservedIsActive` | no session is lost |

The others hold with any number of processes that
write late after losing the lock. `ListingAgrees` is not inductive: a new expiry must
be the latest event of its job, which needs every event to be at or before the
last applied run and that run to come before the one being applied (`Applied`, with
`Superseded` as the code's guard); that only a prepared discovery run observes jobs or is
pending is `Register`; that two processes never share a run, and a run is in the phase
its process is at, is `Owners`. The two theorems that need the lock add `Serial`: only
the holder is past its start, its run is the newest and still running, and it was the
last to see what it has observed. Without it the late write of a
process that lost its session lands in a run that has already been decided.
`HistoryAgrees` says why a job is active although events call it expired, and that
the counts of a run are those of its events. Its first half forgets too much to be
inductive; `ExpiriesAccounted` keeps, for each expiry of a job that is not expired now, the
later reappearance or the later baseline that accounts for it. The counts need the
events of one run to be one for each job, and finalization to add those of its own run only.

`Publication_proofs`:

| Theorem | States |
|---|---|
| `InvHolds` | `Spec => []Inv`, the inductive invariant |
| `TypeCorrect` | `[]TypeOK` |
| `PublishIsGatedHolds` | `[]PublishIsGated` |
| `StatusIsHonestHolds`, `DeletionsAreEvidenced`, `NewerStays` | `StatusIsHonest`, `DeletionIsEvidence`, `NewerIsNotUndone` |

They hold for any settings, sources, slots, retries and syncs. `PublishIsGated` speaks of
the task results of a cycle; the runner decides by flags. The invariant ties the two: a
source whose flag is still good at phase `n` has good results of all phases before, the
health flag is set only with a good report and gate in `results`, and the main thread's
label is that of the runner's step. For the syncs it says that a snapshot is never newer than
the database and that the sync in its transaction holds the only snapshot that may
still be applied, taken after the last one applied; so what follows a commit is
newer, whoever started it and whether or not its runner still lives. Postings may be
removed, so a snapshot knows of every served row that its posting is there or was removed
(`Known`): what is neither is a posting the snapshot is too old for, and that one is never
applied.

`RawRetention_proofs`:

| Theorem | States |
|---|---|
| `InvHolds` | `Spec => []Inv`, the inductive invariant |
| `ResultsAgreeHolds` | `[]ResultsAgree` |
| `AttemptBudgetHolds`, `MissingIsExplainedHolds` | `[]AttemptBudget`, `[]MissingIsExplained` |
| `ClosedStays`, `RemovalIsSafeHolds` | `ClosedIsFinal`, `RemovalIsSafe` |

They hold for any number of jobs, bodies, processes, versions and generations and for any
combination of faults. The invariant has one part per subject. `Tables` and `Processes` are the
types. `RowsHold` says that attempts are of generations that have been, and what a job's
status implies of its row. `BudgetHolds` counts attempts per generation and version, at most
one of them open. `ClaimsHold` says what a process may rely on: the attempt it claimed is
its own and of the version it runs, or was recovered as stale and closed; in both
cases the hash it holds is that of a generation that has been. A claim must survive being
recovered, otherwise neither the budget nor `SuccessIsStored` is preserved by the late
`complete_parse` of an overtaken process. `ResultIsGenuine` and `ObjectsHold` relate results
and the bucket to rows, `CleaningHolds` what the cleanup verified to what is there when it
removes, `MissingIsExplained` is its own invariant. `Serial` (one process in its
transactions, and it has the lock) is stated only while no session is lost, and `Releases`
and `NewestIsCurrent`, from which `CurrentMatchesRaw` follows, only in the environments that
property promises it for. The proof first states the effect of each transaction on attempts and
results as lemmas, then takes each part of the invariant through all actions.

`Enrichment_proofs`:

| Theorem | States | Extra assumption |
|---|---|---|
| `InvHolds` | `Spec => []Inv`, the inductive invariant | - |
| `LedgerAgreesHolds`, `AttemptBudgetHolds`, `RequestQuotaHolds` | the conjuncts of that name of `QueueAgrees` and `QuotaHolds` | - |
| `QueueAgreesHolds` | `[]QueueAgrees` | - |
| `QuotaHoldsAlways` | `[]QuotaHolds`: requests and tokens, per minute and per day | - |
| `RetriesAloneHolds`, `AnswerIsKeptHolds` | `[]RetriesAlone`, `AnswerIsKept` | - |

They hold for any postings, contents, providers, limits and attempts, and any number of
requests. Queue and ledger are written by three transactions only, `Recover`, `Reserve` and
`Finish`; three small relations (`LedgerKept`, `RowsKept`, `WindowsKept`) say what all other
steps leave alone. The properties are not inductive. That an attempt is counted once needs
requests to be numbered as they are made, with no members before (`LedgerHolds`). That a
settled request leaves no other one in progress for its rows, and that a retried row is in no
later request, needs each row in progress to be in its last request. `AttemptBudget` and
`RetriesAlone` need what the worker remembers between choosing a group and asking
(`WorkerHolds`): the head has the attempts it was selected with, and whoever joined it has
none.

`TokenQuota` compares sums over sets of requests. The module's sums are the fold
over a set of the community modules; the proofs first give that fold the two
facts a sum needs, that one element more adds its term (`SumRecurs`, `SumAdds`) and that
terms that are no larger make no larger sum (`SumIsMonotone`). Induction over the set is
replaced by a smallest counterexample: a subset relation on finite sets is well-founded, so
a set for which the fact fails has a subset for which it fails and no smaller one does
(`SmallestSubset`). `TokensHold` is then its own invariant: a reservation
is checked against the sum it joins, a settlement replaces a charge by one that is no
larger, and time only takes requests out of the windows.

`SqliteState_proofs`:

| Theorem | States |
|---|---|
| `TypeCorrect` | `[]TypeOK` |
| `ReadyHasRowHolds`, `ParseBudgetHolds` | the conjuncts of that name, for any processes |
| `PagesAgreeHolds`, `AttemptsAgreeHolds` | `[]PagesAgree`, `[]AttemptsAgree` |
| `RawIsWrittenOnceHolds`, `ClosedParseIsFinalHolds` | `RawIsWrittenOnce`, `ClosedParseIsFinal` |

They hold for any jobs, bodies, settings and finitely many processes (`ProcsAssumption`: a
crew of one is a crew with one member, and counting members needs a finite set). There are two
invariants. `Inv` holds whatever processes are at work. Its centre is `Memory`, what
a process remembers and later acts on without another look at the tables: the uploads
it set out to recover are marked, the raw rows it set out to audit are there, the attempt
whose page it holds is unmarked until it marks it, its parse try exists. Each part refers to
something that no other process takes back: a marked attempt stays marked, a raw row stays,
a try stays. `Apart` keeps two processes off one attempt. That a raw row names a fetched body
needs every file and every upload to have been fetched by some attempt (`FileIsServed`,
`UploadIsMarked`, `UploadIsOpen`), and the parse budget needs an open try to be the last one
(`LastTryIsOpen`). `Solo` holds besides for one process at a time and is the
ledger of attempts: what may still be open at each step of a recovery (`KnowsUploads`), that
nothing is afterwards but what the process holds itself (`KnowsRest`), that the job of a raw
row is settled, and, where no file is lost, that file and row hold the same body. It does not
survive a second process: recovery closes the attempt of a live fetch.

`DiscoveryCrawl_proofs`:

| Theorem | States |
|---|---|
| `CoverageIsHonestHolds` | `[]CoverageIsHonest` |
| `CompleteSeesAllHolds`, `CompletedMeansEveryTargetHolds`, `BlockEndsDiscoveryHolds` | its conjuncts |
| `SeenIsStoredHolds`, `KeptSessionIsWelcomeHolds` | `[]SeenIsStored`, `[]KeptSessionIsWelcome` |
| `PagerReadsItsPageHolds` | `[]PagerReadsItsPage` |

They hold for any targets, listings of any length, pages of any size, stop limits and tries, over all
settings the module admits. The invariant has five parts. `Loop` and `Rows` are the loop over
targets: those before the current one are settled, those after it untouched,
and while nothing was suspicious or failed all that ended are completed. `Session`: a
browser that met a challenge is noted as blocked until it is closed, over restarts. `OnScreen`
is the client-side listing. The links on the screen are none, those of the page read last, or
those of the page its scripts are heading for (`Shown`); `Headed` says which page that is at each
step of a fetch, so that fresh links under the right page number can only be the page that was
asked for. A page past the end may be headed for as long as it likes, since it is
empty. `Coverage` says which pages were read so far. That reading pages one to the last is reading the
whole listing, and that a page confirmed to be empty is past the last one, are facts about
rounded division, proved as lemmas (`OnTheList`, `OffTheList`, `EmptyIsPastTheEnd`).

Only model-checked: the liveness properties `EveryJobSettles`, `EveryPageSettles`, `PurgeEnds`,
`DiscoveryEnds`, `CycleEnds`, `ServingConverges` and `EveryContentSettles`, which are out of the
prover's reach, and the finding `RecoveredUploadIsStored`, a violation.

## 6. Not modelled

Per component in `PROJECT.json`; in short:

- Site adapters (`sources/`): URL patterns and selectors of each site, stateless. Their
  one decision that matters, the announced last page, is a choice in `DiscoveryCrawl`.
- HTML parsers (`parsing/` other than `service.py`): text extraction, stateless. Whether
  a page parses and whether its quality is accepted are choices of the models.
- Enrichment providers and schema: HTTP calls and validation of answers, choices of
  `Enrichment`. Calibration of estimates, benchmark requests, dry runs and reports of
  the enrichment are left out too.
- Health policy, validation and block detection are pure functions over reports and page
  text; their verdicts are choices (the gate in `Publication`, accepted or blocked pages in
  `DetailCrawl` and `PageFetcher`).
- Supabase set-up, migration and verification: one-off administration.
- Airflow: wiring executed by an external scheduler; the fairness above is what is used of it.
- Entry points, logging, maintenance scripts; the append-only file store and the one-off
  migration of old tables in `state.py`; serving views and search functions.
