----------------------------- MODULE ListingCdc -----------------------------
(***************************************************************************)
(* Listing change detection of one source (cdc.py), as the runs of the     *)
(* pipeline drive it: a run registers, lists its targets page by page,     *)
(* records how completely it covered each, and finalizes; only then may a  *)
(* job expire or reappear.                                                 *)
(*                                                                         *)
(* A run holds the source lock, a session of PostgreSQL.  Each write goes  *)
(* through another connection after a SELECT 1 on that session, so when    *)
(* the session is lost one write that was already checked may still land:  *)
(* the bit slip.  Every transaction is one action; a process may die or    *)
(* give up between any two.                                                *)
(***************************************************************************)
EXTENDS Integers, FiniteSets

CONSTANTS
    Runners,    \* processes that run phases of this source
    Jobs,       \* job URLs of the source
    Targets,    \* names of discovery targets
    Scopes,     \* hashes of the business scope of a configuration
    TargetsOf,  \* the enabled targets of a scope: the hash covers their names
    None,
    MaxRuns,    \* BOUND: rows of crawl_runs
    Faults      \* environment faults that may happen

ASSUME JobsAssumption == IsFiniteSet(Jobs)
ASSUME RunnersAssumption == None \notin Runners /\ None \notin Targets
ASSUME ScopesAssumption ==
    /\ None \notin Scopes /\ Scopes # {}
    /\ TargetsOf \in [Scopes -> SUBSET Targets]
ASSUME MaxRunsAssumption == MaxRuns \in Nat
ASSUME FaultsAssumption == Faults \subseteq {"session_lost"}

VARIABLES
    runs,      \* crawl_state.crawl_runs
    cover,     \* crawl_state.discovery_targets, by run and target
    listing,   \* the listing columns of crawl_state.jobs
    source,    \* crawl_state.cdc_sources: scope and last applied run (0: no row)
    events,    \* crawl_state.url_events
    holder,    \* the process whose session holds the source lock
    pc, conf,  \* each process: its next step and its configuration
    rid, target, full,  \* its run, the target it lists, whether it covered it
    slip,      \* a write it checked before its session was lost may still land
    observed   \* HISTORY: the jobs each run has upserted

tables == <<runs, cover, listing, source, events>>
memory == <<conf, rid, target, full>>
vars == <<tables, holder, pc, memory, slip, observed>>

RunId == 1 .. MaxRuns
Decided == {"baseline", "applied", "skipped"}

RunRow == [status : {"none", "running", "ended"},
           phase : {"none", "discovery", "detail"},  \* full and discovery; detail and parse
           scope : Scopes \cup {None},
           cdc : {"not_applicable", "pending"} \cup Decided,
           expired : Nat, reappeared : Nat]
CoverRow == [status : {"none", "running", "completed", "stopped"}, complete : BOOLEAN]
ListingRow == [status : {"unknown", "active", "expired"},
               seen : Nat,  \* last_seen_run_id, 0 before the row exists
               scope : Scopes \cup {None}, by : Nat]
Conf == [phase : {"discovery", "detail"}, enabled : BOOLEAN, scope : Scopes]
Event == [run : RunId, job : Jobs, type : {"EXPIRED", "REAPPEARED"}]

RunTable == [RunId -> RunRow]
CoverTable == [RunId -> [Targets -> CoverRow]]
ListingTable == [Jobs -> ListingRow]

NoConf == CHOOSE c \in Conf : TRUE

Init ==
    /\ runs = [r \in RunId |-> [status |-> "none", phase |-> "none", scope |-> None,
                                cdc |-> "not_applicable", expired |-> 0, reappeared |-> 0]]
    /\ cover = [r \in RunId |-> [t \in Targets |-> [status |-> "none", complete |-> FALSE]]]
    /\ listing = [j \in Jobs |-> [status |-> "unknown", seen |-> 0, scope |-> None, by |-> 0]]
    /\ source = [scope |-> None, applied |-> 0]
    /\ events = {}
    /\ holder = None
    /\ pc = [p \in Runners |-> "idle"]
    /\ conf = [p \in Runners |-> NoConf]
    /\ rid = [p \in Runners |-> 0]
    /\ target = [p \in Runners |-> None]
    /\ full = [p \in Runners |-> FALSE]
    /\ slip = [p \in Runners |-> FALSE]
    /\ observed = [r \in RunId |-> {}]

-----------------------------------------------------------------------------
(* The source lock.  As in DetailCrawl, a definition with a suffix after an *)
(* underscore is the one below it with a plausible bug, for the mutants.     *)

Goto(p, step) == pc' = [pc EXCEPT ![p] = step]

\* A process waits its turn and starts with the configuration it has read.
SourceRun(p) ==
    /\ pc[p] = "idle" /\ Goto(p, "start")
    /\ holder = None /\ holder' = p
    /\ \E c \in Conf : conf' = [conf EXCEPT ![p] = c]
    /\ UNCHANGED <<tables, rid, target, full, slip, observed>>

\* SELECT 1 on the lock's session succeeded before this write, which commits now.
Connect(p) ==
    /\ holder = p \/ slip[p]
    /\ slip' = [slip EXCEPT ![p] = FALSE]

\* The phase is over, or the process dies or finds its session lost: the memory of
\* the process is gone, and the lock with its session.
LeaveRun(p) ==
    /\ pc[p] # "idle" /\ Goto(p, "idle")
    /\ holder' = IF holder = p THEN None ELSE holder
    /\ conf' = [conf EXCEPT ![p] = NoConf]
    /\ rid' = [rid EXCEPT ![p] = 0]
    /\ target' = [target EXCEPT ![p] = None]
    /\ full' = [full EXCEPT ![p] = FALSE]
    /\ slip' = [slip EXCEPT ![p] = FALSE]
    /\ UNCHANGED <<tables, observed>>

LoseSession(p) ==
    /\ "session_lost" \in Faults
    /\ holder = p /\ holder' = None
    /\ \E s \in BOOLEAN : slip' = [slip EXCEPT ![p] = s]
    /\ UNCHANGED <<tables, pc, memory, observed>>

-----------------------------------------------------------------------------
(* The run table.                                                          *)

StartRun(p) ==
    /\ pc[p] = "start" /\ Goto(p, "prepare")
    /\ Connect(p)
    /\ \E r \in RunId :
         /\ runs[r].status = "none"
         /\ \A n \in RunId : n < r => runs[n].status # "none"
         /\ runs' = [runs EXCEPT ![r].status = "running"]
         /\ rid' = [rid EXCEPT ![p] = r]
    /\ UNCHANGED <<cover, listing, source, events, holder, conf, target, full, observed>>

Interrupted_Ended(r, n) == n < r /\ runs[n].cdc = "pending" /\ runs[n].status = "ended"

Interrupted(r, n) == n < r /\ runs[n].cdc = "pending"

\* Pending runs before this one are skipped, whatever its own phase.
PrepareCdcRun(p) ==
    LET r == rid[p]
        c == conf[p]
        on == c.enabled /\ c.phase = "discovery"
    IN  /\ pc[p] = "prepare"
        /\ Goto(p, IF c.phase = "discovery" THEN "targets" ELSE "finish")
        /\ Connect(p)
        /\ runs' = [n \in RunId |->
             IF n = r
               THEN [runs[n] EXCEPT !.phase = c.phase,
                                    !.scope = IF on THEN c.scope ELSE None,
                                    !.cdc = IF on THEN "pending" ELSE "not_applicable"]
             ELSE IF Interrupted(r, n) THEN [runs[n] EXCEPT !.cdc = "skipped"]
             ELSE runs[n]]
        /\ UNCHANGED <<cover, listing, source, events, holder, memory, observed>>

AfterFinish_AllSkipped(r) == [runs EXCEPT ![r].status = "ended", ![r].cdc = "skipped"]

AfterFinish(r) ==
    [runs EXCEPT ![r].status = "ended",
                 ![r].cdc = IF @ = "pending" THEN "skipped" ELSE @]

\* finish_run, after the last phase or after a failure anywhere before it.
FinishRun(p) ==
    /\ pc[p] \in {"prepare", "targets", "pages", "coverage", "finish"}
    /\ Goto(p, "release")
    /\ Connect(p)
    /\ runs' = AfterFinish(rid[p])
    /\ UNCHANGED <<cover, listing, source, events, holder, memory, observed>>

-----------------------------------------------------------------------------
(* Discovery: targets, their pages, their coverage.                        *)

StartDiscoveryTarget(p) ==
    /\ pc[p] = "targets" /\ Goto(p, "pages")
    /\ Connect(p)
    /\ \E t \in TargetsOf[conf[p].scope] :
         /\ cover[rid[p]][t].status = "none"
         /\ cover' = [cover EXCEPT ![rid[p]][t].status = "running"]
         /\ target' = [target EXCEPT ![p] = t]
    /\ UNCHANGED <<runs, listing, source, events, holder, conf, rid, full, observed>>

Sighting_New(r, j) ==
    IF listing[j].seen = 0 THEN [listing[j] EXCEPT !.seen = r] ELSE listing[j]

Sighting(r, j) == [listing[j] EXCEPT !.seen = r]

\* One page of the target: every job on it is last seen by this run.
UpsertDiscoveredJobs(p, S) ==
    /\ pc[p] = "pages"
    /\ Connect(p)
    /\ listing' = [j \in Jobs |->
         IF j \in S THEN Sighting(rid[p], j) ELSE listing[j]]
    /\ observed' = [observed EXCEPT ![rid[p]] = @ \cup S]
    /\ UNCHANGED <<runs, cover, source, events, holder, pc, memory>>

\* The target ends: completed, or stopped (suspicious, failed or blocked).  Only a
\* completed one can be covered.
FinishDiscoveryTarget(p) ==
    /\ pc[p] = "pages"
    /\ Goto(p, IF conf[p].enabled THEN "coverage" ELSE "targets")
    /\ Connect(p)
    /\ \E s \in {"completed", "stopped"}, c \in BOOLEAN :
         /\ c => s = "completed"
         /\ cover' = [cover EXCEPT ![rid[p]][target[p]].status = s]
         /\ full' = [full EXCEPT ![p] = c]
    /\ UNCHANGED <<runs, listing, source, events, holder, conf, rid, target, observed>>

RecordDiscoveryCoverage(p) ==
    /\ pc[p] = "coverage" /\ Goto(p, "targets")
    /\ Connect(p)
    /\ cover' = [cover EXCEPT ![rid[p]][target[p]].complete = full[p]]
    /\ UNCHANGED <<runs, listing, source, events, holder, memory, observed>>

-----------------------------------------------------------------------------
(* Finalization.                                                           *)

Superseded(r) == \E n \in RunId : n > r /\ runs[n].phase = "discovery"

Started(r) == {t \in Targets : cover[r][t].status # "none"}

Covered_Any(r) ==
    \A t \in Started(r) : cover[r][t].status = "completed"

Covered(r) ==
    \A t \in Started(r) : cover[r][t].status = "completed" /\ cover[r][t].complete

\* The evidence of the run is complete.
Qualifies(r) ==
    /\ runs[r].status = "running"
    /\ ~Superseded(r)
    /\ Started(r) # {}
    /\ Started(r) = TargetsOf[runs[r].scope]
    /\ Covered(r)
    /\ \E j \in Jobs : listing[j].seen = r

Baseline(r) == source.scope # runs[r].scope

Tracked(r, status) ==
    {j \in Jobs : listing[j].scope = runs[r].scope /\ listing[j].status = status}

Gone(r) ==
    IF Baseline(r) THEN {} ELSE {j \in Tracked(r, "active") : listing[j].seen # r}

Back(r) ==
    IF Baseline(r) THEN {} ELSE {j \in Tracked(r, "expired") : listing[j].seen = r}

Reconciled_KeepsScope(r, j) ==
    IF listing[j].seen = r
      THEN [listing[j] EXCEPT !.status = "active", !.scope = runs[r].scope, !.by = 0]
    ELSE IF j \in Gone(r) THEN [listing[j] EXCEPT !.status = "expired", !.by = r]
    ELSE listing[j]

\* The listing columns of a job once run r is applied.
Reconciled(r, j) ==
    IF listing[j].seen = r
      THEN [listing[j] EXCEPT !.status = "active", !.scope = runs[r].scope, !.by = 0]
    ELSE IF Baseline(r)
      THEN [listing[j] EXCEPT !.status = "unknown", !.scope = None, !.by = 0]
    ELSE IF j \in Gone(r) THEN [listing[j] EXCEPT !.status = "expired", !.by = r]
    ELSE listing[j]

EventsOf_Gone(r) == [run : {r}, job : Gone(r), type : {"EXPIRED"}]

EventsOf_EverySeen(r) ==
    [run : {r}, job : Gone(r), type : {"EXPIRED"}]
      \cup [run : {r}, job : {j \in Jobs : listing[j].seen = r}, type : {"REAPPEARED"}]

EventsOf(r) ==
    [run : {r}, job : Gone(r), type : {"EXPIRED"}]
      \cup [run : {r}, job : Back(r), type : {"REAPPEARED"}]

ApplyCdc(r) ==
    /\ listing' = [j \in Jobs |-> Reconciled(r, j)]
    /\ events' = events \cup EventsOf(r)
    /\ source' = [scope |-> runs[r].scope, applied |-> r]
    /\ runs' = [runs EXCEPT ![r].cdc = IF Baseline(r) THEN "baseline" ELSE "applied",
                            ![r].expired = Cardinality(Gone(r)),
                            ![r].reappeared = Cardinality(Back(r))]

\* One transaction, once every target has been tried.  A run already decided keeps
\* its decision.
FinalizeCdc(p) ==
    LET r == rid[p]
    IN  /\ pc[p] = "targets" /\ Goto(p, "finish")
        /\ conf[p].enabled
        /\ \A t \in TargetsOf[conf[p].scope] : cover[r][t].status # "none"
        /\ Connect(p)
        /\ \/ /\ runs[r].cdc # "pending"
              /\ UNCHANGED <<runs, listing, source, events>>
           \/ /\ runs[r].cdc = "pending" /\ ~Qualifies(r)
              /\ runs' = [runs EXCEPT ![r].cdc = "skipped"]
              /\ UNCHANGED <<listing, source, events>>
           \/ /\ runs[r].cdc = "pending" /\ Qualifies(r)
              /\ ApplyCdc(r)
        /\ UNCHANGED <<cover, holder, memory, observed>>

-----------------------------------------------------------------------------

Step(p) ==
    \/ SourceRun(p) \/ LeaveRun(p) \/ LoseSession(p)
    \/ StartRun(p) \/ PrepareCdcRun(p) \/ FinishRun(p)
    \/ StartDiscoveryTarget(p) \/ FinishDiscoveryTarget(p) \/ RecordDiscoveryCoverage(p)
    \/ \E S \in SUBSET Jobs \ {{}} : UpsertDiscoveredJobs(p, S)
    \/ FinalizeCdc(p)

Next == \E p \in Runners : Step(p)

Spec == Init /\ [][Next]_vars

-----------------------------------------------------------------------------
(* Properties.                                                             *)

Tables ==
    /\ runs \in RunTable
    /\ cover \in CoverTable
    /\ listing \in ListingTable
    /\ source \in [scope : Scopes \cup {None}, applied : Nat]
    /\ events \subseteq Event
    /\ observed \in [RunId -> SUBSET Jobs]

Processes ==
    /\ holder \in Runners \cup {None}
    /\ pc \in [Runners -> {"idle", "start", "prepare", "targets", "pages", "coverage",
                           "finish", "release"}]
    /\ conf \in [Runners -> Conf]
    /\ rid \in [Runners -> RunId \cup {0}]
    /\ target \in [Runners -> Targets \cup {None}]
    /\ full \in [Runners -> BOOLEAN]
    /\ slip \in [Runners -> BOOLEAN]

TypeOK == Tables /\ Processes

\* A job is tracked only in the scope the source was last reconciled in, and an
\* expired job has the event of the run that expired it as its latest event.
ListingAgrees ==
    \A j \in Jobs :
      /\ listing[j].status = "unknown" <=> listing[j].scope = None
      /\ listing[j].scope # None => listing[j].scope = source.scope
      /\ listing[j].status = "expired" =>
           /\ [run |-> listing[j].by, job |-> j, type |-> "EXPIRED"] \in events
           /\ \A e \in events : e.job = j => e.run <= listing[j].by

\* An active job whose latest event is an expiry owes its status to a later baseline:
\* within a scope, expiry and reappearance alternate.
ActiveIsExplained ==
    \A j \in Jobs : \A e \in events :
      /\ e.job = j /\ e.type = "EXPIRED" /\ listing[j].status = "active"
      => \/ \E f \in events : f.job = j /\ f.type = "REAPPEARED" /\ f.run > e.run
         \/ \E r \in RunId : r > e.run /\ runs[r].cdc = "baseline"

\* The counts a run reports are those of its events.
CountsMatchEvents ==
    \A r \in RunId :
      /\ runs[r].expired = Cardinality({e \in events : e.run = r /\ e.type = "EXPIRED"})
      /\ runs[r].reappeared = Cardinality({e \in events : e.run = r /\ e.type = "REAPPEARED"})

\* Events, counts and statuses tell one story about every run and job.
HistoryAgrees == ActiveIsExplained /\ CountsMatchEvents

\* Only the newest prepared run can be undecided, and only while it is running: what
\* an interrupted run left pending is never applied late.
PendingIsNewest ==
    \A r \in RunId :
      runs[r].cdc = "pending" =>
        /\ runs[r].status = "running"
        /\ \A n \in RunId : n > r => runs[n].phase = "none"

\* A job that the applied run has observed on any page is present in the source: no
\* other writer of last_seen_run_id comes between.
ObservedIsActive ==
    [][source'.applied # source.applied =>
         \A j \in observed[source'.applied] : listing'[j].status = "active"]_vars

\* A job expires only on the evidence of a run that covered every target of its scope,
\* and that no later run has contradicted by observing the job.
ExpiryIsEvidenced ==
    [][\A j \in Jobs :
         listing[j].status # "expired" /\ listing'[j].status = "expired" =>
           LET r == listing'[j].by
           IN  /\ \A t \in TargetsOf[runs[r].scope] :
                    cover[r][t].status = "completed" /\ cover[r][t].complete
               /\ \A n \in RunId : n > r => j \notin observed[n]]_vars

\* A decision is final: neither a failure of the run's details, nor a later run, nor a
\* process that lost its lock revises it.
DecisionIsFinal ==
    [][\A r \in RunId :
         runs[r].cdc \in Decided =>
           /\ runs'[r].cdc = runs[r].cdc
           /\ runs'[r].expired = runs[r].expired
           /\ runs'[r].reappeared = runs[r].reappeared]_vars

-----------------------------------------------------------------------------
(* The inductive invariant behind the safety properties (see                *)
(* ListingCdc_proofs).                                                      *)

\* A process past its start owns a run of its own, in the phase it is at.
Owners ==
    /\ \A p \in Runners :
         /\ rid[p] = 0 <=> pc[p] \in {"idle", "start"}
         /\ rid[p] # 0 => runs[rid[p]].status # "none"
         /\ pc[p] = "prepare" => runs[rid[p]].phase = "none"
         /\ pc[p] \in {"targets", "pages", "coverage"} => runs[rid[p]].phase = "discovery"
    /\ \A p, q \in Runners : rid[p] # 0 /\ rid[p] = rid[q] => p = q

\* What a run may have done before it was prepared for it.
Register ==
    \A r \in RunId :
      /\ runs[r].status = "none" => runs[r].phase = "none"
      /\ runs[r].phase = "none" => runs[r].cdc = "not_applicable"
      /\ runs[r].cdc = "pending" => runs[r].phase = "discovery" /\ runs[r].scope \in Scopes
      /\ observed[r] # {} => runs[r].phase = "discovery"

\* The last applied run is a decided discovery, and no event is later.
Applied ==
    /\ source.applied # 0 =>
         /\ source.applied \in RunId
         /\ runs[source.applied].phase = "discovery"
         /\ runs[source.applied].cdc \in {"baseline", "applied"}
    /\ \A e \in events : e.run <= source.applied

\* A job with an expiry behind it is expired still, or a later event or a later
\* baseline accounts for its being active or forgotten.
ExpiriesAccounted ==
    \A j \in Jobs : \A e \in events :
      /\ e.job = j /\ e.type = "EXPIRED" /\ listing[j].status # "expired"
      => \/ \E f \in events : f.job = j /\ f.type = "REAPPEARED" /\ f.run > e.run
         \/ \E r \in RunId : r > e.run /\ runs[r].cdc = "baseline"

Bookkeeping == TypeOK /\ Owners /\ Register /\ Applied /\ ListingAgrees

\* While no session is lost, only the holder is past its start, its run is the newest
\* and still running, and what it has observed it was the last to see.
Serial ==
    /\ \A p \in Runners :
         /\ ~slip[p]
         /\ pc[p] # "idle" => holder = p
         /\ pc[p] \notin {"idle", "start", "release"} => runs[rid[p]].status = "running"
    /\ \A p \in Runners : rid[p] # 0 =>
         /\ \A n \in RunId : n > rid[p] => runs[n].status = "none"
         /\ \A j \in observed[rid[p]] : listing[j].seen = rid[p]
    /\ \A r, n \in RunId : n > r /\ runs[r].status = "none" => runs[n].status = "none"

=============================================================================
