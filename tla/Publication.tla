---------------------------- MODULE Publication ----------------------------
(***************************************************************************)
(* The standalone runner (standalone.py) and what it publishes.  A cycle   *)
(* runs the three phases of every source on a pool of threads, then a      *)
(* health report and its gate, then, only if all of that went well, the    *)
(* enrichment and the serving sync, and the raw cleanup.  Every task is a  *)
(* child process with a time-out and retries; a signal sets the stop event *)
(* at any time, and the runner itself may be killed, which leaves its      *)
(* children running.                                                       *)
(*                                                                         *)
(* Abstractions: a task other than the sync is its exit code; what it does *)
(* to the local database is the environment of ServingSync; the interval   *)
(* between cycles, the retry delay and whether the cleanup is due are      *)
(* choices.                                                                *)
(***************************************************************************)
EXTENDS ServingSync

CONSTANTS
    Sources,     \* all the configured sources
    Main,        \* the runner's own thread
    Slots,       \* max_concurrent_sources
    Retries,     \* phase_retries
    Settings     \* a behaviour has one of them

ASSUME ThreadsAssumption == {Main, None} \cap Sources = {} /\ Main # None
ASSUME SlotsAssumption == Slots \in Nat \ {0} /\ Retries \in Nat

VARIABLES
    setting,    \* the setting of this behaviour
    stop,       \* the stop event
    exec,       \* Runner.execute on each thread
    runner,     \* Runner.cycle
    results,    \* exit codes of this cycle's tasks
    latest      \* latest.json: the status of the last cycle

runnerVars == <<stop, exec, runner, results, latest>>
vars == <<syncVars, setting, runnerVars>>

Threads == Sources \cup {Main}
Phases == <<"discovery", "detail", "parse">>
Label == {"report", "gate", "enrichment", "connection", "publish", "cleanup"}
         \cup {"discovery", "detail", "parse"}
Code == {0, 1}   \* 1 stands for every other exit code: 124, 127 and 130 among them
Task == [thread : Threads, label : Label, code : Code]
Setting == [runner : BOOLEAN, failing : BOOLEAN, stopping : BOOLEAN, killing : BOOLEAN,
            changes : Nat, manual : SUBSET Mode]
ASSUME SettingsAssumption == Settings \subseteq Setting

Exec == [pc : {"idle", "start", "child", "delay", "ended"}, label : Label \cup {"none"},
         left : 0 .. Retries, code : Code, sync : Syncs \cup {None}]
RunnerState == [pc : {"off", "ingest", "report", "gate", "enrichment", "connection", "publish",
                      "cleanup", "finish"},
                phase : [Sources -> 0 .. 4], ok : [Sources -> BOOLEAN], health : BOOLEAN]

Idle == [pc |-> "idle", label |-> "none", left |-> 0, code |-> 0, sync |-> None]
Off == [pc |-> "off", phase |-> [x \in Sources |-> 0], ok |-> [x \in Sources |-> TRUE],
        health |-> FALSE]

Init ==
    /\ SyncInit
    /\ setting \in Settings
    /\ stop = FALSE
    /\ exec = [t \in Threads |-> Idle]
    /\ runner = Off /\ results = {} /\ latest = "none"

-----------------------------------------------------------------------------
(* Runner.execute: one task with its retries.                              *)

Begin(t, label, retries) ==
    exec' = [exec EXCEPT ![t] = [pc |-> "start", label |-> label, left |-> retries,
                                 code |-> 1, sync |-> None]]

\* The loop ends on success, on the stop event and after the last retry.
After(t, code) ==
    exec' = [exec EXCEPT ![t] = [@ EXCEPT !.code = code, !.sync = None,
               !.pc = IF code = 0 \/ stop \/ exec[t].left = 0 THEN "ended" ELSE "delay"]]

FreeSyncs == {s \in Syncs : sync[s].pc = "off"}

\* The child is started, unless the stop event is set or that fails.
StartTask(t) ==
    /\ exec[t].pc = "start"
    /\ \/ /\ stop
          /\ exec' = [exec EXCEPT ![t].pc = "ended"]
          /\ UNCHANGED sync
       \/ /\ ~stop /\ exec[t].label # "publish"
          /\ exec' = [exec EXCEPT ![t].pc = "child"]
          /\ UNCHANGED sync
       \/ /\ ~stop /\ exec[t].label = "publish"
          /\ \E s \in FreeSyncs :
               exec' = [exec EXCEPT ![t].pc = "child", ![t].sync = s] /\ Launch(s, "apply")
       \/ /\ ~stop /\ setting.failing
          /\ After(t, 1)
          /\ UNCHANGED sync
    /\ UNCHANGED <<database, mutex, setting, stop, runner, results, latest>>

TaskExits(t) ==
    /\ exec[t].pc = "child" /\ exec[t].label # "publish"
    /\ \E code \in IF setting.failing THEN {0, 1} ELSE {0} : After(t, code)
    /\ UNCHANGED <<syncVars, setting, stop, runner, results, latest>>

SyncExits(t) ==
    /\ exec[t].pc = "child" /\ exec[t].label = "publish"
    /\ sync[exec[t].sync].pc = "ended"
    /\ After(t, sync[exec[t].sync].code)
    /\ sync' = [sync EXCEPT ![exec[t].sync] = NoSync]
    /\ UNCHANGED <<database, mutex, setting, stop, runner, results, latest>>

Overdue_OnlyStopped(t) == stop

\* The stop event is set or the time-out has passed.
Overdue(t) == stop \/ setting.failing

\* The child is terminated and reaped.
Terminate(t) ==
    /\ exec[t].pc = "child" /\ Overdue(t)
    /\ After(t, 1)
    /\ IF exec[t].sync = None THEN UNCHANGED <<sync, mutex>>
       ELSE /\ sync' = [sync EXCEPT ![exec[t].sync] = NoSync]
            /\ mutex' = IF mutex = exec[t].sync THEN None ELSE mutex
    /\ UNCHANGED <<database, setting, stop, runner, results, latest>>

Retry(t) ==
    /\ exec[t].pc = "delay"
    /\ exec' = [exec EXCEPT ![t].pc = "start", ![t].left = @ - 1]
    /\ UNCHANGED <<syncVars, setting, stop, runner, results, latest>>

Execute(t) == StartTask(t) \/ TaskExits(t) \/ SyncExits(t) \/ Terminate(t) \/ Retry(t)

-----------------------------------------------------------------------------
(* Runner.source: the phases of a source, on a thread of the pool.         *)

Done == 4

Ended(t) == exec[t].pc = "ended"
Record(t) == results' = results \cup {[thread |-> t, label |-> exec[t].label, code |-> exec[t].code]}

Busy == {x \in Sources : runner.phase[x] \in 1 .. 3}

\* A phase is run although the one before failed; only the stop event ends it.
StartPhase(x, n, ok) ==
    IF n > 3 \/ stop
      THEN /\ runner' = [runner EXCEPT !.phase[x] = Done, !.ok[x] = ok /\ n > 3]
           /\ exec' = [exec EXCEPT ![x] = Idle]
      ELSE /\ runner' = [runner EXCEPT !.phase[x] = n, !.ok[x] = ok]
           /\ Begin(x, Phases[n], Retries)

StartSource(x) ==
    /\ runner.pc = "ingest" /\ runner.phase[x] = 0
    /\ Cardinality(Busy) < Slots
    /\ StartPhase(x, 1, TRUE)
    /\ UNCHANGED <<syncVars, setting, stop, results, latest>>

Success_LastPhase(x) == exec[x].code = 0

Success(x) == exec[x].code = 0 /\ runner.ok[x]

EndPhase(x) ==
    /\ runner.pc = "ingest" /\ Ended(x)
    /\ Record(x)
    /\ StartPhase(x, runner.phase[x] + 1, Success(x))
    /\ UNCHANGED <<syncVars, setting, stop, latest>>

-----------------------------------------------------------------------------
(* Runner.cycle.                                                           *)

StartCycle ==
    /\ setting.runner /\ runner.pc = "off" /\ ~stop
    /\ runner' = [Off EXCEPT !.pc = "ingest"]
    /\ results' = {}
    /\ UNCHANGED <<syncVars, setting, stop, exec, latest>>

IngestionOk == \A x \in Sources : runner.ok[x]

PublishOk_DespiteIngestion == runner.health /\ ~stop

PublishOk == IngestionOk /\ runner.health /\ ~stop

\* The task of a step is begun; a step that is not taken leads to the next one.
Goto(step, retries) ==
    /\ runner' = [runner EXCEPT !.pc = step]
    /\ Begin(Main, step, retries)

ToCleanup ==
    \/ ~stop /\ Goto("cleanup", 0)
    \/ /\ runner' = [runner EXCEPT !.pc = "finish"]
       /\ exec' = [exec EXCEPT ![Main] = Idle]

ToConnection == IF stop THEN ToCleanup ELSE Goto("connection", Retries)

EndIngestion ==
    /\ runner.pc = "ingest" /\ \A x \in Sources : runner.phase[x] = Done
    /\ IF stop THEN ToCleanup ELSE Goto("report", 0)
    /\ UNCHANGED <<syncVars, setting, stop, results, latest>>

EndReport ==
    /\ runner.pc = "report" /\ Ended(Main) /\ Record(Main)
    /\ IF exec[Main].code = 0 THEN Goto("gate", 0) ELSE ToCleanup
    /\ UNCHANGED <<syncVars, setting, stop, latest>>

\* The verdict of the gate is kept, then publish_ok is decided.
EndGate ==
    /\ runner.pc = "gate" /\ Ended(Main) /\ Record(Main)
    /\ exec[Main].code = 0
    /\ runner' = [runner EXCEPT !.pc = "enrichment", !.health = TRUE]
    /\ exec' = [exec EXCEPT ![Main] = Idle]
    /\ UNCHANGED <<syncVars, setting, stop, latest>>

FailGate ==
    /\ runner.pc = "gate" /\ Ended(Main) /\ Record(Main)
    /\ exec[Main].code # 0
    /\ ToCleanup
    /\ UNCHANGED <<syncVars, setting, stop, latest>>

StartEnrichment ==
    /\ runner.pc = "enrichment" /\ exec[Main].pc = "idle"
    /\ IF PublishOk THEN Goto("enrichment", 0) ELSE ToCleanup
    /\ UNCHANGED <<syncVars, setting, stop, results, latest>>

\* The sync follows although the enrichment failed.
EndEnrichment ==
    /\ runner.pc = "enrichment" /\ Ended(Main) /\ Record(Main)
    /\ ToConnection
    /\ UNCHANGED <<syncVars, setting, stop, latest>>

EndConnection ==
    /\ runner.pc = "connection" /\ Ended(Main) /\ Record(Main)
    /\ IF exec[Main].code = 0 THEN Goto("publish", Retries) ELSE ToCleanup
    /\ UNCHANGED <<syncVars, setting, stop, latest>>

EndPublish ==
    /\ runner.pc = "publish" /\ Ended(Main) /\ Record(Main)
    /\ ToCleanup
    /\ UNCHANGED <<syncVars, setting, stop, latest>>

EndCleanup ==
    /\ runner.pc = "cleanup" /\ Ended(Main) /\ Record(Main)
    /\ runner' = [runner EXCEPT !.pc = "finish"]
    /\ exec' = [exec EXCEPT ![Main] = Idle]
    /\ UNCHANGED <<syncVars, setting, stop, latest>>

Status_TasksOnly ==
    IF stop THEN "interrupted"
    ELSE IF \E task \in results : task.code # 0 /\ task.thread = Main THEN "failed"
    ELSE "completed"

Status ==
    IF stop THEN "interrupted"
    ELSE IF ~IngestionOk \/ ~runner.health \/ \E task \in results : task.code # 0 THEN "failed"
    ELSE "completed"

\* latest.json is replaced by a rename; after a stop the runner exits.
EndCycle ==
    /\ runner.pc = "finish"
    /\ latest' = Status
    /\ runner' = Off
    /\ UNCHANGED <<syncVars, setting, stop, exec, results>>

Cycle ==
    \/ \E x \in Sources : StartSource(x) \/ EndPhase(x)
    \/ EndIngestion \/ EndReport \/ EndGate \/ FailGate \/ StartEnrichment \/ EndEnrichment
    \/ EndConnection \/ EndPublish \/ EndCleanup \/ EndCycle

-----------------------------------------------------------------------------
(* The environment.                                                        *)

Stop ==
    /\ setting.stopping /\ runner.pc # "off" /\ ~stop
    /\ stop' = TRUE
    /\ UNCHANGED <<syncVars, setting, exec, runner, results, latest>>

\* SIGKILL: nothing is saved and the children go on, in sessions of their own;
\* whoever restarts the runner starts a new process.
Kill ==
    /\ setting.killing /\ runner.pc # "off"
    /\ runner' = Off /\ results' = {}
    /\ exec' = [t \in Threads |-> Idle]
    /\ stop' = FALSE
    /\ UNCHANGED <<syncVars, setting, latest>>

\* A sync started by hand or by the other scheduler.
StartManual(s, mode) ==
    /\ mode \in setting.manual /\ sync[s].pc = "off"
    /\ Launch(s, mode)
    /\ UNCHANGED <<database, mutex, setting, runnerVars>>

\* A sync that belongs to no task of this runner ends on its own.
ReapOrphan(s) ==
    /\ sync[s].pc = "ended" /\ \A t \in Threads : exec[t].sync # s
    /\ sync' = [sync EXCEPT ![s] = NoSync]
    /\ UNCHANGED <<database, mutex, setting, runnerVars>>

Ingest ==
    /\ version < setting.changes
    /\ \/ FinalizeCdc \/ ChangeScope
       \/ \E p \in Postings : \/ setting.failing /\ Remap(p)
                              \/ RemovePosting(p)
                              \/ \E c \in Contents \cup {None} : SaveResult(p, c)
    /\ UNCHANGED <<setting, runnerVars>>

Serve(s) == RunSync(s) /\ UNCHANGED <<setting, runnerVars>>

FailSync(s) == setting.failing /\ AbortSync(s) /\ UNCHANGED <<setting, runnerVars>>

Next ==
    \/ \E t \in Threads : Execute(t)
    \/ StartCycle \/ Cycle \/ Stop \/ Kill \/ Ingest
    \/ \E s \in Syncs : \/ Serve(s) \/ FailSync(s) \/ ReapOrphan(s)
                        \/ \E mode \in Mode : StartManual(s, mode)

Spec == Init /\ [][Next]_vars

\* Threads run on and the next cycle comes; a child ends only where nothing fails,
\* but the runner watches its time-out.
Fairness ==
    /\ \A t \in Threads : WF_vars(StartTask(t) \/ SyncExits(t) \/ Terminate(t) \/ Retry(t)
                                  \/ (~setting.failing /\ TaskExits(t)))
    /\ WF_vars(Cycle) /\ WF_vars(StartCycle)
    /\ \A s \in Syncs : WF_vars(Serve(s)) /\ WF_vars(ReapOrphan(s))

FairSpec == Spec /\ Fairness

-----------------------------------------------------------------------------
(* Properties.                                                             *)

\* The rows, the threads and the runner have the values their code gives them, and
\* the lock belongs to a sync in its transaction.
TypeOK ==
    /\ local \in [Postings -> Posting] /\ version \in Nat /\ applied \in Nat
    /\ serving \in [Postings -> ServedRow \cup {None}]
    /\ mutex \in Syncs \cup {None} /\ sync \in [Syncs -> SyncProcess]
    /\ \A s \in Syncs : sync[s].pc \in {"snapshot", "stage", "staged"} <=> mutex = s
    /\ setting \in Setting /\ stop \in BOOLEAN
    /\ exec \in [Threads -> Exec] /\ runner \in RunnerState
    /\ results \subseteq Task
    /\ latest \in {"none", "interrupted", "failed", "completed"}

\* A published job leaves serving.jobs only on evidence: in the snapshot being applied
\* its posting is there and not active, or it is not there because it was removed.  A
\* lost mapping, missing content, or a snapshot too old to know the posting that a newer
\* one published is no evidence (stage_snapshot, reconcile, the advisory lock).
DeletionIsEvidence ==
    [][\A p \in Postings : serving[p] # None /\ serving'[p] = None =>
         \E s \in Syncs : mutex = s /\ LET row == sync[s].snap[p]
                                       IN  row.gone \/ (row.posted /\ row.status # "active")]_vars

\* Of the syncs that run at once, after retries and beside orphans of a killed runner,
\* none applies an older snapshot after a newer one (sync, the advisory lock).
NewerIsNotUndone == [][applied' >= applied]_vars

\* The jobs are published by a runner only in a cycle whose ingestion succeeded in
\* every phase of every source, and whose health report and gate were good (cycle).
PublishIsGated ==
    exec[Main].label \in {"connection", "publish"} =>
        /\ \A x \in Sources, n \in 1 .. 3 : [thread |-> x, label |-> Phases[n], code |-> 0] \in results
        /\ \A step \in {"report", "gate"} : [thread |-> Main, label |-> step, code |-> 0] \in results

\* latest.json says "completed" only of a cycle in which every phase of every source,
\* the report and the gate ran and no task failed (cycle, source).
StatusIsHonest ==
    [][EndCycle /\ latest' = "completed" =>
         /\ \A x \in Sources, n \in 1 .. 3 : [thread |-> x, label |-> Phases[n], code |-> 0] \in results
         /\ [thread |-> Main, label |-> "gate", code |-> 0] \in results
         /\ \A task \in results : task.code = 0]_vars

\* A cycle ends although children hang, tasks are retried and the stop event may come
\* at any time (execute, source, cycle).
CycleEnds == runner.pc # "off" ~> runner.pc = "off"

\* When the local database has stopped changing and nothing fails, the served rows
\* agree with it for good, also where postings were removed (reconcile, the cycles).
ServingConverges ==
    setting.runner /\ ~setting.failing /\ ~setting.stopping /\ ~setting.killing /\ setting.manual = {} =>
        <>[]Verified(serving, local)

=============================================================================
