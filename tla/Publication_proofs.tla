------------------------- MODULE Publication_proofs -------------------------
(***************************************************************************)
(* Proofs about Publication, for any postings, contents, sources, threads  *)
(* of the pool, retries and number of syncs at once.                       *)
(***************************************************************************)
EXTENDS Publication, TLAPS

-----------------------------------------------------------------------------
(* The invariant, in two halves that share no variable but "sync", whose   *)
(* rows the runner only launches and resets.                               *)

InTransaction == {"snapshot", "stage", "staged"}

\* The database, the lock and the syncs have the values their code gives them, and
\* the lock belongs to the sync that is in its transaction.
SyncTyped ==
  /\ local \in [Postings -> Posting] /\ version \in Nat /\ applied \in Nat
  /\ serving \in [Postings -> ServedRow \cup {None}]
  /\ mutex \in Syncs \cup {None} /\ sync \in [Syncs -> SyncProcess]
  /\ \A s \in Syncs : sync[s].pc \in InTransaction <=> mutex = s

\* A posting that is, or was, in the database.
Known(row) == row.posted \/ row.gone

\* A snapshot that may be applied is at least as new as what was applied, no newer than
\* the local database, and knows every posting that is served; postings stay known.
SnapshotsInOrder ==
  /\ applied <= version
  /\ \A p \in Postings : serving[p] # None => Known(local[p])
  /\ \A s \in Syncs : sync[s].pc \in {"stage", "staged"} =>
       /\ sync[s].snap \in [Postings -> Posting]
       /\ applied <= sync[s].at /\ sync[s].at <= version
       /\ \A p \in Postings :
            /\ Known(sync[s].snap[p]) => Known(local[p])
            /\ serving[p] # None => Known(sync[s].snap[p])
  /\ \A s \in Syncs : sync[s].pc = "staged" => ~Refuses(sync[s].snap)

SyncInv == SyncTyped /\ SnapshotsInOrder

\* The runner has the values its code gives it.
RunnerTyped ==
  /\ setting \in Setting /\ stop \in BOOLEAN
  /\ exec \in [Threads -> Exec] /\ runner \in RunnerState
  /\ results \subseteq Task
  /\ latest \in {"none", "interrupted", "failed", "completed"}

\* A thread that waits has a retry left, and one that publishes has its sync.
ThreadsHold ==
  \A t \in Threads :
    /\ exec[t].pc = "delay" => exec[t].left > 0
    /\ exec[t].pc = "child" /\ exec[t].label = "publish" => exec[t].sync \in Syncs

Passed(t, label) == [thread |-> t, label |-> label, code |-> 0] \in results

\* A source's thread is at the phase the runner thinks, and the source is well so far
\* only if the phases behind it have passed.
SourcesHold ==
  \A x \in Sources :
    /\ exec[x].pc = "idle" <=> runner.phase[x] \in {0, Done}
    /\ runner.phase[x] \in 1 .. 3 => exec[x].label = Phases[runner.phase[x]]
    /\ runner.ok[x] => \A n \in 1 .. 3 : n < runner.phase[x] => Passed(x, Phases[n])
    /\ runner.pc = "off" => runner.phase[x] = 0
    /\ runner.pc \notin {"off", "ingest"} => runner.phase[x] = Done

\* The runner's own thread is at the step the runner is at, and the steps before it have
\* passed.
StepsHold ==
  /\ IF exec[Main].pc = "idle" THEN exec[Main].label = "none"
     ELSE exec[Main].label = runner.pc /\ runner.pc \notin {"off", "ingest", "finish"}
  /\ runner.pc = "gate" \/ runner.health => Passed(Main, "report")
  /\ runner.health => Passed(Main, "gate")
  /\ runner.pc \in {"connection", "publish"} \/ (runner.pc = "enrichment" /\ exec[Main].pc # "idle")
       => IngestionOk /\ runner.health

RunnerInv == RunnerTyped /\ ThreadsHold /\ SourcesHold /\ StepsHold

Inv == SyncInv /\ RunnerInv

-----------------------------------------------------------------------------
(* The syncs.                                                              *)

LEMMA NoSyncType == NoSync \in SyncProcess /\ NoSync.pc = "off"
BY DEF NoSync, SyncProcess, Mode

\* A sync that is outside its transaction, or leaves it, gives the lock up.
LEMMA ResetKeeps ==
  ASSUME SyncInv, UNCHANGED database, NEW s \in Syncs, NEW row \in SyncProcess,
         row.pc \notin InTransaction, sync' = [sync EXCEPT ![s] = row],
         mutex' = IF mutex = s THEN None ELSE mutex
  PROVE  SyncInv'
<1> USE DEF database
<1>1. /\ sync' \in [Syncs -> SyncProcess] /\ mutex' \in Syncs \cup {None}
      /\ sync'[s] = row /\ \A x \in Syncs : x # s => sync'[x] = sync[x]
  BY DEF SyncInv, SyncTyped
<1>2. \A x \in Syncs : sync'[x].pc \in InTransaction <=> mutex' = x
  BY <1>1, NoneAssumption DEF SyncInv, SyncTyped
<1>3. SyncTyped'
  BY <1>1, <1>2 DEF SyncInv, SyncTyped
<1>4. SnapshotsInOrder'
  BY <1>1 DEF SyncInv, SnapshotsInOrder, InTransaction, Refuses
<1>5. QED BY <1>3, <1>4 DEF SyncInv

LEMMA EndSyncKeeps ==
  ASSUME SyncInv, UNCHANGED database, NEW s \in Syncs, NEW code \in {0, 1}, EndSync(s, code)
  PROVE  SyncInv'
<1> DEFINE row == [NoSync EXCEPT !.pc = "ended", !.code = code]
<1>1. row \in SyncProcess /\ row.pc \notin InTransaction
  BY DEF NoSync, SyncProcess, Mode, InTransaction
<1>2. QED BY <1>1, ResetKeeps DEF EndSync

LEMMA LaunchKeeps ==
  ASSUME SyncInv, UNCHANGED <<database, mutex>>, NEW s \in Syncs, sync[s].pc = "off",
         NEW mode \in {"apply", "dry_run", "verify_only"}, Launch(s, mode)
  PROVE  SyncInv'
<1> DEFINE row == [NoSync EXCEPT !.pc = "lock", !.mode = mode]
<1>1. row \in SyncProcess /\ row.pc \notin InTransaction
  BY DEF NoSync, SyncProcess, Mode, InTransaction
<1>2. mutex # s
  BY DEF SyncInv, SyncTyped, InTransaction
<1>3. QED BY <1>1, <1>2, ResetKeeps DEF Launch

\* The lock is taken and the transaction begins.
LEMMA TryLockKeeps ==
  ASSUME SyncInv, NEW s \in Syncs, TryLock(s)
  PROVE  SyncInv'
<1>1. CASE LockFree
  <2>1. /\ mutex' = s /\ sync' = [sync EXCEPT ![s].pc = "snapshot"] /\ UNCHANGED database
        /\ mutex = None /\ sync[s].pc = "lock"
    BY <1>1 DEF TryLock, LockFree
  <2>2. /\ sync' \in [Syncs -> SyncProcess]
        /\ sync'[s].pc = "snapshot" /\ \A x \in Syncs : x # s => sync'[x] = sync[x]
    BY <2>1 DEF SyncInv, SyncTyped, SyncProcess, Mode
  <2>3. \A x \in Syncs : sync'[x].pc \in InTransaction <=> mutex' = x
    BY <2>1, <2>2, NoneAssumption DEF SyncInv, SyncTyped, InTransaction
  <2>4. SyncTyped'
    BY <2>1, <2>2, <2>3 DEF SyncInv, SyncTyped, database
  <2>5. SnapshotsInOrder'
    BY <2>1, <2>2 DEF SyncInv, SnapshotsInOrder, database, Refuses
  <2>6. QED BY <2>4, <2>5 DEF SyncInv
<1>2. CASE ~LockFree
  <2>1. EndSync(s, 1) /\ UNCHANGED database
    BY <1>2 DEF TryLock
  <2>2. QED BY <2>1, EndSyncKeeps
<1>3. QED BY <1>1, <1>2

LEMMA TakeSnapshotKeeps ==
  ASSUME SyncInv, NEW s \in Syncs, TakeSnapshot(s)
  PROVE  SyncInv'
<1>1. /\ sync' = [sync EXCEPT ![s].pc = "stage", ![s].snap = local, ![s].at = version]
      /\ UNCHANGED <<database, mutex>> /\ sync[s].pc = "snapshot"
  BY DEF TakeSnapshot
<1>2. /\ sync' \in [Syncs -> SyncProcess]
      /\ sync'[s].pc = "stage" /\ sync'[s].snap = local /\ sync'[s].at = version
      /\ \A x \in Syncs : x # s => sync'[x] = sync[x]
  <2> DEFINE Snap == {None} \cup [Postings -> Posting]
  <2>1. /\ local \in Snap /\ version \in Nat /\ sync \in [Syncs -> SyncProcess]
        /\ sync[s] \in SyncProcess
    BY DEF SyncInv, SyncTyped
  <2>2. SyncProcess = [pc : {"off", "lock", "snapshot", "stage", "staged", "ended"},
                       mode : {"apply", "dry_run", "verify_only"}, snap : Snap,
                       at : Nat, code : {0, 1}]
    BY DEF SyncProcess, Mode
  <2> HIDE DEF Snap
  <2>3. QED BY <1>1, <2>1, <2>2
<1>3. \A x \in Syncs : sync'[x].pc \in InTransaction <=> mutex' = x
  BY <1>1, <1>2 DEF SyncInv, SyncTyped, InTransaction
<1>4. SyncTyped'
  BY <1>1, <1>2, <1>3 DEF SyncInv, SyncTyped, database
<1>5. /\ local \in [Postings -> Posting] /\ version \in Nat /\ applied \in Nat
  BY DEF SyncInv, SyncTyped
<1>6. SnapshotsInOrder'
  BY <1>1, <1>2, <1>5 DEF SyncInv, SnapshotsInOrder, database, Refuses
<1>7. QED BY <1>4, <1>6 DEF SyncInv

LEMMA StageSnapshotKeeps ==
  ASSUME SyncInv, NEW s \in Syncs, StageSnapshot(s)
  PROVE  SyncInv'
<1>1. CASE Refuses(sync[s].snap)
  <2>1. EndSync(s, 1) /\ UNCHANGED database
    BY <1>1 DEF StageSnapshot
  <2>2. QED BY <2>1, EndSyncKeeps
<1>2. CASE ~Refuses(sync[s].snap)
  <2>1. /\ sync' = [sync EXCEPT ![s].pc = "staged"]
        /\ UNCHANGED <<database, mutex>> /\ sync[s].pc = "stage"
    BY <1>2 DEF StageSnapshot
  <2>2. /\ sync' \in [Syncs -> SyncProcess]
        /\ sync'[s].pc = "staged" /\ sync'[s].snap = sync[s].snap /\ sync'[s].at = sync[s].at
        /\ \A x \in Syncs : x # s => sync'[x] = sync[x]
    BY <2>1 DEF SyncInv, SyncTyped, SyncProcess, Mode
  <2>3. SyncTyped'
    BY <2>1, <2>2 DEF SyncInv, SyncTyped, database, InTransaction
  <2>4. SnapshotsInOrder'
    BY <1>2, <2>1, <2>2 DEF SyncInv, SnapshotsInOrder, database, Refuses
  <2>5. QED BY <2>3, <2>4 DEF SyncInv
<1>3. QED BY <1>1, <1>2

LEMMA PreviewKeeps ==
  ASSUME SyncInv, NEW s \in Syncs, Preview(s)
  PROVE  SyncInv'
<1>1. UNCHANGED database /\ \E code \in {0, 1} : EndSync(s, code)
  BY DEF Preview
<1>2. QED BY <1>1, EndSyncKeeps

\* What reconciliation leaves of a row.
LEMMA ReconciledRows ==
  ASSUME NEW snap \in [Postings -> Posting], NEW rows \in [Postings -> ServedRow \cup {None}],
         NEW p \in Postings
  PROVE  /\ Reconciled(rows, snap)[p] \in ServedRow \cup {None}
         /\ p \notin Active(snap) => Reconciled(rows, snap)[p] = None
         /\ rows[p] # None /\ p \in Active(snap) => Reconciled(rows, snap)[p] # None
<1> DEFINE up == Upserted(rows, snap)
           re == Refreshed(up, snap)
<1>1. up[p] \in ServedRow \cup {None} /\ (rows[p] # None => up[p] # None)
  <2>1. CASE p \in Publishable(snap)
    <3>1. up[p] = [content |-> snap[p].content, seen |-> snap[p].seen]
      BY <2>1 DEF Upserted
    <3>2. snap[p] \in Posting /\ snap[p].content # None
      BY <2>1 DEF Publishable
    <3>3. [content |-> snap[p].content, seen |-> snap[p].seen] \in ServedRow
      BY <3>2 DEF ServedRow, Posting
    <3>4. QED BY <3>1, <3>3, NoneAssumption
  <2>2. CASE p \notin Publishable(snap)
    BY <2>2 DEF Upserted
  <2>3. QED BY <2>1, <2>2
<1>2. re[p] \in ServedRow \cup {None} /\ (up[p] # None => re[p] # None)
  <2>1. CASE p \in Active(snap) \ Publishable(snap) /\ up[p] # None
    <3>1. re[p] = [up[p] EXCEPT !.seen = snap[p].seen]
      BY <2>1 DEF Refreshed
    <3>2. snap[p] \in Posting /\ up[p] \in ServedRow
      BY <1>1, <2>1
    <3>3. re[p] \in ServedRow
      BY <3>1, <3>2 DEF ServedRow, Posting
    <3>4. QED BY <3>3, NoneAssumption
  <2>2. CASE ~(p \in Active(snap) \ Publishable(snap) /\ up[p] # None)
    <3>1. re[p] = up[p]
      BY <2>2 DEF Refreshed
    <3>2. QED BY <1>1, <3>1
  <2>3. QED BY <2>1, <2>2
<1>3. Reconciled(rows, snap)[p] = IF p \in Active(snap) THEN re[p] ELSE None
  BY DEF Reconciled, Deleted
<1> HIDE DEF up, re
<1>4. QED BY <1>1, <1>2, <1>3

LEMMA ReconcileKeeps ==
  ASSUME SyncInv, NEW s \in Syncs, Reconcile(s)
  PROVE  SyncInv'
<1> DEFINE snap == sync[s].snap
           rows == Reconciled(serving, snap)
<1>1. CASE ~Verified(rows, snap)
  <2>1. EndSync(s, 1) /\ UNCHANGED database
    BY <1>1 DEF Reconcile, database
  <2>2. QED BY <2>1, EndSyncKeeps
<1>2. CASE Verified(rows, snap)
  <2>1. /\ serving' = rows /\ applied' = sync[s].at /\ UNCHANGED <<local, version>>
        /\ sync[s].pc = "staged"
    BY <1>2 DEF Reconcile
  <2>2. PICK code \in {0, 1} : EndSync(s, code)
    BY <1>2 DEF Reconcile
  <2>3. /\ snap \in [Postings -> Posting] /\ applied <= sync[s].at /\ sync[s].at <= version
        /\ \A p \in Postings : Known(snap[p]) => Known(local[p])
        /\ mutex = s /\ serving \in [Postings -> ServedRow \cup {None}]
        /\ version \in Nat /\ sync[s].at \in Nat
    BY <2>1 DEF SyncInv, SyncTyped, SnapshotsInOrder, InTransaction, SyncProcess, Mode
  <2>4. rows \in [Postings -> ServedRow \cup {None}]
    <3>1. \A p \in Postings : rows[p] \in ServedRow \cup {None}
      BY <2>3, ReconciledRows
    <3>2. rows = [p \in Postings |-> rows[p]]
      BY DEF Reconciled, Deleted
    <3> HIDE DEF rows
    <3>3. QED BY <3>1, <3>2
  <2>5. \A p \in Postings : rows[p] # None => Known(local[p])
    BY <2>3, ReconciledRows DEF Active, Known
  <2> DEFINE row == [NoSync EXCEPT !.pc = "ended", !.code = code]
  <2>6. row \in SyncProcess /\ row.pc \notin InTransaction
    BY DEF NoSync, SyncProcess, Mode, InTransaction
  <2>7. /\ sync' = [sync EXCEPT ![s] = row] /\ mutex' = None
    BY <2>2, <2>3 DEF EndSync
  <2> HIDE DEF row, rows, snap
  <2>8. /\ sync' \in [Syncs -> SyncProcess] /\ sync'[s] = row
        /\ \A x \in Syncs : x # s => sync'[x] = sync[x]
    BY <2>6, <2>7 DEF SyncInv, SyncTyped
  <2>9. \A x \in Syncs : sync'[x].pc \notin InTransaction
    BY <2>3, <2>6, <2>8 DEF SyncInv, SyncTyped
  <2>10. SyncTyped'
    BY <2>1, <2>3, <2>4, <2>7, <2>8, <2>9, NoneAssumption DEF SyncInv, SyncTyped
  <2>11. SnapshotsInOrder'
    BY <2>1, <2>3, <2>5, <2>9 DEF SyncInv, SnapshotsInOrder, InTransaction
  <2>12. QED BY <2>10, <2>11 DEF SyncInv
<1>3. QED BY <1>1, <1>2

LEMMA RunSyncKeeps ==
  ASSUME SyncInv, NEW s \in Syncs, RunSync(s)
  PROVE  SyncInv'
BY TryLockKeeps, TakeSnapshotKeeps, StageSnapshotKeeps, PreviewKeeps, ReconcileKeeps DEF RunSync

\* A commit of the local database forgets no posting.
LEMMA CommitKeeps ==
  ASSUME SyncInv, NEW l \in [Postings -> Posting], LocalCommit(l),
         \A p \in Postings : Known(local[p]) => Known(l[p])
  PROVE  SyncInv'
<1>1. /\ local' = l /\ version' = version + 1
      /\ serving' = serving /\ applied' = applied /\ mutex' = mutex /\ sync' = sync
  BY DEF LocalCommit
<1>2. SyncTyped'
  BY <1>1 DEF SyncInv, SyncTyped
<1>3. \A s \in Syncs : sync[s].at \in Nat
  BY DEF SyncInv, SyncTyped, SyncProcess, Mode
<1>4. SnapshotsInOrder'
  BY <1>1, <1>3 DEF SyncInv, SyncTyped, SnapshotsInOrder, Refuses
<1>5. QED BY <1>2, <1>4 DEF SyncInv

LEMMA IngestKeeps ==
  ASSUME SyncInv, Ingest
  PROVE  SyncInv'
<1>0. local \in [Postings -> Posting] /\ version \in Nat
  BY DEF SyncInv, SyncTyped
<1>1. CASE FinalizeCdc
  <2>1. PICK S \in SUBSET Postings : LocalCommit([p \in Postings |->
            IF p \in S THEN [local[p] EXCEPT !.status = "active", !.seen = version + 1]
            ELSE [local[p] EXCEPT !.status = IF @ = "active" THEN "expired" ELSE @]])
    BY <1>1 DEF FinalizeCdc
  <2> DEFINE l == [p \in Postings |->
            IF p \in S THEN [local[p] EXCEPT !.status = "active", !.seen = version + 1]
            ELSE [local[p] EXCEPT !.status = IF @ = "active" THEN "expired" ELSE @]]
  <2>2. ASSUME NEW p \in Postings PROVE l[p] \in Posting /\ (Known(local[p]) => Known(l[p]))
    <3>1. local[p] \in Posting
      BY <1>0
    <3>2. CASE p \in S
      <4>1. l[p] = [local[p] EXCEPT !.status = "active", !.seen = version + 1]
        BY <3>2
      <4> DEFINE a == [local[p] EXCEPT !.status = "active"]
      <4>2. a \in Posting /\ a.posted = local[p].posted /\ a.gone = local[p].gone
        BY <3>1 DEF Posting
      <4>3. l[p] = [a EXCEPT !.seen = version + 1]
        BY <4>1
      <4> HIDE DEF l, a
      <4>4. QED BY <1>0, <4>2, <4>3 DEF Posting, Known
    <3>3. CASE p \notin S /\ local[p].status = "active"
      <4>1. l[p] = [local[p] EXCEPT !.status = "expired"]
        BY <3>3
      <4> HIDE DEF l
      <4>2. QED BY <3>1, <4>1 DEF Posting, Known
    <3>4. CASE p \notin S /\ local[p].status # "active"
      <4>1. l[p] = [local[p] EXCEPT !.status = local[p].status]
        BY <3>4
      <4> HIDE DEF l
      <4>2. QED BY <3>1, <4>1 DEF Posting, Known
    <3>5. QED BY <3>2, <3>3, <3>4
  <2>3. l \in [Postings -> Posting]
    BY <2>2
  <2> HIDE DEF l
  <2>4. QED BY <2>1, <2>2, <2>3, CommitKeeps DEF l
<1>2. CASE ChangeScope
  <2> DEFINE l == [p \in Postings |-> [local[p] EXCEPT !.status = "unknown"]]
  <2>1. \A p \in Postings : l[p] \in Posting /\ (Known(local[p]) => Known(l[p]))
    BY <1>0 DEF Posting, Known
  <2>2. l \in [Postings -> Posting]
    BY <2>1
  <2>3. LocalCommit(l)
    BY <1>2 DEF ChangeScope
  <2> HIDE DEF l
  <2>4. QED BY <2>1, <2>2, <2>3, CommitKeeps
<1>3. ASSUME NEW q \in Postings, Remap(q) PROVE SyncInv'
  <2> DEFINE l == [local EXCEPT ![q].mapped = ~@]
  <2>1. /\ l \in [Postings -> Posting]
        /\ \A p \in Postings : Known(local[p]) => Known(l[p])
    BY <1>0 DEF Posting, Known
  <2>2. LocalCommit(l)
    BY <1>3 DEF Remap
  <2> HIDE DEF l
  <2>3. QED BY <2>1, <2>2, CommitKeeps
<1>4. ASSUME NEW q \in Postings, NEW c \in Contents \cup {None}, SaveResult(q, c) PROVE SyncInv'
  <2> DEFINE l == [local EXCEPT ![q].posted = TRUE, ![q].content = c]
  <2>1. /\ l \in [Postings -> Posting]
        /\ \A p \in Postings : Known(local[p]) => Known(l[p])
    BY <1>0 DEF Posting, Known
  <2>2. LocalCommit(l)
    BY <1>4 DEF SaveResult
  <2> HIDE DEF l
  <2>3. QED BY <2>1, <2>2, CommitKeeps
<1>5. ASSUME NEW q \in Postings, RemovePosting(q) PROVE SyncInv'
  <2> DEFINE l == [local EXCEPT ![q].posted = FALSE, ![q].gone = TRUE, ![q].content = None]
  <2>1. /\ l \in [Postings -> Posting]
        /\ \A p \in Postings : Known(local[p]) => Known(l[p])
    BY <1>0 DEF Posting, Known
  <2>2. LocalCommit(l)
    BY <1>5 DEF RemovePosting
  <2> HIDE DEF l
  <2>3. QED BY <2>1, <2>2, CommitKeeps
<1>6. QED BY <1>1, <1>2, <1>3, <1>4, <1>5 DEF Ingest

-----------------------------------------------------------------------------
(* The threads.                                                            *)

LEMMA MainIsNoSource == Main \in Threads /\ Main \notin Sources /\ Sources \subseteq Threads
BY ThreadsAssumption DEF Threads

LEMMA IdleType == Idle \in Exec /\ Idle.pc = "idle" /\ Idle.label = "none"
BY SlotsAssumption DEF Idle, Exec, Code

LEMMA PhaseLabels ==
  ASSUME NEW n \in 1 .. 3
  PROVE  Phases[n] \in {"discovery", "detail", "parse"} /\ Phases[n] \in Label
BY DEF Phases, Label

\* A task that is recorded is a task of this cycle.
LEMMA RecordType ==
  ASSUME RunnerInv, NEW t \in Threads, Ended(t), Record(t)
  PROVE  /\ results \subseteq results' /\ results' \subseteq Task
         /\ exec[t].code = 0 => [thread |-> t, label |-> exec[t].label, code |-> 0] \in results'
<1>1. exec[t].label \in Label
  <2>1. CASE t \in Sources
    <3>1. runner.phase[t] \in 0 .. 4 /\ runner.phase[t] \notin {0, Done}
      BY <2>1 DEF RunnerInv, RunnerTyped, RunnerState, SourcesHold, Ended
    <3>2. runner.phase[t] \in 1 .. 3
      BY <3>1 DEF Done
    <3>3. exec[t].label = Phases[runner.phase[t]]
      BY <2>1, <3>2 DEF RunnerInv, SourcesHold
    <3>4. QED BY <3>2, <3>3, PhaseLabels
  <2>2. CASE t = Main
    <3>1. exec[t].label = runner.pc /\ runner.pc \notin {"off", "ingest", "finish"}
      BY <2>2 DEF RunnerInv, StepsHold, Ended
    <3>2. QED BY <3>1 DEF RunnerInv, RunnerTyped, RunnerState, Label
  <2>3. QED BY <2>1, <2>2 DEF Threads
<1>2. exec[t].code \in Code
  BY DEF RunnerInv, RunnerTyped, Exec
<1>3. QED BY <1>1, <1>2 DEF Record, Task, RunnerInv, RunnerTyped

LEMMA BeginEffect ==
  ASSUME RunnerTyped, NEW t \in Threads, NEW label \in Label, NEW retries \in 0 .. Retries,
         Begin(t, label, retries)
  PROVE  /\ exec' \in [Threads -> Exec]
         /\ exec'[t].pc = "start" /\ exec'[t].label = label
         /\ \A u \in Threads : u # t => exec'[u] = exec[u]
<1> DEFINE new == [pc |-> "start", label |-> label, left |-> retries, code |-> 1, sync |-> None]
<1>1. new \in Exec /\ new.pc = "start" /\ new.label = label
  BY DEF Exec, Code
<1>2. exec' = [exec EXCEPT ![t] = new]
  BY DEF Begin
<1> HIDE DEF new
<1>3. QED BY <1>1, <1>2 DEF RunnerTyped

LEMMA AfterEffect ==
  ASSUME RunnerTyped, NEW t \in Threads, NEW code \in Code, After(t, code)
  PROVE  /\ exec' \in [Threads -> Exec]
         /\ exec'[t].label = exec[t].label /\ exec'[t].pc \in {"ended", "delay"}
         /\ exec'[t].pc = "delay" => exec'[t].left > 0
         /\ \A u \in Threads : u # t => exec'[u] = exec[u]
<1> DEFINE after == IF code = 0 \/ stop \/ exec[t].left = 0 THEN "ended" ELSE "delay"
           a == [exec[t] EXCEPT !.code = code]
           b == [a EXCEPT !.sync = None]
           new == [b EXCEPT !.pc = after]
<1>1. exec[t] \in Exec
  BY DEF RunnerTyped
<1>2. exec' = [exec EXCEPT ![t] = new]
  BY DEF After
<1>3. after \in {"ended", "delay"} /\ (after = "delay" => exec[t].left # 0)
  OBVIOUS
<1> HIDE DEF after
<1>4. a \in Exec /\ a.label = exec[t].label /\ a.left = exec[t].left
  BY <1>1 DEF Exec
<1> HIDE DEF a
<1>5. b \in Exec /\ b.label = exec[t].label /\ b.left = exec[t].left
  BY <1>4 DEF Exec
<1> HIDE DEF b
<1>6. /\ new \in Exec /\ new.label = exec[t].label /\ new.pc = after
      /\ new.left = exec[t].left
  BY <1>3, <1>5 DEF Exec
<1>7. exec[t].left \in Nat
  BY <1>1, SlotsAssumption DEF Exec
<1> HIDE DEF new
<1>8. QED BY <1>2, <1>3, <1>6, <1>7 DEF RunnerTyped

\* A thread that goes on with its task changes nothing the runner relies on.
LEMMA ThreadKeeps ==
  ASSUME RunnerInv, NEW t \in Threads, UNCHANGED <<setting, stop, runner, results, latest>>,
         exec' \in [Threads -> Exec], exec[t].pc # "idle", exec'[t].pc # "idle",
         exec'[t].label = exec[t].label, exec'[t].pc = "delay" => exec'[t].left > 0,
         exec'[t].pc = "child" /\ exec'[t].label = "publish" => exec'[t].sync \in Syncs,
         \A u \in Threads : u # t => exec'[u] = exec[u]
  PROVE  RunnerInv'
<1>1. RunnerTyped'
  BY DEF RunnerInv, RunnerTyped
<1>2. ThreadsHold'
  BY DEF RunnerInv, ThreadsHold
<1>3. \A u \in Threads : (exec'[u].pc = "idle" <=> exec[u].pc = "idle") /\ exec'[u].label = exec[u].label
  OBVIOUS
<1>4. SourcesHold'
  BY <1>3, MainIsNoSource DEF RunnerInv, SourcesHold, Passed
<1>5. StepsHold'
  BY <1>3, MainIsNoSource DEF RunnerInv, StepsHold, Passed, IngestionOk
<1>6. QED BY <1>1, <1>2, <1>4, <1>5 DEF RunnerInv

LEMMA StartTaskKeeps ==
  ASSUME RunnerInv, NEW t \in Threads, StartTask(t)
  PROVE  RunnerInv'
<1>1. /\ UNCHANGED <<setting, stop, runner, results, latest>> /\ exec[t].pc = "start"
      /\ exec[t] \in Exec /\ exec \in [Threads -> Exec]
  BY DEF StartTask, RunnerInv, RunnerTyped
<1>2. CASE exec' = [exec EXCEPT ![t].pc = "ended"]
  <2>1. exec' \in [Threads -> Exec] /\ exec'[t].pc = "ended" /\ exec'[t].label = exec[t].label
    BY <1>1, <1>2 DEF Exec
  <2>2. \A u \in Threads : u # t => exec'[u] = exec[u]
    BY <1>1, <1>2
  <2>3. QED BY <1>1, <2>1, <2>2, ThreadKeeps
<1>3. CASE exec[t].label # "publish" /\ exec' = [exec EXCEPT ![t].pc = "child"]
  <2>1. exec' \in [Threads -> Exec] /\ exec'[t].pc = "child" /\ exec'[t].label = exec[t].label
    BY <1>1, <1>3 DEF Exec
  <2>2. \A u \in Threads : u # t => exec'[u] = exec[u]
    BY <1>1, <1>3
  <2>3. QED BY <1>1, <1>3, <2>1, <2>2, ThreadKeeps
<1>4. ASSUME NEW s \in FreeSyncs, exec' = [exec EXCEPT ![t].pc = "child", ![t].sync = s]
      PROVE  RunnerInv'
  <2>0. s \in Syncs
    BY DEF FreeSyncs
  <2>1. /\ exec' \in [Threads -> Exec] /\ exec'[t].pc = "child" /\ exec'[t].label = exec[t].label
        /\ exec'[t].sync \in Syncs
    BY <1>1, <1>4, <2>0 DEF Exec
  <2>2. \A u \in Threads : u # t => exec'[u] = exec[u]
    BY <1>1, <1>4
  <2>3. QED BY <1>1, <2>1, <2>2, ThreadKeeps
<1>5. CASE After(t, 1)
  <2>1. RunnerTyped /\ 1 \in Code
    BY DEF RunnerInv, Code
  <2>2. QED BY <1>1, <1>5, <2>1, AfterEffect, ThreadKeeps
<1>6. QED BY <1>2, <1>3, <1>4, <1>5 DEF StartTask

LEMMA ExecuteKeeps ==
  ASSUME RunnerInv, SyncInv, NEW t \in Threads, Execute(t)
  PROVE  RunnerInv'
<1>0. RunnerTyped /\ {0, 1} \subseteq Code
  BY DEF RunnerInv, Code
<1>1. CASE StartTask(t)
  BY <1>1, StartTaskKeeps
<1>2. ASSUME NEW code \in Code, exec[t].pc # "idle", After(t, code),
             UNCHANGED <<setting, stop, runner, results, latest>>
      PROVE  RunnerInv'
  BY <1>0, <1>2, AfterEffect, ThreadKeeps
<1>3. CASE TaskExits(t)
  <2>1. PICK code \in Code : After(t, code)
    BY <1>3 DEF TaskExits, Code
  <2>2. QED BY <1>2, <1>3, <2>1 DEF TaskExits
<1>4. CASE SyncExits(t)
  <2>1. exec[t].sync \in Syncs
    BY <1>4 DEF SyncExits, RunnerInv, ThreadsHold
  <2>2. sync[exec[t].sync].code \in Code
    BY <2>1 DEF SyncInv, SyncTyped, SyncProcess, Mode, Code
  <2>3. QED BY <1>2, <1>4, <2>2 DEF SyncExits
<1>5. CASE Terminate(t)
  BY <1>0, <1>2, <1>5 DEF Terminate
<1>6. CASE Retry(t)
  <2>1. exec[t] \in Exec /\ exec[t].left > 0 /\ exec[t].pc = "delay"
    BY <1>6 DEF Retry, RunnerInv, RunnerTyped, ThreadsHold
  <2>2. exec[t].left - 1 \in 0 .. Retries
    BY <2>1, SlotsAssumption DEF Exec
  <2> DEFINE new == [pc |-> "start", label |-> exec[t].label, left |-> exec[t].left - 1,
                     code |-> exec[t].code, sync |-> exec[t].sync]
  <2>3. new \in Exec /\ new.pc = "start" /\ new.label = exec[t].label
    BY <2>1, <2>2 DEF Exec
  <2>4. exec' = [exec EXCEPT ![t] = new]
    BY <1>6, <2>1 DEF Retry, RunnerInv, RunnerTyped, Exec
  <2> HIDE DEF new
  <2>5. /\ exec' \in [Threads -> Exec] /\ exec'[t] = new
        /\ \A u \in Threads : u # t => exec'[u] = exec[u]
    BY <2>3, <2>4 DEF RunnerInv, RunnerTyped
  <2>6. QED BY <1>6, <2>1, <2>3, <2>5, ThreadKeeps DEF Retry
<1>7. QED BY <1>1, <1>3, <1>4, <1>5, <1>6 DEF Execute

-----------------------------------------------------------------------------
(* The sources.                                                            *)

\* The thread of a source goes on to a phase if the ones before it were dealt with.
LEMMA StartPhaseKeeps ==
  ASSUME RunnerInv, NEW x \in Sources, runner.pc = "ingest", NEW n \in 1 .. 4,
         NEW ok \in BOOLEAN, StartPhase(x, n, ok), UNCHANGED <<setting, stop, latest>>,
         results \subseteq results', results' \subseteq Task,
         ok => \A k \in 1 .. 3 : k < n => [thread |-> x, label |-> Phases[k], code |-> 0] \in results'
  PROVE  RunnerInv'
<1> USE MainIsNoSource
<1>0. RunnerTyped /\ runner \in RunnerState
  BY DEF RunnerInv, RunnerTyped
<1>1. PICK m \in 1 .. 4, well \in BOOLEAN :
        /\ runner' = [runner EXCEPT !.phase[x] = m, !.ok[x] = well]
        /\ m = n \/ m = Done
        /\ well => ok /\ (m = n \/ n > 3)
        /\ exec' \in [Threads -> Exec]
        /\ \A u \in Threads : u # x => exec'[u] = exec[u]
        /\ IF m = Done THEN exec'[x].pc = "idle"
           ELSE exec'[x].pc = "start" /\ exec'[x].label = Phases[m]
  <2>1. CASE n > 3 \/ stop
    <3>1. /\ runner' = [runner EXCEPT !.phase[x] = Done, !.ok[x] = ok /\ n > 3]
          /\ exec' = [exec EXCEPT ![x] = Idle]
      BY <2>1 DEF StartPhase
    <3>2. /\ exec' \in [Threads -> Exec] /\ exec'[x].pc = "idle"
          /\ \A u \in Threads : u # x => exec'[u] = exec[u]
      BY <1>0, <3>1, IdleType DEF RunnerTyped
    <3>3. Done \in 1 .. 4 /\ (ok /\ n > 3) \in BOOLEAN
      BY DEF Done
    <3>4. QED BY <3>1, <3>2, <3>3
  <2>2. CASE ~(n > 3 \/ stop)
    <3>1. /\ runner' = [runner EXCEPT !.phase[x] = n, !.ok[x] = ok]
          /\ Begin(x, Phases[n], Retries)
      BY <2>2 DEF StartPhase
    <3>2. n \in 1 .. 3 /\ n # Done /\ Phases[n] \in Label /\ Retries \in 0 .. Retries
      BY <2>2, PhaseLabels, SlotsAssumption DEF Done
    <3>3. /\ exec' \in [Threads -> Exec] /\ exec'[x].pc = "start"
          /\ exec'[x].label = Phases[n] /\ \A u \in Threads : u # x => exec'[u] = exec[u]
      BY <1>0, <3>1, <3>2, BeginEffect
    <3>4. n \in 1 .. 4 /\ ok \in BOOLEAN
      OBVIOUS
    <3> WITNESS n \in 1 .. 4, ok \in BOOLEAN
    <3>5. QED BY <3>1, <3>2, <3>3
  <2>3. QED BY <2>1, <2>2
<1>2. /\ runner'.pc = "ingest" /\ runner'.health = runner.health
      /\ runner'.phase[x] = m /\ runner'.ok[x] = well
      /\ \A y \in Sources : y # x => runner'.phase[y] = runner.phase[y] /\ runner'.ok[y] = runner.ok[y]
      /\ runner' \in RunnerState
  <2> DEFINE a == [runner EXCEPT !.phase[x] = m]
  <2>1. /\ a \in RunnerState /\ a.pc = "ingest" /\ a.health = runner.health
        /\ a.phase[x] = m /\ a.ok = runner.ok
        /\ \A y \in Sources : y # x => a.phase[y] = runner.phase[y]
    BY <1>0 DEF RunnerState
  <2>2. runner' = [a EXCEPT !.ok[x] = well]
    BY <1>1
  <2> HIDE DEF a
  <2>3. QED BY <2>1, <2>2 DEF RunnerState
<1>3. RunnerTyped'
  BY <1>0, <1>1, <1>2 DEF RunnerTyped
<1>4. ThreadsHold'
  BY <1>1 DEF RunnerInv, ThreadsHold
<1>5. ASSUME NEW y \in Sources
      PROVE  /\ exec'[y].pc = "idle" <=> runner'.phase[y] \in {0, Done}
             /\ runner'.phase[y] \in 1 .. 3 => exec'[y].label = Phases[runner'.phase[y]]
             /\ runner'.ok[y] => \A k \in 1 .. 3 : k < runner'.phase[y] =>
                  [thread |-> y, label |-> Phases[k], code |-> 0] \in results'
  <2>1. CASE y = x
    <3>1. exec'[y].pc = "idle" <=> m \in {0, Done}
      BY <1>1, <2>1 DEF Done
    <3>2. m \in 1 .. 3 => exec'[y].label = Phases[m]
      BY <1>1, <2>1 DEF Done
    <3>3. well => \A k \in 1 .. 3 : k < m =>
            [thread |-> y, label |-> Phases[k], code |-> 0] \in results'
      BY <1>1, <2>1 DEF Done
    <3>4. QED BY <1>2, <2>1, <3>1, <3>2, <3>3
  <2>2. CASE y # x
    <3>1. exec'[y] = exec[y] /\ runner'.phase[y] = runner.phase[y] /\ runner'.ok[y] = runner.ok[y]
      BY <1>1, <1>2, <2>2
    <3>2. QED BY <3>1 DEF RunnerInv, SourcesHold, Passed
  <2>3. QED BY <2>1, <2>2
<1>6. SourcesHold'
  BY <1>2, <1>5 DEF SourcesHold, Passed
<1>7. exec'[Main] = exec[Main]
  BY <1>1
<1>8. StepsHold'
  BY <1>2, <1>7 DEF RunnerInv, StepsHold, Passed
<1>9. QED BY <1>3, <1>4, <1>6, <1>8 DEF RunnerInv

LEMMA StartSourceKeeps ==
  ASSUME RunnerInv, NEW x \in Sources, StartSource(x)
  PROVE  RunnerInv'
<1>1. /\ runner.pc = "ingest" /\ StartPhase(x, 1, TRUE)
      /\ UNCHANGED <<setting, stop, results, latest>> /\ results \subseteq Task
  BY DEF StartSource, RunnerInv, RunnerTyped
<1>2. /\ 1 \in 1 .. 4 /\ TRUE \in BOOLEAN /\ results \subseteq results' /\ results' \subseteq Task
      /\ \A k \in 1 .. 3 : ~(k < 1)
  BY <1>1
<1>3. QED BY <1>1, <1>2, StartPhaseKeeps

LEMMA EndPhaseKeeps ==
  ASSUME RunnerInv, NEW x \in Sources, EndPhase(x)
  PROVE  RunnerInv'
<1>1. /\ runner.pc = "ingest" /\ Ended(x) /\ Record(x)
      /\ StartPhase(x, runner.phase[x] + 1, Success(x)) /\ UNCHANGED <<setting, stop, latest>>
  BY DEF EndPhase
<1>2. x \in Threads /\ runner.phase[x] \in 0 .. 4 /\ runner.ok[x] \in BOOLEAN
  BY MainIsNoSource DEF RunnerInv, RunnerTyped, RunnerState
<1>3. runner.phase[x] \in 1 .. 3 /\ exec[x].label = Phases[runner.phase[x]]
  BY <1>1, <1>2 DEF RunnerInv, SourcesHold, Ended, Done
<1> DEFINE n == runner.phase[x] + 1
           ok == Success(x)
<1>4. n \in 1 .. 4 /\ ok \in BOOLEAN
  BY <1>2, <1>3 DEF Success
<1>5. /\ results \subseteq results' /\ results' \subseteq Task
      /\ exec[x].code = 0 => [thread |-> x, label |-> Phases[runner.phase[x]], code |-> 0] \in results'
  BY <1>1, <1>2, <1>3, RecordType
<1>6. ASSUME ok, NEW k \in 1 .. 3, k < n
      PROVE  [thread |-> x, label |-> Phases[k], code |-> 0] \in results'
  <2>1. CASE k = runner.phase[x]
    BY <1>5, <1>6, <2>1 DEF Success
  <2>2. CASE k # runner.phase[x]
    <3>1. k < runner.phase[x] /\ runner.ok[x]
      BY <1>3, <1>6, <2>2 DEF Success
    <3>2. QED BY <1>5, <3>1 DEF RunnerInv, SourcesHold, Passed
  <2>3. QED BY <2>1, <2>2
<1>7. StartPhase(x, n, ok)
  BY <1>1
<1> HIDE DEF n, ok
<1>8. QED BY <1>1, <1>4, <1>5, <1>6, <1>7, StartPhaseKeeps

-----------------------------------------------------------------------------
(* The cycle.                                                              *)

\* The runner goes on to a step whose condition holds.
LEMMA GotoKeeps ==
  ASSUME RunnerInv, NEW retries \in 0 .. Retries,
         NEW step \in {"report", "gate", "enrichment", "connection", "publish", "cleanup"},
         Goto(step, retries), UNCHANGED <<setting, stop, latest>>,
         \A x \in Sources : runner.phase[x] = Done,
         results \subseteq results', results' \subseteq Task,
         step = "gate" => [thread |-> Main, label |-> "report", code |-> 0] \in results',
         step \in {"enrichment", "connection", "publish"} => IngestionOk /\ runner.health
  PROVE  RunnerInv'
<1> USE MainIsNoSource
<1>0. RunnerTyped /\ runner \in RunnerState /\ step \in Label
  BY DEF RunnerInv, RunnerTyped, Label
<1>1. /\ exec' \in [Threads -> Exec] /\ exec'[Main].pc = "start" /\ exec'[Main].label = step
      /\ \A u \in Threads : u # Main => exec'[u] = exec[u]
  BY <1>0, BeginEffect DEF Goto
<1>2. /\ runner'.pc = step /\ runner'.health = runner.health /\ runner'.ok = runner.ok
      /\ runner'.phase = runner.phase /\ runner' \in RunnerState
  BY <1>0 DEF Goto, RunnerState
<1>3. RunnerTyped'
  BY <1>0, <1>1, <1>2 DEF RunnerTyped
<1>4. ThreadsHold'
  BY <1>1 DEF RunnerInv, ThreadsHold
<1>5. \A x \in Sources : exec'[x] = exec[x]
  BY <1>1
<1>6. SourcesHold'
  BY <1>2, <1>5 DEF RunnerInv, SourcesHold, Passed
<1>7. StepsHold'
  BY <1>1, <1>2 DEF RunnerInv, StepsHold, Passed, IngestionOk
<1>8. QED BY <1>3, <1>4, <1>6, <1>7 DEF RunnerInv

\* The runner's thread comes to rest, at a step that needs no task yet.
LEMMA RestKeeps ==
  ASSUME RunnerInv, NEW step \in {"enrichment", "finish"}, NEW health \in BOOLEAN,
         runner' = [runner EXCEPT !.pc = step, !.health = health],
         exec' = [exec EXCEPT ![Main] = Idle], UNCHANGED <<setting, stop, latest>>,
         \A x \in Sources : runner.phase[x] = Done,
         results \subseteq results', results' \subseteq Task,
         health => /\ [thread |-> Main, label |-> "report", code |-> 0] \in results'
                   /\ [thread |-> Main, label |-> "gate", code |-> 0] \in results'
  PROVE  RunnerInv'
<1> USE MainIsNoSource
<1>0. RunnerTyped /\ runner \in RunnerState
  BY DEF RunnerInv, RunnerTyped
<1>1. /\ exec' \in [Threads -> Exec] /\ exec'[Main] = Idle
      /\ \A u \in Threads : u # Main => exec'[u] = exec[u]
  BY <1>0, IdleType DEF RunnerTyped
<1>2. /\ runner'.pc = step /\ runner'.health = health /\ runner'.ok = runner.ok
      /\ runner'.phase = runner.phase /\ runner' \in RunnerState
  BY <1>0 DEF RunnerState
<1>3. RunnerTyped'
  BY <1>0, <1>1, <1>2 DEF RunnerTyped
<1>4. ThreadsHold'
  BY <1>1, IdleType DEF RunnerInv, ThreadsHold
<1>5. \A x \in Sources : exec'[x] = exec[x]
  BY <1>1
<1>6. SourcesHold'
  BY <1>2, <1>5 DEF RunnerInv, SourcesHold, Passed
<1>7. StepsHold'
  BY <1>1, <1>2, IdleType DEF StepsHold, Passed
<1>8. QED BY <1>3, <1>4, <1>6, <1>7 DEF RunnerInv

LEMMA ToCleanupKeeps ==
  ASSUME RunnerInv, ToCleanup, UNCHANGED <<setting, stop, latest>>,
         \A x \in Sources : runner.phase[x] = Done,
         results \subseteq results', results' \subseteq Task
  PROVE  RunnerInv'
<1>1. CASE Goto("cleanup", 0)
  BY <1>1, GotoKeeps, SlotsAssumption
<1>2. CASE runner' = [runner EXCEPT !.pc = "finish"] /\ exec' = [exec EXCEPT ![Main] = Idle]
  <2>1. /\ runner.health \in BOOLEAN
        /\ runner' = [runner EXCEPT !.pc = "finish", !.health = runner.health]
    BY <1>2 DEF RunnerInv, RunnerTyped, RunnerState
  <2>2. runner.health => /\ [thread |-> Main, label |-> "report", code |-> 0] \in results'
                         /\ [thread |-> Main, label |-> "gate", code |-> 0] \in results'
    BY DEF RunnerInv, StepsHold, Passed
  <2>3. QED BY <1>2, <2>1, <2>2, RestKeeps
<1>3. QED BY <1>1, <1>2 DEF ToCleanup

LEMMA CycleKeeps ==
  ASSUME RunnerInv, Cycle
  PROVE  RunnerInv'
<1>0. /\ Retries \in 0 .. Retries /\ 0 \in 0 .. Retries /\ results \subseteq Task
      /\ Main \in Threads
  BY SlotsAssumption, MainIsNoSource DEF RunnerInv, RunnerTyped
<1>1. ASSUME NEW x \in Sources, StartSource(x) \/ EndPhase(x) PROVE RunnerInv'
  BY <1>1, StartSourceKeeps, EndPhaseKeeps
<1>2. CASE EndIngestion
  <2>1. \A x \in Sources : runner.phase[x] = Done
    BY <1>2 DEF EndIngestion
  <2>2. Goto("report", 0) \/ ToCleanup
    BY <1>2 DEF EndIngestion
  <2>3. UNCHANGED <<setting, stop, results, latest>>
    BY <1>2 DEF EndIngestion
  <2>4. QED BY <1>0, <2>1, <2>2, <2>3, GotoKeeps, ToCleanupKeeps
\* A step of the runner's thread ends.
<1>3. ASSUME runner.pc \notin {"off", "ingest"}, Ended(Main), Record(Main)
      PROVE  /\ \A x \in Sources : runner.phase[x] = Done
             /\ results \subseteq results' /\ results' \subseteq Task
             /\ exec[Main].code = 0 =>
                  [thread |-> Main, label |-> runner.pc, code |-> 0] \in results'
  <2>1. exec[Main].label = runner.pc
    BY <1>3 DEF RunnerInv, StepsHold, Ended
  <2>2. QED BY <1>0, <1>3, <2>1, RecordType DEF RunnerInv, SourcesHold
<1>4. CASE EndReport
  <2>1. CASE exec[Main].code = 0
    BY <1>0, <1>3, <1>4, <2>1, GotoKeeps DEF EndReport
  <2>2. CASE exec[Main].code # 0
    BY <1>3, <1>4, <2>2, ToCleanupKeeps DEF EndReport
  <2>3. QED BY <2>1, <2>2
<1>5. CASE EndGate
  <2>1. [thread |-> Main, label |-> "report", code |-> 0] \in results'
    BY <1>3, <1>5 DEF EndGate, RunnerInv, StepsHold, Passed
  <2>2. QED BY <1>3, <1>5, <2>1, RestKeeps DEF EndGate
<1>6. CASE FailGate
  BY <1>3, <1>6, ToCleanupKeeps DEF FailGate
<1>7. CASE StartEnrichment
  <2>1. /\ UNCHANGED <<setting, stop, results, latest>>
        /\ \A x \in Sources : runner.phase[x] = Done
    BY <1>7 DEF StartEnrichment, RunnerInv, SourcesHold
  <2>2. CASE PublishOk
    <3>1. Goto("enrichment", 0) /\ IngestionOk /\ runner.health
      BY <1>7, <2>2 DEF StartEnrichment, PublishOk
    <3>2. QED BY <1>0, <2>1, <3>1, GotoKeeps
  <2>3. CASE ~PublishOk
    <3>1. ToCleanup
      BY <1>7, <2>3 DEF StartEnrichment
    <3>2. QED BY <1>0, <2>1, <3>1, ToCleanupKeeps
  <2>4. QED BY <2>2, <2>3
<1>8. CASE EndEnrichment
  <2>1. IngestionOk /\ runner.health
    BY <1>8 DEF EndEnrichment, Ended, RunnerInv, StepsHold
  <2>2. CASE stop
    BY <1>3, <1>8, <2>2, ToCleanupKeeps DEF EndEnrichment, ToConnection
  <2>3. CASE ~stop
    BY <1>0, <1>3, <1>8, <2>1, <2>3, GotoKeeps DEF EndEnrichment, ToConnection
  <2>4. QED BY <2>2, <2>3
<1>9. CASE EndConnection
  <2>1. IngestionOk /\ runner.health
    BY <1>9 DEF EndConnection, RunnerInv, StepsHold
  <2>2. CASE exec[Main].code = 0
    BY <1>0, <1>3, <1>9, <2>1, <2>2, GotoKeeps DEF EndConnection
  <2>3. CASE exec[Main].code # 0
    BY <1>3, <1>9, <2>3, ToCleanupKeeps DEF EndConnection
  <2>4. QED BY <2>2, <2>3
<1>10. CASE EndPublish
  BY <1>3, <1>10, ToCleanupKeeps DEF EndPublish
<1>11. CASE EndCleanup
  <2>1. /\ runner.health \in BOOLEAN
        /\ runner' = [runner EXCEPT !.pc = "finish", !.health = runner.health]
    BY <1>11 DEF EndCleanup, RunnerInv, RunnerTyped, RunnerState
  <2>2. runner.health => /\ [thread |-> Main, label |-> "report", code |-> 0] \in results'
                         /\ [thread |-> Main, label |-> "gate", code |-> 0] \in results'
    BY <1>3, <1>11 DEF EndCleanup, RunnerInv, StepsHold, Passed
  <2>3. QED BY <1>3, <1>11, <2>1, <2>2, RestKeeps DEF EndCleanup
<1>12. CASE EndCycle
  <2>1. /\ runner' = Off /\ UNCHANGED <<setting, stop, exec, results>> /\ latest' = Status
        /\ runner.pc = "finish"
    BY <1>12 DEF EndCycle
  <2>2. exec[Main].pc = "idle" /\ \A x \in Sources : exec[x].pc = "idle"
    BY <2>1 DEF RunnerInv, StepsHold, SourcesHold
  <2>3. /\ Off \in RunnerState /\ Off.pc = "off" /\ ~Off.health
        /\ \A x \in Sources : Off.phase[x] = 0
    BY DEF Off, RunnerState
  <2>4. latest' \in {"none", "interrupted", "failed", "completed"}
    BY <2>1 DEF Status
  <2>5. RunnerTyped' /\ ThreadsHold'
    BY <2>1, <2>3, <2>4 DEF RunnerInv, RunnerTyped, ThreadsHold
  <2>6. SourcesHold'
    BY <2>1, <2>2, <2>3 DEF SourcesHold, Passed, Done
  <2>7. StepsHold'
    BY <2>1, <2>2, <2>3 DEF RunnerInv, StepsHold, Passed
  <2>8. QED BY <2>5, <2>6, <2>7 DEF RunnerInv
<1>13. QED BY <1>1, <1>2, <1>4, <1>5, <1>6, <1>7, <1>8, <1>9, <1>10, <1>11, <1>12 DEF Cycle

-----------------------------------------------------------------------------
(* The composition.                                                        *)

LEMMA StartCycleKeeps ==
  ASSUME RunnerInv, StartCycle
  PROVE  RunnerInv'
<1>1. /\ runner' = [Off EXCEPT !.pc = "ingest"] /\ results' = {}
      /\ UNCHANGED <<setting, stop, exec, latest>> /\ runner.pc = "off"
  BY DEF StartCycle
<1>2. exec[Main].pc = "idle" /\ \A x \in Sources : exec[x].pc = "idle"
  BY <1>1 DEF RunnerInv, StepsHold, SourcesHold
<1>3. /\ runner' \in RunnerState /\ runner'.pc = "ingest" /\ ~runner'.health
      /\ \A x \in Sources : runner'.phase[x] = 0
  <2>1. runner' = [pc |-> "ingest", phase |-> [x \in Sources |-> 0],
                   ok |-> [x \in Sources |-> TRUE], health |-> FALSE]
    BY <1>1 DEF Off
  <2>2. /\ [x \in Sources |-> 0] \in [Sources -> 0 .. 4]
        /\ [x \in Sources |-> TRUE] \in [Sources -> BOOLEAN]
    OBVIOUS
  <2>3. QED BY <2>1, <2>2 DEF RunnerState
<1>4. RunnerTyped' /\ ThreadsHold'
  BY <1>1, <1>3 DEF RunnerInv, RunnerTyped, ThreadsHold
<1>5. SourcesHold' /\ StepsHold'
  BY <1>1, <1>2, <1>3 DEF RunnerInv, SourcesHold, StepsHold, Passed
<1>6. QED BY <1>4, <1>5 DEF RunnerInv

LEMMA KillKeeps ==
  ASSUME RunnerInv, Kill
  PROVE  RunnerInv'
<1>1. /\ runner' = Off /\ results' = {} /\ exec' = [t \in Threads |-> Idle] /\ stop' = FALSE
      /\ UNCHANGED <<setting, latest>>
  BY DEF Kill
<1>2. /\ Off \in RunnerState /\ Off.pc = "off" /\ ~Off.health
      /\ \A x \in Sources : Off.phase[x] = 0
  BY DEF Off, RunnerState
<1>3. \A t \in Threads : exec'[t] = Idle
  BY <1>1
<1>4. exec' \in [Threads -> Exec]
  BY <1>1, IdleType
<1>5. RunnerTyped' /\ ThreadsHold'
  BY <1>1, <1>2, <1>3, <1>4, IdleType DEF RunnerInv, RunnerTyped, ThreadsHold
<1>6. SourcesHold' /\ StepsHold'
  BY <1>1, <1>2, <1>3, IdleType, MainIsNoSource DEF SourcesHold, StepsHold, Passed
<1>7. QED BY <1>5, <1>6 DEF RunnerInv

LEMMA InitInv == Init => Inv
<1> SUFFICES ASSUME Init PROVE Inv
  OBVIOUS
<1>1. /\ local = [p \in Postings |-> [posted |-> FALSE, gone |-> FALSE, status |-> "unknown", seen |-> 0,
                                      content |-> None, mapped |-> TRUE]]
      /\ version = 0 /\ serving = [p \in Postings |-> None] /\ applied = 0
      /\ mutex = None /\ sync = [s \in Syncs |-> NoSync]
  BY DEF Init, SyncInit
<1>2. local \in [Postings -> Posting]
  <2> DEFINE fresh == [posted |-> FALSE, gone |-> FALSE, status |-> "unknown", seen |-> 0,
                       content |-> None, mapped |-> TRUE]
  <2>1. fresh \in Posting
    BY DEF Posting
  <2>2. local = [p \in Postings |-> fresh]
    BY <1>1
  <2> HIDE DEF fresh
  <2>3. QED BY <2>1, <2>2
<1>3. \A s \in Syncs : sync[s] = NoSync /\ s # None
  BY <1>1, NoneAssumption
<1>4. sync \in [Syncs -> SyncProcess]
  BY <1>1, NoSyncType
<1>5. serving \in [Postings -> ServedRow \cup {None}] /\ \A p \in Postings : serving[p] = None
  BY <1>1
<1>6. SyncInv
  <2>1. \A s \in Syncs : sync[s].pc = "off" /\ mutex # s
    BY <1>1, <1>3, NoSyncType
  <2>2. SyncTyped
    BY <1>1, <1>2, <1>4, <1>5, <2>1 DEF SyncTyped, InTransaction
  <2>3. SnapshotsInOrder
    BY <1>1, <1>5, <2>1 DEF SnapshotsInOrder
  <2>4. QED BY <2>2, <2>3 DEF SyncInv
<1>7. /\ setting \in Setting /\ stop = FALSE /\ exec = [t \in Threads |-> Idle]
      /\ runner = Off /\ results = {} /\ latest = "none"
  BY SettingsAssumption DEF Init
<1>8. \A t \in Threads : exec[t] = Idle
  BY <1>7
<1>9. exec \in [Threads -> Exec]
  BY <1>7, IdleType
<1>10. /\ Off \in RunnerState /\ Off.pc = "off" /\ ~Off.health
       /\ \A x \in Sources : Off.phase[x] = 0
  BY DEF Off, RunnerState
<1>11. RunnerTyped /\ ThreadsHold
  BY <1>7, <1>8, <1>9, <1>10, IdleType DEF RunnerTyped, ThreadsHold
<1>12. SourcesHold /\ StepsHold
  BY <1>7, <1>8, <1>10, IdleType, MainIsNoSource DEF SourcesHold, StepsHold, Passed
<1>13. QED BY <1>6, <1>11, <1>12 DEF Inv, RunnerInv

\* A step that leaves the variables of one half alone keeps that half.
LEMMA SyncStutter ==
  ASSUME SyncInv, UNCHANGED syncVars
  PROVE  SyncInv'
BY DEF SyncInv, SyncTyped, SnapshotsInOrder, syncVars, database, Refuses

LEMMA RunnerStutter ==
  ASSUME RunnerInv, UNCHANGED <<setting, runnerVars>>
  PROVE  RunnerInv'
BY DEF RunnerInv, RunnerTyped, ThreadsHold, SourcesHold, StepsHold, Passed, IngestionOk,
       runnerVars

\* What the runner's threads do to the syncs.
LEMMA ExecuteKeepsSyncs ==
  ASSUME Inv, NEW t \in Threads, Execute(t)
  PROVE  SyncInv'
<1>0. SyncInv /\ exec[t] \in Exec
  BY DEF Inv, RunnerInv, RunnerTyped
<1>1. ASSUME NEW s \in Syncs, UNCHANGED database, sync' = [sync EXCEPT ![s] = NoSync],
             mutex' = IF mutex = s THEN None ELSE mutex
      PROVE  SyncInv'
  BY <1>0, <1>1, NoSyncType, ResetKeeps DEF InTransaction
<1>2. CASE StartTask(t)
  <2>1. UNCHANGED <<database, mutex>>
    BY <1>2 DEF StartTask
  <2>2. CASE UNCHANGED sync
    BY <1>0, <2>1, <2>2, SyncStutter DEF syncVars
  <2>3. ASSUME NEW s \in FreeSyncs, Launch(s, "apply") PROVE SyncInv'
    BY <1>0, <2>1, <2>3, LaunchKeeps DEF FreeSyncs
  <2>4. QED BY <1>2, <2>2, <2>3 DEF StartTask
<1>3. CASE TaskExits(t)
  BY <1>0, <1>3, SyncStutter DEF TaskExits
<1>4. CASE SyncExits(t)
  <2>1. exec[t].sync \in Syncs
    BY <1>4 DEF SyncExits, Inv, RunnerInv, ThreadsHold
  <2>2. mutex # exec[t].sync
    BY <1>0, <1>4, <2>1 DEF SyncExits, SyncInv, SyncTyped, InTransaction
  <2>3. QED BY <1>1, <1>4, <2>1, <2>2 DEF SyncExits
<1>5. CASE Terminate(t)
  <2>1. CASE exec[t].sync = None
    <3>1. UNCHANGED syncVars
      BY <1>5, <2>1 DEF Terminate, syncVars
    <3>2. QED BY <1>0, <3>1, SyncStutter
  <2>2. CASE exec[t].sync # None
    <3>1. exec[t].sync \in Syncs
      BY <1>0, <2>2 DEF Exec
    <3>2. QED BY <1>1, <1>5, <2>2, <3>1 DEF Terminate
  <2>3. QED BY <2>1, <2>2
<1>6. CASE Retry(t)
  BY <1>0, <1>6, SyncStutter DEF Retry
<1>7. QED BY <1>2, <1>3, <1>4, <1>5, <1>6 DEF Execute

\* Every step of the runner's own thread leaves the syncs alone.
LEMMA CycleLeavesSyncs ==
  ASSUME StartCycle \/ Cycle
  PROVE  UNCHANGED syncVars
BY DEF StartCycle, Cycle, StartSource, EndPhase, EndIngestion, EndReport, EndGate, FailGate,
       StartEnrichment, EndEnrichment, EndConnection, EndPublish, EndCleanup, EndCycle

LEMMA Step == Inv /\ [Next]_vars => Inv'
<1> SUFFICES ASSUME Inv, [Next]_vars PROVE Inv'
  OBVIOUS
<1>0. SyncInv /\ RunnerInv
  BY DEF Inv
<1>1. ASSUME NEW t \in Threads, Execute(t) PROVE Inv'
  BY <1>0, <1>1, ExecuteKeeps, ExecuteKeepsSyncs DEF Inv
<1>2. CASE StartCycle
  BY <1>0, <1>2, CycleLeavesSyncs, SyncStutter, StartCycleKeeps DEF Inv
<1>3. CASE Cycle
  BY <1>0, <1>3, CycleLeavesSyncs, SyncStutter, CycleKeeps DEF Inv
<1>4. CASE Stop
  <2>1. UNCHANGED syncVars /\ stop' = TRUE /\ UNCHANGED <<setting, exec, runner, results, latest>>
    BY <1>4 DEF Stop
  <2>2. RunnerInv'
    BY <1>0, <2>1 DEF RunnerInv, RunnerTyped, ThreadsHold, SourcesHold, StepsHold, Passed,
                      IngestionOk
  <2>3. QED BY <1>0, <2>1, <2>2, SyncStutter DEF Inv
<1>5. CASE Kill
  BY <1>0, <1>5, SyncStutter, KillKeeps DEF Kill, Inv
<1>6. CASE Ingest
  <2>1. UNCHANGED <<setting, runnerVars>>
    BY <1>6 DEF Ingest
  <2>2. QED BY <1>0, <1>6, <2>1, IngestKeeps, RunnerStutter DEF Inv
<1>7. ASSUME NEW s \in Syncs, Serve(s) PROVE Inv'
  BY <1>0, <1>7, RunSyncKeeps, RunnerStutter DEF Serve, Inv
<1>8. ASSUME NEW s \in Syncs, FailSync(s) PROVE Inv'
  <2>1. EndSync(s, 1) /\ UNCHANGED database /\ UNCHANGED <<setting, runnerVars>>
    BY <1>8 DEF FailSync, AbortSync
  <2>2. QED BY <1>0, <2>1, EndSyncKeeps, RunnerStutter DEF Inv
<1>9. ASSUME NEW s \in Syncs, ReapOrphan(s) PROVE Inv'
  <2>1. /\ sync' = [sync EXCEPT ![s] = NoSync] /\ sync[s].pc = "ended"
        /\ UNCHANGED <<database, mutex>> /\ UNCHANGED <<setting, runnerVars>>
    BY <1>9 DEF ReapOrphan
  <2>2. mutex # s
    BY <1>0, <2>1 DEF SyncInv, SyncTyped, InTransaction
  <2>3. SyncInv'
    BY <1>0, <2>1, <2>2, NoSyncType, ResetKeeps DEF InTransaction
  <2>4. QED BY <1>0, <2>1, <2>3, RunnerStutter DEF Inv
<1>10. ASSUME NEW s \in Syncs, NEW mode \in {"apply", "dry_run", "verify_only"},
              StartManual(s, mode)
       PROVE  Inv'
  <2>1. /\ sync[s].pc = "off" /\ Launch(s, mode) /\ UNCHANGED <<database, mutex>>
        /\ UNCHANGED <<setting, runnerVars>>
    BY <1>10 DEF StartManual
  <2>2. QED BY <1>0, <2>1, LaunchKeeps, RunnerStutter DEF Inv
<1>11. CASE UNCHANGED vars
  BY <1>0, <1>11, SyncStutter, RunnerStutter DEF vars, Inv, runnerVars
<1>12. QED BY <1>1, <1>2, <1>3, <1>4, <1>5, <1>6, <1>7, <1>8, <1>9, <1>10, <1>11 DEF Next, Mode

\* The inductive invariant behind the theorems below.
THEOREM InvHolds == Spec => []Inv
BY InitInv, Step, PTL DEF Spec

-----------------------------------------------------------------------------
(* The properties.                                                         *)

\* Rows, threads and runner have the values their code gives them, and the advisory
\* lock belongs to the one sync that is in its transaction (sync, execute, cycle).
THEOREM TypeCorrect == Spec => []TypeOK
<1>1. Inv => TypeOK
  BY DEF Inv, SyncInv, SyncTyped, RunnerInv, RunnerTyped, TypeOK, InTransaction
<1>2. QED BY <1>1, InvHolds, PTL

\* The jobs are published by a runner only in a cycle in which every phase of every
\* source, the health report and its gate have passed (cycle, publish_ok).
THEOREM PublishIsGatedHolds == Spec => []PublishIsGated
<1>1. Inv => PublishIsGated
  <2> SUFFICES ASSUME Inv, exec[Main].label \in {"connection", "publish"}
               PROVE  /\ \A x \in Sources, n \in 1 .. 3 : Passed(x, Phases[n])
                      /\ \A step \in {"report", "gate"} : Passed(Main, step)
    BY DEF PublishIsGated, Passed
  <2>1. /\ runner.pc \in {"connection", "publish"} /\ IngestionOk /\ runner.health
    BY DEF Inv, RunnerInv, StepsHold
  <2>2. \A x \in Sources : runner.ok[x] /\ runner.phase[x] = Done
    BY <2>1 DEF IngestionOk, Inv, RunnerInv, SourcesHold
  <2>3. \A x \in Sources, n \in 1 .. 3 : Passed(x, Phases[n])
    BY <2>2 DEF Done, Inv, RunnerInv, SourcesHold
  <2>4. Passed(Main, "report") /\ Passed(Main, "gate")
    BY <2>1 DEF Inv, RunnerInv, StepsHold
  <2>5. QED BY <2>3, <2>4
<1>2. QED BY <1>1, InvHolds, PTL

\* latest.json says "completed" only of a cycle in which every phase of every source
\* and the gate have passed and no task failed (cycle, source).
THEOREM StatusIsHonestHolds == Spec => StatusIsHonest
<1> DEFINE Honest ==
      EndCycle /\ latest' = "completed" =>
         /\ \A x \in Sources, n \in 1 .. 3 : [thread |-> x, label |-> Phases[n], code |-> 0] \in results
         /\ [thread |-> Main, label |-> "gate", code |-> 0] \in results
         /\ \A task \in results : task.code = 0
<1>1. Inv => Honest
  <2> SUFFICES ASSUME Inv, EndCycle, latest' = "completed"
               PROVE  /\ \A x \in Sources, n \in 1 .. 3 : Passed(x, Phases[n])
                      /\ Passed(Main, "gate")
                      /\ \A task \in results : task.code = 0
    BY DEF Passed
  <2>1. /\ runner.pc = "finish" /\ IngestionOk /\ runner.health
        /\ \A task \in results : task.code = 0
    BY DEF EndCycle, Status
  <2>2. \A x \in Sources : runner.ok[x] /\ runner.phase[x] = Done
    BY <2>1 DEF IngestionOk, Inv, RunnerInv, SourcesHold
  <2>3. \A x \in Sources, n \in 1 .. 3 : Passed(x, Phases[n])
    BY <2>2 DEF Done, Inv, RunnerInv, SourcesHold
  <2>4. QED BY <2>1, <2>3 DEF Inv, RunnerInv, StepsHold
<1>2. Inv => [Honest]_vars
  BY <1>1
<1>3. QED BY <1>2, InvHolds, PTL DEF StatusIsHonest

\* What changes the served rows is one sync, the holder of the lock, that has staged a
\* snapshot it does not refuse.
LEMMA WhoServes ==
  ASSUME Inv, [Next]_vars, serving' # serving \/ applied' # applied
  PROVE  \E s \in Syncs :
           /\ mutex = s /\ sync[s].pc = "staged" /\ sync[s].snap \in [Postings -> Posting]
           /\ serving' = Reconciled(serving, sync[s].snap) /\ applied' = sync[s].at
<1>1. ASSUME NEW s \in Syncs, Reconcile(s), serving' # serving \/ applied' # applied
      PROVE  /\ mutex = s /\ sync[s].pc = "staged" /\ sync[s].snap \in [Postings -> Posting]
             /\ serving' = Reconciled(serving, sync[s].snap) /\ applied' = sync[s].at
  <2>1. sync[s].pc = "staged"
    BY <1>1 DEF Reconcile
  <2>2. mutex = s /\ sync[s].snap \in [Postings -> Posting]
    BY <2>1 DEF Inv, SyncInv, SyncTyped, SnapshotsInOrder, InTransaction
  <2>3. serving' = Reconciled(serving, sync[s].snap) /\ applied' = sync[s].at
    BY <1>1 DEF Reconcile
  <2>4. QED BY <2>1, <2>2, <2>3
<1>2. ASSUME ~\E s \in Syncs : Reconcile(s) PROVE UNCHANGED <<serving, applied>>
  <2>1. CASE \E t \in Threads : Execute(t)
    BY <2>1 DEF Execute, StartTask, TaskExits, SyncExits, Terminate, Retry, syncVars, database
  <2>2. CASE StartCycle \/ Cycle
    BY <2>2, CycleLeavesSyncs DEF syncVars, database
  <2>3. CASE Stop \/ Kill
    BY <2>3 DEF Stop, Kill, syncVars, database
  <2>4. CASE Ingest
    BY <2>4 DEF Ingest, FinalizeCdc, ChangeScope, Remap, SaveResult, RemovePosting, LocalCommit
  <2>5. ASSUME NEW s \in Syncs, Serve(s) PROVE UNCHANGED <<serving, applied>>
    BY <1>2, <2>5 DEF Serve, RunSync, TryLock, TakeSnapshot, StageSnapshot, Preview, database
  <2>6. ASSUME NEW s \in Syncs,
               \/ FailSync(s) \/ ReapOrphan(s)
               \/ \E mode \in {"apply", "dry_run", "verify_only"} : StartManual(s, mode)
        PROVE  UNCHANGED <<serving, applied>>
    BY <2>6 DEF FailSync, AbortSync, ReapOrphan, StartManual, database
  <2>7. CASE UNCHANGED vars
    BY <2>7 DEF vars, syncVars, database
  <2>8. QED BY <2>1, <2>2, <2>3, <2>4, <2>5, <2>6, <2>7 DEF Next, Mode
<1>3. QED BY <1>1, <1>2

\* A published job is deleted only when its posting is in the snapshot being applied and
\* not active, or was removed from the local database before the snapshot was taken: a
\* snapshot never misses a posting for another reason (stage_snapshot, reconcile).
THEOREM DeletionsAreEvidenced == Spec => DeletionIsEvidence
<1> DEFINE Evidence ==
      \A p \in Postings : serving[p] # None /\ serving'[p] = None =>
         \E s \in Syncs : mutex = s /\ LET row == sync[s].snap[p]
                                       IN  row.gone \/ (row.posted /\ row.status # "active")
<1>1. Inv /\ [Next]_vars => Evidence
  <2> SUFFICES ASSUME Inv, [Next]_vars, NEW p \in Postings, serving[p] # None, serving'[p] = None
               PROVE  \E s \in Syncs :
                        /\ mutex = s
                        /\ \/ sync[s].snap[p].gone
                           \/ sync[s].snap[p].posted /\ sync[s].snap[p].status # "active"
    BY DEF Evidence
  <2>1. PICK s \in Syncs :
          /\ mutex = s /\ sync[s].pc = "staged" /\ sync[s].snap \in [Postings -> Posting]
          /\ serving' = Reconciled(serving, sync[s].snap)
    BY WhoServes
  <2>2. serving \in [Postings -> ServedRow \cup {None}]
    BY DEF Inv, SyncInv, SyncTyped
  <2>3. p \notin Active(sync[s].snap)
    BY <2>1, <2>2, ReconciledRows
  <2>4. Known(sync[s].snap[p]) /\ (sync[s].snap[p].posted => sync[s].snap[p].mapped)
    BY <2>1 DEF Inv, SyncInv, SnapshotsInOrder, Refuses
  <2>5. QED BY <2>1, <2>3, <2>4 DEF Active, Known
<1>2. Inv /\ [Next]_vars => [Evidence]_vars
  BY <1>1
<1>3. QED BY <1>2, InvHolds, PTL DEF DeletionIsEvidence, Spec

\* Of the syncs that run at once, none applies an older snapshot after a newer one
\* (sync, the advisory lock).
THEOREM NewerStays == Spec => NewerIsNotUndone
<1>1. Inv /\ [Next]_vars => applied' >= applied
  <2> SUFFICES ASSUME Inv, [Next]_vars, applied' # applied PROVE applied' >= applied
    BY DEF Inv, SyncInv, SyncTyped
  <2>1. PICK s \in Syncs : sync[s].pc = "staged" /\ applied' = sync[s].at
    BY WhoServes
  <2>2. applied <= sync[s].at /\ applied \in Nat /\ sync[s].at \in Nat
    BY <2>1 DEF Inv, SyncInv, SyncTyped, SnapshotsInOrder, SyncProcess, Mode
  <2>3. QED BY <2>1, <2>2
<1>2. QED BY <1>1, InvHolds, PTL DEF NewerIsNotUndone, Spec

=============================================================================
