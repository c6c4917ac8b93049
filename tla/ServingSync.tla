---------------------------- MODULE ServingSync ----------------------------
(***************************************************************************)
(* The publication of active jobs (supabase_sync.py): one transaction on   *)
(* the serving database takes an advisory lock, then a snapshot of the     *)
(* local database, stages it, reconciles the served rows with it, checks   *)
(* the result and commits.  The local database goes on changing, several   *)
(* syncs may run, and any may fail or die.                                 *)
(*                                                                         *)
(* Abstractions: a job row is its content and its last_seen_at; a version  *)
(* counts the commits of the local database, and last_seen_at is the       *)
(* version that saw the job; the consistency checks on the snapshot are    *)
(* the one on the mapping of postings to jobs.  A posting that is removed  *)
(* and written again gets a new id: it is another posting.                 *)
(***************************************************************************)
EXTENDS Integers, FiniteSets

CONSTANTS
    Postings,   \* core.source_job_postings
    Contents,   \* what a parse result may publish
    Syncs,      \* processes that run the sync
    None

VARIABLES
    local,      \* the local database: postings, listing state and current results
    version,    \* commits of the local database
    serving,    \* serving.jobs: the row of each posting, or None
    applied,    \* the version of the snapshot that was committed last
    mutex,      \* holder of the advisory lock and of the table locks
    sync        \* the sync processes

database == <<local, version, serving, applied>>
syncVars == <<database, mutex, sync>>

\* "mapped": the posting has its job and its source; an inner join loses it otherwise.
\* "gone": the posting was in the database and has been removed.
Posting == [posted : BOOLEAN, gone : BOOLEAN, status : {"active", "expired", "unknown"}, seen : Nat,
            content : Contents \cup {None}, mapped : BOOLEAN]
Mode == {"apply", "dry_run", "verify_only"}
ServedRow == [content : Contents, seen : Nat]
SyncProcess == [pc : {"off", "lock", "snapshot", "stage", "staged", "ended"},
                mode : Mode, snap : {None} \cup [Postings -> Posting],
                at : Nat, code : {0, 1}]

ASSUME NoneAssumption == None \notin Contents \cup Syncs \cup ServedRow

NoSync == [pc |-> "off", mode |-> "apply", snap |-> None, at |-> 0, code |-> 0]

SyncInit ==
    /\ local = [p \in Postings |-> [posted |-> FALSE, gone |-> FALSE, status |-> "unknown",
                                    seen |-> 0, content |-> None, mapped |-> TRUE]]
    /\ version = 0
    /\ serving = [p \in Postings |-> None] /\ applied = 0
    /\ mutex = None /\ sync = [s \in Syncs |-> NoSync]

-----------------------------------------------------------------------------
(* The local database: a CDC run sets the listing state of all jobs, a     *)
(* parse the content of one, a mistake may break a mapping, and an         *)
(* operator may remove a posting.                                          *)

LocalCommit(l) ==
    /\ local' = l /\ version' = version + 1
    /\ UNCHANGED <<serving, applied, mutex, sync>>

FinalizeCdc ==
    \E S \in SUBSET Postings :
        LocalCommit([p \in Postings |->
            IF p \in S THEN [local[p] EXCEPT !.status = "active", !.seen = version + 1]
            ELSE [local[p] EXCEPT !.status = IF @ = "active" THEN "expired" ELSE @]])

\* A new scope: nothing is known to be active any more.
ChangeScope == LocalCommit([p \in Postings |-> [local[p] EXCEPT !.status = "unknown"]])

\* The current result is replaced, also by one whose quality is rejected.
SaveResult(p, c) ==
    /\ ~local[p].gone /\ <<local[p].posted, local[p].content>> # <<TRUE, c>>
    /\ LocalCommit([local EXCEPT ![p].posted = TRUE, ![p].content = c])

Remap(p) == local[p].posted /\ LocalCommit([local EXCEPT ![p].mapped = ~@])

\* The posting and its results are deleted by hand: no program of the repository does
\* it, its tests of the sync do.
RemovePosting(p) ==
    /\ local[p].posted
    /\ LocalCommit([local EXCEPT ![p].posted = FALSE, ![p].gone = TRUE, ![p].content = None])

-----------------------------------------------------------------------------
(* What a snapshot says.  A definition with a suffix after an underscore   *)
(* is the one below it with a plausible bug; only the mutants in           *)
(* PROJECT.json use it.                                                    *)

Active(snap) == {p \in Postings : snap[p].posted /\ snap[p].mapped /\ snap[p].status = "active"}
Publishable(snap) == {p \in Active(snap) : snap[p].content # None}

Refuses_Never(snap) == FALSE

Refuses(snap) == \E p \in Postings : snap[p].posted /\ ~snap[p].mapped

Upserted_NewOnly(rows, snap) ==
    [p \in Postings |-> IF p \in Publishable(snap) /\ rows[p] = None
                          THEN [content |-> snap[p].content, seen |-> snap[p].seen] ELSE rows[p]]

Upserted(rows, snap) ==
    [p \in Postings |-> IF p \in Publishable(snap)
                          THEN [content |-> snap[p].content, seen |-> snap[p].seen] ELSE rows[p]]

\* An active job without content keeps what was published of it.
Refreshed(rows, snap) ==
    [p \in Postings |-> IF p \in Active(snap) \ Publishable(snap) /\ rows[p] # None
                          THEN [rows[p] EXCEPT !.seen = snap[p].seen] ELSE rows[p]]

Deleted_WithoutContent(rows, snap) ==
    [p \in Postings |-> IF p \in Publishable(snap) THEN rows[p] ELSE None]

Deleted(rows, snap) == [p \in Postings |-> IF p \in Active(snap) THEN rows[p] ELSE None]

Reconciled(rows, snap) == Deleted(Refreshed(Upserted(rows, snap), snap), snap)

\* changes() finds nothing left to do.
Verified(rows, snap) ==
    /\ \A p \in Publishable(snap) :
         rows[p] = [content |-> snap[p].content, seen |-> snap[p].seen]
    /\ \A p \in Postings : rows[p] # None => p \in Active(snap) /\ rows[p].seen = snap[p].seen

-----------------------------------------------------------------------------
(* The sync process.                                                       *)

Launch(s, mode) ==
    sync' = [sync EXCEPT ![s] = [NoSync EXCEPT !.pc = "lock", !.mode = mode]]

\* The transaction ends, and with it the locks.
EndSync(s, code) ==
    /\ sync' = [sync EXCEPT ![s] = [NoSync EXCEPT !.pc = "ended", !.code = code]]
    /\ mutex' = IF mutex = s THEN None ELSE mutex

LockFree_Always == TRUE

LockFree == mutex = None

\* pg_try_advisory_xact_lock: a second sync does not wait.
TryLock(s) ==
    /\ sync[s].pc = "lock"
    /\ IF LockFree THEN mutex' = s /\ sync' = [sync EXCEPT ![s].pc = "snapshot"]
       ELSE EndSync(s, 1)
    /\ UNCHANGED database

TakeSnapshot(s) ==
    /\ sync[s].pc = "snapshot"
    /\ sync' = [sync EXCEPT ![s].pc = "stage", ![s].snap = local, ![s].at = version]
    /\ UNCHANGED <<database, mutex>>

StageSnapshot(s) ==
    /\ sync[s].pc = "stage"
    /\ IF Refuses(sync[s].snap) THEN EndSync(s, 1)
       ELSE sync' = [sync EXCEPT ![s].pc = "staged"] /\ UNCHANGED mutex
    /\ UNCHANGED database

Preview(s) ==
    /\ sync[s].pc = "staged" /\ sync[s].mode # "apply"
    /\ EndSync(s, IF sync[s].mode = "verify_only" /\ ~Verified(serving, sync[s].snap)
                    THEN 1 ELSE 0)
    /\ UNCHANGED database

\* The rows are reconciled and verified in the transaction; the commit may
\* succeed although its answer is lost.
Reconcile(s) ==
    /\ sync[s].pc = "staged" /\ sync[s].mode = "apply"
    /\ LET rows == Reconciled(serving, sync[s].snap)
       IN  IF Verified(rows, sync[s].snap)
             THEN /\ serving' = rows /\ applied' = sync[s].at
                  /\ \E code \in {0, 1} : EndSync(s, code)
             ELSE EndSync(s, 1) /\ UNCHANGED <<serving, applied>>
    /\ UNCHANGED <<local, version>>

\* The process fails or is killed before its commit.
AbortSync(s) ==
    /\ sync[s].pc \notin {"off", "ended"}
    /\ EndSync(s, 1)
    /\ UNCHANGED database

RunSync(s) == TryLock(s) \/ TakeSnapshot(s) \/ StageSnapshot(s) \/ Preview(s) \/ Reconcile(s)

=============================================================================
