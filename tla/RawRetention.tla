---------------------------- MODULE RawRetention ----------------------------
(***************************************************************************)
(* The raw cleanup (raw_cleanup.py) beside the parse phase of the same     *)
(* source.  The cleanup removes the stored page of a job whose listing has *)
(* expired, once the page's parse is the posting's current result:         *)
(*                                                                         *)
(*   lock the source -> list candidates -> for each: write the intent ->   *)
(*   verify the object -> SELECT 1 -> remove it -> one transaction closes  *)
(*   the intent and sets the purge marker.                                 *)
(*                                                                         *)
(* Its database work runs on the very session that owns the lock, so only  *)
(* remove_object can still happen after the session is lost.               *)
(*                                                                         *)
(* Abstractions: the retention periods are over as soon as a job is        *)
(* expired or long unknown ("old"); the caps on objects and bytes of a run *)
(* are the choice of which candidates it takes.                            *)
(***************************************************************************)
EXTENDS ParseWork

VARIABLES
    listing,  \* of each job: "live", or "old" (expired or unknown beyond retention)
    journal,  \* crawl_state.raw_cleanup_log: rows by job, generation and status
    clean     \* the cleanup process

retention == <<listing, journal, clean>>
allVars == <<vars, retention>>

JournalRow == [job : Jobs, gen : 1 .. MaxRaws, status : {"pending", "deleted", "missing", "changed"}]
CleanProcess == [pc : {"off", "next", "verify", "delete", "record"}, rows : SUBSET Jobs,
                 job : Jobs \cup {None}, again : BOOLEAN,
                 state : {"none", "deleted", "missing", "changed"}]

NoClean == [pc |-> "off", rows |-> {}, job |-> None, again |-> FALSE, state |-> "none"]

RetentionInit ==
    /\ Init
    /\ listing = [j \in Jobs |-> "live"]
    /\ journal = {}
    /\ clean = NoClean

-----------------------------------------------------------------------------
(* The cleanup.                                                            *)

Candidate_IgnoresResult(j) ==
    /\ listing[j] = "old"
    /\ raw[j].sha # None /\ ~raw[j].purged
    /\ raw[j].status \in {"raw_ready", "storage_missing"}
    /\ \A i \in DOMAIN tries[j] : tries[j][i].status # "parsing"

Candidate_ReadyOnly(j) ==
    /\ listing[j] = "old"
    /\ raw[j].sha # None /\ ~raw[j].purged
    /\ raw[j].status = "raw_ready"
    /\ \A i \in DOMAIN tries[j] : tries[j][i].status # "parsing"
    /\ current[j] # None /\ current[j].sha = raw[j].sha

Candidate(j) ==
    /\ listing[j] = "old"
    /\ raw[j].sha # None /\ ~raw[j].purged
    /\ raw[j].status \in {"raw_ready", "storage_missing"}
    /\ \A i \in DOMAIN tries[j] : tries[j][i].status # "parsing"
    /\ current[j] # None /\ current[j].sha = raw[j].sha

\* A source whose lock is taken is skipped.
StartCleanup ==
    /\ clean.pc = "off"
    /\ holder = None /\ holder' = Cleaner
    /\ \E rows \in SUBSET {j \in Jobs : Candidate(j)} \ {{}} :
         clean' = [NoClean EXCEPT !.pc = "next", !.rows = rows]
    /\ UNCHANGED <<store, object, worker, slip, release, faultVars, listing, journal>>

WriteIntent_Uncommitted ==
    /\ clean.pc = "next" /\ holder = Cleaner
    /\ \E j \in clean.rows :
         clean' = [clean EXCEPT !.pc = "verify", !.rows = @ \ {j}, !.job = j]
    /\ UNCHANGED <<store, object, worker, holder, slip, release, faultVars, listing, journal>>

Intent(j) == [job |-> j, gen |-> raw[j].gen, status |-> "pending"]

\* The intent is committed before the object store is touched; one that an
\* interrupted cleanup left behind stays pending beside it.
WriteIntent ==
    /\ clean.pc = "next" /\ holder = Cleaner
    /\ \E j \in clean.rows :
         /\ clean' = [clean EXCEPT !.pc = "verify", !.rows = @ \ {j}, !.job = j,
                                   !.again = Intent(j) \in journal]
         /\ journal' = journal \cup {Intent(j)}
    /\ UNCHANGED <<store, object, worker, holder, slip, release, faultVars, listing>>

\* "deleted" is what a matching object will be.
ObjectState(j) ==
    IF object[j] = None THEN "missing"
    ELSE IF object[j] = raw[j].sha THEN "deleted" ELSE "changed"

\* A matching object is removed after a last SELECT 1 on the session.
VerifyObject ==
    /\ clean.pc = "verify"
    /\ LET s == ObjectState(clean.job)
       IN  /\ s = "deleted" => holder = Cleaner
           /\ clean' = [clean EXCEPT !.state = s,
                                     !.pc = IF s = "deleted" THEN "delete" ELSE "record"]
    /\ UNCHANGED <<store, object, worker, holder, slip, release, faultVars, listing, journal>>

RemoveObject ==
    /\ clean.pc = "delete"
    /\ object' = [object EXCEPT ![clean.job] = None]
    /\ clean' = [clean EXCEPT !.pc = "record"]
    /\ UNCHANGED <<store, worker, holder, slip, release, faultVars, listing, journal>>

PurgeMarker(j) ==
    raw' = IF clean.state = "changed" THEN raw
           ELSE [raw EXCEPT ![j].purged = TRUE, ![j].status = "storage_missing"]

RecordPurge ==
    /\ clean.pc = "record" /\ holder = Cleaner
    /\ LET j == clean.job
           others == IF clean.again THEN journal ELSE journal \ {Intent(j)}
       IN  /\ journal' = others \cup {[Intent(j) EXCEPT !.status = clean.state]}
           /\ PurgeMarker(j)
    /\ clean' = [clean EXCEPT !.pc = "next", !.job = None, !.again = FALSE, !.state = "none"]
    /\ UNCHANGED <<tries, results, current, object, worker, holder, slip, release, faultVars,
                   listing>>

LeaveCleanup ==
    /\ clean' = NoClean
    /\ holder' = IF holder = Cleaner THEN None ELSE holder
    /\ UNCHANGED <<store, object, worker, slip, release, listing, journal>>

EndCleanup ==
    /\ clean.pc = "next" /\ clean.rows = {}
    /\ LeaveCleanup /\ UNCHANGED faultVars

\* Any statement on a lost session raises.
CleanupGivesUp ==
    /\ clean.pc \in {"next", "verify", "record"} /\ holder # Cleaner
    /\ LeaveCleanup /\ UNCHANGED faultVars

KillCleanup ==
    /\ clean.pc # "off"
    /\ LeaveCleanup /\ Fault("killed")

CleanupLosesSession ==
    /\ holder = Cleaner /\ holder' = None
    /\ Fault("session_lost")
    /\ UNCHANGED <<store, object, worker, slip, release, retention>>

\* Listing change detection expires a job.
ExpireListing(j) ==
    /\ holder = None
    /\ raw[j].status # "none" /\ listing[j] = "live"
    /\ listing' = [listing EXCEPT ![j] = "old"]
    /\ UNCHANGED <<vars, journal, clean>>

\* A listed job is live again; a new or a purged one is also queued for its page.
Relist(j) ==
    /\ \/ ListJob(j)
       \/ /\ holder = None
          /\ listing[j] = "old" /\ ~raw[j].purged
          /\ UNCHANGED vars
    /\ listing' = [listing EXCEPT ![j] = "live"]
    /\ UNCHANGED <<journal, clean>>

-----------------------------------------------------------------------------

Serve(w) == Recover(w) \/ ClaimNextRaw(w) \/ EndParse(w) \/ ReadObject(w) \/ Parse(w)
            \/ Save(w) \/ CompleteParse(w) \/ FailParse(w) \/ GiveUp(w)

Cleanup == WriteIntent \/ VerifyObject \/ RemoveObject \/ RecordPurge \/ EndCleanup
           \/ CleanupGivesUp

ParseNext ==
    \/ \E w \in Workers : StartParse(w) \/ Serve(w) \/ Kill(w) \/ LoseSession(w)
    \/ \E j \in Jobs : \/ GrowOld(j) \/ AuditRaw(j) \/ LoseObject(j)
                       \/ \E c \in Contents : FetchRaw(j, c) \/ ChangeObject(j, c)
    \/ Release

Next ==
    \/ ParseNext /\ UNCHANGED retention
    \/ StartCleanup \/ Cleanup \/ KillCleanup \/ CleanupLosesSession
    \/ \E j \in Jobs : ExpireListing(j) \/ Relist(j)

Spec == RetentionInit /\ [][Next]_allVars

Fairness ==
    /\ \A w \in Workers : WF_allVars(Serve(w) /\ UNCHANGED retention)
    /\ SF_allVars(\E w \in Workers : StartParse(w) /\ UNCHANGED retention)
    /\ WF_allVars(Cleanup) /\ SF_allVars(StartCleanup)
    /\ \A j \in Jobs : WF_allVars(GrowOld(j) /\ UNCHANGED retention)

FairSpec == Spec /\ Fairness

-----------------------------------------------------------------------------
(* Properties.                                                             *)

TypeOK ==
    /\ raw \in [Jobs -> RawRow]
    /\ \A j \in Jobs : /\ tries[j] \in Seq(TryRow)
                       /\ results[j] \subseteq Result
                       /\ current[j] \in results[j] \cup {None}
    /\ object \in [Jobs -> Body]
    /\ worker \in [Workers -> Process]
    /\ holder \in Workers \cup {Cleaner, None} /\ slip \subseteq Workers
    /\ release \in Version
    /\ weather \in Weathers /\ spent \subseteq weather
    /\ listing \in [Jobs -> {"live", "old"}]
    /\ journal \subseteq JournalRow
    /\ clean \in CleanProcess

\* The attempts of a parser version on the page that is stored now.
Attempts(j, v) ==
    {i \in DOMAIN tries[j] : tries[j][i].gen = raw[j].gen /\ tries[j][i].version = v}

Succeeded(j) == {tries[j][i].version : i \in {k \in DOMAIN tries[j] :
                    tries[j][k].gen = raw[j].gen /\ tries[j][k].status = "success"}}

\* No attempt is recorded as a success unless the result of its page and parser
\* version is stored, wherever a process died, lost its lock or was overtaken.
SuccessIsStored ==
    \A j \in Jobs : \A v \in Succeeded(j) : Found(j, raw[j].sha, v)

\* A stored result was made from the very bytes its hash names, although the
\* object may be overwritten between the crawl and the parse.
ResultIsGenuine == \A j \in Jobs : \A r \in results[j] : r.sha = r.of

\* Attempts on one raw generation and parser version stay within the budget, and
\* at most one is open, also while a process that lost its lock is still at work.
AttemptBudget ==
    \A j \in Jobs, v \in Version :
        /\ Cardinality(Attempts(j, v)) <= MaxAttempts
        /\ Cardinality({i \in Attempts(j, v) : tries[j][i].status = "parsing"}) <= 1

\* Once the stored page is parsed, the current result is that of this page by the
\* newest version that parsed it, or a newer one: no crash, retry or late write leaves an older
\* one.  Not promised when a page returns to an earlier body (its old result is
\* found and not made current again), nor when a process that lost its lock saves
\* for a version that is no longer the newest.
CurrentMatchesRaw ==
    "page_reverts" \notin weather /\ ~({"session_lost", "release"} \subseteq weather) =>
        \A j \in Jobs : \A v \in Succeeded(j) :
            current[j].sha = raw[j].sha /\ current[j].version >= v

\* Attempts, results and the current result agree on what was parsed from what.
ResultsAgree == TypeOK /\ SuccessIsStored /\ ResultIsGenuine /\ CurrentMatchesRaw

\* An attempt once closed keeps its outcome: a process whose claim was recovered
\* as stale cannot overwrite it.
ClosedIsFinal ==
    [][\A j \in Jobs : \A i \in DOMAIN tries[j] :
         tries[j][i].status # "parsing" => tries'[j][i].status = tries[j][i].status]_tries

\* The cleanup removes only a page that is parsed, even when its session went
\* between the last SELECT 1 and the removal.  As long as no session is lost the
\* page's result is also still the current one and nobody is parsing the page.
RemovalIsSafe ==
    [][\A j \in Jobs :
         RemoveObject /\ clean.job = j
           => /\ object[j] \in {raw[j].sha, None} \/ "object_changed" \in spent
              /\ \E v \in Version : Found(j, raw[j].sha, v)
              /\ "session_lost" \notin spent =>
                    /\ current[j].sha = raw[j].sha
                    /\ \A i \in DOMAIN tries[j] : tries[j][i].status # "parsing"]_object

\* A page missing from the bucket while its row is unpurged, and that the
\* environment did not lose, has an intent in the journal: an interrupted purge
\* is never silent.
MissingIsExplained ==
    {"object_lost", "session_lost"} \cap weather = {} =>
        \A j \in Jobs : raw[j].sha # None /\ ~raw[j].purged /\ object[j] = None =>
            Intent(j) \in journal

\* Every page that is ready is parsed, refused or out of attempts in the end,
\* unless it stops being ready; and every attempt is closed in the end, even if
\* its process was killed or raised.
EveryPageSettles ==
    \A j \in Jobs :
        /\ raw[j].status = "raw_ready" ~>
            \/ raw[j].status # "raw_ready" \/ raw[j].integrity # "valid"
            \/ Cardinality(Attempts(j, release)) = MaxAttempts
            \/ \E i \in Attempts(j, release) : tries[j][i].status \in Terminal
        /\ (\E i \in DOMAIN tries[j] : tries[j][i].status = "parsing")
            ~> \A i \in DOMAIN tries[j] : tries[j][i].status # "parsing"

\* A removal that was interrupted before its record is completed by a later
\* cleanup, unless the job is listed again.
PurgeEnds ==
    \A j \in Jobs :
        raw[j].sha # None /\ object[j] = None /\ listing[j] = "old"
        /\ Intent(j) \in journal
            ~> raw[j].purged \/ listing[j] = "live"

=============================================================================
