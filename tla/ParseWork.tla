----------------------------- MODULE ParseWork -----------------------------
(***************************************************************************)
(* The parse phase of one source: the queue of parse attempts in the state *)
(* store (postgres_state.py), the service that works it off                *)
(* (parsing/service.py) and the store of parsed results (postgres.py).     *)
(*                                                                         *)
(* A run claims a raw object, reads and verifies it, parses it, saves the  *)
(* result through a connection of its own and only then closes the         *)
(* attempt; it may die between any two of these.  It holds the source      *)
(* lock, and every transaction of the state store first pings that         *)
(* session; save_parse_result does not.  When the session is lost one      *)
(* transaction that was already checked may still land: the bit slip.      *)
(*                                                                         *)
(* A crawl run appears as the two of its steps that matter here: a listing *)
(* page shows a job, a fetched page becomes the job's raw object.          *)
(*                                                                         *)
(* Abstractions: a page body is a member of Contents and stands for its    *)
(* own SHA-256; a parser version is its place in the order of releases; a  *)
(* run id is the process while it runs and None for ever after; time is    *)
(* the bit "old" (started before now - stale_after_seconds).               *)
(***************************************************************************)
EXTENDS Integers, FiniteSets, Sequences

CONSTANTS
    Jobs,         \* job ids, in claim order (first_seen_at, id)
    Contents,     \* page bodies a site may serve
    Size,         \* their length in bytes
    Workers,      \* processes that run the parse phase
    Cleaner,      \* the process that runs the raw cleanup
    None,
    MaxAttempts,  \* parse.max_attempts
    MaxJobs,      \* parse.max_jobs_per_run
    MaxVersion,   \* BOUND: parser versions released
    MaxRaws,      \* BOUND: raw generations of a job
    Weathers      \* sets of faults: a behaviour meets those of one of them

Faults == {"killed", "session_lost", "read_error", "save_error",
           "object_lost", "object_changed", "page_reverts", "release"}

ASSUME JobsAssumption == Jobs \subseteq Nat /\ None \notin Jobs
ASSUME ContentsAssumption == None \notin Contents /\ Size \in [Contents -> Nat]
ASSUME ProcessesAssumption == {None, Cleaner} \cap Workers = {} /\ Cleaner # None
ASSUME LimitsAssumption ==
    {MaxAttempts, MaxJobs, MaxVersion, MaxRaws} \subseteq Nat \ {0}
ASSUME WeathersAssumption == Weathers \subseteq SUBSET Faults

VARIABLES
    raw,       \* crawl_state.raw_objects, with raw_status of the job
    tries,     \* crawl_state.parse_attempts of each job, oldest first
    results,   \* core.job_parse_results of each posting
    current,   \* the result with is_current, or None
    object,    \* the bucket: the body stored at each job's fixed key
    worker,    \* the processes of the parse phase
    holder,    \* the session that owns the source lock
    slip,      \* workers with one checked transaction left after losing the session
    release,   \* newest parser version installed
    weather, spent  \* faults that may happen; those that have happened

store == <<raw, tries, results, current>>
faultVars == <<weather, spent>>
vars == <<store, object, worker, holder, slip, release, faultVars>>

Body == Contents \cup {None}
Version == 1 .. MaxVersion
RawStatus == {"none", "pending", "raw_ready", "storage_missing", "storage_corrupt"}
Integrity == {"none", "valid", "missing", "size_mismatch", "hash_mismatch"}
Terminal == {"success", "validation_error", "raw_missing", "raw_corrupt"}
TryStatus == {"parsing", "parse_error"} \cup Terminal

RawRow == [status : RawStatus, sha : Body, integrity : Integrity,
           purged : BOOLEAN, gen : 0 .. MaxRaws]
TryRow == [gen : 1 .. MaxRaws, version : Version, run : Workers \cup {None},
           status : TryStatus, old : BOOLEAN]
\* A result is kept under the hash of the raw row; "of" is the body it was made from.
Result == [sha : Contents, version : Version, of : Contents]
Process == [pc : {"off", "recover", "claim", "read", "parse", "save", "saved", "raw_missing",
                  "size_mismatch", "hash_mismatch", "parse_error", "validation_error"},
            job : Jobs \cup {None}, try : Nat, sha : Body, body : Body,
            version : Version, processed : 0 .. MaxJobs]

Idle == [pc |-> "off", job |-> None, try |-> 0, sha |-> None, body |-> None,
         version |-> 1, processed |-> 0]

Init ==
    /\ raw = [j \in Jobs |-> [status |-> "none", sha |-> None, integrity |-> "none",
                              purged |-> FALSE, gen |-> 0]]
    /\ tries = [j \in Jobs |-> <<>>]
    /\ results = [j \in Jobs |-> {}]
    /\ current = [j \in Jobs |-> None]
    /\ object = [j \in Jobs |-> None]
    /\ worker = [w \in Workers |-> Idle]
    /\ holder = None /\ slip = {}
    /\ release = 1
    /\ weather \in Weathers /\ spent = {}

Fault(f) == f \in weather \ spent /\ spent' = spent \cup {f} /\ UNCHANGED weather

-----------------------------------------------------------------------------
(* The claim query and the transactions.  A definition with a suffix after *)
(* an underscore is the one below it with a plausible bug; only the        *)
(* mutants in PROJECT.json use it.                                         *)

TriesOf_AllGenerations(j, v) ==
    {i \in DOMAIN tries[j] : tries[j][i].version = v}

\* Attempts of this version since the raw object was last replaced.
TriesOf(j, v) ==
    {i \in DOMAIN tries[j] : tries[j][i].version = v /\ tries[j][i].gen = raw[j].gen}

Claimable_EvenActive(w, j) ==
    LET mine == TriesOf(j, worker[w].version)
    IN  /\ raw[j].status = "raw_ready" /\ raw[j].integrity = "valid"
        /\ \A i \in mine : tries[j][i].status \notin Terminal /\ tries[j][i].run # w
        /\ Cardinality(mine) < MaxAttempts

Claimable(w, j) ==
    LET mine == TriesOf(j, worker[w].version)
    IN  /\ raw[j].status = "raw_ready" /\ raw[j].integrity = "valid"
        /\ \A i \in mine : tries[j][i].status \notin Terminal \cup {"parsing"}
                           /\ tries[j][i].run # w
        /\ Cardinality(mine) < MaxAttempts

\* _connect pings the session that owns the lock; a worker that lost it has at
\* most the transaction it had already checked.
MayWrite(w) == holder = w \/ w \in slip

\* The process ends, by itself or not; its run id is never used again.
Leave(w) ==
    /\ worker' = [worker EXCEPT ![w] = Idle]
    /\ holder' = IF holder = w THEN None ELSE holder
    /\ slip' = slip \ {w}

\* A transaction lands; without its session the process then fails on the next.
Step(w, p) ==
    /\ worker' = [worker EXCEPT ![w] = p]
    /\ slip' = slip \ {w}
    /\ UNCHANGED holder

\* Attempts of a run that is over keep an id no later run has.
Forget(w, rows) ==
    [j \in Jobs |-> [i \in DOMAIN rows[j] |->
        IF rows[j][i].run = w THEN [rows[j][i] EXCEPT !.run = None] ELSE rows[j][i]]]

\* complete_parse and fail_parse touch the attempt only while it is this run's
\* and still parsing; otherwise they raise and roll back.
Owned_AnyStatus(w) == tries[worker[w].job][worker[w].try].run = w

Owned(w) ==
    LET row == tries[worker[w].job][worker[w].try]
    IN  row.run = w /\ row.status = "parsing"

Close(w, s) ==
    [tries EXCEPT ![worker[w].job][worker[w].try].status = s,
                  ![worker[w].job][worker[w].try].old = FALSE]

-----------------------------------------------------------------------------
(* The parse service.                                                      *)

\* source_run takes the lock; start_run registers the run.
StartParse(w) ==
    /\ worker[w].pc = "off"
    /\ holder = None /\ holder' = w
    /\ worker' = [worker EXCEPT ![w] = [Idle EXCEPT !.pc = "recover", !.version = release]]
    /\ UNCHANGED <<store, object, slip, release, faultVars>>

RecoverStaleParses_Young(w) ==
    tries' = [j \in Jobs |-> [i \in DOMAIN tries[j] |->
                IF tries[j][i].status = "parsing" /\ ~tries[j][i].old
                  THEN [tries[j][i] EXCEPT !.status = "parse_error", !.old = FALSE] ELSE tries[j][i]]]

RecoverStaleParses(w) ==
    tries' = [j \in Jobs |-> [i \in DOMAIN tries[j] |->
                IF tries[j][i].status = "parsing" /\ tries[j][i].old
                  THEN [tries[j][i] EXCEPT !.status = "parse_error", !.old = FALSE] ELSE tries[j][i]]]

Recover(w) ==
    /\ worker[w].pc = "recover" /\ MayWrite(w)
    /\ RecoverStaleParses(w)
    /\ Step(w, [worker[w] EXCEPT !.pc = "claim"])
    /\ UNCHANGED <<raw, results, current, object, release, faultVars>>

ClaimNextRaw(w) ==
    /\ worker[w].pc = "claim" /\ MayWrite(w)
    /\ worker[w].processed < MaxJobs
    /\ \E j \in Jobs :
         /\ Claimable(w, j)
         /\ \A k \in Jobs : Claimable(w, k) => j <= k
         /\ tries' = [tries EXCEPT ![j] = Append(@,
                       [gen |-> raw[j].gen, version |-> worker[w].version, run |-> w,
                        status |-> "parsing", old |-> FALSE])]
         /\ Step(w, [worker[w] EXCEPT !.pc = "read", !.job = j, !.sha = raw[j].sha,
                                      !.try = Len(tries[j]) + 1,
                                      !.processed = @ + 1])
    /\ UNCHANGED <<raw, results, current, object, release, faultVars>>

\* Nothing is left to claim, or the run has had its share.
EndParse(w) ==
    /\ worker[w].pc = "claim" /\ MayWrite(w)
    /\ worker[w].processed = MaxJobs \/ \A j \in Jobs : ~Claimable(w, j)
    /\ Leave(w)
    /\ tries' = Forget(w, tries)
    /\ UNCHANGED <<raw, results, current, object, release, faultVars>>

ReadVerdict_SizeOnly(w, body) ==
    IF body = None THEN "raw_missing"
    ELSE IF Size[body] # Size[worker[w].sha] THEN "size_mismatch"
    ELSE "parse"

ReadVerdict(w, body) ==
    IF body = None THEN "raw_missing"
    ELSE IF Size[body] # Size[worker[w].sha] THEN "size_mismatch"
    ELSE IF body # worker[w].sha THEN "hash_mismatch"
    ELSE "parse"

ReadObject(w) ==
    /\ worker[w].pc = "read"
    /\ LET body == object[worker[w].job]
       IN  \/ /\ worker' = [worker EXCEPT ![w].pc = ReadVerdict(w, body), ![w].body = body]
              /\ UNCHANGED faultVars
           \/ /\ Fault("read_error")
              /\ worker' = [worker EXCEPT ![w].pc = "parse_error"]
    /\ UNCHANGED <<store, object, holder, slip, release>>

\* Decoding, the parser and the quality assessment: a parser may raise, and an
\* output may be refused.
Parse(w) ==
    /\ worker[w].pc = "parse"
    /\ \E outcome \in {"save", "parse_error", "validation_error"} :
         worker' = [worker EXCEPT ![w].pc = outcome]
    /\ UNCHANGED <<store, object, holder, slip, release, faultVars>>

Found(j, sha, v) == \E r \in results[j] : r.sha = sha /\ r.version = v

SaveParseResult_AnotherVersion(j, r) ==
    IF \E old \in results[j] : old.sha = r.sha
      THEN UNCHANGED <<results, current>>
      ELSE /\ results' = [results EXCEPT ![j] = @ \cup {r}]
           /\ current' = [current EXCEPT ![j] = r]

SaveParseResult_Replace(j, r) ==
    /\ results' = [results EXCEPT ![j] = @ \cup {r}]
    /\ current' = [current EXCEPT ![j] = r]

\* One transaction of the result store, on a connection that does not ping the
\* lock.  A result that exists is left as it is, current or not.
SaveParseResult(j, r) ==
    IF Found(j, r.sha, r.version)
      THEN UNCHANGED <<results, current>>
      ELSE /\ results' = [results EXCEPT ![j] = @ \cup {r}]
           /\ current' = [current EXCEPT ![j] = r]

Save(w) ==
    /\ worker[w].pc = "save"
    /\ \/ /\ SaveParseResult(worker[w].job, [sha |-> worker[w].sha, of |-> worker[w].body,
                                             version |-> worker[w].version])
          /\ worker' = [worker EXCEPT ![w].pc = "saved"]
          /\ UNCHANGED faultVars
       \/ /\ Fault("save_error")
          /\ worker' = [worker EXCEPT ![w].pc = "parse_error"]
          /\ UNCHANGED <<results, current>>
    /\ UNCHANGED <<raw, tries, object, holder, slip, release>>

NextClaim(w) == [worker[w] EXCEPT !.pc = "claim", !.job = None, !.try = 0,
                                  !.sha = None, !.body = None]

CompleteParse(w) ==
    /\ worker[w].pc = "saved" /\ MayWrite(w)
    /\ Owned(w)
    /\ tries' = Close(w, "success")
    /\ Step(w, NextClaim(w))
    /\ UNCHANGED <<raw, results, current, object, release, faultVars>>

Mismatch == {"size_mismatch", "hash_mismatch"}

FailStatus_Detail(pc) == pc

FailStatus(pc) == IF pc \in Mismatch THEN "raw_corrupt" ELSE pc

FailParse(w) ==
    LET pc == worker[w].pc
        j == worker[w].job
    IN  /\ pc \in {"raw_missing", "parse_error", "validation_error"} \cup Mismatch
        /\ MayWrite(w) /\ Owned(w)
        /\ tries' = Close(w, FailStatus(pc))
        /\ raw' = CASE pc = "raw_missing" ->
                         [raw EXCEPT ![j].integrity = "missing", ![j].status = "storage_missing"]
                    [] pc \in Mismatch ->
                         [raw EXCEPT ![j].integrity = pc, ![j].status = "storage_corrupt"]
                    [] OTHER -> raw
        /\ Step(w, NextClaim(w))
        /\ UNCHANGED <<results, current, object, release, faultVars>>

\* The session is gone, or the attempt is not this run's any more: the service
\* raises, and the process ends without closing anything.
GiveUp(w) ==
    /\ worker[w].pc \notin {"off", "read", "parse", "save"}
    /\ \/ ~MayWrite(w)
       \/ worker[w].pc \notin {"recover", "claim"} /\ ~Owned(w)
    /\ Leave(w)
    /\ tries' = Forget(w, tries)
    /\ UNCHANGED <<raw, results, current, object, release, faultVars>>

Kill(w) ==
    /\ worker[w].pc # "off"
    /\ Fault("killed")
    /\ Leave(w)
    /\ tries' = Forget(w, tries)
    /\ UNCHANGED <<raw, results, current, object, release>>

LoseSession(w) ==
    /\ holder = w /\ holder' = None
    /\ Fault("session_lost")
    /\ slip' \in {slip, slip \cup {w}}
    /\ UNCHANGED <<store, object, worker, release>>

-----------------------------------------------------------------------------
(* What the parse phase meets.                                             *)

\* An attempt has been open for stale_after_seconds, whether or not the process
\* that opened it is still at work.
GrowOld(j) ==
    /\ \E i \in DOMAIN tries[j] :
         /\ tries[j][i].status = "parsing" /\ ~tries[j][i].old
         /\ tries' = [tries EXCEPT ![j][i].old = TRUE]
    /\ UNCHANGED <<raw, results, current, object, worker, holder, slip, release, faultVars>>

\* A discovery run lists the job: a new one, or a purged one to be fetched anew.
ListJob(j) ==
    /\ holder = None
    /\ \/ raw[j].status = "none"
       \/ raw[j].status = "storage_missing" /\ raw[j].purged
    /\ raw[j].gen < MaxRaws
    /\ raw' = [raw EXCEPT ![j].status = "pending"]
    /\ UNCHANGED <<tries, results, current, object, worker, holder, slip, release, faultVars>>

\* The integrity audit at the start of a crawl run compares sizes only.
AuditRaw(j) ==
    /\ holder = None
    /\ raw[j].sha # None /\ ~raw[j].purged /\ raw[j].status # "pending"
    /\ raw' = CASE object[j] = None ->
                     [raw EXCEPT ![j].integrity = "missing", ![j].status = "storage_missing"]
                [] object[j] # None /\ Size[object[j]] # Size[raw[j].sha] ->
                     [raw EXCEPT ![j].integrity = "size_mismatch", ![j].status = "storage_corrupt"]
                [] OTHER ->
                     [raw EXCEPT ![j].integrity = "valid", ![j].status = "raw_ready"]
    /\ UNCHANGED <<tries, results, current, object, worker, holder, slip, release, faultVars>>

\* A detail run stores the page it fetched: a raw generation starts.
FetchRaw(j, c) ==
    /\ holder = None
    /\ raw[j].status = "pending"
    /\ "page_reverts" \in weather \/ c \notin {r.sha : r \in results[j]} \cup {raw[j].sha}
    /\ object' = [object EXCEPT ![j] = c]
    /\ raw' = [raw EXCEPT ![j] = [status |-> "raw_ready", sha |-> c, integrity |-> "valid",
                                  purged |-> FALSE, gen |-> raw[j].gen + 1]]
    /\ UNCHANGED <<tries, results, current, worker, holder, slip, release, faultVars>>

LoseObject(j) ==
    /\ object[j] # None /\ object' = [object EXCEPT ![j] = None]
    /\ Fault("object_lost")
    /\ UNCHANGED <<store, worker, holder, slip, release>>

ChangeObject(j, c) ==
    /\ object[j] \notin {None, c} /\ object' = [object EXCEPT ![j] = c]
    /\ Fault("object_changed")
    /\ UNCHANGED <<store, worker, holder, slip, release>>

\* A new parser version is installed; runs started from now on use it.
Release ==
    /\ release < MaxVersion /\ release' = release + 1
    /\ "release" \in weather
    /\ UNCHANGED <<store, object, worker, holder, slip, faultVars>>

=============================================================================
